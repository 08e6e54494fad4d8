------------------------- MODULE SystemUpdatesProofs -------------------------
(***************************************************************************)
(* Proofs about TextFile, for every limit, chunk size and file length, and *)
(* about SystemUpdates, which reads its files with it: any number of files *)
(* and paths, any contents and any number of changes.                      *)
(***************************************************************************)
EXTENDS SystemUpdates, TLAPS

(***************************************************************************)
(* What is kept and what is read advance together until the limit is hit,  *)
(* and the offset of an untouched file stays within it; neither fact is    *)
(* part of the properties, but they do not hold step by step without them. *)
(***************************************************************************)
IInv == /\ TypeOK
        /\ pc = "idle" => offset = 0 /\ output = 0 /\ changes = 0
        /\ pc = "reading" => offset = output
        /\ pc # "done" => result = NoResult
        /\ pc = "done" => result.kind = "ok" \/ result.code # "none"
        /\ changes = 0 => offset <= length
        /\ WholeOrRefused
        /\ NothingDropped

(* Nothing is open at first. *)
LEMMA InitInv == Init => IInv
  BY TextFileAssumption
  DEF Init, IInv, TypeOK, WholeOrRefused, NothingDropped, NoResult

(* One read(): the limit check compares exactly with what is left of it. *)
LEMMA ReadSomeInv ==
    ASSUME IInv, NEW n \in 1..Chunk, ReadSome(n)
    PROVE  IInv'
  <1> USE TextFileAssumption
  <1>0. /\ n \in Nat /\ n > 0 /\ length \in Nat /\ offset \in Nat /\ output \in Nat
        /\ offset = output /\ output <= MaximumSize /\ pc = "reading"
    BY DEF IInv, TypeOK, ReadSome
  <1>1. TooLarge(n) <=> output + n > MaximumSize
    BY <1>0 DEF TooLarge
  <1>2. CASE TooLarge(n)
    BY <1>0, <1>1, <1>2
    DEF ReadSome, IInv, TypeOK, WholeOrRefused, NothingDropped, Fail, NoResult
  <1>3. CASE ~TooLarge(n)
    BY <1>0, <1>1, <1>3
    DEF ReadSome, IInv, TypeOK, WholeOrRefused, NothingDropped, NoResult
  <1> QED BY <1>2, <1>3

(* Every step of read_text_file and of its environment keeps the invariant. *)
LEMMA NextInv == IInv /\ [Next]_vars => IInv'
  <1> SUFFICES ASSUME IInv, [Next]_vars PROVE IInv'
    OBVIOUS
  <1> USE TextFileAssumption
      DEF IInv, TypeOK, WholeOrRefused, NothingDropped, NoResult
  <1>1. CASE Open BY <1>1 DEF Open
  <1>2. ASSUME NEW code \in {"ENOENT", "native"}, OpenFails(code) PROVE IInv'
    BY <1>2 DEF OpenFails, Fail
  <1>3. ASSUME NEW n \in 1..Chunk, ReadSome(n) PROVE IInv'
    <2>1. IInv OBVIOUS
    <2> QED BY ONLY <1>3, <2>1, ReadSomeInv
  <1>4. CASE ReadEnd BY <1>4 DEF ReadEnd, Ok
  <1>5. CASE ReadFails BY <1>5 DEF ReadFails, Fail
  <1>6. CASE Change BY <1>6 DEF Change
  <1>7. CASE TakeResult BY <1>7 DEF TakeResult
  <1>8. CASE UNCHANGED vars BY <1>8 DEF vars
  <1> QED BY <1>1, <1>2, <1>3, <1>4, <1>5, <1>6, <1>7, <1>8 DEF Next

(* The invariant holds in every reachable state. *)
THEOREM Invariance == Spec => []IInv
  BY InitInv, NextInv, PTL DEF Spec

(* What read_text_file has collected never exceeds its limit. *)
THEOREM TypeCorrect == Spec => []TypeOK
  <1>1. IInv => TypeOK BY DEF IInv
  <1> QED BY <1>1, Invariance, PTL

(* An untouched file is returned whole, or refused because it is too long. *)
THEOREM Whole == Spec => []WholeOrRefused
  <1>1. IInv => WholeOrRefused BY DEF IInv
  <1> QED BY <1>1, Invariance, PTL

(* Even of a file that changes, everything read before the limit is kept. *)
THEOREM Kept == Spec => []NothingDropped
  <1>1. IInv => NothingDropped BY DEF IInv
  <1> QED BY <1>1, Invariance, PTL

-----------------------------------------------------------------------------
(***************************************************************************)
(* Every step of the merge is a step of the file reader or leaves it alone *)
(* : a writer that touches the file being read is the reader's Change.     *)
(***************************************************************************)
LEMMA ReaderStep == [UNext]_allVars => [Next]_vars
  <1> SUFFICES ASSUME [UNext]_allVars PROVE [Next]_vars OBVIOUS
  <1>1. ASSUME NEW f \in Files, NEW n \in FileStates \ {Absent}, Write(f, n) PROVE [Next]_vars
    BY <1>1 DEF Write, Next
  <1>2. ASSUME NEW f \in Files, Remove(f) PROVE [Next]_vars
    BY <1>2 DEF Remove
  <1>3. CASE Indicate BY <1>3 DEF Indicate
  <1>4. CASE Begin BY <1>4 DEF Begin
  <1>5. CASE CheckUpdates BY <1>5 DEF CheckUpdates
  <1>6. CASE CheckUpdatesMalformed BY <1>6 DEF CheckUpdatesMalformed
  <1>7. ASSUME NEW code, CheckUpdatesFails(code) PROVE [Next]_vars
    BY <1>7 DEF CheckUpdatesFails
  <1>8. CASE ReadFile BY <1>8 DEF ReadFile, Next
  <1>9. CASE MergeFile BY <1>9 DEF MergeFile, Next
  <1>10. CASE PreparedMalformed BY <1>10 DEF PreparedMalformed, Next
  <1>11. CASE EndOfFiles BY <1>11 DEF EndOfFiles
  <1>12. CASE CheckIndicator BY <1>12 DEF CheckIndicator
  <1>13. CASE Complete BY <1>13 DEF Complete
  <1>14. CASE Misencoded BY <1>14 DEF Misencoded
  <1>15. CASE TakeAnswer BY <1>15 DEF TakeAnswer
  <1>16. CASE UNCHANGED allVars BY <1>16 DEF allVars
  <1> QED BY <1>1, <1>2, <1>3, <1>4, <1>5, <1>6, <1>7, <1>8, <1>9, <1>10, <1>11, <1>12,
             <1>13, <1>14, <1>15, <1>16 DEF UNext

(***************************************************************************)
(* system_updates() uses read_text_file() as TextFile specifies it, so all *)
(* that is proved of the reader holds of every file it reads.              *)
(***************************************************************************)
THEOREM ReaderRefined == USpec => Spec
  <1>1. UInit => Init BY DEF UInit
  <1> QED BY <1>1, ReaderStep, PTL DEF USpec, Spec

-----------------------------------------------------------------------------
Lines(f, n) == {Listed[f][i] : i \in 1..n}

Errors == {"none", "native", "temporarily_unavailable", "value_too_large"}

(* A file that was there from the beginning is in the answer to be, unless an *)
(* error already decides it.                                                  *)
Covered(f) ==
    kept[f] # Absent => last_error # "none" \/ (found /\ Lines(f, kept[f]) \subseteq updates)

(***************************************************************************)
(* The paths before the k-th are covered, the file behind the k-th is the  *)
(* one that is read, and a read that has ended has not missed a line that  *)
(* was there all along.                                                    *)
(***************************************************************************)
FilesInv ==
    step = "files" =>
        /\ \A j \in 1..k - 1 : Covered(FileAt[j])
        /\ pc # "idle" => k <= Len(FileAt)
        /\ pc = "reading" => file[FileAt[k]] # Absent /\ length = file[FileAt[k]]
        /\ pc = "done" /\ result.kind = "ok" /\ kept[FileAt[k]] # Absent =>
              kept[FileAt[k]] <= result.size
        /\ pc = "done" /\ result.code = "ENOENT" => kept[FileAt[k]] = Absent

(* What has been there all along is still there. *)
KeptInv == \A f \in Files : kept[f] # Absent => file[f] # Absent /\ kept[f] <= file[f]

MergeInv ==
    /\ step \in {"files", "indicator"} /\ Runnable =>
          last_error # "none" \/ (found /\ pending \subseteq updates)
    /\ step = "indicator" => \A f \in Files : Covered(f)
    /\ step = "indicator" /\ k > 1 /\ updates = {} => lacking \/ last_error # "none"
    /\ step \notin {"idle", "done"} /\ ~indicator => lacking
    /\ updates # {} => found
    /\ last_error \in Errors
    /\ step # "done" => answer = NoAnswer
    /\ step \in {"idle", "checkupdates", "done"} => k = 1

UIInv == IInv /\ UTypeOK /\ KeptInv /\ FilesInv /\ MergeInv /\ NothingLost

(* What an unchanged reader, file and history leave as they are. *)
LEMMA FewerType ==
    ASSUME NEW m \in FileStates, NEW n \in FileStates
    PROVE  /\ Fewer(m, n) \in FileStates
           /\ Fewer(m, n) # Absent => /\ m # Absent /\ n # Absent
                                      /\ Fewer(m, n) <= m /\ Fewer(m, n) <= n
  BY TextFileAssumption, UpdatesAssumption DEF Fewer, FileStates

(* The first m lines are among the first n. *)
LEMMA LinesGrow ==
    ASSUME NEW f, NEW m \in Nat, NEW n \in Nat, m <= n
    PROVE  Lines(f, m) \subseteq Lines(f, n)
  BY DEF Lines

(* At first nothing has been asked. *)
LEMMA UInitInv == UInit => UIInv
  <1> SUFFICES ASSUME UInit PROVE UIInv OBVIOUS
  <1> USE TextFileAssumption, UpdatesAssumption DEF UInit
  <1>1. IInv BY InitInv
  <1>2. Len(FileAt) \in Nat OBVIOUS
  <1>3. UTypeOK
    BY <1>1, <1>2 DEF IInv, UTypeOK, Init
  <1>4. KeptInv
    <2>1. \A f \in Files : file[f] # Absent => file[f] \in Nat
      BY DEF FileStates
    <2> QED BY <2>1 DEF KeptInv
  <1>5. FilesInv /\ MergeInv BY DEF FilesInv, MergeInv, Errors
  <1>6. NothingLost BY DEF NothingLost, NoAnswer
  <1> QED BY <1>1, <1>3, <1>4, <1>5, <1>6 DEF UIInv

-----------------------------------------------------------------------------
(* A package manager writes or removes a file: fewer lines have been there   *)
(* all along, and the reader of that file works on what it has become.       *)
LEMMA FileChangeInv ==
    ASSUME UIInv, IInv', NEW f \in Files, NEW n \in FileStates,
           file' = [file EXCEPT ![f] = n], kept' = [kept EXCEPT ![f] = Fewer(@, n)],
           n = Absent => ~BeingRead(f),
           IF BeingRead(f) THEN Change /\ length' = n ELSE UNCHANGED vars,
           UNCHANGED <<indicator, lacking>>, Moving
    PROVE  UIInv'
  <1> USE TextFileAssumption, UpdatesAssumption
  <1>0. /\ pc' = pc /\ result' = result /\ step' = step /\ k' = k /\ updates' = updates
        /\ found' = found /\ last_error' = last_error /\ answer' = answer
        /\ pending' = pending /\ indicator' = indicator /\ lacking' = lacking
        /\ moves' = moves + 1 /\ moves < MaxMoves /\ step \notin {"idle", "done"}
        /\ answer = NoAnswer
    BY DEF Moving, local, vars, Change, UIInv, MergeInv
  <1>1. /\ file \in [Files -> FileStates] /\ kept \in [Files -> FileStates]
        /\ moves \in 0..MaxMoves
    BY DEF UIInv, UTypeOK
  <1>2. file' \in [Files -> FileStates] /\ kept' \in [Files -> FileStates]
    BY <1>1, FewerType
  <1>3. UTypeOK'
    <2>1. UTypeOK /\ TypeOK' BY DEF UIInv, IInv
    <2>2. moves' \in 0..MaxMoves BY <1>0, <1>1
    <2>3. /\ step \in {"idle", "checkupdates", "files", "indicator", "done"}
          /\ k \in 1..(IF step = "indicator" THEN 3 ELSE Len(FileAt) + 1)
          /\ step # "files" => pc = "idle"
      BY <2>1 DEF UTypeOK
    <2> QED BY ONLY <1>0, <1>2, <2>1, <2>2, <2>3 DEF UTypeOK
  <1>4. \A g \in Files : kept'[g] # Absent =>
            /\ kept[g] # Absent /\ kept'[g] <= kept[g] /\ kept[g] \in Nat /\ kept'[g] \in Nat
            /\ file'[g] # Absent /\ kept'[g] <= file'[g]
    <2> SUFFICES ASSUME NEW g \in Files, kept'[g] # Absent
                 PROVE  /\ kept[g] # Absent /\ kept'[g] <= kept[g]
                        /\ kept[g] \in Nat /\ kept'[g] \in Nat
                        /\ file'[g] # Absent /\ kept'[g] <= file'[g]
      OBVIOUS
    <2>1. \A m \in FileStates : m # Absent => m \in Nat BY DEF FileStates
    <2>2. CASE g = f
      <3>1. kept'[g] = Fewer(kept[g], n) /\ file'[g] = n BY <1>1, <2>2
      <3>2. kept[g] \in FileStates BY <1>1
      <3>3. /\ Fewer(kept[g], n) \in FileStates
            /\ Fewer(kept[g], n) # Absent => /\ kept[g] # Absent /\ n # Absent
                                             /\ Fewer(kept[g], n) <= kept[g]
                                             /\ Fewer(kept[g], n) <= n
        BY <3>2, FewerType
      <3> QED BY ONLY kept'[g] # Absent, <2>1, <3>1, <3>2, <3>3
    <2>3. CASE g # f
      <3>1. kept'[g] = kept[g] /\ file'[g] = file[g] BY <1>1, <2>3
      <3>2. kept[g] # Absent /\ file[g] # Absent /\ kept[g] <= file[g]
        BY <3>1 DEF UIInv, KeptInv
      <3>3. kept[g] \in Nat BY <1>1, <2>1, <3>2
      <3> QED BY ONLY <3>1, <3>2, <3>3
    <2> QED BY <2>2, <2>3
  <1>5. KeptInv' BY <1>4 DEF KeptInv
  <1>6. \A g \in Files : Covered(g) => Covered(g)'
    BY <1>0, <1>4, LinesGrow DEF Covered
  <1>7. \A j \in 1..Len(FileAt) : FileAt[j] \in Files
    OBVIOUS
  <1>8. FilesInv'
    <2> SUFFICES ASSUME step = "files" PROVE FilesInv'
      BY <1>0 DEF FilesInv
    <2>1. k \in 1..Len(FileAt) + 1 /\ Len(FileAt) \in Nat
      BY DEF UIInv, UTypeOK
    <2>2. \A j \in 1..k - 1 : Covered(FileAt[j])'
      <3>1. \A j \in 1..k - 1 : j \in 1..Len(FileAt) BY <2>1
      <3>2. \A j \in 1..k - 1 : FileAt[j] \in Files /\ Covered(FileAt[j])
        BY <1>7, <3>1 DEF UIInv, FilesInv
      <3> QED BY <1>6, <3>2
    <2>3. pc # "idle" => k <= Len(FileAt) /\ FileAt[k] \in Files
      BY <1>7, <2>1 DEF UIInv, FilesInv
    <2>4. pc = "reading" => file'[FileAt[k]] # Absent /\ length' = file'[FileAt[k]]
      <3> SUFFICES ASSUME pc = "reading"
                   PROVE file'[FileAt[k]] # Absent /\ length' = file'[FileAt[k]]
        OBVIOUS
      <3>1. CASE FileAt[k] = f BY <1>1, <2>3, <3>1 DEF BeingRead
      <3>2. CASE FileAt[k] # f
        BY <1>1, <2>3, <3>2 DEF BeingRead, vars, UIInv, FilesInv
      <3> QED BY <3>1, <3>2
    <2>5. /\ pc = "done" /\ result.kind = "ok" /\ kept'[FileAt[k]] # Absent =>
                kept'[FileAt[k]] <= result.size
          /\ pc = "done" /\ result.code = "ENOENT" => kept'[FileAt[k]] = Absent
      <3>1. result.size \in Nat BY DEF UIInv, IInv, TypeOK
      <3>2. /\ pc = "done" /\ result.kind = "ok" /\ kept[FileAt[k]] # Absent =>
                  kept[FileAt[k]] <= result.size
            /\ pc = "done" /\ result.code = "ENOENT" => kept[FileAt[k]] = Absent
        BY DEF UIInv, FilesInv
      <3>3. pc = "done" /\ kept'[FileAt[k]] # Absent =>
                /\ kept[FileAt[k]] # Absent /\ kept'[FileAt[k]] <= kept[FileAt[k]]
                /\ kept[FileAt[k]] \in Nat /\ kept'[FileAt[k]] \in Nat
        BY <1>4, <2>3
      <3> QED BY ONLY <3>1, <3>2, <3>3
    <2> QED BY <1>0, <2>2, <2>3, <2>4, <2>5 DEF FilesInv, Covered
  <1>9. MergeInv'
    <2>1. MergeInv BY DEF UIInv
    <2> QED BY ONLY <1>0, <1>6, <2>1 DEF MergeInv, Runnable
  <1>10. NothingLost'
    BY <1>0 DEF NothingLost, NoAnswer
  <1> QED BY <1>3, <1>5, <1>8, <1>9, <1>10 DEF UIInv

(* The package managers. *)
LEMMA ManagersInv ==
    ASSUME UIInv, IInv', NEW f \in Files,
           Remove(f) \/ (\E n \in FileStates \ {Absent} : Write(f, n)) \/ Indicate
    PROVE  UIInv'
  <1> USE TextFileAssumption, UpdatesAssumption
  <1>1. ASSUME NEW n \in FileStates \ {Absent}, Write(f, n) PROVE UIInv'
    BY <1>1, FileChangeInv DEF Write
  <1>2. CASE Remove(f)
    <2>1. kept' = [kept EXCEPT ![f] = Fewer(@, Absent)]
      BY <1>2 DEF Remove, Fewer
    <2>2. Absent \in FileStates BY DEF FileStates
    <2> QED BY <1>2, <2>1, <2>2, FileChangeInv DEF Remove
  <1>3. CASE Indicate
    <2>0. /\ UNCHANGED <<vars, pending, file, kept, step, local, answer, lacking>>
          /\ moves' = moves + 1 /\ moves < MaxMoves /\ step \notin {"idle", "done"}
          /\ indicator' = TRUE /\ answer = NoAnswer
      BY <1>3 DEF Indicate, Moving, UIInv, MergeInv
    <2>1. UTypeOK'
      <3>1. UTypeOK /\ TypeOK' /\ MaxMoves \in Nat BY DEF UIInv, IInv
      <3> QED BY ONLY <2>0, <3>1 DEF UTypeOK, vars, local
    <2>2. KeptInv' BY <2>0 DEF UIInv, KeptInv
    <2>3. FilesInv' BY <2>0 DEF UIInv, FilesInv, Covered, vars, local
    <2>4. MergeInv' BY <2>0 DEF UIInv, MergeInv, Covered, local, Runnable
    <2>5. NothingLost' BY <2>0 DEF NothingLost, NoAnswer
    <2> QED BY <2>1, <2>2, <2>3, <2>4, <2>5 DEF UIInv
  <1> QED BY <1>1, <1>2, <1>3

-----------------------------------------------------------------------------
(* One system call of read_text_file() on the k-th path. *)
LEMMA ReadFileInv == ASSUME UIInv, IInv', ReadFile PROVE UIInv'
  <1> USE TextFileAssumption, UpdatesAssumption
  <1>0. /\ step = "files" /\ step' = step /\ k <= Len(FileAt) /\ k' = k /\ updates' = updates
        /\ found' = found /\ last_error' = last_error /\ answer' = answer
        /\ UNCHANGED <<pending, file, indicator, moves, kept, lacking>>
        /\ k \in 1..Len(FileAt) /\ FileAt[k] \in Files /\ answer = NoAnswer
    BY DEF ReadFile, Calls, sources, history, local, UIInv, UTypeOK, MergeInv
  <1>1. UTypeOK' BY <1>0 DEF UIInv, IInv, UTypeOK
  <1>2. KeptInv' BY <1>0 DEF UIInv, KeptInv
  <1>3. MergeInv' BY <1>0 DEF UIInv, MergeInv, Covered, Runnable
  <1>4. NothingLost' BY <1>0 DEF NothingLost, NoAnswer
  <1>5. FilesInv'
    <2>1. \A j \in 1..k' - 1 : Covered(FileAt[j])'
      BY <1>0 DEF UIInv, FilesInv, Covered
    <2>2. /\ pc' = "reading" => file[FileAt[k]] # Absent /\ length' = file[FileAt[k]]
          /\ pc' = "done" /\ result'.kind = "ok" /\ kept[FileAt[k]] # Absent =>
                kept[FileAt[k]] <= result'.size
          /\ pc' = "done" /\ result'.code = "ENOENT" => kept[FileAt[k]] = Absent
      <3>0. /\ kept[FileAt[k]] # Absent =>
                  file[FileAt[k]] # Absent /\ kept[FileAt[k]] <= file[FileAt[k]]
            /\ kept[FileAt[k]] # Absent => kept[FileAt[k]] \in Nat
            /\ pc = "reading" => file[FileAt[k]] # Absent /\ length = file[FileAt[k]]
        BY <1>0 DEF UIInv, KeptInv, UTypeOK, FileStates, FilesInv
      <3>1. CASE file[FileAt[k]] # Absent /\ Open /\ length' = file[FileAt[k]]
        BY <3>1 DEF Open
      <3>2. CASE file[FileAt[k]] = Absent /\ OpenFails("ENOENT")
        BY <3>0, <3>2 DEF OpenFails, Fail
      <3>3. CASE OpenFails("native")
        BY <3>3 DEF OpenFails, Fail
      <3>4. ASSUME NEW n \in 1..Chunk, ReadSome(n) PROVE <2>2!1 /\ <2>2!2 /\ <2>2!3
        <4>1. CASE TooLarge(n) BY <3>4, <4>1 DEF ReadSome, Fail
        <4>2. CASE ~TooLarge(n) BY <3>0, <3>4, <4>2 DEF ReadSome
        <4> QED BY <4>1, <4>2
      <3>5. CASE ReadEnd
        <4>1. /\ pc = "reading" /\ offset = output /\ offset >= length /\ offset \in Nat
              /\ length \in Nat /\ pc' = "done" /\ result' = Ok(output)
          BY <3>5 DEF ReadEnd, UIInv, IInv, TypeOK
        <4>2. kept[FileAt[k]] # Absent => kept[FileAt[k]] <= output
          BY ONLY <3>0, <4>1
        <4> QED BY <4>1, <4>2 DEF Ok
      <3>6. CASE ReadFails
        BY <3>6 DEF ReadFails, Fail
      <3> QED BY <3>1, <3>2, <3>3, <3>4, <3>5, <3>6 DEF ReadFile
    <2> QED BY <1>0, <2>1, <2>2 DEF FilesInv
  <1> QED BY <1>1, <1>2, <1>3, <1>4, <1>5 DEF UIInv

(* The call returns answer a, and what it has collected is forgotten. *)
LEMMA FinishInv ==
    ASSUME UIInv, IInv', step \notin {"idle", "done"}, NEW a, Finish(a), Calls, pc' = "idle",
           a.kind = "ok" =>
              /\ Runnable => pending \subseteq a.updates
              /\ \A f \in Files : kept[f] # Absent => Lines(f, kept[f]) \subseteq a.updates
              /\ a.updates = {} => lacking,
           a.code = "not_supported" =>
              ~Runnable /\ lacking /\ \A f \in Files : kept[f] = Absent
    PROVE  UIInv'
  <1> USE TextFileAssumption, UpdatesAssumption
  <1>0. /\ step' = "done" /\ answer' = a /\ k' = 1 /\ updates' = {} /\ found' = FALSE
        /\ last_error' = "none"
        /\ UNCHANGED <<pending, file, indicator, moves, kept, lacking>>
    BY DEF Finish, Calls, sources, history
  <1>1. UTypeOK'
    <2>1. Len(FileAt) \in Nat OBVIOUS
    <2> QED BY <1>0, <2>1 DEF UIInv, IInv, UTypeOK
  <1>2. KeptInv' BY <1>0 DEF UIInv, KeptInv
  <1>3. FilesInv' /\ MergeInv' BY <1>0 DEF FilesInv, MergeInv, Errors
  <1>4. NothingLost' BY <1>0 DEF NothingLost, Lines, Runnable
  <1> QED BY <1>1, <1>2, <1>3, <1>4 DEF UIInv

(* A refusal for any reason but a want of sources loses nothing silently. *)
LEMMA RefusedInv ==
    ASSUME UIInv, IInv', step \notin {"idle", "done"}, pc' = "idle", Calls,
           NEW code, code # "not_supported", Finish(Refused(code))
    PROVE  UIInv'
  <1>1. Refused(code).kind # "ok" /\ Refused(code).code # "not_supported"
    BY DEF Refused
  <1> QED BY <1>1, FinishInv

(* The call begins: what is there now is what may be there all along. *)
LEMMA BeginInv == ASSUME UIInv, IInv', Begin PROVE UIInv'
  <1> USE TextFileAssumption, UpdatesAssumption
  <1>0. /\ step = "idle" /\ step' = "checkupdates" /\ kept' = file /\ lacking' = ~indicator
        /\ UNCHANGED <<vars, pending, file, indicator, moves, k, updates, found, last_error, answer>>
        /\ answer = NoAnswer
    BY DEF Begin, sources, local, UIInv, MergeInv
  <1>1. UTypeOK' BY <1>0 DEF UIInv, IInv, UTypeOK, vars
  <1>2. KeptInv'
    <2>1. \A f \in Files : file[f] # Absent => file[f] \in Nat
      BY DEF UIInv, UTypeOK, FileStates
    <2> QED BY ONLY <1>0, <2>1 DEF KeptInv
  <1>3. FilesInv' BY <1>0 DEF FilesInv
  <1>4. MergeInv' BY <1>0 DEF UIInv, MergeInv
  <1>5. NothingLost' BY <1>0 DEF NothingLost, NoAnswer
  <1> QED BY <1>1, <1>2, <1>3, <1>4, <1>5 DEF UIInv

(* checkupdates answers, or its failure is remembered. *)
LEMMA CheckUpdatesInv ==
    ASSUME UIInv, IInv',
           CheckUpdates \/ (\E code \in {"native", "temporarily_unavailable"} : CheckUpdatesFails(code))
    PROVE  UIInv'
  <1> USE TextFileAssumption, UpdatesAssumption
  <1>0. /\ step = "checkupdates" /\ step' = "files" /\ k' = k /\ answer' = answer /\ UNCHANGED vars
        /\ UNCHANGED <<pending, file, indicator, moves, kept, lacking>>
        /\ answer = NoAnswer
        /\ Runnable => last_error' # "none" \/ (found' /\ pending \subseteq updates')
        /\ updates' # {} => found' = TRUE
        /\ last_error' \in Errors
    <2>1. CASE CheckUpdates
      BY <2>1 DEF CheckUpdates, Calls, sources, history, UIInv, MergeInv
    <2>2. ASSUME NEW code \in {"native", "temporarily_unavailable"}, CheckUpdatesFails(code)
          PROVE <1>0!1 /\ <1>0!2 /\ <1>0!3 /\ <1>0!4 /\ <1>0!5 /\ <1>0!6
      BY <2>2 DEF CheckUpdatesFails, Calls, sources, history, UIInv, MergeInv, Errors
    <2> QED BY <2>1, <2>2

  <1>1. UTypeOK' BY <1>0 DEF UIInv, IInv, UTypeOK, vars
  <1>2. KeptInv' BY <1>0 DEF UIInv, KeptInv
  <1>3. FilesInv'
    <2>1. pc' = "idle" /\ k' = 1 BY <1>0 DEF UIInv, UTypeOK, MergeInv, vars
    <2> QED BY <2>1 DEF FilesInv
  <1>4. MergeInv' BY <1>0 DEF UIInv, MergeInv, Runnable
  <1>5. NothingLost' BY <1>0 DEF NothingLost, NoAnswer
  <1> QED BY <1>1, <1>2, <1>3, <1>4, <1>5 DEF UIInv

(* What was read of the k-th path is added: nothing that was in the file all *)
(* along is missing from it.                                                 *)
LEMMA MergeFileInv == ASSUME UIInv, IInv', MergeFile PROVE UIInv'
  <1> USE TextFileAssumption, UpdatesAssumption
  <1> DEFINE f == FileAt[k]
             ok == result.kind = "ok"
  <1>0. /\ step = "files" /\ step' = step /\ k \in 1..Len(FileAt) /\ k' = k + 1 /\ f \in Files
        /\ pc = "done" /\ pc' = "idle" /\ answer' = answer /\ answer = NoAnswer
        /\ UNCHANGED <<pending, file, indicator, moves, kept, lacking>>
        /\ Len(FileAt) \in Nat
    BY DEF MergeFile, TakeResult, Calls, sources, history, UIInv, UTypeOK, MergeInv
  <1>1. /\ found' = (found \/ ok)
        /\ updates' = IF ok THEN updates \cup Lines(f, result.size) ELSE updates
        /\ last_error' = IF ok \/ result.code = "ENOENT" THEN last_error ELSE result.code
    BY DEF MergeFile, Lines, Remember
  <1>2. /\ result.code \in {"none", "ENOENT", "native", "value_too_large"}
        /\ result.size \in Nat
        /\ ok \/ result.code # "none"
    BY <1>0 DEF UIInv, IInv, TypeOK
  <1>3. /\ ok /\ kept[f] # Absent => kept[f] <= result.size
        /\ result.code = "ENOENT" => kept[f] = Absent
        /\ kept[f] # Absent => kept[f] \in Nat
    BY <1>0 DEF UIInv, UTypeOK, FileStates, FilesInv
  <1> HIDE DEF f, ok
  <1>4. /\ updates \subseteq updates' /\ (found => found')
        /\ last_error # "none" => last_error' # "none"
        /\ last_error \in Errors
    BY <1>1, <1>2 DEF UIInv, MergeInv
  <1>5. ASSUME NEW g, g = f PROVE Covered(g)'
    <2>1. CASE kept[g] = Absent BY <1>0, <2>1 DEF Covered
    <2>2. CASE kept[g] # Absent /\ ok
      <3>1. Lines(g, kept[g]) \subseteq Lines(g, result.size)
        BY <1>2, <1>3, <1>5, <2>2, LinesGrow
      <3> QED BY <1>0, <1>1, <1>5, <2>2, <3>1 DEF Covered
    <2>3. CASE kept[g] # Absent /\ ~ok
      BY <1>0, <1>1, <1>2, <1>3, <1>5, <2>3 DEF Covered
    <2> QED BY <2>1, <2>2, <2>3
  <1>6. \A g \in Files : Covered(g) => Covered(g)'
    BY <1>0, <1>4 DEF Covered
  <1>7. \A j \in 1..k' - 1 : Covered(FileAt[j])'
    <2> SUFFICES ASSUME NEW j \in 1..k' - 1 PROVE Covered(FileAt[j])' OBVIOUS
    <2>1. j \in 1..k - 1 \/ j = k BY <1>0
    <2>2. CASE j = k BY <1>5, <2>2 DEF f
    <2>3. CASE j \in 1..k - 1
      <3>1. FileAt[j] \in Files BY <1>0, <2>3
      <3>2. Covered(FileAt[j]) BY <1>0, <2>3 DEF UIInv, FilesInv
      <3> QED BY <1>6, <3>1, <3>2
    <2> QED BY <2>1, <2>2, <2>3
  <1>8. UTypeOK'
    <2>1. TypeOK' BY DEF IInv
    <2>2. k' \in 1..Len(FileAt) + 1 BY <1>0
    <2> QED BY <1>0, <2>1, <2>2 DEF UIInv, UTypeOK
  <1>9. KeptInv' BY <1>0 DEF UIInv, KeptInv
  <1>10. FilesInv' BY <1>0, <1>7 DEF FilesInv
  <1>11. MergeInv'
    <2>1. last_error' \in Errors BY <1>1, <1>2, <1>4 DEF Errors
    <2>2. updates' # {} => found' BY <1>1 DEF UIInv, MergeInv
    <2>3. Runnable => last_error' # "none" \/ (found' /\ pending \subseteq updates')
      BY <1>0, <1>4 DEF UIInv, MergeInv
    <2> QED BY <1>0, <2>1, <2>2, <2>3 DEF UIInv, MergeInv, Runnable
  <1>12. NothingLost' BY <1>0 DEF NothingLost, NoAnswer
  <1> QED BY <1>8, <1>9, <1>10, <1>11, <1>12 DEF UIInv

(* After the last path every file is covered, since each is behind one. *)
LEMMA EndOfFilesInv == ASSUME UIInv, IInv', EndOfFiles PROVE UIInv'
  <1> USE TextFileAssumption, UpdatesAssumption
  <1>0. /\ step = "files" /\ step' = "indicator" /\ k > Len(FileAt) /\ k' = 1
        /\ UNCHANGED <<vars, updates, found, last_error, answer>> /\ answer = NoAnswer
        /\ UNCHANGED <<pending, file, indicator, moves, kept, lacking>>
        /\ k \in Nat /\ Len(FileAt) \in Nat
    BY DEF EndOfFiles, Calls, sources, history, UIInv, UTypeOK, MergeInv
  <1>1. pc = "idle"
    BY <1>0 DEF UIInv, FilesInv
  <1>2. UTypeOK' BY <1>0, <1>1 DEF UIInv, IInv, UTypeOK, vars
  <1>3. KeptInv' BY <1>0 DEF UIInv, KeptInv
  <1>4. FilesInv' BY <1>0 DEF FilesInv
  <1>5. \A f \in Files : Covered(f)
    <2> SUFFICES ASSUME NEW f \in Files PROVE Covered(f) OBVIOUS
    <2>1. PICK j \in 1..Len(FileAt) : FileAt[j] = f OBVIOUS
    <2>2. j \in 1..k - 1 BY <1>0
    <2> QED BY <1>0, <2>1, <2>2 DEF UIInv, FilesInv
  <1>6. MergeInv' BY <1>0, <1>5 DEF UIInv, MergeInv, Covered, Runnable
  <1>7. NothingLost' BY <1>0 DEF NothingLost, NoAnswer
  <1> QED BY <1>2, <1>3, <1>4, <1>6, <1>7 DEF UIInv

(* The reboot indicator is looked for only while there is nothing to report. *)
LEMMA CheckIndicatorInv == ASSUME UIInv, IInv', CheckIndicator PROVE UIInv'
  <1> USE TextFileAssumption, UpdatesAssumption
  <1>0. /\ step = "indicator" /\ step' = step /\ k <= 2 /\ k \in 1..3 /\ k' = k + 1
        /\ updates = {} /\ answer' = answer /\ UNCHANGED vars
        /\ UNCHANGED <<pending, file, indicator, moves, kept, lacking>> /\ answer = NoAnswer
    BY DEF CheckIndicator, Calls, sources, history, UIInv, UTypeOK, MergeInv
  <1>1. \/ indicator /\ found' = TRUE /\ updates' = {Reboot} /\ last_error' = last_error
        \/ ~indicator /\ found' = found /\ updates' = updates /\ last_error' = last_error
        \/ last_error' = "native" /\ found' = found /\ updates' = updates
    BY DEF CheckIndicator
  <1>2. UTypeOK' BY <1>0 DEF UIInv, IInv, UTypeOK, vars
  <1>3. KeptInv' BY <1>0 DEF UIInv, KeptInv
  <1>4. FilesInv' BY <1>0 DEF FilesInv
  <1>5. MergeInv'
    <2>1. /\ updates \subseteq updates' /\ (found => found')
          /\ last_error # "none" => last_error' # "none"
          /\ updates' # {} => found'
          /\ last_error' \in Errors
          /\ updates' = {} => lacking \/ last_error' # "none"
      BY <1>0, <1>1 DEF UIInv, MergeInv, Errors
    <2>2. \A f \in Files : Covered(f) => Covered(f)'
      BY <1>0, <2>1 DEF Covered
    <2> QED BY <1>0, <2>1, <2>2 DEF UIInv, MergeInv, Runnable
  <1>6. NothingLost' BY <1>0 DEF NothingLost, NoAnswer
  <1> QED BY <1>2, <1>3, <1>4, <1>5, <1>6 DEF UIInv

(* The call returns what was collected, or the last error. *)
LEMMA CompleteInv == ASSUME UIInv, IInv', Complete PROVE UIInv'
  <1> USE TextFileAssumption, UpdatesAssumption
  <1>0. /\ step = "indicator" /\ pc' = "idle" /\ Calls
        /\ updates # {} \/ (updates = {} /\ k > 1)
        /\ Finish(IF last_error # "none" THEN Refused(last_error)
                  ELSE IF ~found THEN Refused("not_supported") ELSE Updates(updates))
    BY DEF Complete, UIInv, UTypeOK, vars
  <1>1. CASE last_error # "none"
    <2>1. last_error # "not_supported" BY DEF UIInv, MergeInv, Errors
    <2> QED BY <1>0, <1>1, <2>1, RefusedInv
  <1>2. CASE last_error = "none" /\ ~found
    <2>1. ~Runnable /\ lacking /\ \A f \in Files : kept[f] = Absent
      BY <1>0, <1>2 DEF UIInv, MergeInv, Covered
    <2>2. Refused("not_supported").kind # "ok" BY DEF Refused
    <2> QED BY <1>0, <1>2, <2>1, <2>2, FinishInv
  <1>3. CASE last_error = "none" /\ found
    <2>1. /\ Updates(updates).kind = "ok" /\ Updates(updates).code # "not_supported"
          /\ Updates(updates).updates = updates
      BY DEF Updates
    <2>2. /\ Runnable => pending \subseteq updates
          /\ \A f \in Files : kept[f] # Absent => Lines(f, kept[f]) \subseteq updates
          /\ updates = {} => lacking
      BY <1>0, <1>3 DEF UIInv, MergeInv, Covered
    <2> QED BY <1>0, <1>3, <2>1, <2>2, FinishInv
  <1> QED BY <1>1, <1>2, <1>3

(* The caller takes the answer. *)
LEMMA TakeAnswerInv == ASSUME UIInv, IInv', TakeAnswer PROVE UIInv'
  <1> USE TextFileAssumption, UpdatesAssumption
  <1>0. /\ step = "done" /\ step' = "idle" /\ answer' = NoAnswer /\ moves' = 0 /\ kept' = file
        /\ UNCHANGED <<vars, pending, file, indicator, k, updates, found, last_error>>
    BY DEF TakeAnswer, sources, local
  <1>1. UTypeOK' BY <1>0 DEF UIInv, IInv, UTypeOK, vars
  <1>2. KeptInv'
    <2>1. \A f \in Files : file[f] # Absent => file[f] \in Nat
      BY DEF UIInv, UTypeOK, FileStates
    <2> QED BY ONLY <1>0, <2>1 DEF KeptInv
  <1>3. FilesInv' BY <1>0 DEF FilesInv
  <1>4. MergeInv' BY <1>0 DEF UIInv, MergeInv
  <1>5. NothingLost' BY <1>0 DEF NothingLost, NoAnswer
  <1> QED BY <1>1, <1>2, <1>3, <1>4, <1>5 DEF UIInv

-----------------------------------------------------------------------------
(* Every step of system_updates() and of the package managers keeps the      *)
(* invariant.                                                                *)
LEMMA UNextInv == UIInv /\ [UNext]_allVars => UIInv'
  <1> SUFFICES ASSUME UIInv, [UNext]_allVars PROVE UIInv' OBVIOUS
  <1>0. IInv'
    BY ReaderStep, NextInv DEF UIInv
  <1>1. ASSUME NEW f \in Files, Remove(f) \/ (\E n \in FileStates \ {Absent} : Write(f, n))
        PROVE UIInv'
    BY <1>0, <1>1, ManagersInv
  <1>2. CASE Indicate
    BY <1>0, <1>2, ManagersInv, UpdatesAssumption
  <1>3. CASE Begin BY <1>0, <1>3, BeginInv
  <1>4. CASE CheckUpdates \/ (\E code \in {"native", "temporarily_unavailable"} : CheckUpdatesFails(code))
    BY <1>0, <1>4, CheckUpdatesInv
  <1>5. CASE CheckUpdatesMalformed
    <2>1. pc' = "idle" BY <1>5 DEF CheckUpdatesMalformed, UIInv, UTypeOK, vars
    <2> QED BY <1>0, <1>5, <2>1, RefusedInv DEF CheckUpdatesMalformed
  <1>6. CASE ReadFile BY <1>0, <1>6, ReadFileInv
  <1>7. CASE MergeFile BY <1>0, <1>7, MergeFileInv
  <1>8. CASE PreparedMalformed
    <2>1. pc' = "idle" BY <1>8 DEF PreparedMalformed, TakeResult
    <2> QED BY <1>0, <1>8, <2>1, RefusedInv DEF PreparedMalformed
  <1>9. CASE EndOfFiles BY <1>0, <1>9, EndOfFilesInv
  <1>10. CASE CheckIndicator BY <1>0, <1>10, CheckIndicatorInv
  <1>11. CASE Complete BY <1>0, <1>11, CompleteInv
  <1>12. CASE Misencoded
    <2>1. pc' = "idle" BY <1>12 DEF Misencoded, UIInv, UTypeOK, vars
    <2> QED BY <1>0, <1>12, <2>1, RefusedInv DEF Misencoded
  <1>13. CASE TakeAnswer BY <1>0, <1>13, TakeAnswerInv
  <1>14. CASE UNCHANGED allVars
    BY <1>0, <1>14 DEF allVars, vars, sources, history, local, UIInv, IInv, UTypeOK, KeptInv,
        FilesInv, MergeInv, Covered, NothingLost, Runnable
  <1> QED BY <1>1, <1>2, <1>3, <1>4, <1>5, <1>6, <1>7, <1>8, <1>9, <1>10, <1>11, <1>12,
             <1>13, <1>14 DEF UNext

(* The invariant holds in every reachable state. *)
THEOREM UInvariance == USpec => []UIInv
  BY UInitInv, UNextInv, PTL DEF USpec

(* The reader is idle unless a file is being read, and nothing collected *)
(* outlives the call.                                                    *)
THEOREM UTypeCorrect == USpec => []UTypeOK
  <1>1. UIInv => UTypeOK BY DEF UIInv
  <1> QED BY <1>1, UInvariance, PTL

(* No report is lost without a word, however the files change under the *)
(* reader.                                                              *)
THEOREM NoReportLost == USpec => []NothingLost
  <1>1. UIInv => NothingLost BY DEF UIInv
  <1> QED BY <1>1, UInvariance, PTL
=============================================================================
