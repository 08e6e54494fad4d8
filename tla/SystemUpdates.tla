---------------------------- MODULE SystemUpdates ----------------------------
(***************************************************************************)
(* system_updates() of detail/software/linux.hpp: four kinds of source are *)
(* asked in turn and their reports merged by identifier. The files among   *)
(* them are read by the read_text_file() of TextFile, step by step, while  *)
(* package managers go on writing: the length of a file is the number of   *)
(* lines it has, and line i of file f always names the update Listed[f][i].*)
(* What checkupdates does is CommandRunner's subject; here it is one step. *)
(***************************************************************************)
EXTENDS TextFile, Sequences, FiniteSets

CONSTANTS
    Files,      \* the files behind the paths
    FileAt,     \* FileAt[k]: file behind the k-th path; /run and /var/run may be one
    Prepared,   \* the one written by PackageKit
    Listed,     \* Listed[f]: identifiers of the lines of f
    Absent,     \* a model value: no such source
    Hidden,     \* a model value: an Arch system whose access() is refused
    Pending,    \* sets of updates checkupdates may print
    MaxMoves    \* bound: changes made by package managers during one call

ASSUME UpdatesAssumption ==
    /\ FileAt \in Seq(Files) /\ \A f \in Files : \E j \in 1..Len(FileAt) : FileAt[j] = f
    /\ Prepared \in Files
    /\ \A f \in Files : \A n \in Lengths : n <= MaximumSize => n <= Len(Listed[f])
    /\ Absent \notin Lengths
    /\ MaxMoves \in Nat

Reboot == "system-reboot-required"

VARIABLES
    pending,     \* what checkupdates prints, Absent (not an Arch system) or Hidden
    file,        \* file[f]: the lines it has, or Absent
    indicator,   \* /run/reboot-required exists
    moves,       \* changes since the call began
    kept,        \* kept[f]: lines it has had ever since, or Absent (history)
    lacking,     \* the indicator was missing at some time since then (history)
    step, k,     \* progress of the query, number of the path
    updates, found, last_error,
    answer

sources == <<pending, file, indicator>>
history == <<moves, kept, lacking>>
local == <<k, updates, found, last_error>>
allVars == <<vars, sources, history, step, local, answer>>

NoAnswer == [kind |-> "none", code |-> "none", updates |-> {}]
Updates(S) == [kind |-> "ok", code |-> "none", updates |-> S]
Refused(code) == [kind |-> "error", code |-> code, updates |-> {}]

FileStates == {n \in Lengths : n <= MaximumSize + 1} \cup {Absent}

UInit == /\ Init
         /\ pending \in Pending \cup {Absent, Hidden}
         /\ file \in [Files -> FileStates]
         /\ indicator \in BOOLEAN
         /\ moves = 0 /\ kept = file /\ lacking = FALSE
         /\ step = "idle" /\ k = 1
         /\ updates = {} /\ found = FALSE /\ last_error = "none"
         /\ answer = NoAnswer

-----------------------------------------------------------------------------
(* The package managers. *)
Moving == /\ step \notin {"idle", "done"}
          /\ moves < MaxMoves
          /\ moves' = moves + 1
          /\ UNCHANGED <<pending, step, local, answer>>

Fewer(m, n) == IF m = Absent \/ n = Absent THEN Absent ELSE IF m < n THEN m ELSE n

BeingRead(f) == step = "files" /\ pc = "reading" /\ FileAt[k] = f

(* A file is written. If it is the one being read, its reader meets the change. *)
Write(f, n) == /\ n # file[f]
               /\ file' = [file EXCEPT ![f] = n]
               /\ kept' = [kept EXCEPT ![f] = Fewer(@, n)]
               /\ IF BeingRead(f) THEN Change /\ length' = n ELSE UNCHANGED vars
               /\ UNCHANGED <<indicator, lacking>>
               /\ Moving

Remove(f) == /\ file[f] # Absent /\ ~BeingRead(f)
             /\ file' = [file EXCEPT ![f] = Absent]
             /\ kept' = [kept EXCEPT ![f] = Absent]
             /\ UNCHANGED <<vars, indicator, lacking>>
             /\ Moving

Indicate == /\ ~indicator
            /\ indicator' = TRUE
            /\ UNCHANGED <<vars, file, kept, lacking>>
            /\ Moving

-----------------------------------------------------------------------------
Finish(a) == /\ step' = "done" /\ answer' = a
             /\ k' = 1 /\ updates' = {} /\ found' = FALSE /\ last_error' = "none"

Calls == UNCHANGED <<sources, history>>

Begin == /\ step = "idle"
         /\ step' = "checkupdates"
         /\ kept' = file /\ lacking' = ~indicator
         /\ UNCHANGED <<vars, sources, moves, local, answer>>

(* Both calls of access() succeed. Any failing one is taken for absence: the *)
(* code looks at no errno here, and leaves last_error alone.                 *)
Runnable == pending \notin {Absent, Hidden}

(* checkupdates, where it is runnable: exit status 0 with a list, 2 without. *)
CheckUpdates ==
    /\ step = "checkupdates"
    /\ step' = "files"
    /\ found' = Runnable
    /\ updates' = IF Runnable THEN pending ELSE {}
    /\ UNCHANGED <<vars, k, last_error, answer>>
    /\ Calls

(* It cannot be run, or exits with another status: the query goes on. *)
CheckUpdatesFails(code) ==
    /\ step = "checkupdates" /\ Runnable
    /\ step' = "files"
    /\ found' = TRUE
    /\ last_error' = code
    /\ UNCHANGED <<vars, k, updates, answer>>
    /\ Calls

(* It prints what cannot be parsed. *)
CheckUpdatesMalformed ==
    /\ step = "checkupdates" /\ Runnable
    /\ Finish(Refused("malformed_data"))
    /\ UNCHANGED vars
    /\ Calls

(* read_text_file() of the k-th path. *)
ReadFile ==
    /\ step = "files" /\ k <= Len(FileAt)
    /\ \/ file[FileAt[k]] # Absent /\ Open /\ length' = file[FileAt[k]]
       \/ file[FileAt[k]] = Absent /\ OpenFails("ENOENT")
       \/ OpenFails("native")
       \/ \E n \in 1..Chunk : ReadSome(n)
       \/ ReadEnd \/ ReadFails
    /\ UNCHANGED <<step, local, answer>>
    /\ Calls

Mutant_last_source_decides(ok, code) == IF ok THEN "none" ELSE code
(* last_error after a file has been read, or not. *)
Remember(ok, code) == IF ok THEN last_error ELSE code

(* What it returned: a file that is not there is skipped, another failure     *)
(* remembered, and the lines of a file that was read are added.               *)
MergeFile ==
    /\ step = "files" /\ k <= Len(FileAt)
    /\ TakeResult
    /\ LET ok == result.kind = "ok"
       IN /\ found' = (found \/ ok)
          /\ updates' = IF ok THEN updates \cup {Listed[FileAt[k]][i] : i \in 1..result.size}
                        ELSE updates
          /\ last_error' = Remember(ok \/ result.code = "ENOENT", result.code)
    /\ k' = k + 1
    /\ UNCHANGED <<step, answer>>
    /\ Calls

(* A prepared update that is not a proper key file ends the query. *)
PreparedMalformed ==
    /\ step = "files" /\ k <= Len(FileAt) /\ FileAt[k] = Prepared
    /\ result.kind = "ok"
    /\ TakeResult
    /\ Finish(Refused("malformed_data"))
    /\ Calls

EndOfFiles == /\ step = "files" /\ k > Len(FileAt)
              /\ step' = "indicator" /\ k' = 1
              /\ UNCHANGED <<vars, updates, found, last_error, answer>>
              /\ Calls

(* access() of /run/reboot-required, then of /var/run/reboot-required, only  *)
(* if there is nothing to report yet.                                        *)
CheckIndicator ==
    /\ step = "indicator" /\ updates = {} /\ k <= 2
    /\ \/ /\ indicator
          /\ found' = TRUE /\ updates' = {Reboot} /\ UNCHANGED last_error
       \/ ~indicator /\ UNCHANGED <<updates, found, last_error>>
       \/ last_error' = "native" /\ UNCHANGED <<updates, found>>    \* not ENOENT
    /\ k' = k + 1
    /\ UNCHANGED <<vars, step, answer>>
    /\ Calls

Complete ==
    /\ step = "indicator" /\ (updates # {} \/ k > 2)
    /\ Finish(IF last_error # "none" THEN Refused(last_error)
              ELSE IF ~found THEN Refused("not_supported")
              ELSE Updates(updates))
    /\ UNCHANGED vars
    /\ Calls

(* The public wrapper refuses the whole list for one text that is not UTF-8. *)
Misencoded == /\ step = "indicator" /\ updates \ {Reboot} # {} /\ last_error = "none"
              /\ Finish(Refused("invalid_encoding"))
              /\ UNCHANGED vars
              /\ Calls

TakeAnswer == /\ step = "done"
              /\ step' = "idle" /\ answer' = NoAnswer
              /\ moves' = 0 /\ kept' = file /\ lacking' = FALSE
              /\ UNCHANGED <<vars, sources, local>>

UNext == \/ \E f \in Files : Remove(f) \/ \E n \in FileStates \ {Absent} : Write(f, n)
         \/ Indicate
         \/ Begin \/ CheckUpdates \/ CheckUpdatesMalformed
         \/ \E code \in {"native", "temporarily_unavailable"} : CheckUpdatesFails(code)
         \/ ReadFile \/ MergeFile \/ PreparedMalformed \/ EndOfFiles
         \/ CheckIndicator \/ Complete \/ Misencoded \/ TakeAnswer

USpec == UInit /\ [][UNext]_allVars

-----------------------------------------------------------------------------
(* read_text_file() is well typed, and idle unless a file is being read. *)
UTypeOK == /\ TypeOK
           /\ file \in [Files -> FileStates] /\ kept \in [Files -> FileStates]
           /\ moves \in 0..MaxMoves
           /\ step \in {"idle", "checkupdates", "files", "indicator", "done"}
           /\ k \in 1..(IF step = "indicator" THEN 3 ELSE Len(FileAt) + 1)
           /\ step # "files" => pc = "idle"
           /\ step \in {"idle", "done"} => updates = {} /\ ~found

(***************************************************************************)
(* No report is lost without a word. A successful answer holds everything  *)
(* that checkupdates printed and every line that was in some file from the *)
(* beginning of the call to its end, although the files are written while  *)
(* they are read and one that cannot be read is followed by others that    *)
(* can; an empty one means that no reboot was called for at some time      *)
(* during the call. not_supported means that every file was missing, and   *)
(* that checkupdates was missing or hidden from the caller: the code does  *)
(* not tell these two apart, and no answer speaks for a hidden one.        *)
(***************************************************************************)
NothingLost ==
    /\ answer.kind = "ok" =>
          /\ Runnable => pending \subseteq answer.updates
          /\ \A f \in Files : kept[f] # Absent =>
                {Listed[f][i] : i \in 1..kept[f]} \subseteq answer.updates
          /\ answer.updates = {} => lacking
    /\ answer.code = "not_supported" =>
          ~Runnable /\ lacking /\ \A f \in Files : kept[f] = Absent
=============================================================================
