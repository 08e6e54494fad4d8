------------------------- MODULE UtmpxQueriesProofs -------------------------
(***************************************************************************)
(* For any number of threads, any database and any writes of other         *)
(* processes: a walk that completes has judged every record once. The      *)
(* argument is an ownership argument: a thread is inside a walk exactly    *)
(* when it owns posix_utmpx::mutex(), so nobody else can move the cursor   *)
(* on which its partial list depends. What a writer does to a record       *)
(* behind the cursor cannot make the list wrong, because the record has    *)
(* then not kept one content for the whole call.                           *)
(***************************************************************************)
EXTENDS UtmpxQueries, TLAPS

(* Threads between the construction and the destruction of the lock_guard. *)
Inside(t) == pc[t] \in {"set", "next", "parse", "end", "unlock"}
OwnerInv == \A t \in Threads : Inside(t) <=> mutex = t

(* What stands in the database now has stood there during every open call. *)
PastInv == \A t \in Threads : Calling(t) => \A i \in Records : db[i] \in past[t][i]

(* Record i of t's list agrees with what it has held during the call. *)
Right(t, i) == /\ found[t][i] = 0 => past[t][i] # {"user"}
               /\ found[t][i] # 0 => found[t][i] = 1 /\ "user" \in past[t][i]
               /\ past[t][i] # {"bad"}

(* What a walk has established once it has dealt with the first k records. *)
PushedUpTo(t, k) == \A i \in Records : /\ i <= k => Right(t, i)
                                       /\ i > k => found[t][i] = 0
NoBootUpTo(t, k) == \A i \in Records : i <= k => past[t][i] # {"boot"}
DealtWith(t, k) == /\ op[t] = "sessions" => PushedUpTo(t, k)
                   /\ op[t] = "boot_time" => NoBootUpTo(t, k) /\ found[t] = Nothing

SessionsAnswer(t) ==
    \/ result[t] = OkSessions /\ \A i \in Records : Right(t, i)
    \/ result[t] = Fail("invalid_encoding")
BootAnswer(t) ==
    /\ found[t] = Nothing
    /\ \/ \E i \in Records : /\ result[t] = OkBoot(i)
                             /\ "boot" \in past[t][i]
                             /\ \A j \in Records : j < i => past[t][j] # {"boot"}
       \/ /\ result[t] = Fail("not_found")
          /\ \A i \in Records : past[t][i] # {"boot"}

WalkInv(t) ==
    /\ pc[t] # "idle" => op[t] \in {"sessions", "boot_time"}
    /\ pc[t] \in {"idle", "lock", "set"} => found[t] = Nothing
    /\ pc[t] \in {"idle", "lock", "set", "next", "parse"} => result[t] = NoResult
    /\ pc[t] = "next" => DealtWith(t, pos)
    /\ pc[t] = "parse" => /\ pos \in Records /\ buf.place = pos
                          /\ buf.kind \in past[t][pos]
                          /\ DealtWith(t, pos - 1)
    /\ pc[t] \in {"end", "unlock", "done"} =>
         /\ op[t] = "sessions" => SessionsAnswer(t)
         /\ op[t] = "boot_time" => BootAnswer(t)

(* The inductive invariant. *)
IInv == TypeOK /\ OwnerInv /\ PastInv /\ \A t \in Threads : WalkInv(t)

-----------------------------------------------------------------------------
(* Nobody is in a walk at first. *)
LEMMA InitInv == Init => IInv
  <1> SUFFICES ASSUME Init PROVE IInv
    OBVIOUS
  <1> USE UtmpxAssumption
  <1>1. TypeOK
    BY DEF Init, TypeOK, PcStates, ResultType, NoResult, Nothing, Unread, NoPast, Slots
  <1>2. OwnerInv /\ PastInv
    BY DEF Init, OwnerInv, Inside, PastInv, Calling
  <1>3. ASSUME NEW t \in Threads PROVE WalkInv(t)
    BY DEF Init, WalkInv
  <1> QED BY <1>1, <1>2, <1>3 DEF IInv

(* The history of thread u only grows, and only while u's call is open. *)
Grows(u) == /\ \A i \in Records : past[u][i] \subseteq past'[u][i]
            /\ Calling(u) => \A i \in Records : past[u][i] # {}
            /\ ~ Calling(u) => past'[u] = past[u]

(* What is right stays right while the history grows. *)
LEMMA RightFrame ==
    ASSUME NEW u \in Threads, Grows(u), found'[u] = found[u], NEW i \in Records
    PROVE  /\ Right(u, i) => Right(u, i)'
           /\ past[u][i] # {"boot"} => past'[u][i] # {"boot"}
  BY DEF Right, Grows

(* So do the records dealt with, and an answer that nobody touches. *)
LEMMA AnswerFrame ==
    ASSUME NEW u \in Threads, Grows(u), found'[u] = found[u], result'[u] = result[u]
    PROVE  (SessionsAnswer(u) => SessionsAnswer(u)') /\ (BootAnswer(u) => BootAnswer(u)')
  <1>1. \A i \in Records : /\ Right(u, i) => Right(u, i)'
                           /\ past[u][i] # {"boot"} => past'[u][i] # {"boot"}
                           /\ "boot" \in past[u][i] => "boot" \in past'[u][i]
    BY RightFrame DEF Grows
  <1> QED BY <1>1 DEF SessionsAnswer, BootAnswer

LEMMA DealtFrame ==
    ASSUME NEW u \in Threads, Grows(u), found'[u] = found[u], op'[u] = op[u], NEW k,
           DealtWith(u, k)
    PROVE  DealtWith(u, k)'
  <1>1. \A i \in Records : /\ Right(u, i) => Right(u, i)'
                           /\ past[u][i] # {"boot"} => past'[u][i] # {"boot"}
    BY RightFrame
  <1> QED BY <1>1 DEF DealtWith, PushedUpTo, NoBootUpTo

(***************************************************************************)
(* Frame: what thread u knows survives any step of another thread, because *)
(* the cursor and the static record move only under the mutex, and any     *)
(* write of another process, because it only widens the history.           *)
(***************************************************************************)
LEMMA Frame ==
    ASSUME NEW u \in Threads, WalkInv(u), Grows(u),
           pc'[u] = pc[u], op'[u] = op[u], found'[u] = found[u], result'[u] = result[u],
           pc[u] \in {"next", "parse"} => pos' = pos /\ buf' = buf
    PROVE  WalkInv(u)'
  <1>1. CASE pc[u] = "next"
    <2>1. DealtWith(u, pos)' BY <1>1, DealtFrame DEF WalkInv
    <2> QED BY <1>1, <2>1 DEF WalkInv
  <1>2. CASE pc[u] = "parse"
    <2>1. DealtWith(u, pos - 1)' BY <1>2, DealtFrame DEF WalkInv
    <2>2. pos' \in Records /\ buf'.place = pos' /\ buf'.kind \in past'[u][pos']
      BY <1>2 DEF WalkInv, Grows
    <2> QED BY <1>2, <2>1, <2>2 DEF WalkInv
  <1>3. CASE pc[u] \notin {"next", "parse"}
    BY <1>3, AnswerFrame DEF WalkInv
  <1> QED BY <1>1, <1>2, <1>3

(* A step that leaves the history alone lets it "grow". *)
LEMMA NoWrite ==
    ASSUME IInv, NEW u \in Threads, past'[u] = past[u]
    PROVE  Grows(u)
  BY DEF IInv, PastInv, Grows

(* A step of t that moves the cursor is a step of the owner. *)
LEMMA OthersKeep ==
    ASSUME IInv, NEW t \in Threads, Inside(t), NEW u \in Threads, u # t
    PROVE  ~ Inside(u)
  BY DEF IInv, OwnerInv

(* A step of t within its call keeps the history true. *)
LEMMA PastFrame ==
    ASSUME IInv, NEW t \in Threads, NEW q, Calling(t), db' = db, past' = past,
           pc' = [pc EXCEPT ![t] = q]
    PROVE  PastInv'
  BY DEF IInv, TypeOK, PastInv, Calling

(* Another process writes a record. *)
LEMMA WriteInv ==
    ASSUME IInv, NEW i \in Records, NEW k \in Kinds, Write(i, k)
    PROVE  IInv'
  <1> USE UtmpxAssumption
  <1>1. TypeOK'
    <2>1. \A t \in Threads : past'[t] \in [Records -> SUBSET Slots]
      BY DEF Write, IInv, TypeOK, Slots
    <2>2. past' \in [Threads -> [Records -> SUBSET Slots]]
      BY <2>1 DEF Write
    <2>3. db' \in Databases /\ writes' \in 0..MaxWrites
      BY DEF Write, IInv, TypeOK
    <2> QED BY <2>2, <2>3 DEF Write, IInv, TypeOK
  <1>2. OwnerInv'
    BY DEF Write, IInv, OwnerInv, Inside
  <1>3. ASSUME NEW t \in Threads, Calling(t), NEW j \in Records
        PROVE  past'[t][j] = IF j = i THEN past[t][j] \cup {k} ELSE past[t][j]
    BY <1>3 DEF Write, IInv, TypeOK
  <1>4. \A j \in Records : db'[j] = IF j = i THEN k ELSE db[j]
    BY DEF Write, IInv, TypeOK
  <1>5. PastInv'
    <2> SUFFICES ASSUME NEW t \in Threads, Calling(t), NEW j \in Records
                 PROVE  db'[j] \in past'[t][j]
      BY DEF Write, PastInv, Calling
    <2>1. db[j] \in past[t][j] BY DEF IInv, PastInv
    <2> QED BY <1>3, <1>4, <2>1
  <1>6. ASSUME NEW u \in Threads PROVE WalkInv(u)'
    <2>1. ~ Calling(u) => past'[u] = past[u]
      BY DEF Write
    <2>2. Grows(u)
      <3>1. CASE Calling(u) BY <3>1, <1>3 DEF Grows, IInv, PastInv
      <3>2. CASE ~ Calling(u) BY <3>2, <2>1 DEF Grows
      <3> QED BY <3>1, <3>2
    <2> QED BY <2>2, Frame DEF Write, IInv
  <1> QED BY <1>1, <1>2, <1>5, <1>6 DEF IInv

(* A query starts; it owns nothing yet, and its history begins now. *)
LEMMA CallInv ==
    ASSUME IInv, NEW t \in Threads, NEW o \in {"sessions", "boot_time"}, Call(t, o)
    PROVE  IInv'
  <1> USE UtmpxAssumption
  <1>0. past'[t] = [i \in Records |-> {db[i]}] /\ \A u \in Threads : u # t => past'[u] = past[u]
    BY DEF Call, IInv, TypeOK
  <1>1. TypeOK'
    <2>1. [i \in Records |-> {db[i]}] \in [Records -> SUBSET Slots]
      BY DEF IInv, TypeOK
    <2>2. past' \in [Threads -> [Records -> SUBSET Slots]]
      BY <2>1 DEF Call, IInv, TypeOK
    <2>3. Nothing \in [Records -> Nat] /\ NoResult \in ResultType
      BY DEF Nothing, NoResult, ResultType
    <2> QED BY <2>2, <2>3 DEF Call, Goto, shared, file, IInv, TypeOK, PcStates
  <1>2. OwnerInv'
    BY DEF Call, Goto, shared, file, IInv, TypeOK, OwnerInv, Inside
  <1>3. PastInv'
    BY <1>0 DEF Call, Goto, shared, file, IInv, TypeOK, PastInv, Calling
  <1>4. WalkInv(t)'
    BY DEF Call, Goto, IInv, TypeOK, WalkInv
  <1>5. ASSUME NEW u \in Threads, u # t PROVE WalkInv(u)'
    BY <1>0, <1>5, NoWrite, Frame DEF Call, Goto, shared, file, IInv, TypeOK
  <1> QED BY <1>1, <1>2, <1>3, <1>4, <1>5 DEF IInv

(* lock_guard: the one step that makes a thread the owner. *)
LEMMA LockInv ==
    ASSUME IInv, NEW t \in Threads, Lock(t)
    PROVE  IInv'
  <1> USE UtmpxAssumption
  <1>1. TypeOK'
    BY DEF Lock, Goto, file, IInv, TypeOK, PcStates
  <1>2. OwnerInv'
    BY DEF Lock, Goto, IInv, TypeOK, OwnerInv, Inside
  <1>3. PastInv'
    BY PastFrame DEF Lock, Goto, file, Calling
  <1>4. WalkInv(t)'
    BY DEF Lock, Goto, IInv, TypeOK, WalkInv
  <1>5. ASSUME NEW u \in Threads, u # t PROVE WalkInv(u)'
    BY <1>5, NoWrite, Frame DEF Lock, Goto, IInv, TypeOK
  <1> QED BY <1>1, <1>2, <1>3, <1>4, <1>5 DEF IInv

(* setutxent: nothing has been dealt with, and nothing pushed. *)
LEMMA RewindInv ==
    ASSUME IInv, NEW t \in Threads, Rewind(t)
    PROVE  IInv'
  <1> USE UtmpxAssumption
  <1>1. TypeOK'
    BY DEF Rewind, Goto, file, IInv, TypeOK, PcStates
  <1>2. OwnerInv'
    BY DEF Rewind, Goto, IInv, TypeOK, OwnerInv, Inside
  <1>3. PastInv'
    BY PastFrame DEF Rewind, Goto, file, Calling
  <1>4. WalkInv(t)'
    <2>1. /\ found'[t] = Nothing /\ result'[t] = NoResult /\ pos' = 0
          /\ pc'[t] = "next" /\ op'[t] \in {"sessions", "boot_time"}
      BY DEF Rewind, Goto, IInv, TypeOK, WalkInv
    <2>2. DealtWith(t, pos)'
      BY <2>1 DEF DealtWith, PushedUpTo, NoBootUpTo, Nothing, Records
    <2> QED BY <2>1, <2>2 DEF WalkInv
  <1>5. ASSUME NEW u \in Threads, u # t PROVE WalkInv(u)'
    <2>1. ~ Inside(u) BY <1>5, OthersKeep DEF Rewind, Inside
    <2> QED BY <1>5, <2>1, NoWrite, Frame DEF Rewind, Goto, IInv, TypeOK, Inside
  <1> QED BY <1>1, <1>2, <1>3, <1>4, <1>5 DEF IInv

(* getutxent returned a record. *)
LEMMA NextRecordInv ==
    ASSUME IInv, NEW t \in Threads, NextRecord(t)
    PROVE  IInv'
  <1> USE UtmpxAssumption
  <1>0. /\ pc[t] = "next" /\ pos \in Nat /\ pos + 1 \in Records /\ pos' = pos + 1
        /\ buf' = [place |-> pos + 1, kind |-> db[pos + 1]] /\ pc' = [pc EXCEPT ![t] = "parse"]
        /\ db[pos + 1] \in Slots
        /\ UNCHANGED <<db, writes, mutex, op, found, result, past>>
    BY DEF NextRecord, Goto, file, IInv, TypeOK, Records
  <1>1. TypeOK'
    BY <1>0 DEF IInv, TypeOK, PcStates, Records
  <1>2. OwnerInv'
    BY <1>0 DEF IInv, TypeOK, OwnerInv, Inside
  <1>3. PastInv'
    BY <1>0, PastFrame DEF Calling
  <1>4. WalkInv(t)'
    <2>1. pc'[t] = "parse" /\ pos' \in Records /\ buf'.place = pos' /\ pos' - 1 = pos
      BY <1>0 DEF IInv, TypeOK
    <2>2. buf'.kind \in past'[t][pos']
      BY <1>0 DEF IInv, PastInv, Calling
    <2>3. DealtWith(t, pos)
      BY <1>0 DEF IInv, WalkInv
    <2>4. DealtWith(t, pos - 1)'
      BY <1>0, <2>1, <2>3 DEF DealtWith, PushedUpTo, NoBootUpTo, Right
    <2> QED BY <1>0, <2>1, <2>2, <2>4 DEF IInv, WalkInv
  <1>5. ASSUME NEW u \in Threads, u # t PROVE WalkInv(u)'
    <2>1. ~ Inside(u) BY <1>0, <1>5, OthersKeep DEF Inside
    <2> QED BY <1>0, <1>5, <2>1, NoWrite, Frame DEF IInv, TypeOK, Inside
  <1> QED BY <1>1, <1>2, <1>3, <1>4, <1>5 DEF IInv

(* Behind a place without a record there is none. *)
LEMMA EndOfFile ==
    ASSUME TypeOK, pos < Size => db[pos + 1] = "none", NEW i \in Records, i > pos
    PROVE  db[i] = "none"
  <1>1. pos \in Nat /\ Size \in Nat /\ pos + 1 \in Records /\ (i = pos + 1 \/ pos + 1 < i)
    BY UtmpxAssumption DEF TypeOK, Records
  <1>2. Contiguous(db) BY UtmpxAssumption DEF TypeOK
  <1> QED BY <1>1, <1>2 DEF Contiguous, Records

(* getutxent returned null: no record is left that stood there throughout. *)
LEMMA LastRecordInv ==
    ASSUME IInv, NEW t \in Threads, LastRecord(t)
    PROVE  IInv'
  <1> USE UtmpxAssumption
  <1>0. /\ pc[t] = "next" /\ pc' = [pc EXCEPT ![t] = "end"]
        /\ pos < Size => db[pos + 1] = "none"
        /\ UNCHANGED <<db, writes, mutex, pos, buf, op, found, past>>
        /\ op[t] \in {"sessions", "boot_time"} /\ DealtWith(t, pos)
    BY DEF LastRecord, Goto, shared, file, IInv, WalkInv
  <1>1. TypeOK'
    BY DEF LastRecord, Goto, shared, file, IInv, TypeOK, PcStates, ResultType, OkSessions, Fail
  <1>2. OwnerInv'
    BY <1>0 DEF IInv, TypeOK, OwnerInv, Inside
  <1>3. PastInv'
    BY <1>0, PastFrame DEF Calling
  <1>a. \A i \in Records : i > pos => "none" \in past[t][i]
    BY <1>0, EndOfFile DEF IInv, PastInv, Calling
  <1>b. pos \in Nat /\ \A i \in Records : i <= pos \/ i > pos
    BY DEF IInv, TypeOK, Records
  <1>4. WalkInv(t)'
    <2>1. pc'[t] = "end" /\ op'[t] = op[t] /\ found'[t] = found[t] /\ past'[t] = past[t]
      BY <1>0 DEF IInv, TypeOK
    <2>2. CASE op[t] = "sessions"
      <3>1. result'[t] = OkSessions BY <2>2 DEF LastRecord, IInv, TypeOK
      <3>2. \A i \in Records : Right(t, i)
        BY <1>0, <1>a, <1>b, <2>2 DEF DealtWith, PushedUpTo, Right
      <3>3. SessionsAnswer(t)' BY <2>1, <3>1, <3>2 DEF SessionsAnswer, Right
      <3> QED BY <2>1, <2>2, <3>3 DEF WalkInv
    <2>3. CASE op[t] = "boot_time"
      <3>1. result'[t] = Fail("not_found") BY <2>3 DEF LastRecord, IInv, TypeOK
      <3>2. found[t] = Nothing /\ \A i \in Records : past[t][i] # {"boot"}
        BY <1>0, <1>a, <1>b, <2>3 DEF DealtWith, NoBootUpTo
      <3>3. BootAnswer(t)' BY <2>1, <3>1, <3>2 DEF BootAnswer, Nothing
      <3> QED BY <2>1, <2>3, <3>3 DEF WalkInv
    <2> QED BY <1>0, <2>2, <2>3
  <1>5. ASSUME NEW u \in Threads, u # t PROVE WalkInv(u)'
    <2>1. result'[u] = result[u] BY <1>5 DEF LastRecord, IInv, TypeOK
    <2> QED BY <1>0, <1>5, <2>1, NoWrite, Frame DEF IInv, TypeOK
  <1> QED BY <1>1, <1>2, <1>3, <1>4, <1>5 DEF IInv

(* One record of sessions(): pushed, skipped, or the early return. *)
LEMMA ParseSessionInv ==
    ASSUME IInv, NEW t \in Threads, ParseSession(t)
    PROVE  IInv'
  <1> USE UtmpxAssumption
  <1>a. /\ pc[t] = "parse" /\ op[t] = "sessions" /\ buf.place = pos /\ pos \in Records
        /\ buf.kind \in past[t][pos]
        /\ PushedUpTo(t, pos - 1) /\ pos \in Nat /\ result[t] = NoResult
        /\ UNCHANGED <<db, writes, mutex, pos, buf, op, past>>
    BY DEF ParseSession, shared, file, IInv, TypeOK, WalkInv, DealtWith
  <1>b. \/ /\ buf.kind = "user"
           /\ found' = [found EXCEPT ![t][pos] = @ + 1]
           /\ Goto(t, "next") /\ result' = result
        \/ /\ buf.kind = "bad"
           /\ result' = [result EXCEPT ![t] = Fail("invalid_encoding")]
           /\ Goto(t, "end") /\ found' = found
        \/ /\ buf.kind \notin {"user", "bad"}
           /\ Goto(t, "next") /\ found' = found /\ result' = result
    BY <1>a DEF ParseSession
  <1>1. TypeOK'
    <2>1. TypeOK /\ Fail("invalid_encoding") \in ResultType
      BY DEF IInv, ResultType, Fail
    <2>2. result' \in [Threads -> ResultType]
      <3>1. result \in [Threads -> ResultType] BY <2>1 DEF TypeOK
      <3>2. \/ result' = result
            \/ result' = [result EXCEPT ![t] = Fail("invalid_encoding")]
        BY <1>b
      <3> QED BY <2>1, <3>1, <3>2
    <2>3. pc' \in [Threads -> PcStates]
      BY <1>b, <2>1 DEF Goto, TypeOK, PcStates
    <2>4. found' \in [Threads -> [Records -> Nat]]
      <3>1. found[t] \in [Records -> Nat] /\ found[t][pos] + 1 \in Nat
        BY <1>a, <2>1 DEF TypeOK
      <3> QED BY <1>a, <1>b, <2>1, <3>1 DEF TypeOK
    <2> QED BY <1>a, <2>1, <2>2, <2>3, <2>4 DEF TypeOK
  <1>2. OwnerInv'
    BY <1>a, <1>b DEF Goto, IInv, TypeOK, OwnerInv, Inside
  <1>3. PastInv'
    BY <1>a, <1>b, PastFrame DEF Goto, Calling
  <1>4. WalkInv(t)'
    <2>1. CASE buf.kind = "bad"
      <3>1. pc'[t] = "end" /\ result'[t] = Fail("invalid_encoding")
        BY <1>a, <1>b, <2>1 DEF Goto, IInv, TypeOK
      <3> QED BY <1>a, <3>1 DEF WalkInv, SessionsAnswer
    <2>2. CASE buf.kind # "bad"
      <3>1. pc'[t] = "next" /\ result'[t] = NoResult
        BY <1>a, <1>b, <2>2 DEF Goto, IInv, TypeOK
      <3>2. found[t][pos] = 0
        BY <1>a DEF PushedUpTo
      <3>3. found'[t][pos] = IF buf.kind = "user" THEN 1 ELSE 0
        BY <1>a, <1>b, <2>2, <3>2 DEF IInv, TypeOK
      <3>4. \A i \in Records : i # pos => found'[t][i] = found[t][i]
        BY <1>a, <1>b, <2>2 DEF IInv, TypeOK
      <3>5. Right(t, pos)'
        BY <1>a, <2>2, <3>3 DEF Right
      <3>6. \A i \in Records : i < pos => Right(t, i)'
        BY <1>a, <3>4 DEF PushedUpTo, Right, Records
      <3>7. \A i \in Records : i > pos => found'[t][i] = 0
        BY <1>a, <3>4 DEF PushedUpTo, Records
      <3>8. PushedUpTo(t, pos)'
        BY <1>a, <3>5, <3>6, <3>7 DEF PushedUpTo, Records
      <3> QED BY <1>a, <3>1, <3>8 DEF WalkInv, DealtWith
    <2> QED BY <2>1, <2>2
  <1>5. ASSUME NEW u \in Threads, u # t PROVE WalkInv(u)'
    BY <1>5, <1>a, <1>b, NoWrite, Frame DEF Goto, IInv, TypeOK
  <1> QED BY <1>1, <1>2, <1>3, <1>4, <1>5 DEF IInv

(* One record of boot_time(): the answer, or on to the next. *)
LEMMA ParseBootInv ==
    ASSUME IInv, NEW t \in Threads, ParseBoot(t)
    PROVE  IInv'
  <1> USE UtmpxAssumption
  <1>a. /\ pc[t] = "parse" /\ op[t] = "boot_time" /\ buf.place = pos /\ pos \in Records
        /\ buf.kind \in past[t][pos] /\ found[t] = Nothing
        /\ NoBootUpTo(t, pos - 1) /\ pos \in Nat /\ result[t] = NoResult
        /\ UNCHANGED <<db, writes, mutex, pos, buf, op, found, past>>
    BY DEF ParseBoot, shared, file, IInv, TypeOK, WalkInv, DealtWith
  <1>b. \/ /\ buf.kind = "boot"
           /\ result' = [result EXCEPT ![t] = OkBoot(pos)]
           /\ Goto(t, "end")
        \/ buf.kind # "boot" /\ Goto(t, "next") /\ result' = result
    BY <1>a DEF ParseBoot
  <1>1. TypeOK'
    <2>1. TypeOK /\ OkBoot(pos) \in ResultType
      BY <1>a DEF IInv, ResultType, OkBoot, Records
    <2>2. result' \in [Threads -> ResultType]
      <3>1. result \in [Threads -> ResultType] BY <2>1 DEF TypeOK
      <3>2. result' = result \/ result' = [result EXCEPT ![t] = OkBoot(pos)] BY <1>b
      <3> QED BY <2>1, <3>1, <3>2
    <2>3. pc' \in [Threads -> PcStates]
      BY <1>b, <2>1 DEF Goto, TypeOK, PcStates
    <2> QED BY <1>a, <2>1, <2>2, <2>3 DEF TypeOK
  <1>2. OwnerInv'
    BY <1>a, <1>b DEF Goto, IInv, TypeOK, OwnerInv, Inside
  <1>3. PastInv'
    BY <1>a, <1>b, PastFrame DEF Goto, Calling
  <1>4. WalkInv(t)'
    <2>1. CASE buf.kind = "boot"
      <3>1. pc'[t] = "end" /\ result'[t] = OkBoot(pos)
        BY <1>a, <1>b, <2>1 DEF Goto, IInv, TypeOK
      <3>2. \A j \in Records : j < pos => past[t][j] # {"boot"}
        BY <1>a DEF NoBootUpTo, Records
      <3>3. BootAnswer(t)'
        BY <1>a, <2>1, <3>1, <3>2 DEF BootAnswer, Nothing
      <3> QED BY <1>a, <3>1, <3>3 DEF WalkInv
    <2>2. CASE buf.kind # "boot"
      <3>1. pc'[t] = "next" /\ result'[t] = NoResult
        BY <1>a, <1>b, <2>2 DEF Goto, IInv, TypeOK
      <3>2. NoBootUpTo(t, pos)'
        BY <1>a, <2>2 DEF NoBootUpTo, Records
      <3>3. DealtWith(t, pos)'
        BY <1>a, <3>2 DEF DealtWith, Nothing
      <3> QED BY <1>a, <3>1, <3>3 DEF WalkInv
    <2> QED BY <2>1, <2>2
  <1>5. ASSUME NEW u \in Threads, u # t PROVE WalkInv(u)'
    BY <1>5, <1>a, <1>b, NoWrite, Frame DEF Goto, IInv, TypeOK
  <1> QED BY <1>1, <1>2, <1>3, <1>4, <1>5 DEF IInv

(* endutxent: the cursor moves, but only under the owner's feet. *)
LEMMA EndWalkInv ==
    ASSUME IInv, NEW t \in Threads, EndWalk(t)
    PROVE  IInv'
  <1> USE UtmpxAssumption
  <1>1. TypeOK'
    BY DEF EndWalk, Goto, file, IInv, TypeOK, PcStates
  <1>2. OwnerInv'
    BY DEF EndWalk, Goto, IInv, TypeOK, OwnerInv, Inside
  <1>3. PastInv'
    BY PastFrame DEF EndWalk, Goto, file, Calling
  <1>4. WalkInv(t)'
    <2>1. /\ past' = past /\ found' = found /\ result' = result /\ op' = op
          /\ pc[t] = "end" /\ pc'[t] = "unlock"
      BY DEF EndWalk, Goto, IInv, TypeOK
    <2> QED BY <2>1, NoWrite, AnswerFrame DEF IInv, WalkInv
  <1>5. ASSUME NEW u \in Threads, u # t PROVE WalkInv(u)'
    <2>1. ~ Inside(u) BY <1>5, OthersKeep DEF EndWalk, Inside
    <2> QED BY <1>5, <2>1, NoWrite, Frame DEF EndWalk, Goto, IInv, TypeOK, Inside
  <1> QED BY <1>1, <1>2, <1>3, <1>4, <1>5 DEF IInv

(* ~lock_guard: the owner leaves. *)
LEMMA UnlockInv ==
    ASSUME IInv, NEW t \in Threads, Unlock(t)
    PROVE  IInv'
  <1> USE UtmpxAssumption
  <1>1. TypeOK'
    BY DEF Unlock, Goto, file, IInv, TypeOK, PcStates
  <1>2. OwnerInv'
    <2>1. mutex = t BY DEF Unlock, IInv, OwnerInv, Inside
    <2> QED BY <2>1 DEF Unlock, Goto, IInv, TypeOK, OwnerInv, Inside
  <1>3. PastInv'
    BY PastFrame DEF Unlock, Goto, file, Calling
  <1>4. WalkInv(t)'
    <2>1. /\ past' = past /\ found' = found /\ result' = result /\ op' = op
          /\ pc[t] = "unlock" /\ pc'[t] = "done"
      BY DEF Unlock, Goto, IInv, TypeOK
    <2> QED BY <2>1, NoWrite, AnswerFrame DEF IInv, WalkInv
  <1>5. ASSUME NEW u \in Threads, u # t PROVE WalkInv(u)'
    BY <1>5, NoWrite, Frame DEF Unlock, Goto, IInv, TypeOK
  <1> QED BY <1>1, <1>2, <1>3, <1>4, <1>5 DEF IInv

(* The caller takes its answer and is idle again. *)
LEMMA TakeResultInv ==
    ASSUME IInv, NEW t \in Threads, TakeResult(t)
    PROVE  IInv'
  <1> USE UtmpxAssumption
  <1>0. past'[t] = NoPast /\ \A u \in Threads : u # t => past'[u] = past[u]
    BY DEF TakeResult, IInv, TypeOK
  <1>1. TypeOK'
    <2>1. NoPast \in [Records -> SUBSET Slots] /\ Nothing \in [Records -> Nat]
          /\ NoResult \in ResultType
      BY DEF NoPast, Nothing, NoResult, ResultType
    <2> QED BY <2>1 DEF TakeResult, Goto, shared, file, IInv, TypeOK, PcStates
  <1>2. OwnerInv'
    BY DEF TakeResult, Goto, shared, file, IInv, TypeOK, OwnerInv, Inside
  <1>3. PastInv'
    BY <1>0 DEF TakeResult, Goto, shared, file, IInv, TypeOK, PastInv, Calling
  <1>4. WalkInv(t)'
    BY DEF TakeResult, Goto, IInv, TypeOK, WalkInv
  <1>5. ASSUME NEW u \in Threads, u # t PROVE WalkInv(u)'
    BY <1>0, <1>5, NoWrite, Frame DEF TakeResult, Goto, shared, file, IInv, TypeOK
  <1> QED BY <1>1, <1>2, <1>3, <1>4, <1>5 DEF IInv

(* Every step of every thread and of every other process keeps the invariant. *)
LEMMA NextInv == IInv /\ [Next]_vars => IInv'
  <1> SUFFICES ASSUME IInv, [Next]_vars PROVE IInv'
    OBVIOUS
  <1>1. CASE UNCHANGED vars
    <2>1. TypeOK' /\ OwnerInv' /\ PastInv'
      BY <1>1 DEF vars, IInv, TypeOK, OwnerInv, Inside, PastInv, Calling
    <2>2. ASSUME NEW u \in Threads PROVE WalkInv(u)'
      BY <1>1, NoWrite, Frame DEF vars, IInv
    <2> QED BY <2>1, <2>2 DEF IInv
  <1>2. CASE \E i \in Records, k \in Kinds : Write(i, k) BY <1>2, WriteInv
  <1>3. ASSUME NEW t \in Threads, \/ \E o \in {"sessions", "boot_time"} : Call(t, o)
                                  \/ Lock(t) \/ Walk(t) \/ TakeResult(t)
        PROVE  IInv'
    <2>2. CASE \E o \in {"sessions", "boot_time"} : Call(t, o) BY <2>2, CallInv
    <2>3. CASE Lock(t) BY <2>3, LockInv
    <2>4. CASE Walk(t)
      BY <2>4, RewindInv, NextRecordInv, LastRecordInv, ParseSessionInv, ParseBootInv,
         EndWalkInv, UnlockInv DEF Walk
    <2>5. CASE TakeResult(t) BY <2>5, TakeResultInv
    <2> QED BY <1>3, <2>2, <2>3, <2>4, <2>5
  <1> QED BY <1>1, <1>2, <1>3 DEF Next

(* The invariant holds in every reachable state. *)
THEOREM Invariance == Spec => []IInv
  BY InitInv, NextInv, PTL DEF Spec

(* Every variable keeps its type; the cursor never runs past the last record. *)
THEOREM TypeCorrect == Spec => []TypeOK
  <1>1. IInv => TypeOK BY DEF IInv
  <1> QED BY <1>1, Invariance, PTL

(***************************************************************************)
(* A successful sessions() has pushed every login that stayed exactly      *)
(* once, and nothing that was no login during the call.                    *)
(***************************************************************************)
THEOREM Complete == Spec => []SessionsComplete
  <1>1. ASSUME IInv, NEW t \in Threads, pc[t] = "done", op[t] = "sessions", result[t].kind = "ok"
        PROVE  \A i \in Records : Right(t, i)
    <2>1. SessionsAnswer(t) /\ result[t] # Fail("invalid_encoding")
      BY <1>1 DEF IInv, WalkInv, Fail
    <2> QED BY <2>1 DEF SessionsAnswer
  <1>2. IInv => SessionsComplete BY <1>1 DEF SessionsComplete, Right
  <1> QED BY <1>2, Invariance, PTL

(* boot_time() answers from a dated boot record, the first of those that stayed. *)
THEOREM FirstBoot == Spec => []BootTimeIsFirst
  <1>1. IInv => BootTimeIsFirst
    <2>1. SUFFICES ASSUME IInv, NEW t \in Threads, pc[t] = "done", op[t] = "boot_time"
                   PROVE  \/ /\ result[t].kind = "ok"
                             /\ result[t].record \in Records
                             /\ "boot" \in past[t][result[t].record]
                             /\ \A i \in Records : i < result[t].record => past[t][i] # {"boot"}
                          \/ /\ result[t].kind = "error"
                             /\ \A i \in Records : past[t][i] # {"boot"}
      BY DEF BootTimeIsFirst
    <2>2. BootAnswer(t) BY <2>1 DEF IInv, WalkInv
    <2>3. CASE result[t] = Fail("not_found") /\ \A i \in Records : past[t][i] # {"boot"}
      BY <2>3 DEF Fail
    <2>4. ASSUME NEW i \in Records, result[t] = OkBoot(i), "boot" \in past[t][i],
                 \A j \in Records : j < i => past[t][j] # {"boot"}
          PROVE  /\ result[t].kind = "ok" /\ result[t].record = i
      BY <2>4 DEF OkBoot
    <2> QED BY <2>2, <2>3, <2>4 DEF BootAnswer
  <1> QED BY <1>1, Invariance, PTL

-----------------------------------------------------------------------------
(***************************************************************************)
(* The refinement. getutxent is where a record is judged: the call passes  *)
(* over it, lists it or is decided by it. Parsing the static record later  *)
(* is a stutter, because nobody but the owner of the mutex can overwrite   *)
(* it in between; so are the steps on the mutex itself.                    *)
(***************************************************************************)
AbsPhase == [t \in Threads |-> Phase(t)]
AbsAt == [t \in Threads |-> At(t)]
AbsList == [t \in Threads |-> Listed(t)]
AbsOutcome == [t \in Threads |-> Outcome(t)]

(* u's part of the abstract state is the same before and after the step. *)
SameView(u) == /\ Phase(u)' = Phase(u) /\ At(u)' = At(u)
               /\ Listed(u)' = Listed(u) /\ Outcome(u)' = Outcome(u)

(* A thread sees nothing of a step that does not touch what it works on. *)
LEMMA Unseen ==
    ASSUME NEW u \in Threads, pc'[u] = pc[u], op'[u] = op[u], found'[u] = found[u],
           result'[u] = result[u],
           pc[u] \in {"next", "parse"} => pos' = pos /\ buf' = buf
    PROVE  SameView(u)
  <1>1. Decisive(u)' <=> Decisive(u) BY DEF Decisive
  <1>2. Phase(u)' = Phase(u) BY <1>1 DEF Phase, Decided
  <1>3. At(u)' = At(u) BY <1>1 DEF At
  <1>4. Outcome(u)' = Outcome(u)
    <2>1. CASE Decisive(u) BY <1>1, <2>1 DEF Decisive, Outcome, Verdict
    <2>2. CASE ~ Decisive(u) BY <1>1, <2>2 DEF Outcome
    <2> QED BY <2>1, <2>2
  <1>5. Listed(u)' = Listed(u)
    <2>1. CASE pc[u] = "parse" BY <1>4, <2>1 DEF Listed, Pushing
    <2>2. CASE pc[u] # "parse" BY <1>4, <2>2 DEF Listed, Pushing
    <2> QED BY <2>1, <2>2
  <1> QED BY <1>2, <1>3, <1>4, <1>5 DEF SameView

(* A step of t changes what t sees and nothing that another thread sees. *)
LEMMA OnlyOwn ==
    ASSUME NEW t \in Threads, \A u \in Threads : u # t => SameView(u)
    PROVE  /\ AbsPhase' = [AbsPhase EXCEPT ![t] = Phase(t)']
           /\ AbsAt' = [AbsAt EXCEPT ![t] = At(t)']
           /\ AbsList' = [AbsList EXCEPT ![t] = Listed(t)']
           /\ AbsOutcome' = [AbsOutcome EXCEPT ![t] = Outcome(t)']
           /\ AbsPhase[t] = Phase(t) /\ AbsAt[t] = At(t)
           /\ AbsList[t] = Listed(t) /\ AbsOutcome[t] = Outcome(t)
  BY DEF AbsPhase, AbsAt, AbsList, AbsOutcome, SameView

(* And where t's own view does not change either, nothing does. *)
LEMMA OwnKept ==
    ASSUME NEW t \in Threads, \A u \in Threads : u # t => SameView(u)
    PROVE  /\ Phase(t)' = Phase(t) => AbsPhase' = AbsPhase
           /\ At(t)' = At(t) => AbsAt' = AbsAt
           /\ Listed(t)' = Listed(t) => AbsList' = AbsList
           /\ Outcome(t)' = Outcome(t) => AbsOutcome' = AbsOutcome
  BY DEF AbsPhase, AbsAt, AbsList, AbsOutcome, SameView

(* A step that nobody sees is a stutter of the promise. *)
LEMMA Invisible ==
    ASSUME UNCHANGED <<db, writes, op>>, \A u \in Threads : SameView(u)
    PROVE  UNCHANGED Promise!vars
  <1>1. /\ AbsPhase' = AbsPhase /\ AbsAt' = AbsAt
        /\ AbsList' = AbsList /\ AbsOutcome' = AbsOutcome
    BY DEF AbsPhase, AbsAt, AbsList, AbsOutcome, SameView
  <1> QED BY <1>1 DEF Promise!vars, AbsPhase, AbsAt, AbsList, AbsOutcome

(* Before its first getutxent nothing of a call can be seen but that it began. *)
LEMMA Blank ==
    ASSUME IInv, NEW t \in Threads, pc[t] \in {"idle", "lock", "set"}
    PROVE  At(t) = 0 /\ Listed(t) = Nothing /\ Outcome(t) = NoResult
  <1>1. found[t] = Nothing /\ result[t] = NoResult BY DEF IInv, WalkInv
  <1>2. ~ Decisive(t) BY DEF Decisive
  <1>3. Outcome(t) = NoResult BY <1>1, <1>2 DEF Outcome
  <1> QED BY <1>1, <1>2, <1>3 DEF At, Listed, Pushing, NoResult

(* During the walk: the cursor, and the list so far. *)
LEMMA Walking ==
    ASSUME IInv, NEW t \in Threads, pc[t] = "next"
    PROVE  Phase(t) = "busy" /\ At(t) = pos /\ Listed(t) = found[t] /\ Outcome(t) = NoResult
  <1>1. result[t] = NoResult BY DEF IInv, WalkInv
  <1>2. ~ Decisive(t) /\ ~ Decided(t) BY DEF Decisive, Decided
  <1>3. Outcome(t) = NoResult BY <1>1, <1>2 DEF Outcome
  <1> QED BY <1>2, <1>3 DEF Phase, At, Listed, Pushing, NoResult

(* After it. *)
LEMMA Over ==
    ASSUME NEW t \in Threads, pc[t] \in {"end", "unlock", "done"}
    PROVE  /\ Phase(t) = "done" /\ At(t) = 0 /\ Outcome(t) = result[t]
           /\ Listed(t) = IF result[t].kind = "error" THEN Nothing ELSE found[t]
  <1>1. ~ Decisive(t) /\ Decided(t) BY DEF Decisive, Decided
  <1>2. Outcome(t) = result[t] BY <1>1 DEF Outcome
  <1> QED BY <1>1, <1>2 DEF Phase, At, Listed, Pushing

(* A write of another process is one in the promise too. *)
LEMMA WriteRefines ==
    ASSUME IInv, NEW i \in Records, NEW k \in Kinds, Write(i, k)
    PROVE  Promise!Write(i, k)
  <1>1. \A u \in Threads : SameView(u)
    BY Unseen DEF Write
  <1>2. /\ AbsPhase' = AbsPhase /\ AbsAt' = AbsAt
        /\ AbsList' = AbsList /\ AbsOutcome' = AbsOutcome
    BY <1>1 DEF AbsPhase, AbsAt, AbsList, AbsOutcome, SameView
  <1> QED BY <1>2 DEF Write, Promise!Write, AbsPhase, AbsAt, AbsList, AbsOutcome

(* The beginning of a call. *)
LEMMA CallRefines ==
    ASSUME IInv, IInv', NEW t \in Threads, NEW o \in {"sessions", "boot_time"}, Call(t, o)
    PROVE  Promise!Begin(t, o)
  <1>1. pc[t] = "idle" /\ pc'[t] = "lock" /\ op' = [op EXCEPT ![t] = o] /\ UNCHANGED <<db, writes>>
    BY DEF Call, Goto, shared, file, IInv, TypeOK
  <1>2. \A u \in Threads : u # t => SameView(u)
    BY Unseen DEF Call, Goto, shared, IInv, TypeOK
  <1>3. At(t) = 0 /\ Listed(t) = Nothing /\ Outcome(t) = NoResult
    BY <1>1, Blank
  <1>4. At(t)' = 0 /\ Listed(t)' = Nothing /\ Outcome(t)' = NoResult
    <2>1. found'[t] = Nothing /\ result'[t] = NoResult BY DEF Call, IInv, TypeOK
    <2>2. ~ Decisive(t)' BY <1>1 DEF Decisive
    <2>3. Outcome(t)' = NoResult BY <2>1, <2>2 DEF Outcome
    <2> QED BY <1>1, <2>1, <2>2, <2>3 DEF At, Listed, Pushing, NoResult
  <1>5. Phase(t) = "idle" /\ Phase(t)' = "busy"
    BY <1>1 DEF Phase, Decided, Decisive
  <1>6. /\ AbsPhase[t] = "idle" /\ AbsPhase' = [AbsPhase EXCEPT ![t] = "busy"]
        /\ AbsAt' = AbsAt /\ AbsList' = AbsList /\ AbsOutcome' = AbsOutcome
    <2>1. AbsAt' = AbsAt /\ AbsList' = AbsList /\ AbsOutcome' = AbsOutcome
      BY <1>2, <1>3, <1>4, OwnKept
    <2> QED BY <1>2, <1>5, <2>1, OnlyOwn
  <1> QED BY <1>1, <1>6 DEF Promise!Begin, AbsPhase, AbsAt, AbsList, AbsOutcome

(* The end of one. *)
LEMMA TakeRefines ==
    ASSUME IInv, NEW t \in Threads, TakeResult(t)
    PROVE  Promise!Take(t)
  <1>1. /\ pc[t] = "done" /\ pc'[t] = "idle" /\ op' = [op EXCEPT ![t] = "none"]
        /\ UNCHANGED <<db, writes>> /\ found'[t] = Nothing /\ result'[t] = NoResult
    BY DEF TakeResult, Goto, shared, file, IInv, TypeOK
  <1>2. \A u \in Threads : u # t => SameView(u)
    BY Unseen DEF TakeResult, Goto, shared, IInv, TypeOK
  <1>3. Phase(t) = "done" /\ At(t) = 0
    BY <1>1, Over
  <1>4. Phase(t)' = "idle" /\ At(t)' = 0 /\ Outcome(t)' = NoResult /\ Listed(t)' = Nothing
    <2>1. ~ Decisive(t)' BY <1>1 DEF Decisive
    <2>2. Outcome(t)' = NoResult BY <1>1, <2>1 DEF Outcome
    <2> QED BY <1>1, <2>1, <2>2 DEF Phase, Decided, At, Listed, Pushing, NoResult
  <1>5. /\ AbsPhase[t] = "done" /\ AbsPhase' = [AbsPhase EXCEPT ![t] = "idle"]
        /\ AbsAt' = AbsAt /\ AbsList' = [AbsList EXCEPT ![t] = Nothing]
        /\ AbsOutcome' = [AbsOutcome EXCEPT ![t] = NoResult]
    <2>1. AbsAt' = AbsAt BY <1>2, <1>3, <1>4, OwnKept
    <2> QED BY <1>2, <1>3, <1>4, <2>1, OnlyOwn
  <1>6. Nothing = Promise!NoSessions /\ NoResult = Promise!NoResult
    BY DEF Nothing, NoResult, Promise!NoSessions, Promise!NoResult, Promise!Result,
           Promise!Records, Records
  <1> QED BY <1>1, <1>5, <1>6 DEF Promise!Take, AbsPhase, AbsAt, AbsList, AbsOutcome

(* What a step must do to t's view to be the reply r with the list l. *)
LEMMA Replies ==
    ASSUME NEW t \in Threads, NEW r, NEW l, UNCHANGED <<db, writes, op>>,
           \A u \in Threads : u # t => SameView(u),
           Phase(t)' = "done", At(t)' = 0, Listed(t)' = l, Outcome(t)' = r
    PROVE  Promise!Reply(t, r, l)
  <1>1. /\ AbsPhase' = [AbsPhase EXCEPT ![t] = "done"] /\ AbsAt' = [AbsAt EXCEPT ![t] = 0]
        /\ AbsList' = [AbsList EXCEPT ![t] = l] /\ AbsOutcome' = [AbsOutcome EXCEPT ![t] = r]
    BY OnlyOwn
  <1> QED BY <1>1 DEF Promise!Reply, AbsPhase, AbsAt, AbsList, AbsOutcome

(* getutxent: the record is passed over or listed, or it decides the call. *)
LEMMA NextRecordRefines ==
    ASSUME IInv, NEW t \in Threads, NextRecord(t)
    PROVE  Promise!Pass(t) \/ Promise!Refuse(t) \/ Promise!BootTime(t)
  <1>0. /\ pc[t] = "next" /\ pc'[t] = "parse" /\ pos \in Nat /\ pos < Size
        /\ pos + 1 \in Records /\ pos' = pos + 1 /\ db[pos + 1] # "none"
        /\ buf'.place = pos + 1 /\ buf'.kind = db[pos + 1]
        /\ UNCHANGED <<db, writes, op, found, result>>
    BY UtmpxAssumption DEF NextRecord, Goto, file, IInv, TypeOK, Records
  <1>1. \A u \in Threads : u # t => SameView(u)
    <2> SUFFICES ASSUME NEW u \in Threads, u # t PROVE SameView(u)
      OBVIOUS
    <2>1. ~ Inside(u) BY <1>0, OthersKeep DEF Inside
    <2> QED BY <1>0, <2>1, Unseen DEF NextRecord, Goto, IInv, TypeOK, Inside
  <1>2. Phase(t) = "busy" /\ At(t) = pos /\ Listed(t) = found[t] /\ Outcome(t) = NoResult
    BY <1>0, Walking
  <1>3. AbsPhase[t] = "busy" /\ AbsAt[t] = pos /\ AbsList[t] = found[t]
    BY <1>2 DEF AbsPhase, AbsAt, AbsList
  <1>4. op[t] \in {"sessions", "boot_time"} /\ result[t] = NoResult
        /\ (op[t] = "boot_time" => found[t] = Nothing)
    BY <1>0 DEF IInv, WalkInv, DealtWith
  <1>5. ~ Promise!AtEnd(t) /\ Promise!Here(t) = db[pos + 1]
    BY <1>0, <1>3 DEF Promise!AtEnd, Promise!Here, AbsAt
  <1>6. CASE op[t] = "sessions" /\ db[pos + 1] = "bad"
    <2>1. Decisive(t)' BY <1>0, <1>6 DEF Decisive
    <2>2. Phase(t)' = "done" /\ At(t)' = 0 /\ Outcome(t)' = Fail("invalid_encoding")
      BY <1>0, <1>6, <2>1 DEF Phase, Decided, At, Outcome, Verdict
    <2>3. Listed(t)' = Nothing BY <2>2 DEF Listed, Pushing, Fail
    <2>4. Promise!Reply(t, Fail("invalid_encoding"), Nothing)
      BY <1>0, <1>1, <2>2, <2>3, Replies
    <2>5. /\ Fail("invalid_encoding") = Promise!Result("error", "invalid_encoding", 0)
          /\ Nothing = Promise!NoSessions
      BY DEF Fail, Promise!Result, Nothing, Promise!NoSessions, Promise!Records, Records
    <2> QED BY <1>3, <1>5, <1>6, <2>4, <2>5 DEF Promise!Refuse, AbsPhase
  <1>7. CASE op[t] = "boot_time" /\ db[pos + 1] = "boot"
    <2>1. Decisive(t)' BY <1>0, <1>7 DEF Decisive
    <2>2. Phase(t)' = "done" /\ At(t)' = 0 /\ Outcome(t)' = OkBoot(pos + 1)
      BY <1>0, <1>7, <2>1 DEF Phase, Decided, At, Outcome, Verdict
    <2>3. Listed(t)' = Nothing BY <1>0, <1>4, <1>7, <2>2 DEF Listed, Pushing, OkBoot, Nothing
    <2>4. Promise!Reply(t, OkBoot(pos + 1), Nothing)
      BY <1>0, <1>1, <2>2, <2>3, Replies
    <2>5. /\ OkBoot(pos + 1) = Promise!Result("ok", "none", AbsAt[t] + 1)
          /\ Nothing = Promise!NoSessions
      BY <1>3 DEF OkBoot, Promise!Result, Nothing, Promise!NoSessions, Promise!Records, Records
    <2> QED BY <1>3, <1>5, <1>7, <2>4, <2>5 DEF Promise!BootTime, AbsPhase, AbsAt
  <1>8. CASE /\ ~ (op[t] = "sessions" /\ db[pos + 1] = "bad")
             /\ ~ (op[t] = "boot_time" /\ db[pos + 1] = "boot")
    <2>1. ~ Decisive(t)' BY <1>0, <1>8 DEF Decisive
    <2>2. Phase(t)' = "busy" /\ At(t)' = pos + 1 /\ Outcome(t)' = NoResult
      BY <1>0, <1>4, <2>1 DEF Phase, Decided, At, Outcome
    <2>3. Listed(t)' = IF op[t] = "sessions" /\ db[pos + 1] = "user"
                       THEN [found[t] EXCEPT ![pos + 1] = @ + 1] ELSE found[t]
      BY <1>0, <2>2 DEF Listed, Pushing, NoResult
    <2>4. /\ AbsPhase' = AbsPhase /\ AbsOutcome' = AbsOutcome
          /\ AbsAt' = [AbsAt EXCEPT ![t] = pos + 1]
          /\ AbsList' = [AbsList EXCEPT ![t] = Listed(t)']
      <3>1. AbsPhase' = AbsPhase /\ AbsOutcome' = AbsOutcome
        BY <1>1, <1>2, <2>2, OwnKept
      <3> QED BY <1>1, <2>2, <3>1, OnlyOwn
    <2>5. AbsList' = IF op[t] = "sessions" /\ db[pos + 1] = "user"
                     THEN [AbsList EXCEPT ![t] = [AbsList[t] EXCEPT ![AbsAt[t] + 1] = @ + 1]]
                     ELSE AbsList
      BY <1>2, <1>3, <2>3, <2>4 DEF AbsList
    <2> QED BY <1>0, <1>3, <1>5, <1>8, <2>4, <2>5
         DEF Promise!Pass, AbsPhase, AbsAt, AbsList, AbsOutcome
  <1> QED BY <1>6, <1>7, <1>8

(* getutxent at the end: the call is over. *)
LEMMA LastRecordRefines ==
    ASSUME IInv, NEW t \in Threads, LastRecord(t)
    PROVE  Promise!Finish(t) \/ Promise!NoBootTime(t)
  <1>0. /\ pc[t] = "next" /\ pc'[t] = "end"
        /\ pos < Size => db[pos + 1] = "none"
        /\ UNCHANGED <<db, writes, pos, buf, op, found>>
        /\ op[t] \in {"sessions", "boot_time"}
    BY DEF LastRecord, Goto, shared, file, IInv, TypeOK, WalkInv
  <1>1. \A u \in Threads : u # t => SameView(u)
    BY <1>0, Unseen DEF LastRecord, Goto, IInv, TypeOK
  <1>2. Phase(t) = "busy" /\ At(t) = pos /\ Listed(t) = found[t]
    BY <1>0, Walking
  <1>3. AbsPhase[t] = "busy" /\ AbsAt[t] = pos /\ AbsList[t] = found[t]
    BY <1>2 DEF AbsPhase, AbsAt, AbsList
  <1>4. Promise!AtEnd(t)
    BY <1>0, <1>3 DEF Promise!AtEnd, AbsAt
  <1>5. /\ Phase(t)' = "done" /\ At(t)' = 0 /\ Outcome(t)' = result'[t]
        /\ Listed(t)' = IF result'[t].kind = "error" THEN Nothing ELSE found[t]
    <2>1. ~ Decisive(t)' /\ Decided(t)' BY <1>0 DEF Decisive, Decided
    <2>2. Outcome(t)' = result'[t] BY <2>1 DEF Outcome
    <2> QED BY <1>0, <2>1, <2>2 DEF Phase, At, Listed, Pushing, Nothing, Records
  <1>6. CASE op[t] = "sessions"
    <2>1. result'[t] = OkSessions BY <1>6 DEF LastRecord, IInv, TypeOK
    <2>2. Promise!Reply(t, OkSessions, found[t])
      BY <1>0, <1>1, <1>5, <2>1, Replies DEF OkSessions
    <2>3. OkSessions = Promise!Result("ok", "none", 0)
      BY DEF OkSessions, Promise!Result
    <2> QED BY <1>3, <1>4, <1>6, <2>2, <2>3 DEF Promise!Finish, AbsPhase, AbsList
  <1>7. CASE op[t] = "boot_time"
    <2>1. result'[t] = Fail("not_found") BY <1>7 DEF LastRecord, IInv, TypeOK
    <2>2. Promise!Reply(t, Fail("not_found"), Nothing)
      BY <1>0, <1>1, <1>5, <2>1, Replies DEF Fail
    <2>3. Fail("not_found") = Promise!Result("error", "not_found", 0) /\ Nothing = Promise!NoSessions
      BY DEF Fail, Promise!Result, Nothing, Promise!NoSessions, Promise!Records, Records
    <2> QED BY <1>3, <1>4, <1>7, <2>2, <2>3 DEF Promise!NoBootTime, AbsPhase
  <1> QED BY <1>0, <1>6, <1>7

(* Parsing the static record only catches up with what getutxent decided. *)
LEMMA ParseSessionStutters ==
    ASSUME IInv, NEW t \in Threads, ParseSession(t)
    PROVE  UNCHANGED Promise!vars
  <1>a. /\ pc[t] = "parse" /\ op[t] = "sessions" /\ buf.place = pos /\ pos \in Records
        /\ result[t] = NoResult /\ UNCHANGED <<db, writes, pos, buf, op>>
    BY DEF ParseSession, shared, file, IInv, WalkInv
  <1>b. \/ /\ buf.kind = "user"
           /\ found' = [found EXCEPT ![t][pos] = @ + 1]
           /\ pc' = [pc EXCEPT ![t] = "next"] /\ result' = result
        \/ /\ buf.kind = "bad"
           /\ result' = [result EXCEPT ![t] = Fail("invalid_encoding")]
           /\ pc' = [pc EXCEPT ![t] = "end"] /\ found' = found
        \/ /\ buf.kind \notin {"user", "bad"}
           /\ pc' = [pc EXCEPT ![t] = "next"] /\ found' = found /\ result' = result
    BY <1>a DEF ParseSession, Goto
  <1>1. \A u \in Threads : u # t => SameView(u)
    BY <1>a, <1>b, Unseen DEF IInv, TypeOK
  <1>2. CASE buf.kind = "bad"
    <2>1. pc'[t] = "end" /\ result'[t] = Fail("invalid_encoding")
      BY <1>b, <1>2 DEF IInv, TypeOK
    <2>2. Decisive(t) /\ Decided(t) /\ ~ Decisive(t)' /\ Decided(t)'
      BY <1>a, <1>2, <2>1 DEF Decisive, Decided
    <2>3. Outcome(t) = Fail("invalid_encoding") /\ Outcome(t)' = Fail("invalid_encoding")
      BY <1>a, <2>1, <2>2 DEF Outcome, Verdict
    <2>4. Listed(t) = Nothing /\ Listed(t)' = Nothing
      BY <2>3 DEF Listed, Pushing, Fail, Nothing, Records
    <2>5. SameView(t)
      BY <1>a, <2>1, <2>2, <2>3, <2>4 DEF SameView, Phase, At
    <2> QED BY <1>a, <1>1, <2>5, Invisible
  <1>3. CASE buf.kind # "bad"
    <2>1. /\ pc'[t] = "next" /\ result'[t] = NoResult
          /\ found'[t] = IF buf.kind = "user" THEN [found[t] EXCEPT ![pos] = @ + 1] ELSE found[t]
      BY <1>a, <1>b, <1>3 DEF IInv, TypeOK
    <2>2. ~ Decisive(t) /\ ~ Decided(t) /\ ~ Decisive(t)' /\ ~ Decided(t)'
      BY <1>a, <1>3, <2>1 DEF Decisive, Decided
    <2>3. Outcome(t) = NoResult /\ Outcome(t)' = NoResult
      BY <1>a, <2>1, <2>2 DEF Outcome
    <2>4. Listed(t) = found'[t] /\ Listed(t)' = found'[t]
      BY <1>a, <2>1, <2>3 DEF Listed, Pushing, NoResult
    <2>5. SameView(t)
      BY <1>a, <2>1, <2>2, <2>3, <2>4 DEF SameView, Phase, At
    <2> QED BY <1>a, <1>1, <2>5, Invisible
  <1> QED BY <1>2, <1>3

LEMMA ParseBootStutters ==
    ASSUME IInv, NEW t \in Threads, ParseBoot(t)
    PROVE  UNCHANGED Promise!vars
  <1>a. /\ pc[t] = "parse" /\ op[t] = "boot_time" /\ buf.place = pos
        /\ result[t] = NoResult /\ UNCHANGED <<db, writes, pos, buf, op, found>>
    BY DEF ParseBoot, shared, file, IInv, WalkInv
  <1>b. \/ /\ buf.kind = "boot" /\ pc' = [pc EXCEPT ![t] = "end"]
           /\ result' = [result EXCEPT ![t] = OkBoot(pos)]
        \/ buf.kind # "boot" /\ pc' = [pc EXCEPT ![t] = "next"] /\ result' = result
    BY <1>a DEF ParseBoot, Goto
  <1>1. \A u \in Threads : u # t => SameView(u)
    BY <1>a, <1>b, Unseen DEF IInv, TypeOK
  <1>2. CASE buf.kind = "boot"
    <2>1. pc'[t] = "end" /\ result'[t] = OkBoot(pos)
      BY <1>b, <1>2 DEF IInv, TypeOK
    <2>2. Decisive(t) /\ Decided(t) /\ ~ Decisive(t)' /\ Decided(t)'
      BY <1>a, <1>2, <2>1 DEF Decisive, Decided
    <2>3. Outcome(t) = OkBoot(pos) /\ Outcome(t)' = OkBoot(pos)
      BY <1>a, <2>1, <2>2 DEF Outcome, Verdict
    <2>4. Listed(t) = found[t] /\ Listed(t)' = found[t]
      BY <1>a, <2>1, <2>3 DEF Listed, Pushing, OkBoot
    <2>5. SameView(t)
      BY <1>a, <2>1, <2>2, <2>3, <2>4 DEF SameView, Phase, At
    <2> QED BY <1>a, <1>1, <2>5, Invisible
  <1>3. CASE buf.kind # "boot"
    <2>1. pc'[t] = "next" /\ result'[t] = NoResult
      BY <1>a, <1>b, <1>3 DEF IInv, TypeOK
    <2>2. ~ Decisive(t) /\ ~ Decided(t) /\ ~ Decisive(t)' /\ ~ Decided(t)'
      BY <1>a, <1>3, <2>1 DEF Decisive, Decided
    <2>3. Outcome(t) = NoResult /\ Outcome(t)' = NoResult
      BY <1>a, <2>1, <2>2 DEF Outcome
    <2>4. Listed(t) = found[t] /\ Listed(t)' = found[t]
      BY <1>a, <2>1, <2>3 DEF Listed, Pushing, NoResult
    <2>5. SameView(t)
      BY <1>a, <2>1, <2>2, <2>3, <2>4 DEF SameView, Phase, At
    <2> QED BY <1>a, <1>1, <2>5, Invisible
  <1> QED BY <1>2, <1>3

(* The steps on the mutex, and those that open and close the database. *)
LEMMA LockStutters ==
    ASSUME IInv, IInv', NEW t \in Threads, Lock(t) \/ Rewind(t) \/ EndWalk(t) \/ Unlock(t)
    PROVE  UNCHANGED Promise!vars
  <1>a. UNCHANGED <<db, writes, op, found, result>>
    BY DEF Lock, Rewind, EndWalk, Unlock, file
  <1>1. \A u \in Threads : u # t => SameView(u)
    <2> SUFFICES ASSUME NEW u \in Threads, u # t PROVE SameView(u)
      OBVIOUS
    <2>1. CASE Lock(t) \/ Unlock(t)
      BY <2>1, Unseen DEF Lock, Unlock, Goto, IInv, TypeOK
    <2>2. CASE Rewind(t) \/ EndWalk(t)
      <3>1. Inside(t) BY <2>2 DEF Rewind, EndWalk, Inside
      <3>2. ~ Inside(u) BY <3>1, OthersKeep
      <3> QED BY <1>a, <2>2, <3>2, Unseen DEF Rewind, EndWalk, Goto, IInv, TypeOK, Inside
    <2> QED BY <2>1, <2>2
  <1>2. CASE Lock(t) \/ Rewind(t)
    <2>1. /\ pc[t] \in {"lock", "set"} /\ pc'[t] \in {"set", "next"}
          /\ pc'[t] = "next" => pos' = 0
      BY <1>2 DEF Lock, Rewind, Goto, IInv, TypeOK
    <2>2. At(t) = 0 /\ Listed(t) = Nothing /\ Outcome(t) = NoResult
      BY <2>1, Blank
    <2>3. found'[t] = Nothing /\ result'[t] = NoResult
      BY <1>a, <2>1 DEF IInv, WalkInv
    <2>4. ~ Decided(t) /\ ~ Decisive(t)' /\ ~ Decided(t)'
      BY <2>1 DEF Decisive, Decided
    <2>5. Outcome(t)' = NoResult BY <2>3, <2>4 DEF Outcome
    <2>6. Listed(t)' = Nothing BY <2>1, <2>3, <2>5 DEF Listed, Pushing, NoResult
    <2>7. At(t)' = 0 BY <2>1, <2>4 DEF At
    <2>8. Phase(t) = "busy" /\ Phase(t)' = "busy" BY <2>1, <2>4 DEF Phase
    <2>9. SameView(t) BY <2>2, <2>5, <2>6, <2>7, <2>8 DEF SameView
    <2> QED BY <1>a, <1>1, <2>9, Invisible
  <1>3. CASE EndWalk(t) \/ Unlock(t)
    <2>1. pc[t] \in {"end", "unlock"} /\ pc'[t] \in {"unlock", "done"}
      BY <1>3 DEF EndWalk, Unlock, Goto, IInv, TypeOK
    <2>2. Decided(t) /\ Decided(t)' /\ ~ Decisive(t) /\ ~ Decisive(t)'
      BY <2>1 DEF Decided, Decisive
    <2>3. Outcome(t)' = Outcome(t) BY <1>a, <2>2 DEF Outcome
    <2>4. Listed(t)' = Listed(t) BY <1>a, <2>1, <2>3 DEF Listed, Pushing, Nothing, Records
    <2>5. Phase(t)' = Phase(t) /\ At(t)' = At(t) BY <2>1, <2>2 DEF Phase, At
    <2>6. SameView(t) BY <2>3, <2>4, <2>5 DEF SameView
    <2> QED BY <1>a, <1>1, <2>6, Invisible
  <1> QED BY <1>2, <1>3

(* Every step of the implementation is a step of the promise, or invisible. *)
LEMMA StepRefines == IInv /\ IInv' /\ [Next]_vars => [Promise!Next]_(Promise!vars)
  <1> SUFFICES ASSUME IInv, IInv', [Next]_vars PROVE [Promise!Next]_(Promise!vars)
    OBVIOUS
  <1>0. Promise!Records = Records /\ Promise!Kinds = Kinds
    BY DEF Promise!Records, Records, Promise!Kinds, Kinds
  <1>1. CASE UNCHANGED vars
    <2>1. \A u \in Threads : SameView(u)
      BY <1>1, Unseen DEF vars
    <2>2. UNCHANGED Promise!vars BY <1>1, <2>1, Invisible DEF vars
    <2> QED BY <2>2
  <1>2. CASE \E i \in Records, k \in Kinds : Write(i, k)
    BY <1>0, <1>2, WriteRefines DEF Promise!Next
  <1>3. ASSUME NEW t \in Threads, \/ \E o \in {"sessions", "boot_time"} : Call(t, o)
                                  \/ Lock(t) \/ Walk(t) \/ TakeResult(t)
        PROVE  [Promise!Next]_(Promise!vars)
    <2>1. CASE \E o \in {"sessions", "boot_time"} : Call(t, o)
      BY <2>1, CallRefines DEF Promise!Next
    <2>2. CASE TakeResult(t)
      BY <2>2, TakeRefines DEF Promise!Next
    <2>3. CASE NextRecord(t)
      BY <2>3, NextRecordRefines DEF Promise!Next
    <2>4. CASE LastRecord(t)
      BY <2>4, LastRecordRefines DEF Promise!Next
    <2>5. CASE ParseSession(t) \/ ParseBoot(t)
      BY <2>5, ParseSessionStutters, ParseBootStutters
    <2>6. CASE Lock(t) \/ Rewind(t) \/ EndWalk(t) \/ Unlock(t)
      BY <2>6, LockStutters
    <2> QED BY <1>3, <2>1, <2>2, <2>3, <2>4, <2>5, <2>6 DEF Walk
  <1> QED BY <1>1, <1>2, <1>3 DEF Next

(* Nobody has called yet. *)
LEMMA InitRefines == Init => Promise!Init
  <1> SUFFICES ASSUME Init PROVE Promise!Init
    OBVIOUS
  <1>1. ASSUME NEW t \in Threads
        PROVE  /\ Phase(t) = "idle" /\ At(t) = 0
               /\ Listed(t) = Promise!NoSessions /\ Outcome(t) = Promise!NoResult
    <2>1. pc[t] = "idle" BY DEF Init
    <2>2. At(t) = 0 /\ Listed(t) = Nothing /\ Outcome(t) = NoResult
      BY <2>1, InitInv, Blank
    <2>3. Phase(t) = "idle" BY <2>1 DEF Phase, Decided, Decisive
    <2> QED BY <2>2, <2>3 DEF Nothing, NoResult, Promise!NoSessions, Promise!NoResult,
                              Promise!Result, Promise!Records, Records
  <1> QED BY <1>1 DEF Init, Promise!Init

(***************************************************************************)
(* For any number of threads, any login database and any writes of other   *)
(* processes, every call of sessions() and boot_time() is a walk of its    *)
(* own over the database as it stands record by record.                    *)
(***************************************************************************)
THEOREM OwnWalk == Spec => WalksAlone
  <1>1. Init => Promise!Init BY InitRefines
  <1>2. IInv /\ IInv' /\ [Next]_vars => [Promise!Next]_(Promise!vars) BY StepRefines
  <1> QED BY <1>1, <1>2, Invariance, PTL DEF Spec, WalksAlone, Promise!Spec
=============================================================================
