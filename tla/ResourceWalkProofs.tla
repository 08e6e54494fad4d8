------------------------- MODULE ResourceWalkProofs -------------------------
(***************************************************************************)
(* For any set of processes, coming and going in any way: thread_count()   *)
(* covers every process that exists throughout, and process_count() is     *)
(* bracketed. The invariant says, while the walk is under way, what is     *)
(* known of the names already returned by readdir; the end of the          *)
(* directory turns that into a statement about every stable process.       *)
(***************************************************************************)
EXTENDS ResourceWalk, FiniteSetTheorems, TLAPS

(* Incarnations only ever move forward from where the query found them. *)
StartInv == \A p \in Pids : /\ start[p].inc <= proc[p].inc
                            /\ proc[p].state # "free" => proc[p].inc \in Incarnations

(* The record of p's present owner was readable and has been summed. *)
Covered(p) == /\ <<p, proc[p].inc>> \in read
              /\ AccessOf[p][proc[p].inc] \in Readable

(* A name that readdir has returned and the visitor is finished with. *)
Handled(p) == p \in returned /\ (pc \in {"open", "read"} => p # cur)

CurInv == /\ pc = "idle" <=> op = "none"
          /\ pc \in {"open", "read"} => /\ cur \in returned /\ op = "thread_count"
                                     /\ visited < CountMax
          /\ pc = "read" => /\ start[cur].inc <= handle
                            /\ handle <= proc[cur].inc
                            /\ handle \in Incarnations
                            /\ AccessOf[cur][handle] \in Readable \cup {"odd"}

WalkInv == /\ pc = "idle" => returned = {} /\ visited = 0
           /\ returned \subseteq Sighted
           /\ (op = "thread_count" /\ pc \in {"readdir", "open", "read"}) =>
                \A p \in Stable : Handled(p) => Covered(p)
           /\ (op = "process_count" /\ pc = "readdir") => visited = Cardinality(returned)

AnswerInv == /\ Counted("thread_count") => \A p \in Stable : Covered(p)
             /\ Counted("process_count") =>
                  Stable \subseteq returned /\ result.value = Cardinality(returned)
             /\ pc \in {"readdir", "open", "read"} => result.kind = "none"

(* The inductive invariant. *)
IInv == TypeOK /\ StartInv /\ CurInv /\ WalkInv /\ AnswerInv

-----------------------------------------------------------------------------
(* No query has started and nothing has been returned. *)
LEMMA InitInv == Init => IInv
  <1> SUFFICES ASSUME Init PROVE IInv
    OBVIOUS
  <1> USE ProcFsAssumption, ResourceAssumption
  <1>0. 0 \in 0..MaxIncarnation /\ 0 \in 0..CountMax
    OBVIOUS
  <1>a. proc \in ProcTable BY DEF Init, ProcInit
  <1>b. start \in ProcTable BY <1>0 DEF Init, ProcInit, NoStart, ProcTable
  <1>1. TypeOK
    BY <1>0, <1>a, <1>b DEF Init, ProcInit, TypeOK, NoResult
  <1>2. StartInv
    <2>1. ASSUME NEW p \in Pids, proc[p].state # "free" PROVE proc[p].inc \in Incarnations
      <3>1. proc[p].inc \in 0..MaxIncarnation /\ proc[p].inc # 0
        BY <1>a, <2>1 DEF Init, ProcInit, ProcTable
      <3> QED BY <3>1 DEF Incarnations
    <2>2. ASSUME NEW p \in Pids PROVE start[p].inc <= proc[p].inc
      BY <1>a DEF Init, ProcInit, NoStart, ProcTable
    <2> QED BY <2>1, <2>2 DEF StartInv
  <1>3. CurInv /\ WalkInv /\ AnswerInv
    BY DEF Init, ProcInit, CurInv, WalkInv, AnswerInv, Counted
  <1> QED BY <1>1, <1>2, <1>3 DEF IInv

(* A process that is stable after a kernel step was so before it. *)
LEMMA KernelStable ==
    ASSUME TypeOK, StartInv, Kernel
    PROVE  /\ proc' \in ProcTable /\ start' = start /\ returned' = returned
           /\ StartInv'
           /\ Stable' \subseteq Stable
           /\ \A p \in Stable' : proc'[p].inc = proc[p].inc
           /\ Sighted \subseteq Sighted'
           /\ \A p \in Pids : proc[p].inc <= proc'[p].inc
  <1> USE ProcFsAssumption
  <1>1. PICK q \in Pids : Spawn(q) \/ Exit(q) \/ Reap(q)
    BY DEF Kernel
  <1>2. start' = start /\ returned' = returned
    BY <1>1 DEF Spawn, Exit, Reap
  <1>3. proc' \in ProcTable
    <2>1. proc \in ProcTable /\ proc[q] \in [state : {"free", "alive", "zombie"}, inc : 0..MaxIncarnation]
      BY DEF TypeOK, ProcTable
    <2>2. CASE Spawn(q)
      <3>1. [state |-> "alive", inc |-> proc[q].inc + 1]
               \in [state : {"free", "alive", "zombie"}, inc : 0..MaxIncarnation]
        BY <2>1, <2>2 DEF Spawn
      <3> QED BY <2>1, <2>2, <3>1 DEF Spawn, ProcTable
    <2>3. CASE Exit(q) BY <2>1, <2>3 DEF Exit, ProcTable
    <2>4. CASE Reap(q) BY <2>1, <2>4 DEF Reap, ProcTable
    <2> QED BY <1>1, <2>2, <2>3, <2>4
  <1>4. /\ \A p \in Pids : p # q => proc'[p] = proc[p]
        /\ \/ proc[q].state = "free" /\ proc'[q].inc = proc[q].inc + 1
           \/ proc[q].state # "free" /\ proc'[q].inc = proc[q].inc
    BY <1>1 DEF Spawn, Exit, Reap, TypeOK, ProcTable
  <1>5. \A p \in Pids : proc[p].inc \in Nat /\ start[p].inc \in Nat
    BY DEF TypeOK, ProcTable
  <1>6. \A p \in Pids : proc[p].inc <= proc'[p].inc /\ start[p].inc <= proc[p].inc
    <2>1. SUFFICES ASSUME NEW p \in Pids
                   PROVE  proc[p].inc <= proc'[p].inc /\ start[p].inc <= proc[p].inc
      OBVIOUS
    <2>2. start[p].inc <= proc[p].inc BY DEF StartInv
    <2>3. CASE p = q BY <1>4, <1>5, <2>2, <2>3
    <2>4. CASE p # q BY <1>4, <1>5, <2>2, <2>4
    <2> QED BY <2>3, <2>4
  <1>7. \A p \in Pids : proc'[p].inc \in Nat
    BY <1>3 DEF ProcTable
  <1>8. StartInv'
    <2>1. \A p \in Pids : start'[p].inc <= proc'[p].inc
      BY <1>2, <1>5, <1>6, <1>7
    <2>2. ASSUME NEW p \in Pids, proc'[p].state # "free" PROVE proc'[p].inc \in Incarnations
      <3>1. proc'[p].inc \in 0..MaxIncarnation BY <1>3 DEF ProcTable
      <3>2. proc'[p].inc # 0
        <4>1. CASE p # q
          <5>1. proc'[p] = proc[p] BY <1>4, <4>1
          <5>2. proc[p].inc \in Incarnations BY <2>2, <5>1 DEF StartInv
          <5> QED BY <5>1, <5>2 DEF Incarnations
        <4>2. CASE p = q /\ proc[q].state = "free" 
          <5>1. proc'[p].inc = proc[p].inc + 1 /\ proc[p].inc \in Nat BY <1>4, <1>5, <4>2
          <5> QED BY <5>1
        <4>3. CASE p = q /\ proc[q].state # "free"
          <5>1. proc[p].inc \in Incarnations BY <4>3 DEF StartInv
          <5> QED BY <1>4, <4>3, <5>1 DEF Incarnations
        <4> QED BY <4>1, <4>2, <4>3
      <3> QED BY <3>1, <3>2 DEF Incarnations
    <2> QED BY <2>1, <2>2 DEF StartInv
  <1>9. \A p \in Pids : p \in Stable' => p \in Stable /\ proc'[p].inc = proc[p].inc
    BY <1>2, <1>4, <1>5, <1>6 DEF Stable
  <1>10. Sighted \subseteq Sighted'
    <2>1. ASSUME NEW p \in Pids, proc[p].inc > start[p].inc PROVE proc'[p].inc > start[p].inc
      <3>1. proc[p].inc \in Nat /\ proc'[p].inc \in Nat /\ start[p].inc \in Nat
            /\ proc[p].inc <= proc'[p].inc
        BY <1>5, <1>6, <1>7
      <3> QED BY <2>1, <3>1
    <2> QED BY <1>2, <2>1 DEF Sighted
  <1>11. Stable' \subseteq Pids BY DEF Stable
  <1> QED BY <1>2, <1>3, <1>6, <1>8, <1>9, <1>10, <1>11

(* Processes come and go: every part of the invariant survives. *)
LEMMA KernelInv ==
    ASSUME IInv, Kernel, UNCHANGED libVars
    PROVE  IInv'
  <1>1. TypeOK /\ StartInv /\ CurInv /\ WalkInv /\ AnswerInv BY DEF IInv
  <1>2. /\ proc' \in ProcTable /\ start' = start /\ returned' = returned
        /\ StartInv'
        /\ Stable' \subseteq Stable
        /\ \A p \in Stable' : proc'[p].inc = proc[p].inc
        /\ Sighted \subseteq Sighted'
        /\ \A p \in Pids : proc[p].inc <= proc'[p].inc
    BY <1>1, KernelStable
  <1>3. TypeOK' BY <1>1, <1>2 DEF TypeOK, libVars
  <1>4. CurInv'
    <2>1. pc = "read" => cur \in Pids /\ proc[cur].inc \in Nat /\ proc'[cur].inc \in Nat
                         /\ handle \in Nat
      BY <1>1, <1>2 DEF CurInv, TypeOK, ProcTable
    <2> QED BY <1>1, <1>2, <2>1 DEF CurInv, libVars
  <1>5. \A p \in Stable' : Covered(p) => Covered(p)'
    BY <1>2 DEF Covered, libVars
  <1>6. \A p \in Pids : Handled(p)' = Handled(p)
    BY <1>2 DEF Handled, libVars
  <1>7. Stable' \subseteq Pids BY DEF Stable
  <1>8. WalkInv' BY <1>1, <1>2, <1>5, <1>6, <1>7 DEF WalkInv, libVars
  <1>9. AnswerInv' BY <1>1, <1>2, <1>5 DEF AnswerInv, Counted, libVars
  <1> QED BY <1>2, <1>3, <1>4, <1>8, <1>9 DEF IInv

(* opendir("/proc"): the query begins with the process table of this moment. *)
LEMMA OpenDirInv ==
    ASSUME IInv, NEW o \in {"process_count", "thread_count"}, OpenDir(o)
    PROVE  IInv'
  <1> USE ResourceAssumption
  <1>1. TypeOK'
    BY DEF OpenDir, Return, NoResult, Fail, IInv, TypeOK
  <1>2. StartInv'
    BY DEF OpenDir, IInv, TypeOK, ProcTable, StartInv
  <1>3. pc' \in {"readdir", "done"} /\ returned' = {} /\ visited' = 0
        /\ (pc' = "done" => result'.kind = "error") /\ (pc' = "readdir" => result'.kind = "none")
    BY DEF OpenDir, Return, Fail, NoResult, IInv, WalkInv
  <1>4. CurInv' BY <1>3 DEF CurInv, OpenDir
  <1>5. WalkInv' BY <1>3, FS_EmptySet DEF WalkInv, Handled
  <1>6. AnswerInv' BY <1>3 DEF AnswerInv, Counted
  <1> QED BY <1>1, <1>2, <1>4, <1>5, <1>6 DEF IInv

(* The sets a step of the library leaves alone. *)
LEMMA LibFrame ==
    ASSUME proc' = proc, start' = start
    PROVE  Stable' = Stable /\ Sighted' = Sighted
  BY DEF Stable, Sighted

(* readdir() returns one more name. *)
LEMMA ReadDirNameInv ==
    ASSUME IInv, NEW p \in Pids, ReadDirName(p)
    PROVE  IInv'
  <1> USE ResourceAssumption, ProcFsAssumption
  <1>0. TypeOK /\ StartInv /\ WalkInv /\ AnswerInv BY DEF IInv
  <1>1. TypeOK'
    BY <1>0 DEF ReadDirName, Return, Fail, TypeOK
  <1>2. StartInv' BY <1>0 DEF ReadDirName, StartInv
  <1>3. /\ Stable' = Stable /\ Sighted' = Sighted /\ op' = op /\ read' = read
        /\ proc' = proc /\ returned' = returned \cup {p} /\ p \in Sighted /\ p \notin returned
        /\ pc = "readdir"
    BY LibFrame DEF ReadDirName, DirectoryMayYield
  <1>4. \/ pc' = "done" /\ result'.kind = "error"
        \/ pc' = "readdir" /\ op = "process_count" /\ visited' = visited + 1 /\ result' = result
        \/ pc' = "open" /\ op = "thread_count" /\ cur' = p /\ visited' = visited /\ result' = result
           /\ visited < CountMax
    <2>1. visited \in 0..CountMax /\ op \in {"process_count", "thread_count"}
      BY <1>0, <1>3 DEF TypeOK, CurInv, IInv
    <2>2. CASE visited = CountMax
      BY <2>2 DEF ReadDirName, Return, Fail
    <2>3. CASE visited # CountMax
      <3>1. visited < CountMax BY <2>1, <2>3
      <3>2. CASE op = "process_count" BY <1>3, <2>3, <3>2 DEF ReadDirName
      <3>3. CASE op = "thread_count" BY <2>3, <3>1, <3>3 DEF ReadDirName
      <3> QED BY <2>1, <3>2, <3>3
    <2> QED BY <2>2, <2>3
  <1>5. CurInv' BY <1>3, <1>4 DEF CurInv, IInv
  <1>6. WalkInv'
    <2>1. returned' \subseteq Sighted' BY <1>0, <1>3 DEF WalkInv
    <2>2. (op' = "thread_count" /\ pc' \in {"readdir", "open", "read"}) =>
             \A q \in Stable' : Handled(q)' => Covered(q)'
      BY <1>0, <1>3, <1>4 DEF WalkInv, Handled, Covered
    <2>3. (op' = "process_count" /\ pc' = "readdir") => visited' = Cardinality(returned')
      <3>1. IsFiniteSet(returned) BY <1>0, FS_Subset DEF TypeOK
      <3>2. Cardinality(returned \cup {p}) = Cardinality(returned) + 1
        BY <1>3, <3>1, FS_AddElement
      <3> QED BY <1>0, <1>3, <1>4, <3>2 DEF WalkInv
    <2> QED BY <1>4, <2>1, <2>2, <2>3 DEF WalkInv
  <1>7. AnswerInv' BY <1>0, <1>3, <1>4 DEF AnswerInv, Counted
  <1> QED BY <1>1, <1>2, <1>5, <1>6, <1>7 DEF IInv

(***************************************************************************)
(* The visitor is done with cur without an error: if cur is a stable       *)
(* process, its record has been summed.                                    *)
(***************************************************************************)
LEMMA VisitedInv ==
    ASSUME IInv, TypeOK', pc \in {"open", "read"}, Visited, UNCHANGED <<procVars, op, cur>>,
           read \subseteq read', cur \in Stable => Covered(cur)'
    PROVE  IInv'
  <1>0. /\ TypeOK /\ StartInv /\ CurInv /\ WalkInv /\ AnswerInv
        /\ proc' = proc /\ start' = start /\ returned' = returned /\ op' = op
        /\ pc' = "readdir" /\ result' = result /\ op = "thread_count"
    BY DEF IInv, Visited, procVars, CurInv
  <1>1. Stable' = Stable /\ Sighted' = Sighted BY <1>0, LibFrame
  <1>2. StartInv' BY <1>0 DEF StartInv
  <1>3. CurInv' BY <1>0 DEF CurInv
  <1>4. \A q \in Stable : q \in returned => Covered(q)'
    <2>1. ASSUME NEW q \in Stable, q \in returned, q # cur PROVE Covered(q)'
      BY <1>0, <2>1 DEF WalkInv, Handled, Covered
    <2> QED BY <2>1
  <1>5. WalkInv' BY <1>0, <1>1, <1>4 DEF WalkInv, Handled
  <1>6. AnswerInv' BY <1>0 DEF AnswerInv, Counted
  <1> QED BY <1>2, <1>3, <1>5, <1>6 DEF IInv

(* The query fails: nothing is claimed. *)
LEMMA FailInv ==
    ASSUME IInv, TypeOK', pc \in {"readdir", "open", "read"}, UNCHANGED <<procVars, op>>,
           pc' = "done", result'.kind = "error"
    PROVE  IInv'
  <1>0. /\ TypeOK /\ StartInv /\ CurInv /\ WalkInv
        /\ proc' = proc /\ start' = start /\ returned' = returned /\ op' = op
    BY DEF IInv, procVars
  <1>1. Stable' = Stable /\ Sighted' = Sighted BY <1>0, LibFrame
  <1>2. StartInv' BY <1>0 DEF StartInv
  <1>3. CurInv' BY <1>0 DEF CurInv
  <1>4. WalkInv' BY <1>0, <1>1 DEF WalkInv
  <1>5. AnswerInv' BY DEF AnswerInv, Counted
  <1> QED BY <1>2, <1>3, <1>4, <1>5 DEF IInv

(* A count of visited entries stays in range: at most CountMax - 1 so far. *)
LEMMA StatFailedType ==
    ASSUME TypeOK, NEW code, StatFailed(code), visited < CountMax, UNCHANGED procVars,
           handle' = handle, op' = op, cur' = cur, total' = total,
           overflowed' = overflowed, read' = read
    PROVE  TypeOK'
  BY ResourceAssumption DEF StatFailed, Visited, Return, Fail, TypeOK, procVars

(* open(/proc/<cur>/stat): a stable process is never missing. *)
LEMMA OpenStatInv ==
    ASSUME IInv, OpenStat
    PROVE  IInv'
  <1> USE ResourceAssumption, ProcFsAssumption
  <1>0. /\ TypeOK /\ StartInv /\ CurInv /\ WalkInv /\ AnswerInv
        /\ pc = "open" /\ cur \in Pids /\ visited < CountMax
        /\ UNCHANGED <<procVars, op, cur, total, overflowed, read>>
    BY DEF IInv, OpenStat, CurInv, TypeOK
  <1>1. PICK outcome \in OpenOutcomes(cur) :
          IF outcome = "ok"
          THEN handle' = proc[cur].inc /\ pc' = "read" /\ UNCHANGED <<visited, result>>
          ELSE StatFailed(outcome) /\ UNCHANGED handle
    BY DEF OpenStat
  <1>2. CASE outcome = "ok"
    <2>1. Exists(cur) BY <1>1, <1>2 DEF OpenOutcomes
    <2>2. proc' = proc /\ start' = start /\ returned' = returned BY <1>0 DEF procVars
    <2>3. /\ handle' = proc[cur].inc /\ pc' = "read" /\ visited' = visited /\ result' = result
          /\ op' = op /\ cur' = cur /\ read' = read
      BY <1>0, <1>1, <1>2
    <2>4. proc[cur].inc \in 0..MaxIncarnation /\ start[cur].inc <= proc[cur].inc
          /\ start[cur].inc \in 0..MaxIncarnation
      BY <1>0 DEF TypeOK, ProcTable, StartInv
    <2>a. proc[cur].inc \in Incarnations /\ AccessOf[cur][proc[cur].inc] \in Readable \cup {"odd"}
      <3>1. proc[cur].inc \in Incarnations BY <1>0, <2>1 DEF StartInv, Exists
      <3>2. AccessOf[cur][proc[cur].inc] \in AccessClasses BY <1>0, <3>1
      <3>3. AccessOf[cur][proc[cur].inc] \notin {"eacces", "eperm"}
        BY <1>2, <2>1 DEF OpenOutcomes
      <3> QED BY <3>1, <3>2, <3>3 DEF AccessClasses, Readable
    <2>5. TypeOK' BY <1>0, <2>2, <2>3, <2>4 DEF TypeOK
    <2>6. Stable' = Stable /\ Sighted' = Sighted BY <2>2, LibFrame
    <2>7. StartInv' BY <1>0, <2>2 DEF StartInv
    <2>8. CurInv' BY <1>0, <2>a, <2>2, <2>3, <2>4 DEF CurInv
    <2>9. WalkInv'
      BY <1>0, <2>2, <2>3, <2>6 DEF WalkInv, Handled, Covered
    <2>10. AnswerInv' BY <1>0, <2>3 DEF AnswerInv, Counted
    <2> QED BY <2>5, <2>7, <2>8, <2>9, <2>10 DEF IInv
  <1>3. CASE outcome # "ok"
    <2>1. StatFailed(outcome) /\ handle' = handle BY <1>1, <1>3
    <2>2. TypeOK' BY <1>0, <2>1, StatFailedType
    <2>3. CASE outcome = "ENOENT"
      <3>1. Visited BY <2>1, <2>3 DEF StatFailed
      <3>2. ~ Exists(cur) BY <2>3 DEF OpenOutcomes
      <3>3. cur \notin Stable BY <3>2, <1>0 DEF Exists, Stable
      <3> QED BY <1>0, <2>2, <3>1, <3>3, VisitedInv
    <2>4. CASE outcome # "ENOENT"
      <3>1. pc' = "done" /\ result'.kind = "error" BY <2>1, <2>4 DEF StatFailed, Return, Fail
      <3> QED BY <1>0, <2>2, <3>1, FailInv
    <2> QED BY <2>3, <2>4
  <1> QED BY <1>2, <1>3

(* A handle on a process that is gone: the process was not stable. *)
LEMMA ReadGoneInv ==
    ASSUME IInv, ReadGone
    PROVE  IInv'
  <1> USE ResourceAssumption, ProcFsAssumption
  <1>0. /\ TypeOK /\ CurInv
        /\ pc = "read" /\ cur \in Pids /\ visited < CountMax /\ ~Holds(cur, handle)
        /\ UNCHANGED <<procVars, op, cur, handle, total, overflowed, read>>
    BY DEF IInv, ReadGone, CurInv, TypeOK
  <1>1. cur \notin Stable
    <2>1. /\ start[cur].inc <= handle /\ handle <= proc[cur].inc
          /\ handle \in Nat /\ start[cur].inc \in Nat /\ proc[cur].inc \in Nat
      BY <1>0 DEF CurInv, TypeOK, ProcTable
    <2>2. ASSUME cur \in Stable PROVE FALSE
      <3>1. proc[cur].inc = start[cur].inc /\ Exists(cur) BY <2>2 DEF Stable, Exists
      <3>2. handle = proc[cur].inc BY <2>1, <3>1
      <3> QED BY <1>0, <3>1, <3>2 DEF Holds
    <2> QED BY <2>2
  <1>2. CASE Visited
    <2>1. TypeOK' BY <1>0, <1>2 DEF Visited, TypeOK, procVars
    <2> QED BY <1>0, <1>1, <1>2, <2>1, VisitedInv
  <1>3. CASE StatFailed("ESRCH")
    <2>1. TypeOK' BY <1>0, <1>3, StatFailedType
    <2>2. pc' = "done" /\ result'.kind = "error" BY <1>3 DEF StatFailed, Return, Fail
    <2> QED BY <1>0, <2>1, <2>2, FailInv
  <1> QED BY <1>2, <1>3 DEF ReadGone

(* A record read from the process the handle belongs to. *)
LEMMA ReadStatInv ==
    ASSUME IInv, ReadStat
    PROVE  IInv'
  <1> USE ResourceAssumption, ProcFsAssumption
  <1>0. /\ TypeOK /\ CurInv
        /\ pc = "read" /\ cur \in Pids /\ visited < CountMax /\ Holds(cur, handle)
        /\ handle \in Incarnations
        /\ UNCHANGED <<procVars, op, cur, handle>>
    BY DEF IInv, ReadStat, CurInv, TypeOK
  <1>1. CASE AccessOf[cur][handle] = "odd"
    <2>1. /\ pc' = "done" /\ result' = Fail("malformed_data")
          /\ UNCHANGED <<visited, total, overflowed, read>>
      BY <1>1 DEF ReadStat, Return
    <2>2. result'.kind = "error" /\ result'.value = 0 BY <2>1 DEF Fail
    <2>3. TypeOK' BY <1>0, <2>1, <2>2 DEF TypeOK, procVars
    <2> QED BY <1>0, <2>1, <2>2, <2>3, FailInv
  <1>2. CASE AccessOf[cur][handle] # "odd"
    <2>1. AddThreads(Threads(<<cur, handle>>)) /\ read' = read \cup {<<cur, handle>>} /\ Visited
      BY <1>2 DEF ReadStat
    <2>2. Threads(<<cur, handle>>) \in Nat BY <1>0 DEF Threads
    <2>a. total \in 0..CountMax /\ overflowed \in BOOLEAN BY <1>0 DEF TypeOK
    <2>b. total' \in 0..CountMax BY <2>1, <2>2, <2>a DEF AddThreads
    <2>3. overflowed' \in BOOLEAN BY <2>1, <2>a DEF AddThreads
    <2>4. TypeOK' BY <1>0, <2>1, <2>b, <2>3 DEF TypeOK, procVars, Visited
    <2>5. AccessOf[cur][handle] \in Readable BY <1>0, <1>2 DEF CurInv
    <2>6. Covered(cur)'
      BY <1>0, <2>1, <2>5 DEF Covered, Holds, procVars
    <2> QED BY <1>0, <2>1, <2>4, <2>6, VisitedInv
  <1> QED BY <1>1, <1>2

(* readdir() reports the end: every stable name has been returned. *)
LEMMA ReadDirEndInv ==
    ASSUME IInv, ReadDirEnd
    PROVE  IInv'
  <1> USE ResourceAssumption, ProcFsAssumption
  <1>0. /\ TypeOK /\ StartInv /\ CurInv /\ WalkInv
        /\ pc = "readdir" /\ pc' = "done" /\ op \in {"process_count", "thread_count"}
        /\ UNCHANGED <<procVars, op, cur, handle, visited, total, overflowed, read>>
        /\ Stable \subseteq returned
    BY DEF IInv, ReadDirEnd, Return, DirectoryMayEnd, CurInv, TypeOK
  <1>1. /\ result'.kind \in {"ok", "error"} /\ result'.value \in 0..CountMax
        /\ (op = "process_count" /\ result'.kind = "ok") => result'.value = visited
    BY <1>0 DEF ReadDirEnd, Return, validate_positive_count, Ok, Fail, TypeOK
  <1>2. TypeOK' BY <1>0, <1>1 DEF TypeOK, procVars
  <1>3. proc' = proc /\ start' = start /\ returned' = returned /\ op' = op /\ read' = read
    BY <1>0 DEF procVars
  <1>4. Stable' = Stable /\ Sighted' = Sighted BY <1>3, LibFrame
  <1>5. StartInv' /\ CurInv' /\ WalkInv'
    BY <1>0, <1>3, <1>4 DEF StartInv, CurInv, WalkInv
  <1>6. AnswerInv'
    BY <1>0, <1>1, <1>3, <1>4 DEF AnswerInv, Counted, WalkInv, Handled, Covered
  <1> QED BY <1>2, <1>5, <1>6 DEF IInv

(* readdir() fails: so does the query. *)
LEMMA ReadDirErrorInv ==
    ASSUME IInv, ReadDirError
    PROVE  IInv'
  <1>1. pc' = "done" /\ result' = Fail("EIO") BY DEF ReadDirError, Return
  <1>2. result'.kind = "error" /\ result'.value = 0 BY <1>1 DEF Fail
  <1>3. TypeOK' BY <1>1, <1>2, ResourceAssumption DEF ReadDirError, IInv, TypeOK, procVars
  <1> QED BY <1>1, <1>2, <1>3, FailInv DEF ReadDirError

(* The query is over and forgotten. *)
LEMMA TakeResultInv ==
    ASSUME IInv, TakeResult
    PROVE  IInv'
  <1> USE ResourceAssumption, ProcFsAssumption
  <1>1. NoStart \in ProcTable BY DEF NoStart, ProcTable
  <1>a. 0 \in 0..CountMax /\ 0 \in 0..MaxIncarnation OBVIOUS
  <1>b. result'.kind = "none" /\ result'.value = 0 BY DEF TakeResult, NoResult
  <1>2. TypeOK' BY <1>1, <1>a, <1>b DEF TakeResult, IInv, TypeOK
  <1>3. StartInv'
    BY DEF TakeResult, IInv, StartInv, NoStart, TypeOK, ProcTable
  <1>4. CurInv' /\ WalkInv' /\ AnswerInv'
    BY DEF TakeResult, CurInv, WalkInv, AnswerInv, Counted
  <1> QED BY <1>2, <1>3, <1>4 DEF IInv

(* Every step of the query and of the kernel keeps the invariant. *)
LEMMA NextInv == IInv /\ [Next]_vars => IInv'
  <1> SUFFICES ASSUME IInv, [Next]_vars PROVE IInv'
    OBVIOUS
  <1>1. CASE UNCHANGED vars
    <2>1. Stable' = Stable /\ Sighted' = Sighted BY <1>1, LibFrame DEF vars, procVars
    <2> QED BY <1>1, <2>1
        DEF vars, procVars, libVars, IInv, TypeOK, StartInv, CurInv, WalkInv, AnswerInv,
            Counted, Handled, Covered
  <1>2. CASE Next
    BY <1>2, KernelInv, OpenDirInv, ReadDirNameInv, OpenStatInv, ReadGoneInv, ReadStatInv,
       ReadDirEndInv, ReadDirErrorInv, TakeResultInv DEF Next, Query
  <1> QED BY <1>1, <1>2

(* The invariant holds in every reachable state. *)
THEOREM Invariance == Spec => []IInv
  BY InitInv, NextInv, PTL DEF Spec

(* Every variable keeps its type; neither counter exceeds the uint64 range. *)
THEOREM TypeCorrect == Spec => []TypeOK
  <1>1. IInv => TypeOK BY DEF IInv
  <1> QED BY <1>1, Invariance, PTL

(* thread_count() covers every process that exists throughout the call. *)
THEOREM Covers == Spec => []TotalCoversEveryProcess
  <1>1. IInv => TotalCoversEveryProcess
    BY DEF IInv, AnswerInv, Covered, TotalCoversEveryProcess
  <1> QED BY <1>1, Invariance, PTL

(* process_count() lies between the stable and the sighted processes. *)
THEOREM Bracketed == Spec => []ProcessCountBracketed
  <1>1. ASSUME IInv PROVE ProcessCountBracketed
    <2>1. SUFFICES ASSUME Counted("process_count")
                   PROVE  result.value \in Cardinality(Stable)..Cardinality(Sighted)
      BY DEF ProcessCountBracketed
    <2>2. Stable \subseteq returned /\ returned \subseteq Sighted /\ Sighted \subseteq Pids
          /\ result.value = Cardinality(returned)
      BY <1>1, <2>1 DEF IInv, AnswerInv, WalkInv, Sighted
    <2>3. IsFiniteSet(Sighted) /\ IsFiniteSet(returned)
      BY <2>2, ProcFsAssumption, FS_Subset
    <2>4. Cardinality(Stable) <= Cardinality(returned)
          /\ Cardinality(returned) <= Cardinality(Sighted)
      BY <2>2, <2>3, FS_Subset
    <2>5. Cardinality(Stable) \in Nat /\ Cardinality(returned) \in Nat /\ Cardinality(Sighted) \in Nat
      BY <2>2, <2>3, FS_Subset, FS_CardinalityType
    <2> QED BY <2>2, <2>4, <2>5
  <1>2. IInv => ProcessCountBracketed BY <1>1
  <1> QED BY <1>2, Invariance, PTL

-----------------------------------------------------------------------------
(***************************************************************************)
(* What the sum stands for while it is being formed. Once it would have    *)
(* overflowed, total is no longer the number of threads read, which then   *)
(* already exceeds the counter.                                            *)
(***************************************************************************)
RecordsInv == /\ \A r \in read : Lived(r[1], r[2]) /\ r[1] \in returned
              /\ \A r, s \in read : r[1] = s[1] => r = s
              /\ pc \in {"open", "read"} => \A r \in read : r[1] # cur

SumInv == /\ IsFiniteSet(ThreadsIn(read))
          /\ overflowed => Cardinality(ThreadsIn(read)) > CountMax
          /\ ~overflowed => total = Cardinality(ThreadsIn(read))
          /\ Counted("thread_count") => result.value = Cardinality(ThreadsIn(read))

EInv == /\ IInv
        /\ pc = "idle" => read = {} /\ total = 0 /\ ~overflowed
        /\ RecordsInv /\ SumInv

(* No records, no threads. *)
LEMMA NoThreads == IsFiniteSet(ThreadsIn({})) /\ Cardinality(ThreadsIn({})) = 0
  <1>1. ThreadsIn({}) = {} BY DEF ThreadsIn
  <1> QED BY <1>1, FS_EmptySet

(* One more record adds its threads. *)
LEMMA MoreThreads ==
    ASSUME NEW R, NEW r, r \notin R, IsFiniteSet(ThreadsIn(R)), Threads(r) \in Nat
    PROVE  /\ IsFiniteSet(ThreadsIn(R \cup {r}))
           /\ Cardinality(ThreadsIn(R)) \in Nat
           /\ Cardinality(ThreadsIn(R \cup {r})) = Cardinality(ThreadsIn(R)) + Threads(r)
  <1> DEFINE A == ThreadsIn(R)
             B == {r} \X (1..Threads(r))
  <1>1. IsFiniteSet(1..Threads(r)) /\ Cardinality(1..Threads(r)) = Threads(r) BY FS_Interval
  <1>2. IsFiniteSet({r}) /\ Cardinality({r}) = 1 BY FS_Singleton
  <1>3. IsFiniteSet(B) /\ Cardinality(B) = 1 * Threads(r) BY <1>1, <1>2, FS_Product
  <1>4. ThreadsIn(R \cup {r}) = A \cup B BY DEF ThreadsIn
  <1>5. A \cap B = {}
    <2> SUFFICES ASSUME NEW x \in A, x \in B PROVE FALSE OBVIOUS
    <2>1. x[1] = r OBVIOUS
    <2>2. PICK q \in R : x \in {q} \X (1..Threads(q)) BY DEF ThreadsIn
    <2>3. x[1] = q BY <2>2
    <2> QED BY <2>1, <2>2, <2>3
  <1> HIDE DEF A, B
  <1>6. IsFiniteSet(A) BY DEF A
  <1>7. IsFiniteSet(A \cup B) /\ Cardinality(A \cup B) = Cardinality(A) + Cardinality(B) - 0
    BY <1>3, <1>5, <1>6, FS_Union, FS_EmptySet
  <1>8. Cardinality(A) \in Nat BY <1>6, FS_CardinalityType
  <1>9. PICK a, b, n : a = Cardinality(A) /\ b = Cardinality(B) /\ n = Threads(r) OBVIOUS
  <1>10. a \in Nat /\ n \in Nat /\ b = 1 * n BY <1>3, <1>8, <1>9
  <1>11. a + b - 0 = a + n BY <1>10
  <1>12. Cardinality(A \cup B) = Cardinality(A) + Threads(r) BY <1>7, <1>9, <1>11
  <1> QED BY <1>4, <1>7, <1>8, <1>12 DEF A

(* Who has lived during a call has done so for ever after. *)
LEMMA KernelRecords ==
    ASSUME EInv, Kernel, UNCHANGED libVars
    PROVE  EInv'
  <1>1. TypeOK /\ StartInv BY DEF EInv, IInv
  <1>2. /\ start' = start /\ returned' = returned
        /\ \A p \in Pids : proc[p].inc <= proc'[p].inc /\ proc[p].inc \in Nat /\ proc'[p].inc \in Nat
    BY <1>1, KernelStable DEF TypeOK, ProcTable
  <1>3. \A r \in read : Lived(r[1], r[2])'
    <2> SUFFICES ASSUME NEW r \in read PROVE Lived(r[1], r[2])' OBVIOUS
    <2>1. Lived(r[1], r[2]) BY DEF EInv, RecordsInv
    <2>2. r[1] \in Pids /\ r[2] \in 1..proc[r[1]].inc BY <2>1 DEF Lived
    <2>3. r[2] \in 1..proc'[r[1]].inc BY <1>2, <2>2
    <2> QED BY <1>2, <2>1, <2>2, <2>3 DEF Lived
  <1>4. RecordsInv' BY <1>2, <1>3 DEF EInv, RecordsInv, libVars
  <1>5. ThreadsIn(read)' = ThreadsIn(read) BY DEF ThreadsIn, Threads, libVars
  <1>6. SumInv' BY <1>5 DEF EInv, SumInv, Counted, libVars
  <1>7. IInv' BY KernelInv DEF EInv
  <1> QED BY <1>4, <1>6, <1>7 DEF EInv, libVars

(***************************************************************************)
(* A step of the query that sums nothing: the records stay, and an answer, *)
(* if it is one, is the sum.                                               *)
(***************************************************************************)
LEMMA NothingSummed ==
    ASSUME EInv, IInv', proc' = proc, start' = start, returned \subseteq returned',
           read' = read, total' = total, overflowed' = overflowed,
           pc' \in {"open", "read"} => \A r \in read : r[1] # cur',
           pc' # "idle", Counted("thread_count")' => result'.value = total /\ ~overflowed
    PROVE  EInv'
  <1>1. \A r \in read : Lived(r[1], r[2])' <=> Lived(r[1], r[2]) BY DEF Lived
  <1>2. RecordsInv' BY <1>1 DEF EInv, RecordsInv
  <1>3. ThreadsIn(read)' = ThreadsIn(read) BY DEF ThreadsIn, Threads
  <1>4. SumInv' BY <1>3 DEF EInv, SumInv
  <1> QED BY <1>2, <1>4 DEF EInv

(* The record of cur is summed: cur has just been returned by readdir. *)
LEMMA ReadStatSum ==
    ASSUME EInv, ReadStat
    PROVE  EInv'
  <1> USE ProcFsAssumption, ResourceAssumption
  <1>0. /\ IInv' /\ TypeOK /\ StartInv /\ CurInv /\ WalkInv /\ RecordsInv /\ SumInv
        /\ pc = "read" /\ Holds(cur, handle)
        /\ proc' = proc /\ start' = start /\ returned' = returned /\ cur' = cur
    BY ReadStatInv DEF EInv, IInv, ReadStat, procVars
  <1>1. CASE AccessOf[cur][handle] = "odd"
    <2>1. /\ pc' = "done" /\ result' = Fail("malformed_data")
          /\ read' = read /\ total' = total /\ overflowed' = overflowed
      BY <1>1 DEF ReadStat, Return
    <2>2. ~Counted("thread_count")' BY <2>1 DEF Counted, Fail
    <2> QED BY <1>0, <2>1, <2>2, NothingSummed
  <1>2. CASE AccessOf[cur][handle] # "odd"
    <2>r. PICK r : r = <<cur, handle>> OBVIOUS
    <2>1. /\ AddThreads(Threads(r)) /\ read' = read \cup {r}
          /\ pc' = "readdir"
      BY <1>2, <2>r DEF ReadStat, Visited
    <2>2. r[1] = cur /\ r[2] = handle BY <2>r
    <2>3. /\ cur \in Pids /\ cur \in returned /\ cur \in Sighted /\ handle \in Incarnations
          /\ handle \in Nat \ {0}
          /\ start[cur].inc \in Nat /\ proc[cur].inc \in Nat /\ handle = proc[cur].inc
          /\ start[cur].inc <= handle
      BY <1>0 DEF CurInv, TypeOK, WalkInv, ProcTable, Holds, Incarnations
    <2>4. Threads(r) \in Nat
      <3>1. ThreadsOf[cur] \in [Incarnations -> Nat \ {0}] BY <2>3
      <3>2. ThreadsOf[cur][handle] \in Nat \ {0} BY <2>3, <3>1
      <3>3. Threads(r) = ThreadsOf[cur][handle] BY <2>2 DEF Threads
      <3> QED BY <3>2, <3>3
    <2>5. Lived(r[1], r[2])
      <3>1. handle \in 1..proc[cur].inc BY <2>3
      <3>2. handle > start[cur].inc \/ (handle = start[cur].inc /\ start[cur].state # "free")
        BY <2>3 DEF Sighted
      <3> QED BY <2>2, <2>3, <3>1, <3>2 DEF Lived
    <2>6. \A q \in read : q[1] # r[1] BY <1>0, <2>2 DEF RecordsInv
    <2>7. r \notin read BY <2>6
    <2>8. \A q \in read' : Lived(q[1], q[2])' <=> Lived(q[1], q[2]) BY <1>0 DEF Lived
    <2>9. RecordsInv' BY <1>0, <2>1, <2>2, <2>3, <2>5, <2>6, <2>8 DEF RecordsInv
    <2>c. PICK c : c = Cardinality(ThreadsIn(read)) OBVIOUS
    <2>10. /\ IsFiniteSet(ThreadsIn(read \cup {r})) /\ c \in Nat
           /\ Cardinality(ThreadsIn(read \cup {r})) = c + Threads(r)
      BY <1>0, <2>4, <2>7, <2>c, MoreThreads DEF SumInv
    <2>11. ThreadsIn(read)' = ThreadsIn(read \cup {r}) BY <2>1 DEF ThreadsIn, Threads
    <2>12. total \in Nat /\ (overflowed => c > CountMax) /\ (~overflowed => total = c)
      BY <1>0, <2>c DEF TypeOK, SumInv
    <2>n. PICK n : n = Threads(r) OBVIOUS
    <2>13. CASE total > CountMax - n
      <3>1. overflowed' BY <2>1, <2>n, <2>13 DEF AddThreads
      <3>2. c + n > CountMax BY <2>4, <2>10, <2>12, <2>13, <2>n
      <3> QED BY <1>0, <2>1, <2>9, <2>10, <2>11, <2>n, <3>1, <3>2 DEF EInv, SumInv, Counted
    <2>14. CASE ~(total > CountMax - n)
      <3>1. total' = total + n /\ overflowed' = overflowed BY <2>1, <2>n, <2>14 DEF AddThreads
      <3>2. overflowed => c + n > CountMax BY <2>4, <2>10, <2>12, <2>n
      <3>3. ~overflowed => total' = c + n BY <2>12, <3>1
      <3> QED BY <1>0, <2>1, <2>9, <2>10, <2>11, <2>n, <3>1, <3>2, <3>3 DEF EInv, SumInv, Counted
    <2> QED BY <2>13, <2>14
  <1> QED BY <1>1, <1>2

(* Every step keeps the account of the sum. *)
LEMMA NextExact == EInv /\ [Next]_vars => EInv'
  <1> SUFFICES ASSUME EInv, [Next]_vars PROVE EInv' OBVIOUS
  <1>0. /\ IInv /\ IInv' /\ CurInv /\ AnswerInv /\ RecordsInv /\ SumInv
    BY NextInv DEF EInv, IInv
  <1>1. CASE UNCHANGED vars
    <2>1. ThreadsIn(read)' = ThreadsIn(read) BY <1>1 DEF ThreadsIn, Threads, vars, libVars
    <2>2. \A r \in read : Lived(r[1], r[2])' <=> Lived(r[1], r[2])
      BY <1>1 DEF Lived, vars, procVars
    <2> QED BY <1>0, <1>1, <2>1, <2>2
        DEF EInv, RecordsInv, SumInv, Counted, vars, procVars, libVars
  <1>2. CASE Kernel /\ UNCHANGED libVars BY <1>2, KernelRecords
  <1>3. ASSUME NEW o \in {"process_count", "thread_count"}, OpenDir(o) PROVE EInv'
    <2>1. /\ pc = "idle" /\ pc' \in {"readdir", "done"} /\ proc' = proc /\ read' = read
          /\ total' = total /\ overflowed' = overflowed
          /\ (pc' = "done" => result' = Fail("EMFILE"))
      BY <1>3 DEF OpenDir, Return
    <2>2. read = {} /\ total = 0 /\ ~overflowed BY <2>1 DEF EInv
    <2>3. ~Counted("thread_count")' BY <2>1 DEF Counted, Fail
    <2>4. ThreadsIn(read)' = ThreadsIn({}) BY <2>1, <2>2 DEF ThreadsIn, Threads
    <2>5. SumInv' BY <2>1, <2>2, <2>3, <2>4, NoThreads DEF SumInv
    <2>6. RecordsInv' BY <2>1, <2>2 DEF RecordsInv
    <2> QED BY <1>0, <2>1, <2>5, <2>6 DEF EInv
  <1>4. ASSUME NEW p \in Pids, ReadDirName(p) PROVE EInv'
    <2>1. /\ pc = "readdir" /\ p \notin returned /\ returned' = returned \cup {p}
          /\ proc' = proc /\ start' = start
          /\ read' = read /\ total' = total /\ overflowed' = overflowed
      BY <1>4 DEF ReadDirName, DirectoryMayYield
    <2>2. \/ pc' = "done" /\ result' = Fail("value_too_large")
          \/ pc' = "readdir"
          \/ pc' = "open" /\ cur' = p
      BY <1>4, <2>1 DEF ReadDirName, Return
    <2>3. \A r \in read : r[1] # p BY <1>0, <2>1 DEF RecordsInv
    <2>4. ~Counted("thread_count")' BY <2>2 DEF Counted, Fail
    <2>5. pc' \in {"open", "read"} => \A r \in read : r[1] # cur' BY <2>2, <2>3
    <2>6. pc' # "idle" BY <2>2
    <2>7. returned \subseteq returned' BY <2>1
    <2> QED BY <1>0, <2>1, <2>4, <2>5, <2>6, <2>7, NothingSummed
  <1>5. CASE OpenStat
    <2>1. /\ pc = "open" /\ proc' = proc /\ start' = start /\ returned' = returned /\ cur' = cur
          /\ read' = read /\ total' = total /\ overflowed' = overflowed
          /\ pc' \in {"read", "readdir", "done"} /\ (pc' = "done" => result'.kind = "error")
      BY <1>5 DEF OpenStat, procVars, StatFailed, Visited, Return, Fail
    <2>2. ~Counted("thread_count")' BY <2>1 DEF Counted
    <2> QED BY <1>0, <2>1, <2>2, NothingSummed DEF RecordsInv
  <1>6. CASE ReadGone
    <2>1. /\ pc = "read" /\ proc' = proc /\ start' = start /\ returned' = returned /\ cur' = cur
          /\ read' = read /\ total' = total /\ overflowed' = overflowed
          /\ pc' \in {"readdir", "done"} /\ (pc' = "done" => result'.kind = "error")
      BY <1>6 DEF ReadGone, procVars, StatFailed, Visited, Return, Fail
    <2>2. ~Counted("thread_count")' BY <2>1 DEF Counted
    <2> QED BY <1>0, <2>1, <2>2, NothingSummed
  <1>7. CASE ReadStat BY <1>7, ReadStatSum
  <1>8. CASE ReadDirEnd
    <2>1. /\ pc = "readdir" /\ proc' = proc /\ start' = start /\ returned' = returned
          /\ read' = read /\ total' = total /\ overflowed' = overflowed /\ op' = op
          /\ pc' = "done"
          /\ op = "thread_count" => result' = IF overflowed THEN Fail("value_too_large")
                                              ELSE validate_positive_count(total)
      BY <1>8 DEF ReadDirEnd, Return, procVars
    <2>2. Counted("thread_count")' => result'.value = total /\ ~overflowed
      BY <2>1 DEF Counted, validate_positive_count, Ok, Fail
    <2> QED BY <1>0, <2>1, <2>2, NothingSummed
  <1>9. CASE ReadDirError
    <2>1. /\ pc = "readdir" /\ proc' = proc /\ start' = start /\ returned' = returned
          /\ read' = read /\ total' = total /\ overflowed' = overflowed
          /\ pc' = "done" /\ result' = Fail("EIO")
      BY <1>9 DEF ReadDirError, Return, procVars
    <2>2. ~Counted("thread_count")' BY <2>1 DEF Counted, Fail
    <2> QED BY <1>0, <2>1, <2>2, NothingSummed
  <1>10. CASE TakeResult
    <2>1. pc' = "idle" /\ read' = {} /\ total' = 0 /\ overflowed' = FALSE
      BY <1>10 DEF TakeResult
    <2>2. ThreadsIn(read)' = ThreadsIn({}) BY <2>1 DEF ThreadsIn, Threads
    <2>3. ~overflowed' BY <2>1
    <2>4. ~Counted("thread_count")' BY <2>1 DEF Counted
    <2>5. SumInv' BY <2>1, <2>2, <2>3, <2>4, NoThreads DEF SumInv
    <2>6. RecordsInv' BY <2>1 DEF RecordsInv
    <2> QED BY <1>0, <2>1, <2>3, <2>5, <2>6 DEF EInv
  <1> QED BY <1>1, <1>2, <1>3, <1>4, <1>5, <1>6, <1>7, <1>8, <1>9, <1>10 DEF Next, Query

(***************************************************************************)
(* thread_count() is exactly the number of threads of the records it read, *)
(* each read once and from a process that lived during the call, and       *)
(* value_too_large is reported only for a sum beyond the counter.          *)
(***************************************************************************)
THEOREM Exact == Spec => []TotalIsExact
  <1>1. Init => EInv
    <2> SUFFICES ASSUME Init PROVE EInv OBVIOUS
    <2>1. read = {} /\ total = 0 /\ overflowed = FALSE /\ pc = "idle" BY DEF Init
    <2>2. ThreadsIn(read) = ThreadsIn({}) BY <2>1
    <2>3. SumInv BY <2>1, <2>2, NoThreads DEF SumInv, Counted
    <2>4. RecordsInv BY <2>1 DEF RecordsInv
    <2> QED BY <2>1, <2>3, <2>4, InitInv DEF EInv
  <1>2. EInv => TotalIsExact BY DEF EInv, RecordsInv, SumInv, TotalIsExact
  <1> QED BY <1>1, <1>2, NextExact, PTL DEF Spec
=============================================================================
