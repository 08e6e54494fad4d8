------------------------ MODULE CommandRunnerProofs ------------------------
(***************************************************************************)
(* Proofs about CommandRunner, for any number of callers, any pipe         *)
(* capacity, limit and outputs, with and without faults.                   *)
(***************************************************************************)
EXTENDS CommandRunner, TLAPS

(* The library holds a pipe's ends exactly while the code has them open. *)
EndsInv(c) == /\ Library \in rd[c] <=> pc[c] \in {"piped", "spawned", "reading"}
              /\ Library \in wr[c] <=> pc[c] \in {"piped", "spawned"}

(***************************************************************************)
(* A child exists between posix_spawn and waitpid, holds the write end of  *)
(* its own pipe while it runs, and no longer runs once read() has returned *)
(* 0: that is why end-of-file means that all of the output has been seen.  *)
(***************************************************************************)
ChildInv(c) == /\ pc[c] \in {"idle", "piped", "done"} => child[c] \in {"none", "reaped"}
               /\ pc[c] \in {"spawned", "reading", "draining", "waiting"} => child[c] # "none"
               /\ child[c] = "running" => c \in wr[c]
               /\ pc[c] = "waiting" => child[c] # "running"

(* Every unit is still to be written, in the pipe, or received. *)
OutputInv(c) == /\ pc[c] \in {"idle", "piped"} => buf[c] = 0
                /\ pc[c] \in {"idle", "piped", "spawned"} => got[c] = 0
                /\ pc[c] \in {"spawned", "reading"} => got[c] + buf[c] + left[c] = total[c]
                /\ pc[c] = "waiting" => got[c] + left[c] = total[c]

(* The command claims success only when it has written everything. *)
ExitInv(c) == /\ exit[c] = "zero" => left[c] = 0 /\ total[c] # 0
              /\ exit[c] = "two" => left[c] = 0 /\ total[c] = 0

(* A result exists once the call is over; only a failed read sets it earlier. *)
ResultInv(c) == /\ pc[c] \notin {"draining", "done"} => result[c] = "none"
                /\ pc[c] = "draining" => result[c] \in {"none", "EIO"}
                /\ pc[c] = "done" =>
                     /\ result[c] = "ok" => got[c] = total[c] /\ total[c] # 0
                     /\ result[c] = "no_updates" => got[c] = 0 /\ total[c] = 0

CallerInv(c) == EndsInv(c) /\ ChildInv(c) /\ OutputInv(c) /\ ExitInv(c) /\ ResultInv(c)

(* The inductive invariant. *)
IInv == TypeOK /\ \A c \in Callers : CallerInv(c)

-----------------------------------------------------------------------------
(* Nobody has called yet. *)
LEMMA InitInv == Init => IInv
  BY RunnerAssumption
  DEF Init, IInv, TypeOK, CallerInv, EndsInv, ChildInv, OutputInv, ExitInv, ResultInv,
      Holders, PcStates, ExitKinds, Results

(***************************************************************************)
(* Frame: a caller's part of the invariant survives a step that leaves its *)
(* own variables alone and changes the holders of its pipe only among      *)
(* other callers' children.                                                *)
(***************************************************************************)
LEMMA Frame ==
    ASSUME NEW d \in Callers, CallerInv(d),
           pc'[d] = pc[d], buf'[d] = buf[d], child'[d] = child[d],
           exit'[d] = exit[d], total'[d] = total[d], left'[d] = left[d],
           got'[d] = got[d], result'[d] = result[d],
           Library \in rd'[d] <=> Library \in rd[d],
           Library \in wr'[d] <=> Library \in wr[d],
           d \in wr'[d] <=> d \in wr[d]
    PROVE  CallerInv(d)'
  BY DEF CallerInv, EndsInv, ChildInv, OutputInv, ExitInv, ResultInv

(* pipe(): both ends are the library's. *)
LEMMA MakePipeInv ==
    ASSUME IInv, NEW c \in Callers, MakePipe(c)
    PROVE  IInv'
  <1> USE RunnerAssumption
  <1>1. TypeOK'
    BY DEF MakePipe, childVars, IInv, TypeOK, Holders, PcStates, ExitKinds, Results
  <1>2. CallerInv(c)'
    BY DEF MakePipe, childVars, IInv, TypeOK, Holders, PcStates, ExitKinds, Results, CallerInv, EndsInv, ChildInv, OutputInv, ExitInv, ResultInv
  <1>3. ASSUME NEW d \in Callers, d # c PROVE CallerInv(d)'
    <2>1. CallerInv(d) BY DEF IInv
    <2>2. TypeOK BY DEF IInv
    <2> QED BY <1>3, <2>1, <2>2, Frame DEF MakePipe, childVars, TypeOK, childVars, fdVars
  <1> QED BY <1>1, <1>2, <1>3 DEF IInv

(* No pipe, nothing to release. *)
LEMMA PipeFailsInv ==
    ASSUME IInv, NEW c \in Callers, PipeFails(c)
    PROVE  IInv'
  <1> USE RunnerAssumption
  <1>1. TypeOK'
    BY DEF PipeFails, Return, fdVars, childVars, IInv, TypeOK, Holders, PcStates, ExitKinds, Results
  <1>2. CallerInv(c)'
    BY DEF PipeFails, Return, fdVars, childVars, IInv, TypeOK, Holders, PcStates, ExitKinds, Results, CallerInv, EndsInv, ChildInv, OutputInv, ExitInv, ResultInv
  <1>3. ASSUME NEW d \in Callers, d # c PROVE CallerInv(d)'
    <2>1. CallerInv(d) BY DEF IInv
    <2>2. TypeOK BY DEF IInv
    <2> QED BY <1>3, <2>1, <2>2, Frame DEF PipeFails, Return, fdVars, childVars, TypeOK, childVars, fdVars
  <1> QED BY <1>1, <1>2, <1>3 DEF IInv

(* posix_spawn failed: both ends are closed again. *)
LEMMA SpawnFailsInv ==
    ASSUME IInv, NEW c \in Callers, SpawnFails(c)
    PROVE  IInv'
  <1> USE RunnerAssumption
  <1>1. TypeOK'
    BY DEF SpawnFails, Return, CloseRead, CloseWrite, childVars, IInv, TypeOK, Holders, PcStates, ExitKinds, Results
  <1>2. CallerInv(c)'
    BY DEF SpawnFails, Return, CloseRead, CloseWrite, childVars, IInv, TypeOK, Holders, PcStates, ExitKinds, Results, CallerInv, EndsInv, ChildInv, OutputInv, ExitInv, ResultInv
  <1>3. ASSUME NEW d \in Callers, d # c PROVE CallerInv(d)'
    <2>1. CallerInv(d) BY DEF IInv
    <2>2. TypeOK BY DEF IInv
    <2> QED BY <1>3, <2>1, <2>2, Frame DEF SpawnFails, Return, CloseRead, CloseWrite, childVars, TypeOK, childVars, fdVars
  <1> QED BY <1>1, <1>2, <1>3 DEF IInv

(* posix_spawn: a child, with other callers' descriptors thrown in. *)
LEMMA SpawnInv ==
    ASSUME IInv, NEW c \in Callers, Spawn(c)
    PROVE  IInv'
  <1> USE RunnerAssumption
  <1>1. TypeOK'
    BY DEF Spawn, Inherit, IInv, TypeOK, Holders, PcStates, ExitKinds, Results
  <1>2. CallerInv(c)'
    BY DEF Spawn, Inherit, IInv, TypeOK, Holders, PcStates, ExitKinds, Results, CallerInv, EndsInv, ChildInv, OutputInv, ExitInv, ResultInv
  <1>3. ASSUME NEW d \in Callers, d # c PROVE CallerInv(d)'
    <2>1. CallerInv(d) BY DEF IInv
    <2>2. TypeOK BY DEF IInv
    <2> QED BY <1>3, <2>1, <2>2, Frame DEF Spawn, Inherit, TypeOK, childVars, fdVars
  <1> QED BY <1>1, <1>2, <1>3 DEF IInv

(* close(output_pipe[1]) in the parent. *)
LEMMA CloseWriteEndInv ==
    ASSUME IInv, NEW c \in Callers, CloseWriteEnd(c)
    PROVE  IInv'
  <1> USE RunnerAssumption
  <1>1. TypeOK'
    BY DEF CloseWriteEnd, CloseWrite, childVars, IInv, TypeOK, Holders, PcStates, ExitKinds, Results
  <1>2. CallerInv(c)'
    BY DEF CloseWriteEnd, CloseWrite, childVars, IInv, TypeOK, Holders, PcStates, ExitKinds, Results, CallerInv, EndsInv, ChildInv, OutputInv, ExitInv, ResultInv
  <1>3. ASSUME NEW d \in Callers, d # c PROVE CallerInv(d)'
    <2>1. CallerInv(d) BY DEF IInv
    <2>2. TypeOK BY DEF IInv
    <2> QED BY <1>3, <2>1, <2>2, Frame DEF CloseWriteEnd, CloseWrite, childVars, TypeOK, childVars, fdVars
  <1> QED BY <1>1, <1>2, <1>3 DEF IInv

(* End of file: nobody holds the write end, so the child is gone. *)
LEMMA ReadEndInv ==
    ASSUME IInv, NEW c \in Callers, ReadEnd(c)
    PROVE  IInv'
  <1> USE RunnerAssumption
  <1>1. TypeOK'
    BY DEF ReadEnd, CloseRead, childVars, IInv, TypeOK, Holders, PcStates, ExitKinds, Results
  <1>2. CallerInv(c)'
    <2>1. TypeOK /\ CallerInv(c) BY DEF IInv
    <2>2. pc'[c] = "waiting" /\ pc[c] = "reading" /\ Library \notin rd'[c] /\ wr[c] = {}
      BY <2>1 DEF ReadEnd, CloseRead, TypeOK
    <2>3. EndsInv(c)' /\ ChildInv(c)'
      BY <2>1, <2>2 DEF ReadEnd, childVars, CallerInv, EndsInv, ChildInv
    <2>4. got[c] + left[c] = total[c]
      BY <2>1 DEF ReadEnd, TypeOK, CallerInv, OutputInv
    <2>5. OutputInv(c)' /\ ExitInv(c)' /\ ResultInv(c)'
      BY <2>1, <2>2, <2>4 DEF ReadEnd, childVars, CallerInv, OutputInv, ExitInv, ResultInv
    <2> QED BY <2>3, <2>5 DEF CallerInv
  <1>3. ASSUME NEW d \in Callers, d # c PROVE CallerInv(d)'
    <2>1. CallerInv(d) BY DEF IInv
    <2>2. TypeOK BY DEF IInv
    <2> QED BY <1>3, <2>1, <2>2, Frame DEF ReadEnd, CloseRead, childVars, TypeOK, childVars, fdVars
  <1> QED BY <1>1, <1>2, <1>3 DEF IInv

(* A failing read closes the pipe and waits. *)
LEMMA ReadFailsInv ==
    ASSUME IInv, NEW c \in Callers, ReadFails(c)
    PROVE  IInv'
  <1> USE RunnerAssumption
  <1>1. TypeOK'
    BY DEF ReadFails, CloseRead, childVars, IInv, TypeOK, Holders, PcStates, ExitKinds, Results
  <1>2. CallerInv(c)'
    BY DEF ReadFails, CloseRead, childVars, IInv, TypeOK, Holders, PcStates, ExitKinds, Results, CallerInv, EndsInv, ChildInv, OutputInv, ExitInv, ResultInv
  <1>3. ASSUME NEW d \in Callers, d # c PROVE CallerInv(d)'
    <2>1. CallerInv(d) BY DEF IInv
    <2>2. TypeOK BY DEF IInv
    <2> QED BY <1>3, <2>1, <2>2, Frame DEF ReadFails, CloseRead, childVars, TypeOK, childVars, fdVars
  <1> QED BY <1>1, <1>2, <1>3 DEF IInv

(* waitpid on the two error paths. *)
LEMMA WaitAfterErrorInv ==
    ASSUME IInv, NEW c \in Callers, WaitAfterError(c)
    PROVE  IInv'
  <1> USE RunnerAssumption
  <1>1. TypeOK'
    BY DEF WaitAfterError, Return, Collect, fdVars, IInv, TypeOK, Holders, PcStates, ExitKinds, Results
  <1>2. CallerInv(c)'
    BY DEF WaitAfterError, Return, Collect, fdVars, IInv, TypeOK, Holders, PcStates, ExitKinds, Results, CallerInv, EndsInv, ChildInv, OutputInv, ExitInv, ResultInv
  <1>3. ASSUME NEW d \in Callers, d # c PROVE CallerInv(d)'
    <2>1. CallerInv(d) BY DEF IInv
    <2>2. TypeOK BY DEF IInv
    <2> QED BY <1>3, <2>1, <2>2, Frame DEF WaitAfterError, Return, Collect, fdVars, TypeOK, childVars, fdVars
  <1> QED BY <1>1, <1>2, <1>3 DEF IInv

(* waitpid after end of file. *)
LEMMA WaitChildInv ==
    ASSUME IInv, NEW c \in Callers, WaitChild(c)
    PROVE  IInv'
  <1> USE RunnerAssumption
  <1>1. TypeOK'
    BY DEF WaitChild, Return, Collect, Outcome, fdVars, IInv, TypeOK, Holders, PcStates, ExitKinds, Results
  <1>2. CallerInv(c)'
    <2>1. TypeOK /\ CallerInv(c) BY DEF IInv
    <2>2. /\ pc[c] = "waiting" /\ pc'[c] = "done" /\ child'[c] = "reaped"
          /\ result'[c] \in {Outcome(exit[c]), "ECHILD"}
      BY <2>1 DEF WaitChild, Collect, Return, TypeOK
    <2>3. EndsInv(c)' /\ ChildInv(c)' /\ OutputInv(c)' /\ ExitInv(c)'
      BY <2>1, <2>2 DEF WaitChild, fdVars, CallerInv, EndsInv, ChildInv, OutputInv, ExitInv
    <2>4. Outcome(exit[c]) = "ok" => exit[c] = "zero"
      BY DEF Outcome
    <2>5. Outcome(exit[c]) = "no_updates" => exit[c] = "two"
      BY DEF Outcome
    <2>6. left[c] = 0 => got[c] = total[c]
      BY <2>1, <2>2 DEF TypeOK, CallerInv, OutputInv
    <2>7. ResultInv(c)'
      BY <2>1, <2>2, <2>4, <2>5, <2>6 DEF WaitChild, CallerInv, ExitInv, ResultInv
    <2> QED BY <2>3, <2>7 DEF CallerInv
  <1>3. ASSUME NEW d \in Callers, d # c PROVE CallerInv(d)'
    <2>1. CallerInv(d) BY DEF IInv
    <2>2. TypeOK BY DEF IInv
    <2> QED BY <1>3, <2>1, <2>2, Frame DEF WaitChild, Return, Collect, Outcome, fdVars, TypeOK, childVars, fdVars
  <1> QED BY <1>1, <1>2, <1>3 DEF IInv

(* The caller is ready for another call. *)
LEMMA TakeResultInv ==
    ASSUME IInv, NEW c \in Callers, TakeResult(c)
    PROVE  IInv'
  <1> USE RunnerAssumption
  <1>1. TypeOK'
    BY DEF TakeResult, fdVars, IInv, TypeOK, Holders, PcStates, ExitKinds, Results
  <1>2. CallerInv(c)'
    BY DEF TakeResult, fdVars, IInv, TypeOK, Holders, PcStates, ExitKinds, Results, CallerInv, EndsInv, ChildInv, OutputInv, ExitInv, ResultInv
  <1>3. ASSUME NEW d \in Callers, d # c PROVE CallerInv(d)'
    <2>1. CallerInv(d) BY DEF IInv
    <2>2. TypeOK BY DEF IInv
    <2> QED BY <1>3, <2>1, <2>2, Frame DEF TakeResult, fdVars, TypeOK, childVars, fdVars
  <1> QED BY <1>1, <1>2, <1>3 DEF IInv

(* The child writes one unit into its pipe. *)
LEMMA ChildWritesInv ==
    ASSUME IInv, NEW c \in Callers, ChildWrites(c)
    PROVE  IInv'
  <1> USE RunnerAssumption
  <1>1. TypeOK'
    BY DEF ChildWrites, fdVars, IInv, TypeOK, Holders, PcStates, ExitKinds, Results
  <1>2. CallerInv(c)'
    BY DEF ChildWrites, fdVars, IInv, TypeOK, Holders, PcStates, ExitKinds, Results, CallerInv, EndsInv, ChildInv, OutputInv, ExitInv, ResultInv
  <1>3. ASSUME NEW d \in Callers, d # c PROVE CallerInv(d)'
    <2>1. CallerInv(d) BY DEF IInv
    <2>2. TypeOK BY DEF IInv
    <2> QED BY <1>3, <2>1, <2>2, Frame DEF ChildWrites, fdVars, TypeOK, childVars, fdVars
  <1> QED BY <1>1, <1>2, <1>3 DEF IInv

(* read() returned data: kept, or the start of the over-limit path. *)
LEMMA ReadInv ==
    ASSUME IInv, NEW c \in Callers, Read(c)
    PROVE  IInv'
  <1> USE RunnerAssumption
  <1>0. PICK n \in 1..buf[c] : TakeOutput(c, n)
    BY DEF Read
  <1>a. pc[c] = "reading" /\ UNCHANGED <<wr, childVars, result>>
    BY DEF Read
  <1>b. buf[c] \in 0..Capacity /\ got[c] \in 0..Limit /\ n \in Nat
    BY DEF IInv, TypeOK
  <1>1. TypeOK'
    BY <1>0, <1>a, <1>b DEF TakeOutput, CloseRead, childVars, IInv, TypeOK, Holders, PcStates
  <1>2. CallerInv(c)'
    BY <1>0, <1>a, <1>b
    DEF TakeOutput, CloseRead, childVars, IInv, TypeOK, CallerInv, EndsInv, ChildInv,
        OutputInv, ExitInv, ResultInv
  <1>3. ASSUME NEW d \in Callers, d # c PROVE CallerInv(d)'
    <2>1. CallerInv(d) BY DEF IInv
    <2>2. TypeOK BY DEF IInv
    <2> QED BY <1>0, <1>a, <1>3, <2>1, <2>2, Frame DEF TakeOutput, CloseRead, TypeOK, childVars
  <1> QED BY <1>1, <1>2, <1>3 DEF IInv

(* A child ends; it may claim success only with nothing left to write. *)
LEMMA ChildEndsInv ==
    ASSUME IInv, NEW c \in Callers, NEW how \in ExitKinds, ChildEnds(c, how),
           how = "zero" => left[c] = 0 /\ total[c] # 0,
           how = "two" => left[c] = 0 /\ total[c] = 0
    PROVE  IInv'
  <1> USE RunnerAssumption
  <1>1. TypeOK'
    BY DEF ChildEnds, IInv, TypeOK, Holders, ExitKinds
  <1>2. CallerInv(c)'
    BY DEF ChildEnds, IInv, TypeOK, CallerInv, EndsInv, ChildInv, OutputInv, ExitInv, ResultInv
  <1>3. ASSUME NEW d \in Callers, d # c PROVE CallerInv(d)'
    <2>1. CallerInv(d) BY DEF IInv
    <2>2. TypeOK BY DEF IInv
    <2> QED BY <1>3, <2>1, <2>2, Frame DEF ChildEnds, TypeOK
  <1> QED BY <1>1, <1>2, <1>3 DEF IInv

(* Every step of every caller and child keeps the invariant. *)
LEMMA NextInv == IInv /\ [Next]_vars => IInv'
  <1> SUFFICES ASSUME IInv, [Next]_vars PROVE IInv'
    OBVIOUS
  <1>1. CASE UNCHANGED vars
    BY <1>1 DEF vars, IInv, TypeOK, CallerInv, EndsInv, ChildInv, OutputInv, ExitInv, ResultInv
  <1>2. CASE Next
    <2>1. PICK c \in Callers : \/ MakePipe(c) \/ CallerStep(c) \/ CallerFault(c)
                              \/ TakeResult(c) \/ ChildStep(c) \/ ChildFails(c)
      BY <1>2 DEF Next
    <2>2. CASE MakePipe(c) BY <2>2, MakePipeInv
    <2>3. CASE CallerStep(c)
      BY <2>3, SpawnInv, CloseWriteEndInv, ReadInv, ReadEndInv, WaitAfterErrorInv, WaitChildInv
      DEF CallerStep
    <2>4. CASE CallerFault(c)
      BY <2>4, PipeFailsInv, SpawnFailsInv, ReadFailsInv DEF CallerFault
    <2>5. CASE TakeResult(c) BY <2>5, TakeResultInv
    <2>6. CASE ChildStep(c)
      <3>1. CASE ChildWrites(c) BY <3>1, ChildWritesInv
      <3>2. CASE ChildFinishes(c)
        BY <3>2, ChildEndsInv DEF ChildFinishes, ExitKinds
      <3>3. CASE ChildLosesReader(c)
        BY <3>3, ChildEndsInv DEF ChildLosesReader, ExitKinds
      <3> QED BY <2>6, <3>1, <3>2, <3>3 DEF ChildStep
    <2>7. CASE ChildFails(c)
      BY <2>7, ChildEndsInv DEF ChildFails, ExitKinds
    <2> QED BY <2>1, <2>2, <2>3, <2>4, <2>5, <2>6, <2>7
  <1> QED BY <1>1, <1>2

(* The invariant holds in every reachable state. *)
THEOREM Invariance == Spec => []IInv
  BY InitInv, NextInv, PTL DEF Spec

(* Every variable keeps its type; standard_output never exceeds the limit. *)
THEOREM TypeCorrect == Spec => []TypeOK
  <1>1. IInv => TypeOK BY DEF IInv
  <1> QED BY <1>1, Invariance, PTL

(* On every path run_checkupdates closes its pipe and reaps its child. *)
THEOREM Clean == Spec => []NothingLeftBehind
  <1>1. IInv => NothingLeftBehind
    BY DEF IInv, CallerInv, EndsInv, ChildInv, NothingLeftBehind
  <1> QED BY <1>1, Invariance, PTL

(* A reported list of updates is the command's whole output. *)
THEOREM Whole == Spec => []SuccessIsWhole
  <1>1. IInv => SuccessIsWhole
    BY DEF IInv, CallerInv, ResultInv, SuccessIsWhole
  <1> QED BY <1>1, Invariance, PTL
=============================================================================
