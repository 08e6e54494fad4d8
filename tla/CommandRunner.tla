--------------------------- MODULE CommandRunner ---------------------------
(***************************************************************************)
(* run_checkupdates() of detail/software/linux.hpp, called by any number   *)
(* of threads of one process: a pipe, posix_spawn of the command with its  *)
(* standard output on the pipe, a bounded read loop, waitpid.              *)
(*                                                                         *)
(* Descriptors belong to the process, not to the thread, and pipe() is     *)
(* called without O_CLOEXEC: a child inherits every pipe end that is open  *)
(* in the process when it is spawned. A pipe's read end (write end) exists *)
(* while somebody in rd (wr) holds it: Library, the calling process, or a  *)
(* child, named by the caller that spawned it.                             *)
(*                                                                         *)
(* Bytes are counted in units; EINTR is a retry of the same call and so a  *)
(* stuttering step.                                                        *)
(***************************************************************************)
EXTENDS Naturals

CONSTANTS
    Callers,    \* threads that call system_updates()
    Library,    \* the process they run in
    Capacity,   \* how much a pipe holds
    Limit,      \* largest accepted output (4 MiB in the code)
    Outputs,    \* amounts of output the command may produce
    Endings,    \* what becomes of a child that ends: "zombie", or "reaped" at
                \* once while the host process has set SIGCHLD to be ignored
    Faults      \* may pipe, posix_spawn and read fail?

ASSUME RunnerAssumption ==
    /\ Library \notin Callers
    /\ Capacity \in Nat \ {0}
    /\ Limit \in Nat
    /\ Outputs \subseteq Nat
    /\ Endings \subseteq {"zombie", "reaped"}
    /\ Endings # {}
    /\ Faults \in BOOLEAN

VARIABLES
    pc,      \* progress of each caller
    rd,      \* holders of the read end of each caller's pipe
    wr,      \* holders of its write end
    buf,     \* contents of its pipe
    child,   \* its child process
    exit,    \* how the child ended
    total,   \* output the child set out to write
    left,    \* what it has not written yet
    got,     \* standard_output
    result   \* what the call returned

fdVars == <<rd, wr>>
childVars == <<child, exit, total, left>>
vars == <<pc, rd, wr, buf, child, exit, total, left, got, result>>

Holders == Callers \cup {Library}

PcStates == {"idle", "piped", "spawned", "reading", "draining", "waiting", "done"}
ExitKinds == {"none", "zero", "two", "other", "signal"}
Results == {"none", "ok", "no_updates", "failed_command", "file_too_large",
            "io_error", "ECHILD", "EMFILE", "spawn_error", "EIO"}

Init == /\ pc = [c \in Callers |-> "idle"]
        /\ rd = [c \in Callers |-> {}]
        /\ wr = [c \in Callers |-> {}]
        /\ buf = [c \in Callers |-> 0]
        /\ child = [c \in Callers |-> "none"]
        /\ exit = [c \in Callers |-> "none"]
        /\ total = [c \in Callers |-> 0]
        /\ left = [c \in Callers |-> 0]
        /\ got = [c \in Callers |-> 0]
        /\ result = [c \in Callers |-> "none"]

-----------------------------------------------------------------------------
Return(c, r) == /\ pc' = [pc EXCEPT ![c] = "done"]
                /\ result' = [result EXCEPT ![c] = r]

(* close() of the library's descriptors of c's pipe. *)
CloseRead(c) == rd' = [rd EXCEPT ![c] = @ \ {Library}]
CloseWrite(c) == wr' = [wr EXCEPT ![c] = @ \ {Library}]

MakePipe(c) == /\ pc[c] = "idle"
               /\ pc' = [pc EXCEPT ![c] = "piped"]
               /\ rd' = [rd EXCEPT ![c] = {Library}]
               /\ wr' = [wr EXCEPT ![c] = {Library}]
               /\ buf' = [buf EXCEPT ![c] = 0]
               /\ UNCHANGED <<childVars, got, result>>

PipeFails(c) == /\ Faults
                /\ pc[c] = "idle"
                /\ Return(c, "EMFILE")
                /\ UNCHANGED <<fdVars, buf, childVars, got>>

(* The file actions cannot be built, or posix_spawn fails: both ends close. *)
SpawnFails(c) == /\ Faults
                 /\ pc[c] = "piped"
                 /\ Return(c, "spawn_error")
                 /\ CloseRead(c)
                 /\ CloseWrite(c)
                 /\ UNCHANGED <<buf, childVars, got>>

(***************************************************************************)
(* posix_spawn. The file actions give the child the write end of its own   *)
(* pipe as standard output and close both original descriptors; the ends   *)
(* of other callers' pipes are simply inherited.                           *)
(***************************************************************************)
Inherit(ends, c) ==
    [d \in Callers |-> IF d # c /\ Library \in ends[d] THEN ends[d] \cup {c}
                                                      ELSE ends[d]]

Spawn(c) == /\ pc[c] = "piped"
            /\ pc' = [pc EXCEPT ![c] = "spawned"]
            /\ rd' = Inherit(rd, c)
            /\ wr' = [Inherit(wr, c) EXCEPT ![c] = @ \cup {c}]
            /\ child' = [child EXCEPT ![c] = "running"]
            /\ exit' = [exit EXCEPT ![c] = "none"]
            /\ \E n \in Outputs : /\ total' = [total EXCEPT ![c] = n]
                                  /\ left' = [left EXCEPT ![c] = n]
            /\ UNCHANGED <<buf, got, result>>

CloseWriteEnd(c) == /\ pc[c] = "spawned"
                    /\ pc' = [pc EXCEPT ![c] = "reading"]
                    /\ CloseWrite(c)
                    /\ got' = [got EXCEPT ![c] = 0]
                    /\ UNCHANGED <<rd, buf, childVars, result>>

(* read() returns n units: keep them, or give up on too long an output. *)
Mutant_truncate(c, n) ==
    /\ buf' = [buf EXCEPT ![c] = @ - n]
    /\ IF got[c] + n > Limit
       THEN /\ pc' = [pc EXCEPT ![c] = "waiting"]
            /\ CloseRead(c)
            /\ UNCHANGED got
       ELSE /\ got' = [got EXCEPT ![c] = @ + n]
            /\ UNCHANGED <<pc, rd>>
Mutant_unchecked_length(c, n) ==
    /\ buf' = [buf EXCEPT ![c] = @ - n]
    /\ IF got[c] > Limit
       THEN /\ pc' = [pc EXCEPT ![c] = "draining"]
            /\ CloseRead(c)
            /\ UNCHANGED got
       ELSE /\ got' = [got EXCEPT ![c] = @ + n]
            /\ UNCHANGED <<pc, rd>>
Mutant_wait_before_close(c, n) ==
    /\ buf' = [buf EXCEPT ![c] = @ - n]
    /\ IF got[c] + n > Limit
       THEN /\ pc' = [pc EXCEPT ![c] = "draining"]
            /\ UNCHANGED <<got, rd>>
       ELSE /\ got' = [got EXCEPT ![c] = @ + n]
            /\ UNCHANGED <<pc, rd>>
TakeOutput(c, n) ==
    /\ buf' = [buf EXCEPT ![c] = @ - n]
    /\ IF got[c] + n > Limit
       THEN /\ pc' = [pc EXCEPT ![c] = "draining"]
            /\ CloseRead(c)
            /\ UNCHANGED got
       ELSE /\ got' = [got EXCEPT ![c] = @ + n]
            /\ UNCHANGED <<pc, rd>>

Read(c) == /\ pc[c] = "reading"
           /\ \E n \in 1..buf[c] : TakeOutput(c, n)
           /\ UNCHANGED <<wr, childVars, result>>

(* read() returns 0: the pipe is empty and nobody holds its write end. *)
ReadEnd(c) == /\ pc[c] = "reading"
              /\ buf[c] = 0
              /\ wr[c] = {}
              /\ pc' = [pc EXCEPT ![c] = "waiting"]
              /\ CloseRead(c)
              /\ UNCHANGED <<wr, buf, childVars, got, result>>

(* read() fails: close, wait for the child, report the error of read(). *)
ReadFails(c) == /\ Faults
                /\ pc[c] = "reading"
                /\ pc' = [pc EXCEPT ![c] = "draining"]
                /\ result' = [result EXCEPT ![c] = "EIO"]
                /\ CloseRead(c)
                /\ UNCHANGED <<wr, buf, childVars, got>>

Collect(c) == child' = [child EXCEPT ![c] = "reaped"]

Mutant_no_wait(c) ==
    /\ pc[c] = "draining"
    /\ Return(c, IF result[c] = "none" THEN "file_too_large" ELSE result[c])
    /\ UNCHANGED <<fdVars, buf, child, exit, total, left, got>>
(* The two error paths: waitpid's own outcome is ignored. *)
WaitAfterError(c) ==
    /\ pc[c] = "draining"
    /\ child[c] \in {"zombie", "reaped"}
    /\ Collect(c)
    /\ Return(c, IF result[c] = "none" THEN "file_too_large" ELSE result[c])
    /\ UNCHANGED <<fdVars, buf, exit, total, left, got>>

(* system_updates(): exit status 0 carries updates, 2 means there are none. *)
Outcome(e) == CASE e = "zero"   -> "ok"
                [] e = "two"    -> "no_updates"
                [] e = "signal" -> "io_error"
                [] OTHER        -> "failed_command"

WaitChild(c) ==
    /\ pc[c] = "waiting"
    /\ \/ /\ child[c] = "zombie"
          /\ Collect(c)
          /\ Return(c, Outcome(exit[c]))
       \/ /\ child[c] = "reaped"
          /\ UNCHANGED child
          /\ Return(c, "ECHILD")
    /\ UNCHANGED <<fdVars, buf, exit, total, left, got>>

(* The caller uses the value and may call again. *)
TakeResult(c) == /\ pc[c] = "done"
                 /\ pc' = [pc EXCEPT ![c] = "idle"]
                 /\ result' = [result EXCEPT ![c] = "none"]
                 /\ got' = [got EXCEPT ![c] = 0]
                 /\ child' = [child EXCEPT ![c] = "none"]
                 /\ exit' = [exit EXCEPT ![c] = "none"]
                 /\ total' = [total EXCEPT ![c] = 0]
                 /\ left' = [left EXCEPT ![c] = 0]
                 /\ buf' = [buf EXCEPT ![c] = 0]
                 /\ UNCHANGED fdVars

-----------------------------------------------------------------------------
(* The child process of caller c: external code, the checkupdates script. *)
ChildWrites(c) == /\ child[c] = "running"
                  /\ left[c] > 0
                  /\ buf[c] < Capacity
                  /\ rd[c] # {}
                  /\ left' = [left EXCEPT ![c] = @ - 1]
                  /\ buf' = [buf EXCEPT ![c] = @ + 1]
                  /\ UNCHANGED <<pc, fdVars, child, exit, total, got, result>>

(* It ends, whereupon the kernel closes every descriptor it holds. *)
ChildEnds(c, how) ==
    /\ child[c] = "running"
    /\ \E e \in Endings : child' = [child EXCEPT ![c] = e]
    /\ exit' = [exit EXCEPT ![c] = how]
    /\ rd' = [d \in Callers |-> rd[d] \ {c}]
    /\ wr' = [d \in Callers |-> wr[d] \ {c}]
    /\ UNCHANGED <<pc, buf, total, left, got, result>>

(* Status 0 once everything is written, 2 when there was nothing to write. *)
ChildFinishes(c) == /\ left[c] = 0
                    /\ ChildEnds(c, IF total[c] = 0 THEN "two" ELSE "zero")

(* Writing to a pipe nobody can read: SIGPIPE, or EPIPE and an error exit. *)
ChildLosesReader(c) == /\ left[c] > 0
                       /\ rd[c] = {}
                       /\ \E how \in {"signal", "other"} : ChildEnds(c, how)

(* It may fail or be killed at any time. *)
ChildFails(c) == \E how \in {"signal", "other"} : ChildEnds(c, how)

-----------------------------------------------------------------------------
CallerStep(c) == \/ Spawn(c) \/ CloseWriteEnd(c)
                 \/ Read(c) \/ ReadEnd(c)
                 \/ WaitAfterError(c) \/ WaitChild(c)

CallerFault(c) == PipeFails(c) \/ SpawnFails(c) \/ ReadFails(c)

ChildStep(c) == ChildWrites(c) \/ ChildFinishes(c) \/ ChildLosesReader(c)

Next == \E c \in Callers : \/ MakePipe(c)
                           \/ CallerStep(c)
                           \/ CallerFault(c)
                           \/ TakeResult(c)
                           \/ ChildStep(c)
                           \/ ChildFails(c)

Spec == Init /\ [][Next]_vars

(***************************************************************************)
(* Every thread inside a call is scheduled, and a command that can write   *)
(* or finish does so; nobody owes a failure.                               *)
(***************************************************************************)
FairSpec == /\ Spec
            /\ \A c \in Callers : WF_vars(CallerStep(c)) /\ WF_vars(ChildStep(c))

-----------------------------------------------------------------------------
TypeOK == /\ pc \in [Callers -> PcStates]
          /\ rd \in [Callers -> SUBSET Holders]
          /\ wr \in [Callers -> SUBSET Holders]
          /\ buf \in [Callers -> 0..Capacity]
          /\ child \in [Callers -> {"none", "running", "zombie", "reaped"}]
          /\ exit \in [Callers -> ExitKinds]
          /\ total \in [Callers -> Nat]
          /\ left \in [Callers -> Nat]
          /\ got \in [Callers -> 0..Limit]
          /\ result \in [Callers -> Results]

(***************************************************************************)
(* Whatever path run_checkupdates leaves by, the library keeps no end of   *)
(* the pipe open and leaves neither a running child nor a zombie behind.   *)
(***************************************************************************)
NothingLeftBehind ==
    \A c \in Callers : pc[c] \in {"idle", "done"} =>
        /\ Library \notin rd[c]
        /\ Library \notin wr[c]
        /\ child[c] \in {"none", "reaped"}

(***************************************************************************)
(* A call that reports updates has the command's whole output, and one     *)
(* that reports that there are none comes from a command that wrote none:  *)
(* neither a full pipe, the length limit, a failing command, nor other     *)
(* callers' pipes can make a truncated list look like success.             *)
(***************************************************************************)
SuccessIsWhole ==
    \A c \in Callers : pc[c] = "done" =>
        /\ result[c] = "ok" => got[c] = total[c] /\ total[c] # 0
        /\ result[c] = "no_updates" => got[c] = 0 /\ total[c] = 0

(***************************************************************************)
(* Every call returns. docs/api/README.md: query functions are "safe to    *)
(* call concurrently from multiple threads"; no caller may be left waiting *)
(* for ever on account of another one.                                     *)
(***************************************************************************)
CallsReturn == \A c \in Callers : (pc[c] # "idle") ~> (pc[c] = "done")

(***************************************************************************)
(* What does hold: with every failure, output of any length and SIGCHLD    *)
(* ignored or not, a call of run_checkupdates returns unless two callers   *)
(* are giving up on their commands at the same time. Neither a full pipe   *)
(* nor descriptors inherited by other callers' commands stop it otherwise. *)
(***************************************************************************)
GivingUp(c) == pc[c] = "draining" /\ child[c] = "running"
ReturnsUnlessTwoGiveUp ==
    \A c \in Callers :
        (pc[c] # "idle") ~> (\/ pc[c] = "done"
                            \/ \E d, e \in Callers : d # e /\ GivingUp(d) /\ GivingUp(e))
=============================================================================
