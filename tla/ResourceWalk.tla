---------------------------- MODULE ResourceWalk ----------------------------
(***************************************************************************)
(* detail/resource/linux.hpp: process_count() and thread_count(), the two  *)
(* system-wide counts obtained by walking /proc (walk_processes) while     *)
(* processes come and go, and the public wrappers' validate_positive_count.*)
(***************************************************************************)
EXTENDS ProcFs

CONSTANTS
    ThreadsOf,   \* ThreadsOf[p][i]: number of threads of incarnation i of p
    CountMax     \* largest value of the counter (uint64 maximum in the code)

ASSUME ResourceAssumption ==
    /\ ThreadsOf \in [Pids -> [Incarnations -> Nat \ {0}]]
    /\ CountMax \in Nat

VARIABLES
    op,          \* the query in progress, or "none"
    pc,
    cur,         \* the entry the visitor is working on
    handle,      \* incarnation its open stat file belongs to
    visited,     \* entries passed to the visitor
    total,       \* total_threads
    overflowed,
    read,        \* records summed so far, as <<pid, incarnation>> (history)
    result

libVars == <<op, pc, cur, handle, visited, total, overflowed, read, result>>
vars == <<procVars, libVars>>

NoResult == [kind |-> "none", code |-> "none", value |-> 0]
Ok(v) == [kind |-> "ok", code |-> "none", value |-> v]
Fail(code) == [kind |-> "error", code |-> code, value |-> 0]

validate_positive_count(v) == IF v = 0 THEN Fail("malformed_data") ELSE Ok(v)

Threads(r) == ThreadsOf[r[1]][r[2]]

Init == /\ ProcInit
        /\ op = "none"
        /\ pc = "idle"
        /\ cur = 0
        /\ handle = 0
        /\ visited = 0
        /\ total = 0
        /\ overflowed = FALSE
        /\ read = {}
        /\ result = NoResult

Return(r) == pc' = "done" /\ result' = r

(* walk_processes: open the directory for one of the two counts. *)
OpenDir(o) ==
    /\ pc = "idle"
    /\ op' = o
    /\ start' = proc
    /\ \/ pc' = "readdir" /\ result' = NoResult
       \/ Faults /\ Return(Fail("EMFILE"))
    /\ UNCHANGED <<proc, returned, cur, handle, visited, total, overflowed, read>>

(* One numeric entry. process_count's visitor accepts it at once. *)
ReadDirName(p) ==
    /\ pc = "readdir"
    /\ p \in DirectoryMayYield
    /\ returned' = returned \cup {p}
    /\ IF visited = CountMax
       THEN Return(Fail("value_too_large")) /\ UNCHANGED <<cur, visited>>
       ELSE IF op = "process_count"
            THEN visited' = visited + 1 /\ UNCHANGED <<pc, cur, result>>
            ELSE pc' = "open" /\ cur' = p /\ UNCHANGED <<visited, result>>
    /\ UNCHANGED <<proc, start, op, handle, total, overflowed, read>>

(* The visitor returned without error. *)
Visited == /\ visited' = visited + 1
           /\ pc' = "readdir"
           /\ UNCHANGED result

Mutant_denial_skipped(code) ==
    IF code \in {"ENOENT", "EACCES"} THEN Visited
    ELSE Return(Fail(code)) /\ UNCHANGED visited
(* read_text_file failed: only ENOENT is the expected race. *)
StatFailed(code) ==
    IF code = "ENOENT" THEN Visited
    ELSE Return(Fail(code)) /\ UNCHANGED visited

OpenStat ==
    /\ pc = "open"
    /\ \E outcome \in OpenOutcomes(cur) :
         IF outcome = "ok"
         THEN /\ handle' = proc[cur].inc
              /\ pc' = "read"
              /\ UNCHANGED <<visited, result>>
         ELSE StatFailed(outcome) /\ UNCHANGED handle
    /\ UNCHANGED <<procVars, op, cur, total, overflowed, read>>

ReadGone ==
    /\ pc = "read"
    /\ ~Holds(cur, handle)
    /\ \/ "ESRCH" \in GoneReads /\ StatFailed("ESRCH")
       \/ "empty" \in GoneReads /\ Visited
    /\ UNCHANGED <<procVars, op, cur, handle, total, overflowed, read>>

Mutant_wrapping_sum(n) == /\ total' = (total + n) % (CountMax + 1)
                          /\ UNCHANGED overflowed
Mutant_unchecked_sum(n) == total' = total + n /\ UNCHANGED overflowed
(* total_threads += threads, or remember that it would not fit. *)
AddThreads(n) == IF total > CountMax - n
                 THEN overflowed' = TRUE /\ UNCHANGED total
                 ELSE total' = total + n /\ UNCHANGED overflowed

ReadStat ==
    /\ pc = "read"
    /\ Holds(cur, handle)
    /\ IF AccessOf[cur][handle] = "odd"
       THEN /\ Return(Fail("malformed_data"))
            /\ UNCHANGED <<visited, total, overflowed, read>>
       ELSE /\ AddThreads(Threads(<<cur, handle>>))
            /\ read' = read \cup {<<cur, handle>>}
            /\ Visited
    /\ UNCHANGED <<procVars, op, cur, handle>>

ReadDirEnd ==
    /\ pc = "readdir"
    /\ DirectoryMayEnd
    /\ Return(IF op = "process_count" THEN validate_positive_count(visited)
              ELSE IF overflowed THEN Fail("value_too_large")
              ELSE validate_positive_count(total))
    /\ UNCHANGED <<procVars, op, cur, handle, visited, total, overflowed, read>>

Mutant_error_is_end ==
    /\ pc = "readdir"
    /\ Faults
    /\ Return(IF op = "process_count" THEN validate_positive_count(visited)
              ELSE validate_positive_count(total))
    /\ UNCHANGED <<procVars, op, cur, handle, visited, total, overflowed, read>>
(* readdir() returned null with errno set: not the end of the directory. *)
ReadDirError ==
    /\ pc = "readdir"
    /\ Faults
    /\ Return(Fail("EIO"))
    /\ UNCHANGED <<procVars, op, cur, handle, visited, total, overflowed, read>>

(* The caller takes the result; nothing is kept for the next query. *)
TakeResult ==
    /\ pc = "done"
    /\ op' = "none"
    /\ pc' = "idle"
    /\ cur' = 0
    /\ handle' = 0
    /\ visited' = 0
    /\ total' = 0
    /\ overflowed' = FALSE
    /\ read' = {}
    /\ result' = NoResult
    /\ start' = NoStart
    /\ returned' = {}
    /\ UNCHANGED proc

Query == \/ \E p \in Pids : ReadDirName(p)
         \/ ReadDirEnd \/ ReadDirError
         \/ OpenStat \/ ReadGone \/ ReadStat

Next == \/ \E o \in {"process_count", "thread_count"} : OpenDir(o)
        \/ Query
        \/ TakeResult
        \/ Kernel /\ UNCHANGED libVars

Spec == Init /\ [][Next]_vars

-----------------------------------------------------------------------------
TypeOK == /\ proc \in ProcTable
          /\ start \in ProcTable
          /\ returned \subseteq Pids
          /\ op \in {"none", "process_count", "thread_count"}
          /\ pc \in {"idle", "readdir", "open", "read", "done"}
          /\ cur \in Pids \cup {0}
          /\ handle \in 0..MaxIncarnation
          /\ visited \in 0..CountMax
          /\ total \in 0..CountMax
          /\ overflowed \in BOOLEAN
          /\ read \subseteq Pids \X Incarnations
          /\ result.kind \in {"none", "ok", "error"}
          /\ result.value \in 0..CountMax

Counted(o) == pc = "done" /\ op = o /\ result.kind = "ok"

(***************************************************************************)
(* resource.hpp on thread_count(): "a returned total always covers every   *)
(* record the caller could read", and permission or format failures never  *)
(* masquerade as a complete result: every process that existed throughout  *)
(* a successful walk was readable and has been summed.                     *)
(***************************************************************************)
TotalCoversEveryProcess ==
    Counted("thread_count") =>
        \A p \in Stable : /\ <<p, proc[p].inc>> \in read
                          /\ AccessOf[p][proc[p].inc] \in Readable

(* The threads of the records R, each named by its record and a number. *)
ThreadsIn(R) == UNION {{r} \X (1..Threads(r)) : r \in R}

(***************************************************************************)
(* The total is exactly the number of threads of the records read, each    *)
(* record counted once and for a process that lived during the call; a sum *)
(* beyond the counter is reported as value_too_large and never wraps.      *)
(***************************************************************************)
TotalIsExact ==
    op = "thread_count" =>
        /\ \A r \in read : Lived(r[1], r[2])
        /\ \A r, s \in read : r[1] = s[1] => r = s
        /\ Counted(op) => result.value = Cardinality(ThreadsIn(read))
        /\ overflowed => Cardinality(ThreadsIn(read)) > CountMax

(***************************************************************************)
(* process_count() lies between the number of processes that existed       *)
(* throughout and the number that existed at some time during the call.    *)
(***************************************************************************)
ProcessCountBracketed ==
    Counted("process_count") =>
        result.value \in Cardinality(Stable)..Cardinality(Sighted)
=============================================================================
