------------------------------- MODULE ProcFs -------------------------------
(***************************************************************************)
(* The Linux kernel's side of every /proc walk in syscape: process         *)
(* identifiers that are born, exit, are reaped and are used again, the     *)
(* directory stream of opendir("/proc"), and the files of one process.     *)
(* None of this is code of the repository; it is the interface that        *)
(* detail/process_list/linux.hpp and detail/resource/linux.hpp are written *)
(* against, reduced to what they can tell apart.                           *)
(*                                                                         *)
(* A process identifier names at most one process at a time. Successive    *)
(* owners of one identifier are its incarnations 1, 2, ...                 *)
(***************************************************************************)
EXTENDS Naturals, FiniteSets

CONSTANTS
    Pids,            \* identifiers the kernel hands out; 0 is never one
    MaxIncarnation,  \* bound: how many processes may own one identifier
    AccessOf,        \* AccessOf[p][i]: what the caller may see of incarnation i
    GoneReads,       \* what reading an open file of a reaped process yields
    Faults           \* may open() also fail for want of a descriptor?

(***************************************************************************)
(* "full"    every file and link is readable;                              *)
(* "nolinks" another user's process: exe and cwd are refused;              *)
(* "eacces"  an access-control policy refuses every file;                  *)
(* "eperm"   procfs mounted with hidepid=1 refuses the whole directory;    *)
(* "odd"     stat holds a record the parsers reject.                       *)
(***************************************************************************)
AccessClasses == {"full", "nolinks", "eacces", "eperm", "odd"}

(* Classes whose stat record can be opened, read and parsed. *)
Readable == {"full", "nolinks"}

Incarnations == 1..MaxIncarnation

ASSUME ProcFsAssumption ==
    /\ Pids \subseteq Nat \ {0}
    /\ IsFiniteSet(Pids)
    /\ MaxIncarnation \in Nat \ {0}
    /\ AccessOf \in [Pids -> [Incarnations -> AccessClasses]]
    /\ GoneReads \subseteq {"ESRCH", "empty"}
    /\ GoneReads # {}
    /\ Faults \in BOOLEAN

VARIABLES
    proc,      \* proc[p]: state of identifier p and its latest incarnation
    start,     \* proc at the moment the query in progress began (history)
    returned   \* names the open directory stream has already produced

procVars == <<proc, start, returned>>

ProcTable == [Pids -> [state : {"free", "alive", "zombie"},
                       inc   : 0..MaxIncarnation]]

(* start while no query is in progress. *)
NoStart == [p \in Pids |-> [state |-> "free", inc |-> 0]]

Exists(p) == p \in Pids /\ proc[p].state # "free"

(* The process a handle was opened on, named by its incarnation, is still there. *)
Holds(p, i) == Exists(p) /\ proc[p].inc = i

(* Identifiers owned by one and the same process ever since the query began. *)
Stable == {p \in Pids : /\ start[p].state # "free"
                        /\ proc[p].state # "free"
                        /\ proc[p].inc = start[p].inc}

(* Identifiers that some process has owned at some time since the query began. *)
Sighted == {p \in Pids : start[p].state # "free" \/ proc[p].inc > start[p].inc}

(* Incarnation i owned p at some time between the start of the query and now. *)
Lived(p, i) == /\ p \in Pids
               /\ i \in 1..proc[p].inc
               /\ \/ i > start[p].inc
                  \/ i = start[p].inc /\ start[p].state # "free"

-----------------------------------------------------------------------------
ProcInit == /\ proc \in {t \in ProcTable :
                            \A p \in Pids : t[p].state = "free" <=> t[p].inc = 0}
            /\ \A p \in Pids : proc[p].inc <= 1
            /\ start = NoStart
            /\ returned = {}

Spawn(p) == /\ proc[p].state = "free"
            /\ proc[p].inc < MaxIncarnation
            /\ proc' = [proc EXCEPT ![p] = [state |-> "alive", inc |-> @.inc + 1]]
            /\ UNCHANGED <<start, returned>>

Exit(p) == /\ proc[p].state = "alive"
           /\ proc' = [proc EXCEPT ![p].state = "zombie"]
           /\ UNCHANGED <<start, returned>>

Reap(p) == /\ proc[p].state = "zombie"
           /\ proc' = [proc EXCEPT ![p].state = "free"]
           /\ UNCHANGED <<start, returned>>

Kernel == \E p \in Pids : Spawn(p) \/ Exit(p) \/ Reap(p)

-----------------------------------------------------------------------------
(***************************************************************************)
(* readdir: a stream yields each name at most once, certainly those that   *)
(* stay in the directory throughout, and possibly those that come or go    *)
(* while it is open.                                                       *)
(***************************************************************************)
DirectoryMayYield == Sighted \ returned
DirectoryMayEnd   == Stable \subseteq returned

(* open() of one file of /proc/<p>: the set of outcomes possible now. *)
OpenOutcomes(p) ==
    (IF Faults THEN {"EMFILE"} ELSE {}) \cup
    (IF ~Exists(p) THEN {"ENOENT"}
     ELSE CASE AccessOf[p][proc[p].inc] = "eacces" -> {"EACCES"}
            [] AccessOf[p][proc[p].inc] = "eperm"  -> {"EPERM"}
            [] OTHER                               -> {"ok"})

(* read() through a handle opened on incarnation i of p. *)
ReadOutcomes(p, i) == IF Holds(p, i) THEN {"ok"} ELSE GoneReads

(* readlink() of /proc/<p>/exe or cwd succeeds; a zombie has neither link. *)
LinkReadable(p) == /\ Exists(p)
                   /\ proc[p].state = "alive"
                   /\ AccessOf[p][proc[p].inc] \in {"full", "odd"}
=============================================================================
