---------------------------- MODULE ProcessList ----------------------------
(***************************************************************************)
(* detail/process_list/linux.hpp: the four queries of process_list run     *)
(* against a kernel (module ProcFs) that goes on spawning, ending and      *)
(* reusing processes between any two system calls of the query.            *)
(*                                                                         *)
(* A process_entry is reduced to where its fields came from: each group of *)
(* fields is the identity <<pid, incarnation>> of the process whose stat,  *)
(* status, cmdline, exe or cwd supplied it, or NoPart for std::nullopt.    *)
(* user_name is resolved from the uid of status and shares its group.      *)
(*                                                                         *)
(* Left out: sysconf and boot_time, which are constant on a running host   *)
(* and only scale numbers; the uint32 check of process_count, beyond the   *)
(* kernel's largest pid_max.                                               *)
(***************************************************************************)
EXTENDS ProcFs, Sequences

CONSTANTS
    Names,       \* process names a caller may ask for; "" is the empty one
    NameOf,      \* NameOf[p][i]: short name (comm) of incarnation i of p;
                 \* "" when it is not UTF-8 and entry.name stays absent
    ExeNameOf    \* ExeNameOf[p][i]: basename of its executable

ASSUME NamesAssumption ==
    /\ Names \subseteq STRING
    /\ \A p \in Pids, i \in Incarnations : /\ NameOf[p][i] \in STRING
                                           /\ ExeNameOf[p][i] \in STRING \ {""}

VARIABLES
    call,     \* the query in progress
    pc,       \* where it is
    file,     \* which text file of the process is being read
    cur,      \* pid: the process being queried
    handle,   \* incarnation the open descriptor belongs to
    entry,    \* the process_entry under construction
    list,     \* result_list of processes()
    result    \* what the call returned

libVars == <<call, pc, file, cur, handle, entry, list, result>>
vars == <<procVars, libVars>>

Identity == Pids \X Incarnations
NoPart == <<0, 0>>
Part == Identity \cup {NoPart}
NoEntry == [pid |-> 0, stat |-> NoPart, status |-> NoPart,
            cmdline |-> NoPart, exe |-> NoPart, cwd |-> NoPart]
Entry == [pid : Pids \cup {0}, stat : Part, status : Part,
          cmdline : Part, exe : Part, cwd : Part]

ListOps == {"processes", "process_count", "find_processes_by_name"}
NoCall == [op |-> "none", pid |-> 0, name |-> ""]
Calls == [op : {"processes", "process_count"}, pid : {0}, name : {""}]
         \cup [op : {"find_processes_by_name"}, pid : {0}, name : Names]
         \cup [op : {"find_process"}, pid : Pids \cup {0}, name : {""}]

Codes == {"none", "not_found", "malformed_data", "value_too_large",
          "EACCES", "EPERM", "ESRCH", "EMFILE", "EIO"}
NoResult == [kind |-> "none", code |-> "none", entries |-> <<>>, count |-> 0]
Ok(entries) == [kind |-> "ok", code |-> "none",
                entries |-> entries, count |-> Len(entries)]
Fail(code) == [kind |-> "error", code |-> code, entries |-> <<>>, count |-> 0]

-----------------------------------------------------------------------------
(* What the stat, status and cmdline parsers make of a process's file. *)
ParseErrors == {"malformed_data", "value_too_large"}

ExePart(p) == IF LinkReadable(p) THEN {<<p, proc[p].inc>>, NoPart} ELSE {NoPart}

(* entry.name: from stat, or from status where stat's is not UTF-8. *)
EntryName(e) == LET shown(part) == NameOf[part[1]][part[2]]
                IN IF shown(e.stat) = "" /\ e.status # NoPart THEN shown(e.status)
                   ELSE shown(e.stat)

matches_process_name(e, name) ==
    /\ name # ""
    /\ \/ EntryName(e) = name
       \/ e.exe # NoPart /\ ExeNameOf[e.exe[1]][e.exe[2]] = name

(* The elements of s at the positions P, in the strict order R of positions. *)
Place(P, R, n) == CHOOSE i \in P : Cardinality({j \in P : <<j, i>> \in R}) = n - 1
Arranged(s, P, R) == [n \in 1..Cardinality(P) |-> s[Place(P, R, n)]]

Pairs(s) == (DOMAIN s) \X (DOMAIN s)

Mutant_no_sort(s) == s
sort_processes(s) ==
    Arranged(s, DOMAIN s, {h \in Pairs(s) : \/ s[h[1]].pid < s[h[2]].pid
                                            \/ s[h[1]].pid = s[h[2]].pid /\ h[1] < h[2]})

(* The entries with that name, in the order they have. *)
Filtered(s, name) ==
    Arranged(s, {i \in DOMAIN s : matches_process_name(s[i], name)}, {h \in Pairs(s) : h[1] < h[2]})

Mutant_denial_not_skippable(code) ==
    code \in {"not_found", "malformed_data", "value_too_large"}
skippable_process_error(code) ==
    code \in {"not_found", "EACCES", "malformed_data", "value_too_large"}

(* The value each enumeration returns, from the sorted list of processes(). *)
Answer(sorted) ==
    CASE call.op = "processes"     -> Ok(sorted)
      [] call.op = "process_count" -> [Ok(<<>>) EXCEPT !.count = Len(sorted)]
      [] call.op = "find_processes_by_name" ->
            Ok(Filtered(sorted, call.name))

-----------------------------------------------------------------------------
(* How query_single_process ends, and what its caller does about it. *)
Return(r) == /\ pc' = "done"
             /\ result' = r
             /\ UNCHANGED list

Mutant_skip_ends_walk(code) ==
    IF call.op \in ListOps /\ skippable_process_error(code)
    THEN Return(Answer(sort_processes(list)))
    ELSE Return(Fail(code))
SingleFailed(code) ==
    IF call.op \in ListOps /\ skippable_process_error(code)
    THEN pc' = "readdir" /\ UNCHANGED <<list, result>>
    ELSE Return(Fail(code))

SingleDone(e) ==
    IF call.op \in ListOps
    THEN /\ list' = Append(list, e)
         /\ pc' = "readdir"
         /\ UNCHANGED result
    ELSE Return(Ok(<<e>>))

(* query_single_process(p): begins with an entry of its own. *)
Mutant_stale_entry(p) == /\ cur' = p
                         /\ file' = "stat"
                         /\ handle' = 0
                         /\ pc' = "open"
                         /\ UNCHANGED entry
BeginSingle(p) == /\ cur' = p
                  /\ file' = "stat"
                  /\ entry' = NoEntry
                  /\ handle' = 0
                  /\ pc' = "open"

-----------------------------------------------------------------------------
Init == /\ ProcInit
        /\ call = NoCall
        /\ pc = "idle"
        /\ file = "stat"
        /\ cur = 0
        /\ handle = 0
        /\ entry = NoEntry
        /\ list = <<>>
        /\ result = NoResult

BeginCall(c) == /\ pc = "idle"
                /\ call' = c
                /\ start' = proc
                /\ returned' = {}
                /\ list' = <<>>
                /\ UNCHANGED proc

(* processes(), process_count(), find_processes_by_name(): opendir("/proc"). *)
Enumerate(c) ==
    /\ c.op \in ListOps
    /\ BeginCall(c)
    /\ UNCHANGED <<file, cur, handle, entry>>
    /\ \/ /\ c.op = "find_processes_by_name" /\ c.name = ""
          /\ pc' = "done" /\ result' = Ok(<<>>)
       \/ /\ ~(c.op = "find_processes_by_name" /\ c.name = "")
          /\ \/ pc' = "readdir" /\ result' = NoResult
             \/ Faults /\ pc' = "done" /\ result' = Fail("EMFILE")

FindProcess(c) ==
    /\ c.op = "find_process"
    /\ BeginCall(c)
    /\ IF c.pid = 0
       THEN /\ pc' = "done" /\ result' = Fail("not_found")
            /\ UNCHANGED <<file, cur, handle, entry>>
       ELSE /\ BeginSingle(c.pid)
            /\ result' = NoResult

(* readdir yields the name of a process. *)
ReadDirName(p) == /\ pc = "readdir"
                  /\ p \in DirectoryMayYield
                  /\ returned' = returned \cup {p}
                  /\ BeginSingle(p)
                  /\ UNCHANGED <<proc, start, call, list, result>>

ReadDirEnd == /\ pc = "readdir"
              /\ DirectoryMayEnd
              /\ Return(Answer(sort_processes(list)))
              /\ UNCHANGED <<procVars, call, file, cur, handle, entry>>

ReadDirError == /\ pc = "readdir"
                /\ Faults
                /\ Return(Fail("EIO"))
                /\ UNCHANGED <<procVars, call, file, cur, handle, entry>>

(* The next file of query_single_process; stat, status, cmdline, exe, cwd. *)
Advance(f) == /\ file' = f
              /\ pc' = IF f \in {"exe", "cwd"} THEN "link" ELSE "open"
              /\ UNCHANGED <<list, result>>

AfterStat == Advance("status")
AfterStatus == Advance("cmdline")
AfterCmdline == Advance("exe")

(* Any failure of the stat file ends the query; those of the others do not. *)
Mutant_denied_is_missing(code) ==
    /\ UNCHANGED <<procVars, call, cur, handle, entry>>
    /\ \/ /\ file = "stat"
          /\ SingleFailed(IF code \in {"ENOENT", "EACCES"} THEN "not_found" ELSE code)
          /\ UNCHANGED file
       \/ file = "status" /\ AfterStatus
       \/ file = "cmdline" /\ AfterCmdline
Mutant_unmapped_errno(code) ==
    /\ UNCHANGED <<procVars, call, cur, handle, entry>>
    /\ \/ file = "stat" /\ SingleFailed(code) /\ UNCHANGED file
       \/ file = "status" /\ AfterStatus
       \/ file = "cmdline" /\ AfterCmdline
Mutant_retry_vanished(code) ==
    /\ UNCHANGED <<procVars, call, cur, handle, entry>>
    /\ \/ /\ file = "stat"
          /\ IF code = "ESRCH" THEN pc' = "open" /\ UNCHANGED <<list, result>>
             ELSE SingleFailed(IF code = "ENOENT" THEN "not_found" ELSE code)
          /\ UNCHANGED file
       \/ file = "status" /\ AfterStatus
       \/ file = "cmdline" /\ AfterCmdline
FileFailed(code) ==
    /\ UNCHANGED <<procVars, call, cur, handle, entry>>
    /\ \/ /\ file = "stat"
          /\ SingleFailed(IF code = "ENOENT" THEN "not_found" ELSE code)
          /\ UNCHANGED file
       \/ file = "status" /\ AfterStatus
       \/ file = "cmdline" /\ AfterCmdline

OpenFile == /\ pc = "open"
            /\ \E outcome \in OpenOutcomes(cur) :
                 IF outcome = "ok"
                 THEN /\ handle' = proc[cur].inc
                      /\ pc' = "read"
                      /\ UNCHANGED <<procVars, call, file, cur, entry, list, result>>
                 ELSE FileFailed(outcome)

ReadFailed == /\ pc = "read"
              /\ "ESRCH" \in ReadOutcomes(cur, handle)
              /\ FileFailed("ESRCH")

(* parse_proc_stat_entry: reject, or start the entry with the stat fields. *)
ReadStat ==
    /\ pc = "read" /\ file = "stat"
    /\ \/ /\ \/ "empty" \in ReadOutcomes(cur, handle)
             \/ Holds(cur, handle) /\ AccessOf[cur][handle] = "odd"
          /\ \E code \in ParseErrors : SingleFailed(code)
          /\ UNCHANGED <<file, entry>>
       \/ /\ Holds(cur, handle)
          /\ AccessOf[cur][handle] # "odd"
          /\ entry' = [entry EXCEPT !.pid = cur, !.stat = <<cur, handle>>]
          /\ AfterStat
    /\ UNCHANGED <<procVars, call, cur, handle>>

(* parse_proc_status: an empty file leaves uid, gid and user_name absent. *)
ReadStatus ==
    /\ pc = "read" /\ file = "status"
    /\ \/ /\ Holds(cur, handle)
          /\ entry' = [entry EXCEPT !.status = <<cur, handle>>]
       \/ /\ "empty" \in ReadOutcomes(cur, handle)
          /\ UNCHANGED entry
    /\ AfterStatus
    /\ UNCHANGED <<procVars, call, cur, handle>>

(* parse_proc_cmdline: unterminated or non-UTF-8 arguments leave it absent. *)
ReadCmdline ==
    /\ pc = "read" /\ file = "cmdline"
    /\ ReadOutcomes(cur, handle) \cap {"ok", "empty"} # {}
    /\ \E part \in {<<cur, handle>>, NoPart} :
         entry' = [entry EXCEPT !.cmdline = part]
    /\ AfterCmdline
    /\ UNCHANGED <<procVars, call, cur, handle>>

ReadExe == /\ pc = "link" /\ file = "exe"
           /\ \E part \in ExePart(cur) : entry' = [entry EXCEPT !.exe = part]
           /\ Advance("cwd")
           /\ UNCHANGED <<procVars, call, cur, handle>>

ReadCwd == /\ pc = "link" /\ file = "cwd"
           /\ \E part \in ExePart(cur) :
                /\ entry' = [entry EXCEPT !.cwd = part]
                /\ SingleDone(entry')
           /\ UNCHANGED <<procVars, call, file, cur, handle>>

(* The caller takes the result; the query keeps nothing for the next one. *)
TakeResult == /\ pc = "done"
              /\ pc' = "idle"
              /\ call' = NoCall
              /\ file' = "stat"
              /\ cur' = 0
              /\ handle' = 0
              /\ entry' = NoEntry
              /\ list' = <<>>
              /\ result' = NoResult
              /\ start' = NoStart
              /\ returned' = {}
              /\ UNCHANGED proc

Query == \/ \E p \in Pids : ReadDirName(p)
         \/ ReadDirEnd \/ ReadDirError
         \/ OpenFile \/ ReadFailed
         \/ ReadStat \/ ReadStatus \/ ReadCmdline
         \/ ReadExe \/ ReadCwd

Next == \/ \E c \in Calls : Enumerate(c) \/ FindProcess(c)
        \/ Query
        \/ TakeResult
        \/ Kernel /\ UNCHANGED libVars

Spec == Init /\ [][Next]_vars
-----------------------------------------------------------------------------
TypeOK == /\ proc \in ProcTable
          /\ start \in ProcTable
          /\ returned \subseteq Pids
          /\ call \in Calls \cup {NoCall}
          /\ pc \in {"idle", "readdir", "open", "read", "link", "done"}
          /\ file \in {"stat", "status", "cmdline", "exe", "cwd"}
          /\ cur \in Pids \cup {0}
          /\ handle \in 0..MaxIncarnation
          /\ entry \in Entry
          /\ list \in Seq(Entry)
          /\ result.kind \in {"none", "ok", "error"}
          /\ result.code \in Codes
          /\ result.entries \in Seq(Entry)
          /\ result.count \in Nat

(* An enumeration has walked /proc to the end and returned. *)
Enumerated == /\ pc = "done"
              /\ result.kind = "ok"
              /\ call.op \in ListOps
              /\ ~(call.op = "find_processes_by_name" /\ call.name = "")

(***************************************************************************)
(* Completeness of processes(): whatever starts, exits or is refused while *)
(* the walk is under way, a successful walk lists every process that       *)
(* existed throughout and whose stat record the caller may read.           *)
(***************************************************************************)
Complete ==
    Enumerated =>
        \A p \in Stable :
            AccessOf[p][proc[p].inc] \in Readable =>
                \E k \in DOMAIN list : list[k].pid = p

(***************************************************************************)
(* Attribution of query_single_process: the five reads of one entry name   *)
(* the process by number, so a number reused between them may mix two      *)
(* processes. What holds: every field group comes from a process that      *)
(* owned entry.pid during the call, later groups never from an earlier     *)
(* owner than earlier groups, and the entry of a process that existed      *)
(* throughout is entirely its own.                                         *)
(***************************************************************************)
Groups(e) == <<e.stat, e.status, e.cmdline, e.exe, e.cwd>>
Attributed(e) ==
    /\ e.stat # NoPart
    /\ \A g \in 1..5 : Groups(e)[g] # NoPart =>
          /\ Groups(e)[g][1] = e.pid
          /\ Lived(e.pid, Groups(e)[g][2])
          /\ \A h \in 1..g : Groups(e)[h][2] <= Groups(e)[g][2]
EntriesAttributed ==
    /\ \A k \in DOMAIN list : Attributed(list[k])
    /\ pc = "done" => \A k \in DOMAIN result.entries : Attributed(result.entries[k])

(***************************************************************************)
(* The three enumerations answer from one walk: processes() is the walk's  *)
(* entries in strictly ascending PID order (so no process twice),          *)
(* process_count() is their number, find_processes_by_name() the matching  *)
(* ones in the same order.                                                 *)
(***************************************************************************)
AnswersAgree ==
    Enumerated =>
        /\ \A i, j \in DOMAIN result.entries :
              i < j => result.entries[i].pid < result.entries[j].pid
        /\ call.op = "process_count" => result.count = Len(list)
        /\ call.op # "process_count" =>
              {result.entries[i] : i \in DOMAIN result.entries} =
              {e \in {list[i] : i \in DOMAIN list} :
                  call.op = "processes" \/ matches_process_name(e, call.name)}

(***************************************************************************)
(* find_process() never reports not_found for a process that existed from  *)
(* the beginning of the call to its end, however little the caller may     *)
(* read of it.                                                             *)
(***************************************************************************)
NotFoundIsTrue ==
    (pc = "done" /\ call.op = "find_process" /\ result.code = "not_found")
        => call.pid \notin Stable

(***************************************************************************)
(* An enumeration is not failed by processes whose files are refused by    *)
(* policy, whose records do not parse, or that are gone before their stat  *)
(* file is opened: the only causes of failure are a want of descriptors, a *)
(* failing readdir, hidepid's EPERM and a process that vanishes between    *)
(* open and read.                                                          *)
(***************************************************************************)
EnumerationSurvives ==
    (pc = "done" /\ call.op \in ListOps /\ result.kind = "error") =>
        \/ result.code \in {"EMFILE", "EIO"} /\ Faults
        \/ result.code = "EPERM"
        \/ result.code = "ESRCH" /\ cur \notin Stable

(***************************************************************************)
(* Every call returns, however the kernel schedules the processes it meets *)
(* and however long new ones appear: each system call of a query brings it *)
(* nearer its end, so it makes fewer than 12 of them per identifier. No    *)
(* failure may send query_single_process or the walk back to repeat what   *)
(* it has done.                                                            *)
(***************************************************************************)
InQuery == pc \notin {"idle", "done"}
Left == [stat |-> 8, status |-> 6, cmdline |-> 4, exe |-> 3, cwd |-> 2]
Stage == IF pc = "readdir" THEN 1 ELSE Left[file] + (IF pc = "open" THEN 1 ELSE 0)
Distance == IF InQuery THEN 12 * Cardinality(Pids \ returned) + Stage ELSE 0
EveryCallAdvances ==
    [][InQuery /\ libVars' # libVars => Distance' < Distance]_vars

(***************************************************************************)
(* process_list.hpp: callers "receive partial observable metadata for      *)
(* restricted processes rather than failing the enumeration".              *)
(***************************************************************************)
RestrictedDoNotFail ==
    (pc = "done" /\ call.op \in ListOps /\ result.kind = "error")
        => result.code \notin {"EACCES", "EPERM"}
=============================================================================
