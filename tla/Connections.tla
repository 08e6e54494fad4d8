----------------------------- MODULE Connections -----------------------------
(***************************************************************************)
(* The socket inventory of detail/connection/linux.hpp. connections()      *)
(* first walks /proc/<pid>/fd of every process to learn which process has  *)
(* which socket (build_inode_pid_map), and only then reads the kernel's    *)
(* socket tables line by line (read_proc_net_file), joining the two by the *)
(* socket's inode. Processes open, share, pass on and close sockets, fork  *)
(* and exit between any two of these steps. The four filters of            *)
(* connection.hpp run on the finished list.                                *)
(*                                                                         *)
(* A zombie has no descriptors, so to this walk a process that has exited  *)
(* is gone. The kernel does not give the inode of a closed socket to a new *)
(* one during a call (its counter would have to wrap around).              *)
(***************************************************************************)
EXTENDS Naturals, Sequences, FiniteSets, SequencesExt, Bags

CONSTANTS
    Pids,       \* process identifiers, other than the caller's own
    Visible,    \* those whose descriptors the caller may list
    Fds,        \* descriptor numbers, from 1
    Sockets,    \* sockets, named by their inode
    Sources,    \* the socket tables in the order in which they are read, one
                \* for each protocol (the code reads tcp6 after tcp, udp6 after udp)
    TableOf,    \* TableOf[s]: the table that lists socket s
    Listening,  \* sockets that listen, or are not connected
    Missing,    \* sets of tables a kernel may lack
    MaxMoves    \* bound: steps of the other processes during one call

Tables == Range(Sources)

ASSUME ConnectionsAssumption ==
    /\ "none" \notin Pids \cup Sockets
    /\ Visible \subseteq Pids
    /\ Fds \subseteq Nat \ {0}
    /\ IsFiniteSet(Sockets)
    /\ Sources \in Seq(Tables) /\ IsInjective(Sources)
    /\ TableOf \in [Sockets -> Tables]
    /\ Listening \subseteq Sockets
    /\ Missing \subseteq SUBSET Tables
    /\ MaxMoves \in Nat

NoSocket == "none"    \* in fd: a free descriptor, or one that is no socket
NoPid == "none"       \* in a record: std::nullopt

VARIABLES
    alive,      \* processes that exist
    fd,         \* fd[p][d]: socket behind descriptor d of p
    table,      \* table[t]: the sockets of table t, in the order of its lines
    missing,    \* tables this kernel does not have
    moves,      \* steps of the other processes since the call began
    lasting,    \* processes that exist ever since the call began (history)
    steady,     \* <<p, d>> that name one and the same socket since then (history)
    held,       \* <<s, p>>: p has had s at some time since then (history)
    changed,    \* tables in which a line came or went since then (history)
    pc,
    returned,   \* names the stream of /proc has produced
    dir, last,  \* process whose fd directory is open, latest name it produced
    owners,     \* owners[s]: processes found to have s (inode_pid_map)
    source, line,  \* next table and line to read
    found,      \* any_source_found
    records,    \* the records so far: a bag, the final sort makes their order canonical
    faulted,    \* some directory could not be opened or read to its end (history)
    result

system == <<alive, fd, table>>
history == <<lasting, steady, held, changed>>
walk == <<returned, dir, last, owners>>
reading == <<source, line, found, records>>
vars == <<system, missing, moves, history, pc, walk, reading, faulted, result>>

NoResult == [kind |-> "none", code |-> "none", query |-> "none", entries |-> EmptyBag]
Ok(q, b) == [kind |-> "ok", code |-> "none", query |-> q, entries |-> b]
Fail(code) == [kind |-> "error", code |-> code, query |-> "none", entries |-> EmptyBag]

Holders(f, s) == {p \in Pids : \E d \in Fds : f[p][d] = s}
Pairs(f) == {h \in Sockets \X Pids : h[2] \in Holders(f, h[1])}
Open(f) == {h \in Pids \X Fds : f[h[1]][h[2]] # NoSocket}

NoOwners == [s \in Sockets |-> {}]

(* Every socket that a process has is in its table; a table may also list   *)
(* sockets nobody has any more (TIME_WAIT).                                 *)
Init == /\ alive \in SUBSET Pids
        /\ fd \in [Pids -> [Fds -> Sockets \cup {NoSocket}]]
        /\ \A p \in Pids \ alive, d \in Fds : fd[p][d] = NoSocket
        /\ \E listed \in SUBSET Sockets :
              /\ \A s \in Sockets : Holders(fd, s) # {} => s \in listed
              /\ table \in [Tables -> UNION {SetToSeqs({s \in listed : TableOf[s] = t}) : t \in Tables}]
              /\ \A t \in Tables : ToSet(table[t]) = {s \in listed : TableOf[s] = t}
        /\ missing \in Missing
        /\ pc = "idle"
        /\ moves = 0
        /\ lasting = {} /\ steady = {} /\ held = {} /\ changed = {}
        /\ returned = {} /\ dir = NoPid /\ last = 0 /\ owners = NoOwners
        /\ source = 1 /\ line = 1 /\ found = FALSE /\ records = EmptyBag
        /\ faulted = FALSE
        /\ result = NoResult

-----------------------------------------------------------------------------
(* The other processes. *)
Calling == pc \notin {"idle", "done"}

Fresh == {s \in Sockets : s \notin ToSet(table[TableOf[s]]) /\ \A p \in Pids : <<s, p>> \notin held}

(* What a step of theirs leaves true of the call so far. A socket whose last  *)
(* descriptor is closed leaves its table, or stays for a while without owner. *)
Move(alive1, fd1, table1) ==
    /\ Calling
    /\ moves < MaxMoves
    /\ moves' = moves + 1
    /\ alive' = alive1
    /\ fd' = fd1
    /\ table' = table1
    /\ lasting' = lasting \cap alive1
    /\ steady' = {h \in steady : fd1[h[1]][h[2]] = fd[h[1]][h[2]]}
    /\ held' = held \cup Pairs(fd1)
    /\ changed' = changed \cup {t \in Tables : table1[t] # table[t]}
    /\ UNCHANGED <<missing, pc, walk, reading, faulted, result>>

(* The ways to list the sockets S that keep the order of lines. *)
Relisted(lines, S) ==
    {l \in SetToSeqs(S) : \A i, j \in DOMAIN l, m, n \in DOMAIN lines :
        l[i] = lines[m] /\ l[j] = lines[n] /\ i < j => m < n}

Release(alive1, fd1) ==
    LET orphaned == {s \in Sockets : Holders(fd, s) # {} /\ Holders(fd1, s) = {}}
    IN \E gone \in SUBSET orphaned :
          LET left(t) == Relisted(table[t], ToSet(table[t]) \ gone)
          IN \E table1 \in [Tables -> UNION {left(t) : t \in Tables}] :
                /\ \A t \in Tables : table1[t] \in left(t)
                /\ Move(alive1, fd1, table1)

OpenSocket(p, d, s) ==
    /\ p \in alive /\ fd[p][d] = NoSocket /\ s \in Fresh
    /\ LET t == TableOf[s]
       IN \E lines \in Relisted(table[t], ToSet(table[t]) \cup {s}) :
             Move(alive, [fd EXCEPT ![p][d] = s], [table EXCEPT ![t] = lines])

Close(p, d) == /\ fd[p][d] # NoSocket
               /\ Release(alive, [fd EXCEPT ![p][d] = NoSocket])

(* dup(), or a descriptor sent to another process. *)
Share(p, d, q, e) == /\ fd[p][d] # NoSocket /\ q \in alive /\ fd[q][e] = NoSocket
                     /\ Move(alive, [fd EXCEPT ![q][e] = fd[p][d]], table)

Fork(p, q) == /\ p \in alive /\ q \notin alive
              /\ Move(alive \cup {q}, [fd EXCEPT ![q] = fd[p]], table)

Exit(p) == /\ p \in alive
           /\ Release(alive \ {p}, [fd EXCEPT ![p] = [d \in Fds |-> NoSocket]])

(* A socket without owner leaves its table. *)
Expire(s) ==
    LET t == TableOf[s]
    IN /\ Holders(fd, s) = {} /\ s \in ToSet(table[t])
       /\ \E lines \in Relisted(table[t], ToSet(table[t]) \ {s}) :
             Move(alive, fd, [table EXCEPT ![t] = lines])

Others == \/ \E p \in Pids, d \in Fds, s \in Sockets : OpenSocket(p, d, s)
          \/ \E p \in Pids, d \in Fds : Close(p, d)
          \/ \E p \in Pids, d \in Fds, q \in Pids, e \in Fds : Share(p, d, q, e)
          \/ \E p \in Pids, q \in Pids : Fork(p, q)
          \/ \E p \in Pids : Exit(p)
          \/ \E s \in Sockets : Expire(s)

-----------------------------------------------------------------------------
(* build_inode_pid_map. *)
(* opendir("/proc"); without it the map stays empty. *)
Begin(opened) ==
    /\ pc = "idle"
    /\ pc' = IF opened THEN "proc" ELSE "tables"
    /\ faulted' = ~opened
    /\ lasting' = alive /\ steady' = Open(fd) /\ held' = Pairs(fd) /\ changed' = {}
    /\ UNCHANGED <<system, missing, moves, walk, reading, result>>

(* A name of /proc; its fd directory is opened if the process is still there *)
(* and readable, and skipped otherwise or if no descriptor is left.          *)
NextPid(p) ==
    /\ pc = "proc"
    /\ p \notin returned
    /\ returned' = returned \cup {p}
    /\ \/ /\ p \in alive \cap Visible
          /\ pc' = "fd" /\ dir' = p /\ last' = 0
          /\ UNCHANGED faulted
       \/ p \notin alive \cap Visible /\ UNCHANGED <<pc, dir, last, faulted>>
       \/ p \in alive \cap Visible /\ faulted' = TRUE /\ UNCHANGED <<pc, dir, last>>
    /\ UNCHANGED <<system, missing, moves, history, owners, reading, result>>

(* readdir() returns NULL: every name that was there all along has come, or  *)
(* the stream failed, which the loop cannot tell from its end.               *)
EndOfProc ==
    /\ pc = "proc"
    /\ pc' = "tables"
    /\ faulted' = (faulted \/ ~(lasting \subseteq returned))
    /\ returned' = {}
    /\ UNCHANGED <<system, missing, moves, history, dir, last, owners, reading, result>>

(* Descriptors of the open directory that it must still produce. *)
Due == {d \in Fds : <<dir, d>> \in steady /\ d > last}

(* owners.push_back(pid), unless it is there. *)
AddOwner(s, p) == [owners EXCEPT ![s] = @ \cup {p}]

Mutant_stale_target(d) ==
    /\ pc = "fd"
    /\ d > last /\ \A e \in Due : e >= d
    /\ last' = d
    /\ IF dir \in alive /\ fd[dir][d] # NoSocket THEN owners' = AddOwner(fd[dir][d], dir)
       ELSE \E s \in {x \in Sockets : owners[x] # {}} : owners' = AddOwner(s, dir)
    /\ UNCHANGED <<system, missing, moves, history, pc, returned, dir, reading, faulted, result>>
(* The next name of the fd directory and readlink() of it. The name may have  *)
(* been read ahead of time: by now the descriptor may be closed or name       *)
(* another socket, and the identifier another process.                        *)
NextFd(d) ==
    /\ pc = "fd"
    /\ d > last /\ \A e \in Due : e >= d
    /\ last' = d
    /\ owners' = IF dir \in alive /\ fd[dir][d] # NoSocket THEN AddOwner(fd[dir][d], dir) ELSE owners
    /\ UNCHANGED <<system, missing, moves, history, pc, returned, dir, reading, faulted, result>>

EndOfFds ==
    /\ pc = "fd"
    /\ pc' = "proc" /\ dir' = NoPid /\ last' = 0
    /\ faulted' = (faulted \/ Due # {})
    /\ UNCHANGED <<system, missing, moves, history, returned, owners, reading, result>>

-----------------------------------------------------------------------------
(* read_proc_net_file. *)
Stays == <<system, missing, moves, history, faulted>>

(* The call returns and its local variables are gone. *)
Finish(r) ==
    /\ pc' = "done" /\ result' = r
    /\ owners' = NoOwners
    /\ source' = 1 /\ line' = 1 /\ found' = FALSE /\ records' = EmptyBag
    /\ UNCHANGED <<Stays, returned, dir, last>>

(* Open source number `source` and read its header line. *)
OpenTable ==
    /\ pc = "tables"
    /\ source <= Len(Sources)
    /\ \/ /\ Sources[source] \in missing            \* ENOENT: not a source
          /\ source' = source + 1
          /\ UNCHANGED <<pc, line>>
       \/ /\ Sources[source] \notin missing
          /\ pc' = "lines" /\ line' = 1
          /\ UNCHANGED source
    /\ UNCHANGED <<Stays, walk, found, records, result>>

Mutant_skip_unreadable(code) ==
    /\ pc = "tables" /\ source <= Len(Sources) /\ Sources[source] \notin missing
    /\ source' = source + 1
    /\ UNCHANGED <<pc, line, found, records, result, Stays, walk>>
(* Any other failure to open it, or no header line. *)
OpenTableFails(code) ==
    /\ pc = "tables" /\ source <= Len(Sources) /\ Sources[source] \notin missing
    /\ Finish(Fail(code))

Record(s, p) == [socket |-> s, pid |-> p]

Mutant_first_owner(s, inode) ==
    SetToBag({Record(s, IF inode /\ owners[s] # {} THEN CHOOSE p \in owners[s] : TRUE ELSE NoPid)})
(* append_record_for_owners: a record for each owner, or one without. A      *)
(* socket that nobody has is listed with inode 0, which is in no map.        *)
RecordsFor(s, inode) ==
    SetToBag(IF inode /\ owners[s] # {} THEN {Record(s, p) : p \in owners[s]}
             ELSE {Record(s, NoPid)})

(* The line at this position of the table as it is now. *)
NextLine ==
    /\ pc = "lines"
    /\ LET lines == table[Sources[source]]
       IN /\ line <= Len(lines)
          /\ LET s == lines[line]
             IN records' = records (+) RecordsFor(s, Holders(fd, s) # {})
    /\ line' = line + 1
    /\ UNCHANGED <<pc, source, found, result, Stays, walk>>

(* A line that cannot be parsed, or a failing read. *)
LineFails(code) ==
    /\ pc = "lines"
    /\ Finish(Fail(code))

Mutant_count_line_as_table ==
    /\ pc = "lines"
    /\ line > Len(table[Sources[source]])
    /\ pc' = "tables" /\ source' = source + line /\ line' = 1 /\ found' = TRUE
    /\ UNCHANGED <<records, result, Stays, walk>>
EndOfTable ==
    /\ pc = "lines"
    /\ line > Len(table[Sources[source]])
    /\ pc' = "tables" /\ source' = source + 1 /\ line' = 1 /\ found' = TRUE
    /\ UNCHANGED <<records, result, Stays, walk>>

(* connections(), tcp_connections(), udp_endpoints(), listening_endpoints()   *)
(* and find_connections_by_process(p); which one is called matters only here. *)
Queries == {"all", "listening"} \cup Tables \cup Pids

Selects(q, r) == \/ q = "all"
                 \/ q = "listening" /\ r.socket \in Listening
                 \/ q = TableOf[r.socket]
                 \/ q = r.pid

Return(q) ==
    /\ pc = "tables"
    /\ source > Len(Sources)
    /\ Finish(IF found THEN Ok(q, [r \in {x \in DOMAIN records : Selects(q, x)} |-> records[r]])
              ELSE Fail("not_supported"))

TakeResult == /\ pc = "done"
              /\ pc' = "idle"
              /\ moves' = 0
              /\ lasting' = {} /\ steady' = {} /\ held' = {} /\ changed' = {}
              /\ faulted' = FALSE
              /\ result' = NoResult
              /\ UNCHANGED <<system, missing, walk, reading>>

Next == \/ Others
        \/ \E opened \in BOOLEAN : Begin(opened)
        \/ \E p \in Pids : NextPid(p)
        \/ EndOfProc
        \/ \E d \in Fds : NextFd(d)
        \/ EndOfFds
        \/ OpenTable
        \/ \E code \in {"EACCES", "malformed_data"} : OpenTableFails(code)
        \/ NextLine
        \/ \E code \in {"EIO", "malformed_data"} : LineFails(code)
        \/ EndOfTable
        \/ \E q \in Queries : Return(q)
        \/ TakeResult

Spec == Init /\ [][Next]_vars

-----------------------------------------------------------------------------
Records == [socket : Sockets, pid : Pids \cup {NoPid}]

TypeOK == /\ alive \subseteq Pids
          /\ fd \in [Pids -> [Fds -> Sockets \cup {NoSocket}]]
          /\ \A t \in Tables : ToSet(table[t]) \subseteq {s \in Sockets : TableOf[s] = t}
          /\ moves \in 0..MaxMoves
          /\ lasting \subseteq alive
          /\ steady \subseteq Open(fd)
          /\ owners \in [Sockets -> SUBSET Pids]
          /\ DOMAIN records \subseteq Records /\ IsABag(records)
          /\ pc \in {"idle", "proc", "fd", "tables", "lines", "done"}
          /\ source \in 1..Len(Sources) + 1

(***************************************************************************)
(* No record names a stranger: the process of a record has had that socket *)
(* at some time during the call, whichever descriptors and identifiers     *)
(* were closed and used again between readdir, readlink and the tables.    *)
(***************************************************************************)
OwnersHeldIt ==
    \A r \in DOMAIN records \cup DOMAIN result.entries : r.pid # NoPid => <<r.socket, r.pid>> \in held

(* What a successful answer holds of table t. *)
Answered(t) == result.kind = "ok" /\ result.query \in {"all", t} /\ t \notin missing

(***************************************************************************)
(* "A shared socket produces one entry for every observable owning         *)
(* process": when nothing failed in the walk and the table did not change, *)
(* every visible process that kept a descriptor of the socket all along    *)
(* has exactly one record of it, whatever the other owners do.             *)
(***************************************************************************)
EveryOwnerOnce ==
    \A h \in steady :
        LET s == fd[h[1]][h[2]]
            r == Record(s, h[1])
        IN ~faulted /\ h[1] \in Visible /\ Answered(TableOf[s]) /\ TableOf[s] \notin changed =>
               /\ r \in DOMAIN result.entries /\ result.entries[r] = 1
               /\ Record(s, NoPid) \notin DOMAIN result.entries

(***************************************************************************)
(* No socket is dropped: every socket of a table that did not change is in *)
(* a successful answer, with an owner or without, even if no process could *)
(* be inspected; and only a kernel without any table is not_supported.     *)
(***************************************************************************)
TablesCovered ==
    /\ \A t \in Tables \ changed : Answered(t) =>
          \A s \in ToSet(table[t]) : \E r \in DOMAIN result.entries : r.socket = s
    /\ result.code = "not_supported" => missing = Tables
=============================================================================
