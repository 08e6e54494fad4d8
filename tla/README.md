# Syscape: a TLA+ verification project

Syscape is a header-only C++17 library of *queries*: functions that ask the
operating system something (which processes run, which routes exist, who is
logged in, which updates are pending) and return `result<T>`, a value or an
error code. The library keeps no state of its own between calls. What makes it
hard is the other side: the kernel's tables, the login database, the files and
the child processes that a query reads **change while the query is reading
them**, other threads of the host program run queries at the same time, and
every single system call may fail. This project models the queries that take
more than one step against such a moving target, and checks or proves what
their answers mean nevertheless.

Paths below are relative to the repository; `detail/` is
`include/syscape/detail/`.

## 1. Inventory

### The parts that have behaviour

| Part | State it works on | Operations | What is hard | What makes it correct |
|---|---|---|---|---|
| `process_list` (`detail/process_list/linux.hpp`, `common.hpp`) | the stream of `/proc`, the files and links of one process, the list so far | `processes`, `process_count`, `find_process`, `find_processes_by_name` | processes start, exit, are reaped and their numbers reused between any two system calls; a file is refused | a process that stays is listed; an entry is not put together from strangers; `not_found` is true; one bad process does not fail the list; the call returns |
| `resource` counts (`detail/resource/linux.hpp`) | the same `/proc`, `visited`, `total_threads`, `overflowed` | `process_count`, `thread_count` | the same races with a *different* policy on which errors to skip; `uint64` overflow; `readdir` errors | a total covers every process that stayed; the count lies between the stayers and the seen; no wrapping |
| `software` command runner (`detail/software/linux.hpp`) | a pipe, a child process, collected output | `run_checkupdates`, called by `system_updates` | descriptors belong to the process, not the thread; children inherit them; full pipes; `SIGPIPE`; `SIGCHLD` ignored by the host | nothing is leaked on any path; success means the whole output; the call returns |
| `network` routes (`detail/network/routes_linux.hpp`) | a netlink socket, `linux_route_dump_state` | `routes` | the table changes under the kernel's cursor; strangers' and truncated datagrams; aborted dumps | success is a snapshot; no spurious failure; the dump ends |
| utmpx walks (`detail/user/posix.hpp`, `detail/os/{solaris,aix,hpux,hurd}.hpp`, `detail/posix/utmpx.hpp`) | libc's process-wide cursor and static record, the one mutex | `sessions`, `boot_time` | two modules share one cursor; early returns in the middle of a walk; other processes write the database during it | every login that stays exactly once; first boot record; the mutex is released; no walk shows in another |
| buffer growth (`detail/posix/passwd.hpp`, `detail/user/posix.hpp`, `detail/process_list/linux.hpp`, `detail/software/linux.hpp`, `detail/filesystem/macos.hpp`, `detail/resource/macos.hpp`) | a buffer whose size is guessed, the number of attempts | `lookup_with_growth`, `collect_supplementary_groups`, `lookup_login_with_growth`, `read_symlink_path`, `get_user_home_dir`, `mounts`, `process_count` | the value changes between attempts; `readlink` and `getfsstat` truncate silently; the last step before the cap on size or attempts | no truncation; no early surrender; an end |
| text files (`detail/linux/file.hpp`) | offset, output so far | `read_text_file` | short reads, exactly the limit, a file that changes | whole or refused; nothing dropped |
| pending updates (`detail/software/linux.hpp`) | the merged list, `any_source_found`, `last_error` | `system_updates` | four kinds of source of which any may be missing, fail, or be rewritten while the others are read | no report is lost without an error; `not_supported` only if there is no source |
| `connection` (`detail/connection/linux.hpp`, `connection.hpp`) | the map from socket inodes to processes, four kernel tables, the records so far | `connections`, `tcp_connections`, `udp_endpoints`, `listening_endpoints`, `find_connections_by_process` | the map is built before the tables are read; sockets are shared, passed on, closed; identifiers are reused; processes cannot be inspected | no record names a stranger; a lasting owner has exactly one record; no socket is dropped |
| `printer` (`detail/printer/linux.hpp`, `common.hpp`) | a connection to the CUPS daemon, the snapshot under construction | `printers`, `printer_count`, `default_printer`, `find_printer` | two requests on two connections; a daemon that hangs, crashes, restarts; a saved configuration that is out of date | nothing in an answer is made up; an undisturbed answer is exact; a default that changes is reported |

Interaction is by plain calls: the two `/proc` walks use `read_text_file` and
`read_symlink_path`; `process_list` also uses a passwd lookup per entry;
`system_updates` uses `read_text_file` and `run_checkupdates`; `sessions` and
`boot_time` meet only in `posix_utmpx::mutex()`; concurrent calls of
`system_updates` meet only through the host process's descriptor table. There are no callbacks, no background threads and no persistence.

### The parts that have none

The other domains (audio, bluetooth, camera, cpu, display, gpu, hardware,
input, locale, memory, power, security, sensor, storage, virtualization, ...)
are one-shot reads followed by parsing; the compile-time headers do nothing at
run time; `result.hpp` and `error.hpp` are value types; the backends of some
fifty other operating systems repeat the same domains. `PROJECT.json` lists
each of them with the reason it has no module. By lines they are nearly all of
the repository: it holds some 1600 implementation files, about fifty platform
variants of each of thirty domains, and almost every one of them is a chain of
one-shot reads and parsers that no other step can interleave with. A model of
such code would be the code again, letter by letter, so this project covers a
small share of the lines and aims at the part of them in which an order of
steps can go wrong.

## 2. Modules

| Module | Models | Run by | Proofs |
|---|---|---|---|
| `ProcFs` | the kernel's side of a `/proc` walk (external) | through the next two | lemmas in the two proof modules below |
| `ProcessList` | `detail/process_list/linux.hpp` on top of `ProcFs` | `MCProcessList` | `ProcessListProofs` |
| `ResourceWalk` | `walk_processes` and the two counts on top of `ProcFs` | `MCResourceWalk` | `ResourceWalkProofs` |
| `CommandRunner` | `run_checkupdates` for any number of threads, and the children | itself | `CommandRunnerProofs` |
| `RouteDump` | `routes()` and the kernel's dump | `MCSocketQueries`, `MCRouteDump` | `SocketQueriesProofs` |
| `LoginQueries` | what `sessions()` and `boot_time()` promise: every call a walk of its own | refined by the next one | refinement in `UtmpxQueriesProofs` |
| `UtmpxQueries` | `sessions()` and `boot_time()` for any number of threads, and the writers of the database | `MCUtmpxQueries` | `UtmpxQueriesProofs` |
| `BufferGrowth` | the seven growth loops | `MCBufferGrowth` | `BufferGrowthProofs` |
| `TextFile` | `read_text_file` | through the next one | `SystemUpdatesProofs` |
| `SystemUpdates` | `system_updates()`, composed with `TextFile` | `MCSystemUpdates` | `SystemUpdatesProofs` |
| `Connections` | `detail/connection/linux.hpp` and the filters of `connection.hpp` | `MCConnections` | `ConnectionsProofs` |
| `PrinterSnapshot` | `detail/printer/linux.hpp` and the CUPS daemon | `MCSocketQueries`, `MCPrinterSnapshot` | `SocketQueriesProofs` |

Conventions. One action is one system call together with everything the code
does until the next one. A query's `pc` says which call comes next, `result`
is the `result<T>` it returns (`"none"`, `"ok"` or `"error"` with a code), and
`TakeResult` hands it to the caller, releases what destructors release and
forgets everything, so that any sequence of calls is explored. Variables marked
*history* do not exist in the code; they record what a property needs.
Operators called `Mutant_...` are not part of the model: each is a plausible
mistake in the definition that follows it, and `PROJECT.json` names the
property that must fail when it is put in that definition's place.

### ProcFs
A process identifier is owned by successive *incarnations*. `Spawn`, `Exit`
(alive to zombie) and `Reap` may happen between any two steps of a query.
`Stable` is the set of identifiers owned by one process ever since the query
began, `Sighted` those owned by anybody since. A directory stream yields every
stable name once and may or may not yield the others (`DirectoryMayYield`,
`DirectoryMayEnd`). `OpenOutcomes` and `ReadOutcomes` give the errors: `ENOENT`
for a missing directory, `EACCES` under a policy, `EPERM` under `hidepid=1`,
`ESRCH` or an empty file when the process behind an open handle is gone.

### ProcessList
`Enumerate`, `FindProcess`, `ReadDirName/End/Error`, `OpenFile`, `ReadStat`,
`ReadStatus`, `ReadCmdline`, `ReadExe`, `ReadCwd` are the calls of
`processes()` and `query_single_process()` in the code's order. An entry is
reduced to *where each group of fields came from*: the pair (pid, incarnation)
whose file supplied it, or nothing. `user_name` follows from the uid in
`status` and shares its group. `FileFailed`, `SingleFailed` and
`skippable_process_error` are the error policy. `sort_processes` and the filter
by name are arrangements (`Arranged`): the n-th element is the one with n - 1
elements before it in the order, which is what sorting and filtering deliver
and can be reasoned about without induction. Left out: `sysconf` and the
boot time (constants that scale numbers) and `process_count`'s 32-bit check
(beyond the kernel's largest `pid_max`).

### ResourceWalk
`walk_processes` with both visitors. `read` (history) is the set of records
that went into the sum, `ThreadsIn(read)` their threads, as a set whose
cardinality is what the total must be. `AddThreads` keeps the code's overflow test with
`CountMax` for the maximum of `uint64`; `validate_positive_count` is the public
wrapper's check.

### CommandRunner
Bytes are units. `rd[c]` and `wr[c]` are the holders of the two ends of caller
`c`'s pipe: `Library` (the host process) or a child. `Spawn` gives the child
its own write end and, because `pipe()` is called without `O_CLOEXEC`, every
other end open in the process at that moment. `CloseWriteEnd`, `Read`,
`ReadEnd`, `ReadFails`, `WaitAfterError`, `WaitChild` follow the function.
Closing two descriptors in a row is one step, except where a child can be
spawned in between and the difference matters (the write end is closed in a
step of its own). The child (external) writes, ends, fails, or dies of a pipe
without readers. `Endings` says whether it stays a zombie or, in a host that
ignores `SIGCHLD`, is gone at once; with both values the host may change its
mind at any time.

### RouteDump
The kernel (external) walks its table by position, queues up to `QueueMax`
datagrams of up to `Batch` messages, and marks messages with `NLM_F_DUMP_INTR`
once the table has changed. That mark is what the code relies on; that the
kernel sets it is an assumption of this module, not a result. `Receive`,
`ParseMessage` and `DatagramEnd` are the two loops, `MessageError` and
`RouteError` the decisions of `parse_linux_route_datagram` and
`append_linux_route_message`, `Expand` the one record per next hop. An
`NLMSG_ERROR` with error 0 is left out: the request does not ask for an
acknowledgement. The module shares its proof module with `PrinterSnapshot`, so
its names are its own: `DumpSpec`, `DumpNext`, `DumpTypeOK`, `phase` for `pc`,
`answer` for `result`, `TakeAnswer` for `TakeResult`.

### UtmpxQueries
`pos` and `buf` are libc's cursor and static record, shared by all threads;
`mutex` is its owner. `Lock`, `Rewind`, `NextRecord` or `LastRecord`,
`ParseSession` or `ParseBoot`, `EndWalk`, `Unlock` are the statements and, in
this order, the destructors. A session list is the number of times each record
was pushed (its order is that of the final `std::sort`). Hurd's fallback to
`/proc/uptime` after the walk is left out.

The database belongs to the whole system, and the mutex only to this process:
`Write` (external) is `pututxline` of init, getty or sshd, which overwrites a
record or adds one behind the last between any two steps of a walk. `past`
(history) is what each place has held since a thread's call began. What a walk
can be held to is therefore said of records that *stayed*: a login that was
there throughout is listed once, what else is listed was a login at some time
during the call. Assumed of libc: one record is read and written whole, and
nobody truncates the file during a walk. A failing read inside `getutxent()` is
left out; the code could not tell it from the end.

`LoginQueries` is the abstract specification: every call has a cursor of its
own, reads and judges one record per step, and is answered by the record that
decides it or by the end. It is *no* snapshot, and the code promises none: the
database changes between two records here as well. What it leaves out is the
other threads. The refinement mapping (`Phase`, `At`, `Listed`, `Outcome`,
`Promise` at the end of `UtmpxQueries`) hides the mutex, the shared cursor and
the static record: a record counts from the `getutxent` that read it, although
the code judges it a step later, when it may have been overwritten in the
database and would be overwritten in the buffer if another thread could read.
`WalksAlone` says that every behaviour of the threads and writers is one of
`LoginQueries`.

### BufferGrowth, TextFile
Values and files are their lengths, and may change (`Change`) between any two
attempts or reads. `BufferGrowth` has one action per interface because they
fail differently: `getpwuid_r`, `getgroups`, `getlogin_r` and `sysctl` refuse a
small buffer, `readlink` and `getfsstat` fill it. Three loops count their
attempts (`Again`): `LookupHome` only doubles, `SizeMounts`/`FillMounts` and
`SizeProcs`/`FillProcs` first ask for the size; `FillProcs` leaves open whether
the kernel's new estimate is all that is needed, what did not suffice, or
nothing. `EINTR` repeats a call and is a stuttering step in both modules, as in
the others.

### SystemUpdates
Extends `TextFile`: `ReadFile` is a step of `read_text_file()` for the k-th
path, `MergeFile` what `system_updates()` does with its result. A file's length
is its number of lines, and line *i* of a file always names the same update, so
rewriting a file is changing its length. Package managers (`Write`, `Remove`,
`Indicate`, external) act between any two steps; a change to the very file
being read is `TextFile`'s `Change`. `kept` (history) is what each file has had
throughout the call. `checkupdates` is one step here; how it is run is
`CommandRunner`. Before it is run the code asks `access()` twice and takes any
failure, `EACCES` as well as `ENOENT`, for its absence: `pending` is `Hidden`
when there is such a source but the caller may not see it, and `Runnable` is
the code's test. `Remember` is the bookkeeping of `last_error`.

### Connections
`fd` is the descriptor table of each process, `table` the kernel's socket
tables as sequences of lines. Other processes (external) open, share, pass on
and close sockets, fork and exit; a socket without owner may stay in its table
for a while. `NextPid`, `NextFd`, `EndOfFds`, `EndOfProc` are
`build_inode_pid_map`, one system call each; `OpenTable`, `NextLine`,
`EndOfTable` are `read_proc_net_file`; `RecordsFor` is the join. A directory
must yield what was there all along (`steady`, `lasting`) and may yield what was
not. `readdir()` is called without a look at `errno`, so a failing stream is
its end: `faulted` (history) remembers that. The `tcp6` and `udp6` tables are
read like the others and are not told apart. A table is read at positions of
what it is *now*, so a line may be missed or met twice when it changes, as in
procfs; `Relisted` says that a change keeps the order of the lines that stay.
Inodes are not reused within a call (a 64-bit or 32-bit counter that
would have to wrap).

### PrinterSnapshot
`cups`, `listening`, `conf` and `usb` are the system around the call, changed by
`Administer`, `Save`, `Stop`, `Start` and `Plug` (external); a stopped daemon
loses what it has not saved. `Connect`, `Send`, `Recv`, `Received`, `Broken` and
`Timeout` are `query_cups_socket`, used once for the list and once more for the
default; `SocketFails` is what `query_printer_snapshot` makes of its failures.
`ReadConf` is the fallback, `Merged` the USB devices, `Complete` the marking of
the default and the four queries. A response is a number of received chunks
around the limit, its content the daemon's state when it answers. Its status
is success (with an empty list or without a default, too), one of the refusals
that a server or the parsers produce, or `not_found`. Codes that take the same
path through `SocketFails` and `Received` (`io_error`, `invalid_encoding`) are
not told apart from `malformed_data`.

## 3. Runs

Passing runs:

| Run | Question | Bounds and why they suffice |
|---|---|---|
| `ProcessList` | `TypeOK`, `Complete`, `EntriesAttributed`, `AnswersAgree`, `NotFoundIsTrue`, `EnumerationSurvives`, `EveryCallAdvances` | 2 identifiers, 2 incarnations each: one process is read while the other comes, goes or is replaced; the four owners are readable, without links, refused and unparsable, one has a name that is not UTF-8; all faults. 2.7 million states |
| `ResourceWalk` | `TypeOK`, `TotalCoversEveryProcess`, `TotalIsExact`, `ProcessCountBracketed` | 3 identifiers, 2 incarnations, a counter that three processes overflow, all faults. 3.9 million states |
| `CommandRunner` | `TypeOK`, `NothingLeftBehind`, `SuccessIsWhole`, `ReturnsUnlessTwoGiveUp` | 2 callers (enough for every leak of a descriptor into another's child), a pipe of one unit, outputs of nothing, the limit, one unit more, and more than limit and pipe together, all faults, `SIGCHLD` ignored or not |
| `SocketQueries` | `TypeOK`, `AnswerWasTrue`, `QuietAnswerIsExact` of `PrinterSnapshot`; `DumpTypeOK`, `SuccessIsSnapshot`, `UndisturbedSucceeds`, `DumpEnds` of `RouteDump` | printers: 2 queues, one of which prints on the one USB device, 2 socket paths, responses below and above the limit, 2 changes: a queue is added and made the default between the two requests, a daemon changes or crashes and comes back with what it had saved. Routes: tables of up to 2 of 5 kinds of route, 2 changes at any position, 2 datagrams of up to 2 messages: a change before, at and behind the cursor, and a removal made good by an insertion; strangers, truncation, kernel errors. The two share no state, so a behaviour asks for one or the other. 2.1 million states |
| `UtmpxQueries` | `TypeOK`, `SessionsComplete`, `BootTimeIsFirst`, `MutexReleased`, `WalksAlone` | 2 threads (one to disturb the other's cursor, record and mutex), databases of up to 3 records, the kinds that are passed over in one place each, one write by another process at any moment and in any place: before, at and behind the cursor, and behind the last record. 0.9 million states |
| `BufferGrowth` | `TypeOK`, `NeverTruncated`, `GivesUpOnlyAtMaximum`, `GivesUpOnlyIfOutgrown`, `LoopEnds` | a maximum that doubling does not hit; 3 attempts (enough for a first, a middle and a last one); 3 changes, so the value can outgrow every attempt; lengths on both sides of every buffer size |
| `SystemUpdates` | `UTypeOK`, `WholeOrRefused`, `NothingDropped`, `NothingLost` | 2 files behind 3 paths (`/run` and `/var/run` lead to the same one), up to one line more than the limit, every split into reads, 2 changes: one file is rewritten while it or another is read; checkupdates missing, hidden or runnable; all faults. 2.6 million states |
| `Connections` | `TypeOK`, `OwnersHeldIt`, `EveryOwnerOnce`, `TablesCovered` | 2 processes with 2 descriptors each, 2 sockets, one in each of 2 tables, 2 moves of the others in a call: a socket is passed on and closed, or a process exits and its identifier is taken over, at any point; missing and failing tables, failing directories. The processes are symmetric |

`EveryCallAdvances` is how "every process_list call returns" is stated: a
distance to the end of the call that every step of the query decreases and no
step of the kernel can increase, so the number of system calls is bounded.
That some step is always possible follows from the absence of deadlock, since
the kernel's own steps are bounded. `ReturnsUnlessTwoGiveUp` grants one
exception, the situation of `CommandRunnerStuck` below. It is a little wider
than that deadlock: it is granted as soon as two callers have given up on their
commands at the same moment, whether or not they then block each other.

In all of them deadlock is checked: no model may stop, because a caller can
always take its result and call again.

Runs whose violation documents a disagreement between the code and what the
repository says of it:

| Run | Property | What TLC shows |
|---|---|---|
| `ProcessListHidepid` | `RestrictedDoNotFail` | with `hidepid=1` the name is listed and `open()` fails with `EPERM`; only `EACCES` is skippable, so the enumeration fails. `process_list.hpp`: "rather than failing the enumeration" |
| `CommandRunnerStuck` | `CallsReturn` | two threads whose commands both write too much: each closes its read end and waits for its child, but each child inherited the other's read end, so neither gets `SIGPIPE` and both calls wait for ever. `docs/api/README.md`: "safe to call concurrently from multiple threads" |
| `RouteDumpAborted` | `UnfinishedDumpFails` | the kernel ends a dump with an errno in `NLMSG_DONE`; the code does not look at it and returns the part it has as a snapshot |
| `PrinterDefaultMoves` | `DefaultChangeReported` | the list is fetched, a new queue is created and made the default, the second request names it, and since it is not in the list `default_printer()` answers `not_found`, although there was a default all the time. `printer.hpp:330-332`: "not_found if no default printer is configured", "temporarily_unavailable if the default changes during the query" |

`EnumerationSurvives` states exactly what is left of the first: `EPERM`, and
`ESRCH` of a process that really went away, are the only reasons an enumeration
fails while there are descriptors.

Met while modelling, admitted by the properties and not given a run:

* a process that exits between `open()` and `read()` of its stat file yields
  `ESRCH`; `find_process()` returns it although `process_list.hpp:329` says
  "not_found if the process does not exist or has exited", and `thread_count()`
  fails with it although `resource.hpp:323` calls such exits expected races;
* if the new default is in the list, the change goes unreported as well: the
  answer is a printer that was the default at some time during the call, which
  is all that `AnswerWasTrue` says. The sentence of `printer.hpp:332` quoted
  above, and `printer.hpp:313-314` on `printers()` ("temporarily_unavailable
  for a changing or timed-out snapshot"), promise more than the Linux backend
  does: it never compares its two requests, and returns that code only when a
  request times out or the second one finds no daemon. The Windows backend does
  compare list and default (`detail/printer/windows.hpp:383-388`);
* an entry of `process_list` may mix the fields of two owners of a reused
  identifier; `EntriesAttributed` bounds this (every group is of some owner
  during the call, later groups of no earlier one) and does not exclude it;
* `access()` refused for want of permission makes `system_updates()` take the
  Arch source for absent, although `software.hpp:505-507` says that backends
  "preserve permission [...] errors"; `NothingLost` says nothing of what a
  hidden source would have reported;
* `connection.hpp:331` names `temporarily_unavailable` "for an unstable
  snapshot", which the Linux backend never returns: a table that changes while
  it is read is returned as it was met, and a header line that cannot be read
  is `malformed_data` whatever the cause.

### Fairness
Safety properties use none. `BufferGrowth`: the calling thread is scheduled
(weak fairness of the loop's own steps); whoever edits the value owes nothing.
`CommandRunner`: each caller's enabled step is taken, and a child that can
write, has finished or has lost its reader goes on; a child that is blocked
stays blocked. `RouteDump`: the kernel produces the dump it was asked for and
the caller is scheduled (`HostSpec` of `MCSocketQueries` repeats this and asks
nothing of the printer queries). `UtmpxQueries`: a thread that holds the mutex is
scheduled. `std::mutex` does not promise that a waiter is ever served, so "every
`sessions()` returns" is deliberately not claimed; the claim is that the owner
always lets go.

## 4. Proofs

All theorems hold for every value of the constants allowed by the modules'
`ASSUME`s (which TLC evaluates in every run). Each proof module has a theorem
`Invariance` for an inductive invariant, from which the others follow
(`SocketQueriesProofs` has two, one for each of its components).

* **CommandRunnerProofs**: `TypeCorrect`, `Clean` (`NothingLeftBehind`), `Whole`
  (`SuccessIsWhole`), for any number of callers. `SuccessIsWhole` is not
  inductive: that `got` is all there was follows only because the reader saw
  end-of-file, which needs `wr[c] = {}`, which needs that a running child holds
  its own write end whatever else it inherited. `EndsInv` says who may hold
  which end at which point of the call, `ChildInv` ties a child's state to its
  caller's, `OutputInv` is the conservation of output (got + in the pipe + left
  = total until something is discarded), `ExitInv` what each exit status says
  about the output, `ResultInv` what has been decided once the caller waits.
* **UtmpxQueriesProofs**: `TypeCorrect`, `Complete` (`SessionsComplete`),
  `FirstBoot` (`BootTimeIsFirst`), `OwnWalk` (`WalksAlone`), for any number of
  threads, any database and any number of writes. The argument is ownership:
  `OwnerInv` (a thread inside the walk is the mutex's owner) makes every other
  thread's step leave `pos` and `buf` alone, and what is left to disturb a walk
  is `Write`. `PastInv` (what the database holds is in the `past` of every
  open call, which only grows) makes `WalkInv` stable under it: what was pushed
  of the places before the cursor was a login at some time, and what was passed
  over was something else at some time. `OwnWalk` is the refinement: the
  `getutxent` that reads a record is the step of `LoginQueries` that judges it,
  `Write` is `Write`, and locking, rewinding, parsing and unlocking stutter,
  because a parser finds in the static record what the owner put there.
* **ResourceWalkProofs**: `TypeCorrect`, `Covers` (`TotalCoversEveryProcess`),
  `Bracketed` (`ProcessCountBracketed`), for any finite set of identifiers and
  any number of incarnations. Needed besides the types: `StartInv`
  (incarnations only grow during a call), `CurInv` (the entry in hand is one
  that was returned), `WalkInv` (every returned name that is still stable was
  read; `visited` is the number of names returned), `AnswerInv` (what the
  answer preserves after the walk, while processes go on leaving). Two kernel
  lemmas say that `Stable` only shrinks and `Sighted` only grows.
  `Exact` (`TotalIsExact`) adds `RecordsInv` (every record is of a process that
  lived during the call and whose name was returned; none of the entry in hand
  yet, so none twice) and `SumInv` (unless it would have overflowed, `total` is
  the cardinality of `ThreadsIn(read)`; if it would, that cardinality already
  exceeds the counter). One more record adds a disjoint set of threads, so the
  sum over a set needs no recursion.
* **ProcessListProofs**: `TypeCorrect`, `Completeness` (`Complete`),
  `Attribution` (`EntriesAttributed`), `Agreement` (`AnswersAgree`), `NotFound`
  (`NotFoundIsTrue`), `Survives` (`EnumerationSurvives`) and the action property
  `Advances` (`EveryCallAdvances`), for any finite set of identifiers, any number
  of incarnations, any names and access rights. Needed: `StartInv` as above;
  `EntryInv` (the groups read so far of the entry in hand are attributed, and
  the open file belongs to an owner no earlier than theirs), `ListInv` (every
  entry is attributed, and no identifier is listed twice because none is
  returned twice), `WalkInv` (a returned name that is still stable and readable
  is in the list or in hand) and `DoneInv` (what each error code says about its
  cause). Two lemmas about `Arranged` carry `Agreement`: in a strict total order
  on a finite set ranks are distinct and fill 1..n, so every element has exactly
  one place, and the sequence ascends. `Advances` bounds the system calls of a
  query by 12 per identifier: a name is never returned twice, and within one
  process the order of the files is fixed.
* **BufferGrowthProofs**: `TypeCorrect`, `Whole` (`NeverTruncated`), `GivesUp`
  (`GivesUpOnlyAtMaximum`), `Outgrown` (`GivesUpOnlyIfOutgrown`), for every
  initial and maximum size and every number of attempts, with lemmas on `Grown`
  and on what a failed attempt leaves true. `Outgrown` needs `GrowthInv`: n
  failed attempts have made the buffer at least n larger than the first one,
  where the loop doubles exactly 2^n times as large, and as long as the table
  has not changed since it was sized it fits. That 2^(n+1) is twice 2^n is
  derived from the number of subsets of a finite set, since the prover knows
  nothing of powers.
* **SystemUpdatesProofs**: first the reader on its own, `TypeCorrect`, `Whole`
  (`WholeOrRefused`), `Kept` (`NothingDropped`), for every chunk size and limit.
  `ReaderRefined` shows that the composition implements it: every step of
  `system_updates()` and of the package managers is a step of `TextFile` or
  leaves its variables alone, so these results hold inside the composition.
  `NoReportLost` (`NothingLost`) and `UTypeCorrect` follow from an invariant
  that says of every path already passed that its lines are merged as far as the
  file has had them throughout, or that an error is remembered (`Covered`); for
  the file in hand, that what the reader has collected covers `kept`.
* **ConnectionsProofs**: `TypeCorrect`, `NoStranger` (`OwnersHeldIt`),
  `OwnedOnce` (`EveryOwnerOnce`), `Covered` (`TablesCovered`), for any number of
  processes, descriptors, sockets and tables. `HeldInv`: whatever the map or a
  record says was true when it was written, and `held` only grows. `WalkInv`: a
  steady descriptor of a visible process that the walk has passed is in the map,
  unless something failed. `RecordsInv`: at line n of an unchanged table, every
  socket of the lines before has a record, every process that kept it all along
  exactly one, and no socket of the lines to come has any. The lemma for the other processes' steps (`MoveInv`)
  is that whatever they change is no longer steady or its table is marked
  changed; one lemma per kind of step says so.
* **SocketQueriesProofs**, on `PrinterSnapshot`: `TypeCorrect`, `WasTrue` (`AnswerWasTrue`),
  `QuietIsExact` (`QuietAnswerIsExact`), for any queues, devices, socket paths
  and number of changes. `SocketInv` says what is in flight on the connection,
  `SeenInv` that everything the call has in hand (reply, list, default) was seen,
  `ConfInv` that the saved configuration is read only if it was in force at some
  time (every path was refused, though the daemon may have moved to one of them
  meanwhile: then it was down in between), `QuietInv` what each intermediate result is worth while nothing
  has changed.
* **SocketQueriesProofs**, on `RouteDump`: `DumpTypeCorrect`, `SnapshotTaken`
  (`SuccessIsSnapshot`), `NoSpuriousFailure` (`UndisturbedSucceeds`), for tables
  of any length, any number of changes, any size of a datagram and any length of
  the queue, from the invariant of `DumpInvariance`. Neither property says
  anything before the answer is there; what must be true before is `StreamInv`:
  as long as the kernel has not given up, the messages parsed, those of the
  datagram in hand and those in the queue, strangers' datagrams aside, are
  consecutive messages of one dump, and each is marked or is the one that an
  undisturbed dump of `snap` has at that position. The positions are not in the
  state; the invariant says that some exist (`at`). Once a marked message is in
  the stream, what follows it need not be anything, because the parser will
  stop there; until then the parser's `routes` is the concatenation of the
  records of the first entries of `snap`. `CauseInv` is the converse: a mark or
  an unacceptable datagram has a cause, so without one there is no error.

  `SuccessIsSnapshot` compares with `FlattenSeq` of a table of any length, which
  is a recursive function. That such a function exists and satisfies its
  equation (`JoinedEquation`) is an induction, and the library's induction
  theorems cannot be used here; it is done with the choice of a least
  counterexample instead (`Least`, from the well-foundedness of < on the
  naturals). `UptoNext` and `UptoAll` are what the invariant needs of it.

Only model-checked: the liveness properties `LoopEnds`,
`ReturnsUnlessTwoGiveUp`, `DumpEnds` and `MutexReleased`; fairness and `ENABLED`
are out of the prover's reach. Every invariant and every action property that
a passing run checks, and the refinement, is also a theorem.

## 5. Plan

Done: the components of section 2, in the order of how much can go wrong in
them, and proofs of all their safety properties. Next, most important first:

1. Pure algorithms against reference definitions: tick and page arithmetic
   (`detail/linux/process_metrics.hpp`), UTF-8 conversion (`detail/utf8.hpp`),
   CPU lists (`detail/numa/linux.hpp`).
2. The temporary-directory probe of `detail/environment/wasi.hpp`; the file
   actions of `run_checkupdates` when the pipe itself is descriptor 1.

Not planned: the parsers and single reads of the remaining domains and
platforms (see section 1), and callers of `getutxent` outside the library,
which its mutex cannot reach.

## 6. Running

    tlc -workers 2 -config <Run>.cfg <module of the run>
    tlapm <Module>Proofs.tla        (RouteDump and PrinterSnapshot: SocketQueriesProofs.tla)
