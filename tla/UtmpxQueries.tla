---------------------------- MODULE UtmpxQueries ----------------------------
(***************************************************************************)
(* The queries that walk the login database: sessions() of                 *)
(* detail/user/posix.hpp and boot_time() of detail/os/{solaris,hpux,aix}   *)
(* .hpp, called by any number of threads. setutxent, getutxent and         *)
(* endutxent share one cursor and one static record buffer per process;    *)
(* posix_utmpx::mutex() is all that keeps two walks apart. It does not     *)
(* keep the rest of the system apart: init, getty and sshd write the       *)
(* database with pututxline between any two records of a walk.             *)
(*                                                                         *)
(* A session list is kept as the number of times each record was added to  *)
(* it; its order is decided by the final std::sort.                        *)
(***************************************************************************)
EXTENDS Naturals

CONSTANTS
    Threads,
    NoThread,    \* the mutex is free
    Size,        \* bound: number of records the database can grow to
    Databases,   \* databases considered
    MaxWrites    \* bound: records written by other processes

(***************************************************************************)
(* "user"  a USER_PROCESS record;        "bad"   one that is not UTF-8;    *)
(* "anon"  one with an empty user name;  "boot"  BOOT_TIME, tv_sec > 0;    *)
(* "boot0" BOOT_TIME without a time;     "other" any other type.           *)
(***************************************************************************)
Kinds == {"user", "bad", "anon", "boot", "boot0", "other"}
Records == 1..Size

(* "none" stands in every place behind the last record of the database. *)
Slots == Kinds \cup {"none"}
Contiguous(d) == \A i, j \in Records : (i < j /\ d[j] # "none") => d[i] # "none"

ASSUME UtmpxAssumption ==
    /\ NoThread \notin Threads
    /\ Size \in Nat
    /\ MaxWrites \in Nat
    /\ Databases \subseteq [Records -> Slots]
    /\ \A d \in Databases : Contiguous(d)

VARIABLES
    db,       \* the login database
    writes,   \* records written so far
    mutex,    \* posix_utmpx::mutex(): its owner
    pos,      \* libc's cursor: records already returned
    buf,      \* libc's static record: its place, and what it held when read
    pc, op,   \* progress and query of each thread
    found,    \* sessions: how often each record was pushed
    result,   \* what each thread's query will return
    past      \* history: what each place has held since the thread's call

file == <<db, writes>>
shared == <<file, mutex, pos, buf>>
vars == <<db, writes, mutex, pos, buf, pc, op, found, result, past>>

NoResult == [kind |-> "none", code |-> "none", record |-> 0]
OkSessions == [kind |-> "ok", code |-> "none", record |-> 0]
OkBoot(i) == [kind |-> "ok", code |-> "none", record |-> i]
Fail(code) == [kind |-> "error", code |-> code, record |-> 0]

Nothing == [i \in Records |-> 0]
Unread == [place |-> 0, kind |-> "none"]
NoPast == [i \in Records |-> {}]

Init == /\ db \in Databases
        /\ writes = 0
        /\ mutex = NoThread
        /\ pos = 0
        /\ buf = Unread
        /\ pc = [t \in Threads |-> "idle"]
        /\ op = [t \in Threads |-> "none"]
        /\ found = [t \in Threads |-> Nothing]
        /\ result = [t \in Threads |-> NoResult]
        /\ past = [t \in Threads |-> NoPast]

Calling(t) == pc[t] \notin {"idle", "done"}

(***************************************************************************)
(* Another process logs a user in or out: pututxline overwrites a record   *)
(* or adds one behind the last. It knows nothing of this process's mutex.  *)
(***************************************************************************)
Write(i, k) ==
    /\ writes < MaxWrites
    /\ writes' = writes + 1
    /\ db' = [db EXCEPT ![i] = k]
    /\ db' \in Databases
    /\ past' = [t \in Threads |-> IF Calling(t) THEN [past[t] EXCEPT ![i] = @ \cup {k}]
                                 ELSE past[t]]
    /\ UNCHANGED <<mutex, pos, buf, pc, op, found, result>>

Goto(t, where) == pc' = [pc EXCEPT ![t] = where]

Call(t, o) == /\ pc[t] = "idle"
              /\ Goto(t, "lock")
              /\ op' = [op EXCEPT ![t] = o]
              /\ found' = [found EXCEPT ![t] = Nothing]
              /\ result' = [result EXCEPT ![t] = NoResult]
              /\ past' = [past EXCEPT ![t] = [i \in Records |-> {db[i]}]]
              /\ UNCHANGED shared

Mutant_unguarded(t) == /\ pc[t] = "lock"
                       /\ Goto(t, "set")
                       /\ UNCHANGED <<shared, op, found, result, past>>
(* std::lock_guard<std::mutex> lock(posix_utmpx::mutex()); *)
Lock(t) == /\ pc[t] = "lock"
           /\ mutex = NoThread
           /\ mutex' = t
           /\ Goto(t, "set")
           /\ UNCHANGED <<file, pos, buf, op, found, result, past>>

(* setutxent(): back to the first record. *)
Rewind(t) == /\ pc[t] = "set"
             /\ pos' = 0
             /\ Goto(t, "next")
             /\ UNCHANGED <<file, mutex, buf, op, found, result, past>>

Mutant_read_past_end(t) == /\ pc[t] = "next"
                           /\ pos <= Size
                           /\ pos' = pos + 1
                           /\ buf' = [place |-> pos + 1,
                                      kind |-> IF pos < Size THEN db[pos + 1] ELSE "none"]
                           /\ Goto(t, "parse")
                           /\ UNCHANGED <<file, mutex, op, found, result, past>>
(* getutxent(): the next record, as it stands now, in the static buffer. *)
NextRecord(t) == /\ pc[t] = "next"
                 /\ pos < Size
                 /\ db[pos + 1] # "none"
                 /\ pos' = pos + 1
                 /\ buf' = [place |-> pos + 1, kind |-> db[pos + 1]]
                 /\ Goto(t, "parse")
                 /\ UNCHANGED <<file, mutex, op, found, result, past>>

(* getutxent() returns a null pointer. *)
LastRecord(t) ==
    /\ pc[t] = "next"
    /\ pos < Size => db[pos + 1] = "none"
    /\ Goto(t, "end")
    /\ result' = [result EXCEPT ![t] = IF op[t] = "sessions" THEN OkSessions
                                       ELSE Fail("not_found")]
    /\ UNCHANGED <<shared, op, found, past>>

Mutant_skip_bad_text(t) ==
    /\ pc[t] = "parse" /\ op[t] = "sessions"
    /\ found' = [found EXCEPT ![t][buf.place] = @ + IF buf.kind = "user" THEN 1 ELSE 0]
    /\ Goto(t, "next")
    /\ UNCHANGED <<shared, op, result, past>>
(* parse_utmpx_entries: skip, push, or return at once on bad text. *)
ParseSession(t) ==
    /\ pc[t] = "parse" /\ op[t] = "sessions"
    /\ CASE buf.kind = "user" ->
              /\ found' = [found EXCEPT ![t][buf.place] = @ + 1]
              /\ Goto(t, "next") /\ UNCHANGED result
         [] buf.kind = "bad" ->
              /\ result' = [result EXCEPT ![t] = Fail("invalid_encoding")]
              /\ Goto(t, "end") /\ UNCHANGED found
         [] OTHER -> Goto(t, "next") /\ UNCHANGED <<found, result>>
    /\ UNCHANGED <<shared, op, past>>

Mutant_any_boot_record(t) ==
    /\ pc[t] = "parse" /\ op[t] = "boot_time"
    /\ IF buf.kind = "boot"
       THEN result' = [result EXCEPT ![t] = OkBoot(buf.place)]
       ELSE UNCHANGED result
    /\ Goto(t, "next")
    /\ UNCHANGED <<shared, op, found, past>>
(* boot_time: return at the first dated BOOT_TIME record. *)
ParseBoot(t) ==
    /\ pc[t] = "parse" /\ op[t] = "boot_time"
    /\ IF buf.kind = "boot"
       THEN /\ result' = [result EXCEPT ![t] = OkBoot(buf.place)]
            /\ Goto(t, "end")
       ELSE Goto(t, "next") /\ UNCHANGED result
    /\ UNCHANGED <<shared, op, found, past>>

(* ~utmpx_cleanup: endutxent(), before the lock goes. *)
EndWalk(t) == /\ pc[t] = "end"
              /\ pos' = 0
              /\ Goto(t, "unlock")
              /\ UNCHANGED <<file, mutex, buf, op, found, result, past>>

Mutant_no_unlock(t) == /\ pc[t] = "unlock"
                       /\ Goto(t, "done")
                       /\ IF result[t].kind = "ok" THEN mutex' = NoThread
                          ELSE UNCHANGED mutex
                       /\ UNCHANGED <<file, pos, buf, op, found, result, past>>
(* ~lock_guard *)
Unlock(t) == /\ pc[t] = "unlock"
             /\ mutex' = NoThread
             /\ Goto(t, "done")
             /\ UNCHANGED <<file, pos, buf, op, found, result, past>>

TakeResult(t) == /\ pc[t] = "done"
                 /\ Goto(t, "idle")
                 /\ op' = [op EXCEPT ![t] = "none"]
                 /\ found' = [found EXCEPT ![t] = Nothing]
                 /\ result' = [result EXCEPT ![t] = NoResult]
                 /\ past' = [past EXCEPT ![t] = NoPast]
                 /\ UNCHANGED shared

Walk(t) == \/ Rewind(t) \/ NextRecord(t) \/ LastRecord(t)
           \/ ParseSession(t) \/ ParseBoot(t)
           \/ EndWalk(t) \/ Unlock(t)

Next == \/ \E i \in Records, k \in Kinds : Write(i, k)
        \/ \E t \in Threads : \/ \E o \in {"sessions", "boot_time"} : Call(t, o)
                              \/ Lock(t) \/ Walk(t) \/ TakeResult(t)

Spec == Init /\ [][Next]_vars

(***************************************************************************)
(* A thread that holds the mutex is scheduled. std::mutex promises nothing *)
(* about which waiter gets it, so no waiter is assumed to be served.       *)
(***************************************************************************)
FairSpec == Spec /\ \A t \in Threads : WF_vars(Walk(t))

-----------------------------------------------------------------------------
PcStates == {"idle", "lock", "set", "next", "parse", "end", "unlock", "done"}
ResultType == [kind : {"none", "ok", "error"},
               code : {"none", "invalid_encoding", "not_found"},
               record : 0..Size]

TypeOK == /\ db \in Databases
          /\ writes \in 0..MaxWrites
          /\ mutex \in Threads \cup {NoThread}
          /\ pos \in 0..Size
          /\ buf \in [place : 0..Size, kind : Slots]
          /\ pc \in [Threads -> PcStates]
          /\ op \in [Threads -> {"none", "sessions", "boot_time"}]
          /\ found \in [Threads -> [Records -> Nat]]
          /\ result \in [Threads -> ResultType]
          /\ past \in [Threads -> [Records -> SUBSET Slots]]

(***************************************************************************)
(* A successful sessions() has pushed every login that stayed in the       *)
(* database for the whole call exactly once; what else it pushed, once     *)
(* each, was a login at some time during the call; and no record that is   *)
(* not UTF-8 was there throughout. Whatever walks other threads start or   *)
(* finish meanwhile, and whatever other processes write.                   *)
(***************************************************************************)
SessionsComplete ==
    \A t \in Threads :
        (pc[t] = "done" /\ op[t] = "sessions" /\ result[t].kind = "ok") =>
            \A i \in Records :
                /\ found[t][i] = 0 => past[t][i] # {"user"}
                /\ found[t][i] # 0 => found[t][i] = 1 /\ "user" \in past[t][i]
                /\ past[t][i] # {"bad"}

(***************************************************************************)
(* boot_time() answers from a dated boot record of the database, and no    *)
(* dated boot record stood before it throughout the call; it answers       *)
(* not_found only when none stood anywhere throughout the call.            *)
(***************************************************************************)
BootTimeIsFirst ==
    \A t \in Threads : (pc[t] = "done" /\ op[t] = "boot_time") =>
        \/ /\ result[t].kind = "ok"
           /\ result[t].record \in Records
           /\ "boot" \in past[t][result[t].record]
           /\ \A i \in Records : i < result[t].record => past[t][i] # {"boot"}
        \/ /\ result[t].kind = "error"
           /\ \A i \in Records : past[t][i] # {"boot"}

(***************************************************************************)
(* The mutex always becomes free again, also after the early return on     *)
(* text that is not UTF-8.                                                 *)
(***************************************************************************)
MutexReleased == \A t \in Threads : (mutex = t) ~> (mutex # t)

-----------------------------------------------------------------------------
(***************************************************************************)
(* The refinement mapping: a record counts from the getutxent that read    *)
(* it, so a call is decided as soon as the record that decides it is read; *)
(* the cursor is that of the thread that walks.                            *)
(***************************************************************************)
Decisive(t) == /\ pc[t] = "parse"
               /\ \/ op[t] = "sessions" /\ buf.kind = "bad"
                  \/ op[t] = "boot_time" /\ buf.kind = "boot"
Decided(t) == pc[t] \in {"end", "unlock", "done"} \/ Decisive(t)
Phase(t) == CASE pc[t] = "idle" -> "idle"
              [] Decided(t)     -> "done"
              [] OTHER          -> "busy"
At(t) == IF pc[t] \in {"next", "parse"} /\ ~ Decisive(t) THEN pos ELSE 0
Verdict(t) == IF op[t] = "sessions" THEN Fail("invalid_encoding") ELSE OkBoot(buf.place)
Outcome(t) == IF Decisive(t) THEN Verdict(t) ELSE result[t]
Pushing(t) == pc[t] = "parse" /\ op[t] = "sessions" /\ buf.kind = "user"
Listed(t) == IF Outcome(t).kind = "error" THEN Nothing
             ELSE IF Pushing(t) THEN [found[t] EXCEPT ![buf.place] = @ + 1]
             ELSE found[t]

Promise == INSTANCE LoginQueries WITH phase   <- [t \in Threads |-> Phase(t)],
                                      query   <- op,
                                      at      <- [t \in Threads |-> At(t)],
                                      list    <- [t \in Threads |-> Listed(t)],
                                      outcome <- [t \in Threads |-> Outcome(t)]

(***************************************************************************)
(* Every call of sessions() and boot_time() is a walk of its own, as       *)
(* LoginQueries describes: each record once and in order, judged as it     *)
(* stood when its turn came, however other processes write in between.     *)
(* Neither the shared cursor nor the static record of getutxent shows      *)
(* through, on the paths that return early as little as on the others.     *)
(***************************************************************************)
WalksAlone == Promise!Spec
=============================================================================
