---------------------------- MODULE LoginQueries ----------------------------
(***************************************************************************)
(* What sessions() and boot_time() promise their callers: each call walks  *)
(* the login database with a cursor of its own, one record after the       *)
(* other, and judges each as it stands at that moment. It is no snapshot:  *)
(* other processes write between any two records. But no other thread of   *)
(* the process is in the way, and reading a record and judging it is one   *)
(* step. UtmpxQueries, with one cursor, one static record and a mutex for  *)
(* all threads, is shown to implement this.                                *)
(***************************************************************************)
EXTENDS Naturals

CONSTANTS
    Threads,
    Size,        \* number of records the database can grow to
    Databases,   \* databases considered; "none" behind the last record
    MaxWrites    \* records written by other processes

Records == 1..Size

VARIABLES
    db,       \* the login database
    writes,   \* records written so far
    phase,    \* "idle", "busy" or "done", for each thread
    query,    \* its query
    at,       \* records it has judged
    list,     \* sessions it has listed: how often each record
    outcome   \* what it was answered

vars == <<db, writes, phase, query, at, list, outcome>>

NoSessions == [i \in Records |-> 0]
Result(kind, code, record) == [kind |-> kind, code |-> code, record |-> record]
NoResult == Result("none", "none", 0)

Init == /\ db \in Databases
        /\ writes = 0
        /\ phase = [t \in Threads |-> "idle"]
        /\ query = [t \in Threads |-> "none"]
        /\ at = [t \in Threads |-> 0]
        /\ list = [t \in Threads |-> NoSessions]
        /\ outcome = [t \in Threads |-> NoResult]

(* Another process writes a record. *)
Write(i, k) == /\ writes < MaxWrites
               /\ writes' = writes + 1
               /\ db' = [db EXCEPT ![i] = k]
               /\ db' \in Databases
               /\ UNCHANGED <<phase, query, at, list, outcome>>

Begin(t, q) == /\ phase[t] = "idle"
               /\ phase' = [phase EXCEPT ![t] = "busy"]
               /\ query' = [query EXCEPT ![t] = q]
               /\ UNCHANGED <<db, writes, at, list, outcome>>

AtEnd(t) == at[t] < Size => db[at[t] + 1] = "none"
Here(t) == db[at[t] + 1]

(* The call is over, with the sessions l. *)
Reply(t, r, l) == /\ phase' = [phase EXCEPT ![t] = "done"]
                  /\ at' = [at EXCEPT ![t] = 0]
                  /\ list' = [list EXCEPT ![t] = l]
                  /\ outcome' = [outcome EXCEPT ![t] = r]
                  /\ UNCHANGED <<db, writes, query>>

(* A record that does not decide the call: a login is listed. *)
Pass(t) ==
    /\ phase[t] = "busy" /\ ~ AtEnd(t)
    /\ ~ (query[t] = "sessions" /\ Here(t) = "bad")
    /\ ~ (query[t] = "boot_time" /\ Here(t) = "boot")
    /\ at' = [at EXCEPT ![t] = @ + 1]
    /\ list' = IF query[t] = "sessions" /\ Here(t) = "user"
               THEN [list EXCEPT ![t][at[t] + 1] = @ + 1]
               ELSE list
    /\ UNCHANGED <<db, writes, phase, query, outcome>>

(* sessions(): a record that is not UTF-8 fails the call, the end is success. *)
Refuse(t) == /\ phase[t] = "busy" /\ query[t] = "sessions"
             /\ ~ AtEnd(t) /\ Here(t) = "bad"
             /\ Reply(t, Result("error", "invalid_encoding", 0), NoSessions)
Finish(t) == /\ phase[t] = "busy" /\ query[t] = "sessions"
             /\ AtEnd(t)
             /\ Reply(t, Result("ok", "none", 0), list[t])

(* boot_time(): the first dated boot record met, or none. *)
BootTime(t) == /\ phase[t] = "busy" /\ query[t] = "boot_time"
               /\ ~ AtEnd(t) /\ Here(t) = "boot"
               /\ Reply(t, Result("ok", "none", at[t] + 1), NoSessions)
NoBootTime(t) == /\ phase[t] = "busy" /\ query[t] = "boot_time"
                 /\ AtEnd(t)
                 /\ Reply(t, Result("error", "not_found", 0), NoSessions)

Take(t) == /\ phase[t] = "done"
           /\ phase' = [phase EXCEPT ![t] = "idle"]
           /\ query' = [query EXCEPT ![t] = "none"]
           /\ list' = [list EXCEPT ![t] = NoSessions]
           /\ outcome' = [outcome EXCEPT ![t] = NoResult]
           /\ UNCHANGED <<db, writes, at>>

Kinds == {"user", "bad", "anon", "boot", "boot0", "other"}

Next == \/ \E i \in Records, k \in Kinds : Write(i, k)
        \/ \E t \in Threads : \/ \E q \in {"sessions", "boot_time"} : Begin(t, q)
                              \/ Pass(t)
                              \/ Refuse(t) \/ Finish(t)
                              \/ BootTime(t) \/ NoBootTime(t)
                              \/ Take(t)

Spec == Init /\ [][Next]_vars
=============================================================================
