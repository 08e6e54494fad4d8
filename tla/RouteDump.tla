----------------------------- MODULE RouteDump -----------------------------
(***************************************************************************)
(* routes() of detail/network/routes_linux.hpp: one RTM_GETROUTE dump over *)
(* a netlink socket, received datagram by datagram and parsed message by   *)
(* message, while the routing table changes.                               *)
(*                                                                         *)
(* The kernel's side is external. It walks its table by position and       *)
(* queues a few datagrams ahead of the reader; once the table has changed  *)
(* since the dump began it marks every message, NLMSG_DONE included, with  *)
(* NLM_F_DUMP_INTR. A dump that fails half-way ends with an NLMSG_DONE     *)
(* that carries the error.                                                 *)
(***************************************************************************)
EXTENDS Naturals, Sequences, SequencesExt

CONSTANTS
    Routes,       \* entries the kernel's table may hold
    KindOf,       \* KindOf[r]: what append_linux_route_message finds in r
    MaxTable,     \* bound: length of the table
    MaxChanges,   \* bound: changes to the table during one dump
    QueueMax,     \* datagrams the kernel queues ahead
    Batch,        \* messages that fit in one datagram
    Faults        \* may the socket, the kernel or a stranger misbehave?

Kinds == {"unicast", "multipath", "local", "nexthop_object", "broken"}

ASSUME RouteAssumption ==
    /\ KindOf \in [Routes -> Kinds]
    /\ {MaxTable, MaxChanges} \subseteq Nat
    /\ {QueueMax, Batch} \subseteq Nat \ {0}
    /\ Faults \in BOOLEAN

VARIABLES
    table,      \* the kernel's routing table
    changes,    \* changes made to it since the dump began
    cursor,     \* entries dumped so far; the dump is over beyond the end
    dumping,    \* is the kernel still producing messages?
    queue,      \* datagrams waiting in the socket
    phase,
    msgs,       \* messages of the current datagram not yet parsed
    routes,     \* state.routes
    complete,   \* state.complete
    snap,       \* table when the dump was requested (history)
    trouble,    \* what went wrong during the dump (history)
    answer

kernelVars == <<table, changes, cursor, dumping, queue, trouble>>
dumpVars == <<table, changes, cursor, dumping, queue, trouble,
              phase, msgs, routes, complete, snap, answer>>

Tables == {t \in UNION {[1..n -> Routes] : n \in 0..MaxTable} :
              \A i, j \in DOMAIN t : t[i] = t[j] => i = j}

NoAnswer == [kind |-> "none", code |-> "none", routes |-> <<>>]
Failed(code) == [kind |-> "error", code |-> code, routes |-> <<>>]
Answered(rs) == [kind |-> "ok", code |-> "none", routes |-> rs]

Mutant_hop_off_by_one(r) ==
    CASE KindOf[r] = "unicast"   -> <<<<r, 1>>>>
      [] KindOf[r] = "multipath" -> <<<<r, 2>>, <<r, 3>>>>
      [] OTHER                   -> <<>>
(* The route records one kernel entry contributes: one per next hop. *)
Expand(r) == CASE KindOf[r] = "unicast"   -> <<<<r, 1>>>>
               [] KindOf[r] = "multipath" -> <<<<r, 1>>, <<r, 2>>>>
               [] OTHER                   -> <<>>

Records(t) == FlattenSeq([i \in DOMAIN t |-> Expand(t[i])])

-----------------------------------------------------------------------------
(* The kernel: external. *)
Message(type, r) == [type |-> type, route |-> r, intr |-> changes > 0]
NoRoute == "none"

(* Another process changes the table: an entry goes, or one is inserted. *)
TableChange ==
    /\ phase # "idle"
    /\ changes < MaxChanges
    /\ changes' = changes + 1
    /\ \/ \E i \in DOMAIN table : table' = RemoveAt(table, i)
       \/ /\ Len(table) < MaxTable
          /\ \E i \in 1..(Len(table) + 1), r \in Routes \ ToSet(table) :
               table' = InsertAt(table, i, r)
    /\ UNCHANGED <<cursor, dumping, queue, trouble,
                   phase, msgs, routes, complete, snap, answer>>

(* The next datagram: up to Batch messages; NLMSG_DONE once all are dumped. *)
Produce ==
    /\ dumping
    /\ Len(queue) < QueueMax
    /\ \E n \in 0..Batch, done \in BOOLEAN :
         LET last == cursor + n
             body == [i \in 1..n |-> Message("NEWROUTE", table[cursor + i])]
         IN /\ n > 0 \/ done
            /\ n > 0 => last <= Len(table)
            /\ done => n < Batch /\ last >= Len(table)
            /\ cursor' = last
            /\ dumping' = ~done
            /\ queue' = Append(queue,
                    [foreign |-> FALSE, truncated |-> FALSE,
                     msgs |-> IF done THEN Append(body, Message("DONE", NoRoute))
                              ELSE body])
    /\ UNCHANGED <<table, changes, trouble, phase, msgs, routes, complete, snap, answer>>

(* The dump fails: NLMSG_ERROR, NLMSG_OVERRUN, or NLMSG_DONE with an errno. *)
Abort ==
    /\ Faults
    /\ dumping
    /\ Len(queue) < QueueMax
    /\ dumping' = FALSE
    /\ trouble' = trouble \cup {"aborted"}
    /\ \E type \in {"ERROR", "OVERRUN", "DONE"} :
         queue' = Append(queue, [foreign |-> FALSE, truncated |-> FALSE,
                                 msgs |-> <<Message(type, NoRoute)>>])
    /\ UNCHANGED <<table, changes, cursor, phase, msgs, routes, complete, snap, answer>>

(* A datagram from another process, or one larger than the buffer. *)
Stray ==
    /\ Faults
    /\ phase \in {"recv", "parse"}
    /\ Len(queue) < QueueMax
    /\ \E f \in BOOLEAN :
         queue' = Append(queue, [foreign |-> f, truncated |-> ~f,
                                 msgs |-> <<Message("DONE", NoRoute)>>])
    /\ trouble' = trouble \cup {"stray"}
    /\ UNCHANGED <<table, changes, cursor, dumping,
                   phase, msgs, routes, complete, snap, answer>>

-----------------------------------------------------------------------------
DumpInit == /\ table \in Tables
            /\ changes = 0
            /\ cursor = 0
            /\ dumping = FALSE
            /\ queue = <<>>
            /\ trouble = {}
            /\ phase = "idle"
            /\ msgs = <<>>
            /\ routes = <<>>
            /\ complete = FALSE
            /\ snap = <<>>
            /\ answer = NoAnswer

Return(r) == phase' = "done" /\ answer' = r

(* socket, bind, send: the dump request. *)
Request ==
    /\ phase = "idle"
    /\ \/ /\ phase' = "recv"
          /\ dumping' = TRUE
          /\ snap' = table
          /\ UNCHANGED <<trouble, answer>>
       \/ /\ Faults
          /\ trouble' = {"socket"}
          /\ \E code \in {"EMFILE", "io_error"} : Return(Failed(code))
          /\ UNCHANGED <<dumping, snap>>
    /\ UNCHANGED <<table, changes, cursor, queue, msgs, routes, complete>>

(* MSG_TRUNC, or a sender other than the kernel. *)
Unacceptable(d) == d.truncated \/ d.foreign

Receive ==
    /\ phase = "recv"
    /\ queue # <<>>
    /\ queue' = Tail(queue)
    /\ IF Unacceptable(Head(queue))
       THEN Return(Failed("malformed_data")) /\ UNCHANGED msgs
       ELSE phase' = "parse" /\ msgs' = Head(queue).msgs /\ UNCHANGED answer
    /\ UNCHANGED <<table, changes, cursor, dumping, trouble, routes, complete, snap>>

(* recvmsg fails (ENOBUFS) or returns nothing. *)
ReceiveFails ==
    /\ Faults
    /\ phase = "recv"
    /\ \E code \in {"ENOBUFS", "temporarily_unavailable"} : Return(Failed(code))
    /\ trouble' = trouble \cup {"socket"}
    /\ UNCHANGED <<table, changes, cursor, dumping, queue,
                   msgs, routes, complete, snap>>

(* append_linux_route_message: the error it reports for r, or "none". *)
Mutant_local_is_malformed(r) ==
    CASE KindOf[r] = "nexthop_object"       -> "not_supported"
      [] KindOf[r] \in {"broken", "local"}  -> "malformed_data"
      [] OTHER                              -> "none"
RouteError(r) == CASE KindOf[r] = "nexthop_object" -> "not_supported"
                   [] KindOf[r] = "broken"         -> "malformed_data"
                   [] OTHER                        -> "none"

Mutant_ignore_interruption(m) ==
    CASE m.type = "ERROR"                  -> "EIO"
      [] m.type = "NEWROUTE"               -> RouteError(m.route)
      [] m.type = "OVERRUN"                -> "temporarily_unavailable"
      [] OTHER                             -> "none"
(* The error parse_linux_route_datagram reports for message m, or "none". *)
MessageError(m) ==
    CASE m.intr                            -> "temporarily_unavailable"
      [] ~m.intr /\ m.type = "ERROR"       -> "EIO"
      [] ~m.intr /\ m.type = "NEWROUTE"    -> RouteError(m.route)
      [] ~m.intr /\ m.type = "OVERRUN"     -> "temporarily_unavailable"
      [] OTHER                             -> "none"

ParseMessage ==
    /\ phase = "parse"
    /\ msgs # <<>>
    /\ LET m == Head(msgs)
       IN IF MessageError(m) # "none"
          THEN /\ Return(Failed(MessageError(m)))
               /\ UNCHANGED <<msgs, routes, complete>>
          ELSE /\ msgs' = Tail(msgs)
               /\ complete' = (complete \/ m.type = "DONE")
               /\ routes' = IF m.type = "NEWROUTE" THEN routes \o Expand(m.route)
                            ELSE routes
               /\ UNCHANGED <<phase, answer>>
    /\ UNCHANGED <<kernelVars, snap>>

Mutant_keep_receiving ==
    /\ phase = "parse"
    /\ msgs = <<>>
    /\ phase' = "recv" /\ UNCHANGED answer
    /\ UNCHANGED <<kernelVars, msgs, routes, complete, snap>>
(* The end of a datagram: stop after NLMSG_DONE, or receive the next one. *)
DatagramEnd ==
    /\ phase = "parse"
    /\ msgs = <<>>
    /\ IF complete THEN Return(Answered(routes)) ELSE phase' = "recv" /\ UNCHANGED answer
    /\ UNCHANGED <<kernelVars, msgs, routes, complete, snap>>

(* The socket is closed on return; nothing of the dump survives. *)
TakeAnswer ==
    /\ phase = "done"
    /\ phase' = "idle"
    /\ changes' = 0 /\ cursor' = 0 /\ dumping' = FALSE /\ queue' = <<>>
    /\ trouble' = {}
    /\ msgs' = <<>> /\ routes' = <<>> /\ complete' = FALSE /\ snap' = <<>>
    /\ answer' = NoAnswer
    /\ UNCHANGED table

Query == Receive \/ ReceiveFails \/ ParseMessage \/ DatagramEnd

DumpNext == \/ TableChange \/ Produce \/ Abort \/ Stray
            \/ Request \/ Query \/ TakeAnswer

DumpSpec == DumpInit /\ [][DumpNext]_dumpVars

(* The kernel answers the dump, and the caller is scheduled. *)
FairDumpSpec == /\ DumpSpec
                /\ WF_dumpVars(Produce)
                /\ WF_dumpVars(Receive) /\ WF_dumpVars(ParseMessage) /\ WF_dumpVars(DatagramEnd)

-----------------------------------------------------------------------------
DumpTypeOK == /\ table \in Tables
              /\ changes \in 0..MaxChanges
              /\ cursor \in 0..(MaxTable + MaxChanges)
              /\ Len(queue) \in 0..QueueMax
              /\ phase \in {"idle", "recv", "parse", "done"}
              /\ Len(msgs) \in 0..Batch
              /\ routes \in Seq(Routes \X {1, 2})
              /\ {complete, dumping} \subseteq BOOLEAN
              /\ trouble \subseteq {"aborted", "stray", "socket"}
              /\ snap \in Tables
              /\ answer.kind \in {"none", "ok", "error"}

(***************************************************************************)
(* routes() returns a snapshot: unless the kernel gave up on the dump, a   *)
(* successful result is the forwarding routes of the table as it stood     *)
(* when the dump was requested, each next hop once and in table order,     *)
(* even if entries moved under the kernel's cursor while it was read.      *)
(***************************************************************************)
SuccessIsSnapshot ==
    (answer.kind = "ok" /\ "aborted" \notin trouble) => answer.routes = Records(snap)

(***************************************************************************)
(* No spurious failure: if nothing changed, nothing misbehaved and every   *)
(* entry can be represented, the dump succeeds; routes that do not forward *)
(* are passed over rather than reported.                                   *)
(***************************************************************************)
UndisturbedSucceeds ==
    (/\ changes = 0 /\ trouble = {}
     /\ \A i \in DOMAIN snap : KindOf[snap[i]] \in {"unicast", "multipath", "local"})
    => answer.kind # "error"

(* Every dump the kernel answers comes to an end. *)
DumpEnds == (phase # "idle") ~> (phase = "done")

(***************************************************************************)
(* network.hpp on routes(): "The route snapshot, ... or a native platform  *)
(* error". A dump the kernel could not finish is no snapshot.              *)
(***************************************************************************)
UnfinishedDumpFails == answer.kind = "ok" => "aborted" \notin trouble
=============================================================================
