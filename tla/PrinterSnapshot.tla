--------------------------- MODULE PrinterSnapshot ---------------------------
(***************************************************************************)
(* The printer queries of detail/printer/linux.hpp. One snapshot is put    *)
(* together from the environment, one request to the CUPS daemon for the   *)
(* list of printers, a second one on a connection of its own for the       *)
(* default printer, the daemon's saved configuration if there is no        *)
(* daemon, and the USB devices in sysfs. Meanwhile an administrator may    *)
(* change the queues, the daemon may stop answering, stop, crash and come  *)
(* back, and devices are plugged in and out.                               *)
(***************************************************************************)
EXTENDS Naturals, FiniteSets

CONSTANTS
    Queues,        \* names of CUPS queues
    Devices,       \* USB printers
    QueueOf,       \* QueueOf[d]: the queue that prints on device d, or None
    Paths,         \* number of socket paths tried (3 in the code)
    Limit,         \* largest response, in received chunks (16 MiB in the code)
    Environments,  \* possible values of LPDEST or PRINTER
    MaxMoves       \* bound: changes to the system during one call

None == "none"
Invalid == "invalid"   \* an environment value that is not UTF-8

Printers == Queues \cup Devices

ASSUME PrinterAssumption ==
    /\ {None, Invalid, "printers", "printer_count", "default_printer"} \cap Printers = {}
    /\ QueueOf \in [Devices -> Queues \cup {None}]
    /\ Paths \in Nat \ {0}
    /\ Limit \in Nat \ {0}
    /\ Environments \subseteq Printers \cup {None, Invalid}
    /\ MaxMoves \in Nat

VARIABLES
    cups,      \* the daemon's queues and default
    listening, \* the path number it listens on, or 0: no daemon
    conf,      \* printers.conf: what the daemon saved last, or NoConf
    usb,       \* devices present
    env,       \* value of LPDEST or PRINTER
    moves,     \* changes since the call began
    seen,      \* printers that could be found at some time since then (history)
    defaults,  \* printers that were the default at some time since then (history)
    pc,
    request,   \* "list" or "default": what the connection is for
    path,      \* path to be tried next
    connected, \* the other end of the connection still exists
    reply,     \* the daemon's answer
    got,       \* chunks received
    items, known, name, failure,  \* the printer_snapshot under construction:
               \* items, default_known, default_name, default_error
    result

world == <<cups, listening, conf, usb, env>>
history == <<moves, seen, defaults>>
socket == <<request, path, connected, reply, got>>
snapshot == <<items, known, name, failure>>
vars == <<world, history, pc, socket, snapshot, result>>

Contents == [queues : SUBSET Queues, default : Queues \cup {None}]
Consistent(c) == c.default \in c.queues \cup {None}
Nothing == [queues |-> {}, default |-> None]
NoConf == [queues |-> {}, default |-> "absent"]
NoReply == [status |-> "pending", content |-> Nothing, size |-> 0]

NoResult == [kind |-> "none", code |-> "none", query |-> "none",
             printers |-> {}, marked |-> {}, count |-> 0]
(* printers: the printers returned; marked: those with is_default; count: how many. *)
Ok(q, P, M, n) == [NoResult EXCEPT !.kind = "ok", !.query = q,
                                   !.printers = P, !.marked = M, !.count = n]
Fail(q, code) == [NoResult EXCEPT !.kind = "error", !.query = q, !.code = code]

(* What the system knows: from the daemon, else from its configuration.  *)
Source(c, l, f) == IF l # 0 THEN c ELSE IF f = NoConf THEN Nothing ELSE f

Init == /\ cups \in {c \in Contents : Consistent(c)}
        /\ listening \in 0..Paths
        /\ listening = 0 => cups = Nothing
        /\ conf \in {c \in Contents : Consistent(c)} \cup {NoConf}
        /\ usb \in SUBSET Devices
        /\ env \in Environments
        /\ moves = 0 /\ seen = {} /\ defaults = {}
        /\ pc = "idle"
        /\ request = "list" /\ path = 1 /\ connected = FALSE /\ reply = NoReply /\ got = 0
        /\ items = {} /\ known = FALSE /\ name = None /\ failure = None
        /\ result = NoResult

-----------------------------------------------------------------------------
(* The system during a call. *)
Move == /\ pc \notin {"idle", "done"}
        /\ moves < MaxMoves
        /\ moves' = moves + 1
        /\ LET now == Source(cups', listening', conf')
           IN /\ seen' = seen \cup now.queues \cup usb'
              /\ defaults' = defaults \cup {now.default}
        /\ UNCHANGED <<env, pc, request, path, got, snapshot, result>>

(* A queue is added or deleted, or another one becomes the default. *)
Administer == /\ listening # 0
              /\ \E c \in Contents : /\ Consistent(c) /\ c # cups
                                     /\ cups' = c
              /\ UNCHANGED <<listening, conf, usb, connected, reply>>
              /\ Move

(* The daemon writes its configuration when it finds the time. *)
Save == /\ listening # 0
        /\ conf # cups
        /\ conf' = cups
        /\ UNCHANGED <<cups, listening, usb, connected, reply>>
        /\ Move

(* It stops or crashes, with whatever it has saved, and breaks off every answer. *)
Stop == /\ listening # 0
        /\ listening' = 0
        /\ cups' = Nothing
        /\ connected' = FALSE
        /\ UNCHANGED <<conf, usb, reply>>
        /\ Move

Start == /\ listening = 0
         /\ listening' \in 1..Paths
         /\ cups' = Source(Nothing, 0, conf)
         /\ UNCHANGED <<conf, usb, connected, reply>>
         /\ Move

Plug == /\ usb' \in (SUBSET Devices) \ {usb}
        /\ UNCHANGED <<cups, listening, conf, connected, reply>>
        /\ Move

(* The daemon answers the request. With no queue the list is empty or         *)
(* not_found, with no default the default is; it may also be busy, refuse, or *)
(* send what the parsers refuse. A reply has a number of chunks.              *)
Serve ==
    /\ pc = "recv" /\ connected /\ reply = NoReply
    /\ LET known_to_it == IF request = "list" THEN cups.queues # {} ELSE cups.default # None
       IN \E status \in {"ok", "temporarily_unavailable", "permission_denied", "malformed_data"}
                         \cup (IF known_to_it THEN {} ELSE {"not_found"}),
            size \in 1..Limit + 1 :
               reply' = [status |-> status, content |-> cups, size |-> size]
    /\ UNCHANGED <<world, history, pc, request, path, connected, got, snapshot, result>>

-----------------------------------------------------------------------------
(* The connection is given up and the query goes on at p, for request r. *)
Proceed(p, r) == /\ pc' = p /\ request' = r /\ path' = 1
                 /\ connected' = FALSE /\ reply' = NoReply /\ got' = 0
                 /\ UNCHANGED <<world, history>>

Finish(r) == /\ Proceed("done", "list")
             /\ items' = {} /\ known' = FALSE /\ name' = None /\ failure' = None
             /\ result' = r

(* environment_default_printer; an unusable value ends the query. *)
Begin == /\ pc = "idle"
         /\ LET now == Source(cups, listening, conf)
            IN seen' = now.queues \cup usb /\ defaults' = {now.default}
         /\ IF env = Invalid
            THEN /\ pc' = "done" /\ result' = Fail("any", "invalid_encoding")
                 /\ UNCHANGED snapshot
            ELSE /\ pc' = "connect"
                 /\ known' = (env # None) /\ name' = env
                 /\ UNCHANGED <<items, failure, result>>
         /\ UNCHANGED <<world, moves, socket>>

Mutant_timeout_means_no_daemon(code) ==
    IF request = "list"
    THEN IF code \in {"not_supported", "temporarily_unavailable"}
         THEN Proceed("conf", "list") /\ UNCHANGED <<snapshot, result>>
         ELSE Finish(Fail("any", code))
    ELSE /\ Proceed("usb", "list")
         /\ failure' = IF code = "not_supported" THEN "temporarily_unavailable" ELSE code
         /\ UNCHANGED <<items, known, name, result>>
(* query_cups_socket failed. Without a daemon the list comes from its         *)
(* configuration; a failure to get the default is kept for default_printer(). *)
SocketFails(code) ==
    IF request = "list"
    THEN IF code = "not_supported"
         THEN Proceed("conf", "list") /\ UNCHANGED <<snapshot, result>>
         ELSE Finish(Fail("any", code))
    ELSE /\ Proceed("usb", "list")
         /\ failure' = IF code = "not_supported" THEN "temporarily_unavailable" ELSE code
         /\ UNCHANGED <<items, known, name, result>>

(* connect(): ENOENT and ECONNREFUSED lead to the next path. *)
Connect ==
    /\ pc = "connect"
    /\ IF path > Paths THEN SocketFails("not_supported")
       ELSE /\ IF listening = path THEN pc' = "send" /\ connected' = TRUE /\ UNCHANGED path
                                  ELSE path' = path + 1 /\ UNCHANGED <<pc, connected>>
            /\ UNCHANGED <<world, history, request, reply, got, snapshot, result>>

(* socket(), setsockopt() or connect() fails otherwise. *)
ConnectFails == pc = "connect" /\ path <= Paths /\ SocketFails("native")

Send == /\ pc = "send" /\ connected
        /\ pc' = "recv"
        /\ UNCHANGED <<world, history, request, path, connected, reply, got, snapshot, result>>

Mutant_check_before_recv ==
    /\ pc = "recv" /\ connected /\ got < reply.size
    /\ IF got > Limit THEN SocketFails("value_too_large")
       ELSE /\ got' = got + 1
            /\ UNCHANGED <<world, history, pc, request, path, connected, reply, snapshot, result>>
(* One recv(); the limit is checked after each. *)
Recv == /\ pc = "recv" /\ connected /\ got < reply.size
        /\ IF got + 1 > Limit THEN SocketFails("value_too_large")
           ELSE /\ got' = got + 1
                /\ UNCHANGED <<world, history, pc, request, path, connected, reply, snapshot, result>>

(* send() or recv() finds the connection broken: an error, or the end of a     *)
(* response that is empty or cut off, which the HTTP and IPP parsers refuse.   *)
Broken == /\ pc \in {"send", "recv"} /\ ~connected
          /\ \E code \in {"native", "malformed_data"} :
                /\ pc = "send" => code = "native"
                /\ SocketFails(code)

(* SO_SNDTIMEO or SO_RCVTIMEO expires. *)
Timeout == pc \in {"send", "recv"} /\ SocketFails("temporarily_unavailable")

(* The end of a whole response: parse_ipp_printers_response. *)
Received ==
    /\ pc = "recv" /\ reply # NoReply /\ got = reply.size
    /\ IF request = "list"
       THEN IF reply.status = "ok"
            THEN /\ IF env = None THEN Proceed("connect", "default") ELSE Proceed("usb", "list")
                 /\ items' = reply.content.queues
                 /\ UNCHANGED <<known, name, failure, result>>
            ELSE Finish(Fail("any", reply.status))
       ELSE /\ Proceed("usb", "list")
            /\ IF reply.status \in {"ok", "not_found"}
               THEN /\ known' = TRUE
                    /\ name' = IF reply.status = "ok" THEN reply.content.default ELSE None
                    /\ UNCHANGED failure
               ELSE failure' = reply.status /\ UNCHANGED <<known, name>>
            /\ UNCHANGED <<items, result>>

(* read_text_file("/etc/cups/printers.conf") and its parser. *)
ReadConf ==
    /\ pc = "conf"
    /\ Proceed("usb", "list")
    /\ IF conf = NoConf THEN UNCHANGED snapshot
       ELSE /\ items' = conf.queues
            /\ IF env = None THEN known' = TRUE /\ name' = conf.default ELSE UNCHANGED <<known, name>>
            /\ UNCHANGED failure
    /\ UNCHANGED result

ConfFails == /\ pc = "conf" /\ conf # NoConf
             /\ \E code \in {"native", "malformed_data"} : Finish(Fail("any", code))

Mutant_append_devices(list) == list \cup usb
(* merge_usb_printers: a device that some queue already stands for is left out. *)
Merged(list) == list \cup {d \in usb : QueueOf[d] \notin list}

(* find_printer(n) is written n. *)
Queries == {"printers", "printer_count", "default_printer"} \cup Printers

(* resolve_snapshot_default. *)
Resolved(list, marked) ==
    IF list = {} THEN Fail("default_printer", "not_found")
    ELSE IF marked # {} THEN Ok("default_printer", marked, marked, 1)
    ELSE IF failure # None THEN Fail("default_printer", failure)
    ELSE IF ~known THEN Fail("default_printer", "not_supported")
    ELSE Fail("default_printer", "not_found")

(* The USB devices are added, the default is marked (set_default_by_name) and  *)
(* the list sorted; then the caller's question is answered. Which one it was   *)
(* matters only here. Names of queues differ in more than case, so             *)
(* find_printer() finds the same printer in its first loop or its second.      *)
Complete(q) ==
    /\ pc = "usb"
    /\ LET list == Merged(items)
           marked == IF known THEN list \cap {name} ELSE {}
       IN \/ q = "printers" /\ Finish(Ok(q, list, marked, Cardinality(list)))
          \/ q = "printer_count" /\ Finish(Ok(q, {}, {}, Cardinality(list)))
          \/ q = "default_printer" /\ Finish(Resolved(list, marked))
          \/ q \in list /\ Finish(Ok(q, {q}, marked \cap {q}, 1))
          \/ q \in Printers \ list /\ Finish(Fail(q, "not_found"))

(* sysfs fails other than by having no USB printer class. *)
UsbFails == pc = "usb" /\ Finish(Fail("any", "native"))

TakeResult == /\ pc = "done"
              /\ pc' = "idle" /\ result' = NoResult
              /\ moves' = 0 /\ seen' = {} /\ defaults' = {}
              /\ UNCHANGED <<world, socket, snapshot>>

Next == \/ Administer \/ Save \/ Stop \/ Start \/ Plug \/ Serve
        \/ Begin \/ Connect \/ ConnectFails \/ Send \/ Recv \/ Broken \/ Timeout \/ Received
        \/ ReadConf \/ ConfFails \/ UsbFails \/ (\E q \in Queries : Complete(q))
        \/ TakeResult

Spec == Init /\ [][Next]_vars

-----------------------------------------------------------------------------
TypeOK == /\ cups \in Contents /\ Consistent(cups)
          /\ conf = NoConf \/ conf \in Contents
          /\ listening \in 0..Paths
          /\ moves \in 0..MaxMoves
          /\ pc \in {"idle", "connect", "send", "recv", "conf", "usb", "done"}
          /\ request = "default" => env = None
          /\ path \in 1..Paths + 1
          /\ got \in 0..Limit /\ got <= reply.size
          /\ items \subseteq Queues
          /\ result.printers \subseteq Printers /\ result.marked \subseteq result.printers

(***************************************************************************)
(* Nothing is made up. Every printer of an answer could be found at some   *)
(* time during the call: in the daemon, in its configuration while there   *)
(* was no daemon, or on the USB. A printer called the default is the one   *)
(* the environment names, or was the default at some time during the call, *)
(* although list and default come from two connections and the daemon may  *)
(* stop answering, stop or restart in between. This is less than           *)
(* printer.hpp:332 promises, "temporarily_unavailable if the default       *)
(* changes during the query": nothing here compares the two requests, and  *)
(* a change goes unreported. DefaultChangeReported is about that.          *)
(***************************************************************************)
AnswerWasTrue ==
    /\ result.printers \subseteq seen
    /\ result.marked \subseteq (IF env # None THEN {env} ELSE defaults)
    /\ result.kind = "ok" /\ result.query = "default_printer" => result.printers = result.marked

(***************************************************************************)
(* When nothing changes during the call an answer is exact: every queue    *)
(* and every USB printer no queue stands for, each once, also when the     *)
(* request for the default failed; a printer marked or returned as the     *)
(* default is the one in force, and only that failure leaves it unmarked;  *)
(* and not_found or not_supported from default_printer() means that there  *)
(* is no default, or no way to know.                                       *)
(***************************************************************************)
QuietAnswerIsExact ==
    LET now == Source(cups, listening, conf)
        all == now.queues \cup {d \in usb : QueueOf[d] \notin now.queues}
        effective == IF env # None THEN env ELSE now.default
    IN moves = 0 =>
       /\ result.kind = "ok" /\ result.query = "printers" =>
              /\ result.printers = all /\ result.count = Cardinality(all)
              /\ result.marked \subseteq {effective}
              /\ env # None \/ listening = 0 => result.marked = all \cap {effective}
       /\ result.kind = "ok" /\ result.query = "printer_count" => result.count = Cardinality(all)
       /\ result.query = "default_printer" =>
              /\ result.kind = "ok" => result.printers = {effective}
              /\ result.code \in {"not_found", "not_supported"} => effective \notin all

(***************************************************************************)
(* printer.hpp:330-332 on default_printer(): "not_found if no default      *)
(* printer is configured", "temporarily_unavailable if the default changes *)
(* during the query". So when the default changes during the call, from    *)
(* one printer to another, the answer is not that there is none.           *)
(***************************************************************************)
DefaultChangeReported ==
    (/\ result.query = "default_printer" /\ env = None
     /\ Cardinality(defaults) > 1 /\ None \notin defaults)
    => result.code # "not_found"
=============================================================================
