------------------------ MODULE SocketQueriesProofs ------------------------
(***************************************************************************)
(* Proofs about the two queries that talk to a server over a socket.       *)
(*                                                                         *)
(* PrinterSnapshot: for every set of queues and devices, any number of     *)
(* socket paths, any response limit and any number of changes.             *)
(*                                                                         *)
(* RouteDump: for every routing table, any number of changes to it, any    *)
(* size of a datagram and any length of the socket's queue.                *)
(***************************************************************************)
EXTENDS PrinterSnapshot, RouteDump, SequenceTheorems, WellFoundedInduction, TLAPS

-----------------------------------------------------------------------------
(***************************************************************************)
(* PrinterSnapshot.                                                        *)
(***************************************************************************)

Now == Source(cups, listening, conf)

Failures == {None, "native", "malformed_data", "temporarily_unavailable",
             "permission_denied", "value_too_large"}

Replies == [status : {"pending", "ok", "not_found",
                      "temporarily_unavailable", "permission_denied", "malformed_data"},
            content : Contents, size : Nat]

(* What TypeOK leaves open: the environment, the reply and the error codes. *)
TypeInv ==
    /\ TypeOK
    /\ conf # NoConf => Consistent(conf)
    /\ usb \subseteq Devices
    /\ env \in Environments
    /\ request \in {"list", "default"}
    /\ connected \in BOOLEAN /\ known \in BOOLEAN
    /\ reply \in Replies
    /\ reply # NoReply => reply.status # "pending"
    /\ failure \in Failures
    /\ pc # "done" => result = NoResult

(***************************************************************************)
(* A query owns a connection only while it sends and receives, an open one *)
(* leads to a running daemon, only a recv() sees a reply, and nothing of   *)
(* one query is left for the next.                                         *)
(***************************************************************************)
SocketInv ==
    /\ connected => listening # 0 /\ pc \in {"send", "recv"}
    /\ reply # NoReply => pc = "recv"
    /\ request = "default" => pc \in {"connect", "send", "recv"}
    /\ pc \in {"usb", "conf"} => request = "list"
    /\ pc \in {"idle", "done"} => items = {} /\ ~known /\ failure = None /\ path = 1

(* What has been found so far was there at some time during the call. *)
Found(c) == c.queues \subseteq seen /\ c.default \in defaults

(***************************************************************************)
(* The saved configuration is read only after every path was refused. The  *)
(* daemon may have moved from an untried path to a refused one meanwhile,  *)
(* but then it was down in between and its configuration was all there     *)
(* was: each path refused while the daemon runs elsewhere must lie above   *)
(* the daemon's, or the configuration has been in force during the call.   *)
(***************************************************************************)
ConfInv ==
    (pc = "conf" \/ (pc = "connect" /\ request = "list" /\ path > listening))
    => conf = NoConf \/ Found(conf)

SeenInv ==
    /\ pc # "idle" => usb \subseteq seen /\ Found(Now)
    /\ reply # NoReply => Found(reply.content)
    /\ items \subseteq seen
    /\ known /\ pc # "done" => name \in (IF env # None THEN {env} ELSE defaults \cup {None})
    /\ ConfInv

(***************************************************************************)
(* While nothing has changed, every part of the snapshot agrees with the   *)
(* system as it is.                                                        *)
(***************************************************************************)
QuietInv ==
    moves = 0 =>
      /\ pc \in {"send", "recv"} => connected
      /\ pc = "connect" /\ path > listening => listening = 0
      /\ pc = "conf" => listening = 0
      /\ pc \in {"connect", "send", "recv"} /\ request = "default" =>
            listening # 0 /\ items = Now.queues /\ ~known
      /\ pc \in {"connect", "send", "recv", "conf"} /\ request = "list" => items = {}
      /\ reply # NoReply =>
            /\ reply.content = cups
            /\ request = "default" /\ reply.status = "not_found" => cups.default = None
      /\ pc \in {"connect", "send", "recv", "conf", "usb"} =>
            /\ env # None => known /\ name = env
            /\ pc # "usb" => (known <=> env # None) /\ failure = None
      /\ pc = "usb" =>
            /\ items = Now.queues
            /\ env = None =>
                  \/ known /\ name = Now.default
                  \/ ~known /\ failure # None /\ listening # 0
                  \/ ~known /\ listening = 0 /\ conf = NoConf

IInv == TypeInv /\ SocketInv /\ SeenInv /\ QuietInv /\ AnswerWasTrue /\ QuietAnswerIsExact

-----------------------------------------------------------------------------
(* The fields of an answer. *)
LEMMA OkFields ==
    ASSUME NEW q, NEW P, NEW M, NEW n
    PROVE  /\ Ok(q, P, M, n).kind = "ok" /\ Ok(q, P, M, n).code = "none"
           /\ Ok(q, P, M, n).query = q /\ Ok(q, P, M, n).printers = P
           /\ Ok(q, P, M, n).marked = M /\ Ok(q, P, M, n).count = n
  BY DEF Ok, NoResult

(* The fields of a refusal. *)
LEMMA FailFields ==
    ASSUME NEW q, NEW code
    PROVE  /\ Fail(q, code).kind = "error" /\ Fail(q, code).code = code
           /\ Fail(q, code).query = q /\ Fail(q, code).printers = {}
           /\ Fail(q, code).marked = {}
  BY DEF Fail, NoResult

(* What the system knows is always a proper state of the daemon. *)
LEMMA SourceType ==
    ASSUME NEW c \in Contents, Consistent(c), NEW l \in 0..Paths,
           NEW f, f = NoConf \/ (f \in Contents /\ Consistent(f))
    PROVE  Source(c, l, f) \in Contents /\ Consistent(Source(c, l, f))
  BY DEF Source, Nothing, Contents, Consistent

(* The placeholder for a reply that has not come. *)
LEMMA NoReplyType ==
    NoReply \in Replies /\ NoReply.status = "pending" /\ NoReply.size = 0
  BY DEF NoReply, Nothing, Contents, Replies

(* At first no query is under way. *)
LEMMA InitInv == Init => IInv
  <1> SUFFICES ASSUME Init PROVE IInv OBVIOUS
  <1> USE PrinterAssumption DEF Init
  <1>1. TypeOK /\ (conf # NoConf => Consistent(conf))
    <2>1. /\ result.printers = {} /\ result.marked = {} /\ got = 0 /\ reply.size = 0
          /\ moves \in 0..MaxMoves /\ path \in 1..Paths + 1 /\ got \in 0..Limit
      BY DEF NoReply, NoResult
    <2> QED BY <2>1 DEF TypeOK
  <1>2. TypeInv
    BY <1>1, NoReplyType DEF TypeInv, Failures
  <1>3. SocketInv BY DEF SocketInv
  <1>4. SeenInv BY DEF SeenInv, ConfInv
  <1>5. QuietInv BY DEF QuietInv
  <1>6. AnswerWasTrue /\ QuietAnswerIsExact
    BY DEF AnswerWasTrue, QuietAnswerIsExact, NoResult
  <1> QED BY <1>2, <1>3, <1>4, <1>5, <1>6 DEF IInv

-----------------------------------------------------------------------------
(* One change of the system: it becomes part of what was seen, and whatever *)
(* the query has collected was seen before.                                 *)
LEMMA MoveInv ==
    ASSUME IInv, Move,
           cups' \in Contents, Consistent(cups'), listening' \in 0..Paths,
           conf' = NoConf \/ (conf' \in Contents /\ Consistent(conf')),
           usb' \subseteq Devices,
           connected' \in BOOLEAN, connected' => connected /\ listening' # 0,
           reply' = reply,
           ConfInv'
    PROVE  IInv'
  <1> USE PrinterAssumption DEF Move, snapshot
  <1>0. moves' = moves + 1 /\ moves \in Nat /\ moves' \in 0..MaxMoves /\ pc' = pc /\ pc # "idle"
        /\ result = NoResult /\ result' = result
    BY DEF IInv, TypeInv, TypeOK
  <1>1. TypeInv'
    BY <1>0 DEF IInv, TypeInv, TypeOK
  <1>2. SocketInv'
    BY DEF IInv, SocketInv
  <1>3. SeenInv'
    <2>1. Now' \in Contents
      BY SourceType DEF Now
    <2>2. usb' \subseteq seen' /\ Found(Now)' /\ seen \subseteq seen' /\ defaults \subseteq defaults'
      BY <2>1 DEF Now, Found
    <2> QED BY <2>2, <1>0 DEF IInv, SeenInv, Found
  <1>4. QuietInv' /\ QuietAnswerIsExact'
    BY <1>0 DEF QuietInv, QuietAnswerIsExact
  <1>5. AnswerWasTrue'
    BY <1>0 DEF AnswerWasTrue, NoResult
  <1> QED BY <1>1, <1>2, <1>3, <1>4, <1>5 DEF IInv

(* The administrator, the daemon's own life and the USB. *)
LEMMA WorldInv ==
    ASSUME IInv, Administer \/ Save \/ Stop \/ Start \/ Plug
    PROVE  IInv'
  <1> USE PrinterAssumption
  <1>0. /\ cups \in Contents /\ Consistent(cups) /\ listening \in 0..Paths /\ path \in 1..Paths + 1
        /\ conf = NoConf \/ (conf \in Contents /\ Consistent(conf))
        /\ usb \subseteq Devices /\ connected \in BOOLEAN /\ (connected => listening # 0)
        /\ pc # "idle" => Found(Now)
        /\ ConfInv
    <2>1. TypeInv /\ SocketInv /\ SeenInv BY DEF IInv
    <2>2. TypeOK /\ usb \subseteq Devices /\ (conf # NoConf => Consistent(conf))
      BY <2>1 DEF TypeInv
    <2>5. /\ cups \in Contents /\ Consistent(cups) /\ listening \in 0..Paths /\ path \in 1..Paths + 1
          /\ conf = NoConf \/ conf \in Contents
      BY <2>2 DEF TypeOK
    <2>3. connected \in BOOLEAN /\ (connected => listening # 0)
      BY <2>1 DEF TypeInv, SocketInv
    <2>4. (pc # "idle" => Found(Now)) /\ ConfInv
      BY <2>1 DEF SeenInv
    <2> QED BY <2>2, <2>3, <2>4, <2>5
  <1>1. CASE Administer
    <2>1. ConfInv' BY <1>0, <1>1 DEF Administer, Move, ConfInv, Found
    <2> QED BY <1>0, <1>1, <2>1, MoveInv DEF Administer
  <1>2. CASE Save
    <2>1. Found(cups)
      BY <1>0, <1>2 DEF Save, Move, Now, Source
    <2>2. ConfInv' BY <1>0, <1>2, <2>1 DEF Save, Move, ConfInv, Found
    <2> QED BY <1>0, <1>2, <2>2, MoveInv DEF Save
  <1>3. CASE Stop
    <2>1. conf # NoConf => Found(conf)'
      BY <1>0, <1>3 DEF Stop, Move, Source, Found
    <2>2. ConfInv' BY <1>0, <1>3, <2>1 DEF Stop, Move, ConfInv
    <2>3. Nothing \in Contents /\ Consistent(Nothing)
      BY DEF Nothing, Contents, Consistent
    <2>4. connected' \in BOOLEAN /\ (connected' => connected /\ listening' # 0)
      BY <1>3 DEF Stop
    <2>5. /\ cups' = Nothing /\ listening' = 0 /\ conf' = conf /\ usb' = usb /\ reply' = reply
          /\ listening' \in 0..Paths /\ Move
      BY <1>3 DEF Stop
    <2> QED BY <1>0, <2>2, <2>3, <2>4, <2>5, MoveInv
  <1>4. CASE Start
    <2>1. conf # NoConf => Found(conf)
      BY <1>0, <1>4 DEF Start, Move, Now, Source
    <2>2. ConfInv' BY <1>0, <1>4, <2>1 DEF Start, Move, ConfInv, Found
    <2>3. Nothing \in Contents /\ Consistent(Nothing)
      BY DEF Nothing, Contents, Consistent
    <2>4. cups' \in Contents /\ Consistent(cups')
      BY <1>0, <1>4, <2>3, SourceType DEF Start
    <2> QED BY <1>0, <1>4, <2>2, <2>4, MoveInv DEF Start
  <1>5. CASE Plug
    <2>1. ConfInv' BY <1>0, <1>5 DEF Plug, Move, ConfInv, Found
    <2> QED BY <1>0, <1>5, <2>1, MoveInv DEF Plug
  <1> QED BY <1>1, <1>2, <1>3, <1>4, <1>5

-----------------------------------------------------------------------------
(* A query under way that ends with an answer r that is true and, if nothing *)
(* has changed, exact.                                                       *)
TrueAnswer(r) ==
    /\ r.printers \subseteq seen \cap Printers
    /\ r.marked \subseteq r.printers
    /\ r.marked \subseteq (IF env # None THEN {env} ELSE defaults)
    /\ r.kind = "ok" /\ r.query = "default_printer" => r.printers = r.marked

ExactAnswer(r) ==
    LET all == Now.queues \cup {d \in usb : QueueOf[d] \notin Now.queues}
        effective == IF env # None THEN env ELSE Now.default
    IN moves = 0 =>
       /\ r.kind = "ok" /\ r.query = "printers" =>
              /\ r.printers = all /\ r.count = Cardinality(all)
              /\ r.marked \subseteq {effective}
              /\ env # None \/ listening = 0 => r.marked = all \cap {effective}
       /\ r.kind = "ok" /\ r.query = "printer_count" => r.count = Cardinality(all)
       /\ r.query = "default_printer" =>
              /\ r.kind = "ok" => r.printers = {effective}
              /\ r.code \in {"not_found", "not_supported"} => effective \notin all

(* Ending with such an answer keeps the invariant. *)
LEMMA FinishInv ==
    ASSUME IInv, pc \notin {"idle", "done"}, NEW r, Finish(r), TrueAnswer(r), ExactAnswer(r)
    PROVE  IInv'
  <1> USE PrinterAssumption
  <1>0. /\ pc' = "done" /\ request' = "list" /\ path' = 1 /\ connected' = FALSE
        /\ reply' = NoReply /\ got' = 0 /\ items' = {} /\ known' = FALSE /\ name' = None
        /\ failure' = None /\ result' = r
        /\ cups' = cups /\ listening' = listening /\ conf' = conf /\ usb' = usb /\ env' = env
        /\ moves' = moves /\ seen' = seen /\ defaults' = defaults
    BY DEF Finish, Proceed, world, history
  <1>1. TypeInv'
    <2>1. TypeOK'
      BY <1>0, NoReplyType DEF IInv, TypeInv, TypeOK, TrueAnswer
    <2> QED BY <1>0, <2>1, NoReplyType DEF IInv, TypeInv, Failures
  <1>2. SocketInv'
    BY <1>0 DEF SocketInv
  <1>3. SeenInv'
    BY <1>0 DEF IInv, SeenInv, ConfInv, Found, Now
  <1>4. QuietInv'
    BY <1>0 DEF QuietInv
  <1>5. AnswerWasTrue'
    BY <1>0 DEF AnswerWasTrue, TrueAnswer
  <1>6. QuietAnswerIsExact'
    BY <1>0 DEF QuietAnswerIsExact, ExactAnswer, Now
  <1> QED BY <1>1, <1>2, <1>3, <1>4, <1>5, <1>6 DEF IInv

(* A refusal of the whole query claims nothing. *)
LEMMA RefusalInv ==
    ASSUME IInv, pc \notin {"idle", "done"}, NEW code, Finish(Fail("any", code))
    PROVE  IInv'
  <1>1. TrueAnswer(Fail("any", code))
    BY FailFields DEF TrueAnswer
  <1>2. ExactAnswer(Fail("any", code))
    <2>1. Fail("any", code).kind # "ok" /\ Fail("any", code).query # "default_printer"
      BY FailFields
    <2> QED BY <2>1 DEF ExactAnswer
  <1> QED BY <1>1, <1>2, FinishInv

(* The parts of the invariant that speak of the world alone survive a step *)
(* of the query, and an answer is only there when the query is done.       *)
LEMMA StepInv ==
    ASSUME IInv, UNCHANGED <<world, history>>, pc' \notin {"idle", "done"}, result' = NoResult,
           TypeInv', SocketInv', QuietInv',
           reply' # NoReply => Found(reply'.content),
           items' \subseteq seen,
           known' => name' \in (IF env # None THEN {env} ELSE defaults \cup {None}),
           ConfInv', pc # "idle"
    PROVE  IInv'
  <1>0. /\ cups' = cups /\ listening' = listening /\ conf' = conf /\ usb' = usb /\ env' = env
        /\ moves' = moves /\ seen' = seen /\ defaults' = defaults
    BY DEF world, history
  <1>1. SeenInv'
    BY <1>0 DEF IInv, SeenInv, Found, Now
  <1>2. AnswerWasTrue' /\ QuietAnswerIsExact'
    BY <1>0 DEF AnswerWasTrue, QuietAnswerIsExact, NoResult
  <1> QED BY <1>1, <1>2 DEF IInv

(* query_cups_socket fails: the query goes on with the configuration or the *)
(* USB, or is refused.                                                      *)
LEMMA SocketFailsInv ==
    ASSUME IInv, pc \in {"connect", "send", "recv"},
           NEW code \in (Failures \ {None}) \cup {"not_supported"}, SocketFails(code),
           code = "not_supported" => pc = "connect" /\ path > Paths
    PROVE  IInv'
  <1> USE PrinterAssumption
  <1>0. TypeInv /\ TypeOK /\ SocketInv /\ SeenInv /\ QuietInv
    BY DEF IInv, TypeInv
  <1>1. CASE request = "list" /\ code # "not_supported"
    BY <1>1, RefusalInv DEF SocketFails
  <1>2. CASE request = "list" /\ code = "not_supported"
    <2>1. /\ pc' = "conf" /\ request' = "list" /\ path' = 1 /\ connected' = FALSE
          /\ reply' = NoReply /\ got' = 0 /\ UNCHANGED <<world, history>>
          /\ items' = items /\ known' = known /\ name' = name /\ failure' = failure
          /\ result' = result
      BY <1>2 DEF SocketFails, Proceed, snapshot
    <2>2. path > listening /\ result = NoResult
      BY <1>0, <1>2 DEF TypeOK, TypeInv
    <2>3. TypeInv'
      <3>1. TypeOK'
        BY <1>0, <2>1, <2>2, NoReplyType DEF TypeOK, world, history
      <3> QED BY <1>0, <2>1, <2>2, <3>1, NoReplyType DEF TypeInv, world, history
    <2>4. SocketInv' BY <2>1 DEF SocketInv
    <2>5. QuietInv' BY <1>0, <1>2, <2>1, <2>2 DEF QuietInv, world, history
    <2>6. ConfInv' BY <1>0, <1>2, <2>1, <2>2 DEF SeenInv, ConfInv, Found, world, history
    <2> QED BY <1>0, <2>1, <2>2, <2>3, <2>4, <2>5, <2>6, StepInv DEF SeenInv
  <1>3. CASE request # "list"
    <2>1. /\ pc' = "usb" /\ request' = "list" /\ path' = 1 /\ connected' = FALSE
          /\ reply' = NoReply /\ got' = 0 /\ UNCHANGED <<world, history>>
          /\ items' = items /\ known' = known /\ name' = name
          /\ failure' \in Failures \ {None}
          /\ result' = result
      BY <1>3 DEF SocketFails, Proceed, Failures, None
    <2>2. request = "default" /\ result = NoResult /\ env = None
      BY <1>0, <1>3 DEF TypeInv, TypeOK
    <2>3. TypeInv'
      <3>1. TypeOK'
        BY <1>0, <2>1, <2>2, NoReplyType DEF TypeOK, world, history
      <3> QED BY <1>0, <2>1, <2>2, <3>1, NoReplyType DEF TypeInv, world, history
    <2>4. SocketInv' BY <2>1 DEF SocketInv
    <2>5. QuietInv' BY <1>0, <2>1, <2>2 DEF QuietInv, Now, world, history
    <2>6. ConfInv' BY <2>1 DEF ConfInv
    <2> QED BY <1>0, <2>1, <2>2, <2>3, <2>4, <2>5, <2>6, StepInv DEF SeenInv
  <1> QED BY <1>1, <1>2, <1>3

(* The environment is read first, and the system as it is seen. *)
LEMMA BeginInv == ASSUME IInv, Begin PROVE IInv'
  <1> USE PrinterAssumption
  <1>0. /\ TypeInv /\ TypeOK /\ SocketInv /\ SeenInv /\ QuietInv /\ pc = "idle"
        /\ result = NoResult /\ request = "list" /\ connected = FALSE /\ reply = NoReply
        /\ items = {} /\ known = FALSE /\ failure = None /\ path = 1
    BY DEF IInv, TypeInv, SocketInv, Begin
  <1>1. /\ cups' = cups /\ listening' = listening /\ conf' = conf /\ usb' = usb /\ env' = env
        /\ moves' = moves /\ items' = {} /\ failure' = None
        /\ request' = "list" /\ path' = 1 /\ connected' = FALSE /\ reply' = NoReply /\ got' = got
    BY <1>0 DEF Begin, snapshot, socket, world
  <1>2. usb' \subseteq seen' /\ Found(Now)' /\ Now' = Now
    BY <1>1 DEF Begin, Found, Now
  <1>3. CASE env = Invalid
    <2>1. pc' = "done" /\ result' = Fail("any", "invalid_encoding") /\ known' = FALSE
      BY <1>0, <1>3 DEF Begin, snapshot
    <2>2. /\ result'.printers = {} /\ result'.marked = {}
          /\ result'.kind # "ok" /\ result'.query # "default_printer"
      BY <2>1, FailFields
    <2>3. TypeInv'
      <3>1. TypeOK'
        BY <1>0, <1>1, <2>1, <2>2 DEF TypeOK
      <3> QED BY <1>0, <1>1, <2>1, <3>1 DEF TypeInv
    <2>4. SocketInv' BY <1>1, <2>1 DEF SocketInv
    <2>5. SeenInv' BY <1>1, <1>2, <2>1 DEF SeenInv, ConfInv
    <2>6. QuietInv' BY <1>1, <2>1 DEF QuietInv
    <2>7. AnswerWasTrue' /\ QuietAnswerIsExact'
      BY <2>2 DEF AnswerWasTrue, QuietAnswerIsExact
    <2> QED BY <2>3, <2>4, <2>5, <2>6, <2>7 DEF IInv
  <1>4. CASE env # Invalid
    <2>1. pc' = "connect" /\ known' = (env # None) /\ name' = env /\ result' = NoResult
      BY <1>0, <1>4 DEF Begin
    <2>2. TypeInv'
      <3>1. TypeOK'
        BY <1>0, <1>1, <2>1 DEF TypeOK
      <3> QED BY <1>0, <1>1, <2>1, <3>1 DEF TypeInv
    <2>3. SocketInv' BY <1>1, <2>1 DEF SocketInv
    <2>4. SeenInv'
      <3>1. ConfInv'
        BY <1>0, <1>1, <1>2, <2>1 DEF ConfInv, Now, Source, TypeOK
      <3> QED BY <1>1, <1>2, <2>1, <3>1 DEF SeenInv
    <2>5. QuietInv'
      <3>1. path' > listening' => listening' = 0
        BY <1>0, <1>1 DEF TypeOK
      <3>2. known' <=> env' # None
        BY <1>1, <2>1
      <3> QED BY <1>1, <2>1, <3>1, <3>2 DEF QuietInv
    <2>6. AnswerWasTrue' /\ QuietAnswerIsExact'
      BY <2>1 DEF AnswerWasTrue, QuietAnswerIsExact, NoResult
    <2> QED BY <2>2, <2>3, <2>4, <2>5, <2>6 DEF IInv
  <1> QED BY <1>3, <1>4

(* The result is taken and the history forgotten. *)
LEMMA TakeResultInv == ASSUME IInv, TakeResult PROVE IInv'
  <1> USE PrinterAssumption
  <1>1. /\ pc = "done" /\ pc' = "idle" /\ result' = NoResult
        /\ moves' = 0 /\ seen' = {} /\ defaults' = {}
        /\ cups' = cups /\ listening' = listening /\ conf' = conf /\ usb' = usb /\ env' = env
        /\ request' = request /\ path' = path /\ connected' = connected
        /\ reply' = reply /\ got' = got
        /\ items' = items /\ known' = known /\ name' = name /\ failure' = failure
    BY DEF TakeResult, world, socket, snapshot
  <1>2. TypeInv'
    <2>1. TypeOK'
      BY <1>1 DEF IInv, TypeInv, TypeOK, NoResult
    <2> QED BY <1>1, <2>1 DEF IInv, TypeInv
  <1>3. SocketInv' BY <1>1 DEF IInv, SocketInv
  <1>4. SeenInv' BY <1>1 DEF IInv, SocketInv, SeenInv, ConfInv
  <1>5. QuietInv' BY <1>1 DEF IInv, SocketInv, QuietInv
  <1>6. AnswerWasTrue' /\ QuietAnswerIsExact'
    BY <1>1 DEF AnswerWasTrue, QuietAnswerIsExact, NoResult
  <1> QED BY <1>2, <1>3, <1>4, <1>5, <1>6 DEF IInv

(* The paths are tried in turn; one that is refused lies above the daemon's *)
(* or the daemon has been down.                                             *)
LEMMA ConnectInv == ASSUME IInv, Connect PROVE IInv'
  <1> USE PrinterAssumption
  <1>0. /\ TypeInv /\ TypeOK /\ SocketInv /\ SeenInv /\ QuietInv /\ pc = "connect"
        /\ result = NoResult /\ reply = NoReply /\ connected = FALSE
    BY DEF IInv, TypeInv, SocketInv, Connect
  <1>1. CASE path > Paths
    BY <1>0, <1>1, SocketFailsInv DEF Connect
  <1>2. CASE path <= Paths /\ listening = path
    <2>1. /\ pc' = "send" /\ connected' = TRUE /\ path' = path
          /\ UNCHANGED <<world, history>> /\ request' = request /\ reply' = reply /\ got' = got
          /\ items' = items /\ known' = known /\ name' = name /\ failure' = failure
          /\ result' = result
      BY <1>0, <1>2 DEF Connect, snapshot, TypeOK
    <2>2. TypeInv'
      <3>1. TypeOK' BY <1>0, <2>1 DEF TypeOK, world, history
      <3> QED BY <1>0, <2>1, <3>1 DEF TypeInv, world, history
    <2>3. SocketInv' BY <1>0, <1>2, <2>1 DEF SocketInv, TypeOK, world, history
    <2>4. QuietInv' BY <1>0, <2>1 DEF QuietInv, Now, world, history
    <2>5. ConfInv' BY <2>1 DEF ConfInv
    <2> QED BY <1>0, <2>1, <2>2, <2>3, <2>4, <2>5, StepInv DEF SeenInv
  <1>3. CASE path <= Paths /\ listening # path
    <2>1. /\ pc' = pc /\ connected' = connected /\ path' = path + 1
          /\ UNCHANGED <<world, history>> /\ request' = request /\ reply' = reply /\ got' = got
          /\ items' = items /\ known' = known /\ name' = name /\ failure' = failure
          /\ result' = result
      BY <1>0, <1>3 DEF Connect, snapshot, TypeOK
    <2>2. TypeInv'
      <3>1. TypeOK' BY <1>0, <1>3, <2>1 DEF TypeOK, world, history
      <3> QED BY <1>0, <2>1, <3>1 DEF TypeInv, world, history
    <2>3. SocketInv' BY <1>0, <2>1 DEF SocketInv, world, history
    <2>4. path' > listening' => path > listening
      BY <1>0, <1>3, <2>1 DEF TypeOK, world, history
    <2>5. QuietInv' BY <1>0, <2>1, <2>4 DEF QuietInv, Now, world, history
    <2>6. ConfInv' BY <1>0, <2>1, <2>4 DEF SeenInv, ConfInv, Found, world, history
    <2> QED BY <1>0, <2>1, <2>2, <2>3, <2>5, <2>6, StepInv DEF SeenInv
  <1> QED BY <1>0, <1>1, <1>2, <1>3 DEF TypeOK

(* Sending and receiving leave everything but the progress alone. *)
LEMMA TransferInv == ASSUME IInv, Send \/ Recv \/ Serve PROVE IInv'
  <1> USE PrinterAssumption
  <1>0. /\ TypeInv /\ TypeOK /\ SocketInv /\ SeenInv /\ QuietInv
        /\ pc \in {"send", "recv"} /\ connected /\ listening # 0
        /\ result = NoResult
    BY DEF IInv, TypeInv, SocketInv, Send, Recv, Serve
  <1>1. CASE Send
    <2>1. /\ pc' = "recv" /\ pc = "send" /\ connected' = connected /\ path' = path
          /\ UNCHANGED <<world, history>> /\ request' = request /\ reply' = reply /\ got' = got
          /\ items' = items /\ known' = known /\ name' = name /\ failure' = failure
          /\ result' = result
      BY <1>1 DEF Send, snapshot
    <2>2. TypeInv'
      <3>1. TypeOK' BY <1>0, <2>1 DEF TypeOK, world, history
      <3> QED BY <1>0, <2>1, <3>1 DEF TypeInv, world, history
    <2>3. SocketInv' BY <1>0, <2>1 DEF SocketInv, world, history
    <2>4. QuietInv' BY <1>0, <2>1 DEF QuietInv, SocketInv, Now, world, history
    <2>5. ConfInv' BY <2>1 DEF ConfInv
    <2> QED BY <1>0, <2>1, <2>2, <2>3, <2>4, <2>5, StepInv DEF SeenInv
  <1>2. CASE Recv /\ got + 1 > Limit
    BY <1>0, <1>2, SocketFailsInv DEF Recv, Failures, None
  <1>3. CASE Recv /\ ~(got + 1 > Limit)
    <2>1. /\ pc' = pc /\ pc = "recv" /\ connected' = connected /\ path' = path /\ got < reply.size
          /\ UNCHANGED <<world, history>> /\ request' = request /\ reply' = reply /\ got' = got + 1
          /\ items' = items /\ known' = known /\ name' = name /\ failure' = failure
          /\ result' = result
      BY <1>3 DEF Recv, snapshot
    <2>2. TypeInv'
      <3>1. got' \in 0..Limit /\ got' <= reply'.size
        BY <1>0, <1>3, <2>1 DEF TypeInv, TypeOK, Replies
      <3>2. TypeOK' BY <1>0, <2>1, <3>1 DEF TypeOK, world, history
      <3> QED BY <1>0, <2>1, <3>2 DEF TypeInv, world, history
    <2>3. SocketInv' BY <1>0, <2>1 DEF SocketInv, world, history
    <2>4. QuietInv' BY <1>0, <2>1 DEF QuietInv, Now, world, history
    <2>5. ConfInv' BY <2>1 DEF ConfInv
    <2> QED BY <1>0, <2>1, <2>2, <2>3, <2>4, <2>5, StepInv DEF SeenInv
  <1>4. CASE Serve
    <2>1. /\ pc' = pc /\ pc = "recv" /\ connected' = connected /\ path' = path /\ reply = NoReply
          /\ UNCHANGED <<world, history>> /\ request' = request /\ got' = got
          /\ items' = items /\ known' = known /\ name' = name /\ failure' = failure
          /\ result' = result
      BY <1>4 DEF Serve, snapshot
    <2>2. PICK status \in {"ok", "not_found", "temporarily_unavailable", "permission_denied",
                           "malformed_data"},
               size \in 1..Limit + 1 :
            /\ reply' = [status |-> status, content |-> cups, size |-> size]
            /\ request = "default" /\ status = "not_found" => cups.default = None
      <3>1. CASE request = "list" BY <1>4, <3>1 DEF Serve
      <3>2. CASE request # "list" BY <1>4, <3>2 DEF Serve
      <3> QED BY <3>1, <3>2
    <2>3. /\ reply' \in Replies /\ reply'.status = status /\ reply'.content = cups
          /\ reply'.size = size /\ size \in Nat /\ status # "pending"
      BY <1>0, <2>2 DEF TypeOK, Replies
    <2>4. TypeInv'
      <3>1. got' <= reply'.size
        BY <1>0, <2>1, <2>3, NoReplyType DEF TypeOK
      <3>2. TypeOK' BY <1>0, <2>1, <3>1 DEF TypeOK, world, history
      <3> QED BY <1>0, <2>1, <2>3, <3>2 DEF TypeInv, world, history
    <2>5. SocketInv' BY <1>0, <2>1 DEF SocketInv, world, history
    <2>6. QuietInv' BY <1>0, <2>1, <2>2, <2>3 DEF QuietInv, Now, world, history
    <2>7. ConfInv' BY <2>1 DEF ConfInv
    <2>8. Found(reply'.content)
      BY <1>0, <2>3 DEF SeenInv, Now, Source
    <2> QED BY <1>0, <2>1, <2>4, <2>5, <2>6, <2>7, <2>8, StepInv DEF SeenInv
  <1> QED BY <1>1, <1>2, <1>3, <1>4

(* The whole response: the list, or the default printer. *)
LEMMA ReceivedInv == ASSUME IInv, Received PROVE IInv'
  <1> USE PrinterAssumption
  <1>0. /\ TypeInv /\ TypeOK /\ SocketInv /\ SeenInv /\ QuietInv
        /\ pc = "recv" /\ reply # NoReply /\ result = NoResult
        /\ Found(reply.content) /\ reply \in Replies /\ reply.status # "pending"
    BY DEF IInv, TypeInv, SeenInv, Received
  <1>1. CASE request = "list" /\ reply.status # "ok"
    BY <1>0, <1>1, RefusalInv DEF Received
  <1>2. CASE request = "list" /\ reply.status = "ok"
    <2>1. /\ pc' = (IF env = None THEN "connect" ELSE "usb")
          /\ request' = (IF env = None THEN "default" ELSE "list")
          /\ path' = 1 /\ connected' = FALSE /\ reply' = NoReply /\ got' = 0
          /\ UNCHANGED <<world, history>>
          /\ items' = reply.content.queues /\ known' = known /\ name' = name
          /\ failure' = failure /\ result' = result
      BY <1>2 DEF Received, Proceed
    <2>2. items' \subseteq Queues /\ items' \subseteq seen
      BY <1>0, <2>1 DEF Found, Replies, Contents
    <2>3. TypeInv'
      <3>1. TypeOK' BY <1>0, <2>1, <2>2, NoReplyType DEF TypeOK, world, history
      <3> QED BY <1>0, <2>1, <3>1, NoReplyType DEF TypeInv, world, history
    <2>4. SocketInv' BY <1>0, <2>1 DEF SocketInv, world, history
    <2>5. QuietInv'
      <3>1. moves = 0 => connected /\ listening # 0 /\ Now = cups /\ items' = cups.queues
        BY <1>0, <2>1 DEF QuietInv, SocketInv, Now, Source
      <3>2. moves = 0 => (known <=> env # None) /\ failure = None /\ (env # None => name = env)
        BY <1>0 DEF QuietInv
      <3>3. moves = 0 => ~(path' > listening')
        BY <1>0, <2>1, <3>1 DEF TypeOK, world
      <3>4. Now' = Now /\ env' = env /\ listening' = listening /\ moves' = moves
        BY <2>1 DEF Now, world, history
      <3>5. CASE env = None BY <2>1, <3>1, <3>2, <3>3, <3>4, <3>5 DEF QuietInv
      <3>6. CASE env # None BY <2>1, <3>1, <3>2, <3>4, <3>6 DEF QuietInv
      <3> QED BY <3>5, <3>6
    <2>6. ConfInv' BY <2>1 DEF ConfInv
    <2> QED BY <1>0, <2>1, <2>2, <2>3, <2>4, <2>5, <2>6, StepInv DEF SeenInv
  <1>3. CASE request # "list"
    <2>0. request = "default" /\ env = None
      BY <1>0, <1>3 DEF TypeInv, TypeOK
    <2>1. /\ pc' = "usb" /\ request' = "list"
          /\ path' = 1 /\ connected' = FALSE /\ reply' = NoReply /\ got' = 0
          /\ UNCHANGED <<world, history>>
          /\ items' = items /\ result' = result
      BY <1>3 DEF Received, Proceed
    <2>2. \/ /\ known' = TRUE /\ failure' = failure
             /\ \/ reply.status = "ok" /\ name' = reply.content.default
                \/ reply.status = "not_found" /\ name' = None
          \/ /\ failure' = reply.status /\ known' = known /\ name' = name
             /\ reply.status \in Failures \ {None}
      <3>1. reply.status \in {"ok", "not_found", "temporarily_unavailable", "permission_denied",
                              "malformed_data"}
        BY <1>0 DEF Replies
      <3>2. CASE reply.status \in {"ok", "not_found"}
        BY <1>3, <3>1, <3>2 DEF Received
      <3>3. CASE reply.status \notin {"ok", "not_found"}
        BY <1>3, <3>1, <3>3 DEF Received, Failures, None
      <3> QED BY <3>2, <3>3
    <2>3. TypeInv'
      <3>1. TypeOK' BY <1>0, <2>1, NoReplyType DEF TypeOK, world, history
      <3>2. known' \in BOOLEAN /\ failure' \in Failures
        BY <1>0, <2>2 DEF TypeInv
      <3> QED BY <1>0, <2>1, <3>1, <3>2, NoReplyType DEF TypeInv, world, history
    <2>4. SocketInv' BY <1>0, <2>1 DEF SocketInv, world, history
    <2>5. QuietInv'
      <3>1. moves = 0 => /\ connected /\ listening # 0 /\ Now = cups /\ items' = Now.queues
                         /\ reply.content = cups /\ ~known
                         /\ reply.status = "not_found" => cups.default = None
        BY <1>0, <2>0, <2>1 DEF QuietInv, SocketInv, Now, Source
      <3>2. moves = 0 => \/ known' /\ name' = Now.default
                         \/ ~known' /\ failure' # None
        BY <2>2, <3>1
      <3>3. Now' = Now
        BY <2>1 DEF Now, world
      <3> QED BY <2>0, <2>1, <3>1, <3>2, <3>3 DEF QuietInv, world, history
    <2>6. ConfInv' BY <2>1 DEF ConfInv
    <2>7. known' => name' \in defaults \cup {None}
      BY <1>0, <2>0, <2>2 DEF SeenInv, Found
    <2> QED BY <1>0, <2>0, <2>1, <2>3, <2>4, <2>5, <2>6, <2>7, StepInv DEF SeenInv
  <1> QED BY <1>1, <1>2, <1>3

(* The saved configuration stands in for a daemon that is not there. *)
LEMMA ReadConfInv == ASSUME IInv, ReadConf PROVE IInv'
  <1> USE PrinterAssumption
  <1>0. /\ TypeInv /\ TypeOK /\ SocketInv /\ SeenInv /\ QuietInv
        /\ pc = "conf" /\ request = "list" /\ result = NoResult
        /\ conf = NoConf \/ (conf \in Contents /\ Found(conf))
    BY DEF IInv, TypeInv, TypeOK, SocketInv, SeenInv, ConfInv, ReadConf
  <1>1. /\ pc' = "usb" /\ request' = "list"
        /\ path' = 1 /\ connected' = FALSE /\ reply' = NoReply /\ got' = 0
        /\ UNCHANGED <<world, history>> /\ failure' = failure /\ result' = result
    BY DEF ReadConf, Proceed, snapshot
  <1>2. \/ conf = NoConf /\ items' = items /\ known' = known /\ name' = name
        \/ /\ conf # NoConf /\ items' = conf.queues
           /\ \/ env = None /\ known' = TRUE /\ name' = conf.default
              \/ env # None /\ known' = known /\ name' = name
    BY DEF ReadConf, snapshot
  <1>3. items' \subseteq Queues /\ items' \subseteq seen
    BY <1>0, <1>2 DEF TypeOK, SeenInv, Found, Contents
  <1>4. TypeInv'
    <2>1. TypeOK' BY <1>0, <1>1, <1>3, NoReplyType DEF TypeOK, world, history
    <2>2. known' \in BOOLEAN BY <1>0, <1>2 DEF TypeInv
    <2> QED BY <1>0, <1>1, <2>1, <2>2, NoReplyType DEF TypeInv, world, history
  <1>5. SocketInv' BY <1>0, <1>1 DEF SocketInv, world, history
  <1>6. QuietInv'
    <2>1. moves = 0 => /\ listening = 0 /\ items = {} /\ (known <=> env # None)
                       /\ env # None => name = env
      BY <1>0 DEF QuietInv
    <2>2. moves = 0 => items' = Now.queues
      BY <1>2, <2>1 DEF Now, Source, Nothing
    <2>3. moves = 0 => /\ env # None => known' /\ name' = env
                       /\ env = None => \/ known' /\ name' = Now.default
                                        \/ ~known' /\ listening = 0 /\ conf = NoConf
      BY <1>2, <2>1 DEF Now, Source
    <2>4. Now' = Now BY <1>1 DEF Now, world
    <2> QED BY <1>1, <2>1, <2>2, <2>3, <2>4 DEF QuietInv, world, history
  <1>7. ConfInv' BY <1>1 DEF ConfInv
  <1>8. known' => name' \in (IF env # None THEN {env} ELSE defaults \cup {None})
    BY <1>0, <1>2 DEF SeenInv, Found
  <1> QED BY <1>0, <1>1, <1>3, <1>4, <1>5, <1>6, <1>7, <1>8, StepInv

(* The devices are merged, the default is marked and the question answered. *)
LEMMA CompleteInv == ASSUME IInv, NEW q \in Queries, Complete(q) PROVE IInv'
  <1> USE PrinterAssumption
  <1> DEFINE list == Merged(items)
             marked == IF known THEN list \cap {name} ELSE {}
             all == Now.queues \cup {d \in usb : QueueOf[d] \notin Now.queues}
             effective == IF env # None THEN env ELSE Now.default
  <1>0. /\ TypeInv /\ TypeOK /\ SocketInv /\ SeenInv /\ QuietInv /\ pc = "usb"
    BY DEF IInv, TypeInv, Complete
  <1>1. list \subseteq Printers /\ list \subseteq seen
    BY <1>0 DEF TypeInv, TypeOK, SeenInv, Merged, Printers
  <1>2. marked \subseteq list /\ marked \subseteq (IF env # None THEN {env} ELSE defaults)
    <2>1. None \notin list BY <1>1 DEF Printers
    <2> QED BY <1>0, <2>1 DEF SeenInv
  <1>3. moves = 0 => list = all
    BY <1>0 DEF QuietInv, Merged
  <1>4. moves = 0 => \/ known /\ name = effective
                     \/ ~known /\ failure # None /\ listening # 0 /\ env = None
                     \/ ~known /\ listening = 0 /\ effective = None
    BY <1>0 DEF QuietInv, Now, Source, Nothing
  <1>5. None \notin all
    <2>1. Now \in Contents
      BY <1>0, SourceType DEF TypeInv, TypeOK, Now
    <2> QED BY <1>0, <2>1 DEF TypeInv, Contents, Printers
  <1> HIDE DEF all, effective, list
  <1>6. CASE q = "printers" /\ Finish(Ok(q, list, marked, Cardinality(list)))
    <2> DEFINE r == Ok(q, list, marked, Cardinality(list))
    <2>1. /\ r.kind = "ok" /\ r.query = "printers" /\ r.printers = list /\ r.marked = marked
          /\ r.count = Cardinality(list)
      BY <1>6, OkFields
    <2> HIDE DEF r
    <2>2. TrueAnswer(r)
      BY <1>1, <1>2, <2>1 DEF TrueAnswer
    <2>3. moves = 0 => /\ marked \subseteq {effective}
                       /\ env # None \/ listening = 0 => marked = all \cap {effective}
      BY <1>3, <1>4, <1>5
    <2>4. ExactAnswer(r)
      BY <1>3, <2>1, <2>3 DEF ExactAnswer, all, effective
    <2> QED BY <1>0, <1>6, <2>2, <2>4, FinishInv DEF r
  <1>7. CASE q = "printer_count" /\ Finish(Ok(q, {}, {}, Cardinality(list)))
    <2> DEFINE r == Ok(q, {}, {}, Cardinality(list))
    <2>1. /\ r.kind = "ok" /\ r.query = "printer_count" /\ r.printers = {} /\ r.marked = {}
          /\ r.count = Cardinality(list)
      BY <1>7, OkFields
    <2> HIDE DEF r
    <2>2. TrueAnswer(r)
      BY <2>1 DEF TrueAnswer
    <2>3. ExactAnswer(r)
      BY <1>3, <2>1 DEF ExactAnswer, all
    <2> QED BY <1>0, <1>7, <2>2, <2>3, FinishInv DEF r
  <1>8. CASE q = "default_printer" /\ Finish(Resolved(list, marked))
    <2> DEFINE r == Resolved(list, marked)
    <2>1. \/ /\ marked # {} /\ list # {}
             /\ r.kind = "ok" /\ r.query = "default_printer" /\ r.code = "none"
             /\ r.printers = marked /\ r.marked = marked
          \/ /\ r.kind = "error" /\ r.query = "default_printer"
             /\ r.printers = {} /\ r.marked = {}
             /\ \/ list = {}
                \/ marked = {} /\ (failure = None \/ r.code = failure)
      <3> HIDE DEF marked
      <3> QED BY OkFields, FailFields DEF Resolved
    <2> HIDE DEF r
    <2>2. TrueAnswer(r)
      BY <1>1, <1>2, <2>1 DEF TrueAnswer
    <2>3. failure \notin {"not_found", "not_supported"}
      BY <1>0 DEF TypeInv, Failures, None
    <2>4. moves = 0 /\ r.kind = "ok" => r.printers = {effective}
      BY <1>4, <2>1
    <2>5. moves = 0 /\ r.code \in {"not_found", "not_supported"} => effective \notin all
      <3>1. CASE r.kind = "ok" BY <2>1, <3>1
      <3>2. CASE r.kind = "error" BY <1>3, <1>4, <1>5, <2>1, <2>3, <3>2
      <3> QED BY <2>1, <3>1, <3>2
    <2>6. ExactAnswer(r)
      BY <2>1, <2>4, <2>5 DEF ExactAnswer, all, effective
    <2> QED BY <1>0, <1>8, <2>2, <2>6, FinishInv DEF r
  <1>9. CASE q \in list /\ Finish(Ok(q, {q}, marked \cap {q}, 1))
    <2> DEFINE r == Ok(q, {q}, marked \cap {q}, 1)
    <2>1. r.kind = "ok" /\ r.query = q /\ r.printers = {q} /\ r.marked = marked \cap {q}
      BY OkFields
    <2> HIDE DEF r
    <2>2. q \notin {"printers", "printer_count", "default_printer"}
      BY <1>1, <1>9
    <2>3. TrueAnswer(r)
      BY <1>1, <1>2, <1>9, <2>1, <2>2 DEF TrueAnswer
    <2>4. ExactAnswer(r)
      BY <2>1, <2>2 DEF ExactAnswer
    <2> QED BY <1>0, <1>9, <2>3, <2>4, FinishInv DEF r
  <1>10. CASE q \in Printers \ list /\ Finish(Fail(q, "not_found"))
    <2> DEFINE r == Fail(q, "not_found")
    <2>1. r.kind = "error" /\ r.query = q /\ r.printers = {} /\ r.marked = {}
      BY FailFields
    <2> HIDE DEF r
    <2>2. q # "default_printer"
      BY <1>10
    <2>3. TrueAnswer(r)
      BY <2>1 DEF TrueAnswer
    <2>4. ExactAnswer(r)
      BY <2>1, <2>2 DEF ExactAnswer
    <2> QED BY <1>0, <1>10, <2>3, <2>4, FinishInv DEF r
  <1> QED BY <1>6, <1>7, <1>8, <1>9, <1>10 DEF Complete, list

-----------------------------------------------------------------------------
(* Every step of the query and of the system keeps the invariant. *)
LEMMA NextInv == IInv /\ [Next]_vars => IInv'
  <1> SUFFICES ASSUME IInv, [Next]_vars PROVE IInv' OBVIOUS
  <1>1. CASE Administer \/ Save \/ Stop \/ Start \/ Plug BY <1>1, WorldInv
  <1>2. CASE Send \/ Recv \/ Serve BY <1>2, TransferInv
  <1>3. CASE Begin BY <1>3, BeginInv
  <1>4. CASE Connect BY <1>4, ConnectInv
  <1>5. CASE ConnectFails BY <1>5, SocketFailsInv DEF ConnectFails, Failures, None
  <1>6. CASE Broken BY <1>6, SocketFailsInv DEF Broken, Failures, None
  <1>7. CASE Timeout BY <1>7, SocketFailsInv DEF Timeout, Failures, None
  <1>8. CASE Received BY <1>8, ReceivedInv
  <1>9. CASE ReadConf BY <1>9, ReadConfInv
  <1>10. CASE ConfFails BY <1>10, RefusalInv DEF ConfFails
  <1>11. CASE UsbFails BY <1>11, RefusalInv DEF UsbFails
  <1>12. CASE \E q \in Queries : Complete(q) BY <1>12, CompleteInv
  <1>13. CASE TakeResult BY <1>13, TakeResultInv
  <1>14. CASE UNCHANGED vars
    BY <1>14
    DEF vars, world, history, socket, snapshot, IInv, TypeInv, TypeOK, SocketInv, SeenInv,
        ConfInv, Found, Now, QuietInv, AnswerWasTrue, QuietAnswerIsExact
  <1> QED BY <1>1, <1>2, <1>3, <1>4, <1>5, <1>6, <1>7, <1>8, <1>9, <1>10, <1>11, <1>12,
             <1>13, <1>14 DEF Next

(* The invariant holds in every reachable state. *)
THEOREM Invariance == Spec => []IInv
  BY InitInv, NextInv, PTL DEF Spec

(* The chunks received never exceed the limit or the reply, and only queues *)
(* and devices are returned.                                                *)
THEOREM TypeCorrect == Spec => []TypeOK
  <1>1. IInv => TypeOK BY DEF IInv, TypeInv
  <1> QED BY <1>1, Invariance, PTL

(* Nothing in an answer is made up, whatever happens to the daemon between *)
(* the two requests.                                                       *)
THEOREM WasTrue == Spec => []AnswerWasTrue
  <1>1. IInv => AnswerWasTrue BY DEF IInv
  <1> QED BY <1>1, Invariance, PTL

(* If nothing changes during the call the answer is exact. *)
THEOREM QuietIsExact == Spec => []QuietAnswerIsExact
  <1>1. IInv => QuietAnswerIsExact BY DEF IInv
  <1> QED BY <1>1, Invariance, PTL

-----------------------------------------------------------------------------
(***************************************************************************)
(* RouteDump. What a recursive function computes, for sequences of any     *)
(* length: the induction is the choice of a least counterexample.          *)
(***************************************************************************)
LEMMA Least ==
    ASSUME NEW T \in SUBSET Nat, T # {}
    PROVE  \E n \in T : \A m \in T : n <= m
  <1> DEFINE R == {h \in Nat \X Nat : h[1] < h[2]}
  <1>1. IsWellFoundedOn(R, Nat) BY NatLessThanWellFounded DEF OpToRel
  <1>2. PICK n \in T : \A m \in T : ~(<<m, n>> \in R) BY <1>1, WFMin
  <1>3. ASSUME NEW m \in T PROVE n <= m
    <2>1. m \in Nat /\ n \in Nat OBVIOUS
    <2>2. <<m, n>> \notin R BY <1>2
    <2>3. ~(m < n) BY <2>1, <2>2
    <2> QED BY <2>1, <2>3
  <1> QED BY <1>3

(* The running concatenations of s, as FlattenSeq builds them. *)
Running(s, f) == [i \in 1..Len(s) |-> IF i = 1 THEN s[i] ELSE f[i - 1] \o s[i]]
Joined(s) == CHOOSE f : f = Running(s, f)

LEMMA FlattenJoins ==
    ASSUME NEW s, Len(s) # 0
    PROVE  FlattenSeq(s) = Joined(s)[Len(s)]
  BY DEF FlattenSeq, Joined, Running

LEMMA JoinedEquation ==
    ASSUME NEW S, NEW s \in Seq(S)
    PROVE  \A i \in 1..Len(s) : Joined(s)[i] = IF i = 1 THEN s[i] ELSE Joined(s)[i - 1] \o s[i]
  <1> DEFINE Built(n, f) == /\ DOMAIN f = 1..n
                            /\ f = [i \in 1..n |-> f[i]]
                            /\ \A i \in 1..n : f[i] = IF i = 1 THEN s[i] ELSE f[i - 1] \o s[i]
             Missing == {n \in 0..Len(s) : ~\E f : Built(n, f)}
  <1>1. Missing = {}
    <2> SUFFICES ASSUME Missing # {} PROVE FALSE OBVIOUS
    <2>1. Missing \in SUBSET Nat BY LenProperties
    <2>2. PICK n \in Missing : \A m \in Missing : n <= m BY <2>1, Least
    <2>3. n \in Nat /\ n <= Len(s) /\ Len(s) \in Nat BY LenProperties
    <2>4. n # 0
      <3>1. Built(0, [i \in 1..0 |-> i]) OBVIOUS
      <3> QED BY <3>1
    <2>5. n - 1 \in 0..Len(s) /\ n - 1 \notin Missing
      <3>1. n - 1 \in Nat /\ n - 1 < n BY <2>3, <2>4
      <3> QED BY <2>2, <2>3, <3>1
    <2>6. PICK f : Built(n - 1, f) BY <2>5
    <2> DEFINE g == [i \in 1..n |-> IF i < n THEN f[i] ELSE IF i = 1 THEN s[i] ELSE f[i - 1] \o s[i]]
    <2>7. Built(n, g)
      <3>1. DOMAIN g = 1..n /\ g = [i \in 1..n |-> g[i]] OBVIOUS
      <3>2. ASSUME NEW i \in 1..n PROVE g[i] = IF i = 1 THEN s[i] ELSE g[i - 1] \o s[i]
        <4>1. CASE i < n
          <5>1. i \in 1..n - 1 BY <2>3, <4>1
          <5>2. g[i] = f[i] BY <4>1
          <5>3. f[i] = IF i = 1 THEN s[i] ELSE f[i - 1] \o s[i] BY <2>6, <5>1
          <5>4. i # 1 => i - 1 \in 1..n /\ i - 1 < n BY <2>3, <5>1
          <5>5. i # 1 => g[i - 1] = f[i - 1] BY <5>4
          <5> QED BY <5>2, <5>3, <5>5
        <4>2. CASE ~(i < n)
          <5>1. g[i] = IF i = 1 THEN s[i] ELSE f[i - 1] \o s[i] BY <4>2
          <5>2. i # 1 => i - 1 \in 1..n /\ i - 1 < n BY <2>3, <4>2
          <5>3. i # 1 => g[i - 1] = f[i - 1] BY <5>2
          <5> QED BY <5>1, <5>3
        <4> QED BY <4>1, <4>2
      <3> QED BY <3>1, <3>2
    <2> QED BY <2>2, <2>7
  <1>2. \E f : f = Running(s, f)
    <2>1. Len(s) \in 0..Len(s) BY LenProperties
    <2>2. PICK f : Built(Len(s), f) BY <1>1, <2>1
    <2>3. f = Running(s, f) BY <2>2 DEF Running
    <2> QED BY <2>3
  <1>3. Joined(s) = Running(s, Joined(s)) BY <1>2 DEF Joined
  <1>4. PICK f : f = Joined(s) OBVIOUS
  <1>5. f = Running(s, f) BY <1>3, <1>4
  <1>6. \A i \in 1..Len(s) : f[i] = IF i = 1 THEN s[i] ELSE f[i - 1] \o s[i] BY <1>5 DEF Running
  <1> QED BY <1>4, <1>6

-----------------------------------------------------------------------------
(* A table is a sequence without repetitions. *)
LEMMA TableType ==
    ASSUME NEW t \in Tables
    PROVE  /\ t \in Seq(Routes) /\ Len(t) \in Nat /\ Len(t) <= MaxTable
           /\ DOMAIN t = 1..Len(t)
           /\ \A i, j \in 1..Len(t) : t[i] = t[j] => i = j
  <1>1. PICK n \in 0..MaxTable : t \in [1..n -> Routes] BY DEF Tables
  <1>2. n \in Nat /\ n <= MaxTable BY <1>1, RouteAssumption
  <1>3. t \in Seq(Routes) BY <1>1, <1>2, SeqDef
  <1>4. Len(t) = n BY <1>1, <1>2, <1>3
  <1>5. \A i, j \in DOMAIN t : t[i] = t[j] => i = j BY DEF Tables
  <1> QED BY <1>1, <1>2, <1>3, <1>4, <1>5

LEMMA IsTable ==
    ASSUME NEW t \in Seq(Routes), Len(t) <= MaxTable,
           \A i, j \in 1..Len(t) : t[i] = t[j] => i = j
    PROVE  t \in Tables
  <1>1. t \in [1..Len(t) -> Routes] /\ Len(t) \in Nat BY LenProperties
  <1>2. Len(t) \in 0..MaxTable BY <1>1, RouteAssumption
  <1> QED BY <1>1, <1>2 DEF Tables

(* The bounds are numbers. *)
LEMMA Bounds == /\ MaxTable \in Nat /\ MaxChanges \in Nat
                /\ QueueMax \in Nat \ {0} /\ Batch \in Nat \ {0}
  BY RouteAssumption

LEMMA EmptyTable == <<>> \in Tables
  <1>1. PICK t : t = <<>> OBVIOUS
  <1>2. t \in Seq(Routes) /\ Len(t) = 0 /\ 0 <= MaxTable BY <1>1, Bounds
  <1>3. \A i, j \in 1..Len(t) : t[i] = t[j] => i = j BY <1>2
  <1>4. t \in Tables BY <1>2, <1>3, IsTable
  <1> QED BY <1>1, <1>4

(* Removing an entry leaves a table. *)
LEMMA RemoveTable ==
    ASSUME NEW t \in Tables, NEW i \in DOMAIN t
    PROVE  RemoveAt(t, i) \in Tables
  <1>1. /\ t \in Seq(Routes) /\ Len(t) \in Nat /\ Len(t) <= MaxTable /\ DOMAIN t = 1..Len(t)
        /\ \A j, k \in 1..Len(t) : t[j] = t[k] => j = k
    BY TableType
  <1>2. i \in 1..Len(t) /\ i - 1 \in Int /\ i + 1 \in Int BY <1>1
  <1> DEFINE a == SubSeq(t, 1, i - 1)
             b == SubSeq(t, i + 1, Len(t))
             u == a \o b
  <1>3. /\ a \in Seq(Routes) /\ Len(a) = i - 1
        /\ \A k \in 1..i - 1 : a[k] = t[k]
    BY <1>1, <1>2
  <1>4. /\ b \in Seq(Routes) /\ Len(b) = Len(t) - i
        /\ \A k \in 1..Len(t) - i : b[k] = t[k + i]
    <2>1. Len(t) \in Int /\ i + 1 \in Int /\ i <= Len(t) /\ i \in Nat BY <1>1, <1>2
    <2>2. \A k \in i + 1..Len(t) : t[k] \in Routes BY <1>1, <1>2
    <2>3. /\ b \in Seq(Routes)
          /\ Len(b) = IF i + 1 <= Len(t) THEN Len(t) - (i + 1) + 1 ELSE 0
          /\ \A k \in 1..Len(t) - (i + 1) + 1 : b[k] = t[(i + 1) + k - 1]
      BY ONLY <2>1, <2>2, SubSeqProperties DEF b
    <2>4. Len(b) = Len(t) - i BY ONLY <2>1, <2>3
    <2>5. \A k \in 1..Len(t) - i : k \in 1..Len(t) - (i + 1) + 1 /\ (i + 1) + k - 1 = k + i
      BY ONLY <2>1
    <2> QED BY <2>3, <2>4, <2>5
  <1> HIDE DEF a, b
  <1>5. /\ u \in Seq(Routes) /\ Len(u) = Len(a) + Len(b)
        /\ \A k \in 1..Len(a) + Len(b) : u[k] = IF k <= Len(a) THEN a[k] ELSE b[k - Len(a)]
    <2>1. a \in Seq(Routes) BY <1>3
    <2>2. b \in Seq(Routes) BY <1>4
    <2> QED BY ONLY <2>1, <2>2, ConcatProperties DEF u
  <1> HIDE DEF u
  <1>6. Len(u) = Len(t) - 1
    <2>1. Len(u) = Len(a) + Len(b) /\ Len(a) = i - 1 /\ Len(b) = Len(t) - i BY <1>3, <1>4, <1>5
    <2>2. Len(t) \in Nat /\ i \in Int BY <1>1, <1>2
    <2> QED BY ONLY <2>1, <2>2
  <1>7. \A k \in 1..Len(u) : u[k] = t[IF k < i THEN k ELSE k + 1]
    <2> SUFFICES ASSUME NEW k \in 1..Len(u) PROVE u[k] = t[IF k < i THEN k ELSE k + 1] OBVIOUS
    <2>1. k \in 1..Len(a) + Len(b) /\ k \in Nat
      <3>1. Len(u) = Len(a) + Len(b) BY <1>5
      <3>2. Len(u) \in Nat BY <1>5, LenProperties
      <3> QED BY ONLY <3>1, <3>2, k \in 1..Len(u)
    <2>2. CASE k < i
      <3>1. k \in 1..i - 1 /\ k <= Len(a) BY <1>2, <1>3, <2>1, <2>2
      <3>2. u[k] = a[k] BY <1>5, <2>1, <3>1
      <3>3. a[k] = t[k] BY <1>3, <3>1
      <3> QED BY <2>2, <3>2, <3>3
    <2>3. CASE ~(k < i)
      <3>1. ~(k <= Len(a)) /\ k - Len(a) \in 1..Len(t) - i /\ (k - Len(a)) + i = k + 1
        <4>1. Len(a) = i - 1 /\ Len(u) = Len(t) - 1 BY <1>3, <1>6
        <4>2. Len(t) \in Nat /\ i \in Nat BY <1>1, <1>2
        <4>3. k \in 1..Len(u) /\ ~(k < i) /\ k \in Nat BY <2>1, <2>3
        <4> QED BY ONLY <4>1, <4>2, <4>3
      <3>2. u[k] = b[k - Len(a)] BY <1>5, <2>1, <3>1
      <3>3. b[k - Len(a)] = t[(k - Len(a)) + i] BY <1>4, <3>1
      <3> QED BY <2>3, <3>1, <3>2, <3>3
    <2> QED BY <2>2, <2>3
  <1>8. \A j, k \in 1..Len(u) : u[j] = u[k] => j = k
    <2> SUFFICES ASSUME NEW j \in 1..Len(u), NEW k \in 1..Len(u), u[j] = u[k] PROVE j = k OBVIOUS
    <2>1. PICK m, n : m = (IF j < i THEN j ELSE j + 1) /\ n = (IF k < i THEN k ELSE k + 1) OBVIOUS
    <2>2. m \in 1..Len(t) /\ n \in 1..Len(t) BY <1>1, <1>2, <1>6, <2>1
    <2>3. t[m] = t[n] BY <1>7, <2>1
    <2>4. m = n BY <1>1, <2>2, <2>3
    <2> QED BY <1>2, <2>1, <2>4
  <1>9. Len(u) <= MaxTable BY <1>1, <1>6, RouteAssumption
  <1>10. u \in Tables BY <1>5, <1>8, <1>9, IsTable
  <1> QED BY <1>10 DEF u, a, b, RemoveAt

(* So does inserting a new one while there is room. *)
LEMMA InsertTable ==
    ASSUME NEW t \in Tables, Len(t) < MaxTable, NEW i \in 1..Len(t) + 1, NEW r \in Routes \ ToSet(t)
    PROVE  InsertAt(t, i, r) \in Tables
  <1>1. /\ t \in Seq(Routes) /\ Len(t) \in Nat /\ Len(t) <= MaxTable /\ DOMAIN t = 1..Len(t)
        /\ \A j, k \in 1..Len(t) : t[j] = t[k] => j = k
    BY TableType
  <1>2. i \in Nat \ {0} /\ i <= Len(t) + 1 BY <1>1
  <1>r. \A j \in 1..Len(t) : t[j] # r BY <1>1 DEF ToSet
  <1> DEFINE a == SubSeq(t, 1, i - 1)
             b == SubSeq(t, i, Len(t))
             v == a \o <<r>>
             u == v \o b
  <1>3. /\ a \in Seq(Routes) /\ Len(a) = i - 1
        /\ \A k \in 1..i - 1 : a[k] = t[k]
    BY <1>1, <1>2
  <1>4. /\ b \in Seq(Routes) /\ Len(b) = Len(t) - i + 1
        /\ \A k \in 1..Len(t) - i + 1 : b[k] = t[k + i - 1]
    <2>1. Len(t) \in Int /\ i \in Int /\ i <= Len(t) + 1 /\ i >= 1 BY <1>1, <1>2
    <2>2. \A k \in i..Len(t) : t[k] \in Routes BY <1>1, <1>2
    <2>3. /\ b \in Seq(Routes)
          /\ Len(b) = IF i <= Len(t) THEN Len(t) - i + 1 ELSE 0
          /\ \A k \in 1..Len(t) - i + 1 : b[k] = t[i + k - 1]
      BY ONLY <2>1, <2>2, SubSeqProperties DEF b
    <2>4. Len(b) = Len(t) - i + 1 BY ONLY <2>1, <2>3
    <2>5. \A k \in 1..Len(t) - i + 1 : i + k - 1 = k + i - 1 BY ONLY <2>1
    <2> QED BY <2>3, <2>4, <2>5
  <1>s. PICK c : c = <<r>> OBVIOUS
  <1>t. c \in Seq(Routes) /\ Len(c) = 1 /\ c[1] = r BY <1>s
  <1> HIDE DEF a, b
  <1>u. v = a \o c BY <1>s
  <1> HIDE DEF v
  <1>5. /\ v \in Seq(Routes) /\ Len(v) = Len(a) + Len(c)
        /\ \A k \in 1..Len(a) + Len(c) : v[k] = IF k <= Len(a) THEN a[k] ELSE c[k - Len(a)]
    <2>1. a \in Seq(Routes) /\ c \in Seq(Routes) BY <1>3, <1>t
    <2> QED BY ONLY <2>1, <1>u, ConcatProperties
  <1>6. /\ u \in Seq(Routes) /\ Len(u) = Len(v) + Len(b)
        /\ \A k \in 1..Len(v) + Len(b) : u[k] = IF k <= Len(v) THEN v[k] ELSE b[k - Len(v)]
    <2>1. v \in Seq(Routes) /\ b \in Seq(Routes) BY <1>4, <1>5
    <2> QED BY ONLY <2>1, ConcatProperties DEF u
  <1> HIDE DEF u
  <1>7. Len(v) = i /\ Len(u) = Len(t) + 1 BY <1>1, <1>2, <1>3, <1>4, <1>5, <1>6, <1>t
  <1>8. \A k \in 1..Len(u) : u[k] = IF k = i THEN r ELSE t[IF k < i THEN k ELSE k - 1]
    <2> SUFFICES ASSUME NEW k \in 1..Len(u)
                 PROVE  u[k] = IF k = i THEN r ELSE t[IF k < i THEN k ELSE k - 1]
      OBVIOUS
    <2>1. k \in 1..Len(v) + Len(b) /\ k \in Nat BY <1>1, <1>2, <1>6, <1>7
    <2>2. CASE k < i
      <3>1. k \in 1..i - 1 /\ k <= Len(a) /\ k <= Len(v) /\ k \in 1..Len(a) + Len(c)
        BY <1>2, <1>3, <1>7, <1>t, <2>1, <2>2
      <3>2. u[k] = v[k] /\ v[k] = a[k] /\ a[k] = t[k] BY <1>3, <1>5, <1>6, <2>1, <3>1
      <3> QED BY <1>2, <2>2, <3>2
    <2>3. CASE k = i
      <3>1. /\ k <= Len(v) /\ ~(k <= Len(a)) /\ k \in 1..Len(a) + Len(c)
            /\ k - Len(a) = 1
        BY <1>2, <1>3, <1>7, <1>t, <2>1, <2>3
      <3>2. u[k] = v[k] /\ v[k] = c[k - Len(a)] BY <1>5, <1>6, <2>1, <3>1
      <3> QED BY <1>t, <2>3, <3>1, <3>2
    <2>4. CASE k > i
      <3>1. /\ ~(k <= Len(v)) /\ k - Len(v) \in 1..Len(t) - i + 1
            /\ (k - Len(v)) + i - 1 = k - 1 /\ ~(k < i) /\ k # i
        BY <1>1, <1>2, <1>7, <2>1, <2>4
      <3>2. u[k] = b[k - Len(v)] BY <1>6, <2>1, <3>1
      <3>3. b[k - Len(v)] = t[(k - Len(v)) + i - 1] BY <1>4, <3>1
      <3> QED BY <3>1, <3>2, <3>3
    <2> QED BY <1>2, <2>1, <2>2, <2>3, <2>4
  <1>9. \A j, k \in 1..Len(u) : u[j] = u[k] => j = k
    <2> SUFFICES ASSUME NEW j \in 1..Len(u), NEW k \in 1..Len(u), u[j] = u[k] PROVE j = k OBVIOUS
    <2>1. PICK m, n : m = (IF j < i THEN j ELSE j - 1) /\ n = (IF k < i THEN k ELSE k - 1) OBVIOUS
    <2>2. (j # i => m \in 1..Len(t)) /\ (k # i => n \in 1..Len(t)) BY <1>1, <1>2, <1>7, <2>1
    <2>3. u[j] = (IF j = i THEN r ELSE t[m]) /\ u[k] = (IF k = i THEN r ELSE t[n]) BY <1>8, <2>1
    <2>4. CASE j = i \/ k = i BY <1>r, <2>2, <2>3, <2>4
    <2>5. CASE j # i /\ k # i
      <3>1. m = n BY <1>1, <2>2, <2>3, <2>5
      <3> QED BY <1>2, <2>1, <2>5, <3>1
    <2> QED BY <2>4, <2>5
  <1>10. Len(u) <= MaxTable BY <1>1, <1>7, RouteAssumption
  <1>11. u \in Tables BY <1>6, <1>9, <1>10, IsTable
  <1> QED BY <1>11 DEF u, v, a, b, InsertAt

-----------------------------------------------------------------------------
(* The records of the first n entries of t. *)
Expanded(t) == [i \in DOMAIN t |-> Expand(t[i])]
Upto(t, n) == IF n = 0 THEN <<>> ELSE Joined(Expanded(t))[n]
Hops == Routes \X {1, 2}

LEMMA ExpandType == ASSUME NEW r \in Routes PROVE Expand(r) \in Seq(Hops)
  <1>1. <<r, 1>> \in Hops /\ <<r, 2>> \in Hops BY DEF Hops
  <1> HIDE DEF Hops
  <1>2. /\ <<<<r, 1>>>> \in Seq(Hops)
        /\ <<<<r, 1>>, <<r, 2>>>> \in Seq(Hops)
        /\ <<>> \in Seq(Hops)
    BY <1>1
  <1> QED BY <1>2 DEF Expand

(* One entry more adds the records of its next hops. *)
LEMMA UptoNext ==
    ASSUME NEW t \in Tables, NEW n \in Nat, n < Len(t)
    PROVE  Upto(t, n + 1) = Upto(t, n) \o Expand(t[n + 1])
  <1>1. t \in Seq(Routes) /\ Len(t) \in Nat /\ DOMAIN t = 1..Len(t) BY TableType
  <1>2. \A i \in 1..Len(t) : t[i] \in Routes /\ Expand(t[i]) \in Seq(Hops) BY <1>1, ExpandType
  <1>3. PICK s : s = Expanded(t) OBVIOUS
  <1>4. s \in [1..Len(t) -> Seq(Hops)] /\ \A i \in 1..Len(t) : s[i] = Expand(t[i])
    BY <1>1, <1>2, <1>3 DEF Expanded
  <1>5. s \in Seq(Seq(Hops)) BY <1>1, <1>4, SeqDef
  <1>6. Len(s) = Len(t) BY <1>1, <1>4, <1>5
  <1>7. n + 1 \in 1..Len(t) BY <1>1
  <1>8. Joined(s)[n + 1] = IF n + 1 = 1 THEN s[n + 1] ELSE Joined(s)[(n + 1) - 1] \o s[n + 1]
    BY <1>5, <1>6, <1>7, JoinedEquation
  <1>9. s[n + 1] = Expand(t[n + 1]) BY <1>4, <1>7
  <1>10. CASE n = 0
    <2>1. <<>> \o Expand(t[n + 1]) = Expand(t[n + 1]) BY <1>2, <1>7, ConcatEmptySeq
    <2>2. Upto(t, n + 1) = Expand(t[n + 1]) BY <1>3, <1>8, <1>9, <1>10 DEF Upto
    <2>3. Upto(t, n) = <<>> BY <1>10 DEF Upto
    <2> QED BY <2>1, <2>2, <2>3
  <1>11. CASE n # 0
    <2>1. n + 1 # 0 /\ n + 1 # 1 /\ (n + 1) - 1 = n BY <1>11
    <2> QED BY <1>3, <1>8, <1>9, <1>11, <2>1 DEF Upto
  <1> QED BY <1>10, <1>11

(* The records of all entries are those of the table. *)
LEMMA UptoAll == ASSUME NEW t \in Tables PROVE Upto(t, Len(t)) = Records(t)
  <1>1. t \in Seq(Routes) /\ Len(t) \in Nat /\ DOMAIN t = 1..Len(t) BY TableType
  <1>2. \A i \in 1..Len(t) : Expand(t[i]) \in Seq(Hops) BY <1>1, ExpandType
  <1>3. PICK s : s = Expanded(t) OBVIOUS
  <1>4. s \in [1..Len(t) -> Seq(Hops)] BY <1>1, <1>2, <1>3 DEF Expanded
  <1>5. s \in Seq(Seq(Hops)) BY <1>1, <1>4, SeqDef
  <1>6. Len(s) = Len(t) BY <1>1, <1>4, <1>5
  <1>7. Records(t) = FlattenSeq(s) BY <1>3 DEF Records, Expanded
  <1>8. CASE Len(t) = 0
    <2>1. s = <<>> BY <1>5, <1>6, <1>8
    <2>2. FlattenSeq(s) = s BY <1>6, <1>8 DEF FlattenSeq
    <2> QED BY <1>7, <1>8, <2>1, <2>2 DEF Upto
  <1>9. CASE Len(t) # 0
    <2>1. FlattenSeq(s) = Joined(s)[Len(s)] BY <1>6, <1>9, FlattenJoins
    <2> QED BY <1>3, <1>6, <1>7, <1>9, <2>1 DEF Upto
  <1> QED BY <1>8, <1>9
-----------------------------------------------------------------------------
(***************************************************************************)
(* The inductive invariant.                                                *)
(***************************************************************************)
Reading == phase \in {"recv", "parse"}

(* What travels: messages and datagrams. *)
Messages == [type : {"NEWROUTE"}, route : Routes, intr : BOOLEAN]
            \cup [type : {"DONE", "ERROR", "OVERRUN"}, route : {NoRoute}, intr : BOOLEAN]
Datagrams == [foreign : BOOLEAN, truncated : BOOLEAN, msgs : Seq(Messages)]

TravelInv ==
    /\ queue \in Seq(Datagrams) /\ msgs \in Seq(Messages)
    /\ \A k \in 1..Len(queue) : Len(queue[k].msgs) <= Batch

(* Between two calls nothing is left of the last one. *)
PhaseInv ==
    /\ phase = "idle" => /\ changes = 0 /\ cursor = 0 /\ ~dumping /\ queue = <<>>
                         /\ trouble = {} /\ msgs = <<>> /\ routes = <<>> /\ ~complete
    /\ phase = "recv" => msgs = <<>>
    /\ phase # "done" => answer = NoAnswer

(* A mark says that the table has changed, a stray that there was one, and  *)
(* without a change the kernel is still walking the table of the request.   *)
CauseInv ==
    /\ \A i \in 1..Len(msgs) : msgs[i].intr => changes > 0
    /\ \A k \in 1..Len(queue) :
          /\ Unacceptable(queue[k]) => "stray" \in trouble
          /\ \A i \in 1..Len(queue[k].msgs) : queue[k].msgs[i].intr => changes > 0
    /\ Reading /\ changes = 0 => table = snap /\ cursor <= Len(snap)

(* m is marked, or is the n-th message of an undisturbed dump of snap. *)
Fits(m, n) == \/ m.intr
              \/ m.type = "NEWROUTE" /\ n <= Len(snap) /\ m.route = snap[n]
              \/ m.type = "DONE" /\ n = Len(snap) + 1
AllFit(s, n) == \A i \in 1..Len(s) : Fits(s[i], n + i)

(* What the p messages parsed so far have left. *)
Parsed(p) == IF complete THEN p = Len(snap) + 1 /\ routes = Records(snap)
             ELSE p <= Len(snap) /\ routes = Upto(snap, p)

(* Messages of the dump in a datagram. *)
Extent(d) == IF Unacceptable(d) THEN 0 ELSE Len(d.msgs)

(* After at[k] messages of the dump comes the k-th datagram of the queue,    *)
(* and after at[Len(queue) + 1] what the kernel has not produced yet.        *)
Follows(p, at) ==
    /\ at[1] = p + Len(msgs)
    /\ \A k \in 1..Len(queue) :
          /\ at[k + 1] = at[k] + Extent(queue[k])
          /\ Unacceptable(queue[k]) \/ AllFit(queue[k].msgs, at[k])
    /\ changes = 0 /\ dumping => at[Len(queue) + 1] = cursor

StreamInv ==
    Reading /\ "aborted" \notin trouble =>
        \E p \in Nat, at \in [1..Len(queue) + 1 -> Nat] :
            Parsed(p) /\ AllFit(msgs, p) /\ Follows(p, at)

DumpInv == /\ DumpTypeOK /\ TravelInv /\ PhaseInv /\ CauseInv /\ StreamInv
           /\ SuccessIsSnapshot /\ UndisturbedSucceeds

(* At first nothing has been asked. *)
LEMMA DumpInitInv == DumpInit => DumpInv
  <1> SUFFICES ASSUME DumpInit PROVE DumpInv OBVIOUS
  <1> USE DEF DumpInit
  <1>1. <<>> \in Tables BY EmptyTable
  <1>2. DumpTypeOK
    <2>1. Len(queue) = 0 /\ Len(msgs) = 0 /\ routes \in Seq(Routes \X {1, 2}) OBVIOUS
    <2>2. /\ 0 \in 0..MaxChanges /\ 0 \in 0..(MaxTable + MaxChanges)
          /\ 0 \in 0..QueueMax /\ 0 \in 0..Batch
      BY Bounds
    <2>3. table \in Tables /\ {complete, dumping} \subseteq BOOLEAN /\ answer.kind = "none"
      BY DEF NoAnswer
    <2> QED BY <1>1, <2>1, <2>2, <2>3 DEF DumpTypeOK
  <1>3. TravelInv
    <2>1. queue \in Seq(Datagrams) /\ msgs \in Seq(Messages) /\ Len(queue) = 0 OBVIOUS
    <2> QED BY <2>1 DEF TravelInv
  <1>4. PhaseInv BY DEF PhaseInv
  <1>5. CauseInv
    <2>1. Len(queue) = 0 /\ Len(msgs) = 0 OBVIOUS
    <2> QED BY <2>1 DEF CauseInv, Reading
  <1>6. StreamInv BY DEF StreamInv, Reading
  <1>7. SuccessIsSnapshot /\ UndisturbedSucceeds
    BY DEF SuccessIsSnapshot, UndisturbedSucceeds, NoAnswer
  <1> QED BY <1>2, <1>3, <1>4, <1>5, <1>6, <1>7 DEF DumpInv

(* A step that neither sends nor receives keeps the stream in order. *)
LEMMA StreamStays ==
    ASSUME StreamInv, UNCHANGED <<phase, msgs, routes, complete, snap, queue>>,
           trouble \subseteq trouble',
           changes' = 0 /\ dumping' => changes = 0 /\ dumping /\ cursor' = cursor
    PROVE  StreamInv'
  <1> SUFFICES ASSUME Reading', "aborted" \notin trouble'
               PROVE  \E p \in Nat, at \in [1..Len(queue') + 1 -> Nat] :
                          Parsed(p)' /\ AllFit(msgs, p)' /\ Follows(p, at)'
    BY DEF StreamInv
  <1>1. Reading /\ "aborted" \notin trouble BY DEF Reading
  <1>2. PICK p \in Nat, at \in [1..Len(queue) + 1 -> Nat] :
            Parsed(p) /\ AllFit(msgs, p) /\ Follows(p, at)
    BY <1>1 DEF StreamInv
  <1>3. Parsed(p)' BY <1>2 DEF Parsed
  <1>4. AllFit(msgs, p)' BY <1>2 DEF AllFit, Fits
  <1>5. Follows(p, at)' BY <1>2 DEF Follows, AllFit, Fits
  <1> QED BY <1>3, <1>4, <1>5

(* A datagram that joins the queue: it is a stranger's, or its messages come *)
(* next in the dump.                                                         *)
LEMMA StreamGrows ==
    ASSUME StreamInv, TravelInv, NEW d \in Datagrams, queue' = Append(queue, d),
           UNCHANGED <<phase, msgs, routes, complete, snap>>, trouble \subseteq trouble',
           Reading /\ "aborted" \notin trouble' =>
               \A n \in Nat : (changes = 0 /\ dumping => n = cursor) =>
                                  Unacceptable(d) \/ AllFit(d.msgs, n),
           changes' = 0 /\ dumping' => changes = 0 /\ dumping /\ cursor' = cursor + Extent(d)
    PROVE  StreamInv'
  <1> SUFFICES ASSUME Reading', "aborted" \notin trouble'
               PROVE  \E p \in Nat, at \in [1..Len(queue') + 1 -> Nat] :
                          Parsed(p)' /\ AllFit(msgs, p)' /\ Follows(p, at)'
    BY DEF StreamInv
  <1>1. Reading /\ "aborted" \notin trouble BY DEF Reading
  <1>2. PICK p \in Nat, at \in [1..Len(queue) + 1 -> Nat] :
            Parsed(p) /\ AllFit(msgs, p) /\ Follows(p, at)
    BY <1>1 DEF StreamInv
  <1>3. /\ queue \in Seq(Datagrams) /\ Len(queue) \in Nat /\ Len(queue') = Len(queue) + 1
        /\ \A k \in 1..Len(queue) : queue'[k] = queue[k]
        /\ queue'[Len(queue) + 1] = d
    BY AppendProperties, LenProperties DEF TravelInv
  <1>4. Extent(d) \in Nat BY LenProperties DEF Extent, Datagrams
  <1>5. PICK l : l = Len(queue) OBVIOUS
  <1>6. l \in Nat /\ at[l + 1] \in Nat BY <1>3, <1>5
  <1>7. PICK at2 : at2 = [k \in 1..l + 2 |-> IF k <= l + 1 THEN at[k] ELSE at[l + 1] + Extent(d)]
    OBVIOUS
  <1>8. /\ \A k \in 1..l + 1 : at2[k] = at[k]
        /\ at2[l + 2] = at[l + 1] + Extent(d)
    BY <1>6, <1>7
  <1>9. at2 \in [1..Len(queue') + 1 -> Nat]
    <2>1. \A k \in 1..l + 1 : at[k] \in Nat BY <1>5
    <2>2. at[l + 1] + Extent(d) \in Nat BY <1>4, <1>6
    <2>3. Len(queue') + 1 = l + 2 BY <1>3, <1>5, <1>6
    <2>4. \A k \in 1..l + 2 : k <= l + 1 => k \in 1..l + 1 BY <1>6
    <2> QED BY <1>7, <2>1, <2>2, <2>3, <2>4
  <1>10. Parsed(p)' BY <1>2 DEF Parsed
  <1>11. AllFit(msgs, p)' BY <1>2 DEF AllFit, Fits
  <1>12. Follows(p, at2)'
    <2>1. at2[1] = p + Len(msgs)
      <3>1. 1 \in 1..l + 1 BY <1>6
      <3> QED BY <1>2, <1>8, <3>1 DEF Follows
    <2>2. ASSUME NEW k \in 1..Len(queue')
          PROVE  /\ at2[k + 1] = at2[k] + Extent(queue'[k])
                 /\ Unacceptable(queue'[k]) \/ AllFit(queue'[k].msgs, at2[k])
      <3>1. CASE k \in 1..l
        <4>1. k \in 1..l + 1 /\ k + 1 \in 1..l + 1 BY <1>6, <3>1
        <4>2. at2[k] = at[k] /\ at2[k + 1] = at[k + 1] /\ queue'[k] = queue[k]
          BY <1>3, <1>5, <1>8, <3>1, <4>1
        <4> QED BY <1>2, <1>5, <3>1, <4>2 DEF Follows
      <3>2. CASE k = l + 1
        <4>1. l + 1 \in 1..l + 1 /\ k + 1 = l + 2 BY <1>6, <3>2
        <4>2. at2[k] = at[l + 1] /\ at2[k + 1] = at[l + 1] + Extent(d) /\ queue'[k] = d
          BY <1>3, <1>5, <1>8, <3>2, <4>1
        <4>3. changes = 0 /\ dumping => at[l + 1] = cursor BY <1>2, <1>5 DEF Follows
        <4>4. Unacceptable(d) \/ AllFit(d.msgs, at[l + 1]) BY <1>1, <1>6, <4>3
        <4> QED BY <4>2, <4>4
      <3> QED BY <1>3, <1>5, <1>6, <3>1, <3>2
    <2>3. changes' = 0 /\ dumping' => at2[Len(queue') + 1] = cursor'
      <3>1. Len(queue') + 1 = l + 2 BY <1>3, <1>5, <1>6
      <3>2. changes = 0 /\ dumping => at[l + 1] = cursor BY <1>2, <1>5 DEF Follows
      <3> QED BY <1>8, <3>1, <3>2
    <2> QED BY <2>1, <2>2, <2>3 DEF Follows, AllFit, Fits
  <1> QED BY <1>9, <1>10, <1>11, <1>12

-----------------------------------------------------------------------------
(* The kernel and other senders. *)

(* A message has the type it is sent with. *)
LEMMA MessageType ==
    ASSUME changes \in Nat
    PROVE  /\ \A r \in Routes : /\ Message("NEWROUTE", r) \in Messages
                                /\ Message("NEWROUTE", r).type = "NEWROUTE"
                                /\ Message("NEWROUTE", r).route = r
           /\ \A type \in {"DONE", "ERROR", "OVERRUN"} :
                  /\ Message(type, NoRoute) \in Messages /\ Message(type, NoRoute).type = type
           /\ \A type, r : Message(type, r).intr = (changes > 0)
  BY DEF Message, Messages

(* What a datagram in the queue must be for the invariant, other than the    *)
(* order of its messages.                                                    *)
LEMMA QueueGrows ==
    ASSUME DumpInv, NEW d \in Datagrams, queue' = Append(queue, d), Len(queue) < QueueMax,
           Len(d.msgs) <= Batch, changes' = changes, trouble \subseteq trouble',
           UNCHANGED <<table, phase, msgs, routes, complete, snap, answer>>,
           phase # "idle", cursor' \in 0..(MaxTable + MaxChanges), dumping' \in BOOLEAN,
           trouble' \subseteq {"aborted", "stray", "socket"},
           Unacceptable(d) => "stray" \in trouble',
           \A i \in 1..Len(d.msgs) : d.msgs[i].intr => changes > 0,
           Reading /\ changes = 0 => cursor' <= Len(snap),
           StreamInv'
    PROVE  DumpInv'
  <1>1. /\ queue \in Seq(Datagrams) /\ Len(queue) \in Nat /\ Len(queue') = Len(queue) + 1
        /\ queue' \in Seq(Datagrams)
        /\ \A k \in 1..Len(queue) : queue'[k] = queue[k]
        /\ queue'[Len(queue) + 1] = d
    BY AppendProperties, LenProperties DEF DumpInv, TravelInv
  <1>2. \A k \in 1..Len(queue') : k \in 1..Len(queue) \/ k = Len(queue) + 1 BY <1>1
  <1>3. DumpTypeOK'
    <2>1. Len(queue') \in 0..QueueMax BY <1>1, Bounds
    <2> QED BY <2>1 DEF DumpInv, DumpTypeOK
  <1>4. TravelInv' BY <1>1, <1>2 DEF DumpInv, TravelInv
  <1>5. PhaseInv' BY DEF DumpInv, PhaseInv
  <1>6. CauseInv'
    <2>1. CauseInv BY DEF DumpInv
    <2>2. ASSUME NEW k \in 1..Len(queue')
          PROVE  /\ Unacceptable(queue'[k]) => "stray" \in trouble'
                 /\ \A i \in 1..Len(queue'[k].msgs) : queue'[k].msgs[i].intr => changes > 0
      <3>1. CASE k \in 1..Len(queue)
        <4>1. queue'[k] = queue[k] BY <1>1, <3>1
        <4> QED BY <2>1, <3>1, <4>1 DEF CauseInv
      <3>2. CASE k = Len(queue) + 1 BY <1>1, <3>2
      <3> QED BY <1>2, <3>1, <3>2
    <2> QED BY <2>1, <2>2 DEF CauseInv, Reading, Unacceptable
  <1>7. SuccessIsSnapshot' BY DEF DumpInv, SuccessIsSnapshot
  <1>8. UndisturbedSucceeds'
    <2>1. trouble' = {} => trouble = {} OBVIOUS
    <2> QED BY <2>1 DEF DumpInv, UndisturbedSucceeds
  <1> QED BY <1>3, <1>4, <1>5, <1>6, <1>7, <1>8 DEF DumpInv

(* Another process changes the table. *)
LEMMA TableChangeInv == ASSUME DumpInv, TableChange PROVE DumpInv'
  <1>1. /\ changes' = changes + 1 /\ changes \in 0..MaxChanges /\ changes < MaxChanges
        /\ changes \in Nat /\ phase # "idle"
        /\ UNCHANGED <<cursor, dumping, queue, trouble, phase, msgs, routes, complete, snap, answer>>
    BY Bounds DEF TableChange, DumpInv, DumpTypeOK
  <1>2. changes' \in 0..MaxChanges /\ changes' > 0 /\ changes' # 0 BY <1>1, Bounds
  <1>3. table' \in Tables
    <2>1. table \in Tables BY DEF DumpInv, DumpTypeOK
    <2>2. CASE \E i \in DOMAIN table : table' = RemoveAt(table, i) BY <2>1, <2>2, RemoveTable
    <2>3. CASE /\ Len(table) < MaxTable
               /\ \E i \in 1..(Len(table) + 1), r \in Routes \ ToSet(table) :
                      table' = InsertAt(table, i, r)
      BY <2>1, <2>3, InsertTable
    <2> QED BY <2>2, <2>3 DEF TableChange
  <1>4. DumpTypeOK' BY <1>1, <1>2, <1>3 DEF DumpInv, DumpTypeOK
  <1>5. TravelInv' /\ PhaseInv' BY <1>1 DEF DumpInv, TravelInv, PhaseInv
  <1>6. CauseInv' BY <1>1, <1>2 DEF DumpInv, CauseInv, Reading, Unacceptable
  <1>7. StreamInv' BY <1>1, <1>2, StreamStays DEF DumpInv
  <1>8. SuccessIsSnapshot' BY <1>1 DEF DumpInv, SuccessIsSnapshot
  <1>9. UndisturbedSucceeds' BY <1>2 DEF UndisturbedSucceeds
  <1> QED BY <1>4, <1>5, <1>6, <1>7, <1>8, <1>9 DEF DumpInv

(* A datagram of the dump: its messages are marked, or they are the entries  *)
(* of snap from the cursor on, with NLMSG_DONE after the last of them.       *)
LEMMA ProduceInv == ASSUME DumpInv, Produce PROVE DumpInv'
  <1>0. /\ DumpTypeOK /\ TravelInv /\ CauseInv /\ StreamInv
        /\ changes \in Nat /\ cursor \in Nat /\ dumping /\ Len(queue) < QueueMax
        /\ phase # "idle" /\ table \in Tables
        /\ UNCHANGED <<table, changes, trouble, phase, msgs, routes, complete, snap, answer>>
    BY Bounds DEF Produce, DumpInv, DumpTypeOK, PhaseInv
  <1>1. PICK n \in 0..Batch, done \in BOOLEAN :
            /\ n > 0 \/ done
            /\ n > 0 => cursor + n <= Len(table)
            /\ done => n < Batch /\ cursor + n >= Len(table)
            /\ cursor' = cursor + n
            /\ dumping' = ~done
            /\ queue' = Append(queue,
                    [foreign |-> FALSE, truncated |-> FALSE,
                     msgs |-> IF done THEN Append([i \in 1..n |-> Message("NEWROUTE", table[cursor + i])],
                                                  Message("DONE", NoRoute))
                              ELSE [i \in 1..n |-> Message("NEWROUTE", table[cursor + i])]])
    BY DEF Produce
  <1>2. /\ table \in Seq(Routes) /\ Len(table) \in Nat /\ Len(table) <= MaxTable
        /\ n \in Nat /\ n <= Batch
    BY <1>0, TableType, Bounds
  <1>3. PICK body : body = [i \in 1..n |-> Message("NEWROUTE", table[cursor + i])] OBVIOUS
  <1>4. ASSUME NEW i \in 1..n PROVE cursor + i \in 1..Len(table) /\ table[cursor + i] \in Routes
    <2>1. cursor + i \in 1..Len(table) BY <1>0, <1>1, <1>2
    <2> QED BY <1>2, <2>1
  <1>5. /\ body \in Seq(Messages) /\ Len(body) = n
        /\ \A i \in 1..n : body[i] = Message("NEWROUTE", table[cursor + i])
    <2>1. body \in [1..n -> Messages] BY <1>0, <1>3, <1>4, MessageType
    <2> QED BY <1>2, <1>3, <2>1, SeqDef
  <1>6. PICK last : last = Message("DONE", NoRoute) OBVIOUS
  <1>7. last \in Messages /\ last.type = "DONE" /\ last.intr = (changes > 0)
    BY <1>0, <1>6, MessageType
  <1>8. PICK all : all = IF done THEN Append(body, last) ELSE body OBVIOUS
  <1>9. /\ all \in Seq(Messages) /\ Len(all) = n + (IF done THEN 1 ELSE 0)
        /\ \A i \in 1..n : all[i] = body[i]
        /\ done => all[n + 1] = last
    BY <1>2, <1>5, <1>7, <1>8, AppendProperties
  <1>10. PICK d : d = [foreign |-> FALSE, truncated |-> FALSE, msgs |-> all] OBVIOUS
  <1>11. /\ d \in Datagrams /\ d.msgs = all /\ ~Unacceptable(d) /\ queue' = Append(queue, d)
    <2>1. ~d.foreign /\ ~d.truncated /\ d.msgs = all BY <1>10
    <2>2. d \in Datagrams BY <1>9, <1>10 DEF Datagrams
    <2>3. queue' = Append(queue, d) BY Zenon, <1>1, <1>3, <1>6, <1>8, <1>10
    <2> QED BY <2>1, <2>2, <2>3 DEF Unacceptable
  <1>12. Len(all) <= Batch BY <1>1, <1>2, <1>9, Bounds
  <1>13. \A i \in 1..Len(all) : all[i].intr = (changes > 0)
    <2> SUFFICES ASSUME NEW i \in 1..Len(all) PROVE all[i].intr = (changes > 0) OBVIOUS
    <2>1. i \in 1..n \/ (done /\ i = n + 1) BY <1>2, <1>9
    <2>2. CASE i \in 1..n BY <1>0, <1>5, <1>9, <2>2, MessageType
    <2>3. CASE done /\ i = n + 1 BY <1>7, <1>9, <2>3
    <2> QED BY <2>1, <2>2, <2>3
  <1>14. Reading /\ changes = 0 => cursor' <= Len(snap)
    BY <1>0, <1>1, <1>2 DEF CauseInv
  <1>15. ASSUME Reading, NEW m \in Nat, changes = 0 /\ dumping => m = cursor
         PROVE  AllFit(all, m)
    <2> SUFFICES ASSUME NEW i \in 1..Len(all) PROVE Fits(all[i], m + i) BY DEF AllFit
    <2>1. CASE changes > 0 BY <1>13, <2>1 DEF Fits
    <2>2. CASE changes = 0
      <3>1. m = cursor /\ table = snap /\ cursor <= Len(snap)
        BY <1>0, <1>15, <2>2 DEF CauseInv
      <3>2. i \in 1..n \/ (done /\ i = n + 1) BY <1>2, <1>9
      <3>3. CASE i \in 1..n
        <4>1. all[i] = Message("NEWROUTE", table[cursor + i]) BY <1>5, <1>9, <3>3
        <4>2. cursor + i \in 1..Len(table) /\ table[cursor + i] \in Routes BY <1>4, <3>3
        <4>3. all[i].type = "NEWROUTE" /\ all[i].route = table[cursor + i]
          BY <1>0, <4>1, <4>2, MessageType
        <4> QED BY <1>2, <3>1, <4>2, <4>3 DEF Fits
      <3>4. CASE done /\ i = n + 1
        <4>1. m + i = Len(snap) + 1
          <5>1. cursor \in Nat /\ n \in Nat /\ Len(table) \in Nat BY <1>0, <1>2
          <5>2. n > 0 => cursor + n <= Len(table) BY <1>1
          <5>3. cursor + n >= Len(table) BY <1>1, <3>4
          <5>4. Len(table) = Len(snap) /\ cursor <= Len(snap) /\ m = cursor /\ i = n + 1
            BY <3>1, <3>4
          <5> QED BY ONLY <5>1, <5>2, <5>3, <5>4
        <4> QED BY <1>7, <1>9, <3>4, <4>1 DEF Fits
      <3> QED BY <3>2, <3>3, <3>4
    <2> QED BY <1>0, <2>1, <2>2
  <1>16. changes' = 0 /\ dumping' => changes = 0 /\ dumping /\ cursor' = cursor + Extent(d)
    <2>1. Extent(d) = Len(all) BY <1>11 DEF Extent
    <2>2. dumping' => ~done BY <1>1
    <2>3. ~done => Len(all) = n BY <1>2, <1>9
    <2> QED BY <1>0, <1>1, <2>1, <2>2, <2>3
  <1>17. StreamInv'
    <2>1. Reading /\ "aborted" \notin trouble' =>
               \A m \in Nat : (changes = 0 /\ dumping => m = cursor) =>
                                  Unacceptable(d) \/ AllFit(d.msgs, m)
      BY <1>11, <1>15
    <2> QED BY <1>0, <1>11, <1>16, <2>1, StreamGrows
  <1>18. cursor' \in 0..(MaxTable + MaxChanges)
    BY <1>0, <1>1, <1>2, Bounds DEF DumpTypeOK
  <1>19. /\ trouble' = trouble /\ trouble \subseteq {"aborted", "stray", "socket"}
         /\ dumping' \in BOOLEAN
    BY <1>0, <1>1 DEF DumpTypeOK
  <1>20. Len(d.msgs) <= Batch /\ \A i \in 1..Len(d.msgs) : d.msgs[i].intr => changes > 0
    BY <1>11, <1>12, <1>13
  <1> QED BY <1>0, <1>11, <1>14, <1>17, <1>18, <1>19, <1>20, QueueGrows

(* The kernel gives up. *)
LEMMA AbortInv == ASSUME DumpInv, Abort PROVE DumpInv'
  <1>0. /\ DumpTypeOK /\ CauseInv /\ changes \in Nat /\ dumping /\ Len(queue) < QueueMax
        /\ phase # "idle" /\ dumping' = FALSE /\ trouble' = trouble \cup {"aborted"}
        /\ UNCHANGED <<table, changes, cursor, phase, msgs, routes, complete, snap, answer>>
    BY Bounds DEF Abort, DumpInv, DumpTypeOK, PhaseInv
  <1>1. PICK type \in {"ERROR", "OVERRUN", "DONE"} :
            queue' = Append(queue, [foreign |-> FALSE, truncated |-> FALSE,
                                    msgs |-> <<Message(type, NoRoute)>>])
    BY DEF Abort
  <1>2. PICK m : m = Message(type, NoRoute) OBVIOUS
  <1>3. m \in Messages /\ m.intr = (changes > 0) BY <1>0, <1>2, MessageType
  <1>4. PICK all : all = <<m>> OBVIOUS
  <1>5. all \in Seq(Messages) /\ Len(all) = 1 /\ all[1] = m BY <1>3, <1>4
  <1>6. PICK d : d = [foreign |-> FALSE, truncated |-> FALSE, msgs |-> all] OBVIOUS
  <1>7. d \in Datagrams /\ d.msgs = all /\ ~Unacceptable(d) /\ queue' = Append(queue, d)
    <2>1. ~d.foreign /\ ~d.truncated /\ d.msgs = all BY <1>6
    <2>2. d \in Datagrams BY <1>5, <1>6 DEF Datagrams
    <2>3. queue' = Append(queue, d) BY Zenon, <1>1, <1>2, <1>4, <1>6
    <2> QED BY <2>1, <2>2, <2>3 DEF Unacceptable
  <1>8. StreamInv' BY <1>0 DEF StreamInv
  <1>9. Len(d.msgs) <= Batch /\ \A i \in 1..Len(d.msgs) : d.msgs[i].intr => changes > 0
    <2>1. d.msgs = all BY <1>7
    <2>2. Len(all) <= Batch BY <1>5, Bounds
    <2>3. ASSUME NEW i \in 1..Len(all) PROVE all[i].intr => changes > 0
      <3>1. i = 1 BY <1>5
      <3> QED BY <1>3, <1>5, <3>1
    <2> QED BY <2>1, <2>2, <2>3
  <1>10. /\ trouble' \subseteq {"aborted", "stray", "socket"} /\ trouble \subseteq trouble'
         /\ dumping' \in BOOLEAN /\ cursor' \in 0..(MaxTable + MaxChanges)
         /\ Reading /\ changes = 0 => cursor' <= Len(snap)
    BY <1>0 DEF DumpTypeOK, CauseInv
  <1> QED BY <1>0, <1>7, <1>8, <1>9, <1>10, QueueGrows

(* A stranger's datagram, or one that was cut off. *)
LEMMA StrayInv == ASSUME DumpInv, Stray PROVE DumpInv'
  <1>0. /\ DumpTypeOK /\ TravelInv /\ CauseInv /\ StreamInv /\ changes \in Nat /\ cursor \in Nat
        /\ Len(queue) < QueueMax /\ phase # "idle" /\ trouble' = trouble \cup {"stray"}
        /\ UNCHANGED <<table, changes, cursor, dumping, phase, msgs, routes, complete, snap, answer>>
    BY Bounds DEF Stray, DumpInv, DumpTypeOK
  <1>1. PICK f \in BOOLEAN : queue' = Append(queue, [foreign |-> f, truncated |-> ~f,
                                                     msgs |-> <<Message("DONE", NoRoute)>>])
    BY DEF Stray
  <1>2. PICK m : m = Message("DONE", NoRoute) OBVIOUS
  <1>3. m \in Messages /\ m.intr = (changes > 0) BY <1>0, <1>2, MessageType
  <1>4. PICK all : all = <<m>> OBVIOUS
  <1>5. all \in Seq(Messages) /\ Len(all) = 1 /\ all[1] = m BY <1>3, <1>4
  <1>6. PICK d : d = [foreign |-> f, truncated |-> ~f, msgs |-> all] OBVIOUS
  <1>7. d \in Datagrams /\ d.msgs = all /\ Unacceptable(d) /\ queue' = Append(queue, d)
    <2>1. d.foreign = f /\ d.truncated = ~f /\ d.msgs = all BY <1>6
    <2>2. d \in Datagrams BY <1>5, <1>6 DEF Datagrams
    <2>3. queue' = Append(queue, d) BY Zenon, <1>1, <1>2, <1>4, <1>6
    <2> QED BY <1>1, <2>1, <2>2, <2>3 DEF Unacceptable
  <1>8. StreamInv'
    <2>1. changes' = 0 /\ dumping' => changes = 0 /\ dumping /\ cursor' = cursor + Extent(d)
      BY <1>0, <1>7 DEF Extent
    <2>2. trouble \subseteq trouble' BY <1>0
    <2> QED BY <1>0, <1>7, <2>1, <2>2, StreamGrows
  <1>9. Len(d.msgs) <= Batch /\ \A i \in 1..Len(d.msgs) : d.msgs[i].intr => changes > 0
    <2>1. d.msgs = all BY <1>7
    <2>2. Len(all) <= Batch BY <1>5, Bounds
    <2>3. ASSUME NEW i \in 1..Len(all) PROVE all[i].intr => changes > 0
      <3>1. i = 1 BY <1>5
      <3> QED BY <1>3, <1>5, <3>1
    <2> QED BY <2>1, <2>2, <2>3
  <1>10. /\ trouble' \subseteq {"aborted", "stray", "socket"} /\ trouble \subseteq trouble'
         /\ "stray" \in trouble'
         /\ dumping' \in BOOLEAN /\ cursor' \in 0..(MaxTable + MaxChanges)
         /\ Reading /\ changes = 0 => cursor' <= Len(snap)
    BY <1>0 DEF DumpTypeOK, CauseInv
  <1> QED BY <1>0, <1>7, <1>8, <1>9, <1>10, QueueGrows

-----------------------------------------------------------------------------
(* The caller. *)

(* A call that gives up: what matters is whether it had a reason to. *)
LEMMA FailureInv ==
    ASSUME DumpInv, NEW code, phase' = "done", answer' = Failed(code),
           UNCHANGED <<table, changes, cursor, dumping, msgs, routes, complete, snap>>,
           queue' \in Seq(Datagrams), Len(queue') <= Len(queue),
           \A k \in 1..Len(queue') : \E j \in 1..Len(queue) : queue'[k] = queue[j],
           trouble \subseteq trouble', trouble' \subseteq {"aborted", "stray", "socket"},
           UndisturbedSucceeds'
    PROVE  DumpInv'
  <1>1. answer'.kind = "error" BY DEF Failed
  <1>2. DumpTypeOK'
    <2>1. Len(queue') \in 0..QueueMax BY Bounds, LenProperties DEF DumpInv, DumpTypeOK
    <2> QED BY <1>1, <2>1 DEF DumpInv, DumpTypeOK
  <1>3. TravelInv' BY DEF DumpInv, TravelInv
  <1>4. PhaseInv' BY DEF PhaseInv
  <1>5. CauseInv' BY DEF DumpInv, CauseInv, Reading, Unacceptable
  <1>6. StreamInv' BY DEF StreamInv, Reading
  <1>7. SuccessIsSnapshot' BY <1>1 DEF SuccessIsSnapshot
  <1> QED BY <1>2, <1>3, <1>4, <1>5, <1>6, <1>7 DEF DumpInv

(* The dump starts from the beginning of the table as it stands. *)
LEMMA RequestInv == ASSUME DumpInv, Request PROVE DumpInv'
  <1>1. /\ changes = 0 /\ cursor = 0 /\ ~dumping /\ queue = <<>> /\ trouble = {}
        /\ msgs = <<>> /\ routes = <<>> /\ ~complete /\ answer = NoAnswer
        /\ table \in Tables /\ complete \in BOOLEAN
        /\ UNCHANGED <<table, changes, cursor, queue, msgs, routes, complete>>
    BY DEF Request, DumpInv, PhaseInv, DumpTypeOK
  <1>2. queue \in Seq(Datagrams) /\ Len(queue) = 0 /\ Len(msgs) = 0 BY <1>1
  <1>3. CASE /\ phase' = "recv" /\ dumping' = TRUE /\ snap' = table
             /\ UNCHANGED <<trouble, answer>>
    <2>1. Len(table) \in Nat BY <1>1, TableType
    <2>2. DumpTypeOK' BY <1>1, <1>3 DEF DumpInv, DumpTypeOK
    <2>3. TravelInv' BY <1>1, <1>3 DEF DumpInv, TravelInv
    <2>4. PhaseInv' BY <1>1, <1>3 DEF PhaseInv
    <2>5. CauseInv' BY <1>1, <1>2, <1>3, <2>1 DEF CauseInv
    <2>6. StreamInv'
      <3>1. PICK at : at = [k \in 1..Len(queue) + 1 |-> 0] OBVIOUS
      <3>2. at \in [1..Len(queue') + 1 -> Nat] /\ at[1] = 0 BY <1>1, <1>2, <3>1
      <3>3. Parsed(0)' BY <1>1, <1>3, <2>1 DEF Parsed, Upto
      <3>4. AllFit(msgs, 0)' BY <1>1, <1>2 DEF AllFit
      <3>5. Follows(0, at)' BY <1>1, <1>2, <3>2 DEF Follows
      <3> QED BY <3>2, <3>3, <3>4, <3>5 DEF StreamInv
    <2>7. SuccessIsSnapshot' /\ UndisturbedSucceeds'
      BY <1>1, <1>3 DEF SuccessIsSnapshot, UndisturbedSucceeds, NoAnswer
    <2> QED BY <2>2, <2>3, <2>4, <2>5, <2>6, <2>7 DEF DumpInv
  <1>4. CASE /\ trouble' = {"socket"}
             /\ \E code \in {"EMFILE", "io_error"} : Return(Failed(code))
             /\ UNCHANGED <<dumping, snap>>
    <2>1. PICK code : phase' = "done" /\ answer' = Failed(code) BY <1>4 DEF Return
    <2>2. UndisturbedSucceeds' BY <1>4 DEF UndisturbedSucceeds
    <2>3. trouble \subseteq trouble' /\ trouble' \subseteq {"aborted", "stray", "socket"}
      BY <1>1, <1>4
    <2>4. \A k \in 1..Len(queue') : \E j \in 1..Len(queue) : queue'[k] = queue[j] BY <1>1
    <2>5. queue' \in Seq(Datagrams) /\ Len(queue') <= Len(queue) BY <1>1, <1>2
    <2> QED BY <1>1, <1>4, <2>1, <2>2, <2>3, <2>4, <2>5, FailureInv
  <1> QED BY <1>3, <1>4 DEF Request

(* The queue behind its head. *)
LEMMA QueueTail ==
    ASSUME TravelInv, queue # <<>>, queue' = Tail(queue)
    PROVE  /\ queue' \in Seq(Datagrams) /\ Len(queue) \in Nat \ {0}
           /\ Len(queue') = Len(queue) - 1
           /\ Head(queue) = queue[1] /\ queue[1] \in Datagrams
           /\ \A k \in 1..Len(queue') : k + 1 \in 1..Len(queue) /\ queue'[k] = queue[k + 1]
  <1>1. queue \in Seq(Datagrams) BY DEF TravelInv
  <1>2. Len(queue) \in Nat \ {0} BY <1>1, EmptySeq, LenProperties
  <1>3. queue' \in Seq(Datagrams) /\ Len(queue') = Len(queue) - 1 BY <1>1, HeadTailProperties
  <1>4. Head(queue) = queue[1] /\ queue[1] \in Datagrams BY <1>1, <1>2
  <1>5. \A k \in 1..Len(queue') : k + 1 \in 1..Len(queue) /\ queue'[k] = queue[k + 1]
    BY <1>1, <1>2, <1>3
  <1> QED BY <1>1, <1>2, <1>3, <1>4, <1>5

(* A datagram is taken from the queue: its messages are the next to parse. *)
LEMMA ReceiveInv == ASSUME DumpInv, Receive PROVE DumpInv'
  <1>0. /\ DumpTypeOK /\ TravelInv /\ CauseInv /\ StreamInv /\ phase = "recv" /\ queue # <<>>
        /\ queue' = Tail(queue) /\ msgs = <<>> /\ answer = NoAnswer
        /\ UNCHANGED <<table, changes, cursor, dumping, trouble, routes, complete, snap>>
    BY DEF DumpInv, PhaseInv, Receive
  <1>1. /\ queue' \in Seq(Datagrams) /\ Len(queue) \in Nat \ {0}
        /\ Len(queue') = Len(queue) - 1
        /\ Head(queue) = queue[1] /\ queue[1] \in Datagrams
        /\ \A k \in 1..Len(queue') : k + 1 \in 1..Len(queue) /\ queue'[k] = queue[k + 1]
    BY <1>0, QueueTail
  <1>2. 1 \in 1..Len(queue) BY <1>1
  <1>3. CASE Unacceptable(Head(queue))
    <2>1. phase' = "done" /\ answer' = Failed("malformed_data") /\ msgs' = msgs
      BY <1>3 DEF Receive, Return
    <2>2. "stray" \in trouble BY <1>0, <1>1, <1>2, <1>3 DEF CauseInv
    <2>3. UndisturbedSucceeds' BY <1>0, <2>2 DEF UndisturbedSucceeds
    <2>4. \A k \in 1..Len(queue') : \E j \in 1..Len(queue) : queue'[k] = queue[j] BY <1>1
    <2>5. trouble' \subseteq {"aborted", "stray", "socket"} BY <1>0 DEF DumpTypeOK
    <2>6. Len(queue') <= Len(queue) BY <1>1
    <2> QED BY <1>0, <1>1, <2>1, <2>3, <2>4, <2>5, <2>6, FailureInv
  <1>4. CASE ~Unacceptable(Head(queue))
    <2>1. phase' = "parse" /\ msgs' = queue[1].msgs /\ answer' = answer
      BY <1>1, <1>4 DEF Receive
    <2>2. msgs' \in Seq(Messages) /\ Len(msgs') \in 0..Batch
      <3>1. msgs' \in Seq(Messages) BY <1>1, <2>1 DEF Datagrams
      <3>2. Len(msgs') \in Nat BY <3>1, LenProperties
      <3>3. Len(msgs') <= Batch BY <1>0, <1>2, <2>1 DEF TravelInv
      <3> QED BY <3>1, <3>2, <3>3, Bounds
    <2>3. DumpTypeOK'
      <3>1. Len(queue') \in 0..QueueMax BY <1>0, <1>1, Bounds DEF DumpTypeOK
      <3> QED BY <1>0, <2>1, <2>2, <3>1 DEF DumpTypeOK
    <2>4. TravelInv' BY <1>0, <1>1, <2>2 DEF TravelInv
    <2>5. PhaseInv' BY <1>0, <2>1 DEF PhaseInv
    <2>6. CauseInv'
      <3>1. \A i \in 1..Len(msgs') : msgs'[i].intr => changes > 0
        BY <1>0, <1>2, <2>1 DEF CauseInv
      <3>2. ASSUME NEW k \in 1..Len(queue')
            PROVE  /\ Unacceptable(queue'[k]) => "stray" \in trouble
                   /\ \A i \in 1..Len(queue'[k].msgs) : queue'[k].msgs[i].intr => changes > 0
        <4>1. k + 1 \in 1..Len(queue) /\ queue'[k] = queue[k + 1] BY <1>1
        <4> QED BY <1>0, <4>1 DEF CauseInv
      <3>3. changes = 0 => table = snap /\ cursor <= Len(snap)
        BY <1>0 DEF CauseInv, Reading
      <3> QED BY <1>0, <3>1, <3>2, <3>3 DEF CauseInv, Unacceptable
    <2>7. StreamInv'
      <3> SUFFICES ASSUME "aborted" \notin trouble
                   PROVE  \E p \in Nat, at \in [1..Len(queue') + 1 -> Nat] :
                              Parsed(p)' /\ AllFit(msgs, p)' /\ Follows(p, at)'
        BY <1>0 DEF StreamInv
      <3>1. PICK p \in Nat, at \in [1..Len(queue) + 1 -> Nat] :
                Parsed(p) /\ AllFit(msgs, p) /\ Follows(p, at)
        BY <1>0 DEF StreamInv, Reading
      <3>2. at[1] = p BY <1>0, <3>1 DEF Follows
      <3>3. /\ at[2] = at[1] + Len(queue[1].msgs)
            /\ AllFit(queue[1].msgs, at[1])
        <4>1. at[1 + 1] = at[1] + Extent(queue[1]) /\ AllFit(queue[1].msgs, at[1])
          BY <1>1, <1>2, <1>4, <3>1 DEF Follows
        <4> QED BY <1>1, <1>4, <4>1 DEF Extent
      <3>4. PICK l : l = Len(queue') OBVIOUS
      <3>5. l \in Nat /\ Len(queue) = l + 1 BY <1>1, <3>4
      <3>6. PICK at2 : at2 = [k \in 1..l + 1 |-> at[k + 1]] OBVIOUS
      <3>7. \A k \in 1..l + 1 : k + 1 \in 1..Len(queue) + 1 /\ at2[k] = at[k + 1]
        BY <3>5, <3>6
      <3>8. at2 \in [1..Len(queue') + 1 -> Nat]
        <4>1. \A k \in 1..l + 1 : at[k + 1] \in Nat BY <3>7
        <4> QED BY <3>4, <3>6, <4>1
      <3>9. Parsed(p)' BY <1>0, <3>1 DEF Parsed
      <3>10. AllFit(msgs, p)' BY <1>0, <2>1, <3>2, <3>3 DEF AllFit, Fits
      <3>11. Follows(p, at2)'
        <4>1. at2[1] = p + Len(msgs')
          <5>1. 1 \in 1..l + 1 BY <3>5
          <5>2. at2[1] = at[2] BY <3>7, <5>1
          <5> QED BY <2>1, <3>2, <3>3, <5>2
        <4>2. ASSUME NEW k \in 1..Len(queue')
              PROVE  /\ at2[k + 1] = at2[k] + Extent(queue'[k])
                     /\ Unacceptable(queue'[k]) \/ AllFit(queue'[k].msgs, at2[k])
          <5>1. k \in 1..l + 1 /\ k + 1 \in 1..l + 1 BY <3>4, <3>5
          <5>2. at2[k] = at[k + 1] /\ at2[k + 1] = at[(k + 1) + 1] BY <3>7, <5>1
          <5>3. k + 1 \in 1..Len(queue) /\ queue'[k] = queue[k + 1] BY <1>1
          <5>4. /\ at[(k + 1) + 1] = at[k + 1] + Extent(queue[k + 1])
                /\ Unacceptable(queue[k + 1]) \/ AllFit(queue[k + 1].msgs, at[k + 1])
            BY <3>1, <5>3 DEF Follows
          <5> QED BY <5>2, <5>3, <5>4
        <4>3. changes = 0 /\ dumping => at2[Len(queue') + 1] = cursor
          <5>1. l + 1 \in 1..l + 1 BY <3>5
          <5>2. at2[l + 1] = at[Len(queue) + 1] BY <3>5, <3>7, <5>1
          <5> QED BY <3>1, <3>4, <5>2 DEF Follows
        <4> QED BY <1>0, <4>1, <4>2, <4>3 DEF Follows, AllFit, Fits
      <3> QED BY <3>8, <3>9, <3>10, <3>11
    <2>8. SuccessIsSnapshot' /\ UndisturbedSucceeds'
      BY <1>0, <2>1 DEF SuccessIsSnapshot, UndisturbedSucceeds, NoAnswer
    <2> QED BY <2>3, <2>4, <2>5, <2>6, <2>7, <2>8 DEF DumpInv
  <1> QED BY <1>3, <1>4

(* The socket fails. *)
LEMMA ReceiveFailsInv == ASSUME DumpInv, ReceiveFails PROVE DumpInv'
  <1>1. PICK code : phase' = "done" /\ answer' = Failed(code) BY DEF ReceiveFails, Return
  <1>2. /\ trouble' = trouble \cup {"socket"}
        /\ UNCHANGED <<table, changes, cursor, dumping, queue, msgs, routes, complete, snap>>
    BY DEF ReceiveFails
  <1>3. UndisturbedSucceeds' BY <1>2 DEF UndisturbedSucceeds
  <1>4. trouble \subseteq trouble' /\ trouble' \subseteq {"aborted", "stray", "socket"}
    BY <1>2 DEF DumpInv, DumpTypeOK
  <1>5. queue' \in Seq(Datagrams) /\ Len(queue') <= Len(queue)
    <2>1. queue \in Seq(Datagrams) BY DEF DumpInv, TravelInv
    <2>2. Len(queue) \in Nat BY <2>1, LenProperties
    <2> QED BY <1>2, <2>1, <2>2
  <1>6. \A k \in 1..Len(queue') : \E j \in 1..Len(queue) : queue'[k] = queue[j] BY <1>2
  <1> QED BY <1>1, <1>2, <1>3, <1>4, <1>5, <1>6, FailureInv

(* What parse_linux_route_datagram makes of a message. *)
LEMMA MessageErrors ==
    ASSUME NEW m \in Messages
    PROVE  /\ m.intr \in BOOLEAN /\ m.type \in {"NEWROUTE", "DONE", "ERROR", "OVERRUN"}
           /\ m.type = "NEWROUTE" => m.route \in Routes
           /\ m.intr => MessageError(m) # "none"
           /\ ~m.intr /\ m.type \in {"ERROR", "OVERRUN"} => MessageError(m) # "none"
           /\ ~m.intr /\ m.type = "DONE" => MessageError(m) = "none"
           /\ ~m.intr /\ m.type = "NEWROUTE" => MessageError(m) = RouteError(m.route)
  <1>1. /\ m.intr \in BOOLEAN /\ m.type \in {"NEWROUTE", "DONE", "ERROR", "OVERRUN"}
        /\ m.type = "NEWROUTE" => m.route \in Routes
    BY DEF Messages
  <1>2. m.intr => MessageError(m) # "none" BY <1>1 DEF MessageError
  <1>3. ~m.intr /\ m.type = "ERROR" => MessageError(m) = "EIO" BY <1>1 DEF MessageError
  <1>4. ~m.intr /\ m.type = "OVERRUN" => MessageError(m) = "temporarily_unavailable"
    BY <1>1 DEF MessageError
  <1>5. ~m.intr /\ m.type = "DONE" => MessageError(m) = "none" BY <1>1 DEF MessageError
  <1>6. ~m.intr /\ m.type = "NEWROUTE" => MessageError(m) = RouteError(m.route)
    BY <1>1 DEF MessageError
  <1> QED BY <1>1, <1>2, <1>3, <1>4, <1>5, <1>6

(* A message is parsed: the next entry of snap, or the end of the dump; or   *)
(* it is refused, which an undisturbed dump of such entries gives no cause   *)
(* for.                                                                      *)
LEMMA ParseMessageInv == ASSUME DumpInv, ParseMessage PROVE DumpInv'
  <1>0. /\ DumpTypeOK /\ TravelInv /\ CauseInv /\ StreamInv /\ phase = "parse" /\ Reading
        /\ msgs # <<>> /\ answer = NoAnswer /\ msgs \in Seq(Messages)
        /\ UNCHANGED <<table, changes, cursor, dumping, queue, trouble, snap>>
    BY DEF DumpInv, PhaseInv, ParseMessage, kernelVars, Reading, TravelInv
  <1>1. PICK m : m = Head(msgs) OBVIOUS
  <1>2. Len(msgs) \in Nat \ {0} /\ m = msgs[1] /\ m \in Messages /\ 1 \in 1..Len(msgs)
    <2>1. Len(msgs) \in Nat \ {0} BY <1>0, EmptySeq, LenProperties
    <2> QED BY <1>0, <1>1, <2>1
  <1>3. /\ m.intr \in BOOLEAN /\ m.type \in {"NEWROUTE", "DONE", "ERROR", "OVERRUN"}
        /\ m.type = "NEWROUTE" => m.route \in Routes
        /\ m.intr => MessageError(m) # "none"
        /\ ~m.intr /\ m.type \in {"ERROR", "OVERRUN"} => MessageError(m) # "none"
        /\ ~m.intr /\ m.type = "DONE" => MessageError(m) = "none"
        /\ ~m.intr /\ m.type = "NEWROUTE" => MessageError(m) = RouteError(m.route)
    BY <1>2, MessageErrors
  <1>4. snap \in Tables /\ Len(snap) \in Nat /\ DOMAIN snap = 1..Len(snap)
    BY <1>0, TableType DEF DumpTypeOK
  <1>5. CASE MessageError(m) # "none"
    <2>1. /\ phase' = "done" /\ answer' = Failed(MessageError(m))
          /\ UNCHANGED <<msgs, routes, complete>>
      BY <1>1, <1>5 DEF ParseMessage, Return
    <2>2. UndisturbedSucceeds'
      <3> SUFFICES ASSUME changes = 0, trouble = {},
                          \A i \in DOMAIN snap : KindOf[snap[i]] \in {"unicast", "multipath", "local"}
                   PROVE  FALSE
        BY <1>0 DEF UndisturbedSucceeds
      <3>1. ~m.intr BY <1>0, <1>2 DEF CauseInv
      <3>2. PICK p \in Nat : Parsed(p) /\ AllFit(msgs, p) BY <1>0 DEF StreamInv
      <3>3. Fits(m, p + 1) BY <1>2, <3>2 DEF AllFit
      <3>4. m.type = "NEWROUTE" /\ p + 1 <= Len(snap) /\ m.route = snap[p + 1]
        BY <1>3, <1>5, <3>1, <3>3 DEF Fits
      <3>5. p + 1 \in DOMAIN snap BY <1>4, <3>4
      <3>6. RouteError(m.route) = "none" BY <3>4, <3>5 DEF RouteError
      <3> QED BY <1>3, <1>5, <3>1, <3>4, <3>6
    <2>3. trouble \subseteq trouble' /\ trouble' \subseteq {"aborted", "stray", "socket"}
      BY <1>0 DEF DumpTypeOK
    <2>4. queue' \in Seq(Datagrams) /\ Len(queue') <= Len(queue)
      <3>1. queue \in Seq(Datagrams) BY <1>0 DEF TravelInv
      <3>2. Len(queue) \in Nat BY <3>1, LenProperties
      <3> QED BY <1>0, <3>1, <3>2
    <2>5. \A k \in 1..Len(queue') : \E j \in 1..Len(queue) : queue'[k] = queue[j] BY <1>0
    <2> QED BY <1>0, <2>1, <2>2, <2>3, <2>4, <2>5, FailureInv
  <1>6. CASE MessageError(m) = "none"
    <2>1. /\ msgs' = Tail(msgs) /\ complete' = (complete \/ m.type = "DONE")
          /\ routes' = IF m.type = "NEWROUTE" THEN routes \o Expand(m.route) ELSE routes
          /\ UNCHANGED <<phase, answer>>
      BY <1>1, <1>6 DEF ParseMessage
    <2>2. ~m.intr /\ m.type \in {"NEWROUTE", "DONE"} BY <1>3, <1>6
    <2>3. /\ msgs' \in Seq(Messages) /\ Len(msgs') = Len(msgs) - 1
          /\ \A i \in 1..Len(msgs') : i + 1 \in 1..Len(msgs) /\ msgs'[i] = msgs[i + 1]
      <3>1. msgs' \in Seq(Messages) /\ Len(msgs') = Len(msgs) - 1
        BY <1>0, <2>1, HeadTailProperties
      <3>2. \A i \in 1..Len(msgs') : i + 1 \in 1..Len(msgs) /\ msgs'[i] = msgs[i + 1]
        BY <1>0, <1>2, <2>1, <3>1
      <3> QED BY <3>1, <3>2
    <2>4. DumpTypeOK'
      <3>1. Len(msgs') \in 0..Batch BY <1>0, <1>2, <2>3, Bounds DEF DumpTypeOK
      <3>2. routes' \in Seq(Hops)
        <4>1. routes \in Seq(Hops) BY <1>0 DEF DumpTypeOK, Hops
        <4>2. m.type = "NEWROUTE" => Expand(m.route) \in Seq(Hops) BY <1>3, ExpandType
        <4> QED BY <2>1, <4>1, <4>2, ConcatProperties
      <3>3. complete' \in BOOLEAN BY <2>1
      <3> QED BY <1>0, <2>1, <3>1, <3>2, <3>3 DEF DumpTypeOK, Hops
    <2>5. TravelInv' BY <1>0, <2>3 DEF TravelInv
    <2>6. PhaseInv' BY <1>0, <2>1 DEF PhaseInv
    <2>7. CauseInv'
      <3>1. \A i \in 1..Len(msgs') : msgs'[i].intr => changes > 0
        BY <1>0, <2>3 DEF CauseInv
      <3> QED BY <1>0, <2>1, <3>1 DEF CauseInv, Reading, Unacceptable
    <2>8. StreamInv'
      <3> SUFFICES ASSUME "aborted" \notin trouble
                   PROVE  \E p \in Nat, at \in [1..Len(queue') + 1 -> Nat] :
                              Parsed(p)' /\ AllFit(msgs, p)' /\ Follows(p, at)'
        BY <1>0 DEF StreamInv
      <3>1. PICK p \in Nat, at \in [1..Len(queue) + 1 -> Nat] :
                Parsed(p) /\ AllFit(msgs, p) /\ Follows(p, at)
        BY <1>0 DEF StreamInv
      <3>2. Fits(m, p + 1) BY <1>2, <3>1 DEF AllFit
      <3>3. complete \in BOOLEAN BY <1>0 DEF DumpTypeOK
      <3>4. Parsed(p + 1)'
        <4>1. CASE m.type = "NEWROUTE"
          <5>1. p + 1 <= Len(snap) /\ m.route = snap[p + 1] BY <2>2, <3>2, <4>1 DEF Fits
          <5>2. ~complete /\ routes = Upto(snap, p) BY <1>4, <3>1, <5>1 DEF Parsed
          <5>3. Upto(snap, p + 1) = Upto(snap, p) \o Expand(snap[p + 1])
            <6>1. p < Len(snap) BY <1>4, <5>1
            <6> QED BY <1>4, <6>1, UptoNext
          <5>4. routes' = Upto(snap, p + 1) BY <2>1, <4>1, <5>1, <5>2, <5>3
          <5>5. complete' = FALSE BY <2>1, <4>1, <5>2
          <5> QED BY <1>0, <5>1, <5>4, <5>5 DEF Parsed, Upto, Expanded
        <4>2. CASE m.type = "DONE"
          <5>1. p = Len(snap)
            <6>1. p + 1 = Len(snap) + 1 BY <2>2, <3>2, <4>2 DEF Fits
            <6>2. Len(snap) \in Nat BY <1>4
            <6> QED BY ONLY <6>1, <6>2, p \in Nat
          <5>2. ~complete /\ routes = Upto(snap, Len(snap))
            <6>1. p # Len(snap) + 1
              <7>1. Len(snap) \in Nat BY <1>4
              <7> QED BY ONLY <5>1, <7>1
            <6> QED BY <3>1, <5>1, <6>1 DEF Parsed
          <5>3. routes' = Records(snap) BY <1>4, <2>1, <4>2, <5>2, UptoAll
          <5>4. complete' = TRUE BY <2>1, <4>2
          <5> QED BY <1>0, <5>1, <5>3, <5>4 DEF Parsed
        <4> QED BY <2>2, <4>1, <4>2
      <3>5. AllFit(msgs, p + 1)'
        <4>1. ASSUME NEW i \in 1..Len(msgs') PROVE Fits(msgs'[i], (p + 1) + i)
          <5>1. i + 1 \in 1..Len(msgs) /\ msgs'[i] = msgs[i + 1] BY <2>3
          <5>2. Fits(msgs[i + 1], p + (i + 1)) BY <3>1, <5>1 DEF AllFit
          <5>3. p + (i + 1) = (p + 1) + i OBVIOUS
          <5> QED BY <5>1, <5>2, <5>3
        <4> QED BY <1>0, <4>1 DEF AllFit, Fits
      <3>6. Follows(p + 1, at)'
        <4>1. at[1] = (p + 1) + Len(msgs') BY <1>2, <2>3, <3>1 DEF Follows
        <4> QED BY <1>0, <3>1, <4>1 DEF Follows, AllFit, Fits
      <3>7. p + 1 \in Nat /\ at \in [1..Len(queue') + 1 -> Nat] BY <1>0
      <3> QED BY <3>4, <3>5, <3>6, <3>7
    <2>9. SuccessIsSnapshot' /\ UndisturbedSucceeds'
      BY <1>0, <2>1 DEF SuccessIsSnapshot, UndisturbedSucceeds, NoAnswer
    <2> QED BY <2>4, <2>5, <2>6, <2>7, <2>8, <2>9 DEF DumpInv
  <1> QED BY <1>5, <1>6

(* The end of a datagram: after NLMSG_DONE the records are those of snap. *)
LEMMA DatagramEndInv == ASSUME DumpInv, DatagramEnd PROVE DumpInv'
  <1>0. /\ DumpTypeOK /\ TravelInv /\ CauseInv /\ StreamInv /\ phase = "parse" /\ Reading
        /\ msgs = <<>> /\ answer = NoAnswer
        /\ UNCHANGED <<table, changes, cursor, dumping, queue, trouble,
                       msgs, routes, complete, snap>>
    BY DEF DumpInv, PhaseInv, DatagramEnd, kernelVars, Reading
  <1>1. phase' \in {"recv", "done"} BY DEF DatagramEnd, Return
  <1>2. answer'.kind \in {"none", "ok"} BY <1>0 DEF DatagramEnd, Return, NoAnswer, Answered
  <1>3. DumpTypeOK' BY <1>0, <1>1, <1>2 DEF DumpTypeOK
  <1>4. TravelInv' BY <1>0 DEF TravelInv
  <1>5. PhaseInv' BY <1>0, <1>1 DEF PhaseInv, DatagramEnd, Return
  <1>6. CauseInv' BY <1>0 DEF CauseInv, Reading, Unacceptable
  <1>7. StreamInv'
    <2> SUFFICES ASSUME "aborted" \notin trouble
                 PROVE  \E p \in Nat, at \in [1..Len(queue') + 1 -> Nat] :
                            Parsed(p)' /\ AllFit(msgs, p)' /\ Follows(p, at)'
      BY <1>0 DEF StreamInv
    <2>1. PICK p \in Nat, at \in [1..Len(queue) + 1 -> Nat] :
              Parsed(p) /\ AllFit(msgs, p) /\ Follows(p, at)
      BY <1>0 DEF StreamInv
    <2>2. Parsed(p)' BY <1>0, <2>1 DEF Parsed
    <2>3. AllFit(msgs, p)' BY <1>0, <2>1 DEF AllFit, Fits
    <2>4. Follows(p, at)' BY <1>0, <2>1 DEF Follows, AllFit, Fits
    <2>5. at \in [1..Len(queue') + 1 -> Nat] BY <1>0
    <2> QED BY <2>2, <2>3, <2>4, <2>5
  <1>8. SuccessIsSnapshot'
    <2> SUFFICES ASSUME answer'.kind = "ok", "aborted" \notin trouble
                 PROVE  answer'.routes = Records(snap)
      BY <1>0 DEF SuccessIsSnapshot
    <2>1. complete /\ answer' = Answered(routes) BY <1>0 DEF DatagramEnd, Return, NoAnswer
    <2>2. PICK p \in Nat : Parsed(p) BY <1>0 DEF StreamInv
    <2>3. routes = Records(snap) BY <2>1, <2>2 DEF Parsed
    <2> QED BY <2>1, <2>3 DEF Answered
  <1>9. UndisturbedSucceeds' BY <1>2 DEF UndisturbedSucceeds
  <1> QED BY <1>3, <1>4, <1>5, <1>6, <1>7, <1>8, <1>9 DEF DumpInv

(* The answer is taken, and nothing of the call is left. *)
LEMMA TakeAnswerInv == ASSUME DumpInv, TakeAnswer PROVE DumpInv'
  <1>1. /\ phase' = "idle" /\ changes' = 0 /\ cursor' = 0 /\ dumping' = FALSE /\ queue' = <<>>
        /\ trouble' = {} /\ msgs' = <<>> /\ routes' = <<>> /\ complete' = FALSE
        /\ snap' = <<>> /\ answer' = NoAnswer /\ table' = table /\ table \in Tables
    BY DEF TakeAnswer, DumpInv, DumpTypeOK
  <1>2. DumpInit' BY <1>1 DEF DumpInit
  <1> QED BY <1>2, DumpInitInv, PTL

-----------------------------------------------------------------------------
LEMMA DumpNextInv == DumpInv /\ [DumpNext]_dumpVars => DumpInv'
  <1> SUFFICES ASSUME DumpInv, [DumpNext]_dumpVars PROVE DumpInv' OBVIOUS
  <1>1. CASE TableChange BY <1>1, TableChangeInv
  <1>2. CASE Produce BY <1>2, ProduceInv
  <1>3. CASE Abort BY <1>3, AbortInv
  <1>4. CASE Stray BY <1>4, StrayInv
  <1>5. CASE Request BY <1>5, RequestInv
  <1>6. CASE Receive BY <1>6, ReceiveInv
  <1>7. CASE ReceiveFails BY <1>7, ReceiveFailsInv
  <1>8. CASE ParseMessage BY <1>8, ParseMessageInv
  <1>9. CASE DatagramEnd BY <1>9, DatagramEndInv
  <1>10. CASE TakeAnswer BY <1>10, TakeAnswerInv
  <1>11. CASE UNCHANGED dumpVars
    <2>1. UNCHANGED <<table, changes, cursor, dumping, queue, trouble,
                      phase, msgs, routes, complete, snap, answer>>
      BY <1>11 DEF dumpVars
    <2>2. DumpTypeOK' /\ TravelInv' /\ PhaseInv'
      BY <2>1 DEF DumpInv, DumpTypeOK, TravelInv, PhaseInv
    <2>3. CauseInv' BY <2>1 DEF DumpInv, CauseInv, Reading, Unacceptable
    <2>4. StreamInv' BY <2>1, StreamStays DEF DumpInv
    <2>5. SuccessIsSnapshot' /\ UndisturbedSucceeds'
      BY <2>1 DEF DumpInv, SuccessIsSnapshot, UndisturbedSucceeds
    <2> QED BY <2>2, <2>3, <2>4, <2>5 DEF DumpInv
  <1> QED BY <1>1, <1>2, <1>3, <1>4, <1>5, <1>6, <1>7, <1>8, <1>9, <1>10, <1>11
          DEF DumpNext, Query

(***************************************************************************)
(* The invariant holds throughout every dump.                              *)
(***************************************************************************)
THEOREM DumpInvariance == DumpSpec => []DumpInv
  BY DumpInitInv, DumpNextInv, PTL DEF DumpSpec

(***************************************************************************)
(* The dump's state keeps its types and its bounds: the kernel's cursor    *)
(* never runs beyond the longest table by more than the changes allow, and *)
(* the records are pairs of an entry and one of its next hops.             *)
(***************************************************************************)
THEOREM DumpTypeCorrect == DumpSpec => []DumpTypeOK
  <1>1. DumpInv => DumpTypeOK BY DEF DumpInv
  <1> QED BY <1>1, DumpInvariance, PTL

(***************************************************************************)
(* routes() answers with the table of the request or not at all, unless    *)
(* the kernel gave up: for every table, every sequence of changes under    *)
(* the kernel's cursor, every batch size and every queue length.           *)
(***************************************************************************)
THEOREM SnapshotTaken == DumpSpec => []SuccessIsSnapshot
  <1>1. DumpInv => SuccessIsSnapshot BY DEF DumpInv
  <1> QED BY <1>1, DumpInvariance, PTL

(***************************************************************************)
(* routes() reports no error for a table it can represent that nobody      *)
(* changes, over a socket that nothing disturbs.                           *)
(***************************************************************************)
THEOREM NoSpuriousFailure == DumpSpec => []UndisturbedSucceeds
  <1>1. DumpInv => UndisturbedSucceeds BY DEF DumpInv
  <1> QED BY <1>1, DumpInvariance, PTL
=============================================================================
