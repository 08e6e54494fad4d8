-------------------------- MODULE MCSocketQueries --------------------------
(***************************************************************************)
(* PrinterSnapshot and RouteDump for TLC, side by side: a host that is     *)
(* asked for its printers, or for its routes. The two queries have no      *)
(* state in common, so what the other one works on is fixed: no printer,   *)
(* no route.                                                               *)
(*                                                                         *)
(* Two queues, one of which prints on the only USB device; one route of    *)
(* each kind.                                                              *)
(***************************************************************************)
EXTENDS PrinterSnapshot, RouteDump

CONSTANTS a, b, lp0, plain, multi, loopback, object, garbled

MCQueueOf == [d \in Devices |-> a]
MCEnvironments == {None, Invalid, b}
MCKindOf == [r \in Routes |-> CASE r = plain    -> "unicast"
                                [] r = multi    -> "multipath"
                                [] r = loopback -> "local"
                                [] r = object   -> "nexthop_object"
                                [] r = garbled  -> "broken"]

VARIABLE asked
hostVars == <<vars, dumpVars, asked>>

NoPrinter == Source(cups, listening, conf) = Nothing /\ listening = 0 /\ usb = {} /\ env = None

HostInit == /\ Init /\ DumpInit
            /\ \/ asked = "printers" /\ table = <<>>
               \/ asked = "routes" /\ NoPrinter /\ conf = NoConf

HostNext == /\ \/ asked = "printers" /\ Next /\ UNCHANGED dumpVars
               \/ asked = "routes" /\ DumpNext /\ UNCHANGED vars
            /\ UNCHANGED asked

(* The fairness of FairDumpSpec. *)
HostSpec == /\ HostInit /\ [][HostNext]_hostVars
            /\ WF_hostVars(asked = "routes" /\ Produce /\ UNCHANGED <<vars, asked>>)
            /\ WF_hostVars(asked = "routes" /\ Receive /\ UNCHANGED <<vars, asked>>)
            /\ WF_hostVars(asked = "routes" /\ ParseMessage /\ UNCHANGED <<vars, asked>>)
            /\ WF_hostVars(asked = "routes" /\ DatagramEnd /\ UNCHANGED <<vars, asked>>)
=============================================================================
