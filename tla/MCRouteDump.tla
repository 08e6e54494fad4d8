---------------------------- MODULE MCRouteDump ----------------------------
(* RouteDump for TLC: one route of each kind, two that forward directly. *)
EXTENDS RouteDump

CONSTANTS plain, other, multi, loopback, object, garbled

MCKindOf == [r \in Routes |-> CASE r \in {plain, other} -> "unicast"
                                [] r = multi    -> "multipath"
                                [] r = loopback -> "local"
                                [] r = object   -> "nexthop_object"
                                [] r = garbled  -> "broken"]
=============================================================================
