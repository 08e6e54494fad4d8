---------------------------- MODULE MCConnections ----------------------------
(* Two processes with up to two descriptors each, two sockets, two tables. *)
EXTENDS Connections

CONSTANTS tcp, udp, s1, s2

(* The processes are interchangeable: both visible, and never ordered. *)
MCSymmetry == Permutations(Pids)

MCSources == <<tcp, udp>>
MCTableOf == [s \in Sockets |-> IF s = s2 THEN udp ELSE tcp]
MCMissing == {{}, {udp}, {tcp, udp}}
=============================================================================
