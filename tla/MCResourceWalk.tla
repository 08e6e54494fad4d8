--------------------------- MODULE MCResourceWalk ---------------------------
(* ResourceWalk for TLC. CountMax = 4 is exceeded by three two-thread processes. *)
EXTENDS ResourceWalk

MCAccess == [p \in Pids |-> [i \in Incarnations |->
                CASE p = 2 /\ i = 2 -> "eacces"
                  [] p = 3 /\ i = 1 -> "nolinks"
                  [] p = 3 /\ i = 2 -> "odd"
                  [] OTHER          -> "full"]]

MCThreads == [p \in Pids |-> [i \in Incarnations |-> IF p = 1 THEN i ELSE 2]]
=============================================================================
