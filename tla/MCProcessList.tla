--------------------------- MODULE MCProcessList ---------------------------
(* ProcessList for TLC: who may read what, and what the processes are called. *)
EXTENDS ProcessList

(* Identifier 1 belongs to the caller's own process, then to one a policy     *)
(* hides; 2 to another user's, then to one with an unparsable record.         *)
MCAccess == [p \in Pids |-> [i \in Incarnations |->
                IF p = 1 THEN (IF i = 1 THEN "full" ELSE "eacces")
                         ELSE (IF i = 1 THEN "nolinks" ELSE "odd")]]

(* hidepid=1: only process 1, the caller's own, is open to the caller. *)
MCAccessHidepid == [p \in Pids |-> [i \in Incarnations |->
                        IF p = 1 THEN "full" ELSE "eperm"]]

(* Nobody asks for "b". *)
MCNames == {"", "a"}
MCNameOf == [p \in Pids |-> [i \in Incarnations |->
                IF i = 2 THEN "a" ELSE IF p = 1 THEN "" ELSE "b"]]
MCExeNameOf == [p \in Pids |-> [i \in Incarnations |-> IF p = 1 THEN "b" ELSE "a"]]
=============================================================================
