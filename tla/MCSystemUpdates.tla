--------------------------- MODULE MCSystemUpdates ---------------------------
(* /run and /var/run lead to the same list; PackageKit's repeats one of its   *)
(* updates, and so does checkupdates.                                         *)
EXTENDS SystemUpdates

CONSTANTS pkgs, prepared, a, b, c, d

MCFileAt == <<pkgs, pkgs, prepared>>
MCListed == [f \in Files |-> IF f = pkgs THEN <<a, b, c>> ELSE <<c, d, a>>]
MCPending == {{}, {a, d}}
=============================================================================
