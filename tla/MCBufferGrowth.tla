--------------------------- MODULE MCBufferGrowth ---------------------------
(* BufferGrowth for TLC: a maximum that doubling from 3 does not hit exactly. *)
EXTENDS BufferGrowth

MCInitial == [o \in Ops |-> IF o = "link" THEN 2 ELSE 3]
=============================================================================
