--------------------------- MODULE MCUtmpxQueries ---------------------------
(***************************************************************************)
(* UtmpxQueries for TLC: every database of at most Size records, but each  *)
(* of the three kinds that both queries pass over in one place only.       *)
(***************************************************************************)
EXTENDS UtmpxQueries

PassedOver == <<"anon", "boot0", "other">>
MCDatabases ==
    {d \in [1..Size -> Slots] :
        /\ Contiguous(d)
        /\ \A i \in 1..Size : d[i] \in {"user", "bad", "boot", "none", PassedOver[i]}}
=============================================================================
