-------------------------- MODULE ProcessListProofs --------------------------
(***************************************************************************)
(* Proofs about ProcessList, for any finite set of identifiers, each owned *)
(* by any number of processes in turn, any access rights and any names.    *)
(***************************************************************************)
EXTENDS ProcessList, FiniteSetTheorems, FunctionTheorems, TLAPS

InSingle == pc \in {"open", "read", "link"}

(***************************************************************************)
(* Incarnations only move forward from where the query found them, and an  *)
(* owner that is there is the one found then or a later one.               *)
(***************************************************************************)
StartInv ==
    \A p \in Pids :
        /\ start[p].inc <= proc[p].inc
        /\ proc[p].state # "free" => proc[p].inc \in Incarnations
        /\ proc[p].state # "free" /\ proc[p].inc = start[p].inc => start[p].state # "free"

(* Where a query is, and what its open handle names. *)
PhaseInv ==
    /\ pc = "idle" <=> call.op = "none"
    /\ pc = "readdir" => call.op \in ListOps
    /\ InSingle => /\ cur \in Pids
                   /\ call.op \in ListOps => cur \in returned
                   /\ call.op = "find_process" => cur = call.pid
                   /\ IF pc = "link" THEN file \in {"exe", "cwd"}
                                     ELSE file \in {"stat", "status", "cmdline"}
    /\ pc = "read" => /\ Lived(cur, handle)
                      /\ AccessOf[cur][handle] \in Readable \cup {"odd"}
    /\ pc \notin {"idle", "done"} => result = NoResult
    /\ call.op = "find_process" => list = <<>>

(***************************************************************************)
(* The entry under construction: each group that has been read belongs to  *)
(* an owner of the number, none to a later one than the next group will,   *)
(* and the groups not reached yet are absent.                              *)
(***************************************************************************)
EntryInv ==
    /\ InSingle /\ file = "stat" => entry = NoEntry
    /\ InSingle /\ file # "stat" => entry.pid = cur /\ Attributed(entry)
    /\ InSingle => /\ file \in {"stat", "status"} => entry.status = NoPart
                   /\ file \in {"stat", "status", "cmdline"} => entry.cmdline = NoPart
                   /\ file # "cwd" => entry.exe = NoPart
                   /\ entry.cwd = NoPart
    /\ pc = "read" => /\ entry.stat[2] <= handle
                      /\ entry.status[2] <= handle

(* The entries collected: one for each name readdir has returned, at most. *)
ListInv ==
    /\ \A i \in DOMAIN list :
          /\ Attributed(list[i])
          /\ list[i].pid \in returned
          /\ InSingle => list[i].pid # cur
    /\ \A i, j \in DOMAIN list : list[i].pid = list[j].pid => i = j

(* The record of p's present owner can be read, and p has its entry. *)
Entered(p) ==
    AccessOf[p][proc[p].inc] \in Readable => \E i \in DOMAIN list : list[i].pid = p

(* A name that readdir has returned and the walk is finished with. *)
WalkInv ==
    /\ (pc = "readdir" \/ InSingle) /\ call.op \in ListOps =>
          \A p \in Stable : p \in returned /\ (InSingle => p # cur) => Entered(p)
    /\ Enumerated => /\ \A p \in Stable : Entered(p)
                     /\ result = Answer(sort_processes(list))

(* What a finished query says. *)
DoneInv ==
    /\ pc = "done" => \A i \in DOMAIN result.entries : Attributed(result.entries[i])
    /\ NotFoundIsTrue
    /\ EnumerationSurvives

IInv == TypeOK /\ StartInv /\ PhaseInv /\ EntryInv /\ ListInv /\ WalkInv /\ DoneInv

-----------------------------------------------------------------------------
(* R orders the positions P strictly and totally. *)
StrictOrder(P, R) ==
    /\ \A i \in P : <<i, i>> \notin R
    /\ \A i, j, l \in P : <<i, j>> \in R /\ <<j, l>> \in R => <<i, l>> \in R
    /\ \A i, j \in P : i # j => <<i, j>> \in R \/ <<j, i>> \in R

(***************************************************************************)
(* Arranged is what it should be: every chosen position has exactly one    *)
(* place, and places follow the order. The number of positions before i    *)
(* grows along the order, so it tells positions apart, and n positions     *)
(* have all the n possible numbers.                                        *)
(***************************************************************************)
LEMMA ArrangedOrder ==
    ASSUME NEW S, NEW s \in Seq(S), NEW P \in SUBSET DOMAIN s, NEW R, StrictOrder(P, R)
    PROVE  /\ IsFiniteSet(P) /\ Cardinality(P) \in Nat
           /\ Arranged(s, P, R) \in Seq(S)
           /\ Len(Arranged(s, P, R)) = Cardinality(P)
           /\ \A n \in 1..Cardinality(P) : /\ Place(P, R, n) \in P
                                           /\ Arranged(s, P, R)[n] = s[Place(P, R, n)]
           /\ \A i \in P : \E n \in 1..Cardinality(P) : Place(P, R, n) = i
           /\ \A m, n \in 1..Cardinality(P) : m < n => <<Place(P, R, m), Place(P, R, n)>> \in R
  <1> DEFINE Before(i) == {j \in P : <<j, i>> \in R}
             N == Cardinality(P)
             rank == [i \in P |-> Cardinality(Before(i)) + 1]
  <1>1. IsFiniteSet(P) /\ N \in Nat
    <2>1. Len(s) \in Nat /\ DOMAIN s = 1..Len(s) OBVIOUS
    <2>2. IsFiniteSet(1..Len(s)) BY <2>1, FS_Interval
    <2> QED BY <2>1, <2>2, FS_Subset, FS_CardinalityType
  <1>2. ASSUME NEW i \in P
        PROVE  /\ IsFiniteSet(Before(i)) /\ Cardinality(Before(i)) \in Nat
               /\ Cardinality(Before(i)) + 1 <= N
    <2>1. IsFiniteSet(P \ {i}) /\ Cardinality(P \ {i}) = N - 1
      BY <1>1, FS_RemoveElement
    <2>2. Before(i) \in SUBSET (P \ {i}) BY DEF StrictOrder
    <2>3. IsFiniteSet(Before(i)) /\ Cardinality(Before(i)) <= N - 1
      <3>1. PICK T : T = Before(i) OBVIOUS
      <3>2. T \in SUBSET (P \ {i}) BY <2>2, <3>1
      <3>3. IsFiniteSet(T) /\ Cardinality(T) <= Cardinality(P \ {i}) BY ONLY <2>1, <3>2, FS_Subset
      <3> QED BY ONLY <2>1, <3>1, <3>3
    <2>4. Cardinality(Before(i)) \in Nat BY <2>3, FS_CardinalityType
    <2> QED BY <1>1, <2>3, <2>4
  <1>3. rank \in [P -> 1..N] /\ \A i \in P : rank[i] = Cardinality(Before(i)) + 1
    <2>1. \A i \in P : Cardinality(Before(i)) + 1 \in 1..N
      <3> HIDE DEF Before
      <3> QED BY <1>1, <1>2
    <2> QED BY <2>1
  <1>4. ASSUME NEW i \in P, NEW j \in P, <<i, j>> \in R PROVE rank[i] < rank[j]
    <2>1. Before(i) \cup {i} \in SUBSET Before(j)
      BY <1>4 DEF StrictOrder
    <2>2. i \notin Before(i) BY DEF StrictOrder
    <2>3. Cardinality(Before(i) \cup {i}) = Cardinality(Before(i)) + 1
      BY <1>2, <2>2, FS_AddElement
    <2>4. Cardinality(Before(i) \cup {i}) <= Cardinality(Before(j))
      BY <1>2, <2>1, FS_Subset
    <2> HIDE DEF Before
    <2> QED BY <1>2, <1>3, <2>3, <2>4
  <1> HIDE DEF rank, Before
  <1>5. \A i, j \in P : rank[i] = rank[j] => i = j
    <2> SUFFICES ASSUME NEW i \in P, NEW j \in P, rank[i] = rank[j], i # j PROVE FALSE OBVIOUS
    <2>1. <<i, j>> \in R \/ <<j, i>> \in R BY DEF StrictOrder
    <2>2. rank[i] < rank[j] \/ rank[j] < rank[i] BY <1>4, <2>1
    <2>3. rank[i] \in 1..N /\ rank[j] \in 1..N BY <1>3
    <2> QED BY <1>1, <2>2, <2>3
  <1>6. \A n \in 1..N : \E i \in P : rank[i] = n
    <2>1. rank \in Injection(P, 1..N) BY <1>3, <1>5, Fun_IsInj
    <2>2. IsFiniteSet(1..N) /\ Cardinality(1..N) = N BY <1>1, FS_Interval
    <2>3. rank \in Surjection(P, 1..N) BY <2>1, <2>2, FS_Injection
    <2> QED BY <2>3, Fun_SurjectionProperties
  <1>7. ASSUME NEW n \in 1..N PROVE Place(P, R, n) \in P /\ rank[Place(P, R, n)] = n
    <2>1. PICK i \in P : rank[i] = n BY <1>6
    <2>2. Cardinality(Before(i)) = n - 1
      BY <1>1, <1>2, <1>3, <2>1
    <2>3. /\ Place(P, R, n) \in P
          /\ Cardinality({j \in P : <<j, Place(P, R, n)>> \in R}) = n - 1
      BY <2>2 DEF Place, Before
    <2> QED BY <1>1, <1>3, <2>3 DEF Before
  <1>8. /\ Arranged(s, P, R) \in Seq(S) /\ Len(Arranged(s, P, R)) = N
        /\ \A n \in 1..N : Arranged(s, P, R)[n] = s[Place(P, R, n)]
    <2>1. \A n \in 1..N : s[Place(P, R, n)] \in S BY <1>7
    <2> QED BY <1>1, <2>1 DEF Arranged
  <1>9. ASSUME NEW i \in P PROVE \E n \in 1..N : Place(P, R, n) = i
    <2>1. rank[i] \in 1..N BY <1>3
    <2>2. Place(P, R, rank[i]) = i BY <1>5, <1>7, <2>1
    <2> QED BY <2>1, <2>2
  <1>10. ASSUME NEW m \in 1..N, NEW n \in 1..N, m < n
         PROVE  <<Place(P, R, m), Place(P, R, n)>> \in R
    <2>1. /\ Place(P, R, m) \in P /\ Place(P, R, n) \in P
          /\ rank[Place(P, R, m)] = m /\ rank[Place(P, R, n)] = n
      BY <1>7
    <2>2. Place(P, R, m) # Place(P, R, n) BY <1>10, <2>1
    <2>3. <<Place(P, R, n), Place(P, R, m)>> \notin R BY <1>1, <1>4, <1>10, <2>1
    <2> QED BY <2>1, <2>2, <2>3 DEF StrictOrder
  <1> QED BY <1>1, <1>7, <1>8, <1>9, <1>10

Ascending(s) == \A i, j \in DOMAIN s : i < j => s[i].pid < s[j].pid
Distinct(s) == \A i, j \in DOMAIN s : s[i].pid = s[j].pid => i = j
Elements(s) == {s[i] : i \in DOMAIN s}

(* Process identifiers are numbers. *)
LEMMA PidType == \A e \in Entry : e.pid \in Nat
  <1>1. Pids \cup {0} \subseteq Nat BY ProcFsAssumption
  <1>2. \A e \in Entry : e.pid \in Pids \cup {0} BY DEF Entry
  <1> QED BY <1>1, <1>2

(* sort_processes keeps all entries and no other; without repeated identifiers *)
(* they come strictly ascending.                                               *)
LEMMA SortedEntries ==
    ASSUME NEW s \in Seq(Entry), Distinct(s)
    PROVE  /\ sort_processes(s) \in Seq(Entry) /\ Len(sort_processes(s)) = Len(s)
           /\ Elements(sort_processes(s)) = Elements(s)
           /\ Ascending(sort_processes(s))
  <1> DEFINE P == DOMAIN s
             R == {h \in Pairs(s) : \/ s[h[1]].pid < s[h[2]].pid
                                    \/ s[h[1]].pid = s[h[2]].pid /\ h[1] < h[2]}
             t == sort_processes(s)
  <1>1. P = 1..Len(s) /\ Len(s) \in Nat /\ \A i \in P : s[i] \in Entry /\ s[i].pid \in Nat
    BY PidType
  <1>2. \A i, j \in P : <<i, j>> \in R <=> s[i].pid < s[j].pid
    BY <1>1 DEF Distinct, Pairs
  <1>3. StrictOrder(P, R)
    <2> HIDE DEF R
    <2>1. \A i, j \in P : i # j => s[i].pid # s[j].pid BY DEF Distinct
    <2> QED BY <1>1, <1>2, <2>1 DEF StrictOrder
  <1>4. t = Arranged(s, P, R) BY DEF sort_processes
  <1> HIDE DEF P, R, t
  <1>5. P \in SUBSET DOMAIN s BY DEF P
  <1>6. /\ t \in Seq(Entry) /\ Len(t) = Cardinality(P) /\ Cardinality(P) \in Nat
        /\ \A n \in 1..Cardinality(P) : Place(P, R, n) \in P /\ t[n] = s[Place(P, R, n)]
        /\ \A i \in P : \E n \in 1..Cardinality(P) : Place(P, R, n) = i
        /\ \A m, n \in 1..Cardinality(P) : m < n => <<Place(P, R, m), Place(P, R, n)>> \in R
    BY <1>3, <1>4, <1>5, ArrangedOrder
  <1>7. Cardinality(P) = Len(s)
    <2>1. Cardinality(1..Len(s)) = IF 1 > Len(s) THEN 0 ELSE Len(s) - 1 + 1
      BY <1>1, FS_Interval
    <2> QED BY <1>1, <2>1
  <1>8. DOMAIN t = 1..Cardinality(P) BY <1>6
  <1>9. Elements(t) = Elements(s)
    <2>1. ASSUME NEW n \in DOMAIN t PROVE t[n] \in Elements(s)
      BY <1>5, <1>6, <1>8 DEF Elements
    <2>2. ASSUME NEW i \in DOMAIN s PROVE s[i] \in Elements(t)
      <3>1. PICK n \in 1..Cardinality(P) : Place(P, R, n) = i BY <1>6 DEF P
      <3> QED BY <1>6, <1>8, <3>1 DEF Elements
    <2> QED BY <2>1, <2>2 DEF Elements
  <1>10. Ascending(t)
    <2> SUFFICES ASSUME NEW m \in DOMAIN t, NEW n \in DOMAIN t, m < n PROVE t[m].pid < t[n].pid
      BY DEF Ascending
    <2>1. /\ Place(P, R, m) \in P /\ Place(P, R, n) \in P
          /\ <<Place(P, R, m), Place(P, R, n)>> \in R
          /\ t[m] = s[Place(P, R, m)] /\ t[n] = s[Place(P, R, n)]
      BY <1>6, <1>8
    <2> QED BY <1>2, <2>1
  <1> QED BY <1>6, <1>7, <1>9, <1>10 DEF t

(* find_processes_by_name keeps the matching entries in their order. *)
LEMMA FilteredEntries ==
    ASSUME NEW s \in Seq(Entry), Ascending(s), NEW name
    PROVE  /\ Filtered(s, name) \in Seq(Entry)
           /\ Elements(Filtered(s, name)) = {e \in Elements(s) : matches_process_name(e, name)}
           /\ Ascending(Filtered(s, name))
  <1> DEFINE P == {i \in DOMAIN s : matches_process_name(s[i], name)}
             R == {h \in Pairs(s) : h[1] < h[2]}
             t == Filtered(s, name)
  <1>1. DOMAIN s = 1..Len(s) /\ Len(s) \in Nat OBVIOUS
  <1>2. \A i, j \in P : <<i, j>> \in R <=> i < j BY DEF Pairs
  <1>3. StrictOrder(P, R)
    <2>1. P \subseteq Nat BY <1>1
    <2> HIDE DEF R, P
    <2> QED BY <1>2, <2>1 DEF StrictOrder
  <1>4. t = Arranged(s, P, R) BY DEF Filtered
  <1>5. P \in SUBSET DOMAIN s OBVIOUS
  <1>6. \A i \in DOMAIN s : i \in P <=> matches_process_name(s[i], name) OBVIOUS
  <1> HIDE DEF P, R, t
  <1>7. /\ t \in Seq(Entry) /\ Len(t) = Cardinality(P) /\ Cardinality(P) \in Nat
        /\ \A n \in 1..Cardinality(P) : Place(P, R, n) \in P /\ t[n] = s[Place(P, R, n)]
        /\ \A i \in P : \E n \in 1..Cardinality(P) : Place(P, R, n) = i
        /\ \A m, n \in 1..Cardinality(P) : m < n => <<Place(P, R, m), Place(P, R, n)>> \in R
    BY <1>3, <1>4, <1>5, ArrangedOrder
  <1>8. DOMAIN t = 1..Cardinality(P) BY <1>7
  <1>9. Elements(t) = {e \in Elements(s) : matches_process_name(e, name)}
    <2>1. ASSUME NEW n \in DOMAIN t
          PROVE  t[n] \in Elements(s) /\ matches_process_name(t[n], name)
      BY <1>5, <1>6, <1>7, <1>8 DEF Elements
    <2>2. ASSUME NEW i \in DOMAIN s, matches_process_name(s[i], name) PROVE s[i] \in Elements(t)
      BY <1>6, <1>7, <1>8, <2>2 DEF Elements
    <2> QED BY <2>1, <2>2 DEF Elements
  <1>10. Ascending(t)
    <2> SUFFICES ASSUME NEW i \in DOMAIN t, NEW j \in DOMAIN t, i < j PROVE t[i].pid < t[j].pid
      BY DEF Ascending
    <2>1. /\ Place(P, R, i) \in P /\ Place(P, R, j) \in P
          /\ <<Place(P, R, i), Place(P, R, j)>> \in R
          /\ t[i] = s[Place(P, R, i)] /\ t[j] = s[Place(P, R, j)]
      BY <1>7, <1>8
    <2>2. Place(P, R, i) < Place(P, R, j) BY <1>2, <2>1
    <2> QED BY <1>5, <2>1, <2>2 DEF Ascending
  <1> QED BY <1>7, <1>9, <1>10 DEF t

-----------------------------------------------------------------------------
(* Who owns an identifier, and since when. *)

(* The process that owns p now has owned it during the query. *)
LEMMA OwnerLived ==
    ASSUME TypeOK, StartInv, NEW p, Exists(p)
    PROVE  Lived(p, proc[p].inc) /\ proc[p].inc \in Incarnations
  <1>1. p \in Pids BY DEF Exists
  <1>2. proc[p].inc \in 0..MaxIncarnation /\ start[p].inc \in 0..MaxIncarnation
    BY <1>1 DEF TypeOK, ProcTable
  <1>3. start[p].inc <= proc[p].inc /\ proc[p].inc \in Incarnations
    BY <1>1 DEF StartInv, Exists
  <1>4. proc[p].inc = start[p].inc => start[p].state # "free"
    BY <1>1 DEF StartInv, Exists
  <1> QED BY <1>1, <1>2, <1>3, <1>4, ProcFsAssumption DEF Lived, Incarnations

(* A stable identifier has had one owner only. *)
LEMMA StableOwner ==
    ASSUME TypeOK, NEW p \in Stable, NEW i, Lived(p, i)
    PROVE  Holds(p, i)
  <1>1. /\ p \in Pids /\ proc[p].inc = start[p].inc /\ proc[p].state # "free"
    BY DEF Stable
  <1>2. proc[p].inc \in Nat /\ start[p].inc \in Nat
    BY <1>1 DEF TypeOK, ProcTable
  <1>3. i \in 1..proc[p].inc /\ (i > start[p].inc \/ i = start[p].inc) BY DEF Lived
  <1>4. i = proc[p].inc BY <1>1, <1>2, <1>3
  <1> QED BY <1>1, <1>4 DEF Holds, Exists

(* A step of the library leaves the process table alone. *)
LEMMA LibFrame ==
    ASSUME proc' = proc, start' = start
    PROVE  /\ Stable' = Stable /\ Sighted' = Sighted
           /\ StartInv => StartInv'
           /\ \A e : Attributed(e) => Attributed(e)'
           /\ \A p, i : Lived(p, i) <=> Lived(p, i)'
  <1>1. \A p, i : Lived(p, i) <=> Lived(p, i)' BY DEF Lived
  <1> QED BY <1>1 DEF Stable, Sighted, StartInv, Attributed

(* Processes come and go: what a query knows of past owners stays true. *)
LEMMA KernelStep ==
    ASSUME TypeOK, StartInv, Kernel
    PROVE  /\ proc' \in ProcTable /\ start' = start /\ returned' = returned
           /\ StartInv'
           /\ Stable' \subseteq Stable
           /\ \A p \in Stable' : proc'[p].inc = proc[p].inc
           /\ \A p \in Pids : \A i : Lived(p, i) => Lived(p, i)'
  <1> USE ProcFsAssumption
  <1>1. PICK q \in Pids : Spawn(q) \/ Exit(q) \/ Reap(q) BY DEF Kernel
  <1>2. start' = start /\ returned' = returned BY <1>1 DEF Spawn, Exit, Reap
  <1>3. proc' \in ProcTable
    <2>1. proc \in ProcTable /\ proc[q] \in [state : {"free", "alive", "zombie"}, inc : 0..MaxIncarnation]
      BY DEF TypeOK, ProcTable
    <2>2. CASE Spawn(q)
      <3>1. [state |-> "alive", inc |-> proc[q].inc + 1]
               \in [state : {"free", "alive", "zombie"}, inc : 0..MaxIncarnation]
        BY <2>1, <2>2 DEF Spawn
      <3> QED BY <2>1, <2>2, <3>1 DEF Spawn, ProcTable
    <2>3. CASE Exit(q) BY <2>1, <2>3 DEF Exit, ProcTable
    <2>4. CASE Reap(q) BY <2>1, <2>4 DEF Reap, ProcTable
    <2> QED BY <1>1, <2>2, <2>3, <2>4
  <1>4. /\ \A p \in Pids : p # q => proc'[p] = proc[p]
        /\ \/ proc[q].state = "free" /\ proc'[q].inc = proc[q].inc + 1
           \/ proc[q].state # "free" /\ proc'[q].inc = proc[q].inc
    BY <1>1 DEF Spawn, Exit, Reap, TypeOK, ProcTable
  <1>5. ASSUME NEW p \in Pids
        PROVE  /\ proc[p].inc \in Nat /\ start[p].inc \in Nat /\ proc'[p].inc \in 0..MaxIncarnation
               /\ start[p].inc <= proc[p].inc /\ proc[p].inc <= proc'[p].inc
    <2>1. proc[p].inc \in Nat /\ start[p].inc \in Nat /\ proc'[p].inc \in 0..MaxIncarnation
      <3>1. proc \in ProcTable /\ start \in ProcTable BY DEF TypeOK
      <3> QED BY ONLY <1>3, <3>1, p \in Pids, MaxIncarnation \in Nat DEF ProcTable
    <2>2. start[p].inc <= proc[p].inc BY DEF StartInv
    <2> QED BY <1>4, <2>1, <2>2
  <1>6. StartInv'
    <2> SUFFICES ASSUME NEW p \in Pids
                 PROVE  /\ start[p].inc <= proc'[p].inc
                        /\ proc'[p].state # "free" => /\ proc'[p].inc \in Incarnations
                                                      /\ proc'[p].inc = start[p].inc => start[p].state # "free"
      BY <1>2 DEF StartInv
    <2>1. start[p].inc <= proc'[p].inc BY <1>5
    <2>2. CASE p # q \/ proc[p].state # "free"
      <3>1. proc'[p].inc = proc[p].inc BY <1>4, <2>2
      <3>2. proc'[p].state # "free" => proc[p].state # "free" BY <1>4, <2>2
      <3> QED BY <2>1, <3>1, <3>2 DEF StartInv
    <2>3. CASE p = q /\ proc[p].state = "free"
      <3>1. proc'[p].inc = proc[p].inc + 1 BY <1>4, <2>3
      <3>2. proc'[p].inc # start[p].inc /\ proc'[p].inc \in Incarnations
        BY <1>5, <3>1 DEF Incarnations
      <3> QED BY <2>1, <3>2
    <2> QED BY <2>2, <2>3
  <1>7. ASSUME NEW p \in Pids, p \in Stable' PROVE p \in Stable /\ proc'[p].inc = proc[p].inc
    <2>1. /\ start[p].state # "free" /\ proc'[p].state # "free" /\ proc'[p].inc = start[p].inc
      BY <1>2, <1>7 DEF Stable
    <2>2. proc'[p].inc = proc[p].inc BY <1>5, <2>1
    <2>3. proc[p].state # "free" BY <1>4, <1>5, <2>1, <2>2
    <2> QED BY <2>1, <2>2, <2>3 DEF Stable
  <1>8. ASSUME NEW p \in Pids, NEW i, Lived(p, i) PROVE Lived(p, i)'
    <2>1. /\ i \in 1..proc[p].inc
          /\ i > start[p].inc \/ (i = start[p].inc /\ start[p].state # "free")
      BY <1>8 DEF Lived
    <2>2. i \in 1..proc'[p].inc BY <1>5, <2>1
    <2> QED BY <1>2, <2>1, <2>2 DEF Lived
  <1>9. Stable' \subseteq Pids BY DEF Stable
  <1> QED BY <1>2, <1>3, <1>6, <1>7, <1>8, <1>9

-----------------------------------------------------------------------------
(* Attribution, group by group. *)
Owned(p, part) == part # NoPart => part[1] = p /\ Lived(p, part[2])
NotBefore(part, earlier) == part # NoPart => earlier[2] <= part[2]

(* The order of the five groups, written out. *)
LEMMA AttributedParts ==
    ASSUME NEW e \in Entry
    PROVE  Attributed(e) <=>
              /\ e.stat # NoPart
              /\ Owned(e.pid, e.stat) /\ Owned(e.pid, e.status) /\ Owned(e.pid, e.cmdline)
              /\ Owned(e.pid, e.exe) /\ Owned(e.pid, e.cwd)
              /\ NotBefore(e.status, e.stat)
              /\ NotBefore(e.cmdline, e.stat) /\ NotBefore(e.cmdline, e.status)
              /\ NotBefore(e.exe, e.stat) /\ NotBefore(e.exe, e.status)
              /\ NotBefore(e.exe, e.cmdline)
              /\ NotBefore(e.cwd, e.stat) /\ NotBefore(e.cwd, e.status)
              /\ NotBefore(e.cwd, e.cmdline) /\ NotBefore(e.cwd, e.exe)
  <1> DEFINE G == Groups(e)
             Good(g) == G[g] # NoPart => /\ G[g][1] = e.pid
                                         /\ Lived(e.pid, G[g][2])
                                         /\ \A h \in 1..g : G[h][2] <= G[g][2]
  <1>1. /\ G[1] = e.stat /\ G[2] = e.status /\ G[3] = e.cmdline /\ G[4] = e.exe /\ G[5] = e.cwd
    BY DEF Groups
  <1>2. \A part \in Part : part[2] \in Nat /\ part[2] <= part[2]
    BY ProcFsAssumption DEF Part, Identity, Incarnations, NoPart
  <1>3. /\ e.stat \in Part /\ e.status \in Part /\ e.cmdline \in Part
        /\ e.exe \in Part /\ e.cwd \in Part
    BY DEF Entry
  <1>4. Attributed(e) <=> e.stat # NoPart /\ \A g \in 1..5 : Good(g)
    BY DEF Attributed
  <1> HIDE DEF G
  <1>5. (\A g \in 1..5 : Good(g)) <=> Good(1) /\ Good(2) /\ Good(3) /\ Good(4) /\ Good(5)
    <2> HIDE DEF Good
    <2>1. \A g \in 1..5 : g = 1 \/ g = 2 \/ g = 3 \/ g = 4 \/ g = 5 OBVIOUS
    <2>2. 1 \in 1..5 /\ 2 \in 1..5 /\ 3 \in 1..5 /\ 4 \in 1..5 /\ 5 \in 1..5 OBVIOUS
    <2> QED BY <2>1, <2>2
  <1>6. Good(1) <=> Owned(e.pid, e.stat)
    <2>1. \A h \in 1..1 : h = 1 OBVIOUS
    <2> QED BY <1>1, <1>2, <1>3, <2>1 DEF Owned
  <1>7. Good(2) <=> Owned(e.pid, e.status) /\ NotBefore(e.status, e.stat)
    <2>1. (\A h \in 1..2 : h = 1 \/ h = 2) /\ 1 \in 1..2 OBVIOUS
    <2> QED BY <1>1, <1>2, <1>3, <2>1 DEF Owned, NotBefore
  <1>8. Good(3) <=> /\ Owned(e.pid, e.cmdline)
                    /\ NotBefore(e.cmdline, e.stat) /\ NotBefore(e.cmdline, e.status)
    <2>1. (\A h \in 1..3 : h = 1 \/ h = 2 \/ h = 3) /\ 1 \in 1..3 /\ 2 \in 1..3 OBVIOUS
    <2> QED BY <1>1, <1>2, <1>3, <2>1 DEF Owned, NotBefore
  <1>9. Good(4) <=> /\ Owned(e.pid, e.exe) /\ NotBefore(e.exe, e.stat)
                    /\ NotBefore(e.exe, e.status) /\ NotBefore(e.exe, e.cmdline)
    <2>1. /\ \A h \in 1..4 : h = 1 \/ h = 2 \/ h = 3 \/ h = 4
          /\ 1 \in 1..4 /\ 2 \in 1..4 /\ 3 \in 1..4
      OBVIOUS
    <2> QED BY <1>1, <1>2, <1>3, <2>1 DEF Owned, NotBefore
  <1>10. Good(5) <=> /\ Owned(e.pid, e.cwd) /\ NotBefore(e.cwd, e.stat)
                     /\ NotBefore(e.cwd, e.status) /\ NotBefore(e.cwd, e.cmdline)
                     /\ NotBefore(e.cwd, e.exe)
    <2>1. /\ \A h \in 1..5 : h = 1 \/ h = 2 \/ h = 3 \/ h = 4 \/ h = 5
          /\ 1 \in 1..5 /\ 2 \in 1..5 /\ 3 \in 1..5 /\ 4 \in 1..5
      OBVIOUS
    <2> QED BY <1>1, <1>2, <1>3, <2>1 DEF Owned, NotBefore
  <1> HIDE DEF Good
  <1> QED BY <1>4, <1>5, <1>6, <1>7, <1>8, <1>9, <1>10

(* An entry begins with the group of its stat file. *)
LEMMA StatGroup ==
    ASSUME TypeOK, cur \in Pids, Lived(cur, handle), entry = NoEntry, NEW e,
           e = [entry EXCEPT !.pid = cur, !.stat = <<cur, handle>>]
    PROVE  /\ e \in Entry /\ e.pid = cur /\ Attributed(e)
           /\ e.status = NoPart /\ e.cmdline = NoPart /\ e.exe = NoPart /\ e.cwd = NoPart
  <1>1. /\ e.pid = cur /\ e.stat = <<cur, handle>> /\ e.status = NoPart
        /\ e.cmdline = NoPart /\ e.exe = NoPart /\ e.cwd = NoPart
    BY DEF NoEntry
  <1>2. handle \in Incarnations /\ cur # 0
    BY ProcFsAssumption DEF Lived, TypeOK, ProcTable, Incarnations
  <1>3. e \in Entry BY <1>2 DEF NoEntry, Entry, Part, Identity
  <1>4. e.stat # NoPart BY <1>1, <1>2 DEF NoPart
  <1>5. Attributed(e)
    <2>1. Owned(e.pid, e.stat) BY <1>1 DEF Owned
    <2>2. Owned(e.pid, NoPart) /\ \A part : NotBefore(NoPart, part) BY DEF Owned, NotBefore
    <2> QED BY ONLY <1>1, <1>3, <1>4, <2>1, <2>2, AttributedParts
  <1> QED BY <1>1, <1>3, <1>5

(* A later group: absent, or of an owner no earlier than those before. *)
LEMMA LaterGroup ==
    ASSUME TypeOK, cur \in Pids, entry.pid = cur, Attributed(entry),
           NEW part, NEW i, Lived(cur, i), part \in {<<cur, i>>, NoPart},
           entry.stat[2] <= i, entry.status[2] <= i, entry.cmdline[2] <= i,
           entry.exe[2] <= i, entry.cwd = NoPart
    PROVE  /\ part \in Part
           /\ entry.cmdline = NoPart /\ entry.exe = NoPart =>
                 Attributed([entry EXCEPT !.status = part])
           /\ entry.exe = NoPart => Attributed([entry EXCEPT !.cmdline = part])
           /\ Attributed([entry EXCEPT !.exe = part])
           /\ Attributed([entry EXCEPT !.cwd = part])
  <1>1. i \in Incarnations BY ProcFsAssumption DEF Lived, TypeOK, ProcTable, Incarnations
  <1>2. part \in Part BY <1>1 DEF Part, Identity
  <1>3. entry \in Entry BY DEF TypeOK
  <1>4. Owned(cur, part) BY DEF Owned
  <1>5. /\ NotBefore(part, entry.stat) /\ NotBefore(part, entry.status)
        /\ NotBefore(part, entry.cmdline) /\ NotBefore(part, entry.exe)
    BY DEF NotBefore
  <1>6. NotBefore(NoPart, part) BY DEF NotBefore
  <1>7. ASSUME entry.cmdline = NoPart, entry.exe = NoPart
        PROVE  Attributed([entry EXCEPT !.status = part])
    <2>1. [entry EXCEPT !.status = part] \in Entry BY <1>2, <1>3 DEF Entry
    <2> QED BY <1>3, <1>4, <1>5, <1>7, <2>1, AttributedParts DEF NotBefore, Entry
  <1>8. ASSUME entry.exe = NoPart PROVE Attributed([entry EXCEPT !.cmdline = part])
    <2>1. [entry EXCEPT !.cmdline = part] \in Entry BY <1>2, <1>3 DEF Entry
    <2> QED BY <1>3, <1>4, <1>5, <1>8, <2>1, AttributedParts DEF NotBefore, Entry
  <1>9. Attributed([entry EXCEPT !.exe = part])
    <2>1. [entry EXCEPT !.exe = part] \in Entry BY <1>2, <1>3 DEF Entry
    <2> QED BY <1>3, <1>4, <1>5, <2>1, AttributedParts DEF NotBefore, Entry
  <1>10. Attributed([entry EXCEPT !.cwd = part])
    <2>1. [entry EXCEPT !.cwd = part] \in Entry BY <1>2, <1>3 DEF Entry
    <2> QED BY <1>3, <1>4, <1>5, <2>1, AttributedParts DEF NotBefore, Entry
  <1> QED BY <1>2, <1>7, <1>8, <1>9, <1>10

-----------------------------------------------------------------------------
(* No query has begun. *)
LEMMA InitInv == Init => IInv
  <1> SUFFICES ASSUME Init PROVE IInv OBVIOUS
  <1> USE ProcFsAssumption
  <1>1. proc \in ProcTable /\ start \in ProcTable BY DEF Init, ProcInit, NoStart, ProcTable
  <1>2. NoEntry \in Entry BY DEF NoEntry, Entry, Part
  <1>3. TypeOK
    <2>1. result.kind = "none" /\ result.code = "none" /\ result.entries = <<>> /\ result.count = 0
      BY DEF Init, NoResult
    <2>2. 0 \in 0..MaxIncarnation OBVIOUS
    <2> QED BY <1>1, <1>2, <2>1, <2>2 DEF Init, ProcInit, TypeOK, Codes
  <1>4. StartInv
    <2> SUFFICES ASSUME NEW p \in Pids
                 PROVE  /\ start[p].inc <= proc[p].inc
                        /\ proc[p].state # "free" => proc[p].inc \in Incarnations
                        /\ proc[p].state # "free" => proc[p].inc # start[p].inc
      BY DEF StartInv
    <2>1. proc[p].inc \in 0..MaxIncarnation /\ (proc[p].state = "free" <=> proc[p].inc = 0)
      BY <1>1 DEF Init, ProcInit, ProcTable
    <2>2. start[p].inc = 0 BY DEF Init, ProcInit, NoStart
    <2> QED BY <2>1, <2>2 DEF Incarnations
  <1>5. PhaseInv BY DEF Init, PhaseInv, InSingle, NoCall
  <1>6. EntryInv BY DEF Init, EntryInv, InSingle
  <1>7. ListInv BY DEF Init, ListInv
  <1>8. WalkInv BY DEF Init, WalkInv, InSingle, Enumerated
  <1>9. DoneInv BY DEF Init, DoneInv, NotFoundIsTrue, EnumerationSurvives
  <1> QED BY <1>3, <1>4, <1>5, <1>6, <1>7, <1>8, <1>9 DEF IInv

(* The query in progress is one of the four. *)
LEMMA CallKinds ==
    ASSUME IInv, pc # "idle"
    PROVE  /\ call \in Calls
           /\ call.op \in ListOps <=> call.op # "find_process"
           /\ call.op \in ListOps \cup {"find_process"}
  <1>1. call # NoCall
    <2>1. call.op # "none" BY DEF IInv, PhaseInv
    <2>2. NoCall.op = "none" BY DEF NoCall
    <2> QED BY <2>1, <2>2
  <1>2. call \in Calls BY <1>1 DEF IInv, TypeOK
  <1> QED BY <1>2 DEF Calls, ListOps

(* query_single_process goes on: only its own entry is at stake. *)
LEMMA StaysInv ==
    ASSUME IInv, InSingle, InSingle', UNCHANGED <<procVars, call, cur, list, result>>
    PROVE  StartInv' /\ ListInv' /\ WalkInv' /\ DoneInv'
  <1>1. /\ proc' = proc /\ start' = start /\ returned' = returned /\ call' = call
        /\ cur' = cur /\ list' = list /\ result' = result
        /\ pc \notin {"idle", "done", "readdir"} /\ pc' \notin {"idle", "done", "readdir"}
    BY DEF procVars, InSingle
  <1>2. /\ Stable' = Stable /\ StartInv' /\ \A e : Attributed(e) => Attributed(e)'
    BY <1>1, LibFrame DEF IInv
  <1>3. ListInv' BY <1>1, <1>2 DEF IInv, ListInv
  <1>4. WalkInv'
    <2>1. ~Enumerated' BY <1>1 DEF Enumerated
    <2>2. \A p : Entered(p)' <=> Entered(p) BY <1>1 DEF Entered
    <2>3. call.op \in ListOps =>
             \A p \in Stable : p \in returned /\ (InSingle => p # cur) => Entered(p)
      BY DEF IInv, WalkInv
    <2> QED BY <1>1, <1>2, <2>1, <2>2, <2>3 DEF WalkInv
  <1>5. DoneInv' BY <1>1 DEF DoneInv, NotFoundIsTrue, EnumerationSurvives
  <1> QED BY <1>2, <1>3, <1>4, <1>5

(* The query ends with an error that the properties admit. *)
LEMMA ErrorInv ==
    ASSUME IInv, InQuery, NEW code \in Codes, Return(Fail(code)),
           UNCHANGED <<procVars, call, file, cur, handle, entry>>,
           call.op = "find_process" /\ code = "not_found" => call.pid \notin Stable,
           call.op \in ListOps => \/ code \in {"EMFILE", "EIO"} /\ Faults
                                  \/ code = "EPERM"
                                  \/ code = "ESRCH" /\ cur \notin Stable
    PROVE  IInv'
  <1>1. /\ proc' = proc /\ start' = start /\ returned' = returned /\ call' = call
        /\ cur' = cur /\ list' = list /\ pc' = "done" /\ file' = file /\ handle' = handle
        /\ entry' = entry /\ pc # "idle"
        /\ result' = Fail(code)
    BY DEF procVars, InQuery, Return
  <1>2. /\ Stable' = Stable /\ StartInv' /\ \A e : Attributed(e) => Attributed(e)'
    BY <1>1, LibFrame DEF IInv
  <1>3. /\ result'.kind = "error" /\ result'.code = code
        /\ result'.entries = <<>> /\ result'.count = 0
    BY <1>1 DEF Fail
  <1>4. TypeOK' BY <1>1, <1>3 DEF IInv, TypeOK
  <1>5. ~InSingle' BY <1>1 DEF InSingle
  <1>6. PhaseInv' BY <1>1, <1>5 DEF IInv, PhaseInv, InQuery
  <1>7. EntryInv' BY <1>1, <1>5 DEF EntryInv
  <1>8. ListInv' BY <1>1, <1>2, <1>5 DEF IInv, ListInv
  <1>9. WalkInv' BY <1>1, <1>3, <1>5 DEF WalkInv, Enumerated
  <1>10. DoneInv'
    BY <1>1, <1>2, <1>3 DEF DoneInv, NotFoundIsTrue, EnumerationSurvives
  <1> QED BY <1>2, <1>4, <1>6, <1>7, <1>8, <1>9, <1>10 DEF IInv

(* An enumeration passes over cur: cur is not a process it must list. *)
LEMMA SkipInv ==
    ASSUME IInv, InSingle, call.op \in ListOps, pc' = "readdir",
           UNCHANGED <<procVars, call, file, cur, handle, entry, list, result>>,
           cur \in Stable => AccessOf[cur][proc[cur].inc] \notin Readable
    PROVE  IInv'
  <1>1. /\ proc' = proc /\ start' = start /\ returned' = returned /\ call' = call
        /\ cur' = cur /\ list' = list /\ result' = result /\ file' = file
        /\ handle' = handle /\ entry' = entry /\ pc \notin {"idle", "done", "readdir"}
    BY DEF procVars, InSingle
  <1>2. /\ Stable' = Stable /\ StartInv' /\ \A e : Attributed(e) => Attributed(e)'
    BY <1>1, LibFrame DEF IInv
  <1>3. TypeOK' BY <1>1 DEF IInv, TypeOK
  <1>4. ~InSingle' BY DEF InSingle
  <1>5. call.op # "none" /\ call.op # "find_process" BY DEF ListOps
  <1>6. PhaseInv' BY <1>1, <1>4, <1>5 DEF IInv, PhaseInv
  <1>7. EntryInv' BY <1>4 DEF EntryInv
  <1>8. ListInv' BY <1>1, <1>2, <1>4 DEF IInv, ListInv
  <1>9. WalkInv'
    <2>1. \A p : Entered(p)' <=> Entered(p) BY <1>1 DEF Entered
    <2>2. \A p \in Stable : p \in returned /\ p # cur => Entered(p)
      BY DEF IInv, WalkInv
    <2>3. cur \in Stable => Entered(cur) BY DEF Entered
    <2>4. ~Enumerated' BY DEF Enumerated
    <2> QED BY <1>1, <1>2, <2>1, <2>2, <2>3, <2>4 DEF WalkInv
  <1>10. DoneInv' BY <1>1 DEF DoneInv, NotFoundIsTrue, EnumerationSurvives
  <1> QED BY <1>2, <1>3, <1>6, <1>7, <1>8, <1>9, <1>10 DEF IInv

(* query_single_process fails on cur: its caller skips cur or fails with it. *)
LEMMA SingleFailedInv ==
    ASSUME IInv, InSingle, NEW code \in Codes \ {"none", "EIO"}, SingleFailed(code),
           UNCHANGED <<procVars, call, file, cur, handle, entry>>,
           code \in {"not_found", "ESRCH"} => cur \notin Stable,
           code \in {"EACCES", "malformed_data", "value_too_large"} =>
              (cur \in Stable => AccessOf[cur][proc[cur].inc] \notin Readable),
           code = "EMFILE" => Faults
    PROVE  IInv'
  <1>1. pc # "idle" /\ InQuery BY DEF InSingle, InQuery
  <1>2. CASE call.op \in ListOps /\ skippable_process_error(code)
    BY <1>2, SkipInv DEF SingleFailed, skippable_process_error
  <1>3. CASE ~(call.op \in ListOps /\ skippable_process_error(code))
    <2>1. Return(Fail(code)) BY <1>3 DEF SingleFailed
    <2>2. call.op = "find_process" => cur = call.pid BY DEF IInv, PhaseInv
    <2>3. call.op \in ListOps => \/ code \in {"EMFILE", "EIO"} /\ Faults
                                 \/ code = "EPERM"
                                 \/ code = "ESRCH" /\ cur \notin Stable
      BY <1>3 DEF Codes, skippable_process_error
    <2> QED BY <1>1, <2>1, <2>2, <2>3, ErrorInv
  <1> QED BY <1>2, <1>3

(* query_single_process goes on to its next file with the entry it has. *)
LEMMA AdvanceInv ==
    ASSUME IInv, InSingle, NEW f \in {"status", "cmdline", "exe", "cwd"}, Advance(f),
           UNCHANGED <<procVars, call, cur, handle>>,
           NEW e \in Entry, entry' = e, e.pid = cur, Attributed(e),
           f = "status" => e.status = NoPart,
           f \in {"status", "cmdline"} => e.cmdline = NoPart,
           f # "cwd" => e.exe = NoPart,
           e.cwd = NoPart
    PROVE  IInv'
  <1>1. /\ proc' = proc /\ start' = start /\ returned' = returned /\ call' = call
        /\ cur' = cur /\ list' = list /\ result' = result /\ handle' = handle
        /\ file' = f /\ pc' \in {"open", "link"} /\ pc \notin {"idle", "done", "readdir"}
        /\ pc' = "link" <=> f \in {"exe", "cwd"}
    BY DEF procVars, InSingle, Advance
  <1>2. InSingle' BY <1>1 DEF InSingle
  <1>3. StartInv' /\ ListInv' /\ WalkInv' /\ DoneInv' BY <1>1, <1>2, StaysInv DEF Advance
  <1>4. TypeOK' BY <1>1 DEF IInv, TypeOK
  <1>5. PhaseInv' BY <1>1, <1>2 DEF IInv, PhaseInv
  <1>6. EntryInv'
    <2>1. Attributed(e)' BY <1>1, LibFrame
    <2>2. f # "stat" OBVIOUS
    <2> QED BY <1>1, <1>2, <2>1, <2>2 DEF EntryInv
  <1> QED BY <1>3, <1>4, <1>5, <1>6 DEF IInv

(* A call begins with the process table of this moment. *)
LEMMA BeginCallInv ==
    ASSUME IInv, NEW c \in Calls, BeginCall(c)
    PROVE  /\ proc' \in ProcTable /\ start' \in ProcTable /\ returned' = {}
           /\ list' = <<>> /\ call' = c
           /\ StartInv' /\ ListInv'
  <1>1. /\ proc' = proc /\ start' = proc /\ returned' = {} /\ list' = <<>> /\ call' = c
    BY DEF BeginCall
  <1>2. StartInv' BY <1>1 DEF IInv, StartInv, TypeOK, ProcTable
  <1> QED BY <1>1, <1>2 DEF IInv, TypeOK, ListInv

(* An enumeration begins, answers at once, or finds no descriptor left. *)
LEMMA EnumerateInv ==
    ASSUME IInv, NEW c \in Calls, Enumerate(c)
    PROVE  IInv'
  <1>1. /\ proc' \in ProcTable /\ start' \in ProcTable /\ returned' = {}
        /\ list' = <<>> /\ call' = c /\ StartInv' /\ ListInv'
    BY BeginCallInv DEF Enumerate
  <1>2. /\ c.op \in ListOps /\ file' = file /\ cur' = cur /\ handle' = handle /\ entry' = entry
    BY DEF Enumerate
  <1>3. \/ /\ pc' = "done" /\ result' = Ok(<<>>)
           /\ c.op = "find_processes_by_name" /\ c.name = ""
        \/ pc' = "readdir" /\ result' = NoResult
        \/ Faults /\ pc' = "done" /\ result' = Fail("EMFILE")
    BY DEF Enumerate
  <1>a. /\ Ok(<<>>).kind = "ok" /\ Ok(<<>>).code = "none"
        /\ Ok(<<>>).entries = <<>> /\ Ok(<<>>).count = 0
    <2>1. Len(<<>>) = 0 OBVIOUS
    <2> QED BY <2>1 DEF Ok
  <1>b. /\ Fail("EMFILE").kind = "error" /\ Fail("EMFILE").code = "EMFILE"
        /\ Fail("EMFILE").entries = <<>> /\ Fail("EMFILE").count = 0
    BY DEF Fail
  <1>c. /\ NoResult.kind = "none" /\ NoResult.code = "none"
        /\ NoResult.entries = <<>> /\ NoResult.count = 0
    BY DEF NoResult
  <1>e. result'.entries = <<>> /\ result'.count = 0 /\ result'.code \in {"none", "EMFILE"}
    BY <1>3, <1>a, <1>b, <1>c
  <1>4. /\ result'.kind \in {"none", "ok", "error"}
        /\ result'.kind = "error" => result'.code = "EMFILE"
        /\ pc' = "done" /\ result'.kind = "ok" =>
              c.op = "find_processes_by_name" /\ c.name = ""
        /\ pc' = "readdir" => result' = NoResult
        /\ pc' \in {"readdir", "done"}
    BY <1>3, <1>a, <1>b, <1>c
  <1>d. result'.kind = "error" => Faults BY <1>3, <1>a, <1>b, <1>c
  <1>5. c.op # "none" /\ c.op # "find_process" BY <1>2 DEF ListOps
  <1>6. TypeOK'
    <2>1. list' \in Seq(Entry) /\ result'.entries \in Seq(Entry) BY <1>1, <1>e
    <2>2. call' \in Calls \cup {NoCall} BY <1>1
    <2>3. returned' \subseteq Pids BY <1>1
    <2>4. result'.count \in Nat /\ result'.code \in Codes BY <1>e DEF Codes
    <2>5. file \in {"stat", "status", "cmdline", "exe", "cwd"} /\ cur \in Pids \cup {0}
          /\ handle \in 0..MaxIncarnation /\ entry \in Entry
      BY DEF IInv, TypeOK
    <2> QED BY <1>1, <1>2, <1>4, <2>1, <2>2, <2>3, <2>4, <2>5 DEF TypeOK
  <1>7. ~InSingle' BY <1>4 DEF InSingle
  <1>8. PhaseInv' BY <1>1, <1>2, <1>4, <1>5, <1>7 DEF PhaseInv
  <1>9. EntryInv' BY <1>4, <1>7 DEF EntryInv
  <1>10. WalkInv' BY <1>1, <1>4, <1>7 DEF WalkInv, Enumerated
  <1>11. DoneInv'
    <2>1. NotFoundIsTrue' BY <1>1, <1>5 DEF NotFoundIsTrue
    <2>2. EnumerationSurvives' BY <1>4, <1>d DEF EnumerationSurvives
    <2> QED BY <1>e, <2>1, <2>2 DEF DoneInv
  <1> QED BY <1>1, <1>6, <1>8, <1>9, <1>10, <1>11 DEF IInv

(* find_process() of a number no process can have, or of one that may exist. *)
LEMMA FindProcessInv ==
    ASSUME IInv, NEW c \in Calls, FindProcess(c)
    PROVE  IInv'
  <1> USE ProcFsAssumption
  <1>1. /\ proc' \in ProcTable /\ start' \in ProcTable /\ returned' = {}
        /\ list' = <<>> /\ call' = c /\ StartInv' /\ ListInv'
    BY BeginCallInv DEF FindProcess
  <1>2. c.op = "find_process" /\ c.op \notin ListOps /\ c.op # "none" BY DEF FindProcess, ListOps
  <1>3. c.pid \in Pids \cup {0} BY <1>2 DEF Calls
  <1>4. NoEntry \in Entry BY DEF NoEntry, Entry, Part
  <1>5. CASE c.pid = 0
    <2>1. /\ pc' = "done" /\ result' = Fail("not_found")
          /\ UNCHANGED <<file, cur, handle, entry>>
      BY <1>5 DEF FindProcess
    <2>2. /\ result'.entries = <<>> /\ result'.count = 0 /\ result'.code = "not_found"
          /\ result'.kind = "error"
      BY <2>1 DEF Fail
    <2>3. TypeOK'
      <3>1. list' \in Seq(Entry) /\ result'.entries \in Seq(Entry) BY <1>1, <2>2
      <3>2. result'.count \in Nat /\ result'.code \in Codes BY <2>2 DEF Codes
      <3>3. file \in {"stat", "status", "cmdline", "exe", "cwd"} /\ cur \in Pids \cup {0}
            /\ handle \in 0..MaxIncarnation /\ entry \in Entry
        BY DEF IInv, TypeOK
      <3> QED BY <1>1, <2>1, <2>2, <3>1, <3>2, <3>3 DEF TypeOK
    <2>4. ~InSingle' BY <2>1 DEF InSingle
    <2>5. PhaseInv' BY <1>1, <1>2, <2>1, <2>4 DEF PhaseInv
    <2>6. EntryInv' /\ WalkInv' BY <2>1, <2>2, <2>4 DEF EntryInv, WalkInv, Enumerated
    <2>7. c.pid \notin Stable' BY <1>5 DEF Stable
    <2>8. DoneInv' BY <1>1, <1>2, <2>2, <2>7 DEF DoneInv, NotFoundIsTrue, EnumerationSurvives
    <2> QED BY <1>1, <2>3, <2>5, <2>6, <2>8 DEF IInv
  <1>6. CASE c.pid # 0
    <2>1. /\ pc' = "open" /\ result' = NoResult /\ cur' = c.pid /\ file' = "stat"
          /\ entry' = NoEntry /\ handle' = 0
      BY <1>6 DEF FindProcess, BeginSingle
    <2>2. /\ result'.entries = <<>> /\ result'.count = 0 /\ result'.code = "none"
          /\ result'.kind = "none"
      BY <2>1 DEF NoResult
    <2>3. 0 \in 0..MaxIncarnation OBVIOUS
    <2>4. TypeOK' BY <1>1, <1>3, <1>4, <2>1, <2>2, <2>3 DEF TypeOK, Codes
    <2>5. PhaseInv' BY <1>1, <1>2, <1>3, <1>6, <2>1 DEF PhaseInv, InSingle
    <2>6. EntryInv'
      <3>1. /\ NoEntry.status = NoPart /\ NoEntry.cmdline = NoPart /\ NoEntry.exe = NoPart
            /\ NoEntry.cwd = NoPart
        BY DEF NoEntry
      <3> QED BY <2>1, <3>1 DEF EntryInv, InSingle
    <2>7. WalkInv' BY <1>1, <1>2, <2>1 DEF WalkInv, Enumerated
    <2>8. DoneInv' BY <2>1 DEF DoneInv, NotFoundIsTrue, EnumerationSurvives
    <2> QED BY <1>1, <2>4, <2>5, <2>6, <2>7, <2>8 DEF IInv
  <1> QED BY <1>5, <1>6

(* readdir() returns one more name. *)
LEMMA ReadDirNameInv ==
    ASSUME IInv, NEW p \in Pids, ReadDirName(p)
    PROVE  IInv'
  <1> USE ProcFsAssumption
  <1>1. /\ proc' = proc /\ start' = start /\ returned' = returned \cup {p} /\ p \notin returned
        /\ call' = call /\ list' = list /\ result' = result /\ pc = "readdir" /\ pc' = "open"
        /\ cur' = p /\ file' = "stat" /\ entry' = NoEntry /\ handle' = 0
    BY DEF ReadDirName, BeginSingle, DirectoryMayYield
  <1>2. /\ Stable' = Stable /\ StartInv' /\ \A e : Attributed(e) => Attributed(e)'
    BY <1>1, LibFrame DEF IInv
  <1>3. call.op \in ListOps /\ call.op # "find_process" BY <1>1 DEF IInv, PhaseInv, ListOps
  <1>4. NoEntry \in Entry BY DEF NoEntry, Entry, Part
  <1>5. 0 \in 0..MaxIncarnation OBVIOUS
  <1>6. TypeOK' BY <1>1, <1>4, <1>5 DEF IInv, TypeOK
  <1>7. InSingle' /\ ~InSingle BY <1>1 DEF InSingle
  <1>8. PhaseInv' BY <1>1, <1>3, <1>7 DEF IInv, PhaseInv
  <1>9. EntryInv'
    <2>1. /\ NoEntry.status = NoPart /\ NoEntry.cmdline = NoPart /\ NoEntry.exe = NoPart
          /\ NoEntry.cwd = NoPart
      BY DEF NoEntry
    <2> QED BY <1>1, <2>1 DEF EntryInv
  <1>10. ListInv' BY <1>1, <1>2 DEF IInv, ListInv
  <1>11. WalkInv'
    <2>1. \A q : Entered(q)' <=> Entered(q) BY <1>1 DEF Entered
    <2>2. \A q \in Stable : q \in returned => Entered(q) BY <1>1, <1>3, <1>7 DEF IInv, WalkInv
    <2>3. ~Enumerated' BY <1>1 DEF Enumerated
    <2> QED BY <1>1, <1>2, <1>7, <2>1, <2>2, <2>3 DEF WalkInv
  <1>12. DoneInv' BY <1>1 DEF DoneInv, NotFoundIsTrue, EnumerationSurvives
  <1> QED BY <1>2, <1>6, <1>8, <1>9, <1>10, <1>11, <1>12 DEF IInv

(* readdir() fails: so does the enumeration. *)
LEMMA ReadDirErrorInv ==
    ASSUME IInv, ReadDirError
    PROVE  IInv'
  <1>1. /\ InQuery /\ "EIO" \in Codes /\ Return(Fail("EIO")) /\ Faults
        /\ UNCHANGED <<procVars, call, file, cur, handle, entry>>
    BY DEF ReadDirError, InQuery, Codes
  <1> QED BY <1>1, ErrorInv

(* No group so far is of a later owner than the present one. *)
LEMMA PastGroups ==
    ASSUME TypeOK, cur \in Pids, entry = NoEntry \/ (entry.pid = cur /\ Attributed(entry))
    PROVE  /\ entry.stat[2] <= proc[cur].inc /\ entry.status[2] <= proc[cur].inc
           /\ entry.cmdline[2] <= proc[cur].inc /\ entry.exe[2] <= proc[cur].inc
  <1>1. proc[cur].inc \in Nat BY DEF TypeOK, ProcTable
  <1>2. CASE entry = NoEntry BY <1>1, <1>2 DEF NoEntry, NoPart
  <1>3. CASE entry.pid = cur /\ Attributed(entry)
    <2>1. /\ Owned(cur, entry.stat) /\ Owned(cur, entry.status) /\ Owned(cur, entry.cmdline)
          /\ Owned(cur, entry.exe)
      BY <1>3, AttributedParts DEF TypeOK
    <2>2. \A part : Owned(cur, part) => part[2] <= proc[cur].inc
      <3> SUFFICES ASSUME NEW part, Owned(cur, part) PROVE part[2] <= proc[cur].inc OBVIOUS
      <3>1. CASE part = NoPart BY <1>1, <3>1 DEF NoPart
      <3>2. CASE part # NoPart BY <1>1, <3>2 DEF Owned, Lived
      <3> QED BY <3>1, <3>2
    <2> QED BY <2>1, <2>2
  <1> QED BY <1>2, <1>3

(* A failure of the stat file ends the query of cur; those of the others do not. *)
LEMMA FileFailedInv ==
    ASSUME IInv, pc \in {"open", "read"},
           NEW code \in {"ENOENT", "EMFILE", "EACCES", "EPERM", "ESRCH"}, FileFailed(code),
           code \in {"ENOENT", "ESRCH"} => cur \notin Stable,
           code = "EACCES" => (cur \in Stable => AccessOf[cur][proc[cur].inc] \notin Readable),
           code = "EMFILE" => Faults
    PROVE  IInv'
  <1>1. InSingle /\ UNCHANGED <<procVars, call, cur, handle, entry>>
    BY DEF InSingle, FileFailed
  <1>2. CASE file = "stat"
    <2> DEFINE m == IF code = "ENOENT" THEN "not_found" ELSE code
    <2>1. SingleFailed(m) /\ UNCHANGED file BY <1>2 DEF FileFailed
    <2>2. m \in Codes \ {"none", "EIO"} BY DEF Codes
    <2>3. m \in {"not_found", "ESRCH"} => cur \notin Stable OBVIOUS
    <2>4. m \in {"EACCES", "malformed_data", "value_too_large"} =>
             (cur \in Stable => AccessOf[cur][proc[cur].inc] \notin Readable)
      OBVIOUS
    <2>5. m = "EMFILE" => Faults OBVIOUS
    <2> HIDE DEF m
    <2> QED BY <1>1, <2>1, <2>2, <2>3, <2>4, <2>5, SingleFailedInv
  <1>3. CASE file # "stat"
    <2>1. /\ entry.pid = cur /\ Attributed(entry) /\ entry \in Entry /\ entry.cwd = NoPart
          /\ file \in {"status", "cmdline"}
      BY <1>1, <1>3 DEF IInv, EntryInv, TypeOK, PhaseInv
    <2>2. CASE file = "status"
      <3>1. entry.cmdline = NoPart /\ entry.exe = NoPart BY <1>1, <2>2 DEF IInv, EntryInv
      <3>2. Advance("cmdline") BY <2>2 DEF FileFailed, AfterStatus
      <3> QED BY <1>1, <2>1, <3>1, <3>2, AdvanceInv
    <2>3. CASE file = "cmdline"
      <3>1. entry.exe = NoPart BY <1>1, <2>3 DEF IInv, EntryInv
      <3>2. Advance("exe") BY <2>3 DEF FileFailed, AfterCmdline
      <3> QED BY <1>1, <2>1, <3>1, <3>2, AdvanceInv
    <2> QED BY <2>1, <2>2, <2>3
  <1> QED BY <1>2, <1>3

(* open() of a file of cur: a stable process is never missing. *)
LEMMA OpenFileInv ==
    ASSUME IInv, OpenFile
    PROVE  IInv'
  <1> USE ProcFsAssumption
  <1>1. /\ pc = "open" /\ cur \in Pids /\ InSingle /\ TypeOK /\ StartInv
        /\ file \in {"stat", "status", "cmdline"}
    BY DEF OpenFile, IInv, PhaseInv, InSingle
  <1>2. PICK outcome \in OpenOutcomes(cur) :
          IF outcome = "ok"
          THEN /\ handle' = proc[cur].inc
               /\ pc' = "read"
               /\ UNCHANGED <<procVars, call, file, cur, entry, list, result>>
          ELSE FileFailed(outcome)
    BY DEF OpenFile
  <1>3. CASE outcome = "ok"
    <2>1. Exists(cur) BY <1>2, <1>3 DEF OpenOutcomes
    <2>2. /\ proc' = proc /\ start' = start /\ returned' = returned /\ call' = call
          /\ cur' = cur /\ list' = list /\ result' = result /\ file' = file /\ entry' = entry
          /\ handle' = proc[cur].inc /\ pc' = "read" /\ InSingle'
      BY <1>2, <1>3 DEF procVars, InSingle
    <2>3. StartInv' /\ ListInv' /\ WalkInv' /\ DoneInv'
      BY <1>1, <1>2, <1>3, <2>2, StaysInv
    <2>4. Lived(cur, proc[cur].inc) /\ proc[cur].inc \in Incarnations
      BY <1>1, <2>1, OwnerLived
    <2>5. AccessOf[cur][proc[cur].inc] \in Readable \cup {"odd"}
      <3>1. AccessOf[cur][proc[cur].inc] \in AccessClasses BY <1>1, <2>4
      <3>2. AccessOf[cur][proc[cur].inc] \notin {"eacces", "eperm"}
        BY <1>3, <2>1 DEF OpenOutcomes
      <3> QED BY <3>1, <3>2 DEF AccessClasses, Readable
    <2>6. TypeOK' BY <1>1, <2>2, <2>4 DEF TypeOK, Incarnations
    <2>7. PhaseInv'
      <3>1. Lived(cur, proc[cur].inc)' BY <2>2, <2>4, LibFrame
      <3>2. Lived(cur, handle)' BY <2>2, <3>1
      <3> QED BY <1>1, <2>2, <2>5, <3>2 DEF IInv, PhaseInv
    <2>8. EntryInv'
      <3>1. entry = NoEntry \/ (entry.pid = cur /\ Attributed(entry)) BY <1>1 DEF IInv, EntryInv
      <3>2. entry.stat[2] <= proc[cur].inc /\ entry.status[2] <= proc[cur].inc
        BY <1>1, <3>1, PastGroups
      <3>3. Attributed(entry) => Attributed(entry)' BY <2>2, LibFrame
      <3> QED BY <1>1, <2>2, <3>2, <3>3 DEF IInv, EntryInv
    <2> QED BY <2>3, <2>6, <2>7, <2>8 DEF IInv
  <1>4. CASE outcome # "ok"
    <2>1. FileFailed(outcome) BY <1>2, <1>4
    <2>2. outcome \in {"ENOENT", "EMFILE", "EACCES", "EPERM"} BY <1>4 DEF OpenOutcomes
    <2>3. outcome = "ENOENT" => ~Exists(cur) BY DEF OpenOutcomes
    <2>4. outcome = "ENOENT" => cur \notin Stable BY <2>3 DEF Exists, Stable
    <2>5. outcome = "EACCES" => AccessOf[cur][proc[cur].inc] = "eacces" BY DEF OpenOutcomes
    <2>6. outcome = "EACCES" => AccessOf[cur][proc[cur].inc] \notin Readable BY <2>5 DEF Readable
    <2>7. outcome = "EMFILE" => Faults BY DEF OpenOutcomes
    <2>8. outcome \in {"ENOENT", "ESRCH"} => cur \notin Stable BY <2>2, <2>4
    <2> QED BY <1>1, <2>1, <2>2, <2>6, <2>7, <2>8, FileFailedInv
  <1> QED BY <1>3, <1>4

(* What the open handle of a stable process reads is that process. *)
LEMMA GoneIsUnstable ==
    ASSUME IInv, pc = "read", ~Holds(cur, handle)
    PROVE  cur \notin Stable
  BY StableOwner DEF IInv, PhaseInv

(* read() fails: the process behind the handle is gone. *)
LEMMA ReadFailedInv ==
    ASSUME IInv, ReadFailed
    PROVE  IInv'
  <1>1. pc = "read" /\ FileFailed("ESRCH") /\ ~Holds(cur, handle)
    BY DEF ReadFailed, ReadOutcomes
  <1>2. cur \notin Stable BY <1>1, GoneIsUnstable
  <1> QED BY <1>1, <1>2, FileFailedInv

(* parse_proc_stat_entry rejects the record or begins the entry. *)
LEMMA ReadStatInv ==
    ASSUME IInv, ReadStat
    PROVE  IInv'
  <1> USE ProcFsAssumption
  <1>1. /\ pc = "read" /\ file = "stat" /\ cur \in Pids /\ InSingle /\ TypeOK
        /\ UNCHANGED <<procVars, call, cur, handle>>
        /\ Lived(cur, handle) /\ entry = NoEntry
    BY DEF ReadStat, IInv, PhaseInv, EntryInv, InSingle
  <1>2. CASE /\ \/ "empty" \in ReadOutcomes(cur, handle)
                \/ Holds(cur, handle) /\ AccessOf[cur][handle] = "odd"
             /\ \E code \in ParseErrors : SingleFailed(code)
             /\ UNCHANGED <<file, entry>>
    <2>1. PICK code \in ParseErrors : SingleFailed(code) BY <1>2
    <2>2. cur \in Stable => AccessOf[cur][proc[cur].inc] \notin Readable
      <3>1. CASE Holds(cur, handle)
        BY <1>2, <3>1 DEF ReadOutcomes, Holds, Readable
      <3>2. CASE ~Holds(cur, handle)
        BY <1>1, <3>2, GoneIsUnstable
      <3> QED BY <3>1, <3>2
    <2>3. code \in {"malformed_data", "value_too_large"} BY DEF ParseErrors
    <2>4. code \in Codes \ {"none", "EIO"} /\ code \notin {"not_found", "ESRCH", "EMFILE"}
      BY <2>3 DEF Codes
    <2> QED BY <1>1, <1>2, <2>1, <2>2, <2>4, SingleFailedInv
  <1>3. CASE entry' = [entry EXCEPT !.pid = cur, !.stat = <<cur, handle>>] /\ AfterStat
    <2> DEFINE e == [entry EXCEPT !.pid = cur, !.stat = <<cur, handle>>]
    <2>1. /\ e \in Entry /\ e.pid = cur /\ Attributed(e)
          /\ e.status = NoPart /\ e.cmdline = NoPart /\ e.exe = NoPart /\ e.cwd = NoPart
      BY <1>1, StatGroup
    <2>2. Advance("status") BY <1>3 DEF AfterStat
    <2>3. entry' = e BY <1>3
    <2> HIDE DEF e
    <2> QED BY <1>1, <2>1, <2>2, <2>3, AdvanceInv
  <1> QED BY <1>2, <1>3 DEF ReadStat

(* Where the fields after stat come from, whichever file they are read from. *)
LEMMA GroupRead ==
    ASSUME IInv, InSingle, file # "stat", NEW i, NEW part, part \in {<<cur, i>>, NoPart},
           \/ pc = "read" /\ i = handle
           \/ pc = "link" /\ i = proc[cur].inc
    PROVE  /\ part \in Part /\ cur \in Pids /\ entry.pid = cur /\ Attributed(entry)
           /\ entry \in Entry /\ entry.cwd = NoPart
           /\ file = "status" => Attributed([entry EXCEPT !.status = part])
           /\ file = "cmdline" => Attributed([entry EXCEPT !.cmdline = part])
           /\ file = "exe" => Attributed([entry EXCEPT !.exe = part])
           /\ file = "cwd" => Attributed([entry EXCEPT !.cwd = part])
  <1> USE ProcFsAssumption
  <1>1. /\ TypeOK /\ cur \in Pids /\ entry.pid = cur /\ Attributed(entry) /\ entry \in Entry
        /\ entry.cwd = NoPart
        /\ file \in {"stat", "status", "cmdline"} => entry.cmdline = NoPart
        /\ file # "cwd" => entry.exe = NoPart
    BY DEF IInv, EntryInv, PhaseInv, TypeOK
  <1>2. NoPart[2] = 0 BY DEF NoPart
  <1>3. /\ Lived(cur, i) /\ entry.stat[2] <= i /\ entry.status[2] <= i
        /\ entry.cmdline[2] <= i /\ entry.exe[2] <= i
    <2>1. CASE pc = "read" /\ i = handle
      <3>1. file \in {"stat", "status", "cmdline"} /\ Lived(cur, handle)
            /\ entry.stat[2] <= handle /\ entry.status[2] <= handle /\ handle \in Nat
        BY <2>1 DEF IInv, PhaseInv, EntryInv, TypeOK
      <3> QED BY <1>1, <1>2, <2>1, <3>1
    <2>2. CASE pc = "link" /\ i = proc[cur].inc
      <3>1. /\ entry.stat[2] <= i /\ entry.status[2] <= i
            /\ entry.cmdline[2] <= i /\ entry.exe[2] <= i
        BY <1>1, <2>2, PastGroups
      <3>2. Lived(cur, entry.stat[2])
        BY <1>1, AttributedParts DEF Owned
      <3>3. i \in Nat /\ start[cur].inc \in Nat BY <1>1, <2>2 DEF TypeOK, ProcTable
      <3>4. i \in 1..proc[cur].inc BY <2>2, <3>1, <3>2, <3>3 DEF Lived
      <3>5. i > start[cur].inc \/ (i = start[cur].inc /\ start[cur].state # "free")
        BY <2>2, <3>1, <3>2, <3>3 DEF Lived
      <3> QED BY <1>1, <3>1, <3>4, <3>5 DEF Lived
    <2> QED BY <2>1, <2>2
  <1>4. /\ part \in Part
        /\ entry.cmdline = NoPart /\ entry.exe = NoPart =>
              Attributed([entry EXCEPT !.status = part])
        /\ entry.exe = NoPart => Attributed([entry EXCEPT !.cmdline = part])
        /\ Attributed([entry EXCEPT !.exe = part])
        /\ Attributed([entry EXCEPT !.cwd = part])
    BY <1>1, <1>3, LaterGroup
  <1> QED BY <1>1, <1>4

(* parse_proc_status: the uid and gid of the process, or nothing. *)
LEMMA ReadStatusInv ==
    ASSUME IInv, ReadStatus
    PROVE  IInv'
  <1>1. /\ pc = "read" /\ file = "status" /\ InSingle /\ Advance("cmdline")
        /\ UNCHANGED <<procVars, call, cur, handle>>
        /\ entry.cmdline = NoPart /\ entry.exe = NoPart /\ entry.cwd = NoPart
        /\ entry.status = NoPart
    BY DEF ReadStatus, AfterStatus, IInv, EntryInv, InSingle
  <1>2. PICK part \in {<<cur, handle>>, NoPart} : entry' = [entry EXCEPT !.status = part]
    <2>1. CASE entry' = [entry EXCEPT !.status = <<cur, handle>>] BY <2>1
    <2>2. CASE entry' = entry
      <3>1. entry \in Entry BY DEF IInv, TypeOK
      <3>2. entry = [entry EXCEPT !.status = NoPart] BY <1>1, <3>1 DEF Entry
      <3> QED BY <2>2, <3>2
    <2> QED BY <2>1, <2>2 DEF ReadStatus
  <1>3. /\ part \in Part /\ entry.pid = cur /\ entry \in Entry
        /\ Attributed([entry EXCEPT !.status = part])
    BY <1>1, GroupRead
  <1> DEFINE e == [entry EXCEPT !.status = part]
  <1>4. /\ e \in Entry /\ e.pid = cur /\ e.cmdline = NoPart /\ e.exe = NoPart /\ e.cwd = NoPart
        /\ entry' = e
    BY <1>1, <1>2, <1>3 DEF Entry
  <1> HIDE DEF e
  <1> QED BY <1>1, <1>3, <1>4, AdvanceInv DEF e

(* parse_proc_cmdline: the arguments of the process, or none. *)
LEMMA ReadCmdlineInv ==
    ASSUME IInv, ReadCmdline
    PROVE  IInv'
  <1>1. /\ pc = "read" /\ file = "cmdline" /\ InSingle /\ Advance("exe")
        /\ UNCHANGED <<procVars, call, cur, handle>>
        /\ entry.exe = NoPart /\ entry.cwd = NoPart
    BY DEF ReadCmdline, AfterCmdline, IInv, EntryInv, InSingle
  <1>2. PICK part \in {<<cur, handle>>, NoPart} : entry' = [entry EXCEPT !.cmdline = part]
    BY DEF ReadCmdline
  <1>3. /\ part \in Part /\ entry.pid = cur /\ entry \in Entry
        /\ Attributed([entry EXCEPT !.cmdline = part])
    BY <1>1, GroupRead
  <1> DEFINE e == [entry EXCEPT !.cmdline = part]
  <1>4. /\ e \in Entry /\ e.pid = cur /\ e.exe = NoPart /\ e.cwd = NoPart /\ entry' = e
    BY <1>1, <1>2, <1>3 DEF Entry
  <1> HIDE DEF e
  <1> QED BY <1>1, <1>3, <1>4, AdvanceInv DEF e

(* readlink(exe): the present owner's, or nothing. *)
LEMMA ReadExeInv ==
    ASSUME IInv, ReadExe
    PROVE  IInv'
  <1>1. /\ pc = "link" /\ file = "exe" /\ InSingle /\ Advance("cwd")
        /\ UNCHANGED <<procVars, call, cur, handle>>
        /\ entry.cwd = NoPart
    BY DEF ReadExe, IInv, EntryInv, InSingle
  <1>2. PICK part \in {<<cur, proc[cur].inc>>, NoPart} : entry' = [entry EXCEPT !.exe = part]
    BY DEF ReadExe, ExePart
  <1>3. /\ part \in Part /\ entry.pid = cur /\ entry \in Entry
        /\ Attributed([entry EXCEPT !.exe = part])
    BY <1>1, GroupRead
  <1> DEFINE e == [entry EXCEPT !.exe = part]
  <1>4. e \in Entry /\ e.pid = cur /\ e.cwd = NoPart /\ entry' = e
    BY <1>1, <1>2, <1>3 DEF Entry
  <1> HIDE DEF e
  <1> QED BY <1>1, <1>3, <1>4, AdvanceInv DEF e

(* readlink(cwd) completes the entry; it joins the list or is the answer. *)
LEMMA ReadCwdInv ==
    ASSUME IInv, ReadCwd
    PROVE  IInv'
  <1> USE ProcFsAssumption
  <1>1. /\ pc = "link" /\ file = "cwd" /\ InSingle /\ cur \in Pids
        /\ UNCHANGED <<procVars, call, file, cur, handle>>
        /\ proc' = proc /\ start' = start /\ returned' = returned
    BY DEF ReadCwd, IInv, PhaseInv, InSingle, procVars
  <1>2. PICK part \in {<<cur, proc[cur].inc>>, NoPart} :
          entry' = [entry EXCEPT !.cwd = part] /\ SingleDone(entry')
    BY DEF ReadCwd, ExePart
  <1>3. /\ part \in Part /\ entry.pid = cur /\ entry \in Entry
        /\ Attributed([entry EXCEPT !.cwd = part])
    BY <1>1, GroupRead
  <1> DEFINE e == [entry EXCEPT !.cwd = part]
  <1>4. e \in Entry /\ e.pid = cur /\ entry' = e /\ SingleDone(e) /\ Attributed(e)
    BY <1>2, <1>3 DEF Entry
  <1> HIDE DEF e
  <1>5. /\ Stable' = Stable /\ StartInv' /\ \A x : Attributed(x) => Attributed(x)'
    BY <1>1, LibFrame DEF IInv
  <1>6. list \in Seq(Entry) /\ result = NoResult /\ pc # "idle" /\ call.op # "none"
    BY <1>1 DEF IInv, TypeOK, PhaseInv
  <1>7. CASE call.op \in ListOps
    <2>1. list' = Append(list, e) /\ pc' = "readdir" /\ result' = result
      BY <1>4, <1>7 DEF SingleDone
    <2>2. ~InSingle' BY <2>1 DEF InSingle
    <2>3. /\ list' \in Seq(Entry) /\ Len(list') = Len(list) + 1 /\ Len(list) \in Nat
          /\ list'[Len(list) + 1] = e
          /\ \A i \in 1..Len(list) : list'[i] = list[i]
          /\ DOMAIN list' = 1..(Len(list) + 1) /\ DOMAIN list = 1..Len(list)
      BY <1>4, <1>6, <2>1
    <2>4. TypeOK' BY <1>1, <1>4, <2>1, <2>3 DEF IInv, TypeOK
    <2>5. call.op # "find_process" /\ cur \in returned
      BY <1>1, <1>7 DEF IInv, PhaseInv, ListOps
    <2>6. PhaseInv' BY <1>1, <1>6, <1>7, <2>1, <2>2, <2>5 DEF PhaseInv
    <2>7. EntryInv' BY <2>1, <2>2 DEF EntryInv
    <2>8. ListInv'
      <3>1. \A i \in 1..Len(list) : list[i].pid # cur /\ list[i].pid \in returned
                                    /\ Attributed(list[i])
        BY <1>1, <2>3 DEF IInv, ListInv
      <3>2. \A i, j \in 1..Len(list) : list[i].pid = list[j].pid => i = j
        BY <2>3 DEF IInv, ListInv
      <3>3. \A i \in DOMAIN list' : i \in 1..Len(list) \/ i = Len(list) + 1 BY <2>3
      <3>4. \A i \in DOMAIN list' : list'[i].pid \in returned
        BY <1>4, <2>3, <2>5, <3>1, <3>3
      <3>5. \A i, j \in DOMAIN list' : list'[i].pid = list'[j].pid => i = j
        BY <1>4, <2>3, <3>1, <3>2, <3>3
      <3>6. ASSUME NEW i \in DOMAIN list' PROVE Attributed(list'[i])
        BY <1>4, <2>3, <3>1, <3>3
      <3>7. \A i \in DOMAIN list' : Attributed(list[i])'
        BY <1>5, <3>6
      <3> QED BY <1>1, <2>2, <3>4, <3>5, <3>7 DEF ListInv
    <2>9. WalkInv'
      <3>1. \A p \in Stable : p \in returned /\ p # cur => Entered(p)
        BY <1>1, <1>7 DEF IInv, WalkInv
      <3>2. \A p : Entered(p) => Entered(p)'
        <4> SUFFICES ASSUME NEW p, NEW i \in DOMAIN list, list[i].pid = p
                     PROVE  \E j \in DOMAIN list' : list'[j].pid = p
          BY <1>1 DEF Entered
        <4>1. i \in DOMAIN list' /\ list'[i].pid = p BY <2>3
        <4> QED BY <4>1
      <3>3. Entered(cur)'
        <4>1. Len(list) + 1 \in DOMAIN list' /\ list'[Len(list) + 1].pid = cur BY <1>4, <2>3
        <4> QED BY <1>1, <4>1 DEF Entered
      <3>4. \A p \in Stable : p \in returned => Entered(p)' BY <1>1, <3>1, <3>2, <3>3
      <3>5. ~Enumerated' BY <2>1 DEF Enumerated
      <3> QED BY <1>1, <1>5, <3>4, <3>5 DEF WalkInv
    <2>10. DoneInv' BY <2>1 DEF DoneInv, NotFoundIsTrue, EnumerationSurvives
    <2> QED BY <1>5, <2>4, <2>6, <2>7, <2>8, <2>9, <2>10 DEF IInv
  <1>8. CASE call.op \notin ListOps
    <2>1. list' = list /\ pc' = "done" /\ result' = Ok(<<e>>)
      BY <1>4, <1>8 DEF SingleDone, Return
    <2>2. ~InSingle' BY <2>1 DEF InSingle
    <2>3. /\ result'.kind = "ok" /\ result'.code = "none" /\ result'.entries = <<e>>
          /\ result'.count = Len(<<e>>)
      BY <2>1 DEF Ok
    <2>4. <<e>> \in Seq(Entry) /\ Len(<<e>>) = 1 /\ DOMAIN <<e>> = 1..1 /\ <<e>>[1] = e
      BY <1>4
    <2>5. TypeOK'
      <3>1. /\ result'.kind \in {"none", "ok", "error"} /\ result'.code \in Codes
            /\ result'.entries \in Seq(Entry) /\ result'.count \in Nat
        BY <2>3, <2>4 DEF Codes
      <3> QED BY <1>1, <1>4, <2>1, <3>1 DEF IInv, TypeOK
    <2>6. PhaseInv' BY <1>1, <1>6, <2>1, <2>2 DEF IInv, PhaseInv
    <2>7. EntryInv' BY <2>1, <2>2 DEF EntryInv
    <2>8. ListInv' BY <1>1, <1>5, <2>1, <2>2 DEF IInv, ListInv
    <2>9. WalkInv' BY <1>1, <1>8, <2>1, <2>2 DEF WalkInv, Enumerated
    <2>10. DoneInv'
      <3>1. \A i \in DOMAIN result'.entries : result'.entries[i] = e BY <2>3, <2>4
      <3>2. \A i \in DOMAIN result'.entries : Attributed(result.entries[i])'
        BY <1>4, <1>5, <3>1
      <3> QED BY <1>1, <1>8, <2>3, <3>2 DEF DoneInv, NotFoundIsTrue, EnumerationSurvives
    <2> QED BY <1>5, <2>5, <2>6, <2>7, <2>8, <2>9, <2>10 DEF IInv
  <1> QED BY <1>7, <1>8

(***************************************************************************)
(* What the three enumerations make of a list without repeated numbers:    *)
(* all of it, its length, or its matching entries, in ascending order.     *)
(***************************************************************************)
LEMMA AnswerFacts ==
    ASSUME list \in Seq(Entry), Distinct(list), call.op \in ListOps,
           NEW r, r = Answer(sort_processes(list))
    PROVE  /\ r.kind = "ok" /\ r.code = "none" /\ r.entries \in Seq(Entry) /\ r.count \in Nat
           /\ Ascending(r.entries)
           /\ Elements(r.entries) \subseteq Elements(list)
           /\ call.op = "process_count" => r.count = Len(list)
           /\ call.op # "process_count" =>
                 Elements(r.entries) = {e \in Elements(list) :
                     call.op = "processes" \/ matches_process_name(e, call.name)}
  <1> DEFINE t == sort_processes(list)
  <1>1. /\ t \in Seq(Entry) /\ Len(t) = Len(list) /\ Elements(t) = Elements(list)
        /\ Ascending(t) /\ Len(list) \in Nat
    BY SortedEntries
  <1>2. r = Answer(t) OBVIOUS
  <1> HIDE DEF t
  <1>3. CASE call.op = "processes"
    <2>1. r = Ok(t) BY <1>2, <1>3 DEF Answer
    <2>2. r.kind = "ok" /\ r.code = "none" /\ r.entries = t /\ r.count = Len(t)
      BY <2>1 DEF Ok
    <2> QED BY <1>1, <1>3, <2>2
  <1>4. CASE call.op = "process_count"
    <2>1. r = [Ok(<<>>) EXCEPT !.count = Len(t)] BY <1>2, <1>4 DEF Answer
    <2>2. r.kind = "ok" /\ r.code = "none" /\ r.entries = <<>> /\ r.count = Len(t)
      BY <2>1 DEF Ok
    <2>3. r.entries \in Seq(Entry) /\ DOMAIN r.entries = {} BY <2>2
    <2>4. Ascending(r.entries) /\ Elements(r.entries) = {} BY <2>3 DEF Ascending, Elements
    <2> QED BY <1>1, <1>4, <2>2, <2>3, <2>4
  <1>5. CASE call.op = "find_processes_by_name"
    <2>1. r = Ok(Filtered(t, call.name)) BY <1>2, <1>5 DEF Answer
    <2>2. /\ r.kind = "ok" /\ r.code = "none" /\ r.entries = Filtered(t, call.name)
          /\ r.count = Len(Filtered(t, call.name))
      BY <2>1 DEF Ok
    <2>3. /\ Filtered(t, call.name) \in Seq(Entry) /\ Ascending(Filtered(t, call.name))
          /\ Elements(Filtered(t, call.name)) =
                {e \in Elements(list) : matches_process_name(e, call.name)}
      BY <1>1, FilteredEntries
    <2>4. r.entries \in Seq(Entry) /\ r.count \in Nat BY <2>2, <2>3
    <2> QED BY <1>5, <2>2, <2>3, <2>4
  <1> QED BY <1>3, <1>4, <1>5 DEF ListOps

(* readdir() reports the end: every stable name has been returned. *)
LEMMA ReadDirEndInv ==
    ASSUME IInv, ReadDirEnd
    PROVE  IInv'
  <1>1. /\ pc = "readdir" /\ Stable \subseteq returned /\ pc' = "done"
        /\ result' = Answer(sort_processes(list)) /\ list' = list
        /\ proc' = proc /\ start' = start /\ returned' = returned
        /\ call' = call /\ file' = file /\ cur' = cur /\ handle' = handle /\ entry' = entry
    BY DEF ReadDirEnd, DirectoryMayEnd, Return, procVars
  <1>2. /\ Stable' = Stable /\ StartInv' /\ \A e : Attributed(e) => Attributed(e)'
    BY <1>1, LibFrame DEF IInv
  <1>3. /\ call.op \in ListOps /\ call.op # "find_process" /\ call.op # "none"
    BY <1>1 DEF IInv, PhaseInv, ListOps
  <1>4. list \in Seq(Entry) /\ Distinct(list) BY DEF IInv, TypeOK, ListInv, Distinct
  <1>5. /\ result'.kind = "ok" /\ result'.code = "none" /\ result'.entries \in Seq(Entry)
        /\ result'.count \in Nat /\ Elements(result'.entries) \subseteq Elements(list)
    BY <1>1, <1>3, <1>4, AnswerFacts
  <1>6. TypeOK'
    <2>1. result'.code \in Codes BY <1>5 DEF Codes
    <2> QED BY <1>1, <1>5, <2>1 DEF IInv, TypeOK
  <1>7. ~InSingle' /\ ~InSingle BY <1>1 DEF InSingle
  <1>8. PhaseInv' BY <1>1, <1>3, <1>7 DEF PhaseInv
  <1>9. EntryInv' BY <1>1, <1>7 DEF EntryInv
  <1>10. ListInv' BY <1>1, <1>2, <1>7 DEF IInv, ListInv
  <1>11. WalkInv'
    <2>1. \A p \in Stable : Entered(p) BY <1>1, <1>3, <1>7 DEF IInv, WalkInv
    <2>2. \A p : Entered(p)' <=> Entered(p) BY <1>1 DEF Entered
    <2>3. Answer(sort_processes(list))' = Answer(sort_processes(list)) BY <1>1 DEF Answer
    <2> QED BY <1>1, <1>2, <1>7, <2>1, <2>2, <2>3 DEF WalkInv
  <1>12. DoneInv'
    <2>1. \A e \in Elements(list) : Attributed(e) BY DEF IInv, ListInv, Elements
    <2>2. \A i \in DOMAIN result'.entries : result'.entries[i] \in Elements(list)
      BY <1>5 DEF Elements
    <2>3. \A i \in DOMAIN result'.entries : Attributed(result.entries[i])'
      BY <1>2, <2>1, <2>2
    <2> QED BY <1>1, <1>3, <1>5, <2>3 DEF DoneInv, NotFoundIsTrue, EnumerationSurvives
  <1> QED BY <1>2, <1>6, <1>8, <1>9, <1>10, <1>11, <1>12 DEF IInv

(* The query is over and forgotten. *)
LEMMA TakeResultInv ==
    ASSUME IInv, TakeResult
    PROVE  IInv'
  <1> USE ProcFsAssumption
  <1>1. /\ proc' = proc /\ start' = NoStart /\ returned' = {} /\ pc' = "idle" /\ call' = NoCall
        /\ file' = "stat" /\ cur' = 0 /\ handle' = 0 /\ entry' = NoEntry /\ list' = <<>>
        /\ result' = NoResult
    BY DEF TakeResult
  <1>2. NoStart \in ProcTable BY DEF NoStart, ProcTable
  <1>3. NoEntry \in Entry BY DEF NoEntry, Entry, Part
  <1>4. TypeOK'
    <2>1. result'.kind = "none" /\ result'.code = "none" /\ result'.entries = <<>> /\ result'.count = 0
      BY <1>1 DEF NoResult
    <2>2. result'.entries \in Seq(Entry) /\ list' \in Seq(Entry) /\ 0 \in 0..MaxIncarnation
      BY <1>1, <2>1
    <2> QED BY <1>1, <1>2, <1>3, <2>1, <2>2 DEF IInv, TypeOK, Codes
  <1>5. StartInv'
    <2> SUFFICES ASSUME NEW p \in Pids
                 PROVE  /\ start'[p].inc <= proc[p].inc
                        /\ proc[p].state # "free" => proc[p].inc \in Incarnations
                        /\ proc[p].state # "free" => proc[p].inc # start'[p].inc
      BY <1>1 DEF StartInv
    <2>1. proc[p].inc \in Nat /\ (proc[p].state # "free" => proc[p].inc \in Incarnations)
      BY DEF IInv, TypeOK, ProcTable, StartInv
    <2>2. start'[p].inc = 0 BY <1>1 DEF NoStart
    <2> QED BY <2>1, <2>2 DEF Incarnations
  <1>6. PhaseInv' BY <1>1 DEF PhaseInv, InSingle, NoCall
  <1>7. EntryInv' BY <1>1 DEF EntryInv, InSingle
  <1>8. ListInv' BY <1>1 DEF ListInv
  <1>9. WalkInv' BY <1>1 DEF WalkInv, InSingle, Enumerated
  <1>10. DoneInv' BY <1>1 DEF DoneInv, NotFoundIsTrue, EnumerationSurvives
  <1> QED BY <1>4, <1>5, <1>6, <1>7, <1>8, <1>9, <1>10 DEF IInv

(* Processes come and go: every part of the invariant survives. *)
LEMMA KernelInv ==
    ASSUME IInv, Kernel, UNCHANGED libVars
    PROVE  IInv'
  <1>1. /\ proc' \in ProcTable /\ start' = start /\ returned' = returned
        /\ StartInv'
        /\ Stable' \subseteq Stable
        /\ \A p \in Stable' : proc'[p].inc = proc[p].inc
        /\ \A p \in Pids : \A i : Lived(p, i) => Lived(p, i)'
    BY KernelStep DEF IInv
  <1>2. /\ call' = call /\ pc' = pc /\ file' = file /\ cur' = cur /\ handle' = handle
        /\ entry' = entry /\ list' = list /\ result' = result
    BY DEF libVars
  <1>3. \A e : Attributed(e) => Attributed(e)'
    <2>1. \A p, i : Lived(p, i) => Lived(p, i)'
      <3>1. \A p, i : Lived(p, i) => p \in Pids BY DEF Lived
      <3> QED BY <1>1, <3>1
    <2> QED BY <2>1 DEF Attributed
  <1>4. InSingle' <=> InSingle BY <1>2 DEF InSingle
  <1>5. TypeOK' BY <1>1, <1>2 DEF IInv, TypeOK
  <1>6. PhaseInv'
    <2>1. pc = "read" => cur \in Pids /\ Lived(cur, handle) BY DEF IInv, PhaseInv, InSingle
    <2>2. pc = "read" => Lived(cur, handle)' BY <1>1, <1>2, <2>1
    <2> QED BY <1>1, <1>2, <1>4, <2>2 DEF IInv, PhaseInv
  <1>7. EntryInv' BY <1>2, <1>3, <1>4 DEF IInv, EntryInv
  <1>8. ListInv' BY <1>1, <1>2, <1>3, <1>4 DEF IInv, ListInv
  <1>9. WalkInv'
    <2>1. \A p \in Stable' : Entered(p) => Entered(p)' BY <1>1, <1>2 DEF Entered
    <2>2. Enumerated' <=> Enumerated BY <1>2 DEF Enumerated
    <2>3. Answer(sort_processes(list))' = Answer(sort_processes(list)) BY <1>2 DEF Answer
    <2> QED BY <1>1, <1>2, <1>4, <2>1, <2>2, <2>3 DEF IInv, WalkInv
  <1>10. DoneInv'
    BY <1>1, <1>2, <1>3 DEF IInv, DoneInv, NotFoundIsTrue, EnumerationSurvives
  <1> QED BY <1>1, <1>5, <1>6, <1>7, <1>8, <1>9, <1>10 DEF IInv

-----------------------------------------------------------------------------
(* Every step of a query and of the kernel keeps the invariant. *)
LEMMA NextInv == IInv /\ [Next]_vars => IInv'
  <1> SUFFICES ASSUME IInv, [Next]_vars PROVE IInv' OBVIOUS
  <1>1. CASE UNCHANGED vars
    <2>1. /\ proc' = proc /\ start' = start /\ returned' = returned
          /\ call' = call /\ pc' = pc /\ file' = file /\ cur' = cur /\ handle' = handle
          /\ entry' = entry /\ list' = list /\ result' = result
      BY <1>1 DEF vars, procVars, libVars
    <2>2. Stable' = Stable /\ StartInv' /\ \A e : Attributed(e) => Attributed(e)'
      BY <2>1, LibFrame DEF IInv
    <2>3. InSingle' <=> InSingle BY <2>1 DEF InSingle
    <2>4. TypeOK' BY <2>1 DEF IInv, TypeOK
    <2>5. PhaseInv'
      <3>1. Lived(cur, handle) => Lived(cur, handle)' BY <2>1 DEF Lived
      <3> QED BY <2>1, <2>3, <3>1 DEF IInv, PhaseInv
    <2>6. EntryInv' BY <2>1, <2>2, <2>3 DEF IInv, EntryInv
    <2>7. ListInv' BY <2>1, <2>2, <2>3 DEF IInv, ListInv
    <2>8. WalkInv'
      <3>1. \A p : Entered(p)' <=> Entered(p) BY <2>1 DEF Entered
      <3>2. Enumerated' <=> Enumerated BY <2>1 DEF Enumerated
      <3>3. Answer(sort_processes(list))' = Answer(sort_processes(list)) BY <2>1 DEF Answer
      <3> QED BY <2>1, <2>2, <2>3, <3>1, <3>2, <3>3 DEF IInv, WalkInv
    <2>9. DoneInv' BY <2>1, <2>2 DEF IInv, DoneInv, NotFoundIsTrue, EnumerationSurvives
    <2> QED BY <2>2, <2>4, <2>5, <2>6, <2>7, <2>8, <2>9 DEF IInv
  <1>2. CASE Next
    BY <1>2, EnumerateInv, FindProcessInv, ReadDirNameInv, ReadDirEndInv, ReadDirErrorInv,
       OpenFileInv, ReadFailedInv, ReadStatInv, ReadStatusInv, ReadCmdlineInv, ReadExeInv,
       ReadCwdInv, TakeResultInv, KernelInv DEF Next, Query
  <1> QED BY <1>1, <1>2

(* The invariant holds in every reachable state. *)
THEOREM Invariance == Spec => []IInv
  BY InitInv, NextInv, PTL DEF Spec

(* Every variable keeps its type through queries of any length. *)
THEOREM TypeCorrect == Spec => []TypeOK
  <1>1. IInv => TypeOK BY DEF IInv
  <1> QED BY <1>1, Invariance, PTL

(* processes() lists every process that exists throughout and can be read. *)
THEOREM Completeness == Spec => []Complete
  <1>1. IInv => Complete BY DEF IInv, WalkInv, Entered, Complete
  <1> QED BY <1>1, Invariance, PTL

(* No field of an entry comes from a process that never had its number. *)
THEOREM Attribution == Spec => []EntriesAttributed
  <1>1. IInv => EntriesAttributed BY DEF IInv, ListInv, DoneInv, EntriesAttributed
  <1> QED BY <1>1, Invariance, PTL

(* The three enumerations answer from one walk, in ascending order. *)
THEOREM Agreement == Spec => []AnswersAgree
  <1>1. ASSUME IInv PROVE AnswersAgree
    <2> SUFFICES ASSUME Enumerated
                 PROVE  /\ \A i, j \in DOMAIN result.entries :
                              i < j => result.entries[i].pid < result.entries[j].pid
                        /\ call.op = "process_count" => result.count = Len(list)
                        /\ call.op # "process_count" =>
                              {result.entries[i] : i \in DOMAIN result.entries} =
                              {e \in {list[i] : i \in DOMAIN list} :
                                  call.op = "processes" \/ matches_process_name(e, call.name)}
      BY DEF AnswersAgree
    <2>1. result = Answer(sort_processes(list)) /\ call.op \in ListOps
      BY <1>1 DEF IInv, WalkInv, Enumerated
    <2>2. list \in Seq(Entry) /\ Distinct(list) BY <1>1 DEF IInv, TypeOK, ListInv, Distinct
    <2>3. /\ Ascending(result.entries)
          /\ call.op = "process_count" => result.count = Len(list)
          /\ call.op # "process_count" =>
                Elements(result.entries) = {e \in Elements(list) :
                    call.op = "processes" \/ matches_process_name(e, call.name)}
      BY <2>1, <2>2, AnswerFacts
    <2> QED BY <2>3 DEF Ascending, Elements
  <1>2. IInv => AnswersAgree BY <1>1
  <1> QED BY <1>2, Invariance, PTL

(* find_process() never denies a process that exists throughout. *)
THEOREM NotFound == Spec => []NotFoundIsTrue
  <1>1. IInv => NotFoundIsTrue BY DEF IInv, DoneInv
  <1> QED BY <1>1, Invariance, PTL

(* What can fail an enumeration, and nothing else can. *)
THEOREM Survives == Spec => []EnumerationSurvives
  <1>1. IInv => EnumerationSurvives BY DEF IInv, DoneInv
  <1> QED BY <1>1, Invariance, PTL

-----------------------------------------------------------------------------
(* The distance of a query from its end, and the stages by name. *)
LEMMA DistanceFacts ==
    ASSUME IInv, InQuery
    PROVE  /\ Cardinality(Pids \ returned) \in Nat
           /\ Stage \in 1..9
           /\ Distance = 12 * Cardinality(Pids \ returned) + Stage
           /\ InSingle => Stage >= 2
  <1>1. Cardinality(Pids \ returned) \in Nat
    BY ProcFsAssumption, FS_Difference, FS_CardinalityType
  <1>2. file \in {"stat", "status", "cmdline", "exe", "cwd"} BY DEF IInv, TypeOK
  <1>3. Left[file] \in 2..8 BY <1>2 DEF Left
  <1>4. Stage \in 1..9 /\ (InSingle => Stage >= 2) BY <1>3 DEF Stage, InSingle
  <1> QED BY <1>1, <1>4 DEF Distance

(* A step that returns, or goes to a later stage of the same process. *)
LEMMA Nearer ==
    ASSUME IInv, IInv', InQuery, returned' = returned,
           pc' = "done" \/ (InQuery' /\ Stage' < Stage)
    PROVE  Distance' < Distance
  <1> DEFINE c == Cardinality(Pids \ returned)
  <1>1. c \in Nat /\ Stage \in 1..9 /\ Distance = 12 * c + Stage BY DistanceFacts
  <1>2. CASE pc' = "done"
    <2>1. Distance' = 0 BY <1>2 DEF Distance, InQuery
    <2> HIDE DEF c
    <2> QED BY <1>1, <2>1
  <1>3. CASE InQuery' /\ Stage' < Stage
    <2>1. Distance' = 12 * c + Stage' BY <1>3 DEF Distance
    <2>2. Left[file]' \in 2..8 BY DEF IInv, TypeOK, Left
    <2>3. Stage' \in Nat BY <2>2 DEF Stage
    <2>4. PICK t \in Nat : t = Stage' BY <2>3
    <2>5. PICK u \in Nat : u = Stage BY <1>1
    <2> HIDE DEF c
    <2>6. t < u BY <1>3, <2>4, <2>5
    <2>7. 12 * c + t < 12 * c + u
      <3>1. c \in Nat BY <1>1
      <3> QED BY ONLY <2>6, <3>1, t \in Nat, u \in Nat
    <2> QED BY <1>1, <2>1, <2>4, <2>5, <2>7
  <1> QED BY <1>2, <1>3

(* Each action of a query in turn. *)
LEMMA QueryAdvances ==
    ASSUME IInv, IInv', InQuery, Query
    PROVE  Distance' < Distance
  <1> USE ProcFsAssumption
  <1>a. /\ Left["stat"] = 8 /\ Left["status"] = 6 /\ Left["cmdline"] = 4
        /\ Left["exe"] = 3 /\ Left["cwd"] = 2
    BY DEF Left
  <1>b. /\ pc = "link" => file \in {"exe", "cwd"}
        /\ pc \in {"open", "read"} => file \in {"stat", "status", "cmdline"}
    BY DEF IInv, PhaseInv, InSingle
  <1>c. InSingle => Stage >= 2 /\ Stage \in Nat BY DistanceFacts
  <1>d. ASSUME NEW code, SingleFailed(code), InSingle
        PROVE  pc' = "done" \/ (InQuery' /\ Stage' < Stage)
    BY <1>c, <1>d DEF SingleFailed, Return, Stage, InQuery
  <1>e. ASSUME NEW code, FileFailed(code), pc \in {"open", "read"}
        PROVE  returned' = returned /\ (pc' = "done" \/ (InQuery' /\ Stage' < Stage))
    <2>1. returned' = returned BY <1>e DEF FileFailed, procVars
    <2>2. CASE file = "stat"
      BY <1>d, <1>e, <2>1, <2>2 DEF FileFailed, InSingle
    <2>3. CASE file = "status"
      BY <1>a, <1>e, <2>1, <2>3 DEF FileFailed, AfterStatus, Advance, Stage, InQuery
    <2>4. CASE file = "cmdline"
      BY <1>a, <1>e, <2>1, <2>4 DEF FileFailed, AfterCmdline, Advance, Stage, InQuery
    <2> QED BY <1>b, <1>e, <2>2, <2>3, <2>4
  <1>1. ASSUME NEW p \in Pids, ReadDirName(p) PROVE Distance' < Distance
    <2>1. /\ p \notin returned /\ returned' = returned \cup {p} /\ pc = "readdir" /\ pc' = "open"
          /\ file' = "stat"
      BY <1>1 DEF ReadDirName, BeginSingle, DirectoryMayYield
    <2>2. IsFiniteSet(Pids \ returned) /\ Cardinality(Pids \ returned) \in Nat
      BY FS_Difference, FS_CardinalityType
    <2>3. Pids \ returned' = (Pids \ returned) \ {p} /\ p \in Pids \ returned BY <2>1
    <2>4. Cardinality((Pids \ returned) \ {p}) = Cardinality(Pids \ returned) - 1
      BY <2>2, <2>3, FS_RemoveElement
    <2>5. Stage = 1 /\ Stage' = 9 BY <1>a, <2>1 DEF Stage
    <2>6. Distance = 12 * Cardinality(Pids \ returned) + Stage
      BY DistanceFacts
    <2>7. Distance' = 12 * Cardinality(Pids \ returned') + Stage'
      BY <2>1 DEF Distance, InQuery
    <2>8. \A m \in Nat : 12 * (m - 1) + 9 < 12 * m + 1 OBVIOUS
    <2> QED BY <2>2, <2>3, <2>4, <2>5, <2>6, <2>7, <2>8
  <1>2. CASE ReadDirEnd BY <1>2, Nearer DEF ReadDirEnd, Return, procVars
  <1>3. CASE ReadDirError BY <1>3, Nearer DEF ReadDirError, Return, procVars
  <1>4. CASE OpenFile
    <2>1. pc = "open" BY <1>4 DEF OpenFile
    <2>2. PICK outcome \in OpenOutcomes(cur) :
            IF outcome = "ok"
            THEN /\ handle' = proc[cur].inc
                 /\ pc' = "read"
                 /\ UNCHANGED <<procVars, call, file, cur, entry, list, result>>
            ELSE FileFailed(outcome)
      BY <1>4 DEF OpenFile
    <2>3. CASE outcome = "ok"
      <3>1. pc' = "read" /\ file' = file /\ returned' = returned BY <2>2, <2>3 DEF procVars
      <3>2. Left[file] \in Nat BY <1>a, <1>b, <2>1
      <3>3. Stage = Left[file] + 1 /\ Stage' = Left[file] /\ InQuery'
        BY <2>1, <3>1, <3>2 DEF Stage, InQuery
      <3> QED BY <3>1, <3>2, <3>3, Nearer
    <2>4. CASE outcome # "ok"
      <3>1. FileFailed(outcome) BY <2>2, <2>4
      <3> QED BY <1>e, <2>1, <3>1, Nearer
    <2> QED BY <2>3, <2>4
  <1>5. CASE ReadFailed
    BY <1>5, <1>e, Nearer DEF ReadFailed
  <1>6. CASE ReadStat
    <2>1. pc = "read" /\ file = "stat" /\ returned' = returned /\ InSingle
      BY <1>6 DEF ReadStat, procVars, InSingle
    <2>2. (\E code \in ParseErrors : SingleFailed(code)) \/ Advance("status")
      BY <1>6 DEF ReadStat, AfterStat
    <2>3. CASE \E code \in ParseErrors : SingleFailed(code)
      BY <1>d, <2>1, <2>3, Nearer
    <2>4. CASE Advance("status")
      <3>1. Stage = 8 /\ Stage' = 7 /\ InQuery' BY <1>a, <2>1, <2>4 DEF Advance, Stage, InQuery
      <3> QED BY <2>1, <3>1, Nearer
    <2> QED BY <2>2, <2>3, <2>4
  <1>7. CASE ReadStatus
    <2>1. pc = "read" /\ file = "status" /\ returned' = returned /\ Advance("cmdline")
      BY <1>7 DEF ReadStatus, AfterStatus, procVars
    <2>2. Stage = 6 /\ Stage' = 5 /\ InQuery' BY <1>a, <2>1 DEF Advance, Stage, InQuery
    <2> QED BY <2>1, <2>2, Nearer
  <1>8. CASE ReadCmdline
    <2>1. pc = "read" /\ file = "cmdline" /\ returned' = returned /\ Advance("exe")
      BY <1>8 DEF ReadCmdline, AfterCmdline, procVars
    <2>2. Stage = 4 /\ Stage' = 3 /\ InQuery' BY <1>a, <2>1 DEF Advance, Stage, InQuery
    <2> QED BY <2>1, <2>2, Nearer
  <1>9. CASE ReadExe
    <2>1. pc = "link" /\ file = "exe" /\ returned' = returned /\ Advance("cwd")
      BY <1>9 DEF ReadExe, procVars
    <2>2. Stage = 3 /\ Stage' = 2 /\ InQuery' BY <1>a, <2>1 DEF Advance, Stage, InQuery
    <2> QED BY <2>1, <2>2, Nearer
  <1>10. CASE ReadCwd
    <2>1. pc = "link" /\ file = "cwd" /\ returned' = returned
      BY <1>10 DEF ReadCwd, procVars
    <2>2. pc' \in {"readdir", "done"} BY <1>10 DEF ReadCwd, SingleDone, Return
    <2>3. Stage = 2 /\ (pc' = "readdir" => Stage' = 1 /\ InQuery')
      BY <1>a, <2>1 DEF Stage, InQuery
    <2> QED BY <2>1, <2>2, <2>3, Nearer
  <1> QED BY <1>1, <1>2, <1>3, <1>4, <1>5, <1>6, <1>7, <1>8, <1>9, <1>10 DEF Query

(* Every call returns: each of its steps brings it nearer its end. *)
THEOREM Advances == Spec => EveryCallAdvances
  <1>1. ASSUME IInv, IInv', [Next]_vars
        PROVE  [InQuery /\ libVars' # libVars => Distance' < Distance]_vars
    <2> SUFFICES ASSUME Next, InQuery, libVars' # libVars PROVE Distance' < Distance
      BY <1>1 DEF vars
    <2>1. CASE Query BY <1>1, <2>1, QueryAdvances
    <2>2. ASSUME NEW c \in Calls, Enumerate(c) \/ FindProcess(c) PROVE FALSE
      BY <2>2 DEF Enumerate, FindProcess, BeginCall, InQuery
    <2>3. CASE TakeResult BY <2>3 DEF TakeResult, InQuery
    <2>4. CASE Kernel /\ UNCHANGED libVars BY <2>4
    <2> QED BY <2>1, <2>2, <2>3, <2>4 DEF Next
  <1>2. IInv /\ IInv' /\ [Next]_vars => [InQuery /\ libVars' # libVars => Distance' < Distance]_vars
    BY <1>1
  <1> QED BY <1>2, Invariance, PTL DEF Spec, EveryCallAdvances
=============================================================================
