-------------------------- MODULE ConnectionsProofs --------------------------
(***************************************************************************)
(* Proofs about Connections, for any processes, descriptors, sockets and   *)
(* tables and any number of moves of the other processes.                  *)
(***************************************************************************)
EXTENDS Connections, FiniteSetTheorems, FunctionTheorems, TLAPS

(* What TypeOK leaves out. *)
TypeInv ==
    /\ missing \in SUBSET Tables
    /\ held \subseteq Sockets \X Pids
    /\ changed \subseteq Tables
    /\ returned \subseteq Pids
    /\ last \in Nat
    /\ line \in Nat \ {0}
    /\ found \in BOOLEAN /\ faulted \in BOOLEAN
    /\ DOMAIN result.entries \subseteq Records

(* A table lists each of its sockets once, and every socket that is open;  *)
(* a process that does not exist has none.                                 *)
Class(t) == {s \in Sockets : TableOf[s] = t}
LinesOK(tab) ==
    /\ tab \in [Tables -> Seq(Sockets)]
    /\ \A t \in Tables : IsInjective(tab[t]) /\ ToSet(tab[t]) \subseteq Class(t)
Listed(f, tab) ==
    \A p \in Pids, d \in Fds : f[p][d] # NoSocket => f[p][d] \in ToSet(tab[TableOf[f[p][d]]])
Owning(a, f) == \A p \in Pids, d \in Fds : f[p][d] # NoSocket => p \in a
SystemInv == LinesOK(table) /\ Listed(fd, table) /\ Owning(alive, fd)

(* Where the call is, and what it has not begun or has already forgotten. *)
PhaseInv ==
    /\ pc = "fd" => dir \in Pids /\ dir \in returned
    /\ pc \notin {"proc", "fd"} => returned = {}
    /\ pc \in {"idle", "done"} => owners = NoOwners
    /\ pc \notin {"tables", "lines"} => source = 1 /\ line = 1 /\ ~found /\ records = EmptyBag
    /\ pc = "lines" => source <= Len(Sources) /\ Sources[source] \notin missing
    /\ pc # "done" => result = NoResult

(* The map was true of each owner when it was made; held only grows. *)
HeldInv ==
    /\ Calling => Pairs(fd) \subseteq held
    /\ \A s \in Sockets : \A p \in owners[s] : <<s, p>> \in held
    /\ OwnersHeldIt

(* The process of a descriptor that never changed is in the map, as soon as *)
(* the walk has passed it.                                                  *)
Noted(h) == h[1] \in owners[fd[h[1]][h[2]]]
Passed(h) == \/ pc = "proc" /\ h[1] \in returned
             \/ pc = "fd" /\ h[1] \in returned /\ (h[1] = dir => h[2] <= last)
             \/ pc \in {"tables", "lines"}
WalkInv ==
    /\ \A h \in steady : h[1] \in lasting
    /\ ~faulted => \A h \in steady : h[1] \in Visible /\ Passed(h) => Noted(h)

(* The line of socket s has been read, if its table has not changed. *)
Read(s) ==
    \E k \in 1..Len(Sources) :
        /\ Sources[k] = TableOf[s]
        /\ Sources[k] \notin missing
        /\ \/ k < source
           \/ /\ k = source /\ pc = "lines"
              /\ \E i \in DOMAIN table[TableOf[s]] : i < line /\ table[TableOf[s]][i] = s

(* One copy of the owner's record, and none without an owner. *)
Once(s, p) == /\ Record(s, p) \in DOMAIN records /\ records[Record(s, p)] = 1
              /\ Record(s, NoPid) \notin DOMAIN records

(* A socket of an unchanged table has no record before its line is read, and *)
(* afterwards has one for every process that kept it all along.              *)
SocketInv(s) ==
    /\ ~Read(s) => \A r \in DOMAIN records : r.socket # s
    /\ Read(s) => \E r \in DOMAIN records : r.socket = s
    /\ Read(s) /\ ~faulted =>
          \A h \in steady : fd[h[1]][h[2]] = s /\ h[1] \in Visible => Once(s, h[1])

RecordsInv ==
    pc \in {"tables", "lines"} =>
        /\ \A t \in Tables \ changed : \A s \in ToSet(table[t]) : SocketInv(s)
        /\ ~found => \A k \in 1..Len(Sources) : k < source => Sources[k] \in missing

IInv == /\ TypeOK /\ TypeInv /\ SystemInv /\ PhaseInv
        /\ HeldInv /\ WalkInv /\ RecordsInv
        /\ EveryOwnerOnce /\ TablesCovered

-----------------------------------------------------------------------------
(* Sequences of lines. *)

(* A way to list S names exactly the sockets of S, each once. *)
LEMMA ListedOnce ==
    ASSUME NEW S \in SUBSET Sockets, NEW lines \in SetToSeqs(S)
    PROVE  lines \in Seq(Sockets) /\ IsInjective(lines) /\ ToSet(lines) = S
  <1> DEFINE n == Cardinality(S)
  <1>1. IsFiniteSet(S) /\ n \in Nat
    BY ConnectionsAssumption, FS_Subset, FS_CardinalityType
  <1>2. lines \in [1..n -> S] /\ \A i, j \in 1..n : i # j => lines[i] # lines[j]
    BY DEF SetToSeqs
  <1>3. IsFiniteSet(1..n) /\ Cardinality(1..n) = n BY <1>1, FS_Interval
  <1>4. lines \in Injection(1..n, S) BY <1>2, Fun_IsInj
  <1>5. lines \in Surjection(1..n, S)
    BY <1>1, <1>3, <1>4, FS_Injection
  <1> HIDE DEF n
  <1>6. \A s \in S : \E i \in 1..n : lines[i] = s BY <1>5 DEF Surjection
  <1>7. lines \in Seq(Sockets) BY <1>1, <1>2
  <1>8. DOMAIN lines = 1..n BY <1>2
  <1>9. IsInjective(lines) BY <1>2, <1>8 DEF IsInjective
  <1>10. ToSet(lines) = S BY <1>2, <1>6, <1>8 DEF ToSet
  <1> QED BY <1>7, <1>9, <1>10

(* Adding one record each to a bag of records. *)
LEMMA AddRecords ==
    ASSUME NEW b, IsABag(b), NEW R
    PROVE  LET c == b (+) SetToBag(R)
           IN /\ IsABag(c) /\ DOMAIN c = DOMAIN b \cup R
              /\ \A r \in DOMAIN b \ R : c[r] = b[r]
              /\ \A r \in R \ DOMAIN b : c[r] = 1
  <1> DEFINE c == b (+) SetToBag(R)
  <1>1. \A r \in DOMAIN b : b[r] \in Nat /\ b[r] > 0 BY DEF IsABag
  <1>2. /\ DOMAIN SetToBag(R) = R /\ \A r \in R : SetToBag(R)[r] = 1 BY DEF SetToBag
  <1>3. c = [r \in DOMAIN b \cup R |-> (IF r \in DOMAIN b THEN b[r] ELSE 0)
                                       + (IF r \in R THEN SetToBag(R)[r] ELSE 0)]
    BY <1>2 DEF (+)
  <1> HIDE DEF c
  <1>4. DOMAIN c = DOMAIN b \cup R BY <1>3
  <1>5. \A r \in DOMAIN b \ R : c[r] = b[r] BY <1>1, <1>3
  <1>6. \A r \in R \ DOMAIN b : c[r] = 1 BY <1>2, <1>3
  <1>7. \A r \in DOMAIN b \cap R : c[r] = b[r] + 1 BY <1>2, <1>3
  <1>8. \A r \in DOMAIN c : c[r] \in Nat /\ c[r] > 0 BY <1>1, <1>4, <1>5, <1>6, <1>7
  <1>9. IsABag(c)
    <2>1. c = [r \in DOMAIN c |-> c[r]] BY <1>3
    <2> QED BY <1>8, <2>1 DEF IsABag
  <1> QED BY <1>4, <1>5, <1>6, <1>9 DEF c

-----------------------------------------------------------------------------
(* The system is in order, and no call has begun. *)
LEMMA InitInv == Init => IInv
  <1> SUFFICES ASSUME Init PROVE IInv OBVIOUS
  <1> USE ConnectionsAssumption
  <1>1. PICK listed \in SUBSET Sockets :
          /\ \A s \in Sockets : Holders(fd, s) # {} => s \in listed
          /\ table \in [Tables -> UNION {SetToSeqs({s \in listed : TableOf[s] = t}) : t \in Tables}]
          /\ \A t \in Tables : ToSet(table[t]) = {s \in listed : TableOf[s] = t}
    BY DEF Init
  <1>2. \A t \in Tables : table[t] \in Seq(Sockets) /\ IsInjective(table[t])
    <2> SUFFICES ASSUME NEW t \in Tables PROVE table[t] \in Seq(Sockets) /\ IsInjective(table[t])
      OBVIOUS
    <2>1. PICK u \in Tables : table[t] \in SetToSeqs({s \in listed : TableOf[s] = u})
      BY <1>1
    <2>2. {s \in listed : TableOf[s] = u} \in SUBSET Sockets OBVIOUS
    <2> QED BY <2>1, <2>2, ListedOnce
  <1>3. LinesOK(table)
    <2>1. table \in [Tables -> Seq(Sockets)]
      <3>1. table = [t \in Tables |-> table[t]] BY <1>1
      <3> QED BY <1>2, <3>1
    <2> QED BY <1>1, <1>2, <2>1 DEF LinesOK, Class
  <1>4. fd \in [Pids -> [Fds -> Sockets \cup {NoSocket}]] BY DEF Init
  <1>5. Listed(fd, table)
    <2> SUFFICES ASSUME NEW p \in Pids, NEW d \in Fds, fd[p][d] # NoSocket
                 PROVE  fd[p][d] \in ToSet(table[TableOf[fd[p][d]]])
      BY DEF Listed
    <2>1. fd[p][d] \in Sockets BY <1>4
    <2>2. p \in Holders(fd, fd[p][d]) BY DEF Holders
    <2>3. fd[p][d] \in listed BY <1>1, <2>1, <2>2
    <2>4. TableOf[fd[p][d]] \in Tables BY <2>1
    <2> QED BY <1>1, <2>3, <2>4
  <1>6. Owning(alive, fd) BY DEF Init, Owning
  <1>7. DOMAIN EmptyBag = {} /\ IsABag(EmptyBag) BY DEF EmptyBag, SetToBag, IsABag
  <1>8. Len(Sources) \in Nat OBVIOUS
  <1>9. /\ result.kind = "none" /\ result.code = "none" /\ result.entries = EmptyBag
    BY DEF Init, NoResult
  <1>10. NoOwners \in [Sockets -> SUBSET Pids] /\ \A s \in Sockets : NoOwners[s] = {}
    BY DEF NoOwners
  <1>11. TypeOK
    <2>1. \A t \in Tables : ToSet(table[t]) \subseteq {s \in Sockets : TableOf[s] = t}
      BY <1>3 DEF LinesOK, Class
    <2> QED BY <1>4, <1>7, <1>8, <1>10, <2>1 DEF Init, TypeOK
  <1>12. TypeInv
    <2>1. missing \in SUBSET Tables BY DEF Init
    <2>2. found \in BOOLEAN /\ faulted \in BOOLEAN BY DEF Init
    <2>3. DOMAIN result.entries \subseteq Records BY <1>7, <1>9
    <2> QED BY <2>1, <2>2, <2>3 DEF Init, TypeInv
  <1>13. PhaseInv BY DEF Init, PhaseInv
  <1>14. HeldInv BY <1>7, <1>9, <1>10 DEF Init, HeldInv, Calling, OwnersHeldIt
  <1>15. WalkInv /\ RecordsInv BY DEF Init, WalkInv, RecordsInv
  <1>16. EveryOwnerOnce /\ TablesCovered BY <1>9 DEF EveryOwnerOnce, TablesCovered, Answered
  <1> QED BY <1>3, <1>5, <1>6, <1>11, <1>12, <1>13, <1>14, <1>15, <1>16 DEF IInv, SystemInv

(* Before there is an answer nothing is claimed of it. *)
LEMMA NoAnswer ==
    ASSUME result' = NoResult
    PROVE  EveryOwnerOnce' /\ TablesCovered' /\ DOMAIN result'.entries = {}
  <1>1. /\ result'.kind = "none" /\ result'.code = "none" /\ result'.entries = EmptyBag
    BY DEF NoResult
  <1>2. DOMAIN EmptyBag = {} BY DEF EmptyBag, SetToBag
  <1> QED BY <1>1, <1>2 DEF EveryOwnerOnce, TablesCovered, Answered

-----------------------------------------------------------------------------
(***************************************************************************)
(* A move of the other processes that leaves the system in order takes     *)
(* nothing from what the call has found: what it changes is no longer      *)
(* steady, or its table is marked as changed.                              *)
(***************************************************************************)
LEMMA MoveInv ==
    ASSUME IInv, NEW alive1 \in SUBSET Pids, NEW fd1 \in [Pids -> [Fds -> Sockets \cup {NoSocket}]],
           NEW table1, LinesOK(table1), Listed(fd1, table1), Owning(alive1, fd1),
           Move(alive1, fd1, table1)
    PROVE  IInv'
  <1>1. /\ Calling /\ moves < MaxMoves /\ moves' = moves + 1
        /\ alive' = alive1 /\ fd' = fd1 /\ table' = table1
        /\ lasting' = lasting \cap alive1
        /\ steady' = {h \in steady : fd1[h[1]][h[2]] = fd[h[1]][h[2]]}
        /\ held' = held \cup Pairs(fd1)
        /\ changed' = changed \cup {t \in Tables : table1[t] # table[t]}
        /\ missing' = missing /\ pc' = pc /\ returned' = returned /\ dir' = dir /\ last' = last
        /\ owners' = owners /\ source' = source /\ line' = line /\ found' = found
        /\ records' = records /\ faulted' = faulted /\ result' = result
    BY DEF Move, walk, reading
  <1>2. pc \notin {"idle", "done"} /\ result = NoResult BY <1>1 DEF Calling, IInv, PhaseInv
  <1>3. \A h \in steady : h \in Pids \X Fds /\ fd[h[1]][h[2]] # NoSocket
    BY DEF IInv, TypeOK, Open
  <1>4. SystemInv' BY <1>1 DEF SystemInv
  <1>5. TypeOK'
    <2>1. steady' \subseteq Open(fd1) BY <1>1, <1>3 DEF Open
    <2>2. \A t \in Tables : ToSet(table1[t]) \subseteq {s \in Sockets : TableOf[s] = t}
      BY DEF LinesOK, Class
    <2>3. moves + 1 \in 0..MaxMoves BY <1>1, ConnectionsAssumption DEF IInv, TypeOK
    <2>4. /\ owners \in [Sockets -> SUBSET Pids] /\ DOMAIN records \subseteq Records
          /\ IsABag(records) /\ source \in 1..Len(Sources) + 1
          /\ pc \in {"idle", "proc", "fd", "tables", "lines", "done"}
      BY DEF IInv, TypeOK
    <2>5. Open(fd)' = Open(fd1) BY <1>1 DEF Open
    <2> QED BY <1>1, <2>1, <2>2, <2>3, <2>4, <2>5 DEF TypeOK
  <1>6. TypeInv'
    <2>1. Pairs(fd1) \subseteq Sockets \X Pids BY DEF Pairs
    <2> QED BY <1>1, <2>1 DEF IInv, TypeInv
  <1>7. PhaseInv' BY <1>1 DEF IInv, PhaseInv
  <1>8. HeldInv'
    <2>1. Pairs(fd)' = Pairs(fd1) BY <1>1 DEF Pairs, Holders
    <2>2. OwnersHeldIt' BY <1>1 DEF IInv, HeldInv, OwnersHeldIt
    <2> QED BY <1>1, <2>1, <2>2 DEF IInv, HeldInv
  <1>9. WalkInv'
    <2>1. \A h \in steady' : h[1] \in lasting'
      <3> SUFFICES ASSUME NEW h \in steady' PROVE h[1] \in lasting' OBVIOUS
      <3>1. h \in steady /\ h \in Pids \X Fds /\ fd1[h[1]][h[2]] # NoSocket BY <1>1, <1>3
      <3>2. h[1] \in alive1 BY <3>1 DEF Owning
      <3> QED BY <1>1, <3>1, <3>2 DEF IInv, WalkInv
    <2>2. \A h \in steady' : Passed(h)' <=> Passed(h) BY <1>1 DEF Passed
    <2>3. \A h \in steady' : Noted(h)' <=> Noted(h) BY <1>1 DEF Noted
    <2>4. steady' \subseteq steady BY <1>1
    <2> QED BY <1>1, <2>1, <2>2, <2>3, <2>4 DEF IInv, WalkInv
  <1>10. RecordsInv'
    <2> SUFFICES ASSUME pc \in {"tables", "lines"}
                 PROVE  /\ \A t \in Tables \ changed' : \A s \in ToSet(table1[t]) : SocketInv(s)'
                        /\ ~found => \A k \in 1..Len(Sources) : k < source => Sources[k] \in missing
      BY <1>1 DEF RecordsInv
    <2>1. ~found => \A k \in 1..Len(Sources) : k < source => Sources[k] \in missing
      BY DEF IInv, RecordsInv
    <2>2. ASSUME NEW t \in Tables \ changed', NEW s \in ToSet(table1[t]) PROVE SocketInv(s)'
      <3>1. t \notin changed /\ table1[t] = table[t] BY <1>1
      <3>2. SocketInv(s) BY <3>1 DEF IInv, RecordsInv
      <3>3. TableOf[s] = t BY <2>2 DEF LinesOK, Class
      <3>4. Read(s)' <=> Read(s) BY <1>1, <3>1, <3>3 DEF Read
      <3>5. \A q : Once(s, q)' <=> Once(s, q) BY <1>1 DEF Once
      <3>6. \A h \in steady' : h \in steady /\ (fd1[h[1]][h[2]] = fd[h[1]][h[2]]) BY <1>1
      <3> QED BY <1>1, <3>2, <3>4, <3>5, <3>6 DEF SocketInv
    <2> QED BY <2>1, <2>2
  <1>11. EveryOwnerOnce' /\ TablesCovered' BY <1>1, <1>2, NoAnswer
  <1> QED BY <1>4, <1>5, <1>6, <1>7, <1>8, <1>9, <1>10, <1>11 DEF IInv

(* A table with some sockets less, or one more, is in order. *)
LEMMA RelistedOK ==
    ASSUME IInv, NEW t \in Tables, NEW S \in SUBSET Class(t),
           NEW lines \in Relisted(table[t], S)
    PROVE  /\ lines \in Seq(Sockets) /\ IsInjective(lines) /\ ToSet(lines) = S
           /\ LinesOK([table EXCEPT ![t] = lines])
  <1>1. lines \in SetToSeqs(S) /\ S \in SUBSET Sockets BY DEF Relisted, Class
  <1>2. lines \in Seq(Sockets) /\ IsInjective(lines) /\ ToSet(lines) = S
    BY <1>1, ListedOnce
  <1>3. LinesOK([table EXCEPT ![t] = lines])
    <2>1. table \in [Tables -> Seq(Sockets)] BY DEF IInv, SystemInv, LinesOK
    <2>2. [table EXCEPT ![t] = lines] \in [Tables -> Seq(Sockets)] BY <1>2, <2>1
    <2>3. ASSUME NEW u \in Tables
          PROVE  /\ IsInjective([table EXCEPT ![t] = lines][u])
                 /\ ToSet([table EXCEPT ![t] = lines][u]) \subseteq Class(u)
      <3>1. CASE u = t
        <4>1. [table EXCEPT ![t] = lines][u] = lines BY <2>1, <3>1
        <4> QED BY <1>2, <3>1, <4>1
      <3>2. CASE u # t
        <4>1. [table EXCEPT ![t] = lines][u] = table[u] BY <2>1, <3>2
        <4> QED BY <4>1 DEF IInv, SystemInv, LinesOK
      <3> QED BY <3>1, <3>2
    <2> QED BY <2>2, <2>3 DEF LinesOK
  <1> QED BY <1>2, <1>3

(* The last descriptor of a socket may go, and with it its line. *)
LEMMA ReleaseInv ==
    ASSUME IInv, NEW alive1 \in SUBSET Pids, NEW fd1 \in [Pids -> [Fds -> Sockets \cup {NoSocket}]],
           Owning(alive1, fd1), Release(alive1, fd1),
           \A p \in Pids, d \in Fds : fd1[p][d] # NoSocket => fd1[p][d] = fd[p][d]
    PROVE  IInv'
  <1> USE ConnectionsAssumption
  <1> DEFINE left(t, gone) == Relisted(table[t], ToSet(table[t]) \ gone)
  <1>1. PICK gone \in SUBSET {s \in Sockets : Holders(fd, s) # {} /\ Holders(fd1, s) = {}} :
          \E table1 \in [Tables -> UNION {left(t, gone) : t \in Tables}] :
             /\ \A t \in Tables : table1[t] \in left(t, gone)
             /\ Move(alive1, fd1, table1)
    BY DEF Release
  <1>2. PICK table1 \in [Tables -> UNION {left(t, gone) : t \in Tables}] :
             /\ \A t \in Tables : table1[t] \in left(t, gone)
             /\ Move(alive1, fd1, table1)
    BY <1>1
  <1>3. ASSUME NEW t \in Tables
        PROVE  /\ table1[t] \in Seq(Sockets) /\ IsInjective(table1[t])
               /\ ToSet(table1[t]) = ToSet(table[t]) \ gone
               /\ ToSet(table1[t]) \subseteq Class(t)
    <2> DEFINE S == ToSet(table[t]) \ gone
    <2>1. S \in SUBSET Class(t) BY DEF IInv, SystemInv, LinesOK
    <2>2. table1[t] \in Relisted(table[t], S) BY <1>2
    <2> HIDE DEF S
    <2>3. table1[t] \in Seq(Sockets) /\ IsInjective(table1[t]) /\ ToSet(table1[t]) = S
      BY <2>1, <2>2, RelistedOK
    <2> QED BY <2>1, <2>3 DEF S
  <1>4. LinesOK(table1)
    <2>1. table1 = [t \in Tables |-> table1[t]] BY <1>2
    <2>2. table1 \in [Tables -> Seq(Sockets)] BY <1>3, <2>1
    <2> QED BY <1>3, <2>2 DEF LinesOK
  <1>5. Listed(fd1, table1)
    <2> SUFFICES ASSUME NEW p \in Pids, NEW d \in Fds, fd1[p][d] # NoSocket
                 PROVE  fd1[p][d] \in ToSet(table1[TableOf[fd1[p][d]]])
      BY DEF Listed
    <2>1. fd1[p][d] \in Sockets /\ fd1[p][d] = fd[p][d] OBVIOUS
    <2>2. fd1[p][d] \in ToSet(table[TableOf[fd1[p][d]]]) BY <2>1 DEF IInv, SystemInv, Listed
    <2>3. p \in Holders(fd1, fd1[p][d]) BY DEF Holders
    <2>4. fd1[p][d] \notin gone BY <1>1, <2>3
    <2>5. TableOf[fd1[p][d]] \in Tables BY <2>1
    <2> QED BY <1>3, <2>2, <2>4, <2>5
  <1> QED BY <1>2, <1>4, <1>5, MoveInv

(* What a move may start from. *)
LEMMA Shape ==
    ASSUME IInv
    PROVE  /\ alive \subseteq Pids
           /\ fd \in [Pids -> [Fds -> Sockets \cup {NoSocket}]]
           /\ table \in [Tables -> Seq(Sockets)]
           /\ LinesOK(table) /\ Listed(fd, table) /\ Owning(alive, fd)
           /\ \A t \in Tables : ToSet(table[t]) \in SUBSET Class(t)
           /\ \A s \in Sockets : TableOf[s] \in Tables /\ s \in Class(TableOf[s]) /\ s # NoSocket
  BY ConnectionsAssumption DEF IInv, TypeOK, SystemInv, LinesOK, Class, NoSocket

LEMMA OpenSocketInv ==
    ASSUME IInv, NEW p \in Pids, NEW d \in Fds, NEW s \in Sockets, OpenSocket(p, d, s)
    PROVE  IInv'
  <1> DEFINE t == TableOf[s]
             S == ToSet(table[t]) \cup {s}
             fd1 == [fd EXCEPT ![p][d] = s]
  <1>1. PICK lines \in Relisted(table[t], S) : Move(alive, fd1, [table EXCEPT ![t] = lines])
    BY DEF OpenSocket
  <1>2. p \in alive BY DEF OpenSocket
  <1>3. t \in Tables /\ S \in SUBSET Class(t) BY Shape
  <1> DEFINE table1 == [table EXCEPT ![t] = lines]
  <1>4. ToSet(lines) = S /\ LinesOK(table1)
    <2> HIDE DEF S, t
    <2> QED BY <1>1, <1>3, RelistedOK
  <1>5. \A u \in Tables : ToSet(table[u]) \subseteq ToSet(table1[u])
    <2> HIDE DEF t
    <2> QED BY <1>3, <1>4, Shape
  <1>6. s \in ToSet(table1[t]) BY <1>3, <1>4, Shape
  <1>7. fd1 \in [Pids -> [Fds -> Sockets \cup {NoSocket}]] BY Shape
  <1>8. \A q \in Pids, e \in Fds : fd1[q][e] = IF q = p /\ e = d THEN s ELSE fd[q][e] BY Shape
  <1> HIDE DEF fd1, table1
  <1>9. Listed(fd1, table1)
    <2> SUFFICES ASSUME NEW q \in Pids, NEW e \in Fds, fd1[q][e] # NoSocket
                 PROVE  fd1[q][e] \in ToSet(table1[TableOf[fd1[q][e]]])
      BY DEF Listed
    <2>1. CASE q = p /\ e = d BY <1>6, <1>8, <2>1
    <2>2. CASE ~(q = p /\ e = d)
      <3>1. fd1[q][e] = fd[q][e] BY <1>8, <2>2
      <3>2. fd[q][e] \in Sockets BY <3>1, Shape
      <3>3. fd[q][e] \in ToSet(table[TableOf[fd[q][e]]]) BY <3>1, Shape DEF Listed
      <3> QED BY <1>5, <3>1, <3>2, <3>3, Shape
    <2> QED BY <2>1, <2>2
  <1>10. Owning(alive, fd1) BY <1>2, <1>8, Shape DEF Owning
  <1>11. Move(alive, fd1, table1) BY <1>1 DEF fd1, table1
  <1> QED BY <1>4, <1>7, <1>9, <1>10, <1>11, MoveInv, Shape

LEMMA CloseInv ==
    ASSUME IInv, NEW p \in Pids, NEW d \in Fds, Close(p, d)
    PROVE  IInv'
  <1> DEFINE fd1 == [fd EXCEPT ![p][d] = NoSocket]
  <1>1. Release(alive, fd1) BY DEF Close
  <1>2. fd1 \in [Pids -> [Fds -> Sockets \cup {NoSocket}]] BY Shape
  <1>3. \A q \in Pids, e \in Fds : fd1[q][e] # NoSocket => fd1[q][e] = fd[q][e] BY Shape
  <1> HIDE DEF fd1
  <1>4. Owning(alive, fd1) BY <1>3, Shape DEF Owning
  <1> QED BY <1>1, <1>2, <1>3, <1>4, ReleaseInv, Shape

LEMMA ShareInv ==
    ASSUME IInv, NEW p \in Pids, NEW d \in Fds, NEW q \in Pids, NEW e \in Fds, Share(p, d, q, e)
    PROVE  IInv'
  <1> DEFINE fd1 == [fd EXCEPT ![q][e] = fd[p][d]]
  <1>1. q \in alive /\ Move(alive, fd1, table) BY DEF Share
  <1>2. fd1 \in [Pids -> [Fds -> Sockets \cup {NoSocket}]] BY Shape
  <1>3. \A r \in Pids, f \in Fds : fd1[r][f] = IF r = q /\ f = e THEN fd[p][d] ELSE fd[r][f]
    BY Shape
  <1> HIDE DEF fd1
  <1>4. Listed(fd1, table) BY <1>3, Shape DEF Listed
  <1>5. Owning(alive, fd1) BY <1>1, <1>3, Shape DEF Owning
  <1> QED BY <1>1, <1>2, <1>4, <1>5, MoveInv, Shape

LEMMA ForkInv ==
    ASSUME IInv, NEW p \in Pids, NEW q \in Pids, Fork(p, q)
    PROVE  IInv'
  <1> DEFINE fd1 == [fd EXCEPT ![q] = fd[p]]
             alive1 == alive \cup {q}
  <1>1. Move(alive1, fd1, table) BY DEF Fork
  <1>2. fd1 \in [Pids -> [Fds -> Sockets \cup {NoSocket}]] BY Shape
  <1>3. \A r \in Pids : fd1[r] = IF r = q THEN fd[p] ELSE fd[r] BY Shape
  <1> HIDE DEF fd1
  <1>4. Listed(fd1, table) BY <1>3, Shape DEF Listed
  <1>5. Owning(alive1, fd1) BY <1>3, Shape DEF Owning
  <1>6. alive1 \in SUBSET Pids BY Shape
  <1> HIDE DEF alive1
  <1> QED BY <1>1, <1>2, <1>4, <1>5, <1>6, MoveInv, Shape

LEMMA ExitInv ==
    ASSUME IInv, NEW p \in Pids, Exit(p)
    PROVE  IInv'
  <1> DEFINE fd1 == [fd EXCEPT ![p] = [d \in Fds |-> NoSocket]]
             alive1 == alive \ {p}
  <1>1. Release(alive1, fd1) BY DEF Exit
  <1>2. fd1 \in [Pids -> [Fds -> Sockets \cup {NoSocket}]] BY Shape
  <1>3. \A q \in Pids, e \in Fds : fd1[q][e] # NoSocket => q # p /\ fd1[q][e] = fd[q][e] BY Shape
  <1> HIDE DEF fd1
  <1>4. Owning(alive1, fd1) BY <1>3, Shape DEF Owning
  <1>5. alive1 \in SUBSET Pids BY Shape
  <1> HIDE DEF alive1
  <1> QED BY <1>1, <1>2, <1>3, <1>4, <1>5, ReleaseInv

LEMMA ExpireInv ==
    ASSUME IInv, NEW s \in Sockets, Expire(s)
    PROVE  IInv'
  <1> DEFINE t == TableOf[s]
             S == ToSet(table[t]) \ {s}
  <1>1. PICK lines \in Relisted(table[t], S) : Move(alive, fd, [table EXCEPT ![t] = lines])
    BY DEF Expire
  <1>2. t \in Tables /\ S \in SUBSET Class(t) BY Shape
  <1> DEFINE table1 == [table EXCEPT ![t] = lines]
  <1>3. ToSet(lines) = S /\ LinesOK(table1)
    <2> HIDE DEF S, t
    <2> QED BY <1>1, <1>2, RelistedOK
  <1>4. \A u \in Tables : ToSet(table[u]) \ {s} \subseteq ToSet(table1[u])
    <2> HIDE DEF t
    <2> QED BY <1>2, <1>3, Shape
  <1>5. \A p \in Pids, d \in Fds : fd[p][d] # s BY DEF Expire, Holders
  <1> HIDE DEF table1
  <1>6. Listed(fd, table1)
    <2> SUFFICES ASSUME NEW q \in Pids, NEW e \in Fds, fd[q][e] # NoSocket
                 PROVE  fd[q][e] \in ToSet(table1[TableOf[fd[q][e]]])
      BY DEF Listed
    <2>1. fd[q][e] \in Sockets BY Shape
    <2>2. fd[q][e] \in ToSet(table[TableOf[fd[q][e]]]) BY Shape DEF Listed
    <2> QED BY <1>4, <1>5, <2>1, <2>2, Shape
  <1>7. Move(alive, fd, table1) BY <1>1 DEF table1
  <1> QED BY <1>3, <1>6, <1>7, MoveInv, Shape

LEMMA OthersInv == ASSUME IInv, Others PROVE IInv'
  <1>1. ASSUME NEW p \in Pids, NEW d \in Fds, NEW s \in Sockets, OpenSocket(p, d, s) PROVE IInv'
    BY <1>1, OpenSocketInv
  <1>2. ASSUME NEW p \in Pids, NEW d \in Fds, Close(p, d) PROVE IInv' BY <1>2, CloseInv
  <1>3. ASSUME NEW p \in Pids, NEW d \in Fds, NEW q \in Pids, NEW e \in Fds, Share(p, d, q, e)
        PROVE  IInv'
    BY <1>3, ShareInv
  <1>4. ASSUME NEW p \in Pids, NEW q \in Pids, Fork(p, q) PROVE IInv' BY <1>4, ForkInv
  <1>5. ASSUME NEW p \in Pids, Exit(p) PROVE IInv' BY <1>5, ExitInv
  <1>6. ASSUME NEW s \in Sockets, Expire(s) PROVE IInv' BY <1>6, ExpireInv
  <1> QED BY <1>1, <1>2, <1>3, <1>4, <1>5, <1>6 DEF Others

-----------------------------------------------------------------------------
(* A step of the call changes nothing of the other processes. *)
LEMMA Still ==
    ASSUME IInv, system' = system, missing' = missing
    PROVE  /\ alive' = alive /\ fd' = fd /\ table' = table
           /\ SystemInv'
           /\ Open(fd)' = Open(fd) /\ Pairs(fd)' = Pairs(fd)
           /\ missing' \in SUBSET Tables
  <1>1. alive' = alive /\ fd' = fd /\ table' = table BY DEF system
  <1>2. Open(fd)' = Open(fd) /\ Pairs(fd)' = Pairs(fd) BY <1>1 DEF Open, Pairs, Holders
  <1>3. SystemInv' BY <1>1 DEF IInv, SystemInv
  <1> QED BY <1>1, <1>2, <1>3 DEF IInv, TypeInv

(* TypeOK, after a step that also leaves the history alone. *)
LEMMA StillTyped ==
    ASSUME IInv, system' = system, missing' = missing, moves' = moves, history' = history,
           owners' \in [Sockets -> SUBSET Pids],
           DOMAIN records' \subseteq Records, IsABag(records'),
           pc' \in {"idle", "proc", "fd", "tables", "lines", "done"},
           source' \in 1..Len(Sources) + 1
    PROVE  TypeOK' /\ lasting' = lasting /\ steady' = steady /\ held' = held /\ changed' = changed
  <1>1. lasting' = lasting /\ steady' = steady /\ held' = held /\ changed' = changed
    BY DEF history
  <1>2. /\ alive' \subseteq Pids
        /\ fd' \in [Pids -> [Fds -> Sockets \cup {NoSocket}]]
        /\ moves' \in 0..MaxMoves
        /\ lasting' \subseteq alive'
        /\ steady' \subseteq Open(fd)'
    BY <1>1, Still DEF IInv, TypeOK
  <1>3. \A t \in Tables : ToSet(table'[t]) \subseteq {s \in Sockets : TableOf[s] = t}
    BY Still DEF IInv, TypeOK
  <1> QED BY <1>1, <1>2, <1>3 DEF TypeOK

LEMMA BeginInv ==
    ASSUME IInv, NEW opened \in BOOLEAN, Begin(opened)
    PROVE  IInv'
  <1>1. /\ pc = "idle" /\ pc' \in {"proc", "tables"}
        /\ opened => pc' = "proc"
        /\ faulted' = ~opened
        /\ lasting' = alive /\ steady' = Open(fd) /\ held' = Pairs(fd) /\ changed' = {}
        /\ system' = system /\ missing' = missing /\ moves' = moves
        /\ returned' = returned /\ dir' = dir /\ last' = last /\ owners' = owners
        /\ source' = source /\ line' = line /\ found' = found /\ records' = records
        /\ result' = result
    BY DEF Begin, walk, reading
  <1>2. /\ returned = {} /\ owners = NoOwners
        /\ source = 1 /\ line = 1 /\ ~found /\ records = EmptyBag /\ result = NoResult
    BY <1>1 DEF IInv, PhaseInv
  <1>3. DOMAIN EmptyBag = {} BY DEF EmptyBag, SetToBag
  <1>4. EveryOwnerOnce' /\ TablesCovered' /\ DOMAIN result'.entries = {} BY <1>1, <1>2, NoAnswer
  <1>5. SystemInv' BY <1>1, Still
  <1>6. TypeOK'
    <2>1. \A t \in Tables : ToSet(table'[t]) \subseteq {s \in Sockets : TableOf[s] = t}
      BY <1>1, Still DEF IInv, TypeOK
    <2>2. /\ alive' \subseteq Pids /\ lasting' \subseteq alive' /\ steady' \subseteq Open(fd)'
          /\ fd' \in [Pids -> [Fds -> Sockets \cup {NoSocket}]]
      BY <1>1, Still, Shape
    <2> QED BY <1>1, <2>1, <2>2 DEF IInv, TypeOK
  <1>7. TypeInv'
    <2>1. Pairs(fd) \subseteq Sockets \X Pids BY DEF Pairs
    <2>2. faulted' \in BOOLEAN BY <1>1
    <2> QED BY <1>1, <1>4, <2>1, <2>2 DEF IInv, TypeInv
  <1>8. PhaseInv' BY <1>1, <1>2 DEF PhaseInv
  <1>9. HeldInv'
    <2>1. \A s \in Sockets : owners'[s] = {} BY <1>1, <1>2 DEF NoOwners
    <2>2. OwnersHeldIt' BY <1>1, <1>2, <1>3, <1>4 DEF OwnersHeldIt
    <2> QED BY <1>1, <2>1, <2>2, Still DEF HeldInv
  <1>10. WalkInv'
    <2>1. \A h \in steady' : h[1] \in lasting' BY <1>1, Shape DEF Open, Owning
    <2>2. ~faulted' => \A h \in steady' : ~Passed(h)' BY <1>1, <1>2 DEF Passed
    <2> QED BY <2>1, <2>2 DEF WalkInv
  <1>11. RecordsInv'
    <2>1. \A s : ~Read(s)'
      <3>1. pc' # "lines" /\ source' = 1 BY <1>1, <1>2
      <3> QED BY <3>1 DEF Read
    <2>2. \A s : SocketInv(s)' BY <1>1, <1>2, <1>3, <2>1 DEF SocketInv
    <2> QED BY <1>1, <1>2, <2>2 DEF RecordsInv
  <1> QED BY <1>4, <1>5, <1>6, <1>7, <1>8, <1>9, <1>10, <1>11 DEF IInv

(* What a step of the walk through /proc leaves to show: the names and the *)
(* map it has made, and where it stands.                                   *)
LEMMA WalkStep ==
    ASSUME IInv, system' = system, missing' = missing, moves' = moves, history' = history,
           reading' = reading, result' = result,
           pc \in {"proc", "fd"}, pc' \in {"proc", "fd", "tables"},
           returned' \subseteq Pids, last' \in Nat, faulted' \in BOOLEAN,
           owners' \in [Sockets -> SUBSET Pids],
           \A s \in Sockets : \A p \in owners'[s] : <<s, p>> \in held,
           pc' = "fd" => dir' \in Pids /\ dir' \in returned',
           pc' = "tables" => returned' = {},
           ~faulted' => \A h \in steady : h[1] \in Visible /\ Passed(h)' => Noted(h)'
    PROVE  IInv'
  <1>1. /\ source' = source /\ line' = line /\ found' = found /\ records' = records
        /\ source = 1 /\ line = 1 /\ ~found /\ records = EmptyBag /\ result = NoResult
    BY DEF IInv, PhaseInv, reading
  <1>2. DOMAIN EmptyBag = {} /\ DOMAIN records' \subseteq Records /\ IsABag(records')
    BY <1>1 DEF EmptyBag, SetToBag, IInv, TypeOK
  <1>3. source' \in 1..Len(Sources) + 1 BY <1>1 DEF IInv, TypeOK
  <1>4. TypeOK' /\ lasting' = lasting /\ steady' = steady /\ held' = held /\ changed' = changed
    BY <1>2, <1>3, StillTyped
  <1>5. EveryOwnerOnce' /\ TablesCovered' /\ DOMAIN result'.entries = {} BY <1>1, NoAnswer
  <1>6. SystemInv' BY Still
  <1>7. TypeInv' BY <1>1, <1>4, <1>5, Still DEF IInv, TypeInv
  <1>8. PhaseInv' BY <1>1 DEF PhaseInv
  <1>9. HeldInv'
    <2>1. OwnersHeldIt' BY <1>1, <1>2, <1>5 DEF OwnersHeldIt
    <2>2. Pairs(fd)' \subseteq held' BY <1>4, Still DEF IInv, HeldInv, Calling
    <2> QED BY <1>4, <2>1, <2>2 DEF HeldInv
  <1>10. WalkInv' BY <1>4 DEF IInv, WalkInv
  <1>11. RecordsInv'
    <2>1. \A s : ~Read(s)'
      <3>1. pc' # "lines" /\ source' = 1 BY <1>1
      <3> QED BY <3>1 DEF Read
    <2>2. \A s : SocketInv(s)' BY <1>1, <1>2, <2>1 DEF SocketInv
    <2> QED BY <1>1, <2>2 DEF RecordsInv
  <1> QED BY <1>4, <1>5, <1>6, <1>7, <1>8, <1>9, <1>10, <1>11 DEF IInv

(* A descriptor that never changed is open, in a process that exists. *)
LEMMA SteadyFacts ==
    ASSUME IInv, NEW h \in steady
    PROVE  /\ h[1] \in Pids /\ h[2] \in Fds /\ h[2] \in Nat \ {0} /\ h = <<h[1], h[2]>>
           /\ h[1] \in lasting /\ h[1] \in alive
           /\ fd[h[1]][h[2]] \in Sockets /\ fd[h[1]][h[2]] # NoSocket
  <1>1. h \in Pids \X Fds /\ fd[h[1]][h[2]] # NoSocket BY DEF IInv, TypeOK, Open
  <1>2. h[1] \in Pids /\ h[2] \in Fds /\ h = <<h[1], h[2]>> BY <1>1
  <1>3. h[2] \in Nat \ {0} BY <1>2, ConnectionsAssumption
  <1>4. h[1] \in lasting /\ h[1] \in alive BY DEF IInv, WalkInv, TypeOK
  <1>5. fd[h[1]][h[2]] \in Sockets BY <1>1, <1>2, Shape
  <1> QED BY <1>1, <1>2, <1>3, <1>4, <1>5

(* The map as it is. *)
LEMMA OwnersFacts ==
    ASSUME IInv
    PROVE  /\ owners \in [Sockets -> SUBSET Pids]
           /\ \A s \in Sockets : \A p \in owners[s] : <<s, p>> \in held
           /\ returned \subseteq Pids /\ last \in Nat /\ faulted \in BOOLEAN
  BY DEF IInv, TypeOK, TypeInv, HeldInv

LEMMA NextPidInv ==
    ASSUME IInv, NEW p \in Pids, NextPid(p)
    PROVE  IInv'
  <1>1. /\ pc = "proc" /\ returned' = returned \cup {p}
        /\ system' = system /\ missing' = missing /\ moves' = moves /\ history' = history
        /\ owners' = owners /\ reading' = reading /\ result' = result
    BY DEF NextPid
  <1>2. fd' = fd BY <1>1, Still
  <1>3. returned' \subseteq Pids BY <1>1, OwnersFacts
  <1>4. \A h \in steady : Noted(h)' <=> Noted(h) BY <1>1, <1>2 DEF Noted
  <1>5. ~faulted => \A h \in steady : h[1] \in Visible /\ h[1] \in returned => Noted(h)
    BY <1>1 DEF IInv, WalkInv, Passed
  <1>6. CASE /\ pc' = "fd" /\ dir' = p /\ last' = 0
             /\ faulted' = faulted
    <2>1. \A h \in steady : Passed(h)' => h[1] \in returned
      <3> SUFFICES ASSUME NEW h \in steady, Passed(h)' PROVE h[1] \in returned OBVIOUS
      <3>1. h[1] \in returned \cup {p} /\ (h[1] = p => h[2] <= 0) BY <1>1, <1>6 DEF Passed
      <3>2. h[2] \in Nat \ {0} BY SteadyFacts
      <3>3. h[1] # p BY <3>1, <3>2
      <3> QED BY <3>1, <3>3
    <2>2. ~faulted' => \A h \in steady : h[1] \in Visible /\ Passed(h)' => Noted(h)'
      BY <1>4, <1>5, <1>6, <2>1
    <2>3. faulted' \in BOOLEAN BY <1>6, OwnersFacts
    <2> QED BY <1>1, <1>3, <1>6, <2>2, <2>3, OwnersFacts, WalkStep
  <1>7. CASE /\ p \notin alive \cap Visible
             /\ pc' = pc /\ dir' = dir /\ last' = last /\ faulted' = faulted
    <2>1. \A h \in steady : h[1] \in Visible /\ Passed(h)' => h[1] \in returned
      BY <1>1, <1>7, SteadyFacts DEF Passed
    <2>2. ~faulted' => \A h \in steady : h[1] \in Visible /\ Passed(h)' => Noted(h)'
      BY <1>4, <1>5, <1>7, <2>1
    <2>3. faulted' \in BOOLEAN BY <1>7, OwnersFacts
    <2> QED BY <1>1, <1>3, <1>7, <2>2, <2>3, OwnersFacts, WalkStep
  <1>8. CASE faulted' = TRUE /\ pc' = pc /\ dir' = dir /\ last' = last
    <2>1. faulted' \in BOOLEAN /\ faulted' BY <1>8
    <2> QED BY <1>1, <1>3, <1>8, <2>1, OwnersFacts, WalkStep
  <1> QED BY <1>6, <1>7, <1>8 DEF NextPid

LEMMA EndOfProcInv ==
    ASSUME IInv, EndOfProc
    PROVE  IInv'
  <1>1. /\ pc = "proc" /\ pc' = "tables" /\ returned' = {}
        /\ system' = system /\ missing' = missing /\ moves' = moves /\ history' = history
        /\ dir' = dir /\ last' = last /\ owners' = owners /\ reading' = reading /\ result' = result
    BY DEF EndOfProc
  <1>2. fd' = fd BY <1>1, Still
  <1>3. \A h \in steady : Noted(h)' <=> Noted(h) BY <1>1, <1>2 DEF Noted
  <1>4. ~faulted' => ~faulted /\ lasting \subseteq returned BY DEF EndOfProc
  <1>5. ~faulted' => \A h \in steady : h[1] \in Visible => Passed(h)
    BY <1>1, <1>4, SteadyFacts DEF Passed
  <1>6. ~faulted' => \A h \in steady : h[1] \in Visible /\ Passed(h)' => Noted(h)'
    BY <1>3, <1>4, <1>5 DEF IInv, WalkInv
  <1>7. faulted' \in BOOLEAN BY DEF EndOfProc
  <1> QED BY <1>1, <1>6, <1>7, OwnersFacts, WalkStep

(***************************************************************************)
(* readlink() of the next name. The stream produces the descriptors that   *)
(* never changed in their order, so none of them is jumped over; and what  *)
(* the link names now is what the process has now.                         *)
(***************************************************************************)
LEMMA NextFdInv ==
    ASSUME IInv, NEW d \in Fds, NextFd(d)
    PROVE  IInv'
  <1>1. /\ pc = "fd" /\ pc' = "fd" /\ d > last /\ last' = d
        /\ system' = system /\ missing' = missing /\ moves' = moves /\ history' = history
        /\ returned' = returned /\ dir' = dir /\ reading' = reading
        /\ faulted' = faulted /\ result' = result
    BY DEF NextFd
  <1>2. fd' = fd BY <1>1, Still
  <1>3. d \in Nat /\ dir \in Pids /\ dir \in returned
    BY <1>1, ConnectionsAssumption DEF IInv, PhaseInv
  <1>4. \A e \in Due : e >= d BY DEF NextFd
  <1>5. CASE dir \in alive /\ fd[dir][d] # NoSocket
    <2> DEFINE s0 == fd[dir][d]
    <2>1. s0 \in Sockets BY <1>3, <1>5, Shape
    <2>2. owners' = [owners EXCEPT ![s0] = owners[s0] \cup {dir}] BY <1>5 DEF NextFd, AddOwner
    <2>3. <<s0, dir>> \in held
      <3>1. dir \in Holders(fd, s0) BY <1>3 DEF Holders
      <3>2. <<s0, dir>> \in Pairs(fd) BY <1>3, <2>1, <3>1 DEF Pairs
      <3> QED BY <1>1, <3>2 DEF IInv, HeldInv, Calling
    <2>4. /\ owners' \in [Sockets -> SUBSET Pids]
          /\ \A s \in Sockets : owners'[s] = IF s = s0 THEN owners[s] \cup {dir} ELSE owners[s]
      <3> HIDE DEF s0
      <3> QED BY <1>3, <2>1, <2>2, OwnersFacts
    <2>5. \A s \in Sockets : \A p \in owners'[s] : <<s, p>> \in held
      <3> HIDE DEF s0
      <3> QED BY <2>3, <2>4, OwnersFacts
    <2>6. ~faulted' => \A h \in steady : h[1] \in Visible /\ Passed(h)' => Noted(h)'
      <3> SUFFICES ASSUME ~faulted', NEW h \in steady, h[1] \in Visible, Passed(h)' PROVE Noted(h)'
        OBVIOUS
      <3>1. h[1] \in returned /\ (h[1] = dir => h[2] <= d) BY <1>1 DEF Passed
      <3>2. /\ h[1] \in Pids /\ h[2] \in Fds /\ h[2] \in Nat /\ h = <<h[1], h[2]>>
            /\ fd[h[1]][h[2]] \in Sockets
        BY SteadyFacts
      <3>3. CASE Passed(h)
        <4>1. h[1] \in owners[fd[h[1]][h[2]]] BY <1>1, <3>3 DEF IInv, WalkInv, Noted
        <4>2. h[1] \in owners'[fd[h[1]][h[2]]] BY <2>4, <3>2, <4>1
        <4> QED BY <1>2, <4>2 DEF Noted
      <3>4. CASE ~Passed(h)
        <4>1. h[1] = dir /\ ~(h[2] <= last) BY <1>1, <3>1, <3>4 DEF Passed
        <4>2. h[2] \in Due BY <3>2, <4>1, OwnersFacts DEF Due
        <4>3. h[2] = d BY <1>3, <1>4, <3>1, <3>2, <4>1, <4>2
        <4>4. dir \in owners'[s0] BY <2>1, <2>4
        <4> QED BY <1>2, <4>1, <4>3, <4>4 DEF Noted
      <3> QED BY <3>3, <3>4
    <2> QED BY <1>1, <1>3, <2>4, <2>5, <2>6, OwnersFacts, WalkStep
  <1>6. CASE ~(dir \in alive /\ fd[dir][d] # NoSocket)
    <2>1. owners' = owners BY <1>6 DEF NextFd
    <2>2. \A h \in steady : Noted(h)' <=> Noted(h) BY <1>2, <2>1 DEF Noted
    <2>3. \A h \in steady : Passed(h)' => Passed(h)
      <3> SUFFICES ASSUME NEW h \in steady, Passed(h)', ~Passed(h) PROVE FALSE OBVIOUS
      <3>1. h[1] \in returned /\ (h[1] = dir => h[2] <= d) BY <1>1 DEF Passed
      <3>2. h[1] = dir /\ ~(h[2] <= last) BY <1>1, <3>1 DEF Passed
      <3>3. /\ h[2] \in Fds /\ h[2] \in Nat /\ h = <<h[1], h[2]>>
            /\ h[1] \in alive /\ fd[h[1]][h[2]] # NoSocket
        BY SteadyFacts
      <3>4. h[2] \in Due BY <3>2, <3>3, OwnersFacts DEF Due
      <3>5. h[2] = d BY <1>3, <1>4, <3>1, <3>2, <3>3, <3>4
      <3> QED BY <1>6, <3>2, <3>3, <3>5
    <2>4. ~faulted' => \A h \in steady : h[1] \in Visible /\ Passed(h)' => Noted(h)'
      BY <1>1, <2>2, <2>3 DEF IInv, WalkInv
    <2> QED BY <1>1, <1>3, <2>1, <2>4, OwnersFacts, WalkStep
  <1> QED BY <1>5, <1>6

LEMMA EndOfFdsInv ==
    ASSUME IInv, EndOfFds
    PROVE  IInv'
  <1>1. /\ pc = "fd" /\ pc' = "proc" /\ last' = 0
        /\ system' = system /\ missing' = missing /\ moves' = moves /\ history' = history
        /\ returned' = returned /\ owners' = owners /\ reading' = reading /\ result' = result
    BY DEF EndOfFds
  <1>2. fd' = fd BY <1>1, Still
  <1>3. \A h \in steady : Noted(h)' <=> Noted(h) BY <1>1, <1>2 DEF Noted
  <1>4. ~faulted' => ~faulted /\ Due = {} BY DEF EndOfFds
  <1>5. ASSUME ~faulted', NEW h \in steady, Passed(h)' PROVE Passed(h)
    <2>1. h[1] \in returned BY <1>1, <1>5 DEF Passed
    <2>2. h[2] \in Fds /\ h[2] \in Nat /\ h = <<h[1], h[2]>> BY SteadyFacts
    <2>3. h[1] = dir => h[2] <= last BY <1>4, <1>5, <2>2, OwnersFacts DEF Due
    <2> QED BY <1>1, <2>1, <2>3 DEF Passed
  <1>6. ~faulted' => \A h \in steady : h[1] \in Visible /\ Passed(h)' => Noted(h)'
    BY <1>3, <1>4, <1>5 DEF IInv, WalkInv
  <1>7. faulted' \in BOOLEAN BY DEF EndOfFds
  <1> QED BY <1>1, <1>6, <1>7, OwnersFacts, WalkStep

-----------------------------------------------------------------------------
LEMMA StaysFacts ==
    ASSUME Stays' = Stays
    PROVE  /\ system' = system /\ missing' = missing /\ moves' = moves /\ history' = history
           /\ faulted' = faulted
           /\ lasting' = lasting /\ steady' = steady /\ held' = held /\ changed' = changed
           /\ alive' = alive /\ fd' = fd /\ table' = table
  BY DEF Stays, system, history

(* What a step through the tables leaves to show. *)
LEMMA TableStep ==
    ASSUME IInv, Stays' = Stays, walk' = walk, result' = result,
           pc \in {"tables", "lines"}, pc' \in {"tables", "lines"},
           source' \in 1..Len(Sources) + 1, line' \in Nat \ {0}, found' \in BOOLEAN,
           DOMAIN records' \subseteq Records, IsABag(records'),
           pc' = "lines" => source' <= Len(Sources) /\ Sources[source'] \notin missing,
           \A r \in DOMAIN records' : r.pid # NoPid => <<r.socket, r.pid>> \in held,
           RecordsInv'
    PROVE  IInv'
  <1>1. returned' = returned /\ dir' = dir /\ last' = last /\ owners' = owners BY DEF walk
  <1>2. result = NoResult /\ returned = {} BY DEF IInv, PhaseInv
  <1>3. TypeOK' BY <1>1, OwnersFacts, StaysFacts, StillTyped
  <1>4. EveryOwnerOnce' /\ TablesCovered' /\ DOMAIN result'.entries = {} BY <1>2, NoAnswer
  <1>5. SystemInv' BY Still, StaysFacts
  <1>6. TypeInv' BY <1>1, <1>4, StaysFacts DEF IInv, TypeInv
  <1>7. PhaseInv' BY <1>1, <1>2, StaysFacts DEF PhaseInv
  <1>8. HeldInv'
    <2>1. OwnersHeldIt' BY <1>4, StaysFacts DEF OwnersHeldIt
    <2>2. Pairs(fd)' \subseteq held' BY Still, StaysFacts DEF IInv, HeldInv, Calling
    <2> QED BY <1>1, <2>1, <2>2, OwnersFacts, StaysFacts DEF HeldInv
  <1>9. WalkInv'
    <2>1. \A h \in steady : Noted(h)' <=> Noted(h) BY <1>1, StaysFacts DEF Noted
    <2>2. \A h \in steady : Passed(h) BY DEF Passed
    <2> QED BY <2>1, <2>2, StaysFacts DEF IInv, WalkInv
  <1> QED BY <1>3, <1>4, <1>5, <1>6, <1>7, <1>8, <1>9 DEF IInv

(* A step that reads no line. *)
LEMMA SameRecords ==
    ASSUME IInv, Stays' = Stays, records' = records, pc \in {"tables", "lines"},
           \A s \in Sockets : s \in ToSet(table[TableOf[s]]) => (Read(s)' <=> Read(s))
    PROVE  \A t \in Tables \ changed' : \A s \in ToSet(table'[t]) : SocketInv(s)'
  <1> SUFFICES ASSUME NEW t \in Tables \ changed, NEW s \in ToSet(table[t]) PROVE SocketInv(s)'
    BY StaysFacts
  <1>1. SocketInv(s) BY DEF IInv, RecordsInv
  <1>2. s \in Sockets /\ TableOf[s] = t BY Shape DEF Class
  <1>3. Read(s)' <=> Read(s) BY <1>2
  <1>4. \A p : Once(s, p)' <=> Once(s, p) BY DEF Once
  <1> QED BY <1>1, <1>3, <1>4, StaysFacts DEF SocketInv

(* Facts about the position in the tables. *)
LEMMA Position ==
    ASSUME IInv
    PROVE  /\ source \in 1..Len(Sources) + 1 /\ source \in Nat /\ Len(Sources) \in Nat
           /\ line \in Nat \ {0} /\ found \in BOOLEAN
           /\ DOMAIN records \subseteq Records /\ IsABag(records)
           /\ \A r \in DOMAIN records : r.pid # NoPid => <<r.socket, r.pid>> \in held
           /\ pc = "lines" => source <= Len(Sources) /\ Sources[source] \notin missing
           /\ \A k \in 1..Len(Sources) : Sources[k] \in Tables
           /\ \A j, k \in 1..Len(Sources) : Sources[j] = Sources[k] => j = k
  <1>1. Len(Sources) \in Nat /\ DOMAIN Sources = 1..Len(Sources) BY ConnectionsAssumption
  <1>2. \A k \in 1..Len(Sources) : Sources[k] \in Tables BY <1>1, ConnectionsAssumption
  <1>3. \A j, k \in 1..Len(Sources) : Sources[j] = Sources[k] => j = k
    BY <1>1, ConnectionsAssumption DEF IsInjective
  <1>4. source \in 1..Len(Sources) + 1 /\ source \in Nat BY <1>1 DEF IInv, TypeOK
  <1>5. \A r \in DOMAIN records : r.pid # NoPid => <<r.socket, r.pid>> \in held
    BY DEF IInv, HeldInv, OwnersHeldIt
  <1> QED BY <1>1, <1>2, <1>3, <1>4, <1>5 DEF IInv, TypeOK, TypeInv, PhaseInv

LEMMA OpenTableInv ==
    ASSUME IInv, OpenTable
    PROVE  IInv'
  <1>1. /\ pc = "tables" /\ source <= Len(Sources)
        /\ Stays' = Stays /\ walk' = walk /\ found' = found /\ records' = records /\ result' = result
    BY DEF OpenTable
  <1>2. source \in 1..Len(Sources) BY <1>1, Position
  <1>3. found' \in BOOLEAN /\ DOMAIN records' \subseteq Records /\ IsABag(records')
    BY <1>1, Position
  <1>4. \A r \in DOMAIN records' : r.pid # NoPid => <<r.socket, r.pid>> \in held BY <1>1, Position
  <1>5. ~found => \A k \in 1..Len(Sources) : k < source => Sources[k] \in missing
    BY <1>1 DEF IInv, RecordsInv
  <1>6. CASE Sources[source] \in missing /\ source' = source + 1 /\ pc' = pc /\ line' = line
    <2>1. source' \in 1..Len(Sources) + 1 BY <1>1, <1>6, Position
    <2>2. \A k \in 1..Len(Sources) : k < source' <=> k < source \/ k = source BY <1>6, Position
    <2>3. \A s \in Sockets : Read(s)' <=> Read(s)
      BY <1>1, <1>6, <2>2, StaysFacts DEF Read
    <2>4. \A t \in Tables \ changed' : \A s \in ToSet(table'[t]) : SocketInv(s)'
      BY <1>1, <2>3, SameRecords
    <2>5. ~found' => \A k \in 1..Len(Sources) : k < source' => Sources[k] \in missing'
      BY <1>1, <1>5, <1>6, <2>2, StaysFacts
    <2>6. RecordsInv' BY <2>4, <2>5 DEF RecordsInv
    <2>7. line' \in Nat \ {0} BY <1>6, Position
    <2> QED BY <1>1, <1>3, <1>4, <1>6, <2>1, <2>6, <2>7, TableStep
  <1>7. CASE Sources[source] \notin missing /\ pc' = "lines" /\ line' = 1 /\ source' = source
    <2>1. \A s \in Sockets : Read(s)' <=> Read(s)
      <3> SUFFICES ASSUME NEW s \in Sockets PROVE Read(s)' <=> Read(s) OBVIOUS
      <3>1. TableOf[s] \in Tables /\ table \in [Tables -> Seq(Sockets)] BY Shape
      <3>2. \A i \in DOMAIN table[TableOf[s]] : ~(i < 1) BY <3>1
      <3> QED BY <1>1, <1>7, <3>2, StaysFacts DEF Read
    <2>2. \A t \in Tables \ changed' : \A s \in ToSet(table'[t]) : SocketInv(s)'
      BY <1>1, <2>1, SameRecords
    <2>3. RecordsInv' BY <1>1, <1>5, <1>7, <2>2, StaysFacts DEF RecordsInv
    <2> QED BY <1>1, <1>2, <1>3, <1>4, <1>7, <2>3, Position, TableStep
  <1> QED BY <1>6, <1>7 DEF OpenTable

LEMMA EndOfTableInv ==
    ASSUME IInv, EndOfTable
    PROVE  IInv'
  <1>1. /\ pc = "lines" /\ pc' = "tables" /\ source' = source + 1 /\ line' = 1 /\ found' = TRUE
        /\ line > Len(table[Sources[source]])
        /\ records' = records /\ result' = result /\ Stays' = Stays /\ walk' = walk
    BY DEF EndOfTable
  <1>2. source \in 1..Len(Sources) /\ source' \in 1..Len(Sources) + 1 BY <1>1, Position
  <1>3. ASSUME NEW s \in Sockets, s \in ToSet(table[TableOf[s]]) PROVE Read(s)' <=> Read(s)
    <2>1. TableOf[s] \in Tables /\ table \in [Tables -> Seq(Sockets)] BY Shape
    <2>2. PICK i \in DOMAIN table[TableOf[s]] : table[TableOf[s]][i] = s BY <1>3 DEF ToSet
    <2>3. Sources[source] = TableOf[s] => i < line BY <1>1, <2>1, Position
    <2>4. \A k \in 1..Len(Sources) : k < source' <=> k < source \/ k = source BY <1>1, Position
    <2>5. /\ Read(s)' <=> \E k \in 1..Len(Sources) :
                            /\ Sources[k] = TableOf[s] /\ Sources[k] \notin missing
                            /\ k < source'
      BY <1>1, StaysFacts DEF Read
    <2>6. Read(s) <=> \E k \in 1..Len(Sources) :
                            /\ Sources[k] = TableOf[s] /\ Sources[k] \notin missing
                            /\ (k < source \/ k = source)
      BY <1>1, <2>2, <2>3 DEF Read
    <2> QED BY <2>4, <2>5, <2>6
  <1>4. \A t \in Tables \ changed' : \A s \in ToSet(table'[t]) : SocketInv(s)'
    BY <1>1, <1>3, SameRecords
  <1>5. found' \in BOOLEAN /\ found' BY <1>1
  <1>6. RecordsInv' BY <1>4, <1>5 DEF RecordsInv
  <1>7. DOMAIN records' \subseteq Records /\ IsABag(records') /\ line' \in Nat \ {0}
    BY <1>1, Position
  <1>8. \A r \in DOMAIN records' : r.pid # NoPid => <<r.socket, r.pid>> \in held BY <1>1, Position
  <1> QED BY <1>1, <1>2, <1>5, <1>6, <1>7, <1>8, TableStep

(***************************************************************************)
(* One line is read. In an unchanged table it is the first line of its     *)
(* socket, so that the socket has no record yet; the walk is over, so that *)
(* every process that kept the socket is in the map.                       *)
(***************************************************************************)
LEMMA NextLineInv ==
    ASSUME IInv, NextLine
    PROVE  IInv'
  <1>t. PICK t0 : t0 = Sources[source] OBVIOUS
  <1>s. PICK s0 : s0 = table[t0][line] OBVIOUS
  <1>r. PICK R : R = IF Holders(fd, s0) # {} /\ owners[s0] # {} THEN {Record(s0, p) : p \in owners[s0]}
                     ELSE {Record(s0, NoPid)}
    OBVIOUS
  <1>1. /\ pc = "lines" /\ pc' = pc /\ source' = source /\ line' = line + 1 /\ found' = found
        /\ line <= Len(table[t0])
        /\ result' = result /\ Stays' = Stays /\ walk' = walk
        /\ records' = records (+) SetToBag(R)
    BY <1>t, <1>s, <1>r DEF NextLine, RecordsFor
  <1>2. source \in 1..Len(Sources) /\ t0 \in Tables /\ t0 \notin missing BY <1>1, <1>t, Position
  <1>3. table[t0] \in Seq(Sockets) /\ line \in DOMAIN table[t0] BY <1>1, <1>2, Position, Shape
  <1>4. s0 \in ToSet(table[t0]) BY <1>3, <1>s DEF ToSet
  <1>5. s0 \in Sockets /\ TableOf[s0] = t0 BY <1>2, <1>4, Shape DEF Class
  <1>6. /\ IsABag(records') /\ DOMAIN records' = DOMAIN records \cup R
        /\ \A r \in DOMAIN records \ R : records'[r] = records[r]
        /\ \A r \in R \ DOMAIN records : records'[r] = 1
    <2>1. IsABag(records) BY Position
    <2>2. records' = records (+) SetToBag(R) BY <1>1
    <2>3. /\ IsABag(records (+) SetToBag(R))
          /\ DOMAIN (records (+) SetToBag(R)) = DOMAIN records \cup R
          /\ \A r \in DOMAIN records \ R : (records (+) SetToBag(R))[r] = records[r]
          /\ \A r \in R \ DOMAIN records : (records (+) SetToBag(R))[r] = 1
      BY <2>1, AddRecords, Zenon
    <2> QED BY <2>2, <2>3
  <1>7. /\ R \subseteq Records /\ \E r : r \in R
        /\ \A r \in R : r.socket = s0 /\ (r.pid # NoPid => r.pid \in owners[s0])
    <2>1. owners[s0] \subseteq Pids BY <1>5, OwnersFacts
    <2>2. \A p \in Pids \cup {NoPid} : Record(s0, p) \in Records BY <1>5 DEF Records, Record
    <2>3. \A p : Record(s0, p).socket = s0 /\ Record(s0, p).pid = p BY DEF Record
    <2>4. CASE Holders(fd, s0) # {} /\ owners[s0] # {}
      <3>1. R = {Record(s0, p) : p \in owners[s0]} BY <1>r, <2>4
      <3> QED BY <2>1, <2>2, <2>3, <2>4, <3>1
    <2>5. CASE ~(Holders(fd, s0) # {} /\ owners[s0] # {})
      <3>1. R = {Record(s0, NoPid)} BY <1>r, <2>5
      <3> QED BY <2>2, <2>3, <3>1
    <2> QED BY <2>4, <2>5
  <1>8. \A h \in steady : fd[h[1]][h[2]] = s0 /\ h[1] \in owners[s0] =>
          Record(s0, h[1]) \in R /\ Record(s0, NoPid) \notin R
    <2> SUFFICES ASSUME NEW h \in steady, fd[h[1]][h[2]] = s0, h[1] \in owners[s0]
                 PROVE  Record(s0, h[1]) \in R /\ Record(s0, NoPid) \notin R
      OBVIOUS
    <2>1. h[1] \in Holders(fd, s0) BY SteadyFacts DEF Holders
    <2>2. R = {Record(s0, p) : p \in owners[s0]} BY <1>r, <2>1
    <2>3. NoPid \notin owners[s0] BY <1>5, OwnersFacts, ConnectionsAssumption DEF NoPid
    <2>4. \A p \in owners[s0] : Record(s0, p) # Record(s0, NoPid) BY <2>3 DEF Record
    <2> QED BY <2>2, <2>4
  <1>9. \A i \in DOMAIN table[t0] : i < line' <=> i < line \/ i = line BY <1>1, <1>3, Position
  <1>10. Read(s0)'
    <2>1. line < line' BY <1>1, Position
    <2> QED BY <1>1, <1>2, <1>3, <1>5, <1>s, <1>t, <2>1, StaysFacts DEF Read
  <1>11. ~Read(s0)
    <2> SUFFICES ASSUME Read(s0) PROVE FALSE OBVIOUS
    <2>1. PICK k \in 1..Len(Sources) :
            /\ Sources[k] = TableOf[s0]
            /\ \/ k < source
               \/ \E i \in DOMAIN table[TableOf[s0]] : i < line /\ table[TableOf[s0]][i] = s0
      BY DEF Read
    <2>2. k = source BY <1>2, <1>5, <1>t, <2>1, Position
    <2>3. PICK i \in DOMAIN table[t0] : i < line /\ table[t0][i] = table[t0][line]
      BY <1>5, <1>s, <2>1, <2>2, Position
    <2>4. \A i1, j1 \in DOMAIN table[t0] : table[t0][i1] = table[t0][j1] => i1 = j1
      BY <1>2, Shape DEF LinesOK, IsInjective
    <2>5. i = line BY <1>3, <2>3, <2>4
    <2> QED BY <2>3, <2>5, Position
  <1>12. ASSUME NEW s \in Sockets, s # s0 PROVE Read(s)' <=> Read(s)
    <2>1. \A k \in 1..Len(Sources) : k = source /\ Sources[k] = TableOf[s] =>
            ((\E i \in DOMAIN table[TableOf[s]] : i < line' /\ table[TableOf[s]][i] = s)
             <=> (\E i \in DOMAIN table[TableOf[s]] : i < line /\ table[TableOf[s]][i] = s))
      BY <1>3, <1>9, <1>s, <1>t, <1>12
    <2> QED BY <1>1, <2>1, StaysFacts DEF Read
  <1>13. ASSUME NEW t \in Tables \ changed, NEW s \in ToSet(table[t]) PROVE SocketInv(s)'
    <2>1. SocketInv(s) BY <1>1 DEF IInv, RecordsInv
    <2>2. s \in Sockets BY Shape DEF Class
    <2>3. CASE s = s0
      <3>1. \A r \in DOMAIN records : r.socket # s0 BY <1>11, <2>1, <2>3 DEF SocketInv
      <3>2. \E r \in DOMAIN records' : r.socket = s0 BY <1>6, <1>7
      <3>3. ASSUME ~faulted, NEW h \in steady, fd[h[1]][h[2]] = s0, h[1] \in Visible
            PROVE  Once(s0, h[1])'
        <4>1. h[1] \in owners[s0] BY <1>1, <3>3 DEF IInv, WalkInv, Passed, Noted
        <4>2. Record(s0, h[1]) \in R /\ Record(s0, NoPid) \notin R BY <1>8, <3>3, <4>1
        <4>3. Record(s0, h[1]).socket = s0 /\ Record(s0, NoPid).socket = s0 BY DEF Record
        <4>4. Record(s0, h[1]) \notin DOMAIN records /\ Record(s0, NoPid) \notin DOMAIN records
          BY <3>1, <4>3
        <4>5. Record(s0, h[1]) \in DOMAIN records' /\ records'[Record(s0, h[1])] = 1
          BY <1>6, <4>2, <4>4
        <4>6. Record(s0, NoPid) \notin DOMAIN records' BY <1>6, <4>2, <4>4
        <4> QED BY <4>5, <4>6 DEF Once, Record
      <3> QED BY <1>1, <1>10, <2>3, <3>2, <3>3, StaysFacts DEF SocketInv
    <2>4. CASE s # s0
      <3>1. Read(s)' <=> Read(s) BY <1>12, <2>2, <2>4
      <3>2. \A r \in DOMAIN records' : r.socket = s => r \in DOMAIN records BY <1>6, <1>7, <2>4
      <3>3. \A r \in DOMAIN records : r.socket = s => r \in DOMAIN records' /\ records'[r] = records[r]
        BY <1>6, <1>7, <2>4
      <3>4. \A p : Record(s, p).socket = s BY DEF Record
      <3>5. \A p : Once(s, p) => Once(s, p)'
        <4>1. \A p : Record(s, p)' = Record(s, p) BY DEF Record
        <4> QED BY <3>2, <3>3, <3>4 DEF Once
      <3> QED BY <1>1, <2>1, <3>1, <3>2, <3>3, <3>5, StaysFacts DEF SocketInv
    <2> QED BY <2>3, <2>4
  <1>14. RecordsInv'
    <2>1. ~found => \A k \in 1..Len(Sources) : k < source => Sources[k] \in missing
      BY <1>1 DEF IInv, RecordsInv
    <2>2. ~found' => \A k \in 1..Len(Sources) : k < source' => Sources[k] \in missing'
      BY <1>1, <2>1, StaysFacts
    <2>3. \A t \in Tables \ changed' : \A s \in ToSet(table'[t]) : SocketInv(s)'
      BY <1>1, <1>13, StaysFacts
    <2> QED BY <2>2, <2>3 DEF RecordsInv
  <1>15. \A r \in DOMAIN records' : r.pid # NoPid => <<r.socket, r.pid>> \in held
    BY <1>5, <1>6, <1>7, OwnersFacts, Position
  <1>16. DOMAIN records' \subseteq Records BY <1>6, <1>7, Position
  <1>17. source' \in 1..Len(Sources) + 1 /\ line' \in Nat \ {0} /\ found' \in BOOLEAN
    BY <1>1, Position
  <1>18. source' <= Len(Sources) /\ Sources[source'] \notin missing BY <1>1, <1>2, <1>t, Position
  <1> QED BY <1>1, <1>6, <1>14, <1>15, <1>16, <1>17, <1>18, TableStep

(* The call returns; what it answers is made of its records. *)
LEMMA FinishInv ==
    ASSUME IInv, NEW r, Finish(r), pc \in {"tables", "lines"},
           DOMAIN r.entries \subseteq DOMAIN records,
           EveryOwnerOnce', TablesCovered'
    PROVE  IInv'
  <1>1. /\ pc' = "done" /\ result' = r /\ owners' = NoOwners
        /\ source' = 1 /\ line' = 1 /\ found' = FALSE /\ records' = EmptyBag
        /\ Stays' = Stays /\ returned' = returned /\ dir' = dir /\ last' = last
    BY DEF Finish
  <1>2. DOMAIN EmptyBag = {} /\ IsABag(EmptyBag) BY DEF EmptyBag, SetToBag, IsABag
  <1>3. owners' \in [Sockets -> SUBSET Pids] /\ \A s \in Sockets : owners'[s] = {}
    BY <1>1 DEF NoOwners
  <1>4. source' \in 1..Len(Sources) + 1 BY <1>1, Position
  <1>5. DOMAIN records' \subseteq Records /\ IsABag(records') BY <1>1, <1>2
  <1>6. TypeOK' BY <1>1, <1>3, <1>4, <1>5, StaysFacts, StillTyped
  <1>7. SystemInv' BY <1>1, Still, StaysFacts
  <1>8. TypeInv'
    <2>1. (found' \in BOOLEAN) /\ line' \in Nat \ {0}
      <3>1. found' \in BOOLEAN BY <1>1
      <3>2. line' \in Nat \ {0} BY <1>1
      <3> QED BY <3>1, <3>2
    <2>2. DOMAIN result'.entries \subseteq Records BY <1>1, Position
    <2> QED BY <1>1, <2>1, <2>2, StaysFacts DEF IInv, TypeInv
  <1>9. PhaseInv'
    <2>1. returned = {} BY DEF IInv, PhaseInv
    <2> QED BY <1>1, <2>1 DEF PhaseInv
  <1>10. HeldInv'
    <2>1. OwnersHeldIt' BY <1>1, <1>2, Position, StaysFacts DEF OwnersHeldIt
    <2> QED BY <1>1, <1>3, <2>1 DEF HeldInv, Calling
  <1>11. WalkInv'
    <2>1. \A h \in steady' : ~Passed(h)' BY <1>1 DEF Passed
    <2> QED BY <1>1, <2>1, StaysFacts DEF IInv, WalkInv
  <1>12. RecordsInv' BY <1>1 DEF RecordsInv
  <1> QED BY <1>6, <1>7, <1>8, <1>9, <1>10, <1>11, <1>12 DEF IInv

LEMMA FailInv ==
    ASSUME IInv, NEW code, code # "not_supported", Finish(Fail(code)), pc \in {"tables", "lines"}
    PROVE  IInv'
  <1>1. result' = Fail(code) BY DEF Finish
  <1>2. /\ Fail(code).kind = "error" /\ Fail(code).code = code /\ Fail(code).entries = EmptyBag
    BY DEF Fail
  <1>3. DOMAIN EmptyBag = {} BY DEF EmptyBag, SetToBag
  <1>4. EveryOwnerOnce' /\ TablesCovered'
    BY <1>1, <1>2 DEF EveryOwnerOnce, TablesCovered, Answered
  <1> HIDE DEF Fail
  <1> QED BY <1>2, <1>3, <1>4, FinishInv

(* Every table has been read, or is missing. *)
LEMMA ReturnInv ==
    ASSUME IInv, NEW q \in Queries, Return(q)
    PROVE  IInv'
  <1> DEFINE kept == [r \in {x \in DOMAIN records : Selects(q, x)} |-> records[r]]
  <1>1. /\ pc = "tables" /\ source > Len(Sources)
        /\ Finish(IF found THEN Ok(q, kept) ELSE Fail("not_supported"))
    BY DEF Return
  <1>2. Stays' = Stays BY <1>1 DEF Finish
  <1>3. ~found => \A k \in 1..Len(Sources) : k < source => Sources[k] \in missing
    BY <1>1 DEF IInv, RecordsInv
  <1>4. \A t \in Tables : \E k \in 1..Len(Sources) : Sources[k] = t /\ k < source
    <2> SUFFICES ASSUME NEW t \in Tables PROVE \E k \in 1..Len(Sources) : Sources[k] = t /\ k < source
      OBVIOUS
    <2>1. DOMAIN Sources = 1..Len(Sources) BY ConnectionsAssumption
    <2>2. PICK k \in 1..Len(Sources) : Sources[k] = t BY <2>1 DEF Tables, Range
    <2>3. k < source BY <1>1, Position
    <2> QED BY <2>2, <2>3
  <1>5. CASE found
    <2>1. Finish(Ok(q, kept)) BY <1>1, <1>5
    <2>2. result' = Ok(q, kept) BY <2>1 DEF Finish
    <2>3. /\ result'.kind = "ok" /\ result'.code = "none"
          /\ result'.query = q /\ result'.entries = kept
      BY <2>2 DEF Ok
    <2>4. /\ DOMAIN kept = {x \in DOMAIN records : Selects(q, x)}
          /\ \A r \in DOMAIN kept : kept[r] = records[r]
      OBVIOUS
    <2> HIDE DEF kept
    <2>5. ASSUME NEW t \in Tables \ changed, Answered(t)', NEW s \in ToSet(table[t])
          PROVE  /\ Read(s) /\ SocketInv(s) /\ s \in Sockets
                 /\ \A r : r \in DOMAIN records /\ r.socket = s => r \in DOMAIN kept
      <3>1. q \in {"all", t} /\ t \notin missing BY <1>2, <2>3, <2>5, StaysFacts DEF Answered
      <3>2. s \in Sockets /\ TableOf[s] = t BY Shape DEF Class
      <3>3. Read(s) BY <1>4, <3>1, <3>2 DEF Read
      <3>4. SocketInv(s) BY <1>1 DEF IInv, RecordsInv
      <3>5. \A r : r.socket = s => Selects(q, r) BY <3>1, <3>2 DEF Selects
      <3> QED BY <2>4, <3>2, <3>3, <3>4, <3>5
    <2>6. TablesCovered'
      <3>1. ASSUME NEW t \in Tables \ changed, Answered(t)', NEW s \in ToSet(table[t])
            PROVE  \E r \in DOMAIN kept : r.socket = s
        <4>1. PICK r \in DOMAIN records : r.socket = s BY <2>5, <3>1 DEF SocketInv
        <4> QED BY <2>5, <3>1, <4>1
      <3> QED BY <1>2, <2>3, <3>1, StaysFacts DEF TablesCovered
    <2>7. EveryOwnerOnce'
      <3> SUFFICES ASSUME NEW h \in steady, ~faulted, h[1] \in Visible,
                          Answered(TableOf[fd[h[1]][h[2]]])', TableOf[fd[h[1]][h[2]]] \notin changed
                   PROVE  /\ Record(fd[h[1]][h[2]], h[1]) \in DOMAIN kept
                          /\ kept[Record(fd[h[1]][h[2]], h[1])] = 1
                          /\ Record(fd[h[1]][h[2]], NoPid) \notin DOMAIN kept
        BY <1>2, <2>3, StaysFacts DEF EveryOwnerOnce, Answered, Record
      <3>s. PICK s : s = fd[h[1]][h[2]] OBVIOUS
      <3>t. PICK t : t = TableOf[s] OBVIOUS
      <3>1. s \in Sockets /\ h[1] \in Pids /\ h[2] \in Fds /\ s # NoSocket BY <3>s, SteadyFacts
      <3>2. t \in Tables \ changed BY <3>s, <3>t, <3>1, Shape
      <3>3. s \in ToSet(table[t]) BY <3>s, <3>t, <3>1, Shape DEF Listed
      <3>4. Answered(t)' BY <1>2, <3>s, <3>t, StaysFacts DEF Answered
      <3>5. /\ Read(s) /\ SocketInv(s)
            /\ \A r : r \in DOMAIN records /\ r.socket = s => r \in DOMAIN kept
        BY <2>5, <3>2, <3>3, <3>4
      <3>6. Once(s, h[1]) BY <3>s, <3>5 DEF SocketInv
      <3>7. Record(s, h[1]).socket = s BY DEF Record
      <3>8. Record(s, h[1]) \in DOMAIN kept BY <3>5, <3>6, <3>7 DEF Once
      <3>9. DOMAIN kept \subseteq DOMAIN records BY <2>4
      <3> QED BY <2>4, <3>s, <3>6, <3>8, <3>9 DEF Once
    <2>8. DOMAIN Ok(q, kept).entries \subseteq DOMAIN records BY <2>2, <2>3, <2>4
    <2> QED BY <1>1, <2>1, <2>6, <2>7, <2>8, FinishInv
  <1>6. CASE ~found
    <2>1. Finish(Fail("not_supported")) BY <1>1, <1>6
    <2>2. result' = Fail("not_supported") BY <2>1 DEF Finish
    <2>3. result'.kind = "error" /\ result'.entries = EmptyBag BY <2>2 DEF Fail
    <2>4. missing = Tables
      <3>1. missing \in SUBSET Tables BY DEF IInv, TypeInv
      <3> QED BY <1>3, <1>4, <1>6, <3>1
    <2>5. EveryOwnerOnce' /\ TablesCovered'
      BY <1>2, <2>3, <2>4, StaysFacts DEF EveryOwnerOnce, TablesCovered, Answered
    <2>6. DOMAIN EmptyBag = {} BY DEF EmptyBag, SetToBag
    <2>7. DOMAIN Fail("not_supported").entries \subseteq DOMAIN records BY <2>2, <2>3, <2>6
    <2> QED BY <1>1, <2>1, <2>5, <2>7, FinishInv
  <1> QED BY <1>5, <1>6

LEMMA TakeResultInv ==
    ASSUME IInv, TakeResult
    PROVE  IInv'
  <1>1. /\ pc = "done" /\ pc' = "idle" /\ moves' = 0
        /\ lasting' = {} /\ steady' = {} /\ held' = {} /\ changed' = {}
        /\ faulted' = FALSE /\ result' = NoResult
        /\ system' = system /\ missing' = missing
        /\ returned' = returned /\ dir' = dir /\ last' = last /\ owners' = owners
        /\ source' = source /\ line' = line /\ found' = found /\ records' = records
    BY DEF TakeResult, walk, reading
  <1>2. /\ returned = {} /\ owners = NoOwners
        /\ source = 1 /\ line = 1 /\ ~found /\ records = EmptyBag
    BY <1>1 DEF IInv, PhaseInv
  <1>3. DOMAIN EmptyBag = {} BY DEF EmptyBag, SetToBag
  <1>4. EveryOwnerOnce' /\ TablesCovered' /\ DOMAIN result'.entries = {} BY <1>1, NoAnswer
  <1>5. SystemInv' BY <1>1, Still
  <1>6. TypeOK'
    <2>1. \A t \in Tables : ToSet(table'[t]) \subseteq {s \in Sockets : TableOf[s] = t}
      BY <1>1, Still DEF IInv, TypeOK
    <2>2. alive' \subseteq Pids /\ fd' \in [Pids -> [Fds -> Sockets \cup {NoSocket}]]
      BY <1>1, Still, Shape
    <2>3. moves' \in 0..MaxMoves BY <1>1, ConnectionsAssumption
    <2> QED BY <1>1, <2>1, <2>2, <2>3 DEF IInv, TypeOK
  <1>7. TypeInv'
    <2>1. faulted' \in BOOLEAN BY <1>1
    <2> QED BY <1>1, <1>4, <2>1 DEF IInv, TypeInv
  <1>8. PhaseInv' BY <1>1, <1>2 DEF PhaseInv
  <1>9. HeldInv'
    <2>1. \A s \in Sockets : owners'[s] = {} BY <1>1, <1>2 DEF NoOwners
    <2>2. OwnersHeldIt' BY <1>1, <1>2, <1>3, <1>4 DEF OwnersHeldIt
    <2> QED BY <1>1, <2>1, <2>2 DEF HeldInv, Calling
  <1>10. WalkInv' BY <1>1 DEF WalkInv
  <1>11. RecordsInv' BY <1>1 DEF RecordsInv
  <1> QED BY <1>4, <1>5, <1>6, <1>7, <1>8, <1>9, <1>10, <1>11 DEF IInv

LEMMA NextInv == ASSUME IInv, Next PROVE IInv'
  <1>1. CASE Others BY <1>1, OthersInv
  <1>2. ASSUME NEW opened \in BOOLEAN, Begin(opened) PROVE IInv' BY <1>2, BeginInv
  <1>3. ASSUME NEW p \in Pids, NextPid(p) PROVE IInv' BY <1>3, NextPidInv
  <1>4. CASE EndOfProc BY <1>4, EndOfProcInv
  <1>5. ASSUME NEW d \in Fds, NextFd(d) PROVE IInv' BY <1>5, NextFdInv
  <1>6. CASE EndOfFds BY <1>6, EndOfFdsInv
  <1>7. CASE OpenTable BY <1>7, OpenTableInv
  <1>8. ASSUME NEW code \in {"EACCES", "malformed_data"}, OpenTableFails(code) PROVE IInv'
    BY <1>8, FailInv DEF OpenTableFails
  <1>9. CASE NextLine BY <1>9, NextLineInv
  <1>10. ASSUME NEW code \in {"EIO", "malformed_data"}, LineFails(code) PROVE IInv'
    BY <1>10, FailInv DEF LineFails
  <1>11. CASE EndOfTable BY <1>11, EndOfTableInv
  <1>12. ASSUME NEW q \in Queries, Return(q) PROVE IInv' BY <1>12, ReturnInv
  <1>13. CASE TakeResult BY <1>13, TakeResultInv
  <1> QED BY <1>1, <1>2, <1>3, <1>4, <1>5, <1>6, <1>7, <1>8, <1>9, <1>10, <1>11, <1>12, <1>13
      DEF Next

LEMMA StutterInv == ASSUME IInv, UNCHANGED vars PROVE IInv'
  <1>1. /\ alive' = alive /\ fd' = fd /\ table' = table /\ missing' = missing /\ moves' = moves
        /\ lasting' = lasting /\ steady' = steady /\ held' = held /\ changed' = changed
        /\ pc' = pc /\ returned' = returned /\ dir' = dir /\ last' = last /\ owners' = owners
        /\ source' = source /\ line' = line /\ found' = found /\ records' = records
        /\ faulted' = faulted /\ result' = result
    BY DEF vars, system, history, walk, reading
  <1>2. TypeOK' BY <1>1 DEF IInv, TypeOK, Open
  <1>3. TypeInv' BY <1>1 DEF IInv, TypeInv
  <1>4. SystemInv' /\ PhaseInv' BY <1>1 DEF IInv, SystemInv, PhaseInv
  <1>5. HeldInv' BY <1>1 DEF IInv, HeldInv, Calling, Pairs, Holders, OwnersHeldIt
  <1>6. WalkInv' BY <1>1 DEF IInv, WalkInv, Passed, Noted
  <1>7. \A s : SocketInv(s)' <=> SocketInv(s)
    <2>1. \A s : Read(s)' <=> Read(s) BY <1>1 DEF Read
    <2>2. \A s, p : Once(s, p)' <=> Once(s, p) BY <1>1 DEF Once
    <2> QED BY <1>1, <2>1, <2>2 DEF SocketInv
  <1>8. RecordsInv' BY <1>1, <1>7 DEF IInv, RecordsInv
  <1>9. EveryOwnerOnce' BY <1>1 DEF IInv, EveryOwnerOnce, Answered
  <1>10. TablesCovered' BY <1>1 DEF IInv, TablesCovered, Answered
  <1> QED BY <1>2, <1>3, <1>4, <1>5, <1>6, <1>8, <1>9, <1>10 DEF IInv

-----------------------------------------------------------------------------
(* The invariant of connections() and its walks holds in every state. *)
THEOREM Invariance == Spec => []IInv
  <1>1. IInv /\ [Next]_vars => IInv' BY NextInv, StutterInv
  <1> QED BY <1>1, InitInv, PTL DEF Spec

(* Every variable keeps its type. *)
THEOREM TypeCorrect == Spec => []TypeOK
  <1>1. IInv => TypeOK BY DEF IInv
  <1> QED BY <1>1, Invariance, PTL

(***************************************************************************)
(* No record names a stranger: build_inode_pid_map reads what a descriptor *)
(* names now, so the process of a record has had that socket during the    *)
(* call, whatever was closed, passed on and reused before the table was    *)
(* read.                                                                   *)
(***************************************************************************)
THEOREM NoStranger == Spec => []OwnersHeldIt
  <1>1. IInv => OwnersHeldIt BY DEF IInv, HeldInv
  <1> QED BY <1>1, Invariance, PTL

(***************************************************************************)
(* append_record_for_owners writes one record for every observable process *)
(* that kept the socket all along, if no directory failed and the table    *)
(* did not change, whatever the other owners do.                           *)
(***************************************************************************)
THEOREM OwnedOnce == Spec => []EveryOwnerOnce
  <1>1. IInv => EveryOwnerOnce BY DEF IInv
  <1> QED BY <1>1, Invariance, PTL

(***************************************************************************)
(* read_proc_net_file drops no socket of a table that did not change, and  *)
(* connections() is not_supported only if the kernel has none of the       *)
(* tables.                                                                 *)
(***************************************************************************)
THEOREM Covered == Spec => []TablesCovered
  <1>1. IInv => TablesCovered BY DEF IInv
  <1> QED BY <1>1, Invariance, PTL
=============================================================================
