------------------------- MODULE BufferGrowthProofs -------------------------
(* Proofs about BufferGrowth, for every maximum, initial size and length. *)
EXTENDS BufferGrowth, FiniteSetTheorems, FunctionTheorems, TLAPS

(***************************************************************************)
(* The inductive invariant. seen and size describe the latest attempt only *)
(* once there has been one, so a call that has not returned has no result  *)
(* yet; this is what the two properties need in order to be preserved by   *)
(* the attempts that retry. A capped loop that has not returned has an     *)
(* attempt left.                                                           *)
(***************************************************************************)
IInv == /\ TypeOK
        /\ pc # "done" => result = NoResult /\ attempts < MaxAttempts
        /\ op = "none" <=> pc = "idle"
        /\ NeverTruncated
        /\ GivesUpOnlyAtMaximum

(***************************************************************************)
(* Growing a buffer below the maximum yields a larger one that is still no *)
(* larger than the maximum, although the maximum need not be a power-of-2  *)
(* multiple of the initial size.                                           *)
(***************************************************************************)
LEMMA GrownLarger ==
    ASSUME NEW s \in 1..Maximum, s < Maximum
    PROVE  Grown(s) \in 1..Maximum /\ Grown(s) > s
  BY GrowthAssumption DEF Grown

(* No call is under way at first: the invariant holds initially. *)
LEMMA InitInv == Init => IInv
  BY GrowthAssumption
  DEF Init, IInv, TypeOK, NeverTruncated, GivesUpOnlyAtMaximum, NoResult,
      ResultType, Absent, Ops, Sizing

(* An attempt that is told its buffer is too small keeps the invariant. *)
LEMMA TooSmallInv ==
    ASSUME IInv, pc = "attempt", op \notin Unlimited, TooSmall, need \in Lengths, need > size,
           seen' = need, UNCHANGED <<need, changes, op, attempts, first>>
    PROVE  IInv'
  <1>0. size \in 1..Maximum
    BY GrowthAssumption DEF IInv, TypeOK
  <1>1. CASE size < Maximum
    <2>1. size' = Grown(size) /\ UNCHANGED <<pc, result>>
      BY <1>1 DEF TooSmall, Retry
    <2>2. size' \in 1..Maximum
      BY <1>0, <1>1, <2>1, GrownLarger
    <2> QED
      BY <2>1, <2>2 DEF IInv, TypeOK, NeverTruncated, GivesUpOnlyAtMaximum, NoResult
  <1>2. CASE ~(size < Maximum)
    <2>1. size = Maximum /\ size' = size /\ pc' = "done" /\ result' = Fail("ERANGE")
      BY <1>0, <1>2, GrowthAssumption DEF TooSmall, Return
    <2>2. need \in Nat /\ need > Maximum
      BY <2>1, GrowthAssumption
    <2> QED
      BY <2>1, <2>2 DEF IInv, TypeOK, NeverTruncated, GivesUpOnlyAtMaximum,
                        Fail, ResultType, Absent
  <1> QED BY <1>1, <1>2

(* A call that returns r keeps the invariant if r is truthful. *)
LEMMA ReturnInv ==
    ASSUME IInv, pc \in {"sizing", "attempt"}, NEW r \in ResultType, Return(r),
           seen' = need, UNCHANGED <<need, changes, op, first>>,
           attempts' \in {attempts, attempts + 1},
           r.kind = "ok" => \/ r.length = need
                            \/ op \in {"groups", "mounts"} /\ need = Absent /\ r.length = 0,
           r.code = "ERANGE" => need > Maximum,
           r.code = "too_long" => need > Maximum \div 2,
           r.code = "value_too_large" =>
               IF op = "home" THEN need > size ELSE 2 * Count(need) + 1 > Maximum
    PROVE  IInv'
  <1>1. attempts' \in 0..MaxAttempts
    BY GrowthAssumption DEF IInv, TypeOK
  <1> QED
    BY <1>1 DEF IInv, TypeOK, NeverTruncated, GivesUpOnlyAtMaximum, Return, Count

(* An attempt of a capped loop that retries with a buffer of s entries, or   *)
(* gives up as the last one, keeps the invariant.                            *)
LEMMA AgainInv ==
    ASSUME IInv, pc = "attempt", NEW s \in Nat \ {0},
           NEW code \in {"temporarily_unavailable", "value_too_large"}, Again(s, code),
           seen' = need, UNCHANGED <<need, changes, op, first>>,
           attempts + 1 # MaxAttempts /\ op \notin Unlimited => s <= Maximum,
           code = "value_too_large" => op = "home" /\ need > size
    PROVE  IInv'
  <1>1. CASE attempts + 1 = MaxAttempts
    <2>1. Fail(code) \in ResultType BY DEF Fail, ResultType
    <2> QED BY <1>1, <2>1, ReturnInv DEF Again, Fail
  <1>2. CASE attempts + 1 # MaxAttempts
    <2>1. size' = s /\ attempts' = attempts + 1 /\ UNCHANGED <<pc, result>>
      BY <1>2 DEF Again, Retry
    <2>2. attempts' \in 0..MaxAttempts /\ attempts' < MaxAttempts
      BY <1>2, <2>1, GrowthAssumption DEF IInv, TypeOK
    <2> QED
      BY <1>2, <2>1, <2>2 DEF IInv, TypeOK, NeverTruncated, GivesUpOnlyAtMaximum, NoResult
  <1> QED BY <1>1, <1>2

(* So does a sizing call that is answered. *)
LEMMA SizedInv ==
    ASSUME IInv, NEW o \in Ops, NEW s \in Nat \ {0}, Sized(o, s),
           o \notin Unlimited => s <= Maximum
    PROVE  IInv'
  BY DEF Sized, IInv, TypeOK, NeverTruncated, GivesUpOnlyAtMaximum, NoResult, Ops, Sizing

(* The room asked for an estimate is never empty. *)
LEMMA PaddedPositive == ASSUME NEW e \in Nat PROVE Padded(e) \in Nat \ {0}
  BY GrowthAssumption DEF Padded

(* Every step of a loop, its caller or its environment keeps the invariant. *)
LEMMA NextInv == IInv /\ [Next]_vars => IInv'
  <1> SUFFICES ASSUME IInv, [Next]_vars PROVE IInv'
    OBVIOUS
  <1> USE GrowthAssumption
  <1>0. need \in Lengths \cup {Absent} /\ (need # Absent => need \in Nat)
    BY DEF IInv, TypeOK
  <1>1. ASSUME NEW o \in Ops, Begin(o) PROVE IInv'
    BY <1>1 DEF Begin, IInv, TypeOK, NeverTruncated, GivesUpOnlyAtMaximum, Ops, Sizing,
                counters, NoResult
  <1>2. ASSUME NEW o \in Ops, OtherFailure(o) PROVE IInv'
    <2>1. PICK code \in {"nullopt", "native"} : Return(Fail(code))
      BY <1>2 DEF OtherFailure, SizingRefused
    <2>2. Fail(code) \in ResultType BY DEF Fail, ResultType
    <2>3. pc \in {"sizing", "attempt"} /\ seen' = need /\ UNCHANGED <<need, changes, op, first>>
      BY <1>2 DEF OtherFailure, SizingRefused, Attempt, counters
    <2>4. attempts' = attempts
      BY <1>2 DEF OtherFailure, SizingRefused, counters
    <2> QED BY <2>1, <2>2, <2>3, <2>4, ReturnInv DEF Fail
  <1>3. CASE LookupPasswd
    <2>1. CASE need = Absent /\ Return(Fail("not_found"))
      <3>1. Fail("not_found") \in ResultType BY DEF Fail, ResultType
      <3> QED BY <1>3, <2>1, <3>1, ReturnInv DEF LookupPasswd, Attempt, Fail
    <2>2. CASE Exceeds /\ TooSmall
      BY <1>0, <1>3, <2>2, TooSmallInv DEF LookupPasswd, Attempt, Exceeds, Unlimited
    <2>3. CASE Fits /\ Return(Ok(need))
      <3>1. Ok(need) \in ResultType BY <1>0, <2>3 DEF Ok, ResultType, Fits
      <3> QED BY <1>3, <2>3, <3>1, ReturnInv DEF LookupPasswd, Attempt, Ok
    <2> QED BY <1>3, <2>1, <2>2, <2>3 DEF LookupPasswd
  <1>4. CASE CollectGroups
    <2>1. CASE need = Absent /\ Return(Ok(0))
      <3>1. Ok(0) \in ResultType BY DEF Ok, ResultType
      <3> QED BY <1>4, <2>1, <3>1, ReturnInv DEF CollectGroups, Attempt, Ok
    <2>2. CASE Exceeds /\ TooSmall
      BY <1>0, <1>4, <2>2, TooSmallInv DEF CollectGroups, Attempt, Exceeds, Unlimited
    <2>3. CASE Fits /\ Return(Ok(need))
      <3>1. Ok(need) \in ResultType BY <1>0, <2>3 DEF Ok, ResultType, Fits
      <3> QED BY <1>4, <2>3, <3>1, ReturnInv DEF CollectGroups, Attempt, Ok
    <2> QED BY <1>4, <2>1, <2>2, <2>3 DEF CollectGroups
  <1>5. CASE LookupLogin
    <2>1. CASE need = Absent /\ Return(Fail("not_found"))
      <3>1. Fail("not_found") \in ResultType BY DEF Fail, ResultType
      <3> QED BY <1>5, <2>1, <3>1, ReturnInv DEF LookupLogin, Attempt, Fail
    <2>2. CASE Exceeds /\ TooSmall
      BY <1>0, <1>5, <2>2, TooSmallInv DEF LookupLogin, Attempt, Exceeds, Unlimited
    <2>3. CASE Fits /\ Return(Ok(need))
      <3>1. Ok(need) \in ResultType BY <1>0, <2>3 DEF Ok, ResultType, Fits
      <3> QED BY <1>5, <2>3, <3>1, ReturnInv DEF LookupLogin, Attempt, Ok
    <2>4. CASE Fits /\ Return(Fail("malformed_data"))
      <3>1. Fail("malformed_data") \in ResultType BY DEF Fail, ResultType
      <3> QED BY <1>5, <2>4, <3>1, ReturnInv DEF LookupLogin, Attempt, Fail
    <2> QED BY <1>5, <2>1, <2>2, <2>3, <2>4 DEF LookupLogin
  <1>6. CASE ReadLink
    <2>1. CASE need = Absent
      <3>1. Return(Fail("nullopt")) BY <1>6, <2>1 DEF ReadLink
      <3>2. Fail("nullopt") \in ResultType BY DEF Fail, ResultType
      <3> QED BY <1>6, <3>1, <3>2, ReturnInv DEF ReadLink, Attempt, Fail
    <2>2. CASE need # Absent /\ need < size
      <3>1. Return(Ok(need)) BY <1>6, <2>2 DEF ReadLink, Min2
      <3>2. Ok(need) \in ResultType BY <1>0, <2>2 DEF Ok, ResultType
      <3> QED BY <1>6, <3>1, <3>2, ReturnInv DEF ReadLink, Attempt, Ok
    <2>3. CASE need # Absent /\ ~(need < size) /\ size > Maximum \div 2
      <3>1. Return(Fail("too_long"))
        BY <1>0, <1>6, <2>3 DEF ReadLink, Min2, IInv, TypeOK
      <3>2. Fail("too_long") \in ResultType BY DEF Fail, ResultType
      <3>3. need > Maximum \div 2 BY <1>0, <2>3 DEF IInv, TypeOK
      <3> QED BY <1>6, <3>1, <3>2, <3>3, ReturnInv DEF ReadLink, Attempt, Fail
    <2>4. CASE need # Absent /\ ~(need < size) /\ ~(size > Maximum \div 2)
      <3>1. size' = size * 2 /\ UNCHANGED <<pc, result>>
        BY <1>0, <1>6, <2>4 DEF ReadLink, Min2, Retry, IInv, TypeOK
      <3>2. size' \in 1..Maximum
        BY <2>4, <3>1 DEF IInv, TypeOK
      <3> QED
        BY <1>0, <1>6, <2>4, <3>1, <3>2
        DEF ReadLink, Attempt, IInv, TypeOK, NeverTruncated, GivesUpOnlyAtMaximum, NoResult
    <2> QED BY <2>1, <2>2, <2>3, <2>4
  <1>7. CASE Change
    BY <1>7 DEF Change, counters, IInv, TypeOK, NeverTruncated, GivesUpOnlyAtMaximum, NoResult
  <1>8. CASE TakeResult
    BY <1>8 DEF TakeResult, IInv, TypeOK, NeverTruncated, GivesUpOnlyAtMaximum,
                NoResult, ResultType, Ops
  <1>9. CASE UNCHANGED vars
    BY <1>9 DEF vars, IInv, TypeOK, NeverTruncated, GivesUpOnlyAtMaximum
  <1>10. Count(need) \in Nat /\ (Count(need) # 0 => Count(need) = need)
    BY <1>0 DEF Count
  <1>11. CASE SizeMounts
    <2>1. CASE Count(need) + 1 > Maximum
      <3>1. SizingRefused("mounts", "value_too_large") BY <1>11, <2>1 DEF SizeMounts
      <3>2. Fail("value_too_large") \in ResultType BY DEF Fail, ResultType
      <3>3. 2 * Count(need) + 1 > Maximum BY <1>10, <2>1
      <3> QED BY <3>1, <3>2, <3>3, ReturnInv DEF SizingRefused, Fail, counters
    <2>2. CASE ~(Count(need) + 1 > Maximum)
      <3>1. Sized("mounts", Count(need) + 1) BY <1>11, <2>2 DEF SizeMounts
      <3>2. "mounts" \in Ops /\ Count(need) + 1 \in Nat \ {0} /\ Count(need) + 1 <= Maximum
        BY <1>10, <2>2 DEF Ops, Sizing
      <3> QED BY <3>1, <3>2, SizedInv
    <2> QED BY <2>1, <2>2
  <1>12. CASE SizeProcs
    <2>1. CASE Count(need) = 0
      <3>1. SizingRefused("procs", "not_found") BY <1>12, <2>1 DEF SizeProcs
      <3>2. Fail("not_found") \in ResultType BY DEF Fail, ResultType
      <3> QED BY <3>1, <3>2, ReturnInv DEF SizingRefused, Fail, counters
    <2>2. CASE Count(need) # 0
      <3>1. Sized("procs", Padded(need)) BY <1>12, <2>2 DEF SizeProcs
      <3>2. "procs" \in Ops /\ Padded(need) \in Nat \ {0}
        BY <1>10, <2>2, PaddedPositive DEF Ops, Sizing
      <3> QED BY <3>1, <3>2, SizedInv DEF Unlimited
    <2> QED BY <2>1, <2>2
  <1>13. CASE FillMounts
    <2>0. size \in 1..Maximum /\ attempts \in Nat
      BY <1>13 DEF FillMounts, Attempt, IInv, TypeOK, Unlimited
    <2>1. CASE Count(need) < size
      <3>1. Return(Ok(Count(need))) /\ attempts' = attempts
        BY <1>13, <2>1 DEF FillMounts, Min2
      <3>2. Ok(Count(need)) \in ResultType BY <1>10 DEF Ok, ResultType
      <3>3. Count(need) = need \/ (need = Absent /\ Count(need) = 0) BY DEF Count
      <3> QED BY <1>13, <3>1, <3>2, <3>3, ReturnInv DEF FillMounts, Attempt, Ok
    <2>4. ~(Count(need) < size) => Min2(Count(need), size) = size
      BY <1>10, <2>0 DEF Min2
    <2>2. CASE ~(Count(need) < size) /\ size * 2 > Maximum /\ attempts + 1 # MaxAttempts
      <3>1. Return(Fail("value_too_large")) /\ attempts' = attempts + 1
        BY <1>13, <2>0, <2>2, <2>4 DEF FillMounts
      <3>2. Fail("value_too_large") \in ResultType BY DEF Fail, ResultType
      <3>3. 2 * Count(need) + 1 > Maximum BY <1>10, <2>0, <2>2
      <3> QED BY <1>13, <3>1, <3>2, <3>3, ReturnInv DEF FillMounts, Attempt, Fail
    <2>3. CASE ~(Count(need) < size) /\ ~(size * 2 > Maximum /\ attempts + 1 # MaxAttempts)
      <3>1. Again(size * 2, "temporarily_unavailable")
        BY <1>13, <2>0, <2>3, <2>4 DEF FillMounts
      <3>2. size * 2 \in Nat \ {0} /\ (attempts + 1 # MaxAttempts => size * 2 <= Maximum)
        BY <2>0, <2>3
      <3> QED BY <1>13, <3>1, <3>2, AgainInv DEF FillMounts, Attempt
    <2> QED BY <2>1, <2>2, <2>3
  <1>14. CASE FillProcs
    <2>0. size \in Nat \ {0} /\ op = "procs"
      BY <1>14 DEF FillProcs, Attempt, IInv, TypeOK
    <2>1. CASE Return(Fail("malformed_data")) /\ UNCHANGED attempts
      <3>1. Fail("malformed_data") \in ResultType BY DEF Fail, ResultType
      <3> QED BY <1>14, <2>1, <3>1, ReturnInv DEF FillProcs, Attempt, Fail
    <2>2. CASE Fits /\ Return(Ok(need)) /\ UNCHANGED attempts
      <3>1. Ok(need) \in ResultType BY <1>0, <2>2 DEF Ok, ResultType, Fits
      <3> QED BY <1>14, <2>2, <3>1, ReturnInv DEF FillProcs, Attempt, Ok
    <2>3. ASSUME Exceeds, NEW required \in {0, size, need},
                 Again(Padded(IF required > 0 THEN required ELSE size * 2),
                       "temporarily_unavailable")
          PROVE  IInv'
      <3>1. (IF required > 0 THEN required ELSE size * 2) \in Nat
        BY <1>0, <2>0, <2>3 DEF Exceeds
      <3>2. Padded(IF required > 0 THEN required ELSE size * 2) \in Nat \ {0}
        BY <3>1, PaddedPositive
      <3> QED BY <1>14, <2>0, <2>3, <3>2, AgainInv DEF FillProcs, Attempt, Unlimited
    <2> QED BY <1>14, <2>1, <2>2, <2>3 DEF FillProcs
  <1>15. CASE LookupHome
    <2>0. size \in Nat \ {0} /\ op = "home" /\ op \in Unlimited
      BY <1>15 DEF LookupHome, Attempt, IInv, TypeOK, Unlimited
    <2>1. CASE Return(Fail("nullopt")) /\ UNCHANGED attempts
      <3>1. Fail("nullopt") \in ResultType BY DEF Fail, ResultType
      <3> QED BY <1>15, <2>1, <3>1, ReturnInv DEF LookupHome, Attempt, Fail
    <2>2. CASE Fits /\ Return(Ok(need)) /\ UNCHANGED attempts
      <3>1. Ok(need) \in ResultType BY <1>0, <2>2 DEF Ok, ResultType, Fits
      <3> QED BY <1>15, <2>2, <3>1, ReturnInv DEF LookupHome, Attempt, Ok
    <2>3. CASE Exceeds /\ Again(size * 2, "value_too_large")
      <3>1. size * 2 \in Nat \ {0} BY <2>0
      <3>2. need > size BY <2>3 DEF Exceeds
      <3> QED BY <1>15, <2>0, <2>3, <3>1, <3>2, AgainInv DEF LookupHome, Attempt
    <2> QED BY <1>15, <2>1, <2>2, <2>3 DEF LookupHome
  <1> QED
    BY <1>1, <1>2, <1>3, <1>4, <1>5, <1>6, <1>7, <1>8, <1>9, <1>11, <1>12, <1>13, <1>14, <1>15
    DEF Next, Loop

(* The invariant holds in every reachable state of the loops. *)
THEOREM Invariance == Spec => []IInv
  BY InitInv, NextInv, PTL DEF Spec

(* The buffer never outgrows the maximum, and results are well formed. *)
THEOREM TypeCorrect == Spec => []TypeOK
  <1>1. IInv => TypeOK BY DEF IInv
  <1> QED BY <1>1, Invariance, PTL

(* No value is ever cut off at the size of the buffer. *)
THEOREM Whole == Spec => []NeverTruncated
  <1>1. IInv => NeverTruncated BY DEF IInv
  <1> QED BY <1>1, Invariance, PTL

(* The loops give up for want of room only at the largest buffer. *)
THEOREM GivesUp == Spec => []GivesUpOnlyAtMaximum
  <1>1. IInv => GivesUpOnlyAtMaximum BY DEF IInv
  <1> QED BY <1>1, Invariance, PTL

-----------------------------------------------------------------------------
(***************************************************************************)
(* How far a capped loop has come: each failed attempt has enlarged the    *)
(* buffer, in two of the loops doubled it, and as long as the table has    *)
(* not changed since the sizing call it fits.                              *)
(***************************************************************************)
GrowthInv ==
    /\ pc \in {"idle", "sizing"} => attempts = 0
    /\ pc = "attempt" /\ op \in Sizing =>
          /\ size >= first + attempts
          /\ op = "mounts" => size = first * 2^attempts
          /\ changes = 0 => Count(need) < size
    /\ pc = "attempt" /\ op = "home" => size = Initial["home"] * 2^attempts

GInv == IInv /\ GrowthInv /\ GivesUpOnlyIfOutgrown

(* Powers of two, as numbers of subsets. *)
LEMMA PowZero == 2^0 = 1
  <1>1. Cardinality(SUBSET {}) = 2^Cardinality({}) BY FS_EmptySet, FS_SUBSET
  <1>2. SUBSET {} = {{}} OBVIOUS
  <1>3. Cardinality({{}}) = 1 BY FS_Singleton
  <1> QED BY <1>1, <1>2, <1>3, FS_EmptySet

(* Half of the subsets of a set with one more element contain that element. *)
LEMMA PowNext ==
    ASSUME NEW n \in Nat
    PROVE  2^n \in Nat /\ 2^(n + 1) = 2 * 2^n
  <1> DEFINE S == 1..n
             x == n + 1
             A == SUBSET S
             B == {t \in SUBSET (S \cup {x}) : x \in t}
  <1>1. IsFiniteSet(S) /\ Cardinality(S) = n BY FS_Interval
  <1>2. x \notin S OBVIOUS
  <1> HIDE DEF x
  <1>3. IsFiniteSet(S \cup {x}) /\ Cardinality(S \cup {x}) = n + 1 BY <1>1, <1>2, FS_AddElement
  <1> HIDE DEF S
  <1>4. IsFiniteSet(A) /\ Cardinality(A) = 2^n BY <1>1, FS_SUBSET
  <1>5. Cardinality(SUBSET (S \cup {x})) = 2^(n + 1) BY <1>3, FS_SUBSET
  <1>6. SUBSET (S \cup {x}) = A \cup B BY Zenon
  <1>7. A \cap B = {} BY <1>2
  <1>8. ExistsBijection(A, B)
    <2> DEFINE f == [t \in A |-> t \cup {x}]
    <2>1. f \in [A -> B] OBVIOUS
    <2>2. \A s, t \in A : f[s] = f[t] => s = t BY <1>2
    <2>3. \A u \in B : \E t \in A : f[t] = u
      <3> SUFFICES ASSUME NEW u \in B PROVE \E t \in A : f[t] = u OBVIOUS
      <3>1. u \ {x} \in A OBVIOUS
      <3>2. f[u \ {x}] = u BY <3>1
      <3> QED BY <3>1, <3>2
    <2> HIDE DEF f
    <2>4. f \in Bijection(A, B) BY <2>1, <2>2, <2>3, Fun_IsBij
    <2> QED BY <2>4 DEF ExistsBijection
  <1>9. IsFiniteSet(B) /\ Cardinality(B) = 2^n BY <1>4, <1>8, FS_Bijection
  <1> HIDE DEF A, B
  <1>10. Cardinality(A \cup B) = 2^n + 2^n - 0 BY <1>4, <1>7, <1>9, FS_Union, FS_EmptySet
  <1>11. 2^n \in Nat BY <1>4, FS_CardinalityType
  <1>12. 2^(n + 1) = 2^n + 2^n - 0 BY <1>5, <1>6, <1>10
  <1>p. PICK w : w = 2^n OBVIOUS
  <1>13. w \in Nat /\ 2 * w = w + w - 0 BY <1>11, <1>p
  <1> QED BY <1>11, <1>12, <1>13, <1>p

(* The other answers claim nothing of the attempts. *)
LEMMA OtherAnswer ==
    ASSUME result'.code \notin {"temporarily_unavailable", "value_too_large"}
    PROVE  GivesUpOnlyIfOutgrown'
  BY DEF GivesUpOnlyIfOutgrown

LEMMA NoAnswerYet == ASSUME result' = NoResult PROVE GivesUpOnlyIfOutgrown'
  <1>1. NoResult.code = "none" BY DEF NoResult
  <1> QED BY <1>1, OtherAnswer

(***************************************************************************)
(* A failed attempt of a capped loop, whose buffer the table did not fit:  *)
(* the next buffer is larger, or this was the last attempt.                *)
(***************************************************************************)
LEMMA AgainGrowth ==
    ASSUME GInv, pc = "attempt", op \in Sizing \cup {"home"},
           NEW s \in Nat, s > size, op \in {"mounts", "home"} => s = size * 2,
           NEW code, Again(s, code), op \in Sizing => code = "temporarily_unavailable",
           op = "home" => code = "value_too_large",
           seen' = need, UNCHANGED <<need, changes, op, first>>, Count(need) >= size
    PROVE  GrowthInv' /\ GivesUpOnlyIfOutgrown'
  <1> USE GrowthAssumption
  <1>1. /\ attempts \in Nat /\ attempts < MaxAttempts /\ size \in Nat /\ first \in Nat
        /\ changes \in Nat /\ Count(need) \in Nat /\ Initial["home"] \in Nat
    <2>1. need \in Lengths \cup {Absent} BY DEF GInv, IInv, TypeOK
    <2>2. Count(need) \in Nat BY <2>1 DEF Count
    <2>3. Initial["home"] \in Nat BY DEF Ops, Sizing
    <2> QED BY <2>2, <2>3 DEF GInv, IInv, TypeOK
  <1>2. /\ op \in Sizing => size >= first + attempts /\ changes # 0
        /\ op = "mounts" => size = first * 2^attempts
        /\ op = "home" => size = Initial["home"] * 2^attempts
    BY <1>1 DEF GInv, GrowthInv, Sizing
  <1>3. op \in Sizing => op # "home" BY DEF Sizing
  <1>4. CASE attempts + 1 = MaxAttempts
    <2>1. /\ pc' = "done" /\ result' = Fail(code) /\ size' = size BY <1>4 DEF Again, Return
    <2>2. result'.code = code BY <2>1 DEF Fail
    <2>3. attempts = MaxAttempts - 1 BY <1>1, <1>4
    <2>4. GrowthInv' BY <2>1 DEF GrowthInv
    <2>5. CASE op \in Sizing
      <3>1. op = "mounts" => size >= first * 2^(MaxAttempts - 1)
        BY <1>1, <1>2, <2>3
      <3>2. size >= first /\ size >= first + (MaxAttempts - 1) BY <1>1, <1>2, <2>3, <2>5
      <3>3. size >= first * (IF op = "mounts" THEN 2^(MaxAttempts - 1) ELSE 1)
        <4>1. CASE op = "mounts" BY <3>1, <4>1
        <4>2. CASE op # "mounts" BY <1>1, <3>2, <4>2
        <4> QED BY <4>1, <4>2
      <3>4. Count(seen)' >= size' BY <2>1 DEF Count
      <3> QED BY <1>1, <1>2, <1>3, <2>1, <2>2, <2>4, <2>5, <3>2, <3>3, <3>4
          DEF GivesUpOnlyIfOutgrown
    <2>6. CASE op = "home"
      BY <1>2, <2>1, <2>2, <2>3, <2>4, <2>6 DEF GivesUpOnlyIfOutgrown
    <2> QED BY <2>5, <2>6
  <1>5. CASE attempts + 1 # MaxAttempts
    <2>1. /\ pc' = "attempt" /\ size' = s /\ attempts' = attempts + 1 /\ result' = result
      BY <1>5 DEF Again, Retry
    <2>2. result = NoResult BY DEF GInv, IInv
    <2>3. 2^attempts \in Nat /\ 2^(attempts + 1) = 2 * 2^attempts BY <1>1, PowNext
    <2>4. s >= first + (attempts + 1) \/ op \notin Sizing BY <1>1, <1>2
    <2>5. op = "mounts" => s = first * 2^(attempts + 1)
      <3>1. PICK w : w = 2^attempts OBVIOUS
      <3>2. op = "mounts" => s = (first * w) * 2 BY <1>2, <3>1
      <3>3. w \in Nat /\ (first * w) * 2 = first * (2 * w) BY <1>1, <2>3, <3>1
      <3> QED BY <2>3, <3>1, <3>2, <3>3
    <2>6. op = "home" => s = Initial["home"] * 2^(attempts + 1)
      <3>1. PICK w : w = 2^attempts OBVIOUS
      <3>2. op = "home" => s = (Initial["home"] * w) * 2 BY <1>2, <3>1
      <3>3. PICK i : i = Initial["home"] OBVIOUS
      <3>4. w \in Nat /\ (i * w) * 2 = i * (2 * w) BY <1>1, <2>3, <3>1, <3>3
      <3> QED BY <2>3, <3>1, <3>2, <3>3, <3>4
    <2>7. GrowthInv' BY <1>2, <1>3, <2>1, <2>4, <2>5, <2>6 DEF GrowthInv
    <2> QED BY <2>1, <2>2, <2>7, NoAnswerYet
  <1> QED BY <1>4, <1>5

(* The buffer of a sizing call has room for what the table has at that time. *)
LEMMA SizedGrowth ==
    ASSUME GInv, NEW o \in Sizing, NEW s \in Nat, Sized(o, s), s > Count(need)
    PROVE  GrowthInv' /\ GivesUpOnlyIfOutgrown'
  <1>1. /\ pc = "sizing" /\ op = o /\ pc' = "attempt" /\ size' = s /\ first' = s
        /\ need' = need /\ op' = op /\ attempts' = attempts /\ result' = result
    BY DEF Sized
  <1>2. attempts = 0 /\ result = NoResult BY <1>1 DEF GInv, GrowthInv, IInv
  <1>3. s >= s + 0 /\ s = s * 1 OBVIOUS
  <1>4. Count(need)' < size' BY <1>1 DEF Count
  <1>5. GrowthInv' BY <1>1, <1>2, <1>3, <1>4, PowZero DEF GrowthInv, Sizing
  <1> QED BY <1>1, <1>2, <1>5, NoAnswerYet

(* The uncapped loops: no other claim is made of them. *)
LEMMA UncappedGrowth ==
    ASSUME GInv, pc = "attempt", op \notin Sizing \cup {"home"}, op' = op,
           \/ pc' = pc /\ result' = result
           \/ pc' = "done" /\ result'.code \notin {"temporarily_unavailable", "value_too_large"}
    PROVE  GrowthInv' /\ GivesUpOnlyIfOutgrown'
  <1>1. result = NoResult BY DEF GInv, IInv
  <1>2. GrowthInv' BY DEF GrowthInv
  <1> QED BY <1>1, <1>2, NoAnswerYet, OtherAnswer

LEMMA EndGrowth ==
    ASSUME pc' = "done", result'.code \notin {"temporarily_unavailable", "value_too_large"}
    PROVE  GrowthInv' /\ GivesUpOnlyIfOutgrown'
  BY OtherAnswer DEF GrowthInv

LEMMA TooSmallGrowth ==
    ASSUME GInv, pc = "attempt", op \notin Sizing \cup {"home"}, op' = op, TooSmall
    PROVE  GrowthInv' /\ GivesUpOnlyIfOutgrown'
  <1>1. CASE size < Maximum BY <1>1, UncappedGrowth DEF TooSmall, Retry
  <1>2. CASE ~(size < Maximum)
    <2>1. pc' = "done" /\ result'.code = "ERANGE" BY <1>2 DEF TooSmall, Return, Fail
    <2> QED BY <2>1, EndGrowth
  <1> QED BY <1>1, <1>2

(* Every step keeps the account of the attempts. *)
LEMMA NextGrowth == GInv /\ [Next]_vars => GInv'
  <1> SUFFICES ASSUME GInv, [Next]_vars PROVE GrowthInv' /\ GivesUpOnlyIfOutgrown'
    BY NextInv DEF GInv
  <1> USE GrowthAssumption
  <1>0. /\ need \in Lengths \cup {Absent} /\ (need # Absent => need \in Nat)
        /\ Count(need) \in Nat /\ (Count(need) # 0 => Count(need) = need)
    BY DEF GInv, IInv, TypeOK, Count
  <1>a. \A n : Ok(n).code = "none" BY DEF Ok
  <1>b. \A code : Fail(code).code = code BY DEF Fail
  <1>1. ASSUME NEW o \in Ops, Begin(o) PROVE GrowthInv' /\ GivesUpOnlyIfOutgrown'
    <2>1. /\ pc = "idle" /\ pc' = (IF o \in Sizing THEN "sizing" ELSE "attempt") /\ op' = o
          /\ size' = Initial[o] /\ attempts' = attempts /\ result' = result
      BY <1>1 DEF Begin, counters
    <2>2. attempts = 0 /\ result = NoResult BY <2>1 DEF GInv, GrowthInv, IInv
    <2>3. Initial["home"] * 1 = Initial["home"] BY DEF Ops, Sizing
    <2>4. GrowthInv' BY <2>1, <2>2, <2>3, PowZero DEF GrowthInv
    <2> QED BY <2>1, <2>2, <2>4, NoAnswerYet
  <1>2. ASSUME NEW o \in Ops, OtherFailure(o) PROVE GrowthInv' /\ GivesUpOnlyIfOutgrown'
    <2>1. PICK code \in {"nullopt", "native"} : Return(Fail(code))
      BY <1>2 DEF OtherFailure, SizingRefused
    <2> QED BY <1>b, <2>1, EndGrowth DEF Return
  <1>3. CASE LookupPasswd
    <2>1. pc = "attempt" /\ op = "passwd" /\ op' = op BY <1>3 DEF LookupPasswd, Attempt
    <2>2. op \notin Sizing \cup {"home"} BY <2>1 DEF Sizing
    <2>3. CASE TooSmall BY <2>1, <2>2, <2>3, TooSmallGrowth
    <2>4. CASE Return(Fail("not_found")) \/ Return(Ok(need)) BY <1>a, <1>b, <2>4, EndGrowth DEF Return
    <2> QED BY <1>3, <2>3, <2>4 DEF LookupPasswd
  <1>4. CASE CollectGroups
    <2>1. pc = "attempt" /\ op = "groups" /\ op' = op BY <1>4 DEF CollectGroups, Attempt
    <2>2. op \notin Sizing \cup {"home"} BY <2>1 DEF Sizing
    <2>3. CASE TooSmall BY <2>1, <2>2, <2>3, TooSmallGrowth
    <2>4. CASE Return(Ok(0)) \/ Return(Ok(need)) BY <1>a, <2>4, EndGrowth DEF Return
    <2> QED BY <1>4, <2>3, <2>4 DEF CollectGroups
  <1>5. CASE LookupLogin
    <2>1. pc = "attempt" /\ op = "login" /\ op' = op BY <1>5 DEF LookupLogin, Attempt
    <2>2. op \notin Sizing \cup {"home"} BY <2>1 DEF Sizing
    <2>3. CASE TooSmall BY <2>1, <2>2, <2>3, TooSmallGrowth
    <2>4. CASE Return(Fail("not_found")) \/ Return(Fail("malformed_data")) \/ Return(Ok(need))
      BY <1>a, <1>b, <2>4, EndGrowth DEF Return
    <2> QED BY <1>5, <2>3, <2>4 DEF LookupLogin
  <1>6. CASE ReadLink
    <2>1. pc = "attempt" /\ op = "link" /\ op' = op BY <1>6 DEF ReadLink, Attempt
    <2>2. op \notin Sizing \cup {"home"} BY <2>1 DEF Sizing
    <2>3. CASE Retry(size * 2) BY <2>1, <2>2, <2>3, UncappedGrowth DEF Retry
    <2>4. CASE \/ Return(Fail("nullopt")) \/ Return(Fail("too_long"))
               \/ Return(Ok(Min2(need, size)))
      BY <1>a, <1>b, <2>4, EndGrowth DEF Return
    <2> QED BY <1>6, <2>3, <2>4 DEF ReadLink
  <1>7. CASE Change
    <2>1. /\ pc \in {"sizing", "attempt"} /\ changes' = changes + 1
          /\ op' = op /\ pc' = pc /\ size' = size /\ attempts' = attempts /\ first' = first
          /\ result' = result
      BY <1>7 DEF Change, counters
    <2>2. changes' # 0 /\ result = NoResult BY <2>1 DEF GInv, IInv, TypeOK
    <2>3. GrowthInv' BY <2>1, <2>2 DEF GInv, GrowthInv
    <2> QED BY <2>1, <2>2, <2>3, NoAnswerYet
  <1>8. CASE TakeResult
    <2>1. GrowthInv' BY <1>8 DEF TakeResult, GrowthInv
    <2> QED BY <1>8, <2>1, NoAnswerYet DEF TakeResult
  <1>9. CASE UNCHANGED vars
    BY <1>9 DEF vars, GInv, GrowthInv, GivesUpOnlyIfOutgrown, Count
  <1>10. CASE SizeMounts
    <2>1. CASE SizingRefused("mounts", "value_too_large")
      <3>1. pc' = "done" /\ op' = "mounts" /\ result'.code = "value_too_large"
        BY <1>b, <2>1 DEF SizingRefused, Return
      <3> QED BY <3>1 DEF GrowthInv, GivesUpOnlyIfOutgrown
    <2>2. CASE Sized("mounts", Count(need) + 1)
      <3>1. Count(need) + 1 \in Nat /\ Count(need) + 1 > Count(need) BY <1>0
      <3>2. "mounts" \in Sizing BY DEF Sizing
      <3> QED BY <2>2, <3>1, <3>2, SizedGrowth
    <2> QED BY <1>10, <2>1, <2>2 DEF SizeMounts
  <1>11. CASE SizeProcs
    <2>1. CASE SizingRefused("procs", "not_found") BY <1>b, <2>1, EndGrowth DEF SizingRefused, Return
    <2>2. CASE Count(need) # 0 /\ Sized("procs", Padded(need))
      <3>1. Padded(need) \in Nat /\ Padded(need) > Count(need) BY <1>0, <2>2 DEF Padded
      <3>2. "procs" \in Sizing BY DEF Sizing
      <3> QED BY <2>2, <3>1, <3>2, SizedGrowth
    <2> QED BY <1>11, <2>1, <2>2 DEF SizeProcs
  <1>12. size \in Nat \ {0} BY DEF GInv, IInv, TypeOK
  <1>13. CASE FillMounts
    <2>1. /\ pc = "attempt" /\ op = "mounts" /\ op \in Sizing /\ op # "home"
          /\ seen' = need /\ UNCHANGED <<need, changes, op, first>>
      BY <1>13 DEF FillMounts, Attempt, Sizing
    <2>2. CASE Return(Ok(Min2(Count(need), size))) BY <1>a, <2>2, EndGrowth DEF Return
    <2>3. CASE Return(Fail("value_too_large"))
      <3>1. pc' = "done" /\ op' # "home" /\ result'.code = "value_too_large"
        BY <1>b, <2>1, <2>3 DEF Return
      <3> QED BY <3>1 DEF GrowthInv, GivesUpOnlyIfOutgrown
    <2>4. CASE ~(Min2(Count(need), size) < size) /\ Again(size * 2, "temporarily_unavailable")
      <3>1. Count(need) >= size BY <1>0, <1>12, <2>4 DEF Min2
      <3>2. size * 2 \in Nat /\ size * 2 > size BY <1>12
      <3> QED BY <2>1, <2>4, <3>1, <3>2, AgainGrowth
    <2> QED BY <1>13, <2>2, <2>3, <2>4 DEF FillMounts
  <1>14. CASE FillProcs
    <2>1. /\ pc = "attempt" /\ op = "procs" /\ op \in Sizing /\ op \notin {"mounts", "home"}
          /\ seen' = need /\ UNCHANGED <<need, changes, op, first>>
      BY <1>14 DEF FillProcs, Attempt, Sizing
    <2>2. CASE Return(Fail("malformed_data")) \/ Return(Ok(need)) BY <1>a, <1>b, <2>2, EndGrowth DEF Return
    <2>3. ASSUME Exceeds, NEW required \in {0, size, need},
                 Again(Padded(IF required > 0 THEN required ELSE size * 2),
                       "temporarily_unavailable")
          PROVE  GrowthInv' /\ GivesUpOnlyIfOutgrown'
      <3>1. need \in Nat /\ need > size /\ Count(need) = need BY <1>0, <2>3 DEF Exceeds, Count
      <3>2. PICK e : e = IF required > 0 THEN required ELSE size * 2 OBVIOUS
      <3>3. e \in Nat /\ e >= size BY <1>12, <2>3, <3>1, <3>2
      <3>4. Padded(e) \in Nat /\ Padded(e) > size BY <1>12, <3>3 DEF Padded
      <3>5. Count(need) >= size BY <1>12, <3>1
      <3>6. Again(Padded(e), "temporarily_unavailable") BY <2>3, <3>2
      <3> HIDE DEF Padded
      <3> QED BY <2>1, <3>4, <3>5, <3>6, AgainGrowth
    <2> QED BY <1>14, <2>2, <2>3 DEF FillProcs
  <1>15. CASE LookupHome
    <2>1. /\ pc = "attempt" /\ op = "home" /\ op \notin Sizing
          /\ seen' = need /\ UNCHANGED <<need, changes, op, first>>
      BY <1>15 DEF LookupHome, Attempt, Sizing
    <2>2. CASE Return(Fail("nullopt")) \/ Return(Ok(need)) BY <1>a, <1>b, <2>2, EndGrowth DEF Return
    <2>3. CASE Exceeds /\ Again(size * 2, "value_too_large")
      <3>1. Count(need) >= size BY <1>0, <1>12, <2>3 DEF Exceeds, Count
      <3>2. size * 2 \in Nat /\ size * 2 > size BY <1>12
      <3> QED BY <2>1, <2>3, <3>1, <3>2, AgainGrowth
    <2> QED BY <1>15, <2>2, <2>3 DEF LookupHome
  <1> QED
    BY <1>1, <1>2, <1>3, <1>4, <1>5, <1>6, <1>7, <1>8, <1>9, <1>10, <1>11, <1>13, <1>14, <1>15
    DEF Next, Loop

(***************************************************************************)
(* mounts() and process_count() report temporarily_unavailable only if the *)
(* table changed and outgrew every one of their buffers; the home          *)
(* directory lookup gives up only after its last doubling.                 *)
(***************************************************************************)
THEOREM Outgrown == Spec => []GivesUpOnlyIfOutgrown
  <1>1. Init => GInv
    <2>1. Init => GrowthInv BY DEF Init, GrowthInv
    <2>2. Init => GivesUpOnlyIfOutgrown BY DEF Init, GivesUpOnlyIfOutgrown, NoResult
    <2> QED BY <2>1, <2>2, InitInv DEF GInv
  <1>2. GInv => GivesUpOnlyIfOutgrown BY DEF GInv
  <1> QED BY <1>1, <1>2, NextGrowth, PTL DEF Spec
=============================================================================
