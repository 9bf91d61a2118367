------------------------ MODULE CleanupPlannerProofs ------------------------
(***************************************************************************)
(* What holds of every plan, for every width, every set of results and     *)
(* every number of them: no cache twice, no avoidable shortfall, and       *)
(* totals that agree.                                                      *)
(***************************************************************************)
EXTENDS CleanupPlanner, FiniteSetTheorems, WellFoundedInduction, TLAPS

\* The strengthening: TakeAll's plan so far is a prefix of the candidates.
PlanInv ==
    /\ TypeOK /\ NoneTwice
    /\ pc = "collect" => candidates = <<>> /\ items = <<>>
    /\ pc = "all" => target = 0 /\ \A k \in 1..Len(items) : items[k] = k
    /\ pc = "choose" => target > 0
    /\ ShortfallIsReal
    /\ Balanced

-----------------------------------------------------------------------------
(* A set of numbers has a least one; so bestCandidate finds what there is. *)

LEMMA LeastNumber ==
    ASSUME NEW T \in SUBSET Nat, T # {}
    PROVE  \E m \in T : \A n \in T : m <= n
<1>1. PICK m \in T : \A n \in T : ~ (<<n, m>> \in OpToRel(<, Nat))
  BY NatLessThanWellFounded, WFMin
<1>2. ASSUME NEW n \in T PROVE m <= n
  <2>1. <<n, m>> \in Nat \X Nat
    OBVIOUS
  <2>2. ~ (n < m)
    BY <1>1, <2>1 DEF OpToRel
  <2> QED
    BY <2>2
<1> QED
  BY <1>2

\* The least value of a measure, and the first index that has it.
LEMMA FirstOfLeast ==
    ASSUME NEW S \in SUBSET Nat, S # {}, NEW m \in [S -> Nat]
    PROVE  \E i \in S : \A j \in S : m[i] < m[j] \/ (m[i] = m[j] /\ i <= j)
<1> DEFINE Values == {m[i] : i \in S}
<1>1. PICK v \in Values : \A w \in Values : v <= w
  <2>1. Values \in SUBSET Nat /\ Values # {}
    OBVIOUS
  <2> HIDE DEF Values
  <2> QED
    BY <2>1, LeastNumber
<1> DEFINE At == {i \in S : m[i] = v}
<1>2. At # {} /\ At \in SUBSET Nat
  BY <1>1
<1>3. PICK i \in At : \A j \in At : i <= j
  BY <1>2, LeastNumber
<1>4. ASSUME NEW j \in S PROVE m[i] < m[j] \/ (m[i] = m[j] /\ i <= j)
  BY <1>1, <1>3
<1> QED
  BY <1>3, <1>4

LEMMA CandidateFacts ==
    ASSUME TypeOK
    PROVE  /\ Left \subseteq 1..Len(candidates) /\ Len(candidates) \in Nat
           /\ \A i \in 1..Len(candidates) : candidates[i] \in PlanItem /\ Bytes(i) \in 0..MaxUint
<1>1. candidates \in Seq(PlanItem) /\ Left \subseteq 1..Len(candidates)
  BY DEF TypeOK, Left
<1>2. \A i \in 1..Len(candidates) : candidates[i] \in PlanItem
  BY <1>1
<1> QED
  BY <1>1, <1>2 DEF Bytes, PlanItem

LEMMA BestFacts ==
    ASSUME TypeOK, NEW remaining \in Nat, BestCandidate(remaining) = {}
    PROVE  \A i \in Left : Bytes(i) > remaining /\ Bytes(i) = MaxUint
<1>1. Left \in SUBSET Nat /\ \A i \in Left : i \in 1..Len(candidates) /\ Bytes(i) \in 0..MaxUint
  BY CandidateFacts
<1>2. MaxUint \in Nat
  BY PlannerAssumption DEF MaxUint
<1>3. \A i \in Left : Bytes(i) > remaining
  <2>1. SUFFICES ASSUME \E i \in Left : Bytes(i) <= remaining PROVE FALSE
    BY <1>1
  <2> DEFINE S == {Len(candidates) - i : i \in {k \in Left : Bytes(k) <= remaining}}
             m == [n \in S |-> remaining - Bytes(Len(candidates) - n)]
  <2>2. Len(candidates) \in Nat
    BY DEF TypeOK
  <2>3. S \in SUBSET Nat /\ S # {} /\ m \in [S -> Nat]
    BY <1>1, <1>2, <2>1, <2>2
  <2>4. PICK n \in S : \A l \in S : m[n] < m[l] \/ (m[n] = m[l] /\ n <= l)
    BY <2>3, FirstOfLeast
  <2>5. PICK i \in Left : Bytes(i) <= remaining /\ n = Len(candidates) - i
    BY <2>4
  <2>6. ASSUME NEW j \in Left, Bytes(j) <= remaining
        PROVE  Bytes(j) < Bytes(i) \/ (Bytes(j) = Bytes(i) /\ j <= i)
    <3> DEFINE l == Len(candidates) - j
    <3>1. l \in S /\ Len(candidates) - l = j /\ Len(candidates) - n = i
      BY <1>1, <2>2, <2>5, <2>6
    <3>2. m[l] = remaining - Bytes(j) /\ m[n] = remaining - Bytes(i)
      BY <2>4, <3>1
    <3>3. m[n] < m[l] \/ (m[n] = m[l] /\ n <= l)
      BY <2>4, <3>1
    <3> HIDE DEF m
    <3> QED
      BY <1>1, <1>2, <2>2, <2>5, <3>2, <3>3
  <2>7. i \in BestFit(remaining)
    BY <2>5, <2>6 DEF BestFit
  <2> QED
    BY <2>1, <2>7 DEF BestCandidate
<1>4. \A i \in Left : Bytes(i) = MaxUint
  <2>1. SUFFICES ASSUME \E i \in Left : Bytes(i) # MaxUint PROVE FALSE
    OBVIOUS
  <2> DEFINE m == [i \in Left |-> Bytes(i)]
  <2>2. PICK i \in Left : \A j \in Left : m[i] < m[j] \/ (m[i] = m[j] /\ i <= j)
    <3>1. m \in [Left -> Nat] /\ Left # {}
      BY <1>1, <1>2, <2>1
    <3> HIDE DEF m
    <3> QED
      BY <1>1, <3>1, FirstOfLeast
  <2>3. \A j \in Left : Bytes(i) < Bytes(j) \/ (Bytes(i) = Bytes(j) /\ i <= j)
    BY <2>2
  <2>4. Bytes(i) < MaxUint
    BY <1>1, <1>2, <2>1, <2>3
  <2>5. i \in LeastExcess(remaining)
    BY <1>1, <1>3, <2>3, <2>4 DEF LeastExcess
  <2> QED
    BY <1>1, <1>3, <2>5 DEF BestCandidate
<1> QED
  BY <1>3, <1>4

-----------------------------------------------------------------------------
(* Sums of words. *)

LEMMA PlusFacts ==
    ASSUME NEW a \in 0..MaxUint, NEW b \in 0..MaxUint
    PROVE  /\ Plus(a, b) \in 0..MaxUint
           /\ Plus(a, b) >= a => Plus(a, b) = a + b
BY PlannerAssumption DEF Plus, MaxUint

LEMMA PlusGroups ==
    ASSUME NEW a \in 0..MaxUint, NEW b \in 0..MaxUint, NEW c \in 0..MaxUint
    PROVE  /\ Plus(Plus(a, b), c) = Plus(Plus(a, c), b)
           /\ Plus(Plus(a, b), c) = Plus(a, Plus(b, c))
BY PlannerAssumption DEF Plus, MaxUint

LEMMA PlanItems ==
    ASSUME NEW r \in ScanResult
    PROVE  Item(r) \in PlanItem
<1>1. CleanupPriority(r) \in Nat
  BY DEF CleanupPriority
<1>2. r.name \in Nat /\ r.bytes \in 0..MaxUint /\ IsCleanupSafe(r) \in BOOLEAN
  BY DEF ScanResult, MaxUint, IsCleanupSafe
<1> QED
  BY <1>1, <1>2 DEF Item, PlanItem

-----------------------------------------------------------------------------
(* The steps *)

LEMMA PlanInit == Init => PlanInv
<1> SUFFICES ASSUME Init PROVE PlanInv
  OBVIOUS
<1>1. TypeOK
  <2>1. results \in Seq(Result)
    <3>1. PICK n \in 0..MaxResults : results \in [1..n -> Result]
      BY DEF Init
    <3>2. n \in Nat
      BY PlannerAssumption
    <3> QED
      BY <3>1, <3>2
  <2>3. candidates \in Seq(PlanItem) /\ items \in Seq(1..Len(candidates))
    BY DEF Init
  <2>2. 0 \in 0..MaxUint
    BY PlannerAssumption DEF MaxUint
  <2> QED
    BY <2>1, <2>2, <2>3 DEF Init, TypeOK
<1>2. Plus(0, 0) = 0
  BY PlannerAssumption DEF Plus
<1> QED
  BY <1>1, <1>2 DEF Init, PlanInv, NoneTwice, ShortfallIsReal, Balanced, TypeOK

LEMMA CollectStep ==
    ASSUME PlanInv, Collect
    PROVE  PlanInv'
<1> DEFINE kept == {i \in 1..Len(results) : Matches(results[i])}
<1>1. PICK order \in [1..Cardinality(kept) -> kept] :
          candidates' = [i \in 1..Cardinality(kept) |-> Item(results[order[i]])]
  BY DEF Collect
<1>2. Cardinality(kept) \in Nat
  <2>1. Len(results) \in Nat
    BY DEF PlanInv, TypeOK
  <2> QED
    <3>1. IsFiniteSet(1..Len(results))
      BY <2>1, FS_Interval
    <3>2. IsFiniteSet(kept)
      BY <3>1, FS_Subset
    <3> QED
      BY <3>2, FS_CardinalityType
<1>3. candidates' \in Seq(PlanItem)
  <2>1. \A i \in 1..Cardinality(kept) : results[order[i]] \in ScanResult
    <3>1. results \in Seq(Result) /\ Result \subseteq ScanResult
      BY PlannerAssumption DEF PlanInv, TypeOK
    <3>2. \A j \in 1..Len(results) : results[j] \in ScanResult
      BY <3>1
    <3> QED
      BY <3>2
  <2>2. \A i \in 1..Cardinality(kept) : Item(results[order[i]]) \in PlanItem
    BY <2>1, PlanItems
  <2> HIDE DEF kept
  <2> QED
    BY <1>1, <1>2, <2>2
<1>4. UNCHANGED <<input, items, totals, targetReached>> /\ items = <<>> /\ candidates = <<>>
  BY DEF Collect, PlanInv
<1>5. TypeOK'
  BY <1>3, <1>4 DEF PlanInv, TypeOK, Collect, input, totals
<1> QED
  BY <1>4, <1>5 DEF PlanInv, TypeOK, NoneTwice, ShortfallIsReal, Balanced, Collect, input, totals

\* What a pass of either loop preserves, whichever candidate it takes.
LEMMA ChooseFacts ==
    ASSUME PlanInv, pc # "done", NEW i \in Left, Choose(i)
    PROVE  /\ TypeOK' /\ NoneTwice' /\ Balanced'
<1> DEFINE n == Len(items)
<1>1. /\ items \in Seq(1..Len(candidates)) /\ n \in Nat /\ items' = Append(items, i)
      /\ candidates' = candidates /\ candidates \in Seq(PlanItem)
  BY DEF Choose, PlanInv, TypeOK
<1>2. i \in 1..Len(candidates) /\ \A k \in 1..n : items[k] # i
  BY DEF Left
<1>3. /\ items' \in Seq(1..Len(candidates)) /\ Len(items') = n + 1 /\ items'[n + 1] = i
      /\ \A k \in 1..n : items'[k] = items[k]
  BY <1>1, <1>2
<1>4. candidates[i] \in PlanItem /\ Bytes(i) \in 0..MaxUint
  BY <1>2, CandidateFacts DEF PlanInv
<1>5. TypeOK' /\ Balanced'
  <2>1. /\ plannedBytes' \in 0..MaxUint /\ safeBytes' \in 0..MaxUint /\ unsafeBytes' \in 0..MaxUint
        /\ plannedBytes' = Plus(safeBytes', unsafeBytes')
    <3>1. /\ plannedBytes \in 0..MaxUint /\ safeBytes \in 0..MaxUint /\ unsafeBytes \in 0..MaxUint
          /\ plannedBytes = Plus(safeBytes, unsafeBytes)
      BY DEF PlanInv, TypeOK, Balanced
    <3>2. plannedBytes' = Plus(plannedBytes, Bytes(i))
      BY DEF Choose
    <3>3. CASE candidates[i].safe
      <4>1. safeBytes' = Plus(safeBytes, Bytes(i)) /\ unsafeBytes' = unsafeBytes
        BY <3>3 DEF Choose
      <4> QED
        BY <1>4, <3>1, <3>2, <4>1, PlusFacts, PlusGroups
    <3>4. CASE ~candidates[i].safe
      <4>1. unsafeBytes' = Plus(unsafeBytes, Bytes(i)) /\ safeBytes' = safeBytes
        BY <3>4 DEF Choose
      <4> QED
        BY <1>4, <3>1, <3>2, <4>1, PlusFacts, PlusGroups
    <3> QED
      BY <3>3, <3>4
  <2> QED
    BY <1>1, <1>3, <2>1 DEF PlanInv, TypeOK, Balanced, Choose, input
<1>6. NoneTwice'
  BY <1>1, <1>2, <1>3 DEF PlanInv, NoneTwice
<1> QED
  BY <1>5, <1>6

LEMMA TakeAllStep ==
    ASSUME PlanInv, TakeAll
    PROVE  PlanInv'
<1>1. /\ pc = "all" /\ target = 0 /\ Len(items) < Len(candidates)
      /\ Choose(Len(items) + 1) /\ \A k \in 1..Len(items) : items[k] = k
      /\ items \in Seq(1..Len(candidates))
  BY DEF TakeAll, PlanInv, TypeOK
<1>2. Len(items) + 1 \in Left
  BY <1>1 DEF Left, PlanInv, TypeOK
<1>3. TypeOK' /\ NoneTwice' /\ Balanced'
  BY <1>1, <1>2, ChooseFacts
<1>4. \A k \in 1..Len(items') : items'[k] = k
  BY <1>1 DEF Choose
<1> QED
  BY <1>1, <1>3, <1>4 DEF PlanInv, ShortfallIsReal, Choose, input

LEMMA TakeBestStep ==
    ASSUME PlanInv, TakeBest
    PROVE  PlanInv'
<1>1. PICK i \in BestCandidate(target - plannedBytes) : Choose(i)
  BY DEF TakeBest
<1>2. /\ pc = "choose" /\ target > 0 /\ plannedBytes < target
      /\ target \in 0..MaxUint /\ plannedBytes \in 0..MaxUint
  BY DEF TakeBest, Short, PlanInv, TypeOK
<1>3. i \in Left
  BY <1>1 DEF BestCandidate, BestFit, LeastExcess
<1>4. /\ TypeOK' /\ NoneTwice' /\ Balanced'
  BY <1>1, <1>2, <1>3, ChooseFacts
<1>5. pc' = pc /\ target' = target /\ plannedBytes' = Plus(plannedBytes, Bytes(i))
  BY <1>1 DEF Choose, input
<1> QED
  BY <1>2, <1>4, <1>5 DEF PlanInv, ShortfallIsReal

LEMMA FinishStep ==
    ASSUME PlanInv, Finish
    PROVE  PlanInv'
<1>1. UNCHANGED <<input, candidates, items, totals>> /\ pc' = "done"
  BY DEF Finish
<1>2. Left' = Left /\ \A i \in Left : Bytes(i)' = Bytes(i)
  BY <1>1 DEF Left, Bytes
<1>4. TypeOK' /\ NoneTwice' /\ Balanced'
  <2>1. targetReached' = (plannedBytes >= target) /\ targetReached' \in BOOLEAN
    BY DEF Finish
  <2>2. /\ results' = results /\ target' = target /\ safeOnly' = safeOnly
        /\ plannedBytes' = plannedBytes /\ safeBytes' = safeBytes /\ unsafeBytes' = unsafeBytes
    BY <1>1 DEF input, totals
  <2> QED
    <3>1. TypeOK'
      BY <1>1, <2>1, <2>2 DEF PlanInv, TypeOK
    <3>2. NoneTwice'
      BY <1>1 DEF PlanInv, NoneTwice
    <3>3. plannedBytes' = Plus(safeBytes', unsafeBytes')
      BY <2>2 DEF PlanInv, Balanced
    <3>4. targetReached' <=> plannedBytes' >= target'
      BY <2>1, <2>2
    <3> QED
      BY <3>1, <3>2, <3>3, <3>4 DEF Balanced
<1>5. ShortfallIsReal'
  <2>1. SUFFICES ASSUME plannedBytes < target PROVE \A i \in Left : Bytes(i) = MaxUint
    BY <1>1, <1>2 DEF ShortfallIsReal, input, totals
  <2>2. target - plannedBytes \in Nat /\ TypeOK
    BY <2>1 DEF PlanInv, TypeOK
  <2>3. CASE pc = "choose"
    BY <2>1, <2>2, <2>3, BestFacts DEF Finish, Short
  <2>4. CASE pc = "all"
    BY <2>1, <2>2, <2>4 DEF PlanInv, TypeOK
  <2> QED
    BY <2>3, <2>4 DEF Finish
<1> QED
  BY <1>1, <1>2, <1>4, <1>5 DEF PlanInv, Bytes, input, totals

LEMMA PlanStep == PlanInv /\ [Next]_vars => PlanInv'
<1> SUFFICES ASSUME PlanInv, [Next]_vars PROVE PlanInv'
  OBVIOUS
<1>1. CASE UNCHANGED vars
  <2>1. Left' = Left /\ \A i \in Left : Bytes(i)' = Bytes(i)
    BY <1>1 DEF vars, Left, Bytes
  <2> QED
    BY <1>1, <2>1 DEF vars, input, totals, PlanInv, TypeOK, NoneTwice, ShortfallIsReal, Balanced, Bytes
<1> QED
  BY <1>1, CollectStep, TakeAllStep, TakeBestStep, FinishStep DEF Next

-----------------------------------------------------------------------------
(* The theorems *)

THEOREM PlanCorrect == Spec => []PlanInv
BY PlanInit, PlanStep, PTL DEF Spec

\* buildCleanupPlan plans no cache twice.
THEOREM NoneTwiceCorrect == Spec => []NoneTwice
<1>1. PlanInv => NoneTwice
  BY DEF PlanInv
<1> QED
  BY PlanCorrect, <1>1, PTL

\* A plan falls short only when nothing is left that the loop could add.
THEOREM ShortfallCorrect == Spec => []ShortfallIsReal
<1>1. PlanInv => ShortfallIsReal
  BY DEF PlanInv
<1> QED
  BY PlanCorrect, <1>1, PTL

\* The plan's totals agree, also when they wrap around.
THEOREM BalanceCorrect == Spec => []Balanced
<1>1. PlanInv => Balanced
  BY DEF PlanInv
<1> QED
  BY PlanCorrect, <1>1, PTL
=============================================================================
