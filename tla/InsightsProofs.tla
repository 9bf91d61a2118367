--------------------------- MODULE InsightsProofs ---------------------------
(***************************************************************************)
(* What the score, the recommendations, the budget, the projection and the *)
(* policies promise for all sizes, ages and histories.  The case distinctions are linear in the bytes of a          *)
(* megabyte, so each lemma is a matter of arithmetic.                      *)
(***************************************************************************)
EXTENDS StorageModels, TLAPS

\* More bytes never cost less.
LEMMA TotalPenaltyGrows ==
    ASSUME MB \in Nat \ {0}, NEW a \in Nat, NEW b \in Nat, a <= b
    PROVE  /\ PenaltyForTotalBytes(a) \in 0..40
           /\ PenaltyForTotalBytes(a) <= PenaltyForTotalBytes(b)
BY DEF PenaltyForTotalBytes, TB, GB

\* More growth never costs less, and a cache that shrinks costs nothing.
LEMMA GrowthPenaltyGrows ==
    ASSUME MB \in Nat \ {0}, NEW a \in Int, NEW b \in Int, a <= b
    PROVE  /\ PenaltyForGrowth(a) \in 0..20
           /\ PenaltyForGrowth(a) <= PenaltyForGrowth(b)
           /\ a <= 0 => PenaltyForGrowth(a) = 0
BY DEF PenaltyForGrowth, GB

\* The penalties of a summary are between 0 and 105, and grow with each part.
LEMMA PenaltyGrows ==
    ASSUME MB \in Nat \ {0}, NEW s \in SummaryType, NEW t \in SummaryType,
           s.warnings <= t.warnings, s.active <= t.active, s.total <= t.total,
           s.ages <= t.ages, s.growth <= t.growth
    PROVE  Penalty(s) \in 0..105 /\ Penalty(s) <= Penalty(t)
<1> DEFINE w1 == Least(20, s.warnings * 4)
<1> DEFINE w2 == Least(20, t.warnings * 4)
<1> DEFINE a1 == Least(10, s.active * 2)
<1> DEFINE a2 == Least(10, t.active * 2)
<1> DEFINE p1 == PenaltyForTotalBytes(s.total)
<1> DEFINE p2 == PenaltyForTotalBytes(t.total)
<1> DEFINE g1 == PenaltyForGrowth(s.growth)
<1> DEFINE g2 == PenaltyForGrowth(t.growth)
<1> DEFINE o1 == Least(15, s.ages)
<1> DEFINE o2 == Least(15, t.ages)
<1>1. w1 \in 0..20 /\ w2 \in 0..20 /\ w1 <= w2
  BY DEF SummaryType, Least
<1>2. a1 \in 0..10 /\ a2 \in 0..10 /\ a1 <= a2
  BY DEF SummaryType, Least
<1>3. p1 \in 0..40 /\ p2 \in 0..40 /\ p1 <= p2
  BY TotalPenaltyGrows DEF SummaryType
<1>4. g1 \in 0..20 /\ g2 \in 0..20 /\ g1 <= g2
  BY GrowthPenaltyGrows DEF SummaryType
<1>5. o1 \in 0..15 /\ o2 \in 0..15 /\ o1 <= o2
  BY DEF SummaryType, Least
<1>6. Penalty(s) = w1 + a1 + p1 + g1 + o1 /\ Penalty(t) = w2 + a2 + p2 + g2 + o2
  BY DEF Penalty
<1> HIDE DEF w1, w2, a1, a2, p1, p2, g1, g2, o1, o2
<1> QED
  BY <1>1, <1>2, <1>3, <1>4, <1>5, <1>6

\* The health score is a percentage, whatever was found (CacheInsights.cpp:200).
THEOREM ScoreIsPercentage ==
    ASSUME MB \in Nat \ {0}, NEW s \in SummaryType
    PROVE  HealthScore(s) \in 0..100
<1>1. Penalty(s) \in Int
  BY PenaltyGrows DEF SummaryType
<1> QED
  BY <1>1 DEF HealthScore, Clamp, Least, SummaryType

\* A scan that is worse in some respects and better in none never scores
\* higher: each pressure counts against the health, up to its limit, and the
\* bonus for shrinking goes the same way (CacheInsights.cpp:188-200).
THEOREM ScoreFalls ==
    ASSUME MB \in Nat \ {0}, NEW s \in SummaryType, NEW t \in SummaryType,
           s.found <= t.found, s.warnings <= t.warnings, s.active <= t.active,
           s.total <= t.total, s.ages <= t.ages, s.growth <= t.growth
    PROVE  HealthScore(t) <= HealthScore(s)
<1>1. Penalty(s) \in 0..105 /\ Penalty(t) \in 0..105 /\ Penalty(s) <= Penalty(t)
  BY PenaltyGrows DEF SummaryType
<1>2. s.found \in Nat /\ t.found \in Nat /\ s.growth \in Int /\ t.growth \in Int
  BY DEF SummaryType
<1> QED
  BY <1>1, <1>2 DEF HealthScore, Clamp, Least

\* A recommendation is marked safe exactly when the cleanup policy calls the
\* cache safe, also where the code writes false: a cache with warnings or an
\* active tool is never among the safe ones (CacheInsights.cpp:118-131).
THEOREM SafeAdviceIsSafe ==
    ASSUME NEW r \in ScanResult, Priority(r) # 0
    PROVE  MarkedSafe(r) <=> IsCleanupSafe(r)
<1>1. Priority(r) \in {100, 95, 85, 70, 60, 55, 50}
  BY DEF Priority
<1>2. Priority(r) = 100 => IsCleanupSafe(r)
  BY DEF Priority
<1>3. Priority(r) = 70 => r.warnings # 0
  BY DEF Priority, ScanResult
<1>4. Priority(r) = 60 => r.active
  BY DEF Priority
<1>5. Priority(r) \in {70, 60} => ~IsCleanupSafe(r)
  BY <1>3, <1>4 DEF IsCleanupSafe
<1> QED
  BY <1>1, <1>2, <1>5 DEF MarkedSafe

\* More bytes, growth or age never lower the priority of a cache: the tests are
\* in the order of their priorities, and no test fails for a larger value.
THEOREM AdviceGrows ==
    ASSUME MB \in Nat \ {0}, NEW r \in ScanResult, NEW bytes \in Nat, NEW growth \in Int,
           NEW age \in Int, r.bytes <= bytes, r.growth <= growth, r.age <= age
    PROVE  LET grown == [r EXCEPT !.bytes = bytes, !.growth = growth, !.age = age]
           IN  Priority(r) <= Priority(grown)
<1> DEFINE grown == [r EXCEPT !.bytes = bytes, !.growth = growth, !.age = age]
<1>1. /\ grown.usable = r.usable /\ grown.active = r.active
      /\ grown.warnings = r.warnings /\ grown.protected = r.protected
      /\ grown.bytes = bytes /\ grown.growth = growth /\ grown.age = age
  BY DEF ScanResult
<1>2. IsCleanupSafe(grown) <=> IsCleanupSafe(r)
  BY <1>1 DEF IsCleanupSafe
<1>3. AgeDays(r) \in Nat /\ AgeDays(grown) \in Nat /\ AgeDays(r) <= AgeDays(grown)
  BY <1>1 DEF AgeDays, ScanResult
<1>4. r.bytes \in Nat /\ r.growth \in Int /\ r.warnings \in Nat
  BY DEF ScanResult
<1> HIDE DEF grown
<1>5. Priority(r) <= Priority(grown)
  BY <1>1, <1>2, <1>3, <1>4 DEF Priority, GB
<1> QED
  BY <1>5 DEF grown

\* The list's order is a strict order: no two recommendations come before each
\* other, and the sort never meets a cycle.
THEOREM OrderIsStrict ==
    ASSUME MB \in Nat \ {0}, NEW a \in ScanResult, NEW b \in ScanResult, NEW c \in ScanResult
    PROVE  /\ ~(ComesBefore(a, b) /\ ComesBefore(b, a))
           /\ ComesBefore(a, b) /\ ComesBefore(b, c) => ComesBefore(a, c)
<1>1. /\ Priority(a) \in Nat /\ Priority(b) \in Nat
      /\ Priority(c) \in Nat
  BY DEF Priority
<1> QED
  BY <1>1 DEF ComesBefore, ScanResult

-----------------------------------------------------------------------------
(* StorageModels *)

\* A budget does not contradict itself: a limit can be met exactly when there
\* is no shortfall and the projection is within it; a budget within its limit
\* needs nothing; there is never headroom and a shortfall at once; and with a
\* limit the savings are what is reclaimable (StorageBudget.cpp:28-32, 81-126).
THEOREM BudgetIsCoherent ==
    ASSUME NEW limit \in Nat, NEW current \in Nat, NEW reclaimable \in Nat,
           NEW b, b = CalculateStorageBudget(limit, current, reclaimable)
    PROVE  /\ CanMeetLimit(b) <=> ~HasShortfall(b)
           /\ limit # 0 => (CanMeetLimit(b) <=> b.projected <= limit)
           /\ WithinLimit(b) <=> ~NeedsReclaim(b)
           /\ Exceeded(b) <=> NeedsReclaim(b)
           /\ ~(HasHeadroom(b) /\ HasShortfall(b))
           /\ limit # 0 => SavingsBytes(b) = b.reclaimable
           /\ FullyReclaimable(b) /\ limit # 0 => b.projected = 0 /\ CanMeetLimit(b)
<1>1. /\ b.limit = limit /\ b.current = current /\ b.reclaimable = Least(reclaimable, current)
      /\ b.projected = IF limit = 0 THEN current ELSE current - Least(reclaimable, current)
      /\ b.headroom = IF limit # 0 /\ b.projected < limit THEN limit - b.projected ELSE 0
      /\ b.required = IF limit # 0 /\ current > limit THEN current - limit ELSE 0
  BY DEF CalculateStorageBudget
<1>2. Least(reclaimable, current) \in Nat /\ Least(reclaimable, current) <= current
  BY DEF Least
<1> QED
  BY <1>1, <1>2 DEF CanMeetLimit, HasShortfall, WithinLimit, NeedsReclaim, Exceeded, HasHeadroom,
                    SavingsBytes, FullyReclaimable

\* The ratios agree with the predicates: a usage is at most 1 within the limit,
\* what is projected is at most 1 when the limit can be met, the coverage is 1
\* exactly then, and savings are 1 when everything goes (StorageBudget.cpp:51-91).
THEOREM RatiosAgree ==
    ASSUME NEW limit \in Nat, NEW current \in Nat, NEW reclaimable \in Nat,
           NEW b, b = CalculateStorageBudget(limit, current, reclaimable)
    PROVE  /\ Usage(b)[1] <= Usage(b)[2] <=> WithinLimit(b)
           /\ ProjectedUsage(b)[1] <= ProjectedUsage(b)[2] <=> CanMeetLimit(b)
           /\ ReclaimCoverage(b)[1] = ReclaimCoverage(b)[2] <=> CanMeetLimit(b)
           /\ HeadroomRatio(b)[1] <= HeadroomRatio(b)[2]
           /\ HasReclaimableData(b) /\ limit # 0 <=> SavingsRatio(b)[1] > 0
           /\ SavingsRatio(b)[1] = SavingsRatio(b)[2] <=> limit # 0 /\ FullyReclaimable(b)
<1>1. /\ b.limit = limit /\ b.current = current /\ b.reclaimable = Least(reclaimable, current)
      /\ b.projected = IF limit = 0 THEN current ELSE current - Least(reclaimable, current)
      /\ b.headroom = IF limit # 0 /\ b.projected < limit THEN limit - b.projected ELSE 0
      /\ b.required = IF limit # 0 /\ current > limit THEN current - limit ELSE 0
  BY DEF CalculateStorageBudget
<1>2. Usage(b)[1] <= Usage(b)[2] <=> WithinLimit(b)
  BY <1>1 DEF Usage, WithinLimit
<1>3. ProjectedUsage(b)[1] <= ProjectedUsage(b)[2] <=> CanMeetLimit(b)
  BY <1>1 DEF ProjectedUsage, CanMeetLimit, Least
<1>4. ReclaimCoverage(b)[1] = ReclaimCoverage(b)[2] <=> CanMeetLimit(b)
  BY <1>1 DEF ReclaimCoverage, CanMeetLimit, Least
<1>5. HeadroomRatio(b)[1] <= HeadroomRatio(b)[2]
  BY <1>1 DEF HeadroomRatio, Least
<1>6. HasReclaimableData(b) /\ limit # 0 <=> SavingsRatio(b)[1] > 0
  BY <1>1 DEF SavingsRatio, SavingsBytes, HasReclaimableData, Least
<1>7. SavingsRatio(b)[1] = SavingsRatio(b)[2] <=> limit # 0 /\ FullyReclaimable(b)
  BY <1>1 DEF SavingsRatio, SavingsBytes, FullyReclaimable, Least
<1> QED
  BY <1>2, <1>3, <1>4, <1>5, <1>6, <1>7

\* rankBudgetCandidates sorts by a strict order, and only items that agree in
\* everything keep their places (StorageBudget.cpp:42-47).
THEOREM RankIsStrict ==
    ASSUME NEW a \in BudgetItem, NEW b \in BudgetItem, NEW c \in BudgetItem
    PROVE  /\ ~(RanksBefore(a, b) /\ RanksBefore(b, a))
           /\ RanksBefore(a, b) /\ RanksBefore(b, c) => RanksBefore(a, c)
           /\ RanksBefore(a, b) \/ RanksBefore(b, a) \/ a = b
<1>1. \A x \in BudgetItem :
        /\ x.name \in Nat /\ x.bytes \in Nat /\ x.reclaimable \in Nat /\ x.safe \in BOOLEAN
        /\ x = [name |-> x.name, bytes |-> x.bytes, reclaimable |-> x.reclaimable, safe |-> x.safe]
  BY DEF BudgetItem
<1> QED
  BY <1>1 DEF RanksBefore

\* Integers that do not fit are replaced by the nearest that does.
Nearest(n) == IF n > MaxInt THEN MaxInt ELSE IF n < MinInt THEN MinInt ELSE n

\* The sum never leaves the range of its type on the way (GrowthModel.cpp:9-16).
THEOREM AddSaturates ==
    ASSUME NEW lhs \in Signed, NEW rhs \in Signed
    PROVE  /\ SaturatingAdd(lhs, rhs) = Nearest(lhs + rhs) /\ SaturatingAdd(lhs, rhs) \in Signed
           /\ rhs > 0 => MaxInt - rhs \in Signed
           /\ rhs < 0 => MinInt - rhs \in Signed
BY InsightsAssumption DEF SaturatingAdd, Nearest, Signed, MinInt

\* What fits after a multiplication is what fits into the quotient before it.
LEMMA QuotientTest ==
    ASSUME NEW most \in Nat, NEW factor \in Nat \ {0}, NEW v \in Nat
    PROVE  /\ v <= most \div factor <=> v * factor <= most
           /\ most \div factor \in Nat /\ v * factor \in Nat
<1> DEFINE q == most \div factor
<1>1. q \in Nat /\ factor * q <= most /\ most < factor * (q + 1)
  OBVIOUS
<1> HIDE DEF q
<1>2. ASSUME v <= q PROVE v * factor <= most
  BY <1>1, <1>2
<1>3. ASSUME v > q PROVE v * factor > most
  <2> DEFINE more == v - (q + 1)
  <2>1. more \in Nat /\ v = q + 1 + more
    BY <1>1, <1>3
  <2> HIDE DEF more
  <2>2. more * factor \in Nat /\ (q + 1 + more) * factor = factor * (q + 1) + more * factor
    BY <1>1, <2>1
  <2> QED
    BY <1>1, <2>1, <2>2
<1>4. v * factor \in Nat
  OBVIOUS
<1> DEFINE product == v * factor
<1>5. product \in Nat /\ (v <= q => product <= most) /\ (v > q => product > most)
  BY <1>2, <1>3, <1>4
<1> HIDE DEF product
<1>6. v <= q <=> product <= most
  BY <1>1, <1>5
<1> QED
  BY <1>1, <1>4, <1>6 DEF q, product

\* A product is exact or the nearest number that fits: the two tests by division
\* let nothing overflow and replace nothing that fits (GrowthModel.cpp:18-25).
THEOREM MultiplySaturates ==
    ASSUME NEW value \in Signed, NEW factor \in Nat \ {0}
    PROVE  SaturatingMultiply(value, factor) = Nearest(value * factor)
<1>1. Quotient(MaxInt, factor) = MaxInt \div factor
      /\ Quotient(MinInt, factor) = -((MaxInt + 1) \div factor)
  BY InsightsAssumption DEF Quotient, MinInt
<1> DEFINE high == MaxInt \div factor
           low == (MaxInt + 1) \div factor
           product == value * factor
<1>2. CASE value >= 0
  <2>1. value \in Nat /\ (value <= high <=> product <= MaxInt) /\ high \in Nat /\ product \in Nat
    BY <1>2, InsightsAssumption, QuotientTest DEF Signed
  <2>2. SaturatingMultiply(value, factor) = IF value > 0 /\ value > high THEN MaxInt ELSE product
    BY <1>1, <2>1 DEF SaturatingMultiply
  <2> HIDE DEF high, product
  <2>3. SaturatingMultiply(value, factor) = Nearest(product)
    BY <2>1, <2>2, InsightsAssumption DEF Nearest, MinInt
  <2> QED
    BY <2>3 DEF product
<1>3. CASE value < 0
  <2> DEFINE v == -value
  <2>1. v \in Nat \ {0} /\ value = -v
    BY <1>3 DEF Signed, MinInt
  <2>2. (v <= low <=> v * factor <= MaxInt + 1) /\ low \in Nat /\ v * factor \in Nat
    BY <2>1, InsightsAssumption, QuotientTest
  <2>3. product = -(v * factor)
    BY <2>1
  <2>4. SaturatingMultiply(value, factor) = IF value < -low THEN MinInt ELSE product
    BY <1>1, <1>3, <2>1 DEF SaturatingMultiply
  <2> DEFINE size == v * factor
  <2>5. size \in Nat /\ (v <= low <=> size <= MaxInt + 1) /\ product = -size
    BY <2>2, <2>3
  <2> HIDE DEF low, product, size
  <2>7. low \in Nat
    BY <2>2
  <2>8. v > low <=> value < -low
    BY <2>1, <2>7
  <2> HIDE DEF v
  <2>6. SaturatingMultiply(value, factor) = Nearest(product)
    BY <2>1, <2>4, <2>5, <2>7, <2>8, InsightsAssumption DEF Nearest, MinInt
  <2> QED
    BY <2>6 DEF product
<1> QED
  BY <1>2, <1>3 DEF Signed

\* A review is only ever asked for a cache that is safe and either large or
\* all of medium, growing by a gigabyte and old; protection and activity come
\* first (CachePolicy.cpp:17-49).
THEOREM ReviewsAreWorthIt ==
    ASSUME NEW in \in PolicyInput, Action(in) = "review"
    PROVE  /\ IsSafe(in) /\ in.bytes >= 256 * MB /\ in.growth > 0
           /\ in.bytes >= GB \/ (in.growth >= GB /\ in.ageDays >= 90)
           /\ PolicyPriority(in) \in 50..65
<1>1. /\ in.bytes \in Nat /\ in.growth \in Int /\ in.ageDays \in Nat
      /\ ~in.protected /\ ~in.active /\ ~in.warned /\ PolicyPriority(in) >= 50
  BY DEF PolicyInput, Action
<1> QED
  BY <1>1, InsightsAssumption DEF PolicyPriority, IsSafe, GB
=============================================================================
