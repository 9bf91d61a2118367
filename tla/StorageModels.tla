--------------------------- MODULE StorageModels ---------------------------
(***************************************************************************)
(* core/StorageBudget, engine/GrowthModel, engine/CachePolicy,             *)
(* engine/ScanDiff and ScanHistory::getDifferences: arithmetic on sizes    *)
(* that the program's tests call and no command does yet.  Ratios are      *)
(* pairs, numerator and denominator; names are numbered in alphabetical    *)
(* order.                                                                  *)
(***************************************************************************)
EXTENDS Insights, SequencesExt

MinInt == -MaxInt - 1
Uint == 0..(2 * MaxInt + 1)
Signed == MinInt..MaxInt

-----------------------------------------------------------------------------
(* core/StorageBudget *)

\* limit = 0 is no limit: nothing is projected to go.
CalculateStorageBudget(limit, current, reclaimable) ==
    LET taken == Least(reclaimable, current)
        projected == IF limit = 0 THEN current ELSE current - taken
    IN  [limit |-> limit, current |-> current, reclaimable |-> taken, projected |-> projected,
         headroom |-> IF limit # 0 /\ projected < limit THEN limit - projected ELSE 0,
         required |-> IF limit # 0 /\ current > limit THEN current - limit ELSE 0]

Exceeded(b) == b.limit # 0 /\ b.current > b.limit
CanMeetLimit(b) == b.limit = 0 \/ b.reclaimable >= b.required
HasShortfall(b) == b.required > b.reclaimable
WithinLimit(b) == b.limit = 0 \/ b.current <= b.limit
NeedsReclaim(b) == b.required > 0
HasHeadroom(b) == b.headroom > 0
HasReclaimableData(b) == b.reclaimable > 0
FullyReclaimable(b) == b.current > 0 /\ b.reclaimable = b.current
SavingsBytes(b) == IF b.current > b.projected THEN b.current - b.projected ELSE 0

Usage(b) == IF b.limit = 0 THEN <<0, 1>> ELSE <<b.current, b.limit>>
ProjectedUsage(b) == IF b.limit = 0 THEN <<0, 1>> ELSE <<b.projected, b.limit>>
HeadroomRatio(b) == IF b.limit = 0 THEN <<0, 1>> ELSE <<b.headroom, b.limit>>
SavingsRatio(b) == IF b.current = 0 THEN <<0, 1>> ELSE <<SavingsBytes(b), b.current>>
ReclaimCoverage(b) ==
    IF b.required = 0 THEN <<1, 1>> ELSE <<Least(b.required, b.reclaimable), b.required>>

\* The order of rankBudgetCandidates, once what can be reclaimed of an item has
\* been cut to its size.
BudgetItem == [name : Nat, bytes : Nat, reclaimable : Nat, safe : BOOLEAN]
Cut(item) == [item EXCEPT !.reclaimable = Least(@, item.bytes)]
RanksBefore(a, b) ==
    \/ a.safe /\ ~b.safe
    \/ a.safe = b.safe /\ a.reclaimable > b.reclaimable
    \/ a.safe = b.safe /\ a.reclaimable = b.reclaimable /\ a.bytes > b.bytes
    \/ a.safe = b.safe /\ a.reclaimable = b.reclaimable /\ a.bytes = b.bytes /\ a.name < b.name

-----------------------------------------------------------------------------
(* engine/GrowthModel *)

SaturatingAdd(lhs, rhs) ==
    IF rhs > 0 /\ lhs > MaxInt - rhs THEN MaxInt
    ELSE IF rhs < 0 /\ lhs < MinInt - rhs THEN MinInt
    ELSE lhs + rhs

SaturatingMultiply(value, factor) ==
    IF value > 0 /\ factor > 0 /\ value > Quotient(MaxInt, factor) THEN MaxInt
    ELSE IF value < 0 /\ factor > 0 /\ value < Quotient(MinInt, factor) THEN MinInt
    ELSE value * factor

\* The deltas are newest first; at least three of them are needed to say that
\* growth accelerates.
SumOf(deltas) == FoldLeft(SaturatingAdd, 0, deltas)
ProjectCacheGrowth(deltas) ==
    LET n == Len(deltas)
        average == IF n = 0 THEN 0 ELSE Quotient(SumOf(deltas), n)
    IN  [latest |-> IF n = 0 THEN 0 ELSE deltas[1],
         average |-> average,
         thirtyDays |-> SaturatingMultiply(average, 30),
         accelerating |-> n >= 3 /\ SumOf(SubSeq(deltas, 1, n \div 2))
                                        > SumOf(SubSeq(deltas, n \div 2 + 1, n))]

-----------------------------------------------------------------------------
(* engine/CachePolicy *)

PolicyInput ==
    [bytes : Nat, growth : Int, ageDays : Nat, active : BOOLEAN, warned : BOOLEAN,
     protected : BOOLEAN]
IsSafe(in) == ~in.active /\ ~in.warned /\ ~in.protected
PolicyPriority(in) ==
    IF in.protected THEN 100
    ELSE IF in.active \/ in.warned THEN 80
    ELSE (IF in.bytes >= GB THEN 30 ELSE IF in.bytes >= 256 * MB THEN 15 ELSE 0)
         + (IF in.growth <= 0 THEN 0 ELSE IF in.growth >= GB THEN 20 ELSE 10)
         + (IF in.ageDays >= 90 THEN 15 ELSE 0)
Action(in) ==
    IF in.protected THEN "protect"
    ELSE IF in.active \/ in.warned THEN "defer"
    ELSE IF PolicyPriority(in) >= 50 THEN "review"
    ELSE "keep"

-----------------------------------------------------------------------------
(* engine/ScanDiff and ScanHistory::getDifferences *)

ToSigned(bytes) == IF bytes > MaxInt THEN MaxInt ELSE bytes

\* The results of a scan by name, the last of several with one name.
Named(results) ==
    [name \in {results[i].name : i \in 1..Len(results)} |->
        results[Max({i \in 1..Len(results) : results[i].name = name})]]
FoundNamed(results) == Named(SelectSeq(results, LAMBDA r : r.found))

SumOfBytes(scan) ==
    MapThenSumSet(LAMBDA name : scan[name].bytes, DOMAIN scan) % (2 * MaxInt + 2)

\* What has come, gone or changed, for the caches that were found; their order,
\* by falling change and then by name, is left out.
Change(old, new, name) ==
    CASE name \notin DOMAIN new -> -ToSigned(old[name].bytes)
      [] name \notin DOMAIN old -> ToSigned(new[name].bytes)
      [] OTHER -> ToSigned(new[name].bytes) - ToSigned(old[name].bytes)
CompareScans(before, after) ==
    LET old == FoundNamed(before)
        new == FoundNamed(after)
    IN  [beforeBytes |-> SumOfBytes(old), afterBytes |-> SumOfBytes(new),
         byteDelta |-> ToSigned(SumOfBytes(new)) - ToSigned(SumOfBytes(old)),
         changes |-> [name \in {m \in DOMAIN old \cup DOMAIN new :
                                  \/ m \notin DOMAIN old \cap DOMAIN new
                                  \/ Change(old, new, m) # 0
                                  \/ old[m].files # new[m].files} |-> Change(old, new, name)]]

\* getDifferences does not ask whether a cache was found: one that is gone
\* shrinks to 0, and is removed only if it is no longer asked for.
Differences(from, to) ==
    LET old == Named(from)
        new == Named(to)
        Kind(name) ==
            CASE name \notin DOMAIN old -> "NEW"
              [] name \notin DOMAIN new -> "REMOVED"
              [] new[name].bytes > old[name].bytes -> "GROWTH"
              [] new[name].bytes < old[name].bytes -> "SHRINK"
              [] OTHER -> "same"
    IN  {<<name, Kind(name)>> : name \in {m \in DOMAIN old \cup DOMAIN new : Kind(m) # "same"}}
=============================================================================
