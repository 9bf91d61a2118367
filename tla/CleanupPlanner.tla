--------------------------- MODULE CleanupPlanner ---------------------------
(***************************************************************************)
(* core/CleanupPlanner and core/CleanupPolicy: which caches to clean to    *)
(* free a number of bytes.  One step per pass of the loop that fills the   *)
(* plan.  Sizes are unsigned words, and sums wrap around.                  *)
(***************************************************************************)
EXTENDS Naturals, Sequences, FiniteSets

CONSTANTS
    Result,     \* the scan results that may occur
    Word,       \* 2^64
    Large,      \* 1 GiB
    MaxResults  \* bound on the results of a scan

\* Names are numbered in alphabetical order.
ScanResult == [name : Nat, bytes : 0..(Word - 1), usable : BOOLEAN, active : BOOLEAN,
               warned : BOOLEAN, protected : BOOLEAN, growing : BOOLEAN]

ASSUME PlannerAssumption ==
    /\ Word \in Nat \ {0} /\ Large \in Nat /\ MaxResults \in Nat
    /\ Result \subseteq ScanResult

VARIABLES
    results, target, safeOnly,  \* the arguments of buildCleanupPlan
    candidates,                 \* what may be planned, best priority first
    items,                      \* the plan: indices of candidates, in the order chosen
    plannedBytes, safeBytes, unsafeBytes,
    targetReached,
    pc

input == <<results, target, safeOnly>>
totals == <<plannedBytes, safeBytes, unsafeBytes>>
vars == <<input, candidates, items, totals, targetReached, pc>>

MaxUint == Word - 1
Plus(a, b) == IF a + b < Word THEN a + b ELSE a + b - Word

-----------------------------------------------------------------------------
(* The policy *)

IsCleanupSafe(r) == r.usable /\ ~r.active /\ ~r.warned /\ ~r.protected

Matches(r) == r.usable /\ r.bytes # 0 /\ (safeOnly => IsCleanupSafe(r))

CleanupPriority(r) ==
    LET plus == (IF IsCleanupSafe(r) THEN 100 ELSE 40) + (IF r.growing THEN 20 ELSE 0)
                + (IF r.bytes >= Large THEN 10 ELSE 0)
        minus == (IF r.active THEN 30 ELSE 0) + (IF r.warned THEN 20 ELSE 0)
    IN  IF plus >= minus THEN plus - minus ELSE 0

Item(r) == [name |-> r.name, bytes |-> r.bytes, safe |-> IsCleanupSafe(r),
            priority |-> CleanupPriority(r)]
PlanItem == [name : Nat, bytes : 0..MaxUint, safe : BOOLEAN, priority : Nat]

\* The order of the sort; it is stable, so equal results keep their places.
Precedes(i, j) ==
    LET a == Item(results[i])  b == Item(results[j])
    IN  \/ a.priority > b.priority
        \/ a.priority = b.priority /\ a.bytes > b.bytes
        \/ a.priority = b.priority /\ a.bytes = b.bytes /\ a.name < b.name
        \/ a.priority = b.priority /\ a.bytes = b.bytes /\ a.name = b.name /\ i < j

-----------------------------------------------------------------------------
(* bestCandidate *)

MutLeft == 1..Len(candidates)
Left == {i \in 1..Len(candidates) : \A k \in 1..Len(items) : items[k] # i}
Bytes(i) == candidates[i].bytes

\* The last of the largest that fit into what remains.
BestFit(remaining) ==
    {i \in Left : /\ Bytes(i) <= remaining
                  /\ \A j \in Left : Bytes(j) <= remaining =>
                        Bytes(j) < Bytes(i) \/ (Bytes(j) = Bytes(i) /\ j <= i)}

\* Failing that, the first of the smallest that do not; a size that equals the
\* loop's initial minimum is never smaller than it.
LeastExcess(remaining) ==
    {i \in Left : /\ Bytes(i) >= remaining /\ Bytes(i) < MaxUint
                  /\ \A j \in Left : Bytes(j) >= remaining =>
                        Bytes(i) < Bytes(j) \/ (Bytes(i) = Bytes(j) /\ i <= j)}

MutBestCandidate(remaining) == BestFit(remaining)
BestCandidate(remaining) ==
    IF \E i \in Left : Bytes(i) <= remaining
      THEN BestFit(remaining)
      ELSE LeastExcess(remaining)

-----------------------------------------------------------------------------
(* buildCleanupPlan *)

Init ==
    /\ results \in UNION {[1..n -> Result] : n \in 0..MaxResults}
    /\ target \in 0..MaxUint /\ safeOnly \in BOOLEAN
    /\ candidates = <<>> /\ items = <<>>
    /\ plannedBytes = 0 /\ safeBytes = 0 /\ unsafeBytes = 0
    /\ targetReached = FALSE
    /\ pc = "collect"

Collect ==
    /\ pc = "collect"
    /\ LET kept == {i \in 1..Len(results) : Matches(results[i])}
       IN  \E order \in [1..Cardinality(kept) -> kept] :
             /\ \A i, j \in 1..Cardinality(kept) : i < j => Precedes(order[i], order[j])
             /\ candidates' = [i \in 1..Cardinality(kept) |-> Item(results[order[i]])]
    /\ pc' = IF target = 0 THEN "all" ELSE "choose"
    /\ UNCHANGED <<input, items, totals, targetReached>>

MutChoose(i) ==
    /\ items' = Append(items, i)
    /\ plannedBytes' = Plus(plannedBytes, Bytes(i))
    /\ safeBytes' = IF candidates[i].safe THEN Plus(safeBytes, Bytes(i)) ELSE safeBytes
    /\ unsafeBytes' = Plus(unsafeBytes, Bytes(i))
    /\ UNCHANGED <<input, candidates, targetReached, pc>>
\* Appends a candidate to the plan and accounts for it.
Choose(i) ==
    /\ items' = Append(items, i)
    /\ plannedBytes' = Plus(plannedBytes, Bytes(i))
    /\ IF candidates[i].safe
         THEN safeBytes' = Plus(safeBytes, Bytes(i)) /\ UNCHANGED unsafeBytes
         ELSE unsafeBytes' = Plus(unsafeBytes, Bytes(i)) /\ UNCHANGED safeBytes
    /\ UNCHANGED <<input, candidates, targetReached, pc>>

\* No target: everything, in order.
TakeAll ==
    /\ pc = "all" /\ Len(items) < Len(candidates)
    /\ Choose(Len(items) + 1)

Short == plannedBytes < target

TakeBest ==
    /\ pc = "choose" /\ Short
    /\ \E i \in BestCandidate(target - plannedBytes) : Choose(i)

MutFinish ==
    /\ pc = "choose" /\ ~Short
    /\ targetReached' = TRUE
    /\ pc' = "done"
    /\ UNCHANGED <<input, candidates, items, totals>>
Finish ==
    /\ \/ pc = "all" /\ Len(items) = Len(candidates)
       \/ pc = "choose" /\ (Short => BestCandidate(target - plannedBytes) = {})
    /\ targetReached' = (plannedBytes >= target)
    /\ pc' = "done"
    /\ UNCHANGED <<input, candidates, items, totals>>

Next == Collect \/ TakeAll \/ TakeBest \/ Finish

Spec == Init /\ [][Next]_vars
FairSpec == Spec /\ WF_vars(Next)

-----------------------------------------------------------------------------
(* Properties *)

TypeOK ==
    /\ results \in Seq(Result) /\ target \in 0..MaxUint /\ safeOnly \in BOOLEAN
    /\ candidates \in Seq(PlanItem)
    /\ items \in Seq(1..Len(candidates))
    /\ plannedBytes \in 0..MaxUint /\ safeBytes \in 0..MaxUint /\ unsafeBytes \in 0..MaxUint
    /\ targetReached \in BOOLEAN
    /\ pc \in {"collect", "all", "choose", "done"}

\* No cache is planned twice, so the plan's sum counts no byte twice.
NoneTwice == \A i, j \in 1..Len(items) : items[i] = items[j] => i = j

\* A finished plan falls short of the target only when no candidate is left
\* that could be added, but for one whose size saturated (the scan adds up
\* sizes to at most the largest number, and the loop never takes that one to
\* exceed a target).
ShortfallIsReal ==
    pc = "done" /\ plannedBytes < target => \A i \in Left : Bytes(i) = MaxUint

\* The totals agree, modulo the width, however often they wrap around.
Balanced ==
    /\ plannedBytes = Plus(safeBytes, unsafeBytes)
    /\ pc = "done" => (targetReached <=> plannedBytes >= target)

\* The loop ends, also when the sum wraps around and falls below the target.
Ends == <>(pc = "done")
=============================================================================
