------------------------------ MODULE Insights ------------------------------
(***************************************************************************)
(* core/CacheInsights: the health score, the trend and the recommendations *)
(* that four commands make of a scan and the recorded history.  Texts and  *)
(* percentages are left out.                                               *)
(***************************************************************************)
EXTENDS Integers, FiniteSetsExt, Sequences

CONSTANTS
    MB,     \* the bytes of a megabyte
    MaxInt  \* the largest int64_t; the largest uint64_t is 2 * MaxInt + 1

ASSUME InsightsAssumption == MB \in Nat \ {0} /\ MaxInt \in Nat \ {0}

GB == 1024 * MB
TB == 1024 * GB

\* What is read of a scan result.  Names are numbered in alphabetical order,
\* ages are in hours and may be negative.
ScanResult ==
    [name : Nat, bytes : Nat, usable : BOOLEAN, active : BOOLEAN, warnings : Nat,
     protected : BOOLEAN, growth : Int, age : Int]

-----------------------------------------------------------------------------
(* Penalties *)

PenaltyForTotalBytes(bytes) ==
    IF bytes >= TB THEN 40
    ELSE IF bytes >= 512 * GB THEN 35
    ELSE IF bytes >= 256 * GB THEN 30
    ELSE IF bytes >= 128 * GB THEN 26
    ELSE IF bytes >= 64 * GB THEN 22
    ELSE IF bytes >= 32 * GB THEN 18
    ELSE IF bytes >= 16 * GB THEN 14
    ELSE IF bytes >= 8 * GB THEN 10
    ELSE IF bytes >= 4 * GB THEN 6
    ELSE IF bytes >= 2 * GB THEN 3
    ELSE 0

PenaltyForGrowth(growth) ==
    IF growth <= 0 THEN 0
    ELSE IF growth >= 8 * GB THEN 20
    ELSE IF growth >= 4 * GB THEN 16
    ELSE IF growth >= 2 * GB THEN 12
    ELSE IF growth >= GB THEN 8
    ELSE IF growth >= 512 * MB THEN 5
    ELSE IF growth >= 256 * MB THEN 3
    ELSE 1

AgeDays(r) == IF r.age <= 0 THEN 0 ELSE r.age \div 24

PenaltyForAge(days) ==
    IF days >= 365 THEN 5
    ELSE IF days >= 180 THEN 4
    ELSE IF days >= 90 THEN 3
    ELSE IF days >= 30 THEN 1
    ELSE 0

-----------------------------------------------------------------------------
(* Recommendations *)

IsCleanupSafe(r) == r.usable /\ ~r.active /\ r.warnings = 0 /\ ~r.protected

\* The priority of the recommendation for a result; 0 stands for none.
Priority(r) ==
    LET days == AgeDays(r)
    IN  IF ~r.usable THEN 0
        ELSE IF IsCleanupSafe(r) /\ r.bytes >= GB THEN 100
        ELSE IF r.growth >= 512 * MB THEN 95
        ELSE IF days >= 90 /\ r.bytes >= 250 * MB THEN 85
        ELSE IF r.warnings > 0 THEN 70
        ELSE IF r.active /\ r.bytes >= 500 * MB THEN 60
        ELSE IF r.bytes >= 500 * MB THEN 55
        ELSE IF days >= 30 /\ r.bytes >= 100 * MB THEN 50
        ELSE 0

\* The flag of each recommendation: written as true, as the policy has it, or
\* (for 70 and 60) as false.
MarkedSafe(r) ==
    \/ Priority(r) = 100
    \/ Priority(r) \in {95, 85, 55, 50} /\ IsCleanupSafe(r)

\* The order of the list; results with the same values keep their places.
ComesBefore(a, b) ==
    LET p == Priority(a)  q == Priority(b)
    IN  \/ p > q
        \/ p = q /\ a.bytes > b.bytes
        \/ p = q /\ a.bytes = b.bytes /\ a.growth > b.growth
        \/ p = q /\ a.bytes = b.bytes /\ a.growth = b.growth /\ a.name < b.name

-----------------------------------------------------------------------------
(* The trend: totals of the scans, newest first, at most six of them. *)

Least(a, b) == IF a <= b THEN a ELSE b
Limit(history) == Least(Len(history), 6)

\* An int64_t: the conversion of a uint64_t, and what the build makes of a sum
\* or a difference that does not fit, which the language leaves undefined.
Int64(n) ==
    CASE n > MaxInt      -> n - (2 * MaxInt + 2)
      [] n < -MaxInt - 1 -> n + (2 * MaxInt + 2)
      [] OTHER           -> n

Delta(history, i) ==
    IF i < Limit(history) THEN Int64(Int64(history[i]) - Int64(history[i + 1])) ELSE 0

LatestGrowth(history) == IF history = <<>> THEN 0 ELSE Delta(history, 1)

\* Division of integers cuts off the fraction, also of a negative number.
Quotient(a, b) == IF a >= 0 THEN a \div b ELSE -((-a) \div b)

AverageGrowth(history) ==
    LET steps == Limit(history) - 1
        sum[i \in 0..steps] == IF i = 0 THEN 0 ELSE Int64(sum[i - 1] + Delta(history, i))
    IN  IF steps < 1 THEN 0 ELSE Quotient(sum[steps], steps)

-----------------------------------------------------------------------------
(* Health *)

Usable(results) == {i \in 1..Len(results) : results[i].usable}
Active(results) == {i \in Usable(results) : results[i].active}

Summary(results, history) ==
    [found |-> Cardinality(Usable(results)),
     total |-> MapThenSumSet(LAMBDA i : results[i].bytes, Usable(results)) % (2 * MaxInt + 2),
     active |-> Cardinality(Active(results)),
     warnings |-> MapThenSumSet(LAMBDA i : results[i].warnings, Usable(results)),
     ages |-> MapThenSumSet(LAMBDA i : PenaltyForAge(AgeDays(results[i])), Usable(results)),
     growth |-> LatestGrowth(history)]

SummaryType ==
    [found : Nat, total : Nat, active : Nat, warnings : Nat, ages : Nat, growth : Int]

Penalty(s) ==
    Least(20, s.warnings * 4) + Least(10, s.active * 2) + PenaltyForTotalBytes(s.total)
    + PenaltyForGrowth(s.growth) + Least(15, s.ages)

Clamp(score) == IF score < 0 THEN 0 ELSE IF score > 100 THEN 100 ELSE score

HealthScore(s) ==
    Clamp(IF s.found = 0 THEN 100
          ELSE IF s.growth < 0 THEN Least(100, 100 - Penalty(s) + 4)
          ELSE 100 - Penalty(s))

CacheHealthLabel(score) ==
    IF score >= 90 THEN "Excellent"
    ELSE IF score >= 75 THEN "Healthy"
    ELSE IF score >= 60 THEN "Watch"
    ELSE IF score >= 40 THEN "At risk"
    ELSE "Critical"
=============================================================================
