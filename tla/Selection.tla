------------------------------ MODULE Selection ------------------------------
(***************************************************************************)
(* The pure half of the commands that report: which results of a scan pass *)
(* the filters of a command line, what is recorded of them, and the totals *)
(* and lists that are shown.  Command lines are those of ArgumentParser.   *)
(***************************************************************************)
EXTENDS ArgumentParser, Insights, Lists

CONSTANT DefaultCategory \* of the configuration; "" if it has none

ASSUME SelectionAssumption == DefaultCategory \in STRING

\* What the filters and totals read of a scan result; the lists of analyze read
\* what Insights does, too.  A cache that cannot be
\* read is neither found nor usable, but may have bytes; a disabled one is found
\* and not usable.
Result ==
    [name : STRING, aliases : SUBSET STRING, category : STRING, found : BOOLEAN,
     usable : BOOLEAN, active : BOOLEAN, bytes : Nat]

-----------------------------------------------------------------------------
(* Filters *)

\* The names on the command line; without any, every cache is asked for.
Asked(args, r) ==
    args.targets = <<>> \/ \E t \in Range(args.targets) : t \in {r.name} \cup r.aliases

ByActivity(args, r) == "active-only" \in args.flags => r.active

BySize(args, r) ==
    /\ args.minSize > 0 => r.found /\ r.bytes >= args.minSize
    /\ args.maxSize > 0 => r.found /\ r.bytes <= args.maxSize

CanonicalCategory(category) ==
    CASE category = "node" -> "javascript"
      [] category = "package-managers" -> "package managers"
      [] OTHER -> category

\* The configured category stands in for --category.
EffectiveCategory(args) == IF args.category = "" THEN DefaultCategory ELSE args.category

ByCategory(args, r) ==
    EffectiveCategory(args) # "" =>
        CanonicalCategory(r.category) = CanonicalCategory(EffectiveCategory(args))

\* --exclude compares with the name, not with the aliases.
MutByName(args, r) == \A e \in Range(args.excludes) : e # r.category
ByName(args, r) == \A e \in Range(args.excludes) : e # r.name

\* analyze and stats know no --category and no --exclude.
Selective(args) == args.command \notin {"analyze", "stats"}
Passes(args, r) ==
    /\ ByActivity(args, r) /\ BySize(args, r)
    /\ Selective(args) => ByCategory(args, r) /\ ByName(args, r)

Shown(args, results) == Filtered(results, {r \in Range(results) : Passes(args, r)})

\* scan records what it has scanned, the other commands what they show.
MutRecorded(args, results) == results
Recorded(args, results) == IF args.command = "scan" THEN results ELSE Shown(args, results)

-----------------------------------------------------------------------------
(* Totals *)

\* saturatingAdd, over the results of a snapshot or of stats.
Saturated(a, b) == IF b > UintMax - a THEN UintMax ELSE a + b
SnapshotTotal(results) ==
    LET total[i \in 0..Len(results)] ==
            IF i = 0 THEN 0 ELSE Saturated(total[i - 1], results[i].bytes)
    IN  total[Len(results)]

\* The plain += of scan and of the insights wraps around.
WrappedTotal(results) ==
    LET total[i \in 0..Len(results)] ==
            IF i = 0 THEN 0 ELSE (total[i - 1] + results[i].bytes) % (UintMax + 1)
    IN  total[Len(results)]
InsightsTotal(results) == WrappedTotal(Filtered(results, {r \in Range(results) : r.usable}))

\* The total that a command shows of what it has recorded.
ShownTotal(args, results) ==
    CASE args.command = "scan" -> WrappedTotal(Shown(args, results))
      [] args.command = "stats" -> SnapshotTotal(results)
      [] OTHER -> InsightsTotal(results)

\* The counts of stats: a tool may be active although its cache was not found.
Counts(results) ==
    LET Count(Test(_)) == Len(SelectSeq(results, Test))
    IN  [found |-> Count(LAMBDA r : r.found),
         active |-> Count(LAMBDA r : r.active),
         inactive |-> Count(LAMBDA r : ~r.active /\ r.found)]

Label(r) == IF r.category = "" THEN "misc" ELSE r.category
CategoryBytes(results) ==
    [c \in {Label(r) : r \in {q \in Range(results) : q.found}} |->
        SnapshotTotal(SelectSeq(results, LAMBDA r : r.found /\ Label(r) = c))]

-----------------------------------------------------------------------------
(* analyze *)

\* The four lists of buildAnalysis; a result may be on several of them.  Whether
\* there are warnings is asked again, after the scan.
Unused(r) == ~r.found
SafeToClean(r, warned) == r.found /\ ~warned /\ ~r.active
LargeCache(r) == r.found /\ r.bytes >= 250 * MB
OldCache(r) == r.found /\ AgeDays(r) >= 30

\* --report: an unknown format is answered with a message.
Formats == {"markdown", "html", "csv", "json"}
ReportOf(args) ==
    IF args.report = "" THEN "text" ELSE IF args.report \in Formats THEN args.report ELSE "unsupported"
=============================================================================
