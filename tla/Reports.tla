------------------------------- MODULE Reports -------------------------------
(***************************************************************************)
(* The commands that report, as users of ScanHistory: a run scans, records *)
(* what its command line lets through, and shows totals and a trend made   *)
(* of the list in its memory.  What a scan covers is its command line.     *)
(***************************************************************************)
EXTENDS ScanHistory, Selection

CONSTANTS
    Line,  \* Line[s]: the arguments parsed from command line s
    Worlds \* the command lines in use, and what a whole scan finds as time passes

ASSUME ReportsAssumption ==
    /\ UintMax = 2 * MaxInt + 1
    /\ Line \in [Scope -> ParsedArgs]
    /\ Worlds \subseteq [lines : SUBSET Scope, caches : [Time -> Seq(Result)]]

VARIABLES
    world,    \* who uses which machine
    content,  \* content[t]: the results in the snapshot of time t
    behind    \* history: behind[p], another run has touched the file since p loaded it

reportVars == <<vars, world, content, behind>>

ReportsInit ==
    /\ Init
    /\ world \in Worlds
    /\ content = [t \in Time |-> <<>>]
    /\ behind = [p \in Proc |-> FALSE]

\* What a scan that is not interrupted finds of the caches that are there.
Findings(line, results) == Filtered(results, {r \in Range(results) : Asked(line, r)})

\* The signal ends the loop over the caches before any of them.
RecordReport(p) ==
    /\ RecordScan(p)
    /\ LET line == Line[scope[p]]
           findings == Findings(line, world.caches[clock'])
       IN  \E n \in 0..Len(findings) :
              /\ mem'[p][1].complete <=> n = Len(findings)
              /\ content' = [content EXCEPT ![clock'] = Recorded(line, SubSeq(findings, 1, n))]
    /\ UNCHANGED <<world, behind>>

\* Only the dashboard scans more than once.
BeginReport(p) ==
    /\ BeginScan(p)
    /\ scope'[p] \in world.lines
    /\ pc[p] = "shown" => Line[scope[p]].command = "dashboard"
    /\ UNCHANGED <<world, content, behind>>

Other(p) ==
    /\ Interrupt(p) \/ OpenTruncate(p) \/ Write(p) \/ Exit(p) \/ Die(p)
    /\ behind' = [q \in Proc |-> pc'[q] # "idle" /\ (behind[q] \/ (q # p /\ file' # file))]
    /\ UNCHANGED <<world, content>>

ReportsNext == \E p \in Proc : BeginReport(p) \/ RecordReport(p) \/ Other(p)

ReportsSpec == ReportsInit /\ [][ReportsNext]_reportVars

-----------------------------------------------------------------------------
(* Properties *)

\* The run has recorded its scan and builds its report of it.
Reporting(p) == pc[p] \in {"saving", "writing", "shown"}

\* The totals that the trend is made of, newest first.
Totals(list) == [i \in 1..Len(list) |-> SnapshotTotal(content[list[i].at])]

\* What two scans must have in common to be compared: the same caches, all of
\* them, whatever their size and activity.
Coverage(line) ==
    [targets |-> Range(line.targets),
     category |-> IF line.command \in {"scan", "analyze", "stats"} THEN ""
                  ELSE CanonicalCategory(EffectiveCategory(line)),
     excludes |-> IF line.command \in {"scan", "analyze", "stats"} THEN {} ELSE Range(line.excludes)]
Unfiltered(line) ==
    line.command = "scan" \/
        (line.minSize = 0 /\ line.maxSize = 0 /\ "active-only" \notin line.flags)
Comparable(s, t) ==
    /\ s.complete /\ t.complete
    /\ Unfiltered(Line[s.scope]) /\ Unfiltered(Line[t.scope])
    /\ Coverage(Line[s.scope]) = Coverage(Line[t.scope])

\* What the caches covered by a command line really held at a time.
Covered(line, r) ==
    LET cover == Coverage(line)
    IN  /\ cover.targets # {} => cover.targets \cap ({r.name} \cup r.aliases) # {}
        /\ cover.category # "" => CanonicalCategory(r.category) = cover.category
        /\ r.name \notin cover.excludes
OnDisk(line, t) ==
    LET caches == world.caches[t]
    IN  SumFunctionOnSet([i \in 1..Len(caches) |-> IF Covered(line, caches[i]) THEN caches[i].bytes ELSE 0],
                         1..Len(caches))

\* Every snapshot in a list holds what the scan of its command line found at
\* its time; all of it if the scan is marked as complete.
Holds(s, caches, results) ==
    LET findings == Findings(Line[s.scope], caches)
    IN  \E n \in 0..Len(findings) :
            /\ s.complete <=> n = Len(findings)
            /\ results = Recorded(Line[s.scope], SubSeq(findings, 1, n))
HoldsFindings(s) == Holds(s, world.caches[s.at], content[s.at])
ReportsInv ==
    /\ HistoryInv
    /\ world \in Worlds /\ DOMAIN content = Time
    /\ \A i \in 1..Len(file.list) : HoldsFindings(file.list[i])
    /\ \A p \in Proc : \A i \in 1..Len(mem[p]) : HoldsFindings(mem[p][i])

\* The list keeps the other's snapshots, but for those that the limit cuts off.
Keeps(list, old) ==
    \A i \in 1..Len(old) :
        \/ \E j \in 1..Len(list) : list[j] = old[i]
        \/ Len(list) = MAX_SNAPSHOTS /\ \A j \in 1..Len(list) : list[j].at > old[i].at

\* A run that is about to truncate the file has all the snapshots in it in
\* memory, be it a dashboard that loaded them many scans ago: only a run that
\* did not see another one's save can lose what that one recorded.
LostOnlyToOverlap ==
    \A p \in Proc : pc[p] = "saving" /\ ~behind[p] => Keeps(mem[p], file.list)

\* Its inductive form.
KeepsInv ==
    /\ file.state # "whole" => file.list = <<>>
    /\ \A p \in Proc : IF pc[p] = "idle" THEN ~behind[p]
                      ELSE ~behind[p] => Keeps(mem[p], file.list)

\* The latest growth of the trend (CacheInsights.cpp:178) is what the caches
\* grew by between two scans, if these are comparable: though the list was
\* loaded, overwritten by other runs and written back in between.  Totals
\* saturate, and their difference is taken of signed numbers: what does not fit
\* in 64 bits has no growth, and a step across 2^63 may overflow.
GrowthIsReal ==
    \A p \in Proc : Reporting(p) /\ Len(mem[p]) > 1 /\ Comparable(mem[p][1], mem[p][2]) =>
        LET now == OnDisk(Line[scope[p]], mem[p][1].at)
            before == OnDisk(Line[scope[p]], mem[p][2].at)
        IN  /\ now <= UintMax /\ before <= UintMax
            /\ now > MaxInt <=> before > MaxInt
            => LatestGrowth(Totals(mem[p])) = now - before

\* The trend ends in the total that the same report shows: for stats always,
\* for the others unless a cache that is not usable has bytes, or there are more
\* bytes than a number holds.
TrendEndsInTotal ==
    \A p \in Proc : Reporting(p) /\ Line[scope[p]].command # "scan" =>
        LET line == Line[scope[p]]
            results == Shown(line, content[mem[p][1].at])
            last == Totals(mem[p])[1]
        IN  line.command = "stats" \/ (last < UintMax /\ \A r \in Range(results) : r.usable \/ r.bytes = 0) =>
                last = ShownTotal(line, results)

\* Why: a run that reports has its own snapshot in front.
OwnScanFirst ==
    \A p \in Proc : Reporting(p) => Len(mem[p]) > 0 /\ mem[p][1].scope = scope[p]
=============================================================================
