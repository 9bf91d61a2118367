---------------------------- MODULE ScanHistory ----------------------------
(***************************************************************************)
(* core/ScanHistory: every reporting command loads the history when its    *)
(* scan begins, puts its snapshot in front and writes the whole list back, *)
(* by truncating the file and writing it anew.  Several devclean processes *)
(* share the file without a lock; a dashboard keeps its list in memory and *)
(* records again and again.                                                *)
(***************************************************************************)
EXTENDS Naturals, Sequences

CONSTANTS
    Proc,         \* the terminals in which devclean runs, one run at a time each
    Scope,        \* what a scan covers: the caches named on the command line
    MAX_SNAPSHOTS,
    MaxScans      \* bound on the scans of a behaviour

ASSUME HistoryAssumption ==
    MAX_SNAPSHOTS \in Nat \ {0} /\ MaxScans \in Nat /\ Scope # {}

VARIABLES
    file,  \* history.json
    pc,    \* pc[p]: where the run in terminal p is
    mem,   \* mem[p]: snapshots, newest first
    base,  \* base[p]: during a scan, when the one that growth is measured against was taken
    scope, \* scope[p]: what the current scan covers
    cut,   \* cut[p]: SIGINT has been delivered; the flag is never reset
    clock, \* the number of snapshots taken so far: their timestamps
    calm   \* of the surroundings: runs do not overlap, and none dies or fails in saveToDisk

vars == <<file, pc, mem, base, scope, cut, clock, calm>>

Time == 1..MaxScans
Snapshot == [at : Time, scope : Scope, complete : BOOLEAN]
PC == {"idle", "scanning", "saving", "writing", "shown"}
FileState == {"absent", "empty", "garbage", "whole"}

TypeOK ==
    /\ file \in [state : FileState, list : Seq(Snapshot)]
    /\ pc \in [Proc -> PC]
    /\ mem \in [Proc -> Seq(Snapshot)]
    /\ base \in [Proc -> 0..MaxScans]
    /\ scope \in [Proc -> Scope]
    /\ cut \in [Proc -> BOOLEAN]
    /\ clock \in 0..MaxScans
    /\ calm \in BOOLEAN

NoFile(state) == [state |-> state, list |-> <<>>]

\* Of a terminal in which no run is under way.
NoScope == CHOOSE s \in Scope : TRUE

Init ==
    /\ file = NoFile("absent")
    /\ pc = [p \in Proc |-> "idle"]
    /\ mem = [p \in Proc |-> <<>>]
    /\ base = [p \in Proc |-> 0]
    /\ scope = [p \in Proc |-> NoScope]
    /\ cut = [p \in Proc |-> FALSE]
    /\ clock = 0
    /\ calm \in BOOLEAN

-----------------------------------------------------------------------------
\* recordScan: the new snapshot in front, what exceeds the limit cut off.
MutInFront(s, list) == Append(list, s)
InFront(s, list) == <<s>> \o list
MutTrim(list) == SubSeq(list, 1, IF Len(list) < MAX_SNAPSHOTS THEN Len(list) ELSE MAX_SNAPSHOTS - 1)
Trim(list) == SubSeq(list, 1, IF Len(list) <= MAX_SNAPSHOTS THEN Len(list) ELSE MAX_SNAPSHOTS)

\* loadFromDisk: a file that is not there or does not parse is no history.
Loaded == IF file.state = "whole" THEN Trim(file.list) ELSE <<>>

\* scan() compares with the second snapshot of the list, if there is one.
Baseline(list) == IF Len(list) > 1 THEN list[2].at ELSE 0

\* A scan begins.  The history is loaded once per process: a dashboard that
\* scans again goes on with the list it has, and with the same arguments.
BeginScan(p) ==
    /\ (calm /\ pc[p] = "idle") => \A q \in Proc : pc[q] = "idle"
    /\ \/ /\ pc[p] = "idle" /\ mem' = [mem EXCEPT ![p] = Loaded]
          /\ \E s \in Scope : scope' = [scope EXCEPT ![p] = s]
       \/ pc[p] = "shown" /\ UNCHANGED <<mem, scope>>
    /\ base' = [base EXCEPT ![p] = Baseline(mem'[p])]
    /\ pc' = [pc EXCEPT ![p] = "scanning"]
    /\ UNCHANGED <<file, cut, clock, calm>>

Interrupt(p) ==
    /\ pc[p] # "idle" /\ ~cut[p]
    /\ cut' = [cut EXCEPT ![p] = TRUE]
    /\ UNCHANGED <<file, pc, mem, base, scope, clock, calm>>

\* What the scan has seen is recorded, also when the interrupt made it skip
\* the remaining caches (it may have come after the last one).
RecordScan(p) ==
    /\ pc[p] = "scanning" /\ clock < MaxScans
    /\ clock' = clock + 1
    /\ \E complete \in BOOLEAN :
          /\ ~complete => cut[p]
          /\ mem' = [mem EXCEPT ![p] =
                Trim(InFront([at |-> clock', scope |-> scope[p], complete |-> complete], @))]
    /\ pc' = [pc EXCEPT ![p] = "saving"]
    /\ base' = [base EXCEPT ![p] = 0]
    /\ UNCHANGED <<file, scope, cut, calm>>

\* saveToDisk opens the file with trunc; a file that cannot be opened is left
\* as it is, without a word.
OpenTruncate(p) ==
    /\ pc[p] = "saving"
    /\ \/ pc' = [pc EXCEPT ![p] = "writing"] /\ file' = NoFile("empty")
       \/ ~calm /\ pc' = [pc EXCEPT ![p] = "shown"] /\ UNCHANGED file
    /\ UNCHANGED <<mem, base, scope, cut, clock, calm>>

\* The text is written from the start of the file.  A full disk leaves a prefix
\* that does not parse.  If another run has written since the truncation, the
\* tail of its longer text stays behind the array; loadFromDisk reads one value
\* and never looks there.
Write(p) ==
    /\ pc[p] = "writing"
    /\ \/ file' = [state |-> "whole", list |-> mem[p]]
       \/ ~calm /\ file' = NoFile("garbage")
    /\ pc' = [pc EXCEPT ![p] = "shown"]
    /\ UNCHANGED <<mem, base, scope, cut, clock, calm>>

Leave(p) ==
    /\ pc' = [pc EXCEPT ![p] = "idle"]
    /\ mem' = [mem EXCEPT ![p] = <<>>]
    /\ cut' = [cut EXCEPT ![p] = FALSE]
    /\ base' = [base EXCEPT ![p] = 0]
    /\ scope' = [scope EXCEPT ![p] = NoScope]
    /\ UNCHANGED <<file, clock, calm>>

Exit(p) == pc[p] = "shown" /\ Leave(p)

\* Killed, or ended by the exception of create_directories, which nobody
\* catches.  Calm surroundings spare a run between the truncation and the end
\* of the write, and nowhere else.
MutDie(p) == pc[p] # "idle" /\ Leave(p)
Die(p) == (calm => pc[p] # "writing") /\ pc[p] # "idle" /\ Leave(p)

Next == \E p \in Proc :
    \/ BeginScan(p) \/ Interrupt(p) \/ RecordScan(p) \/ OpenTruncate(p)
    \/ Write(p) \/ Exit(p) \/ Die(p)

Spec == Init /\ [][Next]_vars

-----------------------------------------------------------------------------
(* Properties *)

\* Strictly newest first, and never more than the limit.
Ordered(list) ==
    /\ Len(list) <= MAX_SNAPSHOTS
    /\ \A i, j \in 1..Len(list) : i < j => list[i].at > list[j].at

\* However runs overlap, die or overwrite each other's file, the lists that
\* getHistory and the trend of CacheInsights index by age are ordered by age.
NewestFirst ==
    /\ Ordered(file.list)
    /\ \A p \in Proc : Ordered(mem[p])

\* Its inductive form: nothing in a list is newer than the clock.
Past(list) == \A i \in 1..Len(list) : list[i].at <= clock
HistoryInv ==
    /\ TypeOK /\ NewestFirst
    /\ Past(file.list) /\ \A p \in Proc : Past(mem[p])

\* In calm surroundings, runs one after the other: the history keeps the newest
\* snapshots and loses none of them, although runs die.  A snapshot counts from
\* the moment its run has truncated the file; a death before that costs the
\* run's own snapshot and nothing else.
Saving == {p \in Proc : pc[p] = "writing"}
Log == IF Saving = {} THEN file.list ELSE mem[CHOOSE p \in Saving : TRUE]
CalmLog == IF calm THEN Log ELSE <<>>
Promise == INSTANCE RecentLog WITH log <- CalmLog, Keep <- MAX_SNAPSHOTS
KeepsRecent == Promise!Spec

\* Why: one run at a time, whose list is the file's, with one more snapshot
\* when it is about to save.
SoloInv == calm =>
    /\ \A p, q \in Proc : pc[p] # "idle" /\ pc[q] # "idle" => p = q
    /\ \A p \in Proc : pc[p] = "writing" => file.state = "empty"
    /\ (\A p \in Proc : pc[p] # "writing") => file.state = "whole" \/ file = NoFile("absent")
    /\ \A p \in Proc : pc[p] \in {"scanning", "shown"} => mem[p] = file.list
    /\ \A p \in Proc : pc[p] = "saving" => \E s \in Snapshot :
          /\ mem[p] = Trim(InFront(s, file.list))
          /\ \A i \in 1..Len(file.list) : file.list[i].at < s.at

-----------------------------------------------------------------------------
(* What the code says of itself and does not do *)

\* src/core/CacheInsights.cpp:121: growth is reported "since the previous
\* scan", the newest one in the history when the scan began.
GrowthSincePrevious ==
    \A p \in Proc : pc[p] = "scanning" /\ mem[p] # <<>> => base[p] = mem[p][1].at
=============================================================================
