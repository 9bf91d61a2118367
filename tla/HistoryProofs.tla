---------------------------- MODULE HistoryProofs ----------------------------
(***************************************************************************)
(* Proofs about ScanHistory and the commands on top of it, for every       *)
(* number of terminals and every limit: lists are ordered by age, calm     *)
(* runs lose no snapshot, others lose one only to a run that overlaps with *)
(* theirs, growth and trend are of what the scans found, and numbers on    *)
(* the command line are exact or 0.                                        *)
(***************************************************************************)
EXTENDS Reports, FoldLemmas

USE HistoryAssumption

-----------------------------------------------------------------------------
(* The lists of snapshots. *)

\* Cutting a list at the limit: a prefix of it.
LEMMA TrimFacts ==
    ASSUME NEW list \in Seq(Snapshot)
    PROVE  /\ Trim(list) \in Seq(Snapshot)
           /\ Len(Trim(list)) = IF Len(list) <= MAX_SNAPSHOTS THEN Len(list) ELSE MAX_SNAPSHOTS
           /\ \A i \in 1..Len(Trim(list)) : i \in 1..Len(list) /\ Trim(list)[i] = list[i]
           /\ Len(list) <= MAX_SNAPSHOTS => Trim(list) = list
<1> DEFINE n == IF Len(list) <= MAX_SNAPSHOTS THEN Len(list) ELSE MAX_SNAPSHOTS
<1>1. Len(list) \in Nat /\ n \in Nat /\ n <= Len(list)
  BY LenProperties
<1>2. \A i \in 1..n : list[i] \in Snapshot
  BY <1>1, ElementOfSeq
<1>3. Trim(list) = SubSeq(list, 1, n)
  BY DEF Trim
<1> HIDE DEF n
<1>4. /\ SubSeq(list, 1, n) \in Seq(Snapshot)
      /\ Len(SubSeq(list, 1, n)) = IF 1 <= n THEN n - 1 + 1 ELSE 0
      /\ \A i \in 1..n - 1 + 1 : SubSeq(list, 1, n)[i] = list[1 + i - 1]
  BY <1>1, <1>2, SubSeqProperties
<1>5. Len(Trim(list)) = n /\ \A i \in 1..n : i \in 1..Len(list) /\ Trim(list)[i] = list[i]
  BY <1>1, <1>3, <1>4
<1>6. Len(list) <= MAX_SNAPSHOTS => Trim(list) = list
  BY <1>3, SubSeqFull DEF n
<1> QED
  BY <1>3, <1>4, <1>5, <1>6 DEF n

\* The list after a recording: the new snapshot, then what was there.
LEMMA FrontFacts ==
    ASSUME NEW list \in Seq(Snapshot), NEW s \in Snapshot
    PROVE  /\ InFront(s, list) \in Seq(Snapshot)
           /\ Len(InFront(s, list)) = Len(list) + 1
           /\ InFront(s, list)[1] = s
           /\ \A i \in 1..Len(list) + 1 : i > 1 => i - 1 \in 1..Len(list) /\ InFront(s, list)[i] = list[i - 1]
<1>1. <<s>> \in Seq(Snapshot) /\ Len(<<s>>) = 1 /\ <<s>>[1] = s
  OBVIOUS
<1>2. Len(list) \in Nat
  BY LenProperties
<1>3. /\ <<s>> \o list \in Seq(Snapshot) /\ Len(<<s>> \o list) = 1 + Len(list)
      /\ \A i \in 1..1 + Len(list) : (<<s>> \o list)[i] = IF i <= 1 THEN <<s>>[i] ELSE list[i - 1]
  BY <1>1, ConcatProperties
<1> QED
  BY <1>1, <1>2, <1>3 DEF InFront

\* The timestamps in a list.
LEMMA Stamps ==
    ASSUME NEW list \in Seq(Snapshot)
    PROVE  \A i \in 1..Len(list) : list[i].at \in Nat
<1>1. \A i \in 1..Len(list) : list[i] \in Snapshot
  BY ElementOfSeq
<1> QED
  BY <1>1 DEF Snapshot, Time

\* Recording keeps a list ordered: the clock is ahead of all its timestamps.
LEMMA RecordOrdered ==
    ASSUME NEW list \in Seq(Snapshot), NEW s \in Snapshot, Ordered(list),
           \A i \in 1..Len(list) : list[i].at < s.at
    PROVE  /\ Trim(InFront(s, list)) \in Seq(Snapshot)
           /\ Ordered(Trim(InFront(s, list)))
           /\ \A i \in 1..Len(Trim(InFront(s, list))) : Trim(InFront(s, list))[i].at <= s.at
<1> DEFINE whole == InFront(s, list)
           new == Trim(whole)
<1>1. whole \in Seq(Snapshot) /\ Len(whole) = Len(list) + 1 /\ whole[1] = s
      /\ \A i \in 1..Len(list) + 1 : i > 1 => i - 1 \in 1..Len(list) /\ whole[i] = list[i - 1]
  BY FrontFacts
<1> HIDE DEF whole
<1>2. /\ new \in Seq(Snapshot) /\ Len(new) <= MAX_SNAPSHOTS
      /\ \A i \in 1..Len(new) : i \in 1..Len(whole) /\ new[i] = whole[i]
  <2>1. Len(whole) \in Nat
    BY <1>1, LenProperties
  <2>2. /\ new \in Seq(Snapshot)
        /\ Len(new) = IF Len(whole) <= MAX_SNAPSHOTS THEN Len(whole) ELSE MAX_SNAPSHOTS
        /\ \A i \in 1..Len(new) : i \in 1..Len(whole) /\ new[i] = whole[i]
    BY <1>1, TrimFacts
  <2> HIDE DEF new
  <2> QED
    BY <2>1, <2>2
<1>3. Len(list) \in Nat /\ s.at \in Nat /\ \A i \in 1..Len(list) : list[i].at \in Nat
  <2>1. Len(list) \in Nat /\ \A i \in 1..Len(list) : list[i].at \in Nat
    BY LenProperties, Stamps
  <2>2. s.at \in Nat
    BY DEF Snapshot, Time
  <2> QED
    BY <2>1, <2>2
<1> HIDE DEF new
<1>4. ASSUME NEW i \in 1..Len(new), NEW j \in 1..Len(new), i < j PROVE new[i].at > new[j].at
  <2>1. i \in 1..Len(list) + 1 /\ j \in 1..Len(list) + 1 /\ new[i] = whole[i] /\ new[j] = whole[j]
    BY <1>1, <1>2
  <2>2. j > 1 /\ j - 1 \in 1..Len(list) /\ new[j] = list[j - 1]
    BY <1>1, <1>4, <2>1
  <2>3. CASE i = 1
    BY <1>1, <1>3, <2>1, <2>2, <2>3
  <2>4. CASE i > 1
    <3>1. i - 1 \in 1..Len(list) /\ new[i] = list[i - 1] /\ i - 1 < j - 1
      BY <1>1, <1>4, <2>1, <2>4
    <3> QED
      BY <2>2, <3>1 DEF Ordered
  <2> QED
    BY <2>3, <2>4
<1>5. ASSUME NEW i \in 1..Len(new) PROVE new[i].at <= s.at
  <2>1. i \in 1..Len(list) + 1 /\ new[i] = whole[i]
    BY <1>1, <1>2
  <2>2. CASE i = 1
    BY <1>1, <1>3, <2>1, <2>2
  <2>3. CASE i > 1
    BY <1>1, <1>3, <2>1, <2>3
  <2> QED
    BY <2>2, <2>3
<1> QED
  BY <1>2, <1>4, <1>5 DEF Ordered, whole, new

-----------------------------------------------------------------------------
LEMMA EmptyOrdered == <<>> \in Seq(Snapshot) /\ Ordered(<<>>) /\ Past(<<>>)
BY EmptySeq DEF Ordered, Past

LEMMA NoScopeType == NoScope \in Scope
BY DEF NoScope

LEMMA HistoryInit == Init => HistoryInv
BY EmptyOrdered, NoScopeType DEF Init, HistoryInv, TypeOK, NewestFirst, NoFile, FileState, PC

\* What a run gets from the file is as ordered as the file.
LEMMA LoadedFacts ==
    ASSUME HistoryInv
    PROVE  Loaded \in Seq(Snapshot) /\ Ordered(Loaded) /\ Past(Loaded)
<1>1. file.list \in Seq(Snapshot) /\ Ordered(file.list) /\ Past(file.list)
  BY DEF HistoryInv, TypeOK, NewestFirst
<1>2. Trim(file.list) = file.list
  BY <1>1, TrimFacts DEF Ordered
<1> QED
  BY <1>1, <1>2, EmptyOrdered DEF Loaded

LEMMA BaselineType ==
    ASSUME NEW list \in Seq(Snapshot)
    PROVE  Baseline(list) \in 0..MaxScans
<1>1. CASE Len(list) > 1
  <2>1. 2 \in 1..Len(list)
    BY <1>1, LenProperties
  <2>2. list[2] \in Snapshot
    BY <2>1, ElementOfSeq
  <2> QED
    BY <1>1, <2>2 DEF Baseline, Snapshot, Time
<1> QED
  BY <1>1 DEF Baseline

LEMMA HistoryStep == HistoryInv /\ [Next]_vars => HistoryInv'
<1> SUFFICES ASSUME HistoryInv, [Next]_vars PROVE HistoryInv'
  OBVIOUS
<1> USE DEF HistoryInv, TypeOK, NewestFirst, PC, FileState
<1>1. ASSUME NEW p \in Proc, BeginScan(p) PROVE HistoryInv'
  <2>1. /\ mem' \in [Proc -> Seq(Snapshot)]
        /\ \A q \in Proc : Ordered(mem'[q]) /\ Past(mem'[q])
    BY <1>1, LoadedFacts DEF BeginScan
  <2>2. Baseline(mem'[p]) \in 0..MaxScans
    BY <2>1, BaselineType
  <2>3. base' \in [Proc -> 0..MaxScans] /\ scope' \in [Proc -> Scope] /\ pc' \in [Proc -> PC]
        /\ UNCHANGED <<file, cut, clock, calm>>
    BY <1>1, <2>2 DEF BeginScan
  <2> QED
    BY <2>1, <2>3 DEF Past
<1>2. ASSUME NEW p \in Proc, Interrupt(p) PROVE HistoryInv'
  BY <1>2 DEF Interrupt, Past
<1>3. ASSUME NEW p \in Proc, RecordScan(p) PROVE HistoryInv'
  <2>1. PICK complete \in BOOLEAN :
          mem' = [mem EXCEPT ![p] =
              Trim(InFront([at |-> clock', scope |-> scope[p], complete |-> complete], mem[p]))]
    BY <1>3 DEF RecordScan
  <2> DEFINE s == [at |-> clock', scope |-> scope[p], complete |-> complete]
             new == Trim(InFront(s, mem[p]))
  <2>2. clock' = clock + 1 /\ clock' \in Time /\ s \in Snapshot /\ s.at = clock'
    <3>1. clock' = clock + 1 /\ clock < MaxScans
      BY <1>3 DEF RecordScan
    <3>2. clock' \in Time
      BY <3>1 DEF Time
    <3>3. scope[p] \in Scope
      OBVIOUS
    <3> QED
      BY <3>1, <3>2, <3>3 DEF Snapshot
  <2>3. mem[p] \in Seq(Snapshot) /\ Ordered(mem[p])
    OBVIOUS
  <2>4. \A i \in 1..Len(mem[p]) : mem[p][i].at < s.at
    <3>1. \A i \in 1..Len(mem[p]) : mem[p][i].at \in Nat /\ mem[p][i].at <= clock
      BY <2>3, Stamps DEF Past
    <3> QED
      BY <2>2, <3>1
  <2> HIDE DEF s
  <2>5. /\ new \in Seq(Snapshot) /\ Ordered(new)
        /\ \A i \in 1..Len(new) : new[i].at <= clock'
    BY <2>2, <2>3, <2>4, RecordOrdered
  <2>6. mem' = [mem EXCEPT ![p] = new]
    BY <2>1 DEF s
  <2> HIDE DEF new
  <2>7. ASSUME NEW list \in Seq(Snapshot), Past(list) PROVE \A i \in 1..Len(list) : list[i].at <= clock'
    <3>1. \A i \in 1..Len(list) : list[i].at \in Nat /\ list[i].at <= clock
      BY <2>7, Stamps DEF Past
    <3> QED
      BY <2>2, <3>1
  <2>8. /\ mem' \in [Proc -> Seq(Snapshot)]
        /\ \A q \in Proc : Ordered(mem'[q]) /\ \A i \in 1..Len(mem'[q]) : mem'[q][i].at <= clock'
    BY <2>5, <2>6, <2>7
  <2>9. UNCHANGED <<file, scope, cut, calm>> /\ base' \in [Proc -> 0..MaxScans] /\ pc' \in [Proc -> PC] /\ clock' \in 0..MaxScans
    BY <1>3, <2>2 DEF RecordScan, Time
  <2>10. \A i \in 1..Len(file.list) : file.list[i].at <= clock'
    BY <2>7
  <2> QED
    BY <2>8, <2>9, <2>10 DEF Past
<1>4. ASSUME NEW p \in Proc, OpenTruncate(p) PROVE HistoryInv'
  <2>1. NoFile("empty") \in [state : FileState, list : Seq(Snapshot)] /\ NoFile("empty").list = <<>>
    BY EmptyOrdered DEF NoFile
  <2>2. file' \in [state : FileState, list : Seq(Snapshot)] /\ Ordered(file'.list) /\ Past(file'.list)
    BY <1>4, <2>1, EmptyOrdered DEF OpenTruncate
  <2> QED
    BY <1>4, <2>2 DEF OpenTruncate, Past
<1>5. ASSUME NEW p \in Proc, Write(p) PROVE HistoryInv'
  <2>1. NoFile("garbage") \in [state : FileState, list : Seq(Snapshot)] /\ NoFile("garbage").list = <<>>
    BY EmptyOrdered DEF NoFile
  <2>2. file' \in [state : FileState, list : Seq(Snapshot)] /\ Ordered(file'.list) /\ Past(file'.list)
    BY <1>5, <2>1, EmptyOrdered DEF Write
  <2> QED
    BY <1>5, <2>2 DEF Write, Past
<1>6. ASSUME NEW p \in Proc, Exit(p) \/ Die(p) PROVE HistoryInv'
  <2>1. /\ pc' = [pc EXCEPT ![p] = "idle"] /\ mem' = [mem EXCEPT ![p] = <<>>]
        /\ cut' = [cut EXCEPT ![p] = FALSE] /\ UNCHANGED <<file, clock, calm>>
        /\ base' = [base EXCEPT ![p] = 0] /\ scope' = [scope EXCEPT ![p] = NoScope]
    BY <1>6 DEF Exit, Die, Leave
  <2>2. mem' \in [Proc -> Seq(Snapshot)] /\ \A q \in Proc : Ordered(mem'[q]) /\ Past(mem'[q])
    BY <2>1, EmptyOrdered
  <2>3. base' \in [Proc -> 0..MaxScans] /\ scope' \in [Proc -> Scope] /\ pc' \in [Proc -> PC]
    BY <2>1, NoScopeType
  <2> QED
    BY <2>1, <2>2, <2>3 DEF Past
<1>7. CASE UNCHANGED vars
  BY <1>7 DEF vars, Past
<1> QED
  BY <1>1, <1>2, <1>3, <1>4, <1>5, <1>6, <1>7 DEF Next

\* Every list of snapshots is ordered newest first and within the limit,
\* whatever overlaps or fails.
THEOREM HistoryCorrect == Spec => []HistoryInv
BY HistoryInit, HistoryStep, PTL DEF Spec

THEOREM OrderCorrect == Spec => []NewestFirst
<1>1. HistoryInv => NewestFirst
  BY DEF HistoryInv
<1> QED
  BY HistoryCorrect, <1>1, PTL

-----------------------------------------------------------------------------
(* Calm surroundings: one run after the other, and no fault in saveToDisk. *)

\* The snapshot that a scan records is the newest of all.
LEMMA RecordedSnapshot ==
    ASSUME HistoryInv, NEW p \in Proc, RecordScan(p)
    PROVE  \E s \in Snapshot :
              mem' = [mem EXCEPT ![p] = Trim(InFront(s, mem[p]))] /\ s.at = clock + 1
<1>1. PICK complete \in BOOLEAN :
        mem' = [mem EXCEPT ![p] =
            Trim(InFront([at |-> clock', scope |-> scope[p], complete |-> complete], mem[p]))]
  BY DEF RecordScan
<1> DEFINE s == [at |-> clock', scope |-> scope[p], complete |-> complete]
<1>2. clock' = clock + 1 /\ clock' \in Time
  BY DEF RecordScan, HistoryInv, TypeOK, Time
<1>3. scope[p] \in Scope
  BY DEF HistoryInv, TypeOK
<1>4. s \in Snapshot /\ s.at = clock + 1
  BY <1>2, <1>3 DEF Snapshot
<1> QED
  BY <1>1, <1>4

\* What the next run loads is what the last one left.
LEMMA SoloLoaded ==
    ASSUME HistoryInv, SoloInv, calm, \A p \in Proc : pc[p] # "writing"
    PROVE  Loaded = file.list
<1>1. file.list \in Seq(Snapshot) /\ Len(file.list) <= MAX_SNAPSHOTS
  BY DEF HistoryInv, TypeOK, NewestFirst, Ordered
<1>2. Trim(file.list) = file.list
  BY <1>1, TrimFacts
<1> QED
  BY <1>2 DEF SoloInv, Loaded, NoFile

LEMMA SoloStep ==
    ASSUME HistoryInv, SoloInv, [Next]_vars
    PROVE  SoloInv'
<1> SUFFICES ASSUME calm' PROVE SoloInv'
  BY DEF SoloInv
<1>c. calm
  BY DEF Next, vars, BeginScan, Interrupt, RecordScan, OpenTruncate, Write, Exit, Die, Leave
<1> USE <1>c DEF SoloInv
<1>0. pc \in [Proc -> PC] /\ mem \in [Proc -> Seq(Snapshot)]
  BY DEF HistoryInv, TypeOK
<1>1. ASSUME NEW p \in Proc, BeginScan(p) PROVE SoloInv'
  <2>1. /\ \A q \in Proc : q # p => pc[q] = "idle"
        /\ pc[p] \in {"idle", "shown"} /\ pc' = [pc EXCEPT ![p] = "scanning"] /\ file' = file
    BY <1>1 DEF BeginScan
  <2>2. mem'[p] = file.list
    <3>1. CASE pc[p] = "idle"
      BY <1>0, <1>1, <2>1, <3>1, SoloLoaded DEF BeginScan
    <3>2. CASE pc[p] = "shown"
      BY <1>1, <3>2 DEF BeginScan
    <3> QED
      BY <2>1, <3>1, <3>2
  <2>3. \A q \in Proc : pc'[q] \notin {"saving", "writing"}
    BY <1>0, <2>1
  <2> QED
    BY <1>0, <2>1, <2>2, <2>3
<1>2. ASSUME NEW p \in Proc, Interrupt(p) PROVE SoloInv'
  BY <1>2 DEF Interrupt
<1>3. ASSUME NEW p \in Proc, RecordScan(p) PROVE SoloInv'
  <2>1. /\ \A q \in Proc : q # p => pc[q] = "idle"
        /\ mem[p] = file.list /\ pc' = [pc EXCEPT ![p] = "saving"] /\ file' = file
    BY <1>3 DEF RecordScan
  <2>2. PICK s \in Snapshot :
          /\ mem' = [mem EXCEPT ![p] = Trim(InFront(s, mem[p]))] /\ s.at = clock + 1
    BY <1>3, RecordedSnapshot
  <2>3. \A i \in 1..Len(file.list) : file.list[i].at < s.at
    <3>1. file.list \in Seq(Snapshot) /\ Past(file.list) /\ clock \in Nat
      BY DEF HistoryInv, TypeOK
    <3>2. \A i \in 1..Len(file.list) : file.list[i].at \in Nat /\ file.list[i].at <= clock
      BY <3>1, Stamps DEF Past
    <3> QED
      BY <2>2, <3>1, <3>2
  <2>4. mem'[p] = Trim(InFront(s, file.list))
    BY <1>0, <2>1, <2>2
  <2>5. \A q \in Proc : pc'[q] = "saving" => q = p
    BY <1>0, <2>1
  <2>6. \A q \in Proc : pc'[q] \notin {"scanning", "shown", "writing"}
    BY <1>0, <2>1
  <2>7. pc[p] = "scanning"
    BY <1>3 DEF RecordScan
  <2>8. file'.state = "whole" \/ file' = NoFile("absent")
    <3>1. \A q \in Proc : pc[q] # "writing"
      BY <2>1, <2>7
    <3> QED
      BY <2>1, <3>1
  <2>9. \A q \in Proc : pc'[q] = "saving" => \E t \in Snapshot :
            /\ mem'[q] = Trim(InFront(t, file'.list))
            /\ \A i \in 1..Len(file'.list) : file'.list[i].at < t.at
    BY <2>1, <2>3, <2>4, <2>5
  <2>10. \A q, r \in Proc : pc'[q] # "idle" /\ pc'[r] # "idle" => q = r
    BY <1>0, <2>1
  <2> QED
    BY <2>6, <2>8, <2>9, <2>10
<1>4. ASSUME NEW p \in Proc, OpenTruncate(p) PROVE SoloInv'
  <2>1. /\ \A q \in Proc : q # p => pc[q] = "idle"
        /\ pc' = [pc EXCEPT ![p] = "writing"] /\ mem' = mem /\ file' = NoFile("empty")
    BY <1>4 DEF OpenTruncate
  <2>2. file'.state = "empty" /\ pc'[p] = "writing" /\ \A q \in Proc : pc'[q] # "saving"
    BY <1>0, <2>1 DEF NoFile
  <2> QED
    BY <1>0, <2>1, <2>2
<1>5. ASSUME NEW p \in Proc, Write(p) PROVE SoloInv'
  <2>1. /\ \A q \in Proc : q # p => pc[q] = "idle"
        /\ pc[p] = "writing" /\ pc' = [pc EXCEPT ![p] = "shown"] /\ mem' = mem
    BY <1>5 DEF Write
  <2>2. file' = [state |-> "whole", list |-> mem[p]] /\ \A q \in Proc : pc'[q] # "saving"
    BY <1>0, <1>5, <2>1 DEF Write
  <2> QED
    BY <1>0, <2>1, <2>2
<1>6. ASSUME NEW p \in Proc, Exit(p) \/ Die(p) PROVE SoloInv'
  <2>1. /\ \A q \in Proc : q # p => pc[q] = "idle"
        /\ pc[p] \notin {"idle", "writing"} /\ pc' = [pc EXCEPT ![p] = "idle"] /\ file' = file
    BY <1>6 DEF Exit, Die, Leave
  <2>2. \A q \in Proc : pc'[q] = "idle"
    BY <1>0, <2>1
  <2>3. \A q \in Proc : pc[q] # "writing"
    BY <2>1
  <2> QED
    BY <1>0, <2>1, <2>2, <2>3
<1>7. CASE UNCHANGED vars
  BY <1>7 DEF vars
<1> QED
  BY <1>1, <1>2, <1>3, <1>4, <1>5, <1>6, <1>7 DEF Next

\* The abstract log is the file, or the list of the one run that is writing:
\* before a step and after it.
LogFacts ==
    /\ (\A p \in Proc : pc[p] # "writing") => Log = file.list
    /\ \A p \in Proc : pc[p] = "writing" => Log = mem[p]

LEMMA LogOf == SoloInv /\ calm => LogFacts
<1> SUFFICES ASSUME SoloInv, calm PROVE LogFacts
  OBVIOUS
<1>1. (\A p \in Proc : pc[p] # "writing") => Saving = {}
  BY DEF Saving
<1>2. ASSUME NEW p \in Proc, pc[p] = "writing" PROVE Saving = {p}
  BY <1>2 DEF Saving, SoloInv
<1>3. ASSUME NEW p \in Proc, pc[p] = "writing" PROVE Log = mem[p]
  <2>1. Saving # {} /\ (CHOOSE q \in Saving : TRUE) = p
    BY <1>2, <1>3
  <2> QED
    BY <2>1 DEF Log
<1> QED
  BY <1>1, <1>3 DEF Log, LogFacts

LEMMA LogOfNext == SoloInv' /\ calm' => LogFacts'
BY LogOf, PTL

LEMMA SoloMaps ==
    ASSUME HistoryInv, SoloInv, [Next]_vars, calm
    PROVE  /\ calm'
           /\ (\E s \in Snapshot : Promise!Record(s)) \/ Log' = Log
<1>d. calm'
  BY DEF Next, vars, BeginScan, Interrupt, RecordScan, OpenTruncate, Write, Exit, Die, Leave
<1>e. CalmLog = Log /\ CalmLog' = Log'
  BY <1>d DEF CalmLog
<1> USE <1>d
<1>0. SoloInv' /\ pc \in [Proc -> PC] /\ mem \in [Proc -> Seq(Snapshot)]
  BY SoloStep DEF HistoryInv, TypeOK
<1> DEFINE Quiet == \A p \in Proc : pc[p] # "writing"
<1>a. Quiet => Log = file.list
  BY LogOf DEF LogFacts
<1>b. Quiet' => Log' = file'.list
  BY <1>0, LogOfNext DEF LogFacts
<1>c. \A p \in Proc : pc'[p] = "writing" => Log' = mem'[p]
  BY <1>0, LogOfNext DEF LogFacts
<1>1. ASSUME NEW p \in Proc, BeginScan(p) \/ RecordScan(p) \/ Exit(p) \/ Die(p) PROVE Log' = Log
  <2>1. file' = file
    BY <1>1 DEF BeginScan, RecordScan, Exit, Die, Leave
  <2>2. \A q \in Proc : q # p => pc[q] = "idle" /\ pc'[q] = "idle"
    BY <1>0, <1>1 DEF SoloInv, BeginScan, RecordScan, Exit, Die, Leave
  <2>3. pc[p] # "writing" /\ pc'[p] # "writing"
    BY <1>0, <1>1 DEF BeginScan, RecordScan, Exit, Die, Leave
  <2>4. Quiet /\ Quiet'
    BY <2>2, <2>3
  <2> QED
    BY <2>1, <2>4, <1>a, <1>b
<1>2. ASSUME NEW p \in Proc, Interrupt(p) PROVE Log' = Log
  BY <1>2 DEF Interrupt, Log, Saving
<1>3. ASSUME NEW p \in Proc, OpenTruncate(p) PROVE \E s \in Snapshot : Promise!Record(s)
  <2>1. Quiet /\ pc'[p] = "writing" /\ mem' = mem
    BY <1>0, <1>3 DEF SoloInv, OpenTruncate
  <2>2. Log = file.list /\ Log' = mem[p]
    BY <2>1, <1>a, <1>c
  <2>3. PICK s \in Snapshot :
          /\ mem[p] = Trim(InFront(s, file.list))
          /\ \A i \in 1..Len(file.list) : file.list[i].at < s.at
    BY <1>3 DEF SoloInv, OpenTruncate
  <2>4. Log' = Promise!Newest(<<s>> \o Log)
    BY <2>2, <2>3 DEF Trim, InFront, Promise!Newest
  <2> QED
    BY <1>e, <2>2, <2>3, <2>4 DEF Promise!Record
<1>4. ASSUME NEW p \in Proc, Write(p) PROVE Log' = Log
  <2>1. pc[p] = "writing" /\ Quiet' /\ file'.list = mem[p]
    BY <1>0, <1>4 DEF SoloInv, Write
  <2> QED
    BY <2>1, <1>b, LogOf DEF LogFacts
<1>5. ASSUME UNCHANGED vars PROVE Log' = Log
  BY <1>5 DEF vars, Log, Saving
<1> QED
  BY <1>1, <1>2, <1>3, <1>4, <1>5 DEF Next

\* Runs that follow one another implement RecentLog, wherever they die but
\* between the truncation and the end of the write: the file keeps the newest
\* snapshots and loses none of them.
THEOREM KeepsRecentCorrect == Spec => KeepsRecent
<1>1. Init => SoloInv
  BY DEF Init, SoloInv, NoFile
<1>2. HistoryInv /\ SoloInv /\ [Next]_vars => SoloInv'
  BY SoloStep
<1>3. Init => Promise!Init
  BY DEF Init, Promise!Init, CalmLog, Log, Saving, NoFile
<1>4. HistoryInv /\ SoloInv /\ [Next]_vars => [\E s \in Snapshot : Promise!Record(s)]_CalmLog
  <2> SUFFICES ASSUME HistoryInv, SoloInv, [Next]_vars
               PROVE  (\E s \in Snapshot : Promise!Record(s)) \/ CalmLog' = CalmLog
    OBVIOUS
  <2>1. CASE calm
    BY <2>1, SoloMaps DEF CalmLog
  <2>2. CASE ~calm
    <3>1. ~calm'
      BY <2>2 DEF Next, vars, BeginScan, Interrupt, RecordScan, OpenTruncate, Write, Exit, Die, Leave
    <3> QED
      BY <2>2, <3>1 DEF CalmLog
  <2> QED
    BY <2>1, <2>2
<1> QED
  BY HistoryCorrect, <1>1, <1>2, <1>3, <1>4, PTL DEF Spec, KeepsRecent, Promise!Spec

-----------------------------------------------------------------------------
(* A report is a run of ScanHistory. *)

LEMMA ReportIsRun == [ReportsNext]_reportVars => [Next]_vars
BY DEF ReportsNext, reportVars, vars, Next, BeginReport, RecordReport, Other

\* What the commands do to the history is what ScanHistory allows.
THEOREM ReportsScan == ReportsSpec => Spec
<1>1. ReportsInit => Init
  BY DEF ReportsInit
<1> QED
  BY <1>1, ReportIsRun, PTL DEF ReportsSpec, Spec

\* So its lists are ordered by age and keep the newest snapshots here, too.
THEOREM ReportsOrdered == ReportsSpec => []NewestFirst /\ KeepsRecent
BY ReportsScan, OrderCorrect, KeepsRecentCorrect, PTL

-----------------------------------------------------------------------------
(* What a run that has seen every save loses. *)

\* What RecordReport does to the list of its run.
LEMMA RecordedFirst ==
    ASSUME HistoryInv, NEW p \in Proc, RecordScan(p)
    PROVE  \E complete \in BOOLEAN :
              LET s == [at |-> clock + 1, scope |-> scope[p], complete |-> complete]
              IN  /\ s \in Snapshot
                  /\ mem' = [mem EXCEPT ![p] = Trim(InFront(s, mem[p]))]
                  /\ Len(mem'[p]) \in Nat \ {0}
                  /\ mem'[p][1] = s
                  /\ \A i \in 1..Len(mem'[p]) : i > 1 =>
                        i - 1 \in 1..Len(mem[p]) /\ mem'[p][i] = mem[p][i - 1]
<1>1. PICK complete \in BOOLEAN :
        mem' = [mem EXCEPT ![p] =
            Trim(InFront([at |-> clock', scope |-> scope[p], complete |-> complete], mem[p]))]
  BY DEF RecordScan
<1> DEFINE s == [at |-> clock + 1, scope |-> scope[p], complete |-> complete]
           whole == InFront(s, mem[p])
<1>2. clock' = clock + 1 /\ clock' \in Time /\ scope[p] \in Scope /\ mem[p] \in Seq(Snapshot)
      /\ mem \in [Proc -> Seq(Snapshot)]
  BY DEF RecordScan, HistoryInv, TypeOK, Time
<1>3. s \in Snapshot
  BY <1>2 DEF Snapshot
<1>4. mem' = [mem EXCEPT ![p] = Trim(whole)] /\ mem'[p] = Trim(whole)
  BY <1>1, <1>2
<1> HIDE DEF s
<1>5. /\ whole \in Seq(Snapshot) /\ Len(whole) = Len(mem[p]) + 1 /\ whole[1] = s
      /\ \A i \in 1..Len(mem[p]) + 1 : i > 1 =>
            i - 1 \in 1..Len(mem[p]) /\ whole[i] = mem[p][i - 1]
  BY <1>2, <1>3, FrontFacts
<1> HIDE DEF whole
<1>6. /\ Len(Trim(whole)) = IF Len(whole) <= MAX_SNAPSHOTS THEN Len(whole) ELSE MAX_SNAPSHOTS
      /\ \A i \in 1..Len(Trim(whole)) : i \in 1..Len(whole) /\ Trim(whole)[i] = whole[i]
  BY <1>5, TrimFacts
<1>7. Len(mem[p]) \in Nat
  BY <1>2, LenProperties
<1>8. Len(Trim(whole)) \in Nat \ {0} /\ 1 \in 1..Len(Trim(whole))
  BY <1>5, <1>6, <1>7
<1>9. \A i \in 1..Len(mem'[p]) : i > 1 => i - 1 \in 1..Len(mem[p]) /\ mem'[p][i] = mem[p][i - 1]
  BY <1>4, <1>5, <1>6
<1>10. mem'[p][1] = s /\ Len(mem'[p]) \in Nat \ {0}
  BY <1>4, <1>5, <1>6, <1>8
<1>11. mem' = [mem EXCEPT ![p] = Trim(InFront(s, mem[p]))]
  BY <1>4 DEF whole
<1> QED
  BY <1>3, <1>9, <1>10, <1>11 DEF s

\* Recording pushes out what is older than all that stays.
LEMMA RecordKeeps ==
    ASSUME NEW list \in Seq(Snapshot), NEW old \in Seq(Snapshot), NEW s \in Snapshot,
           Ordered(list), Keeps(list, old), \A i \in 1..Len(old) : old[i].at < s.at
    PROVE  Keeps(Trim(InFront(s, list)), old)
<1> DEFINE whole == InFront(s, list)
           new == Trim(whole)
<1>1. /\ whole \in Seq(Snapshot) /\ Len(whole) = Len(list) + 1 /\ whole[1] = s
      /\ \A i \in 1..Len(list) + 1 : i > 1 => i - 1 \in 1..Len(list) /\ whole[i] = list[i - 1]
  BY FrontFacts
<1>2. /\ Len(list) \in Nat /\ \A i \in 1..Len(list) : list[i].at \in Nat
      /\ \A i \in 1..Len(old) : old[i].at \in Nat
  BY LenProperties, Stamps
<1> HIDE DEF whole
<1>3. /\ Len(new) = IF Len(whole) <= MAX_SNAPSHOTS THEN Len(whole) ELSE MAX_SNAPSHOTS
      /\ \A i \in 1..Len(new) : i \in 1..Len(whole) /\ new[i] = whole[i]
  BY <1>1, TrimFacts
<1> HIDE DEF new
<1>4. Len(new) \in Nat /\ s.at \in Nat
  BY <1>1, <1>2, <1>3 DEF Snapshot, Time
<1>5. \A k \in 1..Len(new) : new[k] = s \/ (k - 1 \in 1..Len(list) /\ new[k] = list[k - 1])
  BY <1>1, <1>2, <1>3, <1>4
<1>6. ASSUME NEW i \in 1..Len(old)
      PROVE  \/ \E j \in 1..Len(new) : new[j] = old[i]
             \/ Len(new) = MAX_SNAPSHOTS /\ \A j \in 1..Len(new) : new[j].at > old[i].at
  <2>1. CASE \E j \in 1..Len(list) : list[j] = old[i]
    <3>1. PICK j \in 1..Len(list) : list[j] = old[i]
      BY <2>1
    <3>2. j + 1 \in 1..Len(whole) /\ whole[j + 1] = list[j]
      <4>1. j + 1 \in 1..Len(list) + 1 /\ j + 1 > 1 /\ j + 1 - 1 = j
        BY <1>2
      <4> QED
        BY <1>1, <4>1
    <3>3. CASE j + 1 <= Len(new)
      <4>1. j + 1 \in 1..Len(new) /\ new[j + 1] = old[i]
        BY <1>2, <1>3, <1>4, <3>1, <3>2, <3>3
      <4> QED
        BY <4>1
    <3>4. CASE j + 1 > Len(new)
      <4>1. Len(new) = MAX_SNAPSHOTS
        BY <1>1, <1>2, <1>3, <3>2, <3>4
      <4>2. ASSUME NEW k \in 1..Len(new) PROVE new[k].at > old[i].at
        <5>1. CASE new[k] = s
          BY <1>2, <1>4, <5>1
        <5>2. CASE k - 1 \in 1..Len(list) /\ new[k] = list[k - 1]
          <6>1. k - 1 < j
            BY <1>2, <1>4, <3>4
          <6> QED
            BY <3>1, <5>2, <6>1 DEF Ordered
        <5> QED
          BY <1>5, <5>1, <5>2
      <4> QED
        BY <4>1, <4>2
    <3> QED
      BY <1>2, <1>4, <3>3, <3>4
  <2>2. CASE Len(list) = MAX_SNAPSHOTS /\ \A j \in 1..Len(list) : list[j].at > old[i].at
    <3>1. Len(new) = MAX_SNAPSHOTS
      BY <1>1, <1>3, <2>2
    <3>2. \A k \in 1..Len(new) : new[k].at > old[i].at
      BY <1>2, <1>4, <1>5, <2>2
    <3> QED
      BY <3>1, <3>2
  <2> QED
    BY <2>1, <2>2 DEF Keeps
<1> QED
  BY <1>6 DEF Keeps, whole, new

LEMMA KeepsAll ==
    ASSUME NEW list
    PROVE  Keeps(list, list) /\ Keeps(list, <<>>)
BY DEF Keeps

LEMMA KeepsStart == ReportsInit => KeepsInv
BY DEF ReportsInit, Init, NoFile, KeepsInv

LEMMA KeepsStep == HistoryInv /\ KeepsInv /\ behind \in [Proc -> BOOLEAN] /\ [ReportsNext]_reportVars
                     => KeepsInv' /\ behind' \in [Proc -> BOOLEAN]
<1> SUFFICES ASSUME HistoryInv, KeepsInv, behind \in [Proc -> BOOLEAN], [ReportsNext]_reportVars
             PROVE  KeepsInv' /\ behind' \in [Proc -> BOOLEAN]
  OBVIOUS
<1>1. /\ file \in [state : FileState, list : Seq(Snapshot)] /\ mem \in [Proc -> Seq(Snapshot)]
      /\ pc \in [Proc -> PC]
      /\ Ordered(file.list) /\ Past(file.list) /\ \A p \in Proc : Ordered(mem[p])
  BY DEF HistoryInv, TypeOK, NewestFirst
<1>2. ASSUME NEW p \in Proc, BeginReport(p) PROVE KeepsInv' /\ behind' \in [Proc -> BOOLEAN]
  <2>1. /\ file' = file /\ behind' = behind /\ pc' = [pc EXCEPT ![p] = "scanning"]
        /\ \/ pc[p] = "idle" /\ mem' = [mem EXCEPT ![p] = Loaded]
           \/ pc[p] = "shown" /\ mem' = mem
    BY <1>2 DEF BeginReport, BeginScan
  <2>2. Keeps(Loaded, file.list)
    <3>1. Trim(file.list) = file.list
      BY <1>1, TrimFacts DEF Ordered
    <3>2. CASE file.state = "whole"
      BY <3>1, <3>2, KeepsAll DEF Loaded
    <3>3. CASE file.state # "whole"
      BY <3>3, KeepsAll DEF KeepsInv
    <3> QED
      BY <3>2, <3>3
  <2>3. ASSUME NEW q \in Proc, pc'[q] # "idle", ~behind[q] PROVE Keeps(mem'[q], file.list)
    BY <1>1, <2>1, <2>2, <2>3 DEF KeepsInv
  <2>4. ASSUME NEW q \in Proc, pc'[q] = "idle" PROVE ~behind[q]
    BY <1>1, <2>1, <2>4 DEF KeepsInv
  <2> QED
    BY <2>1, <2>3, <2>4 DEF KeepsInv, Keeps
<1>3. ASSUME NEW p \in Proc, RecordReport(p) PROVE KeepsInv' /\ behind' \in [Proc -> BOOLEAN]
  <2>1. /\ RecordScan(p) /\ clock' = clock + 1 /\ file' = file /\ behind' = behind
        /\ pc[p] = "scanning" /\ pc' = [pc EXCEPT ![p] = "saving"]
    BY <1>3 DEF RecordReport, RecordScan
  <2>2. PICK s \in Snapshot : s.at = clock + 1 /\ mem' = [mem EXCEPT ![p] = Trim(InFront(s, mem[p]))]
    <3>1. PICK complete \in BOOLEAN :
            LET s == [at |-> clock + 1, scope |-> scope[p], complete |-> complete]
            IN  s \in Snapshot /\ mem' = [mem EXCEPT ![p] = Trim(InFront(s, mem[p]))]
      BY <2>1, RecordedFirst
    <3> QED
      BY <3>1
  <2>3. \A i \in 1..Len(file.list) : file.list[i].at < s.at
    <3>1. clock \in Nat
      BY DEF HistoryInv, TypeOK
    <3>2. \A i \in 1..Len(file.list) : file.list[i].at \in Nat /\ file.list[i].at <= clock
      BY <1>1, Stamps DEF Past
    <3> QED
      BY <2>2, <3>1, <3>2
  <2>4. ASSUME NEW q \in Proc, pc'[q] # "idle", ~behind[q] PROVE Keeps(mem'[q], file.list)
    <3>1. Keeps(mem[q], file.list)
      BY <1>1, <2>1, <2>4 DEF KeepsInv
    <3>2. CASE q = p
      <4>1. Keeps(Trim(InFront(s, mem[p])), file.list)
        BY <1>1, <2>3, <3>1, <3>2, RecordKeeps
      <4> QED
        BY <1>1, <2>2, <3>2, <4>1
    <3>3. CASE q # p
      BY <1>1, <2>2, <3>1, <3>3
    <3> QED
      BY <3>2, <3>3
  <2>5. ASSUME NEW q \in Proc, pc'[q] = "idle" PROVE ~behind[q]
    BY <1>1, <2>1, <2>5 DEF KeepsInv
  <2> QED
    BY <2>1, <2>4, <2>5 DEF KeepsInv, Keeps
<1>4. ASSUME NEW p \in Proc, Other(p) PROVE KeepsInv' /\ behind' \in [Proc -> BOOLEAN]
  <2>1. \A q \in Proc : behind'[q] <=> pc'[q] # "idle" /\ (behind[q] \/ (q # p /\ file' # file))
    BY <1>4 DEF Other
  <2>2. behind' \in [Proc -> BOOLEAN]
    BY <1>4 DEF Other
  <2>3. /\ \/ file' = file
           \/ file'.state # "whole" /\ file'.list = <<>>
           \/ file'.state = "whole" /\ file'.list = mem[p]
        /\ \A q \in Proc : pc'[q] # "idle" => pc[q] # "idle" /\ mem'[q] = mem[q]
    BY <1>1, <1>4 DEF Other, Interrupt, OpenTruncate, Write, Exit, Die, Leave, NoFile
  <2>4. file'.state # "whole" => file'.list = <<>>
    BY <2>3 DEF KeepsInv
  <2>5. ASSUME NEW q \in Proc, pc'[q] # "idle", ~behind'[q] PROVE Keeps(mem'[q], file'.list)
    <3>1. ~behind[q] /\ mem'[q] = mem[q] /\ Keeps(mem[q], file.list) /\ (q = p \/ file' = file)
      BY <2>1, <2>3, <2>5 DEF KeepsInv
    <3>2. CASE file' = file
      BY <3>1, <3>2
    <3>3. CASE file' # file
      <4>1. q = p /\ (file'.list = <<>> \/ file'.list = mem[p])
        BY <2>3, <3>1, <3>3
      <4> QED
        BY <3>1, <4>1, KeepsAll
    <3> QED
      BY <3>2, <3>3
  <2> QED
    BY <2>1, <2>2, <2>4, <2>5 DEF KeepsInv, Keeps
<1>5. CASE UNCHANGED reportVars
  BY <1>5 DEF KeepsInv, Keeps, reportVars, vars
<1> QED
  BY <1>2, <1>3, <1>4, <1>5 DEF ReportsNext

\* A run that saves has every snapshot in the file in its list, or they are
\* older than its whole list, which is full: unless another run has touched the
\* file since it loaded it.  For every number of runs, scans and limit, however
\* runs fail, die and overlap.
THEOREM OverlapCorrect == ReportsSpec => []LostOnlyToOverlap
<1> DEFINE Typed == behind \in [Proc -> BOOLEAN]
<1>1. ReportsInit => KeepsInv /\ Typed
  BY KeepsStart DEF ReportsInit
<1>2. HistoryInv /\ KeepsInv /\ Typed /\ [ReportsNext]_reportVars => KeepsInv' /\ Typed'
  BY KeepsStep
<1>3. KeepsInv => LostOnlyToOverlap
  BY DEF KeepsInv, LostOnlyToOverlap
<1> HIDE DEF Typed
<1> QED
  BY ReportsScan, HistoryCorrect, <1>1, <1>2, <1>3, PTL DEF ReportsSpec

-----------------------------------------------------------------------------
(* Provenance of the snapshots. *)

\* The results of a snapshot do not depend on what is recorded later.
LEMMA OldContentStays ==
    ASSUME HistoryInv, DOMAIN content = Time, clock' = clock + 1, UNCHANGED world,
           NEW results, content' = [content EXCEPT ![clock'] = results],
           NEW s \in Snapshot, s.at <= clock, HoldsFindings(s)
    PROVE  HoldsFindings(s)'
<1>1. s.at \in Time /\ s.at # clock' /\ s.at \in DOMAIN content
  BY DEF HistoryInv, TypeOK, Snapshot, Time
<1>2. content'[s.at] = content[s.at]
  BY <1>1
<1> QED
  BY <1>2 DEF HoldsFindings

LEMMA ReportsStart == ReportsInit => ReportsInv
<1> SUFFICES ASSUME ReportsInit PROVE ReportsInv
  OBVIOUS
<1>1. HistoryInv
  BY HistoryInit DEF ReportsInit
<1>2. Len(file.list) = 0 /\ \A p \in Proc : Len(mem[p]) = 0
  BY DEF ReportsInit, Init, NoFile
<1> QED
  BY <1>1, <1>2 DEF ReportsInv, ReportsInit

LEMMA ReportsStep == ReportsInv /\ [ReportsNext]_reportVars => ReportsInv'
<1> SUFFICES ASSUME ReportsInv, [ReportsNext]_reportVars PROVE ReportsInv'
  OBVIOUS
<1>0. HistoryInv /\ HistoryInv'
  BY ReportIsRun, HistoryStep DEF ReportsInv
<1>1. /\ file \in [state : FileState, list : Seq(Snapshot)] /\ mem \in [Proc -> Seq(Snapshot)]
      /\ clock \in Nat
  BY <1>0 DEF HistoryInv, TypeOK
<1> DEFINE Held(list) == \A i \in 1..Len(list) : HoldsFindings(list[i])
<1>2. ASSUME NEW p \in Proc, RecordReport(p) PROVE ReportsInv'
  <2>1. /\ RecordScan(p) /\ clock' = clock + 1 /\ file' = file /\ scope' = scope
        /\ UNCHANGED world
    BY <1>2 DEF RecordReport, RecordScan
  <2> DEFINE line == Line[scope[p]]
             findings == Findings(line, world.caches[clock'])
  <2>2. PICK n \in 0..Len(findings) :
          /\ mem'[p][1].complete <=> n = Len(findings)
          /\ content' = [content EXCEPT ![clock'] = Recorded(line, SubSeq(findings, 1, n))]
    BY <1>2 DEF RecordReport
  <2>3. DOMAIN content = Time /\ DOMAIN content' = Time /\ clock' \in Time
    BY <1>0, <2>1, <2>2 DEF ReportsInv, RecordScan, HistoryInv, TypeOK, Time
  <2>4. \A s \in Snapshot : s.at <= clock /\ HoldsFindings(s) => HoldsFindings(s)'
    <3> DEFINE results == Recorded(line, SubSeq(findings, 1, n))
    <3>1. content' = [content EXCEPT ![clock'] = results]
      BY <2>2
    <3> HIDE DEF results
    <3> QED
      BY <1>0, <2>1, <2>3, <3>1, OldContentStays
  <2>5. Held(file.list)'
    <3>1. Held(file.list) /\ Past(file.list)
      BY <1>0 DEF ReportsInv, HistoryInv
    <3>2. \A i \in 1..Len(file.list) : file.list[i] \in Snapshot /\ file.list[i].at <= clock
      BY <1>1, <3>1, ElementOfSeq DEF Past
    <3> QED
      BY <2>1, <2>4, <3>1, <3>2 DEF HoldsFindings
  <2>6. ASSUME NEW q \in Proc PROVE Held(mem[q])'
    <3>1. Held(mem[q]) /\ Past(mem[q])
      BY <1>0 DEF ReportsInv, HistoryInv
    <3>2. \A i \in 1..Len(mem[q]) : mem[q][i] \in Snapshot /\ mem[q][i].at <= clock
      BY <1>1, <3>1, ElementOfSeq DEF Past
    <3>3. CASE q # p
      <4>1. mem'[q] = mem[q]
        BY <1>1, <2>1, <3>3 DEF RecordScan
      <4> QED
        BY <2>4, <3>1, <3>2, <4>1 DEF HoldsFindings
    <3>4. CASE q = p
      <4> DEFINE list == mem'[p]
      <4>1. PICK complete \in BOOLEAN :
              LET s == [at |-> clock + 1, scope |-> scope[p], complete |-> complete]
              IN  /\ s \in Snapshot
                  /\ Len(list) \in Nat \ {0}
                  /\ list[1] = s
                  /\ \A i \in 1..Len(list) : i > 1 =>
                        i - 1 \in 1..Len(mem[p]) /\ list[i] = mem[p][i - 1]
        BY <1>0, <2>1, RecordedFirst
      <4>2. list[1].at = clock' /\ Line[list[1].scope] = line
        BY <2>1, <4>1
      <4>3. content'[clock'] = Recorded(line, SubSeq(findings, 1, n))
        BY <2>2, <2>3
      <4>4. HoldsFindings(mem[p][1])'
        BY <2>1, <2>2, <4>2, <4>3 DEF HoldsFindings, Holds
      <4>5. ASSUME NEW i \in 1..Len(list), i > 1 PROVE HoldsFindings(mem[p][i])'
        <5>1. i - 1 \in 1..Len(mem[p]) /\ list[i] = mem[p][i - 1]
          BY <4>1, <4>5
        <5> QED
          BY <2>4, <3>1, <3>2, <3>4, <5>1 DEF HoldsFindings
      <4>6. \A i \in 1..Len(list) : i = 1 \/ i > 1
        BY <4>1
      <4> QED
        BY <3>4, <4>4, <4>5, <4>6
    <3> QED
      BY <3>3, <3>4
  <2>7. \A q \in Proc : Held(mem[q])'
    BY <2>6
  <2> QED
    BY <1>0, <2>1, <2>3, <2>5, <2>7 DEF ReportsInv
<1>3. ASSUME NEW p \in Proc, BeginReport(p) PROVE ReportsInv'
  <2>1. file' = file /\ UNCHANGED <<world, content>>
    BY <1>3 DEF BeginReport, BeginScan
  <2>2. \A q \in Proc : mem'[q] = mem[q] \/ mem'[q] = Loaded
    BY <1>1, <1>3 DEF BeginReport, BeginScan
  <2>3. Loaded = file.list \/ Loaded = <<>>
    <3>1. Trim(file.list) = file.list
      BY <1>0, <1>1, TrimFacts DEF HistoryInv, NewestFirst, Ordered
    <3> QED
      BY <3>1 DEF Loaded
  <2>4. \A q \in Proc : \A i \in 1..Len(mem'[q]) : HoldsFindings(mem'[q][i])
    BY <2>2, <2>3 DEF ReportsInv
  <2> QED
    BY <1>0, <2>1, <2>4 DEF ReportsInv, HoldsFindings
<1>4. ASSUME NEW p \in Proc, Other(p) PROVE ReportsInv'
  <2>1. UNCHANGED <<world, content>>
    BY <1>4 DEF Other
  <2>2. \A q \in Proc : mem'[q] = mem[q] \/ mem'[q] = <<>>
    BY <1>1, <1>4 DEF Other, Interrupt, OpenTruncate, Write, Exit, Die, Leave
  <2>3. file'.list = file.list \/ file'.list = <<>> \/ file'.list = mem[p]
    BY <1>4 DEF Other, Interrupt, OpenTruncate, Write, Exit, Die, Leave, NoFile
  <2>4. \A i \in 1..Len(file'.list) : HoldsFindings(file'.list[i])
    BY <2>3 DEF ReportsInv
  <2>5. \A q \in Proc : \A i \in 1..Len(mem'[q]) : HoldsFindings(mem'[q][i])
    BY <2>2 DEF ReportsInv
  <2> QED
    BY <1>0, <2>1, <2>4, <2>5 DEF ReportsInv, HoldsFindings
<1>5. CASE UNCHANGED reportVars
  BY <1>0, <1>5 DEF ReportsInv, reportVars, vars, HoldsFindings
<1> QED
  BY <1>2, <1>3, <1>4, <1>5 DEF ReportsNext

\* Every snapshot, in the file or in a run's memory, holds what the scan of its
\* command line found at its time, and all of it if it is marked as complete:
\* through loads, overwrites, lost updates and deaths of the runs.
LEMMA ReportsCorrect == ReportsSpec => []ReportsInv
BY ReportsStart, ReportsStep, PTL DEF ReportsSpec

-----------------------------------------------------------------------------
(* The totals of a report. *)

\* The partial results of a loop that adds one result after the other.
TotalLaw(p, list, total) ==
    /\ p[0] = 0 /\ p[Len(list)] = total
    /\ p \in [0..Len(list) -> 0..UintMax]

LEMMA SaturatedFacts ==
    ASSUME NEW a \in 0..UintMax, NEW b \in Nat
    PROVE  Saturated(a, b) = (IF a + b <= UintMax THEN a + b ELSE UintMax) /\ Saturated(a, b) \in 0..UintMax
BY ParserAssumption DEF Saturated

LEMMA WrappedFacts ==
    ASSUME NEW a \in 0..UintMax, NEW b \in Nat
    PROVE  /\ (a + b) % (UintMax + 1) \in 0..UintMax
           /\ a + b <= UintMax => (a + b) % (UintMax + 1) = a + b
BY ParserAssumption

LEMMA SnapshotSteps ==
    ASSUME NEW list \in Seq(Result)
    PROVE  \E p : /\ TotalLaw(p, list, SnapshotTotal(list))
                  /\ \A k \in 1..Len(list) : p[k] = Saturated(p[k - 1], list[k].bytes)
<1> DEFINE n == Len(list)
           V == 0..UintMax
           g == [q \in (1..n) \X V |-> Saturated(q[2], list[q[1]].bytes)]
           Is(h) == h = [i \in 0..n |-> IF i = 0 THEN 0 ELSE Saturated(h[i - 1], list[i].bytes)]
           p == CHOOSE h : Is(h)
<1>1. n \in Nat /\ (\A k \in 1..n : list[k].bytes \in Nat) /\ 0 \in V
  <2>1. \A k \in 1..n : list[k] \in Result
    OBVIOUS
  <2> QED
    BY <2>1, ParserAssumption DEF Result
<1>2. g \in [(1..n) \X V -> V]
  <2>1. \A a \in V, b \in Nat : Saturated(a, b) \in V
    BY SaturatedFacts
  <2> HIDE DEF V, n
  <2> QED
    BY <1>1, <2>1
<1>3. PICK h \in [0..n -> V] : StepLaw(h, n, 0, g)
  <2> HIDE DEF n, V, g
  <2> QED
    BY <1>1, <1>2, StepsExist
<1>4. \A i \in 0..n : i # 0 => g[<<i, h[i - 1]>>] = Saturated(h[i - 1], list[i].bytes)
  <2>1. \A i \in 0..n : i # 0 => i \in 1..n /\ i - 1 \in 0..n
    BY <1>1
  <2>2. \A i \in 0..n : i # 0 => <<i, h[i - 1]>> \in (1..n) \X V
    <3> HIDE DEF n, V
    <3> QED
      BY <1>3, <2>1
  <2> QED
    BY <2>2
<1>5. Is(h)
  <2>1. h = [i \in 0..n |-> IF i = 0 THEN 0 ELSE g[<<i, h[i - 1]>>]]
    BY <1>3 DEF StepLaw
  <2> HIDE DEF g, n
  <2> QED
    BY <1>4, <2>1
<1>6. Is(p)
  <2> HIDE DEF Is
  <2> QED
    BY <1>5
<1>7. p[n] = SnapshotTotal(list)
  BY DEF SnapshotTotal
<1>8. p[0] = 0 /\ \A k \in 1..n : p[k] = Saturated(p[k - 1], list[k].bytes)
  <2>1. 0 \in 0..n /\ \A k \in 1..n : k \in 0..n /\ k # 0
    BY <1>1
  <2> HIDE DEF n, p
  <2> QED
    BY <1>6, <2>1
<1>9. ASSUME NEW k \in 1..n, p[k - 1] \in V PROVE p[k] \in V
  <2>1. list[k].bytes \in Nat /\ p[k] = Saturated(p[k - 1], list[k].bytes)
    BY <1>1, <1>8
  <2> HIDE DEF n, g, p
  <2> QED
    BY <1>9, <2>1, SaturatedFacts
<1>10. p \in [0..n -> V]
  <2>1. p = [k \in 0..n |-> p[k]]
    <3> HIDE DEF p
    <3> QED
      BY <1>6
  <2>2. p[0] \in V /\ n \in Nat
    <3> HIDE DEF p, V, n, g
    <3> QED
      BY <1>1, <1>8
  <2>3. \A k \in 1..n : p[k - 1] \in V => p[k] \in V
    BY <1>9
  <2> HIDE DEF p, V, n
  <2> QED
    BY <2>1, <2>2, <2>3, StepsStay
<1> HIDE DEF p
<1> QED
  BY <1>7, <1>8, <1>10 DEF TotalLaw

LEMMA WrappedSteps ==
    ASSUME NEW list \in Seq(Result)
    PROVE  \E p : /\ TotalLaw(p, list, WrappedTotal(list))
                  /\ \A k \in 1..Len(list) : p[k] = (p[k - 1] + list[k].bytes) % (UintMax + 1)
<1> DEFINE n == Len(list)
           V == 0..UintMax
           g == [q \in (1..n) \X V |-> (q[2] + list[q[1]].bytes) % (UintMax + 1)]
           Is(h) == h = [i \in 0..n |-> IF i = 0 THEN 0 ELSE (h[i - 1] + list[i].bytes) % (UintMax + 1)]
           p == CHOOSE h : Is(h)
<1>1. n \in Nat /\ (\A k \in 1..n : list[k].bytes \in Nat) /\ 0 \in V
  <2>1. \A k \in 1..n : list[k] \in Result
    OBVIOUS
  <2> QED
    BY <2>1, ParserAssumption DEF Result
<1>2. g \in [(1..n) \X V -> V]
  <2>1. \A a \in V, b \in Nat : (a + b) % (UintMax + 1) \in V
    BY WrappedFacts
  <2> HIDE DEF V, n
  <2> QED
    BY <1>1, <2>1
<1>3. PICK h \in [0..n -> V] : StepLaw(h, n, 0, g)
  <2> HIDE DEF n, V, g
  <2> QED
    BY <1>1, <1>2, StepsExist
<1>4. \A i \in 0..n : i # 0 => g[<<i, h[i - 1]>>] = (h[i - 1] + list[i].bytes) % (UintMax + 1)
  <2>1. \A i \in 0..n : i # 0 => i \in 1..n /\ i - 1 \in 0..n
    BY <1>1
  <2>2. \A i \in 0..n : i # 0 => <<i, h[i - 1]>> \in (1..n) \X V
    <3> HIDE DEF n, V
    <3> QED
      BY <1>3, <2>1
  <2> QED
    BY <2>2
<1>5. Is(h)
  <2>1. h = [i \in 0..n |-> IF i = 0 THEN 0 ELSE g[<<i, h[i - 1]>>]]
    BY <1>3 DEF StepLaw
  <2> HIDE DEF g, n
  <2> QED
    BY <1>4, <2>1
<1>6. Is(p)
  <2> HIDE DEF Is
  <2> QED
    BY <1>5
<1>7. p[n] = WrappedTotal(list)
  BY DEF WrappedTotal
<1>8. p[0] = 0 /\ \A k \in 1..n : p[k] = (p[k - 1] + list[k].bytes) % (UintMax + 1)
  <2>1. 0 \in 0..n /\ \A k \in 1..n : k \in 0..n /\ k # 0
    BY <1>1
  <2> HIDE DEF n, p
  <2> QED
    BY <1>6, <2>1
<1>9. ASSUME NEW k \in 1..n, p[k - 1] \in V PROVE p[k] \in V
  <2>1. list[k].bytes \in Nat /\ p[k] = (p[k - 1] + list[k].bytes) % (UintMax + 1)
    BY <1>1, <1>8
  <2> HIDE DEF n, g, p
  <2> QED
    BY <1>9, <2>1, WrappedFacts
<1>10. p \in [0..n -> V]
  <2>1. p = [k \in 0..n |-> p[k]]
    <3> HIDE DEF p
    <3> QED
      BY <1>6
  <2>2. p[0] \in V /\ n \in Nat
    <3> HIDE DEF p, V, n, g
    <3> QED
      BY <1>1, <1>8
  <2>3. \A k \in 1..n : p[k - 1] \in V => p[k] \in V
    BY <1>9
  <2> HIDE DEF p, V, n
  <2> QED
    BY <2>1, <2>2, <2>3, StepsStay
<1> HIDE DEF p
<1> QED
  BY <1>7, <1>8, <1>10 DEF TotalLaw

\* The bytes of a list of results, in whole numbers.
Bytes == [r \in Result |-> r.bytes]

LEMMA BytesType == Bytes \in [Result -> Nat] /\ \A r \in Result : Bytes[r] = r.bytes
BY DEF Bytes, Result

\* A total that fits is the sum; one that does not is cut off, or wraps.
LEMMA TotalsExact ==
    ASSUME NEW list \in Seq(Result)
    PROVE  LET sum == ListSum(Bytes, list) IN
           /\ sum \in Nat
           /\ SnapshotTotal(list) = IF sum <= UintMax THEN sum ELSE UintMax
           /\ sum <= UintMax => WrappedTotal(list) = sum
<1> DEFINE n == Len(list)
           f == [i \in 1..n |-> Bytes[list[i]]]
           Sum(k) == SumFunctionOnSet(f, 1..k)
           Capped(k) == IF Sum(k) <= UintMax THEN Sum(k) ELSE UintMax
<1>1. n \in Nat /\ \A k \in 1..n : list[k] \in Result
  OBVIOUS
<1>2. \A k \in 1..n : list[k].bytes \in Nat /\ f[k] = list[k].bytes /\ f[k] \in Nat
  BY <1>1, BytesType DEF Result
<1>3. ListSum(Bytes, list) = Sum(n)
  BY DEF ListSum
<1>4. PICK p : /\ TotalLaw(p, list, SnapshotTotal(list))
               /\ \A k \in 1..n : p[k] = Saturated(p[k - 1], list[k].bytes)
  BY SnapshotSteps
<1>5. PICK q : /\ TotalLaw(q, list, WrappedTotal(list))
               /\ \A k \in 1..n : q[k] = (q[k - 1] + list[k].bytes) % (UintMax + 1)
  BY WrappedSteps
<1>6. /\ p[0] = 0 /\ p[n] = SnapshotTotal(list) /\ p \in [0..n -> 0..UintMax]
      /\ q[0] = 0 /\ q[n] = WrappedTotal(list) /\ q \in [0..n -> 0..UintMax]
  BY <1>4, <1>5 DEF TotalLaw
<1>7. Sum(0) = 0
  <2>1. 1..0 = {}
    OBVIOUS
  <2> QED
    BY <2>1, SumEmpty
<1>8. \A k \in 1..n : Sum(k) = Sum(k - 1) + f[k] /\ Sum(k - 1) \in Nat
  <2> HIDE DEF f, n
  <2> QED
    BY <1>1, <1>2, SumSteps
<1> HIDE DEF f, n, Sum
<1> DEFINE Exact(k) == /\ Sum(k) \in Nat /\ p[k] = Capped(k)
                       /\ Sum(k) <= UintMax => q[k] = Sum(k)
           N == {k \in 0..n : Exact(k)}
<1>9. 0 \in N
  <2>1. 0 \in 0..n /\ Capped(0) = 0
    BY <1>1, <1>7, ParserAssumption
  <2> HIDE DEF Capped
  <2> QED
    BY <1>6, <1>7, <2>1
<1>10. ASSUME NEW k \in 0..(n - 1), k \in N PROVE k + 1 \in N
  <2> DEFINE m == k + 1
             b == list[m].bytes
  <2>1. m \in 1..n /\ m \in 0..n /\ m - 1 = k /\ k \in 0..n
    BY <1>1
  <2>2. /\ b \in Nat /\ Sum(m) = Sum(k) + b /\ p[m] = Saturated(p[k], b)
        /\ q[m] = (q[k] + b) % (UintMax + 1)
    <3> HIDE DEF m
    <3> QED
      BY <1>2, <1>4, <1>5, <1>8, <2>1
  <2>3. /\ Sum(k) \in Nat /\ p[k] = Capped(k) /\ p[k] \in 0..UintMax /\ q[k] \in 0..UintMax
        /\ Sum(k) <= UintMax => q[k] = Sum(k)
    <3>1. Sum(k) \in Nat /\ p[k] = Capped(k) /\ (Sum(k) <= UintMax => q[k] = Sum(k))
      <4>1. Exact(k)
        <5> HIDE DEF Exact
        <5> QED
          BY <1>10
      <4> QED
        BY <4>1
    <3>2. p[k] \in 0..UintMax /\ q[k] \in 0..UintMax
      BY <1>6, <2>1
    <3> QED
      BY <3>1, <3>2
  <2> HIDE DEF m, b
  <2>4. p[m] = IF p[k] + b <= UintMax THEN p[k] + b ELSE UintMax
    BY <2>2, <2>3, SaturatedFacts
  <2>5. q[k] + b <= UintMax => q[m] = q[k] + b
    BY <2>2, <2>3, WrappedFacts
  <2>6. Sum(m) \in Nat /\ p[m] = Capped(m) /\ (Sum(m) <= UintMax => q[m] = Sum(m))
    <3>1. Sum(m) \in Nat /\ Sum(k) <= Sum(m) /\ UintMax \in Nat
      BY <2>2, <2>3, ParserAssumption
    <3>2. CASE Sum(m) <= UintMax
      <4>1. Sum(k) <= UintMax /\ p[k] = Sum(k) /\ q[k] = Sum(k) /\ Sum(k) + b <= UintMax
        BY <2>2, <2>3, <3>1, <3>2
      <4>2. p[m] = Sum(k) + b /\ q[m] = Sum(k) + b
        BY <2>4, <2>5, <4>1
      <4> QED
        BY <2>2, <3>1, <3>2, <4>2
    <3>3. CASE ~(Sum(m) <= UintMax)
      <4>1. p[m] = UintMax
        BY <2>2, <2>3, <2>4, <3>1, <3>3
      <4> QED
        BY <3>1, <3>3, <4>1
    <3> QED
      BY <3>2, <3>3
  <2> QED
    BY <2>1, <2>6 DEF m
<1>11. n \in N
  <2> HIDE DEF N
  <2>1. 0..n \subseteq N
    BY <1>1, <1>9, <1>10, EveryNumberUpTo
  <2> QED
    BY <1>1, <2>1
<1>12. Sum(n) \in Nat /\ SnapshotTotal(list) = Capped(n) /\ (Sum(n) <= UintMax => WrappedTotal(list) = Sum(n))
  BY <1>6, <1>11
<1> QED
  BY <1>3, <1>12

\* What a line without filters lets through is what it covers.
LEMMA CoveredIsShown ==
    ASSUME NEW line \in ParsedArgs, Unfiltered(line), NEW r \in Result
    PROVE  Covered(line, r) <=> Asked(line, r) /\ (line.command = "scan" \/ Passes(line, r))
<1> DEFINE cover == Coverage(line)
           names == {r.name} \cup r.aliases
           listed == line.command \in {"scan", "analyze", "stats"}
<1>1. /\ line.targets \in Seq(STRING) /\ line.category \in STRING /\ DefaultCategory \in STRING
      /\ EffectiveCategory(line) \in STRING /\ r.category \in STRING
  BY SelectionAssumption DEF ParsedArgs, EffectiveCategory, Result
<1>2. cover.targets # {} => (cover.targets \cap names # {} <=> \E t \in Range(line.targets) : t \in names)
  BY DEF Coverage
<1>3. cover.targets = {} <=> line.targets = <<>>
  <2>1. cover.targets = Range(line.targets)
    BY DEF Coverage
  <2>2. CASE Len(line.targets) = 0
    <3>1. line.targets = <<>>
      BY <1>1, <2>2, EmptySeq
    <3> QED
      BY <2>1, <3>1 DEF Range
  <2>3. CASE Len(line.targets) # 0
    <3>1. 1 \in DOMAIN line.targets /\ line.targets # <<>>
      BY <1>1, <2>3
    <3>2. line.targets[1] \in Range(line.targets)
      BY <3>1 DEF Range
    <3> QED
      BY <2>1, <3>1, <3>2
  <2> QED
    BY <2>2, <2>3
<1>4. Asked(line, r) <=> (cover.targets # {} => cover.targets \cap names # {})
  BY <1>2, <1>3 DEF Asked
<1>5. CASE listed
  <2>1. cover.category = "" /\ cover.excludes = {}
    BY <1>5 DEF Coverage
  <2>2. line.command = "scan" \/ Passes(line, r)
    BY <1>5 DEF Unfiltered, Passes, ByActivity, BySize, Selective
  <2> QED
    BY <1>4, <2>1, <2>2 DEF Covered
<1>6. CASE ~listed
  <2>1. /\ cover.category = CanonicalCategory(EffectiveCategory(line))
        /\ cover.excludes = Range(line.excludes)
    BY <1>6 DEF Coverage
  <2>2. cover.category = "" <=> EffectiveCategory(line) = ""
    BY <1>1, <2>1 DEF CanonicalCategory
  <2>3. Passes(line, r) <=> ByCategory(line, r) /\ ByName(line, r)
    BY <1>6 DEF Unfiltered, Passes, ByActivity, BySize, Selective
  <2>4. ByCategory(line, r) <=> (cover.category # "" => CanonicalCategory(r.category) = cover.category)
    BY <2>1, <2>2 DEF ByCategory
  <2>5. ByName(line, r) <=> r.name \notin cover.excludes
    BY <2>1 DEF ByName
  <2> QED
    BY <1>4, <1>6, <2>3, <2>4, <2>5 DEF Covered
<1> QED
  BY <1>5, <1>6

LEMMA FindingsType ==
    ASSUME NEW line, NEW caches \in Seq(Result)
    PROVE  Findings(line, caches) \in Seq(Result)
BY FilteredFacts DEF Findings

\* A complete scan without filters records what is on the disk.
LEMMA RecordedBytes ==
    ASSUME NEW line \in ParsedArgs, Unfiltered(line), NEW caches \in Seq(Result)
    PROVE  LET recorded == Recorded(line, Findings(line, caches)) IN
           /\ recorded \in Seq(Result)
           /\ ListSum(Bytes, recorded) =
                 SumFunctionOnSet([i \in 1..Len(caches) |-> IF Covered(line, caches[i]) THEN caches[i].bytes ELSE 0],
                                  1..Len(caches))
<1> DEFINE n == Len(caches)
           A == {r \in Range(caches) : Asked(line, r)}
           found == Findings(line, caches)
           B == IF line.command = "scan" THEN Result ELSE {r \in Range(found) : Passes(line, r)}
           recorded == Recorded(line, found)
           v == [r \in Result |-> IF r \in B THEN Bytes[r] ELSE 0]
           w == [r \in Result |-> IF r \in A THEN v[r] ELSE 0]
           f == [i \in 1..n |-> IF Covered(line, caches[i]) THEN caches[i].bytes ELSE 0]
<1>1. n \in Nat /\ \A i \in 1..n : caches[i] \in Result /\ caches[i] \in Range(caches)
  BY DEF Range
<1>2. found = Filtered(caches, A) /\ found \in Seq(Result) /\ Range(found) = Range(caches) \cap A
  <2>1. found = Filtered(caches, A)
    BY DEF Findings
  <2> HIDE DEF A, found
  <2> QED
    BY <2>1, FilteredFacts
<1>3. v \in [Result -> Nat]
  BY BytesType
<1>4. recorded \in Seq(Result) /\ ListSum(Bytes, recorded) = ListSum(v, found)
  <2>1. CASE line.command = "scan"
    <3>1. recorded = found
      BY <2>1 DEF Recorded
    <3>2. v = Bytes
      <4>1. v = [r \in Result |-> Bytes[r]]
        BY <2>1
      <4> QED
        BY <4>1, BytesType
    <3> HIDE DEF v, recorded
    <3> QED
      BY <1>2, <3>1, <3>2
  <2>2. CASE line.command # "scan"
    <3>1. recorded = Filtered(found, B)
      BY <2>2 DEF Recorded, Shown
    <3>2. Filtered(found, B) \in Seq(Result)
      <4> HIDE DEF B, found
      <4> QED
        BY <1>2, FilteredFacts
    <3>3. ListSum(Bytes, Filtered(found, B)) = ListSum(v, found)
      <4> HIDE DEF B, found
      <4> QED
        BY <1>2, BytesType, FilteredSum
    <3> HIDE DEF B, found, recorded, v
    <3> QED
      BY <3>1, <3>2, <3>3
  <2> QED
    BY <2>1, <2>2
<1>5. ListSum(v, found) = ListSum(w, caches)
  <2> HIDE DEF A, v, found
  <2> QED
    BY <1>2, <1>3, FilteredSum
<1>6. \A i \in 1..n : w[caches[i]] = f[i] /\ f[i] \in Int
  <2> SUFFICES ASSUME NEW i \in 1..n PROVE w[caches[i]] = f[i] /\ f[i] \in Int
    OBVIOUS
  <2> DEFINE r == caches[i]
  <2>1. r \in Result /\ r \in Range(caches) /\ Bytes[r] = r.bytes /\ r.bytes \in Nat
    BY <1>1, BytesType DEF Result
  <2>2. r \in A <=> Asked(line, r)
    BY <2>1
  <2>3. r \in A => (r \in B <=> line.command = "scan" \/ Passes(line, r))
    <3> HIDE DEF A, found
    <3> QED
      BY <1>2, <2>1
  <2>4. Covered(line, r) <=> r \in A /\ r \in B
    BY <2>1, <2>2, <2>3, CoveredIsShown
  <2>5. w[r] = IF r \in A /\ r \in B THEN r.bytes ELSE 0
    <3> HIDE DEF A, B
    <3> QED
      BY <2>1
  <2>6. f[i] = IF Covered(line, r) THEN r.bytes ELSE 0
    OBVIOUS
  <2> HIDE DEF w, f, A, B, r
  <2>7. w[r] = f[i] /\ f[i] \in Int
    BY <2>1, <2>4, <2>5, <2>6
  <2> QED
    BY <2>7 DEF r
<1>7. ListSum(w, caches) = SumFunctionOnSet(f, 1..n)
  <2> DEFINE g == [i \in 1..n |-> w[caches[i]]]
  <2>1. ListSum(w, caches) = SumFunctionOnSet(g, 1..n)
    BY DEF ListSum
  <2>2. \A i \in 1..n : g[i] \in Int /\ g[i] = f[i]
    <3> HIDE DEF w, f
    <3> QED
      BY <1>6
  <2>3. IsFiniteSet(1..n)
    BY <1>1, FS_Interval
  <2> HIDE DEF g, f, n
  <2> QED
    BY <2>1, <2>2, <2>3, SumSame
<1> HIDE DEF recorded, v, w, found
<1>8. ListSum(Bytes, recorded) = SumFunctionOnSet(f, 1..n)
  BY <1>4, <1>5, <1>7
<1> USE DEF recorded, found
<1> QED
  BY <1>4, <1>8, Zenon

-----------------------------------------------------------------------------
(* What a report says. *)

LEMMA OwnScanStart == ReportsInit => OwnScanFirst
BY DEF ReportsInit, Init, OwnScanFirst, Reporting

LEMMA OwnScanStep == HistoryInv /\ OwnScanFirst /\ [ReportsNext]_reportVars => OwnScanFirst'
<1> SUFFICES ASSUME HistoryInv, OwnScanFirst, [ReportsNext]_reportVars,
                    NEW p \in Proc, Reporting(p)'
             PROVE  Len(mem'[p]) > 0 /\ mem'[p][1].scope = scope'[p]
  BY DEF OwnScanFirst
<1>0. [Next]_vars
  BY ReportIsRun
<1>1. /\ pc \in [Proc -> PC] /\ mem \in [Proc -> Seq(Snapshot)] /\ scope \in [Proc -> Scope]
      /\ pc'[p] \in {"saving", "writing", "shown"}
  BY DEF HistoryInv, TypeOK, Reporting
<1>2. ASSUME pc[p] \in {"saving", "writing", "shown"}, mem'[p] = mem[p], scope'[p] = scope[p]
      PROVE  Len(mem'[p]) > 0 /\ mem'[p][1].scope = scope'[p]
  BY <1>2 DEF OwnScanFirst, Reporting
<1>3. ASSUME NEW q \in Proc, RecordScan(q)
      PROVE  Len(mem'[p]) > 0 /\ mem'[p][1].scope = scope'[p]
  <2>1. CASE q = p
    <3>1. PICK complete \in BOOLEAN :
            LET s == [at |-> clock + 1, scope |-> scope[p], complete |-> complete]
            IN  Len(mem'[p]) \in Nat \ {0} /\ mem'[p][1] = s
      BY <1>3, <2>1, RecordedFirst
    <3>2. scope' = scope
      BY <1>3 DEF RecordScan
    <3> QED
      BY <3>1, <3>2
  <2>2. CASE q # p
    <3>1. pc'[p] = pc[p] /\ mem'[p] = mem[p] /\ scope'[p] = scope[p]
      BY <1>1, <1>3, <2>2 DEF RecordScan
    <3> QED
      BY <1>1, <1>2, <3>1
  <2> QED
    BY <2>1, <2>2
<1>4. ASSUME NEW q \in Proc, BeginScan(q)
      PROVE  Len(mem'[p]) > 0 /\ mem'[p][1].scope = scope'[p]
  <2>1. p # q
    BY <1>1, <1>4 DEF BeginScan
  <2>2. pc'[p] = pc[p] /\ mem'[p] = mem[p] /\ scope'[p] = scope[p]
    BY <1>1, <1>4, <2>1 DEF BeginScan
  <2> QED
    BY <1>1, <1>2, <2>2
<1>5. ASSUME NEW q \in Proc, Interrupt(q) \/ OpenTruncate(q) \/ Write(q)
      PROVE  Len(mem'[p]) > 0 /\ mem'[p][1].scope = scope'[p]
  <2>1. mem' = mem /\ scope' = scope /\ pc[p] \in {"saving", "writing", "shown"}
    BY <1>1, <1>5 DEF Interrupt, OpenTruncate, Write
  <2> QED
    BY <1>2, <2>1
<1>6. ASSUME NEW q \in Proc, Exit(q) \/ Die(q)
      PROVE  Len(mem'[p]) > 0 /\ mem'[p][1].scope = scope'[p]
  <2>1. p # q
    BY <1>1, <1>6 DEF Exit, Die, Leave
  <2>2. pc'[p] = pc[p] /\ mem'[p] = mem[p] /\ scope'[p] = scope[p]
    BY <1>1, <1>6, <2>1 DEF Exit, Die, Leave
  <2> QED
    BY <1>1, <1>2, <2>2
<1>7. CASE UNCHANGED vars
  BY <1>1, <1>2, <1>7 DEF vars
<1> QED
  BY <1>0, <1>3, <1>4, <1>5, <1>6, <1>7 DEF Next

\* What the snapshot s of a run is made of.
LEMMA SnapshotFacts ==
    ASSUME ReportsInv, NEW p \in Proc, NEW i \in 1..Len(mem[p])
    PROVE  /\ mem[p][i] \in Snapshot /\ world.caches[mem[p][i].at] \in Seq(Result)
           /\ Line[mem[p][i].scope] \in ParsedArgs /\ HoldsFindings(mem[p][i])
<1>1. mem[p] \in Seq(Snapshot)
  BY DEF ReportsInv, HistoryInv, TypeOK
<1>2. mem[p][i] \in Snapshot
  BY <1>1, ElementOfSeq
<1>3. world \in Worlds
  BY DEF ReportsInv
<1> QED
  BY <1>2, <1>3, ReportsAssumption DEF Snapshot, ReportsInv

\* The total of a complete scan without filters is what it covers on the disk.
LEMMA TotalIsOnDisk ==
    ASSUME ReportsInv, NEW p \in Proc, NEW i \in 1..Len(mem[p]), mem[p][i].complete,
           NEW line, line = Line[mem[p][i].scope], Unfiltered(line), OnDisk(line, mem[p][i].at) <= UintMax
    PROVE  /\ OnDisk(line, mem[p][i].at) \in Nat
           /\ SnapshotTotal(content[mem[p][i].at]) = OnDisk(line, mem[p][i].at)
<1> DEFINE s == mem[p][i]
           caches == world.caches[s.at]
           found == Findings(line, caches)
           results == content[s.at]
<1>1. caches \in Seq(Result) /\ line \in ParsedArgs /\ Holds(s, caches, results)
  BY SnapshotFacts DEF HoldsFindings
<1>2. found \in Seq(Result)
  BY <1>1, FindingsType
<1>3. results = Recorded(line, found)
  <2>1. PICK n \in 0..Len(found) : (s.complete <=> n = Len(found)) /\ results = Recorded(line, SubSeq(found, 1, n))
    BY <1>1 DEF Holds
  <2>2. SubSeq(found, 1, Len(found)) = found
    <3> HIDE DEF found
    <3> QED
      BY <1>2, SubSeqFull
  <2> HIDE DEF found, results
  <2> QED
    BY <2>1, <2>2
<1>4. results \in Seq(Result) /\ ListSum(Bytes, results) = OnDisk(line, s.at)
  <2> DEFINE recorded == Recorded(line, Findings(line, caches))
  <2>1. recorded \in Seq(Result) /\ ListSum(Bytes, recorded) =
           SumFunctionOnSet([k \in 1..Len(caches) |-> IF Covered(line, caches[k]) THEN caches[k].bytes ELSE 0],
                            1..Len(caches))
    <3> HIDE DEF caches
    <3> QED
      BY <1>1, RecordedBytes
  <2>2. results = recorded
    BY <1>3
  <2> HIDE DEF recorded, results
  <2> QED
    BY <2>1, <2>2 DEF OnDisk
<1> HIDE DEF results
<1>5. OnDisk(line, s.at) \in Nat /\ SnapshotTotal(results) = OnDisk(line, s.at)
  BY <1>4, TotalsExact
<1> QED
  BY <1>5 DEF results

LEMMA GrowthState == ReportsInv /\ OwnScanFirst => GrowthIsReal
<1> SUFFICES ASSUME ReportsInv, OwnScanFirst, NEW p \in Proc, Reporting(p), Len(mem[p]) > 1,
                    Comparable(mem[p][1], mem[p][2]),
                    OnDisk(Line[scope[p]], mem[p][1].at) <= UintMax,
                    OnDisk(Line[scope[p]], mem[p][2].at) <= UintMax,
                    OnDisk(Line[scope[p]], mem[p][1].at) > MaxInt
                       <=> OnDisk(Line[scope[p]], mem[p][2].at) > MaxInt
             PROVE  LatestGrowth(Totals(mem[p])) =
                       OnDisk(Line[scope[p]], mem[p][1].at) - OnDisk(Line[scope[p]], mem[p][2].at)
  BY DEF GrowthIsReal
<1> DEFINE s == mem[p][1]
           t == mem[p][2]
           totals == Totals(mem[p])
<1>1. 1 \in 1..Len(mem[p]) /\ 2 \in 1..Len(mem[p]) /\ Len(mem[p]) \in Nat
  BY DEF ReportsInv, HistoryInv, TypeOK
<1>2. /\ s.complete /\ t.complete /\ Line[s.scope] = Line[scope[p]]
      /\ Unfiltered(Line[s.scope]) /\ Unfiltered(Line[t.scope])
      /\ Coverage(Line[t.scope]) = Coverage(Line[s.scope])
  BY DEF Comparable, OwnScanFirst
<1>3. OnDisk(Line[t.scope], t.at) = OnDisk(Line[scope[p]], t.at)
  <2>1. \A r : Covered(Line[t.scope], r) = Covered(Line[scope[p]], r)
    BY <1>2 DEF Covered
  <2> QED
    BY <2>1 DEF OnDisk
<1>4. /\ OnDisk(Line[s.scope], s.at) \in Nat
      /\ SnapshotTotal(content[s.at]) = OnDisk(Line[s.scope], s.at)
  BY <1>1, <1>2, TotalIsOnDisk
<1>5. /\ OnDisk(Line[t.scope], t.at) \in Nat
      /\ SnapshotTotal(content[t.at]) = OnDisk(Line[t.scope], t.at)
  BY <1>1, <1>2, <1>3, TotalIsOnDisk
<1>6. totals[1] = SnapshotTotal(content[s.at]) /\ totals[2] = SnapshotTotal(content[t.at])
      /\ Len(totals) = Len(mem[p])
  BY <1>1 DEF Totals
<1>7. LatestGrowth(totals) = Int64(Int64(totals[1]) - Int64(totals[2]))
  <2>1. totals # <<>> /\ 1 < Limit(totals)
    <3> HIDE DEF totals
    <3> QED
      BY <1>1, <1>6 DEF Limit, Least
  <2> HIDE DEF totals
  <2> QED
    BY <2>1 DEF LatestGrowth, Delta
<1>8. ASSUME NEW a \in 0..UintMax, NEW b \in 0..UintMax, a > MaxInt <=> b > MaxInt
      PROVE  Int64(Int64(a) - Int64(b)) = a - b
  <2>1. UintMax = 2 * MaxInt + 1 /\ MaxInt \in Nat
    BY InsightsAssumption, ReportsAssumption
  <2>2. /\ \A n \in Nat : n <= MaxInt => Int64(n) = n
        /\ \A n \in Nat : n > MaxInt => Int64(n) = n - (2 * MaxInt + 2)
        /\ \A n \in Int : -MaxInt - 1 <= n /\ n <= MaxInt => Int64(n) = n
    BY <2>1 DEF Int64
  <2>3. Int64(a) - Int64(b) = a - b
    BY <1>8, <2>1, <2>2
  <2>4. a - b \in Int /\ -MaxInt - 1 <= a - b /\ a - b <= MaxInt
    BY <1>8, <2>1
  <2> QED
    BY <2>2, <2>3, <2>4
<1>9. totals[1] \in 0..UintMax /\ totals[2] \in 0..UintMax /\ (totals[1] > MaxInt <=> totals[2] > MaxInt)
  <2>1. /\ totals[1] = OnDisk(Line[scope[p]], s.at) /\ totals[1] \in Nat
        /\ totals[2] = OnDisk(Line[scope[p]], t.at) /\ totals[2] \in Nat
    BY <1>2, <1>3, <1>4, <1>5, <1>6, Zenon
  <2> HIDE DEF totals
  <2> QED
    BY <2>1, InsightsAssumption, ReportsAssumption
<1>10. LatestGrowth(totals) = totals[1] - totals[2]
  <2> HIDE DEF totals
  <2> QED
    BY <1>7, <1>8, <1>9
<1> QED
  BY <1>2, <1>3, <1>4, <1>5, <1>6, <1>10

\* The growth that a report shows is what the caches grew by between two
\* comparable scans, whatever other runs did to the file in between.
THEOREM GrowthCorrect == ReportsSpec => []GrowthIsReal
<1>1. ReportsInv /\ OwnScanFirst /\ [ReportsNext]_reportVars => OwnScanFirst'
  BY OwnScanStep DEF ReportsInv
<1> QED
  BY <1>1, ReportsCorrect, OwnScanStart, GrowthState, PTL DEF ReportsSpec

LEMMA TrendState == ReportsInv /\ OwnScanFirst => TrendEndsInTotal
<1> SUFFICES ASSUME ReportsInv, OwnScanFirst, NEW p \in Proc, Reporting(p),
                    Line[scope[p]].command # "scan"
             PROVE  LET line == Line[scope[p]]
                        results == Shown(line, content[mem[p][1].at])
                        last == Totals(mem[p])[1]
                    IN  line.command = "stats"
                           \/ (last < UintMax /\ \A r \in Range(results) : r.usable \/ r.bytes = 0) =>
                              last = ShownTotal(line, results)
  BY DEF TrendEndsInTotal
<1> DEFINE s == mem[p][1]
           line == Line[scope[p]]
           caches == world.caches[s.at]
           found == Findings(line, caches)
           kept == content[s.at]
           results == Shown(line, kept)
           last == Totals(mem[p])[1]
<1>1. 1 \in 1..Len(mem[p]) /\ s.scope = scope[p]
  BY DEF ReportsInv, HistoryInv, TypeOK, OwnScanFirst
<1>2. caches \in Seq(Result) /\ Holds(s, caches, kept)
  BY <1>1, SnapshotFacts DEF HoldsFindings
<1>3. found \in Seq(Result)
  BY <1>2, FindingsType
<1>4. PICK n \in 0..Len(found) : kept = Recorded(line, SubSeq(found, 1, n))
  BY <1>1, <1>2 DEF Holds
<1> DEFINE part == SubSeq(found, 1, n)
<1>5. part \in Seq(Result)
  <2>1. \A k \in 1..n : found[k] \in Result
    <3> HIDE DEF found
    <3> QED
      BY <1>3, ElementOfSeq
  <2> HIDE DEF found
  <2> QED
    BY <1>3, <2>1, SubSeqProperties
<1>6. kept \in Seq(Result) /\ results = kept
  <2> DEFINE C == {r \in Range(part) : Passes(line, r)}
  <2>1. kept = Filtered(part, C)
    BY <1>4 DEF Recorded, Shown
  <2>2. kept \in Seq(Result) /\ Range(kept) = Range(part) \cap C
    <3> HIDE DEF part, kept, C
    <3> QED
      BY <1>5, <2>1, FilteredFacts
  <2> DEFINE D == {r \in Range(kept) : Passes(line, r)}
  <2>3. results = Filtered(kept, D)
    BY DEF Shown
  <2>4. \A k \in 1..Len(kept) : kept[k] \in D
    <3>1. \A k \in 1..Len(kept) : kept[k] \in Range(kept)
      <4> HIDE DEF kept
      <4> QED
        BY <2>2 DEF Range
    <3> HIDE DEF part, kept
    <3> QED
      BY <2>2, <3>1
  <2> HIDE DEF kept, results, D
  <2> QED
    BY <2>2, <2>3, <2>4, FilteredAll
<1>7. last = SnapshotTotal(kept)
  BY <1>1 DEF Totals
<1>8. CASE line.command = "stats"
  <2>1. ShownTotal(line, results) = SnapshotTotal(results)
    BY <1>8 DEF ShownTotal
  <2> HIDE DEF results, kept, last
  <2>2. last = ShownTotal(line, results)
    BY <1>6, <1>7, <2>1
  <2> USE DEF results, kept, last
  <2> QED
    BY <2>2, Zenon
<1>9. ASSUME line.command # "stats", last < UintMax, \A r \in Range(results) : r.usable \/ r.bytes = 0
      PROVE  last = ShownTotal(line, results)
  <2> DEFINE U == {r \in Range(results) : r.usable}
             w == [r \in Result |-> IF r \in U THEN Bytes[r] ELSE 0]
             few == Filtered(results, U)
  <2>0. results \in Seq(Result)
    <3> HIDE DEF results, kept
    <3> QED
      BY <1>6
  <2>1. ShownTotal(line, results) = WrappedTotal(few)
    BY <1>9 DEF ShownTotal, InsightsTotal
  <2>2. ListSum(Bytes, results) \in Nat /\ last = ListSum(Bytes, results)
    <3>1. last = SnapshotTotal(results)
      <4> HIDE DEF results, kept, last
      <4> QED
        BY <1>6, <1>7
    <3> HIDE DEF results, last
    <3>2. last < UintMax
      BY <1>9
    <3> QED
      BY <2>0, <3>1, <3>2, TotalsExact, ParserAssumption
  <2>3. few \in Seq(Result) /\ ListSum(Bytes, few) = ListSum(w, results)
    <3> HIDE DEF results, U
    <3>1. few \in Seq(Result)
      BY <2>0, FilteredFacts
    <3>2. ListSum(Bytes, few) = ListSum(w, results)
      BY <2>0, BytesType, FilteredSum
    <3> QED
      BY <3>1, <3>2
  <2>4. ListSum(w, results) = ListSum(Bytes, results)
    <3> DEFINE m == Len(results)
               f == [i \in 1..m |-> w[results[i]]]
               g == [i \in 1..m |-> Bytes[results[i]]]
    <3>1. ListSum(w, results) = SumFunctionOnSet(f, 1..m) /\ ListSum(Bytes, results) = SumFunctionOnSet(g, 1..m)
      BY DEF ListSum
    <3>2. ASSUME NEW i \in 1..m PROVE f[i] \in Int /\ f[i] = g[i]
      <4> DEFINE r == results[i]
      <4> HIDE DEF results
      <4>1. r \in Result /\ r \in Range(results) /\ Bytes[r] = r.bytes /\ r.bytes \in Nat
        <5>1. i \in 1..Len(results) /\ results[i] \in Result
          BY <2>0
        <5>2. results[i] \in Range(results)
          BY <2>0, <5>1 DEF Range
        <5> HIDE DEF r
        <5>3. r \in Result /\ r \in Range(results)
          BY <5>1, <5>2 DEF r
        <5> QED
          BY <5>3, BytesType DEF Result
      <4>2. r \in U \/ r.bytes = 0
        BY <1>9, <4>1
      <4>3. w[r] = IF r \in U THEN Bytes[r] ELSE 0
        BY <4>1
      <4>4. w[r] \in Int /\ w[r] = Bytes[r]
        <5> HIDE DEF w, U, r
        <5> QED
          BY <4>1, <4>2, <4>3
      <4> HIDE DEF w, r
      <4>5. f[i] = w[r] /\ g[i] = Bytes[r]
        BY DEF r
      <4> QED
        BY <4>4, <4>5
    <3>3. IsFiniteSet(1..m)
      <4> HIDE DEF results
      <4> QED
        BY <2>0, FS_Interval
    <3> HIDE DEF f, g, m, w
    <3>4. SumFunctionOnSet(f, 1..m) = SumFunctionOnSet(g, 1..m)
      BY <3>2, <3>3, SumSame
    <3> QED
      BY <3>1, <3>4
  <2>5. ListSum(Bytes, few) <= UintMax
    <3>1. last <= UintMax
      <4> HIDE DEF last
      <4>1. last < UintMax /\ last \in Nat
        BY <1>9, <2>2
      <4> QED
        BY <4>1, ParserAssumption
    <3> HIDE DEF last, few, w, results
    <3> QED
      BY <2>2, <2>3, <2>4, <3>1
  <2> HIDE DEF few, w, results, last
  <2>6. WrappedTotal(few) = ListSum(Bytes, few)
    BY <2>3, <2>5, TotalsExact
  <2>7. last = ShownTotal(line, results)
    BY <2>1, <2>2, <2>3, <2>4, <2>6
  <2> QED
    BY <2>7
<1> QED
  BY <1>8, <1>9, Zenon

\* The trend of a report ends in the total that the report shows.
THEOREM TrendCorrect == ReportsSpec => []TrendEndsInTotal
<1>1. ReportsInv /\ OwnScanFirst /\ [ReportsNext]_reportVars => OwnScanFirst'
  BY OwnScanStep DEF ReportsInv
<1> QED
  BY <1>1, ReportsCorrect, OwnScanStart, TrendState, PTL DEF ReportsSpec

-----------------------------------------------------------------------------
(* The command line. *)

LEMMA ScaledExact ==
    ASSUME NEW digits \in Nat, NEW multiplier \in Nat \ {0}
    PROVE  Scaled(digits, multiplier) =
              IF digits * multiplier <= UintMax THEN digits * multiplier ELSE 0
<1> DEFINE most == UintMax \div multiplier
<1>1. most \in Nat /\ multiplier * most <= UintMax /\ UintMax < multiplier * (most + 1)
  BY ParserAssumption
<1> HIDE DEF most
<1>2. ASSUME digits <= most PROVE digits * multiplier <= UintMax
  BY <1>1, <1>2, ParserAssumption
<1>3. ASSUME digits > most PROVE digits * multiplier > UintMax
  <2>1. digits >= most + 1
    BY <1>1, <1>3
  <2> DEFINE more == digits - (most + 1)
  <2>3. more \in Nat /\ digits = most + 1 + more
    BY <1>1, <2>1
  <2> HIDE DEF more
  <2>4. more * multiplier \in Nat
    BY <2>3
  <2>5. (most + 1 + more) * multiplier = (most + 1) * multiplier + more * multiplier
    BY <1>1, <2>3
  <2>2. digits * multiplier >= multiplier * (most + 1)
    BY <1>1, <2>3, <2>4, <2>5
  <2> QED
    BY <1>1, <2>2, ParserAssumption
<1>4. digits # -1 /\ multiplier # 0 /\ (digits <= most \/ digits > most)
  BY <1>1
<1>5. Scaled(digits, multiplier) = IF digits > most THEN 0 ELSE digits * multiplier
  BY <1>4 DEF Scaled, most
<1> DEFINE product == digits * multiplier
<1>6. product \in Nat /\ (digits <= most => product <= UintMax) /\ (digits > most => product > UintMax)
  BY <1>2, <1>3
<1>7. Scaled(digits, multiplier) = IF digits > most THEN 0 ELSE product
  BY <1>5
<1> HIDE DEF product
<1>8. Scaled(digits, multiplier) = IF product <= UintMax THEN product ELSE 0
  BY <1>1, <1>4, <1>6, <1>7, ParserAssumption
<1> QED
  BY <1>8 DEF product

LEMMA UnitTypes ==
    ASSUME NEW suffix \in STRING
    PROVE  SizeUnit(suffix) \in Nat /\ DurationUnit(suffix) \in Nat
<1>1. Kilo * Kilo \in Nat /\ Kilo * Kilo * Kilo \in Nat /\ Kilo * Kilo * Kilo * Kilo \in Nat
  BY ParserAssumption
<1>2. SizeUnit(suffix) \in Nat
  BY <1>1, ParserAssumption DEF SizeUnit
<1>3. DurationUnit(suffix) \in Nat
  BY DEF DurationUnit, Hour, Day
<1> QED
  BY <1>2, <1>3

\* A number on the command line is what was written, if that is a number in a
\* known unit that fits in 64 bits, and 0 in every other case: nothing wraps
\* around, and nothing that fits is turned away.
THEOREM NumbersAreExact ==
    ASSUME NEW text \in NumberText, NEW unit \in Nat,
           NEW number, \/ unit = SizeUnit(text.suffix) /\ number = ParseSize(text)
                       \/ unit = DurationUnit(text.suffix) /\ number = ParseDuration(text)
    PROVE  number = IF text.digits # -1 /\ unit # 0 /\ text.digits * unit <= UintMax
                    THEN text.digits * unit ELSE 0
<1>1. text.digits \in Nat \cup {-1}
  BY DEF NumberText
<1>2. number = Scaled(text.digits, unit)
  BY DEF ParseSize, ParseDuration
<1>3. CASE text.digits = -1 \/ unit = 0
  BY <1>2, <1>3 DEF Scaled
<1>4. CASE text.digits # -1 /\ unit # 0
  <2>1. text.digits \in Nat /\ unit \in Nat \ {0}
    BY <1>1, <1>4
  <2>2. Scaled(text.digits, unit) =
          IF text.digits * unit <= UintMax THEN text.digits * unit ELSE 0
    BY <2>1, ScaledExact
  <2> QED
    BY <1>2, <1>4, <2>2
<1> QED
  BY <1>3, <1>4

\* An option changes its own field of the arguments and no other.
One(old, o, name, new) == IF o = name THEN new ELSE old
SetsOnly(new, old, o, v) ==
    /\ new.command = old.command /\ new.targets = old.targets /\ new.flags = old.flags
    /\ new.excludes = One(old.excludes, o, "exclude", Append(old.excludes, v.name))
    /\ new.category = One(old.category, o, "category", v.name)
    /\ new.sort = One(old.sort, o, "sort", v.name)
    /\ new.report = One(old.report, o, "report", v.name)
    /\ new.minSize = One(old.minSize, o, "min-size", ParseSize(v.number))
    /\ new.maxSize = One(old.maxSize, o, "max-size", ParseSize(v.number))
    /\ new.target = One(old.target, o, "target", ParseSize(v.number))
    /\ new.stale = One(old.stale, o, "stale", ParseDuration(v.number))

LEMMA SetFields ==
    ASSUME NEW args \in ParsedArgs, NEW o \in Settings, NEW v \in Token
    PROVE  Set(args, o, v) \in ParsedArgs /\ SetsOnly(Set(args, o, v), args, o, v)
<1>1. v.name \in STRING /\ v.number \in NumberText
  BY DEF Token
<1>2. ParseSize(v.number) \in Nat /\ ParseDuration(v.number) \in Nat
  <2>1. v.number.suffix \in STRING
    BY <1>1 DEF NumberText
  <2>2. SizeUnit(v.number.suffix) \in Nat /\ DurationUnit(v.number.suffix) \in Nat
    BY <2>1, UnitTypes
  <2> DEFINE size == SizeUnit(v.number.suffix)
             duration == DurationUnit(v.number.suffix)
  <2> HIDE DEF size, duration
  <2>3. v.number.digits \in Nat \cup {-1}
    BY <1>1 DEF NumberText
  <2>4. Scaled(v.number.digits, size) \in Nat /\ Scaled(v.number.digits, duration) \in Nat
    BY <2>2, <2>3 DEF Scaled, size, duration
  <2> QED
    BY <2>4 DEF ParseSize, ParseDuration, size, duration
<1>3. Append(args.excludes, v.name) \in Seq(STRING)
  <2>1. args.excludes \in Seq(STRING)
    BY DEF ParsedArgs
  <2> QED
    BY <1>1, <2>1, AppendProperties
<1> QED
  BY <1>1, <1>2, <1>3 DEF Set, Settings, ParsedArgs, SetsOnly, One

\* Options with different names do not depend on their order.
THEOREM OptionsCommute ==
    ASSUME NEW args \in ParsedArgs, NEW o \in Settings, NEW p \in Settings, o # p,
           NEW v \in Token, NEW w \in Token
    PROVE  Set(Set(args, o, v), p, w) = Set(Set(args, p, w), o, v)
<1> DEFINE first == Set(args, o, v)
           second == Set(args, p, w)
           vw == Set(first, p, w)
           wv == Set(second, o, v)
<1>1. /\ first \in ParsedArgs /\ SetsOnly(first, args, o, v)
      /\ second \in ParsedArgs /\ SetsOnly(second, args, p, w)
  BY SetFields
<1> HIDE DEF first, second
<1>2. /\ vw \in ParsedArgs /\ SetsOnly(vw, first, p, w)
      /\ wv \in ParsedArgs /\ SetsOnly(wv, second, o, v)
  BY <1>1, SetFields
<1> HIDE DEF vw, wv
<1>3. /\ vw.command = wv.command /\ vw.targets = wv.targets /\ vw.flags = wv.flags
      /\ vw.excludes = wv.excludes /\ vw.category = wv.category /\ vw.sort = wv.sort
      /\ vw.report = wv.report /\ vw.minSize = wv.minSize /\ vw.maxSize = wv.maxSize
      /\ vw.target = wv.target /\ vw.stale = wv.stale
  <2>1. /\ vw.command = wv.command /\ vw.targets = wv.targets /\ vw.flags = wv.flags
    BY <1>1, <1>2, Zenon DEF SetsOnly
  <2>2. vw.excludes = wv.excludes
    BY <1>1, <1>2, Zenon DEF SetsOnly, One
  <2>3. vw.category = wv.category /\ vw.sort = wv.sort
    BY <1>1, <1>2 DEF SetsOnly, One
  <2>4. vw.report = wv.report /\ vw.minSize = wv.minSize /\ vw.maxSize = wv.maxSize
    BY <1>1, <1>2 DEF SetsOnly, One
  <2>5. vw.target = wv.target /\ vw.stale = wv.stale
    BY <1>1, <1>2 DEF SetsOnly, One
  <2> QED
    BY <2>1, <2>2, <2>3, <2>4, <2>5
<1>4. vw = wv
  <2> DEFINE Copy(x) ==
        [command |-> x.command, targets |-> x.targets, excludes |-> x.excludes,
         category |-> x.category, sort |-> x.sort, report |-> x.report, minSize |-> x.minSize,
         maxSize |-> x.maxSize, target |-> x.target, stale |-> x.stale, flags |-> x.flags]
  <2>1. \A x \in ParsedArgs : x = Copy(x)
    BY SMTT(60) DEF ParsedArgs
  <2>2. Copy(vw) = Copy(wv)
    BY <1>3, Zenon
  <2> QED
    BY <1>2, <2>1, <2>2
<1> QED
  BY <1>4 DEF first, second, vw, wv
=============================================================================
