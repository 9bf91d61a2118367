------------------------- MODULE CleanCommandProofs -------------------------
(***************************************************************************)
(* Proofs about CleanCommand for every number of caches and files, every   *)
(* word size and every command line.                                       *)
(***************************************************************************)
EXTENDS CleanCommand, FoldLemmas, TLAPS

USE DEF Uint

\* The wrapping subtraction is the exact one wherever the ledger uses it.
LEMMA MinusExact ==
    ASSUME NEW a \in Uint, NEW b \in Uint, b <= a
    PROVE  Minus(a, b) = a - b /\ Minus(a, b) \in Uint
BY EngineAssumption DEF Minus

\* The wrapping sum stays in the word, and is exact below a bound that fits.
LEMMA PlusExact ==
    ASSUME NEW a \in Uint, NEW b \in Uint
    PROVE  /\ Plus(a, b) \in Uint
           /\ \A c \in Uint : a + b <= c => Plus(a, b) = a + b
BY EngineAssumption DEF Plus

LEMMA LineTypes ==
    ASSUME LedgerTypeOK
    PROVE  /\ args.target \in Uint
           /\ args.stale \in BOOLEAN /\ args.safe \in BOOLEAN /\ args.force \in BOOLEAN
           /\ args.dryRun \in BOOLEAN /\ args.json \in BOOLEAN
           /\ result.bytesRemoved \in Uint
           /\ result.success \in BOOLEAN /\ result.error \in BOOLEAN
BY CommandAssumption DEF LedgerTypeOK

LEMMA LedgerInit == Init => LedgerInv
<1> SUFFICES ASSUME Init PROVE LedgerInv
  OBVIOUS
<1> USE DEF Init, EngineInit
<1>1. LedgerTypeOK
  <2>1. args.target \in Uint
    BY CommandAssumption
  <2>2. disk \in [Entry -> File]
    BY CommandAssumption
  <2>3. walk.entry \in Entry
    BY EngineAssumption
  <2>4. QED
    BY <2>1, <2>2, <2>3, EngineAssumption DEF LedgerTypeOK, PC, Op, NewResult
<1>2. QED
  BY <1>1, LineTypes DEF LedgerInv, WalkOps

\* A step that leaves the ledger's variables alone, control state included.
LEMMA LedgerStutter ==
    ASSUME LedgerInv, UNCHANGED <<pc, op, args, total, remaining, walk, result, answer>>,
           disk' \in [Entry -> File]
    PROVE  LedgerInv'
BY DEF LedgerInv, LedgerTypeOK, WalkOps

\* The steps of the scan change its results, and nothing else.
LEMMA ScanFrame ==
    ASSUME Scan
    PROVE  /\ pc = "scan" /\ pc' \in {"scan", "filter"}
           /\ UNCHANGED <<engineVars, args, plan, idx, total, remaining, answer, exitCode,
                          interrupted>>
           /\ pc' = "filter" => EndScan
BY DEF Scan, BeginMeasure, Measure, StopShort, EndScan, Scanning

\* Before the loop nothing is counted; the engine is not running.
LEMMA LedgerPlanning ==
    ASSUME LedgerInv, Scan \/ Filter \/ Select \/ Confirm
    PROVE  LedgerInv'
<1> USE DEF LedgerInv, LedgerTypeOK, WalkOps, engineVars
<1>1. CASE Scan
  BY <1>1, LineTypes, ScanFrame DEF PC
<1>2. CASE Filter
  BY <1>2, LineTypes DEF Filter, PC
<1>3. CASE Select
  <2>1. pc' \in {"done", "loop", "confirm"}
    BY <1>3 DEF Select, AfterSelect
  <2>2. QED
    BY <1>3, <2>1, LineTypes DEF Select, PC
<1>4. CASE Confirm
  BY <1>4, LineTypes DEF Confirm, PC
<1>5. QED
  BY <1>1, <1>2, <1>3, <1>4

\* A call starts with what is left of the target as its budget.
LEMMA LedgerBegin ==
    ASSUME LedgerInv, BeginCache
    PROVE  LedgerInv'
<1> USE DEF LedgerInv, LedgerTypeOK, WalkOps, loopVars, BeginCache
<1>1. /\ NewResult \in [success : BOOLEAN, error : BOOLEAN, bytesRemoved : Uint]
      /\ NewResult.bytesRemoved = 0
  BY EngineAssumption DEF NewResult
<1>2. CASE args.stale
  <2>1. StaleStart(plan[idx], remaining)
    BY <1>2
  <2>2. /\ walk'.budget = remaining /\ walk'.bytes = walk.bytes /\ walk'.entry = walk.entry
        /\ DOMAIN walk' = DOMAIN walk
    BY <2>1 DEF StaleStart
  <2>3. /\ op' \in {"thrown", "returned", "next"}
        /\ result' \in [success : BOOLEAN, error : BOOLEAN, bytesRemoved : Uint]
        /\ result'.bytesRemoved = 0
    BY <2>1, <1>1 DEF StaleStart, Return
  <2>4. QED
    BY <1>2, <2>1, <2>2, <2>3, LineTypes DEF StaleStart, PC, Op
<1>3. CASE ~args.stale
  <2>1. RemoveStart(plan[idx])
    BY <1>3
  <2>2. /\ walk'.budget = 0 /\ walk'.bytes = walk.bytes /\ walk'.entry = walk.entry
        /\ DOMAIN walk' = DOMAIN walk
    BY <2>1 DEF RemoveStart
  <2>3. /\ op' \in {"returned", "removing"}
        /\ result' \in [success : BOOLEAN, error : BOOLEAN, bytesRemoved : Uint]
        /\ result'.bytesRemoved = 0
    BY <2>1, <1>1 DEF RemoveStart, Return
  <2>4. QED
    BY <1>3, <2>1, <2>2, <2>3, LineTypes, EngineAssumption DEF RemoveStart, PC, Op
<1>4. QED
  BY <1>2, <1>3

\* No step of the engine moves the ledger beyond what is left: a file is
\* unlinked only if it fits into what the walk has not yet used.
LEMMA LedgerEngine ==
    ASSUME LedgerInv, CleanStep
    PROVE  LedgerInv'
<1> USE DEF LedgerInv, LedgerTypeOK, WalkOps, loopVars, CleanStep, Return
<1>0. /\ pc = "clean" /\ pc' = pc
      /\ UNCHANGED <<args, total, remaining, answer>>
      /\ args.target \in Uint /\ args.stale \in BOOLEAN
      /\ result.bytesRemoved \in Uint
      /\ UintMax \in Nat
  BY LineTypes, EngineAssumption
<1>1. ASSUME NEW e \in Entry, StaleVisit(e)
      PROVE  LedgerInv'
  <2>1. /\ walk'.budget = walk.budget /\ walk'.bytes = walk.bytes /\ walk'.entry = e
        /\ DOMAIN walk' = DOMAIN walk
    BY <1>1 DEF StaleVisit
  <2>2. QED
    BY <1>0, <1>1, <2>1 DEF StaleVisit, Op
<1>2. ASSUME NEW e \in Entry, RemoveUnlink(e)
      PROVE  LedgerInv'
  <2>1. /\ walk'.budget = walk.budget /\ walk'.bytes = walk.bytes /\ walk'.entry = walk.entry
        /\ DOMAIN walk' = DOMAIN walk
    BY <1>2 DEF RemoveUnlink
  <2>2. disk' \in [Entry -> File]
    BY <1>0, <1>2 DEF RemoveUnlink, Unlink, File, Age
  <2>3. QED
    BY <1>0, <1>2, <2>1, <2>2 DEF RemoveUnlink
<1>3. CASE StaleEnd
  BY <1>0, <1>3 DEF StaleEnd, Throw, Op
<1>4. CASE StaleAge
  BY <1>0, <1>4 DEF StaleAge, Throw, Op
<1>5. CASE StaleSize
  <2>1. CASE Unreadable(walk.entry)
    BY <1>0, <1>5, <2>1 DEF StaleSize, Throw, Op
  <2>2. CASE ~Unreadable(walk.entry)
    <3> DEFINE bytes == disk[walk.entry].size
    <3>1. bytes \in Uint
      BY <1>0 DEF File
    <3>2. /\ walk'.budget = walk.budget /\ walk'.bytes = bytes /\ walk'.entry = walk.entry
          /\ DOMAIN walk' = DOMAIN walk
      BY <1>5, <2>2 DEF StaleSize
    <3>3. /\ UNCHANGED <<result, disk>> /\ op = "size" /\ op' \in {"next", "unlink"}
          /\ op' = "unlink" => ~TooLarge(bytes, walk.budget, result.bytesRemoved)
      BY <1>5, <2>2 DEF StaleSize
    <3>4. op' = "unlink" /\ args.target > 0 => result.bytesRemoved + bytes <= remaining
      <4> SUFFICES ASSUME op' = "unlink", args.target > 0
                   PROVE  result.bytesRemoved + bytes <= remaining
        OBVIOUS
      <4>1. walk.budget = remaining /\ remaining > 0 /\ result.bytesRemoved <= remaining
        BY <1>0, <3>3
      <4>2. Minus(remaining, result.bytesRemoved) = remaining - result.bytesRemoved
        BY <1>0, <4>1, MinusExact
      <4>3. ~(bytes > remaining - result.bytesRemoved)
        BY <3>3, <4>1, <4>2 DEF TooLarge
      <4>4. QED
        BY <1>0, <3>1, <4>1, <4>3
    <3>5. QED
      BY <1>0, <3>1, <3>2, <3>3, <3>4 DEF Op
  <2>3. QED
    BY <2>1, <2>2
<1>6. CASE StaleUnlink
  <2>1. disk' \in [Entry -> File] /\ UNCHANGED walk /\ op = "unlink"
    BY <1>0, <1>6 DEF StaleUnlink, Unlink, File, Age
  <2>2. PICK res \in [success : BOOLEAN, error : BOOLEAN, bytesRemoved : Uint] :
          /\ Proceed(res)
          /\ res.bytesRemoved \in {result.bytesRemoved,
                                   Plus(result.bytesRemoved, walk.bytes)}
    <3>1. Plus(result.bytesRemoved, walk.bytes) \in Uint
      BY <1>0, PlusExact
    <3> DEFINE Type == [success : BOOLEAN, error : BOOLEAN, bytesRemoved : Uint]
               counted == [result EXCEPT !.bytesRemoved = Plus(@, walk.bytes)]
               failed == [result EXCEPT !.error = TRUE]
    <3>2. /\ counted \in Type /\ counted.bytesRemoved = Plus(result.bytesRemoved, walk.bytes)
          /\ failed \in Type /\ failed.bytesRemoved = result.bytesRemoved
          /\ result \in Type
      BY <1>0, <3>1
    <3> HIDE DEF Type, counted, failed
    <3>3. Proceed(counted) \/ Proceed(result) \/ Proceed(failed)
      BY <1>6 DEF StaleUnlink, counted, failed
    <3>4. QED
      BY <3>2, <3>3 DEF Type
  <2>3. args.target > 0 => res.bytesRemoved <= remaining
    BY <1>0, <2>1, <2>2, PlusExact
  <2>4. /\ op' \in {"returned", "next"}
        /\ result' \in [success : BOOLEAN, error : BOOLEAN, bytesRemoved : Uint]
        /\ result'.bytesRemoved = res.bytesRemoved
    BY <2>2 DEF Proceed
  <2>5. QED
    BY <1>0, <2>1, <2>3, <2>4 DEF Op
<1>7. CASE RemoveEnd
  <2>1. /\ op = "removing" /\ op' = "returned" /\ UNCHANGED <<disk, walk>>
        /\ result' \in [success : BOOLEAN, error : BOOLEAN, bytesRemoved : Uint]
        /\ result'.bytesRemoved = result.bytesRemoved
    BY <1>0, <1>7 DEF RemoveEnd
  <2>2. QED
    BY <1>0, <2>1 DEF Op
<1>8. QED
  BY <1>1, <1>2, <1>3, <1>4, <1>5, <1>6, <1>7 DEF EngineStep

\* What a cache has freed moves from the target's rest to the total.
LEMMA LedgerEnd ==
    ASSUME LedgerInv, EndCache
    PROVE  LedgerInv'
<1> USE DEF LedgerInv, LedgerTypeOK, WalkOps
<1> DEFINE r == result.bytesRemoved
<1>1. /\ r \in Uint /\ args.target \in Uint /\ UintMax \in Nat
      /\ UNCHANGED <<args, disk, walk, result, answer>>
      /\ pc = "clean" /\ op' = "idle" /\ pc' \in {"done", "loop"}
      /\ total' = Plus(total, r)
      /\ args.target > 0 => remaining' = Left(r)
      /\ ~(args.target > 0) => remaining' = remaining
      /\ pc' = "loop" => ~Reached(remaining')
  BY LineTypes, EngineAssumption DEF EndCache
<1>2. CASE args.target > 0
  <2>1. r <= remaining /\ total + remaining = args.target
    BY <1>1, <1>2
  <2>2. total' = total + r
    <3>1. total + r <= args.target
      BY <1>1, <2>1
    <3>2. QED
      BY <1>1, <3>1, PlusExact
  <2>3. remaining' = remaining - r
    BY <1>1, <1>2, <2>1, MinusExact DEF Left
  <2>4. total' \in Uint /\ remaining' \in Uint /\ total' + remaining' = args.target
    BY <1>1, <2>1, <2>2, <2>3
  <2>5. QED
    BY <1>1, <1>2, <2>4 DEF Reached, PC, Op
<1>3. CASE ~(args.target > 0)
  BY <1>1, <1>3, PlusExact DEF PC, Op
<1>4. QED
  BY <1>2, <1>3

LEMMA LedgerStep == LedgerInv /\ [Next]_vars => LedgerInv'
<1> SUFFICES ASSUME LedgerInv, [Next]_vars PROVE LedgerInv'
  OBVIOUS
<1>0. disk \in [Entry -> File]
  BY DEF LedgerInv, LedgerTypeOK
<1>1. CASE Prompt
  BY <1>1, LedgerPlanning DEF Prompt
<1>2. CASE Scan \/ Filter
  BY <1>2, LedgerPlanning
<1>3. CASE BeginCache
  BY <1>3, LedgerBegin
<1>4. CASE CleanStep
  BY <1>4, LedgerEngine
<1>5. CASE EndCache
  BY <1>5, LedgerEnd
<1>6. CASE Crash
  BY <1>6 DEF Crash, LedgerInv, LedgerTypeOK, WalkOps, PC, engineVars, loopVars
<1>7. CASE Exit
  BY <1>7 DEF Exit, LedgerInv, LedgerTypeOK, WalkOps, PC, engineVars
<1>8. CASE Signal
  BY <1>0, <1>8, LedgerStutter DEF Signal, engineVars
<1>9. CASE Outside
  <2>1. disk' \in [Entry -> File]
    BY <1>0, <1>9, EngineAssumption
       DEF Outside, Elsewhere, Vanish, Rewrite, Withdraw, File, Age
  <2>2. UNCHANGED <<op, walk, result>>
    BY <1>9 DEF Outside, Elsewhere, Vanish, Rewrite, Withdraw, Disturb
  <2>3. QED
    BY <1>9, <2>1, <2>2, LedgerStutter DEF Outside, loopVars
<1>10. CASE Terminated \/ UNCHANGED vars
  BY <1>0, <1>10, LedgerStutter DEF Terminated, vars, engineVars
<1>11. QED
  BY <1>1, <1>2, <1>3, <1>4, <1>5, <1>6, <1>7, <1>8, <1>9, <1>10 DEF Next, Work

THEOREM LedgerCorrect == Spec => []LedgerInv
BY LedgerInit, LedgerStep, PTL DEF Spec

\* --target holds across all caches: what is counted never exceeds it, and
\* counted and left always add up to it.
THEOREM BudgetCorrect == Spec => []WithinBudget
<1>1. LedgerInv => WithinBudget
  BY LineTypes DEF LedgerInv, LedgerTypeOK, WithinBudget, Reported
<1>2. QED
  BY <1>1, LedgerCorrect, PTL

\* A used-up target never turns into "no limit".
THEOREM LimitIsKept == Spec => []NoAccidentalLimitLift
<1>1. LedgerInv => NoAccidentalLimitLift
  BY LineTypes DEF LedgerInv, LedgerTypeOK, NoAccidentalLimitLift
<1>2. QED
  BY <1>1, LedgerCorrect, PTL

LEMMA ConsentStep == ConsentInv /\ [Next]_vars => ConsentInv'
<1> SUFFICES ASSUME ConsentInv, [Next]_vars PROVE ConsentInv'
  OBVIOUS
<1> USE DEF ConsentInv, Consent
<1>1. ASSUME UNCHANGED <<pc, args, answer, gone>> PROVE ConsentInv'
  BY <1>1
<1>2. CASE Scan
  BY <1>2, ScanFrame DEF engineVars
<1>3. CASE Filter
  BY <1>3 DEF Filter, engineVars
<1>4. CASE Select
  BY <1>4 DEF Select, AfterSelect, engineVars
<1>5. CASE Confirm
  BY <1>5 DEF Confirm, engineVars
<1>6. CASE BeginCache
  BY <1>6 DEF BeginCache, StaleStart, RemoveStart, loopVars
<1>7. CASE CleanStep
  BY <1>7 DEF CleanStep, loopVars
<1>8. CASE EndCache
  BY <1>8 DEF EndCache
<1>9. CASE Crash \/ Exit
  BY <1>9 DEF Crash, Exit, engineVars, loopVars
<1>10. CASE Signal \/ Outside \/ Terminated \/ UNCHANGED vars
  BY <1>1, <1>10 DEF Signal, Outside, Terminated, Elsewhere, Vanish, Rewrite, Withdraw,
                     Disturb, vars, engineVars, loopVars
<1>11. QED
  BY <1>2, <1>3, <1>4, <1>5, <1>6, <1>7, <1>8, <1>9, <1>10 DEF Next, Prompt, Work

LEMMA ConsentInvariant == Spec => []ConsentInv
<1>1. Init => ConsentInv
  BY DEF Init, EngineInit, ConsentInv, Consent
<1> QED
  BY <1>1, ConsentStep, PTL DEF Spec

\* Nothing is deleted without --force or the user's yes, nor by a dry run.
THEOREM ConsentCorrect == Spec => []Consent
<1>1. ConsentInv => Consent
  BY DEF ConsentInv
<1> QED
  BY <1>1, ConsentInvariant, PTL

LEMMA VerdictStep == LedgerInv /\ VerdictInv /\ [Next]_vars => VerdictInv'
<1> SUFFICES ASSUME LedgerInv, VerdictInv, [Next]_vars PROVE VerdictInv'
  OBVIOUS
<1>0. /\ disk \in [Entry -> File] /\ walk.entry \in Entry
      /\ DOMAIN walk = {"root", "budget", "todo", "entry", "bytes"}
      /\ pc # "clean" => op \in {"idle", "thrown"}
  BY DEF LedgerInv, LedgerTypeOK, Op
<1> USE DEF VerdictInv
<1>1. CASE CleanStep
  <2>1. ASSUME NEW e \in Entry, StaleVisit(e) PROVE VerdictInv'
    <3>1. walk'.entry = e
      BY <1>0, <2>1 DEF StaleVisit
    <3>2. QED
      BY <2>1, <3>1 DEF StaleVisit
  <2>2. ASSUME NEW e \in Entry, RemoveUnlink(e) PROVE VerdictInv'
    BY <2>2 DEF RemoveUnlink
  <2>3. CASE StaleEnd \/ StaleUnlink \/ RemoveEnd
    BY <2>3 DEF StaleEnd, StaleUnlink, RemoveEnd, Proceed, Throw, Return
  <2>4. CASE StaleAge
    BY <1>0, <2>4 DEF StaleAge, Throw, Return, TooYoung
  <2>5. CASE StaleSize
    <3>1. walk'.entry = walk.entry
      BY <1>0, <2>5 DEF StaleSize
    <3>2. QED
      BY <2>5, <3>1 DEF StaleSize, Throw, Return
  <2>6. QED
    BY <1>1, <2>1, <2>2, <2>3, <2>4, <2>5 DEF CleanStep, EngineStep
<1>2. CASE Prompt \/ Scan \/ Filter \/ Crash \/ Exit \/ Signal \/ Terminated \/ UNCHANGED vars
  BY <1>2, ScanFrame DEF Prompt, Select, Confirm, Filter, Crash, Exit, Signal, Terminated,
              vars, engineVars, loopVars
<1>3. CASE BeginCache
  BY <1>3 DEF BeginCache, StaleStart, RemoveStart, Return
<1>4. CASE EndCache
  BY <1>4 DEF EndCache
<1>5. CASE Outside
  <2>1. UNCHANGED <<op, walk>>
    BY <1>5 DEF Outside, Elsewhere, Vanish, Rewrite, Withdraw, Disturb
  <2>2. \A e \in Entry \ Volatile : disk[e].age # "fresh" => disk'[e].age # "fresh"
    BY <1>0, <1>5 DEF Outside, Elsewhere, Vanish, Rewrite, Withdraw, File
  <2>3. QED
    BY <1>0, <2>1, <2>2
<1>6. QED
  BY <1>1, <1>2, <1>3, <1>4, <1>5 DEF Next, Work

\* One step of any kind: what a stale run unlinks is a regular file that is
\* stale, unless somebody else rewrites it.
LEMMA UnlinkStep ==
    ASSUME LedgerInv, VerdictInv, [Next]_vars, args.stale,
           NEW e \in (gone' \ gone) \ Volatile
    PROVE  e \in Regular /\ disk[e].age = "stale"
<1>1. CASE CleanStep
  <2>1. pc = "clean" /\ op # "removing" /\ disk \in [Entry -> File] /\ walk.entry \in Entry
    BY <1>1 DEF CleanStep, LedgerInv, LedgerTypeOK
  <2>2. StaleUnlink /\ ~Unreadable(walk.entry) /\ gone' = gone \cup {walk.entry}
    BY <1>1, <2>1 DEF CleanStep, EngineStep, StaleVisit, RemoveUnlink, StaleEnd, StaleAge,
                      StaleSize, StaleUnlink, RemoveEnd, Unlink
  <2>3. e = walk.entry /\ e \in Regular /\ disk[e].age # "fresh" /\ disk[e].age # "absent"
    BY <2>2 DEF StaleUnlink, VerdictInv, Unreadable
  <2>4. QED
    BY <2>1, <2>3 DEF File, Age
<1>2. CASE ~CleanStep
  <2>1. gone' = gone
    BY <1>2, ScanFrame DEF Next, Work, Prompt, Select, Confirm, Filter, BeginCache, StaleStart,
       RemoveStart, EndCache, Crash, Exit, Signal, Outside, Elsewhere, Vanish, Rewrite,
       Withdraw, Disturb, Terminated, vars, engineVars, loopVars
  <2>2. QED
    BY <2>1
<1>3. QED
  BY <1>1, <1>2

\* --stale deletes stale regular files and nothing else.
THEOREM StaleOnly == Spec => OnlyStaleUnlinked
<1> DEFINE Step == args.stale => \A e \in (gone' \ gone) \ Volatile :
                                    e \in Regular /\ disk[e].age = "stale"
<1>1. LedgerInv /\ VerdictInv /\ [Next]_vars => [Step]_vars
  BY UnlinkStep
<1>2. Init => VerdictInv
  BY DEF Init, EngineInit, VerdictInv
<1>3. QED
  BY <1>1, <1>2, LedgerCorrect, VerdictStep, PTL DEF Spec, OnlyStaleUnlinked

-----------------------------------------------------------------------------
(* The plan *)

Acc == [picked : Seq(Root), planned : Nat]
NoneYet == [picked |-> <<>>, planned |-> 0]

\* What the fold of applyTarget builds.
TargetIter(order) ==
    CHOOSE h : h = [T \in SUBSET DOMAIN order |->
                      IF T = {} THEN [picked |-> <<>>, planned |-> 0]
                      ELSE TakeFitting(h[T \ {Max(T)}], order[Max(T)])]

LEMMA TakeFittingType ==
    ASSUME NEW acc \in Acc, NEW r \in Root, scan.bytes[r] \in Nat
    PROVE  TakeFitting(acc, r) \in Acc
<1>1. acc.picked \in Seq(Root) /\ acc.planned \in Nat
  BY DEF Acc
<1>2. Append(acc.picked, r) \in Seq(Root) /\ acc.planned + scan.bytes[r] \in Nat
  BY <1>1
<1> DEFINE more == [picked |-> Append(acc.picked, r), planned |-> acc.planned + scan.bytes[r]]
<1>3. more \in Acc
  BY <1>2 DEF Acc
<1>4. TakeFitting(acc, r) \in {acc, more}
  BY DEF TakeFitting
<1> QED
  BY <1>3, <1>4

\* applyTarget looks at one cache after the other.
LEMMA TargetSteps ==
    ASSUME NEW order \in Seq(Root), \A r \in Root : scan.bytes[r] \in Nat
    PROVE  \E p \in [0..Len(order) -> Acc] :
              /\ p[0] = NoneYet /\ p[Len(order)].picked = ApplyTarget(order)
              /\ \A k \in 1..Len(order) : p[k] = TakeFitting(p[k - 1], order[k])
<1> DEFINE n == Len(order)
           Is(h) == h = [T \in SUBSET DOMAIN order |->
                           IF T = {} THEN [picked |-> <<>>, planned |-> 0]
                           ELSE TakeFitting(h[T \ {Max(T)}], order[Max(T)])]
           it == TargetIter(order)
<1>1. n \in Nat /\ DOMAIN order = 1..n /\ \A k \in 1..n : order[k] \in Root
  OBVIOUS
<1>2. ApplyTarget(order) = it[DOMAIN order].picked
  BY DEF ApplyTarget, FoldLeft, MapThenFoldSet, TargetIter
<1>0. NoneYet \in Acc
  BY DEF NoneYet, Acc
<1>3. Is(it)
  <2> DEFINE g == [q \in (1..n) \X Acc |-> TakeFitting(q[2], order[q[1]])]
  <2>1. g \in [(1..n) \X Acc -> Acc]
    BY <1>1, TakeFittingType
  <2>2. PICK h \in [SUBSET (1..n) -> Acc] : ListLaw(h, n, Acc, NoneYet, g)
    <3> HIDE DEF g, n
    <3> QED
      BY <1>0, <1>1, <2>1, ListFoldExists
  <2>3. \A T \in SUBSET (1..n) :
           h[T] = IF T = {} THEN NoneYet ELSE TakeFitting(h[T \ {Max(T)}], order[Max(T)])
    BY <2>2 DEF ListLaw
  <2>4. Is(h)
    BY <1>1, <2>3 DEF NoneYet
  <2> QED
    BY <2>4 DEF TargetIter
<1> DEFINE p == [k \in 0..n |-> it[1..k]]
<1>4. p[0] = NoneYet
  <2>1. 1..0 = {}
    OBVIOUS
  <2> QED
    BY <1>1, <1>3, <2>1 DEF NoneYet
<1>5. ASSUME NEW k \in 1..n PROVE p[k] = TakeFitting(p[k - 1], order[k])
  <2>1. /\ 1..k \in SUBSET DOMAIN order /\ k - 1 \in 0..n /\ k \in 0..n
        /\ Max(1..k) = k /\ (1..k) \ {k} = 1..(k - 1) /\ 1..k # {}
    BY <1>1, MaxOfPrefix
  <2>2. it[1..k] = TakeFitting(it[1..(k - 1)], order[k])
    <3> HIDE DEF it
    <3> QED
      BY <1>3, <2>1
  <2> QED
    BY <2>1, <2>2
<1>6. 0..n \subseteq {k \in 0..n : p[k] \in Acc}
  <2> DEFINE N == {k \in 0..n : p[k] \in Acc}
  <2> HIDE DEF p
  <2>1. 0 \in N
    BY <1>0, <1>1, <1>4
  <2>2. ASSUME NEW k \in 0..(n - 1), k \in N PROVE k + 1 \in N
    <3>1. k + 1 \in 1..n /\ k + 1 \in 0..n /\ (k + 1) - 1 = k
      BY <1>1
    <3>2. p[k + 1] = TakeFitting(p[k], order[k + 1])
      BY <1>5, <3>1
    <3>3. p[k + 1] \in Acc
      BY <1>1, <2>2, <3>1, <3>2, TakeFittingType
    <3> QED
      BY <3>1, <3>3
  <2> HIDE DEF N, n
  <2> QED
    BY <1>1, <2>1, <2>2, EveryNumberUpTo DEF N
<1>7. p \in [0..n -> Acc] /\ p[n].picked = ApplyTarget(order)
  <2>1. p[n] = it[DOMAIN order]
    BY <1>1
  <2>2. p = [k \in 0..n |-> p[k]]
    OBVIOUS
  <2> HIDE DEF p
  <2> QED
    BY <1>2, <1>6, <2>1, <2>2
<1> HIDE DEF p
<1> QED
  BY <1>4, <1>5, <1>7

\* The lists that Orders gives, and what applyTarget takes of them.
LEMMA OrderFacts ==
    ASSUME NEW S \in SUBSET Root, NEW order \in Orders(S)
    PROVE  order \in Seq(Root) /\ Range(order) \subseteq S
<1>1. order \in SetToSeqs(S)
  BY DEF Orders
<1>2. Cardinality(S) \in Nat
  BY EngineAssumption, FS_Subset, FS_CardinalityType
<1>3. order \in [1..Cardinality(S) -> S]
  BY <1>1 DEF SetToSeqs
<1>4. order \in Seq(S)
  BY <1>2, <1>3
<1> QED
  BY <1>4, SeqMonotonic DEF Range

\* What applyTarget takes comes from the list it is given.
LEMMA ApplyTargetFacts ==
    ASSUME NEW order \in Seq(Root), \A r \in Root : scan.bytes[r] \in Nat
    PROVE  ApplyTarget(order) \in Seq(Root) /\ Range(ApplyTarget(order)) \subseteq Range(order)
<1> DEFINE n == Len(order)
<1>1. PICK p \in [0..n -> Acc] :
         /\ p[0] = NoneYet /\ p[n].picked = ApplyTarget(order)
         /\ \A k \in 1..n : p[k] = TakeFitting(p[k - 1], order[k])
  BY TargetSteps
<1>2. n \in Nat /\ \A k \in 1..n : order[k] \in Root /\ order[k] \in Range(order)
  BY DEF Range
<1> DEFINE N == {k \in 0..n : Range(p[k].picked) \subseteq Range(order)}
<1>3. 0 \in N
  BY <1>1, <1>2 DEF NoneYet, Range
<1>4. ASSUME NEW k \in 0..(n - 1), k \in N PROVE k + 1 \in N
  <2>1. k \in 0..n /\ k + 1 \in 1..n /\ k + 1 \in 0..n /\ (k + 1) - 1 = k
    BY <1>2
  <2> DEFINE a == p[k].picked
             r == order[k + 1]
  <2>2. p[k + 1].picked \in {a, Append(a, r)}
    <3>1. p[k + 1] = TakeFitting(p[k], r)
      BY <1>1, <2>1
    <3> HIDE DEF r
    <3> QED
      BY <3>1 DEF TakeFitting
  <2>3. a \in Seq(Root) /\ r \in Root /\ r \in Range(order)
    BY <1>1, <1>2, <2>1 DEF Acc
  <2>4. Range(Append(a, r)) \subseteq Range(a) \cup {r}
    <3> HIDE DEF a, r
    <3> QED
      BY <2>3 DEF Range
  <2>5. Range(p[k + 1].picked) \subseteq Range(order)
    <3> HIDE DEF r
    <3> QED
      BY <1>4, <2>2, <2>3, <2>4
  <2> QED
    BY <2>1, <2>5
<1>5. n \in N
  <2> HIDE DEF N, n
  <2>1. 0..n \subseteq N
    BY <1>2, <1>3, <1>4, EveryNumberUpTo
  <2> QED
    BY <1>2, <2>1
<1>6. p[n] \in Acc
  BY <1>1, <1>2
<1> QED
  BY <1>1, <1>5, <1>6 DEF Acc

\* The plan that Filter makes, and what the user leaves of it.
LEMMA PlannedFacts ==
    ASSUME NEW S \in SUBSET Root, \A r \in Root : scan.bytes[r] \in Nat,
           NEW order \in Orders(S)
    PROVE  LET made == IF args.target > 0 THEN ApplyTarget(order) ELSE order
           IN  made \in Seq(Root) /\ Range(made) \subseteq S
<1>1. order \in Seq(Root) /\ Range(order) \subseteq S
  BY OrderFacts
<1>2. ApplyTarget(order) \in Seq(Root) /\ Range(ApplyTarget(order)) \subseteq S
  BY <1>1, ApplyTargetFacts
<1> QED
  BY <1>1, <1>2

\* A list without elements, and a list with some.
LEMMA ListElements ==
    ASSUME NEW list \in Seq(Root)
    PROVE  /\ DOMAIN list = 1..Len(list) /\ Len(list) \in Nat
           /\ list = <<>> <=> Len(list) = 0
           /\ \A i \in 1..Len(list) : list[i] \in Root /\ list[i] \in Range(list)
           /\ \A r \in Range(list) : r \in Root
BY DEF Range

LEMMA BytesOnNat ==
    ASSUME NEW d \in [Entry -> File], NEW S \in SUBSET Entry
    PROVE  BytesOn(d, S) \in Nat
<1> DEFINE L == {e \in S \cap Regular : d[e].age # "absent"}
           f == [e \in Entry |-> d[e].size]
<1>1. L \in SUBSET Entry /\ \A e \in Entry : f[e] \in Nat
  BY EngineAssumption DEF File
<1>2. IsFiniteSet(L)
  BY <1>1, EngineAssumption, FS_Subset
<1> HIDE DEF L, f
<1>3. SumFunctionOnSet(f, L) \in Nat
  BY <1>1, <1>2, SumNat
<1> QED
  BY <1>3 DEF BytesOn, L, f


-----------------------------------------------------------------------------
(* Types *)

ResultType == [success : BOOLEAN, error : BOOLEAN, bytesRemoved : Uint]
ScanType == [found : SUBSET Root, bytes : [Root -> Nat], warned : SUBSET Root,
             short : SUBSET Root, todo : SUBSET (Root \X Entry)]
WalkType == [root : Root, budget : Uint, todo : SUBSET Entry, entry : Entry, bytes : Uint]

LEMMA UnlinkTypes ==
    ASSUME EngineTypeOK, NEW e \in Entry, Unlink(e)
    PROVE  disk' \in [Entry -> File] /\ gone' \subseteq Entry /\ freed' \in Nat
<1>1. [age |-> "absent", size |-> 0] \in File
  BY EngineAssumption DEF File, Age
<1>2. disk[e].size \in Nat
  BY DEF EngineTypeOK, File
<1> QED
  BY <1>1, <1>2 DEF EngineTypeOK, Unlink

LEMMA ResultTypes ==
    ASSUME EngineTypeOK
    PROVE  /\ NewResult \in ResultType
           /\ \A b \in BOOLEAN : /\ [NewResult EXCEPT !.success = b] \in ResultType
                                 /\ [NewResult EXCEPT !.error = b] \in ResultType
                                 /\ [result EXCEPT !.success = b] \in ResultType
                                 /\ [result EXCEPT !.error = b] \in ResultType
           /\ [result EXCEPT !.success = FALSE, !.error = TRUE] \in ResultType
           /\ [result EXCEPT !.success = ~result.error] \in ResultType
           /\ walk.bytes \in Uint => [result EXCEPT !.bytesRemoved = Plus(@, walk.bytes)] \in ResultType
           /\ \A res \in ResultType : [res EXCEPT !.success = ~res.error] \in ResultType
<1>1. result \in ResultType /\ 0 \in Uint /\ result.bytesRemoved \in Uint
  BY EngineAssumption DEF EngineTypeOK, ResultType
<1>2. walk.bytes \in Uint => Plus(result.bytesRemoved, walk.bytes) \in Uint
  BY <1>1, PlusExact
<1> QED
  BY <1>1, <1>2 DEF ResultType, NewResult

LEMMA EngineTypes ==
    ASSUME EngineTypeOK, EngineStep
    PROVE  EngineTypeOK'
<1> USE DEF EngineTypeOK, Op
<1>0. walk.entry \in Entry /\ walk.root \in Root /\ walk.bytes \in Uint /\ walk.budget \in Uint
  OBVIOUS
<1> DEFINE RT == [success : BOOLEAN, error : BOOLEAN, bytesRemoved : Uint]
<1>0a. result \in RT /\ [result EXCEPT !.success = FALSE, !.error = TRUE] \in RT
  BY ResultTypes DEF ResultType
<1>1. ASSUME NEW e \in Entry, StaleVisit(e) PROVE EngineTypeOK'
  BY <1>1 DEF StaleVisit
<1>2. ASSUME NEW e \in Entry, RemoveUnlink(e) PROVE EngineTypeOK'
  <2>1. disk' \in [Entry -> File] /\ gone' \subseteq Entry /\ freed' \in Nat
    BY <1>2, UnlinkTypes DEF RemoveUnlink
  <2> QED
    BY <1>2, <2>1 DEF RemoveUnlink
<1>3. CASE StaleEnd
  <2>1. result' \in RT
    BY <1>3, ResultTypes DEF StaleEnd, Throw, Return, ResultType
  <2> HIDE DEF RT
  <2> QED
    BY <1>3, <2>1 DEF StaleEnd, Throw, Return, RT
<1>4. CASE StaleAge
  <2>1. result' \in RT
    <3> HIDE DEF RT, EngineTypeOK
    <3> QED
      BY <1>0a, <1>4 DEF StaleAge, Throw, Return
  <2> QED
    BY <1>4, <2>1 DEF StaleAge, Throw, Return
<1>5. CASE StaleSize
  <2>1. result' \in RT
    <3> HIDE DEF RT, EngineTypeOK
    <3> QED
      BY <1>0a, <1>5 DEF StaleSize, Throw, Return
  <2>2. disk[walk.entry].size \in Uint
    BY <1>0 DEF File
  <2>3. walk' \in WalkType
    BY <1>5, <2>2 DEF StaleSize, WalkType
  <2>4. op' \in {"returned", "next", "unlink"} /\ UNCHANGED <<disk, kind, gone, freed, disturbed>>
    BY <1>5 DEF StaleSize, Throw, Return
  <2> QED
    BY <2>1, <2>3, <2>4 DEF WalkType
<1>6. CASE StaleUnlink
  <2>1. disk' \in [Entry -> File] /\ gone' \subseteq Entry /\ freed' \in Nat
    BY <1>0, <1>6, UnlinkTypes DEF StaleUnlink
  <2>2. PICK res \in RT : Proceed(res)
    <3>1. /\ [result EXCEPT !.bytesRemoved = Plus(@, walk.bytes)] \in ResultType
          /\ result \in ResultType /\ [result EXCEPT !.error = TRUE] \in ResultType
      BY <1>0, ResultTypes DEF ResultType
    <3> QED
      BY <1>6, <3>1 DEF StaleUnlink, ResultType
  <2>3. result' \in RT /\ op' \in {"returned", "next"}
    BY <2>2, ResultTypes DEF Proceed, Return, ResultType
  <2> QED
    BY <1>6, <2>1, <2>3 DEF StaleUnlink
<1>7. CASE RemoveEnd
  <2>1. result' \in RT /\ op' = "returned"
    BY <1>7, ResultTypes DEF RemoveEnd, Return, ResultType
  <2>2. kind' \in [Root -> PathKind]
    BY <1>7 DEF RemoveEnd, PathKind
  <2> QED
    BY <1>7, <2>1, <2>2 DEF RemoveEnd
<1> QED
  BY <1>1, <1>2, <1>3, <1>4, <1>5, <1>6, <1>7 DEF EngineStep

LEMMA OutsideTypes ==
    ASSUME EngineTypeOK, Elsewhere
    PROVE  EngineTypeOK'
<1> USE DEF EngineTypeOK
<1>0. disturbed' \in 0..MaxDisturb /\ UNCHANGED <<op, walk, result, gone, freed>>
  BY EngineAssumption DEF Elsewhere, Vanish, Rewrite, Withdraw, Disturb
<1>1. disk' \in [Entry -> File]
  BY EngineAssumption DEF Elsewhere, Vanish, Rewrite, Withdraw, File, Age
<1>2. kind' \in [Root -> PathKind]
  BY DEF Elsewhere, Vanish, Rewrite, Withdraw, PathKind
<1> QED
  BY <1>0, <1>1, <1>2

LEMMA BeginTypes ==
    ASSUME EngineTypeOK, NEW r \in Root, NEW budget \in Uint,
           StaleStart(r, budget) \/ RemoveStart(r)
    PROVE  EngineTypeOK' /\ walk'.root = r /\ walk'.todo = Below[r]
           /\ op' \in {"thrown", "returned", "next", "removing"} /\ result'.bytesRemoved = 0
<1> USE DEF EngineTypeOK
<1>1. Below[r] \in SUBSET Entry /\ 0 \in Uint
  BY EngineAssumption
<1>2. /\ [walk EXCEPT !.root = r, !.budget = budget, !.todo = Below[r]] \in WalkType
      /\ [walk EXCEPT !.root = r, !.budget = 0, !.todo = Below[r]] \in WalkType
  BY <1>1 DEF WalkType
<1>3. walk' \in WalkType /\ walk'.root = r /\ walk'.todo = Below[r]
  BY <1>2 DEF StaleStart, RemoveStart, WalkType
<1>4. result' \in ResultType /\ result'.bytesRemoved = 0
  <2> DEFINE began == {NewResult, [NewResult EXCEPT !.error = TRUE],
                       [NewResult EXCEPT !.success = TRUE]}
  <2>1. \A res \in began : res \in ResultType /\ res.bytesRemoved = 0
    <3>1. NewResult \in ResultType /\ NewResult.bytesRemoved = 0
      BY ResultTypes DEF NewResult
    <3>2. \A b \in BOOLEAN : /\ [NewResult EXCEPT !.error = b] \in ResultType
                            /\ [NewResult EXCEPT !.success = b] \in ResultType
      BY ResultTypes
    <3>3. \A b \in BOOLEAN : /\ [NewResult EXCEPT !.error = b].bytesRemoved = 0
                            /\ [NewResult EXCEPT !.success = b].bytesRemoved = 0
      BY <3>1 DEF NewResult
    <3> QED
      BY <3>1, <3>2, <3>3
  <2>2. result' \in began
    BY DEF StaleStart, RemoveStart, Return
  <2> HIDE DEF began
  <2> QED
    BY <2>1, <2>2
<1>5. op' \in {"thrown", "returned", "next", "removing"}
      /\ UNCHANGED <<disk, kind, gone, freed, disturbed>>
  BY DEF StaleStart, RemoveStart, Return
<1> QED
  BY <1>3, <1>4, <1>5 DEF WalkType, ResultType, Op

-----------------------------------------------------------------------------
(* What the loop may touch *)

LEMMA ScopeInit == Init => ScopeInv
<1> SUFFICES ASSUME Init PROVE ScopeInv
  OBVIOUS
<1> USE DEF Init, EngineInit
<1>1. EngineTypeOK
  <2>1. disk \in [Entry -> File] /\ kind \in [Root -> PathKind]
    BY CommandAssumption
  <2>2. walk \in WalkType
    BY EngineAssumption DEF WalkType
  <2>3. result \in ResultType
    BY EngineAssumption DEF ResultType, NewResult
  <2> QED
    BY <2>1, <2>2, <2>3, EngineAssumption DEF EngineTypeOK, Op, WalkType, ResultType
<1>2. args.target \in Uint
  BY CommandAssumption
<1>3. TypeOK
  <2>1. scan \in ScanType
    BY DEF ScanType, Unmeasured
  <2>2. pc \in PC /\ plan \in Seq(Root) /\ idx \in Nat \ {0}
    BY DEF PC
  <2>3. total \in Uint /\ remaining \in Uint
    BY <1>2, EngineAssumption
  <2>4. answer \in {"n", "y"} /\ exitCode \in {0, 1, 130} /\ interrupted \in BOOLEAN
    OBVIOUS
  <2>5. args \in CommandLines
    OBVIOUS
  <2> QED
    BY <1>1, <2>1, <2>2, <2>3, <2>4, <2>5 DEF TypeOK, ScanType
<1>4. Range(plan) = {} /\ result.bytesRemoved = 0
  BY DEF Range, NewResult
<1> QED
  BY <1>3, <1>4 DEF ScopeInv

LEMMA ScanTyped ==
    ASSUME TypeOK, Scan
    PROVE  scan' \in ScanType
<1>1. scan \in ScanType /\ disk \in [Entry -> File]
  BY DEF TypeOK, EngineTypeOK, ScanType
<1>2. CASE EndScan
  BY <1>1, <1>2 DEF EndScan, ScanType
<1>3. CASE StopShort
  <2>1. {m[1] : m \in scan.todo} \subseteq Root
    BY <1>1 DEF ScanType
  <2> QED
    BY <1>1, <1>3, <2>1 DEF StopShort, ScanType
<1>4. ASSUME NEW r \in Root, BeginMeasure(r) PROVE scan' \in ScanType
  <2>1. {r} \X (Below[r] \cap Regular) \subseteq Root \X Entry
    BY EngineAssumption
  <2> QED
    BY <1>1, <1>4, <2>1 DEF BeginMeasure, ScanType
<1>5. ASSUME NEW r \in Root, NEW e \in Entry, Measure(r, e) PROVE scan' \in ScanType
  <2>1. disk[e].size \in Nat
    BY <1>1, EngineAssumption DEF File
  <2> DEFINE counted == IF Here(r) /\ disk[e].age # "absent"
                        THEN scan.bytes[r] + disk[e].size ELSE scan.bytes[r]
             missed == IF Here(r) \/ disk[e].age = "absent" THEN scan.short ELSE scan.short \cup {r}
  <2>2. counted \in Nat /\ missed \in SUBSET Root
    BY <1>1, <2>1 DEF ScanType
  <2>3. /\ scan' = [scan EXCEPT !.todo = scan.todo \ {<<r, e>>},
                               !.bytes[r] = counted, !.short = missed]
    BY <1>1, <1>5 DEF Measure, ScanType
  <2> HIDE DEF counted, missed
  <2> QED
    BY <1>1, <2>2, <2>3 DEF ScanType
<1> QED
  BY <1>2, <1>3, <1>4, <1>5 DEF Scan

LEMMA ScopePlanning ==
    ASSUME LedgerInv, ScopeInv, Scan \/ Filter \/ Select \/ Confirm
    PROVE  ScopeInv'
<1> USE DEF ScopeInv, TypeOK
<1>0. UNCHANGED engineVars => EngineTypeOK'
  BY DEF EngineTypeOK, engineVars
<1>1. CASE Scan
  <2>1. /\ pc' \in {"scan", "filter"} /\ plan' = plan
        /\ UNCHANGED <<engineVars, args, plan, idx, total, remaining, answer, exitCode, interrupted>>
    BY <1>1, ScanFrame
  <2>2. scan' \in ScanType
    BY <1>1, ScanTyped
  <2>3. Range(plan') = {} /\ plan' = <<>>
    BY <1>1, <2>1, ScanFrame DEF Range
  <2> QED
    BY <1>0, <1>1, <2>1, <2>2, <2>3, ScanFrame DEF PC, engineVars, ScanType
<1>2. CASE Filter
  <2>1. PICK wanted \in SUBSET scan.found :
          \E order \in Orders({r \in wanted : Eligible(r)}) :
             plan' = IF args.target > 0 THEN ApplyTarget(order) ELSE order
    BY <1>2 DEF Filter
  <2> DEFINE S == {r \in wanted : Eligible(r)}
  <2>2. S \in SUBSET Root /\ \A r \in Root : scan.bytes[r] \in Nat
    OBVIOUS
  <2>3. plan' \in Seq(Root) /\ Range(plan') \subseteq S
    <3> HIDE DEF S
    <3>1. PICK order \in Orders(S) :
             plan' = IF args.target > 0 THEN ApplyTarget(order) ELSE order
      BY <2>1 DEF S
    <3> QED
      BY <2>2, <3>1, PlannedFacts
  <2>4. \A r \in Range(plan') : r \in scan'.found /\ Eligible(r)'
    <3>1. scan'.found = scan.found /\ scan'.warned = scan.warned /\ args' = args
      BY <1>2 DEF Filter
    <3> QED
      BY <2>3, <3>1 DEF Eligible
  <2>5. /\ pc' \in {"done", "select"} /\ (pc' = "select" => plan' # <<>>)
        /\ UNCHANGED <<engineVars, args, idx, total, remaining, answer, exitCode, interrupted>>
    BY <1>2 DEF Filter
  <2>7. scan' \in ScanType
    BY <1>2 DEF Filter, Unmeasured, ScanType
  <2>6. op \in {"idle", "thrown"}
    BY <1>2 DEF Filter, LedgerInv, LedgerTypeOK
  <2> HIDE DEF S
  <2>8. Range(plan') \in SUBSET Root /\ pc = "filter" /\ gone = {} /\ freed = 0 /\ idx = 1
    BY <1>2, <2>3 DEF Filter, Range
  <2>9. TypeOK'
    BY <1>0, <1>2, <2>3, <2>5, <2>7 DEF PC, engineVars, ScanType
  <2> QED
    BY <2>4, <2>5, <2>6, <2>8, <2>9 DEF engineVars
<1>3. CASE Select
  <2>1. plan' \in Seq(Root) /\ Range(plan') \subseteq Range(plan)
    BY <1>3, FilteredFacts DEF Select
  <2>2. \A r \in Range(plan') : r \in scan'.found /\ Eligible(r)'
    BY <1>3, <2>1 DEF Select, Eligible
  <2>3. /\ pc' \in {"done", "loop", "confirm"} /\ (pc' # "done" => plan' # <<>>)
        /\ UNCHANGED <<engineVars, args, scan, idx, total, remaining, answer, exitCode, interrupted>>
    BY <1>3 DEF Select, AfterSelect
  <2>4. plan' # <<>> => 1 \in 1..Len(plan')
    BY <2>1
  <2> QED
    BY <1>0, <1>3, <2>1, <2>2, <2>3, <2>4 DEF Select, PC, engineVars
<1>4. CASE Confirm
  <2>1. 1 \in 1..Len(plan)
    BY <1>4 DEF Confirm
  <2>2. /\ pc' \in {"done", "loop"} /\ answer' \in {"n", "y"}
        /\ UNCHANGED <<engineVars, args, scan, plan, idx, total, remaining, exitCode, interrupted>>
    BY <1>4 DEF Confirm
  <2> QED
    BY <1>0, <1>4, <2>1, <2>2 DEF Confirm, PC, engineVars, Eligible
<1> QED
  BY <1>1, <1>2, <1>3, <1>4

LEMMA ScopeBegin ==
    ASSUME LedgerInv, ScopeInv, BeginCache
    PROVE  ScopeInv'
<1> USE DEF ScopeInv, TypeOK
<1>1. plan[idx] \in Root
  BY DEF BeginCache
<1>2. remaining \in Uint /\ EngineTypeOK
  OBVIOUS
<1>3. StaleStart(plan[idx], remaining) \/ RemoveStart(plan[idx])
  BY DEF BeginCache
<1>4. EngineTypeOK' /\ walk'.root = plan[idx] /\ walk'.todo = Below[plan[idx]]
      /\ op' \in {"thrown", "returned", "next", "removing"} /\ result'.bytesRemoved = 0
  BY <1>1, <1>2, <1>3, BeginTypes
<1>5. UNCHANGED <<gone, freed, args, scan, plan, idx, total, remaining, answer, exitCode, interrupted>>
      /\ pc' = "clean" /\ pc = "loop"
  BY <1>3 DEF BeginCache, loopVars, StaleStart, RemoveStart
<1>6. \A r \in Range(plan) : Eligible(r)'
  BY <1>5 DEF Eligible
<1> QED
  BY <1>4, <1>5, <1>6 DEF PC

LEMMA ScopeEngine ==
    ASSUME LedgerInv, ScopeInv, CleanStep
    PROVE  ScopeInv'
<1> USE DEF ScopeInv
<1>0. /\ UNCHANGED <<pc, args, scan, plan, idx, total, remaining, answer, exitCode, interrupted>>
      /\ pc = "clean" /\ EngineStep /\ TypeOK /\ EngineTypeOK
      /\ idx \in 1..Len(plan) /\ plan \in Seq(Root)
  BY DEF CleanStep, loopVars, TypeOK
<1>1. EngineTypeOK' /\ TypeOK'
  BY <1>0, EngineTypes DEF TypeOK
<1>2. \A r \in Range(plan') : r \in scan'.found /\ Eligible(r)'
  BY <1>0 DEF Eligible
<1> DEFINE Near == /\ walk'.root = walk.root /\ walk'.todo \subseteq walk.todo
                   /\ op' \in {"age", "size", "unlink"} =>
                         (op \in {"age", "size", "unlink"} /\ walk'.entry = walk.entry)
                         \/ walk'.entry \in walk.todo
           Taken == \A e \in gone' \ gone :
                       \/ op \in {"age", "size", "unlink"} /\ e = walk.entry
                       \/ e \in walk.todo
<1>3. Near /\ Taken /\ op' # "thrown"
  <2> HIDE DEF ScopeInv
  <2>0. /\ DOMAIN walk = {"root", "budget", "todo", "entry", "bytes"}
    BY <1>0 DEF EngineTypeOK
  <2>1. ASSUME NEW e \in Entry, StaleVisit(e) PROVE Near /\ Taken /\ op' # "thrown"
    BY <2>0, <2>1 DEF StaleVisit
  <2>2. ASSUME NEW e \in Entry, RemoveUnlink(e) PROVE Near /\ Taken /\ op' # "thrown"
    BY <2>0, <2>2 DEF RemoveUnlink, Unlink
  <2>3. CASE StaleEnd \/ RemoveEnd
    BY <2>3 DEF StaleEnd, RemoveEnd, Throw, Return
  <2>4. CASE StaleAge
    BY <2>4 DEF StaleAge, Throw, Return
  <2>5. CASE StaleSize
    BY <2>0, <2>5 DEF StaleSize, Throw, Return
  <2>6. CASE StaleUnlink
    <3>1. op' \in {"returned", "next"} /\ UNCHANGED walk /\ op = "unlink"
      BY <2>6 DEF StaleUnlink, Proceed, Return
    <3>2. \A e \in gone' \ gone : e = walk.entry
      BY <2>6 DEF StaleUnlink, Unlink
    <3> QED
      BY <3>1, <3>2
  <2> QED
    BY <1>0, <2>1, <2>2, <2>3, <2>4, <2>5, <2>6 DEF EngineStep
<1>4. walk.root = plan[idx] /\ walk.todo \subseteq Below[walk.root]
      /\ (op \in {"age", "size", "unlink"} => walk.entry \in Below[walk.root])
  BY <1>0
<1>5. plan[idx] \in Range(plan)
  BY <1>0, ListElements
<1>6. \A e \in gone' : \E r \in Range(plan) : e \in Below[r]
  <2> SUFFICES ASSUME NEW e \in gone' \ gone PROVE e \in Below[plan[idx]]
    BY <1>0, <1>5
  <2> QED
    BY <1>3, <1>4
<1>7. walk'.root = plan[idx] /\ walk'.todo \subseteq Below[walk'.root]
      /\ (op' \in {"age", "size", "unlink"} => walk'.entry \in Below[walk'.root])
  BY <1>3, <1>4
<1> HIDE DEF Near, Taken
<1> QED
  BY <1>0, <1>1, <1>2, <1>3, <1>6, <1>7

LEMMA ScopeEnd ==
    ASSUME LedgerInv, ScopeInv, EndCache
    PROVE  ScopeInv'
<1> USE DEF ScopeInv, TypeOK
<1>1. /\ UNCHANGED <<disk, kind, walk, result, gone, freed, disturbed, args, scan, plan, answer, interrupted>>
      /\ pc = "clean" /\ op' = "idle" /\ pc' \in {"done", "loop"}
      /\ idx' = idx + 1 /\ (pc' = "loop" => idx # Len(plan))
  BY DEF EndCache, Following
<1>2. EngineTypeOK'
  BY <1>1 DEF EngineTypeOK, Op
<1>3. total' \in Uint /\ remaining' \in Uint
  BY LedgerEnd DEF LedgerInv, LedgerTypeOK
<1>4. exitCode' \in {0, 1, 130}
  BY DEF EndCache, CodeAfter
<1>5. \A r \in Range(plan') : r \in scan'.found /\ Eligible(r)'
  BY <1>1 DEF Eligible
<1>6. idx' \in Nat \ {0} /\ (pc' = "loop" => idx' \in 1..Len(plan))
  BY <1>1
<1> QED
  BY <1>1, <1>2, <1>3, <1>4, <1>5, <1>6 DEF PC

LEMMA ScopeStep == LedgerInv /\ ScopeInv /\ [Next]_vars => ScopeInv'
<1> SUFFICES ASSUME LedgerInv, ScopeInv, [Next]_vars PROVE ScopeInv'
  OBVIOUS
<1>1. CASE Prompt \/ Scan \/ Filter
  BY <1>1, ScopePlanning DEF Prompt
<1>2. CASE BeginCache \/ CleanStep \/ EndCache
  BY <1>2, ScopeBegin, ScopeEngine, ScopeEnd
<1>3. ASSUME EngineTypeOK', UNCHANGED <<op, walk, result, gone, freed, args, scan, plan, idx, total, remaining>>,
             pc' = pc \/ pc' \in {"exited", "crashed"},
             answer' = answer, exitCode' \in {0, 1, 130}, interrupted' \in BOOLEAN
      PROVE  ScopeInv'
  <2>1. \A r \in Range(plan') : r \in scan'.found /\ Eligible(r)'
    BY <1>3 DEF Eligible, ScopeInv
  <2> QED
    BY <1>3, <2>1 DEF ScopeInv, TypeOK, PC
<1>4. CASE Crash \/ Exit
  <2>1. UNCHANGED <<engineVars, args, scan, plan, idx, total, remaining, answer, interrupted>>
        /\ pc' \in {"exited", "crashed"} /\ exitCode' \in {0, 1, 130}
    BY <1>4 DEF Crash, Exit, Status, loopVars, ScopeInv, TypeOK
  <2>2. EngineTypeOK'
    BY <2>1 DEF ScopeInv, TypeOK, EngineTypeOK, engineVars
  <2> QED
    BY <1>3, <2>1, <2>2 DEF ScopeInv, TypeOK, engineVars
<1>5. CASE Signal \/ Terminated \/ UNCHANGED vars
  <2>1. UNCHANGED <<engineVars, pc, args, scan, plan, idx, total, remaining, answer, exitCode>>
        /\ interrupted' \in BOOLEAN
    BY <1>5 DEF Signal, Terminated, vars, ScopeInv, TypeOK
  <2>2. EngineTypeOK'
    BY <2>1 DEF ScopeInv, TypeOK, EngineTypeOK, engineVars
  <2> QED
    BY <1>3, <2>1, <2>2 DEF ScopeInv, TypeOK, engineVars
<1>6. CASE Outside
  <2>1. EngineTypeOK'
    BY <1>6, OutsideTypes DEF Outside, ScopeInv, TypeOK
  <2>2. UNCHANGED <<op, walk, result, gone, freed>>
    BY <1>6 DEF Outside, Elsewhere, Vanish, Rewrite, Withdraw, Disturb
  <2> QED
    BY <1>3, <1>6, <2>1, <2>2 DEF Outside, loopVars, ScopeInv, TypeOK
<1> QED
  BY <1>1, <1>2, <1>4, <1>5, <1>6 DEF Next, Work

\* Every variable has its type; the loop stays within an eligible plan.
THEOREM ScopeCorrect == Spec => []ScopeInv
BY ScopeInit, ScopeStep, LedgerCorrect, PTL DEF Spec

\* The types hold in every reachable state.
THEOREM TypeCorrect == Spec => []TypeOK
<1>1. ScopeInv => TypeOK
  BY DEF ScopeInv
<1> QED
  BY <1>1, ScopeCorrect, PTL

\* What is gone lay below a selected cache that was found and, under --safe, is
\* neither active nor protected nor warned about.
THEOREM EligibleCorrect == Spec => []OnlyEligibleGone
<1>1. ScopeInv => OnlyEligibleGone
  BY DEF ScopeInv, OnlyEligibleGone, Eligible
<1> QED
  BY <1>1, ScopeCorrect, PTL

LEMMA FailureStep ==
    ASSUME [Next]_vars
    PROVE  /\ pc = "clean" /\ pc' \in {"loop", "done"} /\ ~result.success => exitCode' # 0
           /\ exitCode # 0 => exitCode' # 0
<1>1. CASE EndCache
  BY <1>1 DEF EndCache, CodeAfter
<1>2. CASE Exit
  BY <1>2 DEF Exit, Status
<1>3. CASE Prompt \/ Scan \/ Filter \/ Signal \/ Outside \/ Terminated \/ UNCHANGED vars
  <2>1. exitCode' = exitCode /\ (pc = "clean" => pc' = "clean")
    BY <1>3, ScanFrame DEF Prompt, Select, Confirm, Filter, Signal, Outside, Terminated, vars, loopVars
  <2> QED
    BY <2>1
<1>4. CASE BeginCache \/ CleanStep \/ Crash
  <2>1. exitCode' = exitCode /\ pc' \notin {"loop", "done"}
    BY <1>4 DEF BeginCache, CleanStep, Crash, loopVars
  <2> QED
    BY <2>1
<1> QED
  BY <1>1, <1>2, <1>3, <1>4 DEF Next, Work

\* A cache that failed leaves its mark on the exit status, and no later cache,
\* nor the end of the run, wipes it out.
THEOREM FailureCorrect == Spec => FailureIsKept
BY FailureStep, PTL DEF Spec, FailureIsKept

-----------------------------------------------------------------------------
(* What is freed and what is reported *)

\* The reports and the bytes move by the same amount, or the report wraps once.
LEMMA WrapAround ==
    ASSUME NEW f \in Nat, NEW f2 \in Nat, NEW rep \in Nat, NEW rep2 \in Nat,
           NEW W \in Nat, W > 0, NEW w \in 0..f, f = rep + w * W
    PROVE  /\ f2 - f = rep2 - rep => w \in 0..f2 /\ f2 = rep2 + w * W
           /\ f2 - f = rep2 - rep + W => w + 1 \in 0..f2 /\ f2 = rep2 + (w + 1) * W
<1> DEFINE P == w * W
<1>1. P \in Nat /\ w \in Nat /\ P >= w
  <2>1. w \in Nat /\ W \in Nat /\ W - 1 \in Nat
    OBVIOUS
  <2>2. P \in Nat /\ w * (W - 1) \in Nat
    BY <2>1
  <2>3. P = w * (W - 1) + w
    BY <2>1
  <2> HIDE DEF P
  <2> QED
    BY <2>1, <2>2, <2>3
<1>2. (w + 1) * W = P + W
  BY <1>1
<1>3. f = rep + P
  OBVIOUS
<1> HIDE DEF P
<1>4. f2 - f = rep2 - rep => w \in 0..f2 /\ f2 = rep2 + P
  BY <1>1, <1>3
<1>5. f2 - f = rep2 - rep + W => w + 1 \in 0..f2 /\ f2 = rep2 + P + W
  BY <1>1, <1>3
<1> QED
  BY <1>2, <1>4, <1>5 DEF P

Accounted(f, rep, W, target) == \E w \in 0..f : f = rep + w * W /\ (target > 0 => w = 0)

LEMMA Account ==
    ASSUME NEW f \in Nat, NEW f2 \in Nat, NEW rep \in Nat, NEW rep2 \in Nat,
           NEW W \in Nat, W > 0, NEW target, Accounted(f, rep, W, target),
           \/ f2 - f = rep2 - rep
           \/ f2 - f = rep2 - rep + W /\ ~(target > 0)
    PROVE  Accounted(f2, rep2, W, target)
<1>1. PICK w \in 0..f : f = rep + w * W /\ (target > 0 => w = 0)
  BY DEF Accounted
<1>2. /\ f2 - f = rep2 - rep => w \in 0..f2 /\ f2 = rep2 + w * W
      /\ f2 - f = rep2 - rep + W => w + 1 \in 0..f2 /\ f2 = rep2 + (w + 1) * W
  BY <1>1, WrapAround
<1> QED
  BY <1>1, <1>2, Zenon DEF Accounted

LEMMA ReportedIsNat ==
    ASSUME LedgerInv
    PROVE  Reported \in Nat /\ total \in Nat /\ result.bytesRemoved \in Nat
BY LineTypes, EngineAssumption DEF LedgerInv, LedgerTypeOK, Reported

LEMMA ReportedIsNatNext ==
    ASSUME LedgerInv'
    PROVE  Reported' \in Nat
<1>1. total' \in Nat /\ result'.bytesRemoved \in Nat
  <2>1. total' \in Uint /\ result' \in [success : BOOLEAN, error : BOOLEAN, bytesRemoved : Uint]
    BY DEF LedgerInv, LedgerTypeOK
  <2> QED
    BY <2>1, EngineAssumption
<1> DEFINE counted == IF pc' = "clean" THEN result'.bytesRemoved ELSE 0
<1>2. counted \in Nat
  BY <1>1
<1>3. Reported' = total' + counted
  BY Zenon DEF Reported
<1> HIDE DEF counted
<1>4. total' + counted \in Nat
  <2>1. \A a, b \in Nat : a + b \in Nat
    OBVIOUS
  <2> QED
    BY <1>1, <1>2, <2>1, Zenon
<1> QED
  BY <1>3, <1>4, Zenon

LEMMA AccountNow ==
    ASSUME Volatile = {}, args.stale = TRUE
    PROVE  FreedIsReported <=> Accounted(freed, Reported, UintMax + 1, args.target)
BY DEF FreedIsReported, Accounted

\* A step that frees what it reports, or makes the report wrap when there is no
\* --target, keeps the account.
LEMMA AccountKept ==
    ASSUME LedgerInv, LedgerInv', freed \in Nat, freed' \in Nat, args' = args,
           Accounted(freed, Reported, UintMax + 1, args.target),
           \/ freed' - freed = Reported' - Reported
           \/ freed' - freed = Reported' - Reported + (UintMax + 1) /\ ~(args.target > 0)
    PROVE  Accounted(freed', Reported', UintMax + 1, args.target)
<1> DEFINE W == UintMax + 1
<1>1. Reported \in Nat /\ Reported' \in Nat /\ W \in Nat /\ W > 0
  BY ReportedIsNat, ReportedIsNatNext, EngineAssumption
<1> HIDE DEF W
<1>2. \/ freed' - freed = Reported' - Reported
      \/ freed' - freed = Reported' - Reported + W /\ ~(args.target > 0)
  BY DEF W
<1>3. Accounted(freed, Reported, W, args.target)
  BY DEF W
<1>4. Accounted(freed', Reported', W, args.target)
  BY <1>1, <1>2, <1>3, Account
<1> QED
  BY <1>4 DEF W

\* The steps that free nothing and report nothing, and those of a stale run that
\* do both by the same amount.
LEMMA AccountStep ==
    ASSUME LedgerInv /\ ScopeInv /\ FreedIsReported, (LedgerInv /\ ScopeInv)', args' = args,
           Volatile = {} /\ args.stale =>
              \/ freed' - freed = Reported' - Reported
              \/ freed' - freed = Reported' - Reported + (UintMax + 1) /\ ~(args.target > 0)
    PROVE  FreedIsReported'
<1>1. args.stale \in BOOLEAN
  BY LineTypes DEF LedgerInv
<1>2. CASE Volatile = {} /\ args.stale = TRUE
  <2>1. freed \in Nat /\ freed' \in Nat
    BY DEF ScopeInv, TypeOK, EngineTypeOK
  <2>2. Accounted(freed, Reported, UintMax + 1, args.target)
    BY <1>2, AccountNow, Zenon
  <2>3. Accounted(freed', Reported', UintMax + 1, args.target)
    BY <1>2, <2>1, <2>2, AccountKept, Zenon
  <2> QED
    BY <2>3, Zenon DEF FreedIsReported, Accounted
<1>3. CASE ~(Volatile = {} /\ args.stale = TRUE)
  BY <1>1, <1>3, Zenon DEF FreedIsReported
<1> QED
  BY <1>2, <1>3, Zenon

\* Outside a deletion of a stale walk and the loop's addition, nothing moves.
LEMMA AccountIdle ==
    ASSUME LedgerInv, freed \in Nat, UNCHANGED <<freed, total>>,
           \/ pc # "clean" /\ pc' # "clean"
           \/ pc = "clean" /\ pc' = "clean" /\ result'.bytesRemoved = result.bytesRemoved
           \/ pc # "clean" /\ pc' = "clean" /\ result'.bytesRemoved = 0
           \/ pc = "clean" /\ pc' # "clean" /\ result.bytesRemoved = 0
    PROVE  freed' - freed = Reported' - Reported
<1>1. Reported \in Nat
  BY ReportedIsNat
<1>2. Reported' = Reported
  BY DEF Reported
<1> QED
  BY <1>1, <1>2

\* A step of the engine in a stale run.
LEMMA AccountEngine ==
    ASSUME LedgerInv, ScopeInv, FreedInv, CleanStep, Volatile = {}, args.stale = TRUE
    PROVE  \/ freed' - freed = Reported' - Reported
           \/ freed' - freed = Reported' - Reported + (UintMax + 1) /\ ~(args.target > 0)
<1> DEFINE r == result.bytesRemoved
           b == walk.bytes
<1>1. /\ pc = "clean" /\ pc' = "clean" /\ total' = total /\ EngineStep
      /\ r \in Uint /\ b \in Uint /\ total \in Nat /\ freed \in Nat /\ UintMax \in Nat
      /\ remaining \in Uint
      /\ result \in [success : BOOLEAN, error : BOOLEAN, bytesRemoved : Uint]
  BY ReportedIsNat, EngineAssumption
     DEF CleanStep, loopVars, LedgerInv, LedgerTypeOK, ScopeInv, TypeOK, EngineTypeOK
<1>2. Reported = total + r /\ Reported' = total + result'.bytesRemoved
  BY <1>1 DEF Reported
<1>3. ASSUME freed' = freed, result'.bytesRemoved = r
      PROVE  freed' - freed = Reported' - Reported
  BY <1>1, <1>2, <1>3
<1>4. ASSUME NEW e \in Entry, StaleVisit(e)
      PROVE  freed' = freed /\ result'.bytesRemoved = r
  BY <1>4 DEF StaleVisit
<1>5. ASSUME NEW e \in Entry, RemoveUnlink(e)
      PROVE  FALSE
  BY <1>1, <1>5 DEF RemoveUnlink, LedgerInv
<1>6. CASE StaleEnd \/ StaleAge \/ StaleSize
  <2>1. freed' = freed /\ result'.bytesRemoved = r
    BY <1>1, <1>6 DEF StaleEnd, StaleAge, StaleSize, Throw, Return
  <2> QED
    BY <1>3, <2>1
<1>7. CASE StaleUnlink
  <2>1. PICK res : /\ Proceed(res)
                   /\ \/ /\ res = [result EXCEPT !.bytesRemoved = Plus(@, walk.bytes)]
                         /\ disk[walk.entry].age # "absent" /\ freed' = freed + disk[walk.entry].size
                      \/ /\ res \in {result, [result EXCEPT !.error = TRUE]}
                         /\ freed' = freed
    BY <1>7 DEF StaleUnlink, Unlink, Unreadable
  <2>2. result'.bytesRemoved = res.bytesRemoved /\ op = "unlink"
    BY <1>1, <1>7, <2>1 DEF Proceed, Return, StaleUnlink
  <2>3. CASE freed' = freed /\ res \in {result, [result EXCEPT !.error = TRUE]}
    <3>1. result'.bytesRemoved = r
      BY <1>1, <2>2, <2>3
    <3> QED
      BY <1>3, <2>3, <3>1
  <2>4. CASE /\ res = [result EXCEPT !.bytesRemoved = Plus(@, walk.bytes)]
             /\ disk[walk.entry].age # "absent" /\ freed' = freed + disk[walk.entry].size
    <3>1. disk[walk.entry].size = b
      BY <2>2, <2>4 DEF FreedInv
    <3>2. result'.bytesRemoved = Plus(r, b)
      BY <1>1, <2>2, <2>4
    <3>3. CASE r + b <= UintMax
      <4>1. Plus(r, b) = r + b
        BY <3>3 DEF Plus
      <4> QED
        BY <1>1, <1>2, <2>4, <3>1, <3>2, <4>1
    <3>4. CASE ~(r + b <= UintMax)
      <4>1. Plus(r, b) = r + b - (UintMax + 1)
        BY <3>4 DEF Plus
      <4>2. ~(args.target > 0)
        BY <1>1, <2>2, <3>4 DEF LedgerInv
      <4> HIDE DEF r, b
      <4> QED
        BY <1>1, <1>2, <2>4, <3>1, <3>2, <4>1, <4>2
    <3> QED
      BY <3>3, <3>4
  <2> QED
    BY <2>1, <2>3, <2>4
<1>8. CASE RemoveEnd
  BY <1>1, <1>8 DEF RemoveEnd, LedgerInv
<1> QED
  BY <1>1, <1>3, <1>4, <1>5, <1>6, <1>7, <1>8 DEF EngineStep

\* The size in hand is the size of the file in hand.
LEMMA SizeStep ==
    ASSUME LedgerInv, ScopeInv, FreedInv, [Next]_vars, Volatile = {}, op' = "unlink"
    PROVE  disk'[walk'.entry].age = "absent" \/ disk'[walk'.entry].size = walk'.bytes
<1>0. /\ disk \in [Entry -> File] /\ walk.entry \in Entry
      /\ walk \in [root : Root, budget : Uint, todo : SUBSET Entry, entry : Entry, bytes : Uint]
      /\ op = "unlink" => disk[walk.entry].age = "absent" \/ disk[walk.entry].size = walk.bytes
  BY DEF ScopeInv, TypeOK, EngineTypeOK, FreedInv
<1>1. CASE CleanStep
  <2>1. /\ StaleSize /\ ~Unreadable(walk.entry) /\ walk' = [walk EXCEPT !.bytes = disk[walk.entry].size]
        /\ disk' = disk
    BY <1>1 DEF CleanStep, EngineStep, StaleVisit, RemoveUnlink, StaleEnd, StaleAge,
                StaleSize, StaleUnlink, RemoveEnd, Proceed, Throw, Return
  <2> QED
    BY <1>0, <2>1
<1>2. CASE BeginCache \/ EndCache
  BY <1>2 DEF BeginCache, StaleStart, RemoveStart, Return, EndCache
<1>3. CASE Prompt \/ Scan \/ Filter \/ Crash \/ Exit \/ Signal \/ Terminated \/ UNCHANGED vars
  BY <1>0, <1>3, ScanFrame DEF Prompt, Select, Confirm, Filter, Crash, Exit, Signal, Terminated,
                    vars, engineVars, loopVars
<1>4. CASE Outside
  <2>1. UNCHANGED <<op, walk>>
    BY <1>4 DEF Outside, Elsewhere, Vanish, Rewrite, Withdraw, Disturb
  <2>2. \A e \in Entry : disk'[e] = disk[e] \/ disk'[e].age = "absent"
    BY <1>0, <1>4 DEF Outside, Elsewhere, Vanish, Rewrite, Withdraw
  <2> QED
    BY <1>0, <2>1, <2>2
<1> QED
  BY <1>1, <1>2, <1>3, <1>4 DEF Next, Work

LEMMA FreedStep == LedgerInv /\ ScopeInv /\ FreedInv /\ [Next]_vars => FreedInv'
<1> SUFFICES ASSUME LedgerInv, ScopeInv, FreedInv, [Next]_vars PROVE FreedInv'
  OBVIOUS
<1>0. (LedgerInv /\ ScopeInv)'
  BY LedgerStep, ScopeStep
<1>1. /\ LedgerInv /\ ScopeInv /\ FreedIsReported /\ freed \in Nat
      /\ total \in Uint /\ result.bytesRemoved \in Uint /\ UintMax \in Nat /\ remaining \in Uint
      /\ args.target \in Uint
  BY LineTypes, EngineAssumption DEF FreedInv, ScopeInv, TypeOK, EngineTypeOK, LedgerInv, LedgerTypeOK
<1>2. ASSUME args' = args,
             Volatile = {} /\ args.stale =>
                \/ freed' - freed = Reported' - Reported
                \/ freed' - freed = Reported' - Reported + (UintMax + 1) /\ ~(args.target > 0)
      PROVE  FreedInv'
  <2>1. FreedIsReported'
    BY <1>0, <1>1, <1>2, AccountStep, Zenon
  <2> QED
    BY <2>1, SizeStep DEF FreedInv
<1>3. CASE Prompt \/ Scan \/ Filter
  <2>1. pc # "clean" /\ pc' # "clean" /\ UNCHANGED <<args, freed, total>>
    BY <1>3, ScanFrame DEF Prompt, Select, AfterSelect, Confirm, Filter, engineVars
  <2> QED
    BY <1>1, <1>2, <2>1, AccountIdle
<1>4. CASE BeginCache
  <2>1. pc # "clean" /\ pc' = "clean" /\ UNCHANGED <<args, freed, total>>
    BY <1>4 DEF BeginCache, StaleStart, RemoveStart, loopVars
  <2>2. result'.bytesRemoved = 0
    BY <1>4 DEF BeginCache, StaleStart, RemoveStart, Return, NewResult
  <2> QED
    BY <1>1, <1>2, <2>1, <2>2, AccountIdle
<1>5. CASE CleanStep
  <2>1. args' = args
    BY <1>5 DEF CleanStep, loopVars
  <2>2. args.stale \in BOOLEAN
    BY LineTypes DEF LedgerInv
  <2> QED
    BY <1>2, <1>5, <2>1, <2>2, AccountEngine
<1>6. CASE EndCache
  <2> DEFINE r == result.bytesRemoved
  <2>1. args' = args /\ freed' = freed /\ total' = Plus(total, r) /\ pc = "clean" /\ pc' # "clean"
    BY <1>6 DEF EndCache
  <2>2. Reported = total + r /\ Reported' = Plus(total, r)
    <3>1. Reported' = Plus(total, r) + 0
      BY <2>1 DEF Reported
    <3>2. Plus(total, r) \in Uint
      BY <1>1, PlusExact
    <3> QED
      BY <1>1, <2>1, <3>1, <3>2 DEF Reported
  <2>3. CASE total + r <= UintMax
    <3>1. Plus(total, r) = total + r
      BY <2>3 DEF Plus
    <3> QED
      BY <1>1, <1>2, <2>1, <2>2, <3>1
  <2>4. CASE ~(total + r <= UintMax)
    <3>1. Plus(total, r) = total + r - (UintMax + 1)
      BY <2>4 DEF Plus
    <3>2. ~(args.target > 0)
      BY <1>1, <2>1, <2>4 DEF LedgerInv
    <3>3. freed' - freed = Reported' - Reported + (UintMax + 1)
      BY <1>1, <2>1, <2>2, <3>1
    <3> QED
      BY <1>2, <2>1, <3>2, <3>3
  <2> QED
    BY <2>3, <2>4
<1>7. CASE Crash
  <2>1. pc = "clean" /\ pc' # "clean" /\ UNCHANGED <<args, freed, total>> /\ result.bytesRemoved = 0
    BY <1>7 DEF Crash, engineVars, loopVars, ScopeInv
  <2> QED
    BY <1>1, <1>2, <2>1, AccountIdle
<1>8. CASE Exit \/ Signal \/ Outside \/ Terminated \/ UNCHANGED vars
  <2>1. /\ UNCHANGED <<args, freed, total, result>>
        /\ (pc # "clean" /\ pc' # "clean") \/ (pc = "clean" /\ pc' = "clean")
    BY <1>8 DEF Exit, Signal, Outside, Elsewhere, Vanish, Rewrite, Withdraw, Disturb, Terminated,
                vars, engineVars, loopVars
  <2> QED
    BY <1>1, <1>2, <2>1, AccountIdle
<1> QED
  BY <1>3, <1>4, <1>5, <1>6, <1>7, <1>8 DEF Next, Work

\* If nobody else writes, a stale run reports exactly what it freed; without a
\* --target the report may have wrapped.
THEOREM FreedCorrect == Spec => []FreedIsReported
<1>1. Init => FreedInv
  <2> SUFFICES ASSUME Init PROVE FreedInv
    OBVIOUS
  <2>1. freed = 0 /\ total = 0 /\ pc = "scan" /\ op = "idle" /\ UintMax \in Nat
    BY EngineAssumption DEF Init, EngineInit
  <2>2. Reported = 0
    BY <2>1 DEF Reported
  <2>3. 0 \in 0..freed /\ freed = Reported + 0 * (UintMax + 1)
    BY <2>1, <2>2
  <2> QED
    BY <2>1, <2>3 DEF FreedInv, FreedIsReported
<1>2. FreedInv => FreedIsReported
  BY DEF FreedInv
<1> QED
  BY <1>1, <1>2, FreedStep, LedgerCorrect, ScopeCorrect, PTL DEF Spec

-----------------------------------------------------------------------------
(* What the plan still holds *)

\* Files go and none comes, and fewer of them are looked at: the bytes shrink.
LEMMA BytesOnLess ==
    ASSUME NEW d \in [Entry -> File], NEW d2 \in [Entry -> File],
           \A e \in Entry : d2[e] = d[e] \/ d2[e].age = "absent",
           NEW T \in SUBSET Entry, NEW S \in SUBSET T
    PROVE  BytesOn(d2, S) <= BytesOn(d, T)
<1> DEFINE L == {e \in T \cap Regular : d[e].age # "absent"}
           L2 == {e \in S \cap Regular : d2[e].age # "absent"}
           f == [e \in Entry |-> d[e].size]
           f2 == [e \in Entry |-> d2[e].size]
<1>1. /\ L \in SUBSET Entry /\ L2 \in SUBSET L
      /\ \A e \in L : f[e] \in Nat
      /\ \A e \in L2 : f2[e] \in Int /\ f2[e] <= f[e]
  BY EngineAssumption DEF File
<1>2. IsFiniteSet(L)
  BY <1>1, EngineAssumption, FS_Subset
<1> HIDE DEF L, L2, f, f2
<1>3. SumFunctionOnSet(f2, L2) <= SumFunctionOnSet(f, L)
  BY <1>1, <1>2, SumLess
<1> QED
  BY <1>3 DEF BytesOn, L, L2, f, f2

\* One entry holds no more than its size.
LEMMA BytesOnOne ==
    ASSUME NEW d \in [Entry -> File], NEW e \in Entry
    PROVE  BytesOn(d, {e}) <= (IF d[e].age # "absent" THEN d[e].size ELSE 0)
<1> DEFINE L == {x \in {e} \cap Regular : d[x].age # "absent"}
           f == [x \in Entry |-> d[x].size]
<1>1. BytesOn(d, {e}) = SumFunctionOnSet(f, L) /\ d[e].size \in Nat /\ f[e] = d[e].size
  BY EngineAssumption DEF BytesOn, File
<1>2. CASE L = {}
  <2>1. BytesOn(d, {e}) = 0
    BY <1>1, <1>2, SumEmpty, Zenon
  <2> QED
    BY <1>1, <2>1
<1>3. CASE L # {}
  <2>1. L = {e} /\ d[e].age # "absent"
    BY <1>3
  <2>2. SumFunctionOnSet(f, {e}) = f[e] + SumFunctionOnSet(f, {e} \ {e})
    <3>0. IsFiniteSet({e})
      BY FS_Singleton
    <3>1. IsFiniteSet({e}) /\ \A x \in {e} : f[x] \in Int
      BY <1>1, <3>0
    <3> HIDE DEF f
    <3> QED
      BY <3>1, SumAdd
  <2>3. SumFunctionOnSet(f, {e} \ {e}) = 0
    <3>1. {e} \ {e} = {}
      OBVIOUS
    <3> QED
      BY <3>1, SumEmpty, Zenon
  <2>4. BytesOn(d, {e}) = f[e] + 0
    BY <1>1, <2>1, <2>2, <2>3, Zenon
  <2> QED
    BY <1>1, <2>1, <2>4
<1> QED
  BY <1>2, <1>3

\* Two locations hold no more than each of them.
LEMMA BytesOnUnion ==
    ASSUME NEW d \in [Entry -> File], NEW S \in SUBSET Entry, NEW T \in SUBSET Entry
    PROVE  BytesOn(d, S \cup T) <= BytesOn(d, S) + BytesOn(d, T)
<1> DEFINE L(U) == {e \in U \cap Regular : d[e].age # "absent"}
           f == [e \in Entry |-> d[e].size]
           A == L(S)
           B == L(T)
<1>1. A \in SUBSET Entry /\ B \in SUBSET Entry /\ L(S \cup T) = A \cup B
      /\ \A e \in Entry : f[e] \in Nat
  BY EngineAssumption DEF File
<1>2. SumFunctionOnSet(f, A \cup B) <= SumFunctionOnSet(f, A) + SumFunctionOnSet(f, B)
  <2> HIDE DEF A, B, f
  <2> QED
    BY <1>1, EngineAssumption, SumUnion
<1>3. /\ BytesOn(d, S \cup T) = SumFunctionOnSet(f, L(S \cup T))
      /\ BytesOn(d, S) = SumFunctionOnSet(f, A) /\ BytesOn(d, T) = SumFunctionOnSet(f, B)
  BY DEF BytesOn
<1> HIDE DEF L, A, B, f
<1> QED
  BY <1>1, <1>2, <1>3

\* A file that goes takes its bytes with it.
LEMMA BytesOnUnlink ==
    ASSUME NEW d \in [Entry -> File], NEW S \in SUBSET Entry, NEW e \in S,
           d[e].age # "absent", e \notin Regular => d[e].size = 0
    PROVE  LET d2 == [d EXCEPT ![e] = [age |-> "absent", size |-> 0]]
           IN  d[e].size + BytesOn(d2, S) <= BytesOn(d, S)
<1> DEFINE d2 == [d EXCEPT ![e] = [age |-> "absent", size |-> 0]]
           L == {x \in S \cap Regular : d[x].age # "absent"}
           L2 == {x \in S \cap Regular : d2[x].age # "absent"}
           f == [x \in Entry |-> d[x].size]
           f2 == [x \in Entry |-> d2[x].size]
<1>1. d2 \in [Entry -> File] /\ \A x \in Entry : d2[x] = IF x = e THEN [age |-> "absent", size |-> 0] ELSE d[x]
  BY EngineAssumption DEF File, Age
<1>2. CASE e \notin Regular
  <2>1. BytesOn(d2, S) <= BytesOn(d, S)
    <3>1. \A x \in Entry : d2[x] = d[x] \/ d2[x].age = "absent"
      BY <1>1
    <3> HIDE DEF d2
    <3> QED
      BY <1>1, <3>1, BytesOnLess
  <2>2. BytesOn(d2, S) \in Nat /\ BytesOn(d, S) \in Nat
    <3> HIDE DEF d2
    <3> QED
      BY <1>1, BytesOnNat
  <2> HIDE DEF d2
  <2>3. d[e].size + BytesOn(d2, S) <= BytesOn(d, S)
    BY <1>2, <2>1, <2>2
  <2> QED
    BY <2>3 DEF d2
<1>3. CASE e \in Regular
  <2>1. /\ e \in L /\ L \in SUBSET Entry /\ L2 = L \ {e} /\ f[e] = d[e].size
        /\ \A x \in L : f[x] \in Nat
        /\ \A x \in L2 : f2[x] \in Int /\ f2[x] = f[x]
    <3> HIDE DEF d2
    <3> QED
      BY <1>1, <1>3 DEF File
  <2>2. IsFiniteSet(L) /\ IsFiniteSet(L2)
    <3>1. L2 \in SUBSET Entry
      OBVIOUS
    <3> HIDE DEF L, L2
    <3> QED
      BY <2>1, <3>1, EngineAssumption, FS_Subset
  <2>3. BytesOn(d, S) = SumFunctionOnSet(f, L) /\ BytesOn(d2, S) = SumFunctionOnSet(f2, L2)
    BY DEF BytesOn
  <2> HIDE DEF d2, L, L2, f, f2
  <2>4. SumFunctionOnSet(f, L) = f[e] + SumFunctionOnSet(f, L \ {e})
    BY <2>1, <2>2, SumAdd
  <2>5. SumFunctionOnSet(f2, L2) = SumFunctionOnSet(f, L2)
    BY <2>1, <2>2, SumSame
  <2>6. BytesOn(d2, S) \in Nat /\ d[e].size \in Nat
    BY <1>1, BytesOnNat DEF File
  <2>7. BytesOn(d, S) = d[e].size + BytesOn(d2, S)
    BY <2>1, <2>3, <2>4, <2>5, Zenon
  <2>8. d[e].size + BytesOn(d2, S) <= BytesOn(d, S)
    BY <2>6, <2>7
  <2> QED
    BY <2>8 DEF d2
<1> QED
  BY <1>2, <1>3

\* What a list of locations reaches.
Reach(R) == UNION {Below[r] : r \in R}

LEMMA ReachFacts ==
    ASSUME NEW R \in SUBSET Root
    PROVE  /\ Reach(R) \in SUBSET Entry
           /\ \A Q \in SUBSET R : Reach(Q) \in SUBSET Reach(R)
           /\ \A r \in R : Below[r] \in SUBSET Reach(R)
           /\ \A r \in Root : Reach(R \cup {r}) = Reach(R) \cup Below[r]
BY EngineAssumption DEF Reach

LEMMA RangeOfAppend ==
    ASSUME NEW a \in Seq(Root), NEW r \in Root
    PROVE  Range(Append(a, r)) = Range(a) \cup {r} /\ Range(a) \in SUBSET Root
<1>1. /\ DOMAIN a = 1..Len(a) /\ Len(a) \in Nat /\ \A i \in 1..Len(a) : a[i] \in Root
      /\ DOMAIN Append(a, r) = 1..(Len(a) + 1)
      /\ \A i \in 1..Len(a) : Append(a, r)[i] = a[i]
      /\ Append(a, r)[Len(a) + 1] = r
  OBVIOUS
<1>2. \A i : i \in 1..(Len(a) + 1) <=> i \in 1..Len(a) \/ i = Len(a) + 1
  BY <1>1
<1> QED
  BY <1>1, <1>2, Zenon DEF Range

\* One cache more: it fits into what is left, and holds no more than measured
\* unless the scan missed something.
LEMMA TakeFittingHolds ==
    ASSUME NEW acc \in Acc, NEW r \in Root, disk \in [Entry -> File], args.target \in Uint,
           scan.bytes[r] \in Nat, r \notin scan.short => BytesOn(disk, Below[r]) <= scan.bytes[r],
           acc.planned <= args.target,
           BytesOn(disk, Reach(Range(acc.picked) \ scan.short)) <= acc.planned
    PROVE  LET next == TakeFitting(acc, r)
           IN  /\ next.planned <= args.target
               /\ BytesOn(disk, Reach(Range(next.picked) \ scan.short)) <= next.planned
<1>1. /\ acc.picked \in Seq(Root) /\ acc.planned \in Nat /\ args.target \in Nat /\ UintMax \in Nat
      /\ acc.planned \in Uint
  BY EngineAssumption DEF Acc
<1>2. Minus(args.target, acc.planned) = args.target - acc.planned
  BY <1>1, MinusExact
<1>3. CASE scan.bytes[r] = 0 \/ scan.bytes[r] > Minus(args.target, acc.planned)
  BY <1>3 DEF TakeFitting
<1>4. CASE ~(scan.bytes[r] = 0 \/ scan.bytes[r] > Minus(args.target, acc.planned))
  <2> DEFINE next == TakeFitting(acc, r)
             S == Reach(Range(acc.picked) \ scan.short)
             T == Reach(Range(Append(acc.picked, r)) \ scan.short)
  <2>1. next.picked = Append(acc.picked, r) /\ next.planned = acc.planned + scan.bytes[r]
    BY <1>4 DEF TakeFitting
  <2>2. /\ S \in SUBSET Entry /\ Below[r] \in SUBSET Entry
        /\ T = IF r \in scan.short THEN S ELSE S \cup Below[r]
    <3>1. Range(Append(acc.picked, r)) = Range(acc.picked) \cup {r} /\ Range(acc.picked) \in SUBSET Root
      BY <1>1, RangeOfAppend
    <3>2. CASE r \in scan.short
      <4>1. Range(Append(acc.picked, r)) \ scan.short = Range(acc.picked) \ scan.short
        BY <3>1, <3>2
      <4> QED
        BY <3>1, <3>2, <4>1, ReachFacts, EngineAssumption
    <3>3. CASE r \notin scan.short
      <4>1. Range(Append(acc.picked, r)) \ scan.short = (Range(acc.picked) \ scan.short) \cup {r}
        BY <3>1, <3>3
      <4> QED
        BY <3>1, <3>3, <4>1, ReachFacts, EngineAssumption
    <3> QED
      BY <3>2, <3>3
  <2> HIDE DEF S, T, next
  <2>3. BytesOn(disk, S) \in Nat /\ BytesOn(disk, S) <= acc.planned /\ BytesOn(disk, T) \in Nat
    BY <2>2, BytesOnNat DEF S
  <2>4. BytesOn(disk, T) <= BytesOn(disk, S) + scan.bytes[r]
    <3>1. CASE r \in scan.short
      BY <2>2, <2>3, <3>1
    <3>2. CASE r \notin scan.short
      <4>1. BytesOn(disk, S \cup Below[r]) <= BytesOn(disk, S) + BytesOn(disk, Below[r])
        BY <2>2, BytesOnUnion
      <4>2. BytesOn(disk, Below[r]) \in Nat /\ BytesOn(disk, Below[r]) <= scan.bytes[r]
        BY <2>2, <3>2, BytesOnNat
      <4>3. T = S \cup Below[r]
        BY <2>2, <3>2
      <4>4. BytesOn(disk, T) <= BytesOn(disk, S) + BytesOn(disk, Below[r])
        BY <4>1, <4>3, Zenon
      <4> QED
        BY <2>3, <4>2, <4>4
    <3> QED
      BY <3>1, <3>2
  <2>5. BytesOn(disk, T) <= acc.planned + scan.bytes[r] /\ acc.planned + scan.bytes[r] <= args.target
    <3>1. scan.bytes[r] <= args.target - acc.planned
      BY <1>1, <1>2, <1>4
    <3> QED
      BY <1>1, <2>3, <2>4, <3>1
  <2>6. /\ BytesOn(disk, Reach(Range(next.picked) \ scan.short)) <= next.planned
        /\ next.planned <= args.target
    BY <2>1, <2>5, Zenon DEF T
  <2> QED
    BY <2>6 DEF next
<1> QED
  BY <1>3, <1>4

\* What applyTarget takes holds no more than the target, overlaps or not, but for
\* the caches of which the scan missed something.
LEMMA ApplyTargetHolds ==
    ASSUME NEW order \in Seq(Root), disk \in [Entry -> File], args.target \in Uint,
           \A r \in Root : scan.bytes[r] \in Nat,
           \A i \in 1..Len(order) : order[i] \notin scan.short =>
               BytesOn(disk, Below[order[i]]) <= scan.bytes[order[i]]
    PROVE  Held(Range(ApplyTarget(order)) \ scan.short) <= args.target
<1> DEFINE n == Len(order)
           Fits(a) == /\ a.planned <= args.target
                      /\ BytesOn(disk, Reach(Range(a.picked) \ scan.short)) <= a.planned
<1>1. PICK p \in [0..n -> Acc] :
         /\ p[0] = NoneYet /\ p[n].picked = ApplyTarget(order)
         /\ \A k \in 1..n : p[k] = TakeFitting(p[k - 1], order[k])
  BY TargetSteps
<1>2. n \in Nat /\ \A k \in 1..n : order[k] \in Root
  OBVIOUS
<1> DEFINE N == {k \in 0..n : Fits(p[k])}
<1>3. 0 \in N
  <2>1. BytesOn(disk, {}) = 0
    <3>1. {e \in {} \cap Regular : disk[e].age # "absent"} = {}
      OBVIOUS
    <3> QED
      BY <3>1, SumEmpty DEF BytesOn
  <2>2. Reach(Range(<<>>) \ scan.short) = {}
    BY DEF Reach, Range
  <2>3. p[0].picked = <<>> /\ p[0].planned = 0 /\ 0 <= args.target
    BY <1>1, EngineAssumption DEF NoneYet
  <2>4. BytesOn(disk, Reach(Range(p[0].picked) \ scan.short)) = 0
    BY <2>1, <2>2, <2>3, Zenon
  <2> QED
    BY <1>2, <2>3, <2>4
<1>4. ASSUME NEW k \in 0..(n - 1), k \in N PROVE k + 1 \in N
  <2>1. k \in 0..n /\ k + 1 \in 1..n /\ k + 1 \in 0..n /\ (k + 1) - 1 = k
    BY <1>2
  <2>2. p[k + 1] = TakeFitting(p[k], order[k + 1])
    BY <1>1, <2>1
  <2>3. p[k] \in Acc /\ order[k + 1] \in Root /\ Fits(p[k])
    BY <1>1, <1>2, <1>4, <2>1
  <2>4. Fits(TakeFitting(p[k], order[k + 1]))
    BY <2>1, <2>3, TakeFittingHolds
  <2> HIDE DEF Fits
  <2> QED
    BY <2>1, <2>2, <2>4
<1>5. Fits(p[n])
  <2>1. 0..n \subseteq N
    <3> HIDE DEF N, n
    <3> QED
      BY <1>2, <1>3, <1>4, EveryNumberUpTo
  <2> HIDE DEF Fits
  <2> QED
    BY <1>2, <2>1
<1>6. p[n] \in Acc
  BY <1>1, <1>2
<1>7. p[n].picked \in Seq(Root) /\ p[n].planned \in Nat /\ args.target \in Nat
  BY <1>6, EngineAssumption DEF Acc
<1>8. BytesOn(disk, Reach(Range(p[n].picked) \ scan.short)) \in Nat
  <2>1. Range(p[n].picked) \ scan.short \in SUBSET Root
    BY <1>7 DEF Range
  <2> QED
    BY <2>1, ReachFacts, BytesOnNat
<1>9. BytesOn(disk, Reach(Range(p[n].picked) \ scan.short)) <= args.target
  BY <1>5, <1>7, <1>8
<1> QED
  BY <1>1, <1>9, Zenon DEF Held, Reach

\* Files go, the plan gets shorter, nothing is freed.
LEMMA HeldShrinks ==
    ASSUME ScopeInv, HeldInv, Volatile = {}, disk' \in [Entry -> File],
           \A e \in Entry : disk'[e] = disk[e] \/ disk'[e] = [age |-> "absent", size |-> 0],
           UNCHANGED <<freed, scan, args>>, Range(plan') \subseteq Range(plan),
           plan' = plan \/ pc = "select",
           (pc \notin {"scan", "filter"} /\ pc' \notin {"scan", "filter"}) \/ pc' = pc
    PROVE  HeldInv'
<1>0. /\ disk \in [Entry -> File] /\ scan.bytes \in [Root -> Nat] /\ freed \in Nat
      /\ args.target \in Nat /\ Range(plan) \in SUBSET Root /\ scan.found \subseteq Root
      /\ pc = "select" => freed = 0
  BY CommandAssumption DEF ScopeInv, TypeOK, EngineTypeOK, Range
<1>1. (\A e \in Entry \ Regular : disk'[e].size = 0) /\ (pc' # "scan" => scan'.todo = {})
  BY DEF HeldInv
<1>2. \A S, T \in SUBSET Entry : S \subseteq T =>
         /\ BytesOn(disk', S) \in Nat /\ BytesOn(disk, T) \in Nat
         /\ BytesOn(disk', S) <= BytesOn(disk, T)
  <2>1. \A e \in Entry : disk'[e] = disk[e] \/ disk'[e].age = "absent"
    OBVIOUS
  <2> SUFFICES ASSUME NEW T \in SUBSET Entry, NEW S \in SUBSET T
               PROVE  /\ BytesOn(disk', S) \in Nat /\ BytesOn(disk, T) \in Nat
                      /\ BytesOn(disk', S) <= BytesOn(disk, T)
    OBVIOUS
  <2> QED
    BY <1>0, <2>1, BytesOnLess, BytesOnNat
<1>3. pc' \in {"scan", "filter"} =>
         \A r \in scan'.found \ scan'.short : BytesOn(disk', Measured(r)') <= scan'.bytes[r]
  <2> SUFFICES ASSUME pc' \in {"scan", "filter"}, NEW r \in scan.found \ scan.short
               PROVE  BytesOn(disk', Measured(r)') <= scan.bytes[r]
    OBVIOUS
  <2> DEFINE M == Measured(r)
  <2>1. BytesOn(disk, M) <= scan.bytes[r] /\ M \in SUBSET Entry /\ Measured(r)' = M
    BY <1>0, EngineAssumption DEF HeldInv, Measured
  <2> HIDE DEF M
  <2>2. /\ BytesOn(disk', M) \in Nat /\ BytesOn(disk, M) \in Nat
        /\ BytesOn(disk', M) <= BytesOn(disk, M)
    BY <1>2, <2>1
  <2>3. BytesOn(disk', M) <= scan.bytes[r]
    BY <1>0, <2>1, <2>2
  <2> QED
    BY <2>1, <2>3, Zenon
<1>4. ASSUME args.target > 0, pc' \notin {"scan", "filter"}
      PROVE  BytesOn(disk', Reach(Range(plan') \ scan.short)) <= args.target
  <2> DEFINE T == Reach(Range(plan) \ scan.short)
             S == Reach(Range(plan') \ scan.short)
  <2>1. BytesOn(disk, T) <= args.target
    BY <1>4 DEF HeldInv, Held, Reach
  <2>2. T \in SUBSET Entry /\ S \in SUBSET T /\ S \in SUBSET Entry
    <3>1. /\ Range(plan) \ scan.short \in SUBSET Root
          /\ Range(plan') \ scan.short \in SUBSET (Range(plan) \ scan.short)
      BY <1>0
    <3> QED
      BY <3>1, ReachFacts
  <2> HIDE DEF S, T
  <2>3. /\ BytesOn(disk', S) \in Nat /\ BytesOn(disk, T) \in Nat
        /\ BytesOn(disk', S) <= BytesOn(disk, T)
    BY <1>2, <2>2
  <2>4. BytesOn(disk', S) <= args.target
    BY <1>0, <2>1, <2>3
  <2> QED
    BY <2>4 DEF S
<1>5. ASSUME args.target > 0, pc' \notin {"scan", "filter"}, Range(plan') \cap scan.short = {}
      PROVE  freed + BytesOn(disk', Reach(Range(plan'))) <= args.target
  <2> DEFINE S == Reach(Range(plan'))
  <2>0. S \in SUBSET Entry /\ Range(plan') \in SUBSET Root
    BY <1>0, ReachFacts
  <2>1. CASE pc = "select"
    <3>1. Range(plan') \ scan.short = Range(plan')
      BY <1>5
    <3>2. BytesOn(disk', S) <= args.target
      BY <1>4, <1>5, <3>1
    <3> HIDE DEF S
    <3>3. BytesOn(disk', S) \in Nat
      BY <1>2, <2>0
    <3>4. freed + BytesOn(disk', S) <= args.target
      BY <1>0, <2>1, <3>2, <3>3
    <3> QED
      BY <3>4 DEF S
  <2>2. CASE plan' = plan
    <3>1. freed + BytesOn(disk, S) <= args.target
      BY <1>5, <2>2 DEF HeldInv, Held, Reach
    <3> HIDE DEF S
    <3>2. BytesOn(disk', S) \in Nat /\ BytesOn(disk, S) \in Nat /\ BytesOn(disk', S) <= BytesOn(disk, S)
      BY <1>2, <2>0
    <3>3. freed + BytesOn(disk', S) <= args.target
      BY <1>0, <3>1, <3>2
    <3> QED
      BY <3>3 DEF S
  <2> QED
    BY <2>1, <2>2
<1> QED
  BY <1>1, <1>3, <1>4, <1>5 DEF HeldInv, Held, Reach

\* What the engine unlinks lies below a planned cache, and its bytes are those
\* that are freed.
LEMMA HeldUnlink ==
    ASSUME ScopeInv, HeldInv, Volatile = {}, disk' \in [Entry -> File],
           pc = "clean", pc' = "clean", UNCHANGED <<scan, args, plan>>,
           NEW e \in Below[walk.root], e \in Entry, Unlink(e), disk[e].age # "absent"
    PROVE  HeldInv'
<1>0. /\ disk \in [Entry -> File] /\ freed \in Nat
      /\ args.target \in Nat /\ Range(plan) \in SUBSET Root /\ disk[e].size \in Nat
      /\ walk.root \in Range(plan) /\ walk.root \in Root
  <2>1. /\ disk \in [Entry -> File] /\ freed \in Nat
        /\ args.target \in Nat /\ Range(plan) \in SUBSET Root
    BY CommandAssumption DEF ScopeInv, TypeOK, EngineTypeOK, Range
  <2>2. disk[e].size \in Nat
    BY <2>1 DEF File
  <2>3. plan \in Seq(Root) /\ idx \in 1..Len(plan) /\ walk.root = plan[idx]
    BY DEF ScopeInv, TypeOK
  <2> QED
    BY <2>1, <2>2, <2>3, ListElements
<1>1. (\A x \in Entry \ Regular : disk'[x].size = 0) /\ scan'.todo = {}
  BY <1>0 DEF HeldInv, Unlink
<1>2. ASSUME args.target > 0
      PROVE  BytesOn(disk', Reach(Range(plan) \ scan.short)) <= args.target
  <2> DEFINE T == Reach(Range(plan) \ scan.short)
  <2>1. BytesOn(disk, T) <= args.target
    BY <1>2 DEF HeldInv, Held, Reach
  <2>2. T \in SUBSET Entry /\ \A x \in Entry : disk'[x] = disk[x] \/ disk'[x].age = "absent"
    <3>1. Range(plan) \ scan.short \in SUBSET Root
      BY <1>0
    <3> QED
      BY <1>0, <3>1, ReachFacts DEF Unlink
  <2> HIDE DEF T
  <2>3. BytesOn(disk', T) \in Nat /\ BytesOn(disk, T) \in Nat /\ BytesOn(disk', T) <= BytesOn(disk, T)
    BY <1>0, <2>2, BytesOnNat, BytesOnLess
  <2>4. BytesOn(disk', T) <= args.target
    BY <1>0, <2>1, <2>3
  <2> QED
    BY <2>4 DEF T
<1>3. ASSUME args.target > 0, Range(plan) \cap scan.short = {}
      PROVE  freed' + BytesOn(disk', Reach(Range(plan))) <= args.target
  <2> DEFINE T == Reach(Range(plan))
  <2>1. freed + BytesOn(disk, T) <= args.target
    BY <1>3 DEF HeldInv, Held, Reach
  <2>2. T \in SUBSET Entry /\ e \in T
    BY <1>0, ReachFacts
  <2>3. disk' = [disk EXCEPT ![e] = [age |-> "absent", size |-> 0]] /\ freed' = freed + disk[e].size
    BY DEF Unlink
  <2>4. e \notin Regular => disk[e].size = 0
    BY DEF HeldInv
  <2> HIDE DEF T
  <2>5. disk[e].size + BytesOn(disk', T) <= BytesOn(disk, T)
    BY <1>0, <2>2, <2>3, <2>4, BytesOnUnlink
  <2>6. BytesOn(disk', T) \in Nat /\ BytesOn(disk, T) \in Nat
    BY <1>0, <2>2, BytesOnNat
  <2>7. freed' + BytesOn(disk', T) <= args.target
    BY <1>0, <2>1, <2>3, <2>5, <2>6
  <2> QED
    BY <2>7 DEF T
<1> QED
  BY <1>1, <1>2, <1>3 DEF HeldInv, Held, Reach

\* The loop unlinks only through these two actions.
LEMMA WhoUnlinks ==
    ASSUME ScopeInv, CleanStep
    PROVE  \/ UNCHANGED <<disk, freed>>
           \/ \E e \in Entry : e \in Below[walk.root] /\ Unlink(e) /\ disk[e].age # "absent"
<1>0. /\ pc = "clean" /\ EngineStep /\ walk.todo \subseteq Below[walk.root] /\ walk.entry \in Entry
      /\ op = "unlink" => walk.entry \in Below[walk.root]
  BY DEF CleanStep, ScopeInv, TypeOK, EngineTypeOK
<1>1. ASSUME NEW e \in Entry, RemoveUnlink(e)
      PROVE  UNCHANGED <<disk, freed>> \/ (e \in Below[walk.root] /\ Unlink(e) /\ disk[e].age # "absent")
  BY <1>0, <1>1 DEF RemoveUnlink
<1>2. CASE StaleUnlink
  BY <1>0, <1>2 DEF StaleUnlink, Unreadable
<1>3. ASSUME NEW e \in Entry, StaleVisit(e) PROVE UNCHANGED <<disk, freed>>
  BY <1>3 DEF StaleVisit
<1>4. CASE StaleEnd \/ StaleAge \/ StaleSize \/ RemoveEnd
  BY <1>4 DEF StaleEnd, StaleAge, StaleSize, RemoveEnd
<1> QED
  BY <1>0, <1>1, <1>2, <1>3, <1>4 DEF EngineStep

\* While the scan measures: what is left to measure is left out.
LEMMA HeldScan ==
    ASSUME LedgerInv, ScopeInv, HeldInv, Volatile = {}, Scan
    PROVE  HeldInv'
<1>0. /\ disk \in [Entry -> File] /\ scan \in ScanType /\ disk' = disk
      /\ pc = "scan" /\ pc' \in {"scan", "filter"} /\ (pc' = "filter" => scan'.todo = {})
      /\ \A e \in Entry \ Regular : disk[e].size = 0
  <2>1. /\ disk \in [Entry -> File] /\ scan \in ScanType /\ disk' = disk
        /\ pc = "scan" /\ pc' \in {"scan", "filter"} /\ (pc' = "filter" => EndScan)
        /\ \A e \in Entry \ Regular : disk[e].size = 0
    BY ScanFrame DEF ScopeInv, TypeOK, EngineTypeOK, ScanType, HeldInv, engineVars
  <2>2. EndScan => scan'.todo = {}
    BY <2>1 DEF EndScan, ScanType
  <2> QED
    BY <2>1, <2>2
<1>1. \A r \in scan.found \ scan.short : BytesOn(disk, Measured(r)) <= scan.bytes[r]
  BY <1>0 DEF HeldInv
<1>2. SUFFICES ASSUME NEW r \in scan'.found \ scan'.short
               PROVE  BytesOn(disk, Measured(r)') <= scan'.bytes[r]
  BY <1>0 DEF HeldInv
<1>3. r \in Root /\ scan' \in ScanType
  BY <1>0, ScanTyped DEF ScopeInv, ScanType
<1>4. CASE UNCHANGED <<scan.found, scan.bytes, scan.todo, scan.short>>
  <2>1. Measured(r)' = Measured(r) /\ r \in scan.found \ scan.short /\ scan'.bytes = scan.bytes
    BY <1>4 DEF Measured
  <2> QED
    BY <1>1, <2>1, Zenon
<1>5. CASE StopShort
  <2>1. /\ scan'.found = scan.found /\ scan'.bytes = scan.bytes /\ scan'.todo = {}
        /\ scan'.short = scan.short \cup {m[1] : m \in scan.todo}
    BY <1>0, <1>5 DEF StopShort, ScanType
  <2>2. \A e \in Entry : <<r, e>> \notin scan.todo
    <3> SUFFICES ASSUME NEW e \in Entry, <<r, e>> \in scan.todo PROVE FALSE
      OBVIOUS
    <3>1. <<r, e>>[1] = r
      OBVIOUS
    <3> QED
      BY <1>2, <2>1, <3>1
  <2>3. Measured(r)' = Measured(r)
    BY <2>1, <2>2 DEF Measured
  <2>4. r \in scan.found \ scan.short
    BY <1>2, <2>1
  <2> QED
    BY <1>1, <2>1, <2>3, <2>4, Zenon
<1>6. ASSUME NEW q \in Root, BeginMeasure(q) PROVE BytesOn(disk, Measured(r)') <= scan'.bytes[r]
  <2>1. /\ scan'.found = scan.found \cup {q} /\ scan'.bytes = scan.bytes /\ scan.todo = {}
        /\ scan'.todo = {q} \X (Below[q] \cap Regular) /\ scan'.short = scan.short
    BY <1>0, <1>6 DEF BeginMeasure, ScanType
  <2>2. CASE r = q
    <3>1. Measured(r)' \cap Regular = {}
      <4>1. \A e \in Below[r] \cap Regular : <<r, e>> \in scan'.todo /\ e \in Entry
        BY <2>1, <2>2, EngineAssumption
      <4> QED
        BY <4>1 DEF Measured
    <3>2. BytesOn(disk, Measured(r)') = 0
      <4>1. {e \in Measured(r)' \cap Regular : disk[e].age # "absent"} = {}
        BY <3>1
      <4> QED
        BY <4>1, SumEmpty DEF BytesOn
    <3>3. scan'.bytes[r] \in Nat
      BY <1>3 DEF ScanType
    <3> QED
      BY <3>2, <3>3
  <2>3. CASE r # q
    <3>1. \A e \in Entry : <<r, e>> \notin scan.todo /\ <<r, e>> \notin scan'.todo
      BY <2>1, <2>3
    <3>2. Measured(r)' = Measured(r) /\ r \in scan.found \ scan.short
      BY <1>2, <2>1, <2>3, <3>1 DEF Measured
    <3> QED
      BY <1>1, <2>1, <3>2, Zenon
  <2> QED
    BY <2>2, <2>3
<1>7. ASSUME NEW q \in Root, NEW f \in Entry, Measure(q, f)
      PROVE  BytesOn(disk, Measured(r)') <= scan'.bytes[r]
  <2>1. /\ scan'.found = scan.found /\ scan'.todo = scan.todo \ {<<q, f>>} /\ scan.short \subseteq scan'.short
        /\ scan'.bytes = [scan.bytes EXCEPT ![q] =
                             IF Here(q) /\ disk[f].age # "absent" THEN @ + disk[f].size ELSE @]
        /\ Here(q) \/ disk[f].age = "absent" \/ q \in scan'.short
    BY <1>0, <1>7 DEF Measure, ScanType
  <2>2. BytesOn(disk, Measured(r)) <= scan.bytes[r] /\ r \in scan.found \ scan.short
    BY <1>1, <1>2, <2>1
  <2>3. CASE r # q
    <3>1. Measured(r)' = Measured(r) /\ scan'.bytes[r] = scan.bytes[r]
      BY <1>0, <1>3, <2>1, <2>3 DEF Measured, ScanType
    <3> QED
      BY <2>2, <3>1, Zenon
  <2>4. CASE r = q
    <3> DEFINE M == Measured(r)
               add == IF disk[f].age # "absent" THEN disk[f].size ELSE 0
    <3>1. Measured(r)' \in SUBSET (M \cup {f}) /\ M \in SUBSET Entry /\ M \cup {f} \in SUBSET Entry
      BY <1>3, <2>1, EngineAssumption DEF Measured
    <3>2. scan.bytes[r] \in Nat /\ add \in Nat /\ scan'.bytes[r] = scan.bytes[r] + add
      BY <1>0, <1>2, <1>3, <2>1, <2>4 DEF ScanType, File
    <3>3. BytesOn(disk, {f}) <= add /\ BytesOn(disk, {f}) \in Nat
      <4>1. BytesOn(disk, {f}) \in Nat
        BY <1>0, BytesOnNat
      <4> QED
        BY <1>0, <4>1, BytesOnOne
    <3> HIDE DEF M, add
    <3>4. BytesOn(disk, M) \in Nat /\ BytesOn(disk, M) <= scan.bytes[r]
      BY <1>0, <2>2, <3>1, BytesOnNat DEF M
    <3>5. BytesOn(disk, M \cup {f}) <= BytesOn(disk, M) + BytesOn(disk, {f})
      BY <1>0, <3>1, BytesOnUnion
    <3> DEFINE M2 == Measured(r)'
    <3>6. /\ BytesOn(disk, M2) <= BytesOn(disk, M \cup {f}) /\ BytesOn(disk, M2) \in Nat
          /\ BytesOn(disk, M \cup {f}) \in Nat
      <4> HIDE DEF M2
      <4>1. M2 \in SUBSET (M \cup {f})
        BY <3>1 DEF M2
      <4> QED
        BY <1>0, <3>1, <4>1, BytesOnNat, BytesOnLess
    <3> HIDE DEF M2
    <3>7. BytesOn(disk, M2) <= scan'.bytes[r]
      BY <3>2, <3>3, <3>4, <3>5, <3>6
    <3> QED
      BY <3>7 DEF M2
  <2> QED
    BY <2>3, <2>4
<1>8. CASE EndScan
  BY <1>4, <1>8, <1>0 DEF EndScan, ScanType
<1> QED
  BY <1>5, <1>6, <1>7, <1>8 DEF Scan

LEMMA HeldStep == LedgerInv /\ ScopeInv /\ HeldInv /\ [Next]_vars => HeldInv'
<1> SUFFICES ASSUME LedgerInv, ScopeInv, HeldInv, [Next]_vars, Volatile = {} PROVE HeldInv'
  BY DEF HeldInv
<1>0. disk' \in [Entry -> File]
  BY ScopeStep DEF ScopeInv, TypeOK, EngineTypeOK
<1>1. /\ disk \in [Entry -> File] /\ scan.bytes \in [Root -> Nat] /\ args.target \in Uint
      /\ pc \in {"scan", "filter"} => freed = 0 /\ plan = <<>>
      /\ \A e \in Entry \ Regular : disk[e].size = 0
  BY LineTypes DEF LedgerInv, ScopeInv, TypeOK, EngineTypeOK, HeldInv
<1>2. CASE Scan
  BY <1>2, HeldScan
<1>3. CASE Filter
  <2>1. /\ UNCHANGED <<disk, freed, args>> /\ pc = "filter" /\ freed = 0 /\ scan.todo = {}
        /\ pc' \in {"done", "select"} /\ scan'.short = scan.short /\ scan'.todo = scan.todo
    BY <1>1, <1>3 DEF Filter, engineVars, HeldInv
  <2>2. \A r \in scan.found :
          r \notin scan.short => BytesOn(disk, Below[r]) <= scan.bytes[r]
    <3> SUFFICES ASSUME NEW r \in scan.found \ scan.short
                 PROVE  BytesOn(disk, Below[r]) <= scan.bytes[r]
      OBVIOUS
    <3>1. BytesOn(disk, Measured(r)) <= scan.bytes[r]
      BY <2>1 DEF HeldInv
    <3>2. Measured(r) = Below[r]
      BY <2>1 DEF Measured
    <3> QED
      BY <3>1, <3>2, Zenon
  <2>3. args.target > 0 => Held(Range(plan') \ scan.short) <= args.target
    <3>1. PICK wanted \in SUBSET scan.found :
            \E order \in Orders({r \in wanted : Eligible(r)}) :
               plan' = IF args.target > 0 THEN ApplyTarget(order) ELSE order
      BY <1>3 DEF Filter
    <3> DEFINE S == {r \in wanted : Eligible(r)}
    <3>2. S \in SUBSET Root /\ S \subseteq scan.found
      BY DEF ScopeInv, TypeOK
    <3> HIDE DEF S
    <3>3. PICK order \in Orders(S) :
             plan' = IF args.target > 0 THEN ApplyTarget(order) ELSE order
      BY <3>1 DEF S
    <3>4. order \in Seq(Root) /\ Range(order) \subseteq S
      BY <3>2, <3>3, OrderFacts
    <3>5. \A i \in 1..Len(order) : order[i] \in scan.found
      BY <3>2, <3>4 DEF Range
    <3>6. /\ \A r \in Root : scan.bytes[r] \in Nat
          /\ \A i \in 1..Len(order) : order[i] \notin scan.short =>
                BytesOn(disk, Below[order[i]]) <= scan.bytes[order[i]]
      BY <1>1, <2>2, <3>5
    <3> QED
      BY <1>1, <3>3, <3>4, <3>6, ApplyTargetHolds
  <2>4. ASSUME args.target > 0, Range(plan') \cap scan.short = {}
        PROVE  freed + BytesOn(disk, Reach(Range(plan'))) <= args.target
    <3> DEFINE b == BytesOn(disk, Reach(Range(plan')))
    <3>0. Range(plan') \ scan.short = Range(plan')
      BY <2>4
    <3>1. b <= args.target
      BY <2>3, <2>4, <3>0 DEF Held, Reach
    <3>2. b \in Nat
      <4>1. plan' \in Seq(Root)
        BY ScopeStep DEF ScopeInv, TypeOK
      <4>2. Range(plan') \in SUBSET Root
        BY <4>1 DEF Range
      <4> QED
        BY <1>1, <4>2, ReachFacts, BytesOnNat
    <3> HIDE DEF b
    <3>3. freed + b <= args.target
      BY <2>1, <3>1, <3>2
    <3> QED
      BY <3>3 DEF b
  <2>5. args.target > 0 => BytesOn(disk, Reach(Range(plan') \ scan.short)) <= args.target
    BY <2>3 DEF Held, Reach
  <2> QED
    BY <1>1, <2>1, <2>4, <2>5 DEF HeldInv, Held, Reach
<1>4. CASE CleanStep
  <2>1. pc = "clean" /\ pc' = "clean" /\ UNCHANGED <<scan, args, plan>>
    BY <1>4 DEF CleanStep, loopVars
  <2>2. CASE UNCHANGED <<disk, freed>>
    BY <1>0, <2>1, <2>2, HeldShrinks
  <2>3. ASSUME NEW e \in Entry, e \in Below[walk.root], Unlink(e), disk[e].age # "absent"
        PROVE  HeldInv'
    BY <1>0, <2>1, <2>3, HeldUnlink
  <2> QED
    BY <1>4, <2>2, <2>3, WhoUnlinks
<1>5. CASE Select
  <2>1. Range(plan') \subseteq Range(plan)
    BY <1>5, FilteredFacts DEF Select, ScopeInv, TypeOK
  <2>2. pc = "select" /\ pc' \in {"done", "loop", "confirm"} /\ UNCHANGED <<disk, freed, scan, args>>
    BY <1>5 DEF Select, AfterSelect, engineVars
  <2> QED
    BY <1>0, <2>1, <2>2, HeldShrinks
<1>6. CASE Confirm \/ BeginCache \/ EndCache \/ Crash \/ Exit
  <2>1. /\ pc \notin {"scan", "filter"} /\ pc' \notin {"scan", "filter"}
        /\ UNCHANGED <<disk, freed, scan, args, plan>>
    BY <1>6 DEF Confirm, BeginCache, StaleStart, RemoveStart, EndCache, Crash, Exit,
                engineVars, loopVars
  <2> QED
    BY <1>0, <2>1, HeldShrinks
<1>7. CASE Signal \/ Outside \/ Terminated \/ UNCHANGED vars
  <2>1. UNCHANGED <<pc, freed, scan, args, plan>>
    BY <1>7 DEF Signal, Outside, Elsewhere, Vanish, Rewrite, Withdraw, Disturb, Terminated,
                vars, engineVars, loopVars
  <2>2. \A e \in Entry : disk'[e] = disk[e] \/ disk'[e] = [age |-> "absent", size |-> 0]
    BY <1>1, <1>7 DEF Signal, Outside, Elsewhere, Vanish, Rewrite, Withdraw, Terminated,
                vars, engineVars
  <2> QED
    BY <1>0, <2>1, <2>2, HeldShrinks
<1> QED
  BY <1>2, <1>3, <1>4, <1>5, <1>6, <1>7 DEF Next, Prompt, Work

\* If nobody else writes, a stale run frees no more bytes than --target, and
\* neither does any other run if the scan missed nothing of the planned caches,
\* overlapping ones included.
THEOREM TargetCorrect == Spec => []FreesWithinTarget
<1>1. Init => HeldInv
  BY CommandAssumption DEF Init, EngineInit, HeldInv
<1>2. LedgerInv /\ ScopeInv /\ HeldInv /\ FreedIsReported /\ WithinBudget => FreesWithinTarget
  <2> SUFFICES ASSUME LedgerInv, ScopeInv, HeldInv, FreedIsReported, WithinBudget,
                      Volatile = {}, args.target > 0,
                      args.stale \/ Range(plan) \cap scan.short = {}
               PROVE  freed <= args.target
    BY DEF FreesWithinTarget
  <2>1. /\ disk \in [Entry -> File] /\ freed \in Nat /\ args.target \in Nat
        /\ Range(plan) \in SUBSET Root /\ (pc \in {"scan", "filter"} => freed = 0)
        /\ Reported \in Nat
    BY LineTypes, EngineAssumption, ReportedIsNat DEF LedgerInv, ScopeInv, TypeOK, EngineTypeOK, Range
  <2>2. CASE pc \in {"scan", "filter"}
    BY <2>1, <2>2
  <2>3. CASE args.stale
    <3>1. PICK wraps \in 0..freed : freed = Reported + wraps * (UintMax + 1) /\ wraps = 0
      BY <2>3 DEF FreedIsReported
    <3>2. wraps * (UintMax + 1) = 0
      BY <3>1, EngineAssumption
    <3>3. freed = Reported
      BY <2>1, <3>1, <3>2
    <3> QED
      BY <3>3 DEF WithinBudget
  <2>4. CASE pc \notin {"scan", "filter"} /\ Range(plan) \cap scan.short = {}
    <3> DEFINE b == BytesOn(disk, Reach(Range(plan)))
    <3>1. b \in Nat
      BY <2>1, ReachFacts, BytesOnNat
    <3>2. freed + b <= args.target
      BY <2>4 DEF HeldInv, Held, Reach
    <3> HIDE DEF b
    <3> QED
      BY <2>1, <3>1, <3>2
  <2> QED
    BY <2>2, <2>3, <2>4
<1> QED
  BY <1>1, <1>2, HeldStep, LedgerCorrect, ScopeCorrect, FreedCorrect, BudgetCorrect, PTL DEF Spec

-----------------------------------------------------------------------------
(* The promise of Reclaim *)

Planning == {"scan", "filter", "select", "confirm"}
Cleaning == {"loop", "clean"}

LEMMA StageValues ==
    /\ pc \in Planning => Stage = "planning" /\ Approved = {}
    /\ pc \in Cleaning => Stage = "cleaning"
    /\ pc \notin Planning \cup Cleaning => Stage = "over"
BY DEF Planning, Cleaning, Stage, Approved

\* Once the loop runs everything in the plan is approved.
LEMMA ApprovedIsPlan ==
    ASSUME LedgerInv, ConsentInv, pc \in Cleaning
    PROVE  Approved = Range(plan)
<1>1. ~args.dryRun /\ ~args.json /\ (args.force \/ answer = "y")
  BY DEF ConsentInv, Cleaning
<1>2. Stage = "cleaning"
  BY StageValues
<1> QED
  BY <1>1, <1>2, Zenon DEF Approved

LEMMA PromiseInit == Init => Promise!Init
<1> SUFFICES ASSUME Init PROVE Promise!Init
  OBVIOUS
<1>1. pc \in Planning /\ total = 0 /\ gone = {} /\ args.target \in Nat
  BY CommandAssumption, EngineAssumption DEF Init, EngineInit, Planning
<1>2. Reported = 0
  BY <1>1 DEF Reported, Planning
<1> QED
  BY <1>1, <1>2, StageValues DEF Promise!Init

\* Whatever ends without a deletion approved nothing, and the loop starts with
\* what is approved.
LEMMA PromisePlanning ==
    ASSUME LedgerInv, ScopeInv, ConsentInv, Prompt \/ Scan \/ Filter
    PROVE  Promise!Next \/ UNCHANGED Promise!vars
<1>1. /\ pc \in Planning /\ UNCHANGED <<args, gone, total>>
      /\ pc' \in Planning \cup {"loop", "done"}
  BY ScanFrame DEF Prompt, Select, AfterSelect, Confirm, Filter, engineVars, Planning
<1>2. Stage = "planning" /\ Approved = {}
  BY <1>1, StageValues
<1>3. Reported' = Reported
  BY <1>1 DEF Reported, Planning
<1>4. CASE pc' \in Planning
  <2>1. Stage' = "planning" /\ Approved' = {}
    BY <1>4 DEF Planning, Stage, Approved
  <2> QED
    BY <1>1, <1>2, <1>3, <2>1 DEF Promise!vars
<1>5. CASE pc' = "loop"
  <2>1. Stage' = "cleaning"
    BY <1>5 DEF Stage
  <2>2. Range(plan') \in SUBSET Root
    <3>1. plan' \in Seq(Root)
      BY ScopeStep DEF ScopeInv, TypeOK, Next, Work
    <3> QED
      BY <3>1 DEF Range
  <2>3. Approved' \in SUBSET Root
    BY <2>2, Zenon DEF Approved
  <2> QED
    BY <1>1, <1>2, <1>3, <2>1, <2>3 DEF Promise!Next, Promise!Approve
<1>6. CASE pc' = "done"
  <2>1. Stage' = "over"
    BY <1>6 DEF Stage
  <2>2. \/ plan' = <<>> \/ args'.dryRun \/ args'.json \/ ~(args'.force \/ answer' = "y")
    BY <1>6, ScanFrame DEF Prompt, Select, AfterSelect, Confirm, Filter, ConsentInv
  <2>3. Range(<<>>) = {}
    BY DEF Range
  <2>4. Approved' = {}
    BY <2>2, <2>3, Zenon DEF Approved
  <2>5. Reported \in Nat
    BY ReportedIsNat
  <2> QED
    BY <1>1, <1>2, <1>3, <2>1, <2>4, <2>5 DEF Promise!Next, Promise!Stop
<1> QED
  BY <1>1, <1>4, <1>5, <1>6

\* An engine step takes at most one entry, below a planned cache.
LEMMA OneGoes ==
    ASSUME ScopeInv, CleanStep
    PROVE  gone' = gone \/ \E r \in Range(plan) : \E e \in Below[r] : gone' = gone \cup {e}
<1>0. /\ pc = "clean" /\ EngineStep /\ walk.todo \subseteq Below[walk.root] /\ walk.root \in Range(plan)
      /\ op = "unlink" => walk.entry \in Below[walk.root]
  <2>1. plan \in Seq(Root) /\ idx \in 1..Len(plan) /\ walk.root = plan[idx]
    BY DEF CleanStep, ScopeInv, TypeOK
  <2> QED
    BY <2>1, ListElements DEF CleanStep, ScopeInv
<1>1. ASSUME NEW e \in Entry, RemoveUnlink(e)
      PROVE  gone' = gone \/ (e \in Below[walk.root] /\ gone' = gone \cup {e})
  BY <1>0, <1>1 DEF RemoveUnlink, Unlink
<1>2. CASE StaleUnlink
  <2>1. gone' = gone \/ (walk.entry \in Below[walk.root] /\ gone' = gone \cup {walk.entry})
    BY <1>0, <1>2 DEF StaleUnlink, Unlink
  <2> QED
    BY <1>0, <2>1
<1>3. ASSUME NEW e \in Entry, StaleVisit(e) PROVE gone' = gone
  BY <1>3 DEF StaleVisit
<1>4. CASE StaleEnd \/ StaleAge \/ StaleSize \/ RemoveEnd
  BY <1>4 DEF StaleEnd, StaleAge, StaleSize, RemoveEnd
<1> QED
  BY <1>0, <1>1, <1>2, <1>3, <1>4 DEF EngineStep

\* Within one call what is counted only grows, if there is a --target.
LEMMA CountGrows ==
    ASSUME LedgerInv, CleanStep, args.target > 0
    PROVE  result.bytesRemoved <= result'.bytesRemoved
<1> DEFINE r == result.bytesRemoved
           b == walk.bytes
<1>1. /\ pc = "clean" /\ EngineStep /\ r \in Uint /\ b \in Uint /\ UintMax \in Nat /\ remaining \in Uint
      /\ result \in [success : BOOLEAN, error : BOOLEAN, bytesRemoved : Uint]
      /\ op = "unlink" => r + b <= remaining
  BY EngineAssumption DEF CleanStep, LedgerInv, LedgerTypeOK
<1>2. ASSUME NEW e \in Entry, StaleVisit(e) \/ RemoveUnlink(e) PROVE result'.bytesRemoved = r
  BY <1>2 DEF StaleVisit, RemoveUnlink
<1>3. CASE StaleEnd \/ StaleAge \/ StaleSize \/ RemoveEnd
  <2>1. result'.bytesRemoved = r
    BY <1>1, <1>3 DEF StaleEnd, StaleAge, StaleSize, RemoveEnd, Throw, Return
  <2> QED
    BY <1>1, <2>1
<1>4. CASE StaleUnlink
  <2>1. Plus(r, b) = r + b
    BY <1>1, <1>4, PlusExact DEF StaleUnlink
  <2>2. PICK res : /\ Proceed(res)
                   /\ res \in {result, [result EXCEPT !.error = TRUE],
                               [result EXCEPT !.bytesRemoved = Plus(@, walk.bytes)]}
    BY <1>4 DEF StaleUnlink
  <2>3. result'.bytesRemoved = res.bytesRemoved
    BY <1>1, <2>2 DEF Proceed, Return
  <2>4. res.bytesRemoved \in {r, Plus(r, b)}
    BY <1>1, <2>2
  <2>5. result'.bytesRemoved \in {r, r + b}
    BY <2>1, <2>3, <2>4, Zenon
  <2> HIDE DEF r, b
  <2>6. r <= r + b /\ r <= r
    BY <1>1
  <2> QED
    BY <2>5, <2>6, Zenon DEF r
<1> QED
  BY <1>1, <1>2, <1>3, <1>4 DEF EngineStep

LEMMA PromiseClean ==
    ASSUME LedgerInv, ScopeInv, ConsentInv, CleanStep
    PROVE  Promise!Next \/ UNCHANGED Promise!vars
<1>1. pc = "clean" /\ pc' = "clean" /\ UNCHANGED <<args, plan, answer, total>>
  BY DEF CleanStep, loopVars
<1>2. /\ Stage = "cleaning" /\ Approved = Range(plan)
      /\ Stage' = "cleaning" /\ Approved' = Approved
  <2>1. Stage = "cleaning" /\ Stage' = "cleaning" /\ Approved = Range(plan)
    BY <1>1, ApprovedIsPlan DEF Stage, Cleaning
  <2> QED
    BY <1>1, <2>1 DEF Approved
<1>3. /\ Reported = total + result.bytesRemoved /\ Reported' = total + result'.bytesRemoved
      /\ total \in Nat /\ result.bytesRemoved \in Nat
  BY <1>1, ReportedIsNat DEF Reported
<1>4. /\ result'.bytesRemoved \in Nat /\ args.target \in Nat
      /\ args.target > 0 => total + result'.bytesRemoved <= args.target
  <2>0. LedgerInv'
    BY LedgerStep DEF Next, Work
  <2>1. result'.bytesRemoved \in Nat /\ remaining' \in Nat /\ args.target \in Nat
    BY <2>0, LineTypes, EngineAssumption DEF LedgerInv, LedgerTypeOK
  <2>2. args.target > 0 => result'.bytesRemoved <= remaining' /\ total + remaining' = args.target
    BY <1>1, <2>0 DEF LedgerInv
  <2> QED
    BY <1>3, <2>1, <2>2
<1>5. /\ Reported' \in Nat
      /\ args.target > 0 => Reported <= Reported' /\ Reported' <= args.target
  BY <1>3, <1>4, CountGrows
<1>6. gone' = gone \/ \E r \in Approved : \E e \in Below[r] : gone' = gone \cup {e}
  BY <1>2, OneGoes
<1> QED
  BY <1>1, <1>2, <1>5, <1>6 DEF Promise!Next, Promise!Clean

\* The loop's addition moves a cache's count into the total; with a --target the
\* sum stays the same.
LEMMA PromiseEnd ==
    ASSUME LedgerInv, ConsentInv, EndCache
    PROVE  Promise!Next \/ UNCHANGED Promise!vars
<1> DEFINE r == result.bytesRemoved
<1>1. /\ pc = "clean" /\ pc' \in {"loop", "done"} /\ UNCHANGED <<args, plan, answer, gone>>
      /\ total' = Plus(total, r)
  BY DEF EndCache
<1>2. /\ Stage = "cleaning" /\ Approved = Range(plan) /\ Approved' = Approved
      /\ Stage' = IF pc' = "loop" THEN "cleaning" ELSE "over"
  <2>1. Stage = "cleaning" /\ Approved = Range(plan)
    BY <1>1, ApprovedIsPlan DEF Stage, Cleaning
  <2>2. Stage' = IF pc' = "loop" THEN "cleaning" ELSE "over"
    BY <1>1 DEF Stage
  <2> QED
    BY <1>1, <2>1, <2>2 DEF Approved
<1>3. /\ total \in Uint /\ r \in Uint /\ Plus(total, r) \in Uint /\ UintMax \in Nat
      /\ remaining \in Uint /\ args.target \in Uint
  BY LineTypes, PlusExact, EngineAssumption DEF LedgerInv, LedgerTypeOK
<1>4. Reported = total + r /\ Reported' = Plus(total, r)
  <2>1. Reported' = Plus(total, r) + 0
    BY <1>1 DEF Reported
  <2> QED
    BY <1>1, <1>3, <2>1 DEF Reported
<1>5. args.target > 0 => Plus(total, r) = total + r /\ total + r <= args.target
  <2> SUFFICES ASSUME args.target > 0 PROVE Plus(total, r) = total + r /\ total + r <= args.target
    OBVIOUS
  <2>1. total + remaining = args.target /\ r <= remaining
    BY <1>1 DEF LedgerInv
  <2>2. total + r <= args.target
    BY <1>3, <2>1
  <2> QED
    BY <1>3, <2>2, PlusExact
<1>6. Reported' \in Nat /\ (args.target > 0 => Reported' = Reported /\ Reported <= Reported' /\ Reported' <= args.target)
  <2> DEFINE s == Plus(total, r)
  <2>1. s \in Nat /\ total + r \in Nat /\ args.target \in Nat
    BY <1>3
  <2> HIDE DEF s, r
  <2>2. args.target > 0 => s = total + r /\ total + r <= s /\ s <= args.target
    BY <1>5, <2>1 DEF s
  <2> QED
    BY <1>4, <2>1, <2>2, Zenon DEF s
<1> QED
  BY <1>1, <1>2, <1>6 DEF Promise!Next, Promise!Clean, Promise!Stop

\* Every step of a run is a step of the promise, or none of its business.
LEMMA PromiseStep ==
    LedgerInv /\ ScopeInv /\ ConsentInv /\ [Next]_vars => [Promise!Next]_(Promise!vars)
<1> SUFFICES ASSUME LedgerInv, ScopeInv, ConsentInv, [Next]_vars
             PROVE  Promise!Next \/ UNCHANGED Promise!vars
  OBVIOUS
<1>1. CASE Prompt \/ Scan \/ Filter
  BY <1>1, PromisePlanning
<1>2. CASE CleanStep
  BY <1>2, PromiseClean
<1>3. CASE EndCache
  BY <1>3, PromiseEnd
<1>4. CASE BeginCache
  <2>1. /\ pc = "loop" /\ pc' = "clean" /\ UNCHANGED <<args, plan, answer, gone, total>>
        /\ result'.bytesRemoved = 0 /\ total \in Nat
    BY <1>4, ReportedIsNat DEF BeginCache, StaleStart, RemoveStart, Return, NewResult, loopVars
  <2>2. Stage = "cleaning" /\ Stage' = Stage
    BY <2>1 DEF Stage
  <2>3. Approved' = Approved
    BY <2>1, <2>2 DEF Approved
  <2>4. Reported' = Reported
    BY <2>1 DEF Reported
  <2> QED
    BY <2>1, <2>2, <2>3, <2>4 DEF Promise!vars
<1>5. CASE Crash
  <2>1. /\ pc = "clean" /\ pc' = "crashed" /\ UNCHANGED <<args, plan, answer, gone, total>>
        /\ result.bytesRemoved = 0 /\ total \in Nat
    BY <1>5, ReportedIsNat DEF Crash, engineVars, loopVars, ScopeInv
  <2>2. Stage = "cleaning" /\ Stage' = "over"
    BY <2>1 DEF Stage
  <2>3. Approved' = Approved
    BY <2>1, <2>2 DEF Approved
  <2>4. Reported' = Reported
    BY <2>1 DEF Reported
  <2>5. Reported \in Nat
    BY ReportedIsNat
  <2> QED
    BY <2>1, <2>2, <2>3, <2>4, <2>5 DEF Promise!Next, Promise!Stop
<1>6. CASE Exit
  <2>1. pc = "done" /\ pc' = "exited" /\ UNCHANGED <<args, plan, answer, gone, total>>
    BY <1>6 DEF Exit, engineVars
  <2>2. Stage = "over" /\ Stage' = "over"
    BY <2>1 DEF Stage
  <2>3. Approved' = Approved /\ Reported' = Reported
    BY <2>1, <2>2 DEF Approved, Reported
  <2> QED
    BY <2>1, <2>2, <2>3 DEF Promise!vars
<1>7. CASE Signal \/ Outside \/ Terminated \/ UNCHANGED vars
  <2>1. UNCHANGED <<pc, args, plan, answer, gone, total, result>>
    BY <1>7 DEF Signal, Outside, Elsewhere, Vanish, Rewrite, Withdraw, Disturb, Terminated,
                vars, engineVars, loopVars
  <2>2. Stage' = Stage
    BY <2>1 DEF Stage
  <2>3. Approved' = Approved /\ Reported' = Reported
    BY <2>1, <2>2 DEF Approved, Reported
  <2> QED
    BY <2>1, <2>2, <2>3 DEF Promise!vars
<1> QED
  BY <1>1, <1>2, <1>3, <1>4, <1>5, <1>6, <1>7 DEF Next, Work

\* `devclean clean` keeps the promise of Reclaim, for every word size, file
\* system and interleaving: one approval, then only entries below what was
\* approved, a count that never shrinks nor passes --target, and nothing after
\* the end.
THEOREM PromiseKept == Spec => KeepsPromise
BY PromiseInit, PromiseStep, LedgerCorrect, ScopeCorrect, ConsentInvariant, PTL
   DEF Spec, KeepsPromise, Promise!Spec
=============================================================================
