---------------------------- MODULE CleanCommand ----------------------------
(***************************************************************************)
(* One run of `devclean clean`: scan, filters, --target selection, user    *)
(* selection and confirmation, then the loop that hands each selected      *)
(* cache to the CleanEngine, and the exit status of Application::run.      *)
(* SIGINT, tools that start and the writers of CleanEngine interleave.     *)
(***************************************************************************)
EXTENDS CleanEngine, Lists

CONSTANTS
    CommandLines, \* the parsed arguments a run may be given; stale is a threshold that
                  \* is not 0, staleGiven a --stale with a value, whatever became of it
    Layouts,      \* the file systems a run may start on: [disk, kind]
    Installed     \* the caches whose tool is installed, hence "active"

ASSUME CommandAssumption ==
    /\ CommandLines \subseteq [target : Uint, stale : BOOLEAN, staleGiven : BOOLEAN,
                               safe : BOOLEAN, force : BOOLEAN, dryRun : BOOLEAN, json : BOOLEAN]
    /\ Layouts \subseteq [disk : [Entry -> File], kind : [Root -> PathKind]]
    \* Bytes are the bytes of regular files.
    /\ \A layout \in Layouts : \A e \in Entry \ Regular : layout.disk[e].size = 0
    /\ Installed \subseteq Root

VARIABLES
    pc,          \* where execute() is
    args,        \* ParsedArgs
    scan,        \* the scan results: who was found, how large, who has warnings; whose
                 \* measurement missed a file (nobody notes that); what is still to measure
    plan,        \* the candidates, later the selected caches, in order
    idx,         \* the loop's position in plan
    total,       \* totalBytesRemoved
    remaining,   \* remainingTarget
    answer,      \* the reply to "Proceed? [y/N]"
    exitCode,
    interrupted  \* Application::interrupted, set by the signal handler

vars == <<engineVars, pc, args, scan, plan, idx, total, remaining, answer, exitCode, interrupted>>
loopVars == <<args, scan, plan, idx, total, remaining, answer, exitCode, interrupted>>

PC == {"scan", "filter", "select", "confirm", "loop", "clean", "done", "exited", "crashed"}

TypeOK ==
    /\ EngineTypeOK
    /\ pc \in PC
    /\ args \in CommandLines
    /\ scan \in [found : SUBSET Root, bytes : [Root -> Nat], warned : SUBSET Root,
                 short : SUBSET Root, todo : SUBSET (Root \X Entry)]
    /\ plan \in Seq(Root)
    /\ idx \in Nat \ {0}
    /\ total \in Uint /\ remaining \in Uint
    /\ answer \in {"n", "y"}
    /\ exitCode \in {0, 1, 130}
    /\ interrupted \in BOOLEAN

Unmeasured == [r \in Root |-> 0]

Init ==
    /\ EngineInit
    /\ \E layout \in Layouts : disk = layout.disk /\ kind = layout.kind
    /\ pc = "scan"
    /\ args \in CommandLines
    /\ scan = [found |-> {}, bytes |-> Unmeasured, warned |-> {}, short |-> {}, todo |-> {}]
    /\ plan = <<>> /\ idx = 1
    /\ total = 0 /\ remaining = args.target /\ answer = "n" /\ exitCode = 0
    /\ interrupted = FALSE

-----------------------------------------------------------------------------
(* Planning *)

Here(r) == kind[r] \in {"dir", "link"}
Scanning == pc = "scan" /\ UNCHANGED <<engineVars, args, plan, idx, total, remaining, answer,
                                       exitCode, interrupted>>

\* The scan measures one cache after the other, any of those that are there: the
\* others are disabled, ignored or not asked for.
BeginMeasure(r) ==
    /\ Scanning /\ scan.todo = {} /\ r \notin scan.found /\ Here(r)
    /\ scan' = [scan EXCEPT !.found = @ \cup {r}, !.todo = {r} \X (Below[r] \cap Regular)]
    /\ UNCHANGED pc

\* The iterator yields the next file.  One whose size cannot be read counts
\* nothing, and one that is gone is not yielded.
Measure(r, e) ==
    /\ Scanning /\ <<r, e>> \in scan.todo
    /\ scan' = [scan EXCEPT
          !.todo = @ \ {<<r, e>>},
          !.bytes[r] = IF Here(r) /\ disk[e].age # "absent" THEN @ + disk[e].size ELSE @,
          !.short = IF Here(r) \/ disk[e].age = "absent" THEN @ ELSE @ \cup {r}]
    /\ UNCHANGED pc

\* An increment that fails makes the iterator `end`: what has been added up
\* passes for the whole.
StopShort ==
    /\ Scanning /\ scan.todo # {}
    /\ scan' = [scan EXCEPT !.short = @ \cup {m[1] : m \in scan.todo}, !.todo = {}]
    /\ UNCHANGED pc

\* After the last cache, or after an interrupt.  Warnings are of interest under
\* --safe only.
EndScan ==
    /\ Scanning /\ scan.todo = {}
    /\ \E warned \in SUBSET scan.found :
          (warned # {} => args.safe) /\ scan' = [scan EXCEPT !.warned = warned]
    /\ pc' = "filter"

Scan == EndScan \/ StopShort \/ \E r \in Root : BeginMeasure(r) \/ \E e \in Entry : Measure(r, e)

\* --safe keeps the caches nobody warns about.
MutEligible(r) == args.safe => r \notin Protected
Eligible(r) == args.safe => r \notin Installed \cup scan.warned \cup Protected

\* applyTarget: in ascending order of size, whatever still fits.
MutTakeFitting(acc, r) ==
    IF scan.bytes[r] = 0 \/ acc.planned >= args.target THEN acc
    ELSE [picked |-> Append(acc.picked, r), planned |-> acc.planned + scan.bytes[r]]
TakeFitting(acc, r) ==
    IF scan.bytes[r] = 0 \/ scan.bytes[r] > Minus(args.target, acc.planned) THEN acc
    ELSE [picked |-> Append(acc.picked, r), planned |-> acc.planned + scan.bytes[r]]
ApplyTarget(order) ==
    FoldLeft(TakeFitting, [picked |-> <<>>, planned |-> 0], order).picked

\* The orders --sort and --reverse can give; the stable sort of applyTarget
\* leaves ties in any of them.
Orders(S) ==
    {order \in SetToSeqs(S) : args.target > 0 =>
        \A i, j \in DOMAIN order : i < j => scan.bytes[order[i]] <= scan.bytes[order[j]]}

\* applyFilters (the size, category, exclude and active filters keep any
\* subset), the removal of what was not found, applyTarget, and --json.  Nothing
\* that follows depends on the sizes: they are forgotten.
Filter ==
    /\ pc = "filter"
    /\ \E wanted \in SUBSET scan.found :
       \E order \in Orders({r \in wanted : Eligible(r)}) :
          plan' = IF args.target > 0 THEN ApplyTarget(order) ELSE order
    /\ scan' = [scan EXCEPT !.bytes = Unmeasured]
    /\ pc' = IF plan' = <<>> \/ args.json THEN "done" ELSE "select"
    /\ UNCHANGED <<engineVars, args, idx, total, remaining, answer, exitCode, interrupted>>

\* What follows the selection: nothing for a dry run, the question without
\* --force.
MutAfterSelect == IF args.force THEN "loop" ELSE IF args.dryRun THEN "done" ELSE "confirm"
AfterSelect == IF args.dryRun THEN "done" ELSE IF args.force THEN "loop" ELSE "confirm"

\* The user of a terminal picks some of several caches.
Select ==
    /\ pc = "select"
    /\ \E picked \in SUBSET Range(plan) :
          /\ Len(plan) <= 1 => picked = Range(plan)
          /\ plan' = Filtered(plan, picked)
    /\ pc' = IF plan' = <<>> THEN "done" ELSE AfterSelect
    /\ UNCHANGED <<engineVars, args, scan, idx, total, remaining, answer, exitCode, interrupted>>

\* Anything but y, an end of input included, cancels.
Confirm ==
    /\ pc = "confirm"
    /\ \/ answer' = "y" /\ pc' = "loop"
       \/ answer' = "n" /\ pc' = "done"
    /\ UNCHANGED <<engineVars, args, scan, plan, idx, total, remaining, exitCode, interrupted>>

-----------------------------------------------------------------------------
(* The deletion loop *)

BeginCache ==
    /\ pc = "loop" /\ pc' = "clean"
    /\ IF args.stale THEN StaleStart(plan[idx], remaining) ELSE RemoveStart(plan[idx])
    /\ UNCHANGED loopVars

CleanStep == pc = "clean" /\ EngineStep /\ UNCHANGED <<pc, loopVars>>

MutLeft(removed) == remaining
Left(removed) == IF removed >= remaining THEN 0 ELSE Minus(remaining, removed)

\* The target has been reached: the loop ends, for 0 would lift the limit.
MutReached(left) == FALSE
Reached(left) == args.target > 0 /\ left = 0

\* A failure is noted and the loop goes on with the next cache.
MutFollowing == IF result.success THEN idx + 1 ELSE idx
Following == idx + 1

MutCodeAfter(success) == IF success THEN 0 ELSE 1
CodeAfter(success) == IF success THEN exitCode ELSE 1

EndCache ==
    /\ pc = "clean" /\ op = "returned"
    /\ op' = "idle"
    /\ total' = Plus(total, result.bytesRemoved)
    /\ remaining' = IF args.target > 0 THEN Left(result.bytesRemoved) ELSE remaining
    /\ exitCode' = CodeAfter(result.success)
    /\ idx' = Following
    /\ pc' = IF Reached(remaining') \/ idx = Len(plan) THEN "done" ELSE "loop"
    /\ UNCHANGED <<disk, kind, walk, result, gone, freed, disturbed,
                   args, scan, plan, answer, interrupted>>

\* Nobody catches what fs::exists throws.
Crash ==
    /\ pc = "clean" /\ op = "thrown" /\ pc' = "crashed"
    /\ UNCHANGED <<engineVars, loopVars>>

\* Application::run reads the flag once the command has returned.
MutStatus == IF interrupted THEN 128 + 15 ELSE exitCode
Status == IF interrupted THEN 130 ELSE exitCode
Exit ==
    /\ pc = "done" /\ pc' = "exited"
    /\ exitCode' = Status
    /\ UNCHANGED <<engineVars, args, scan, plan, idx, total, remaining, answer, interrupted>>

Over == pc \in {"exited", "crashed"}

\* SIGINT or SIGTERM: the handler only sets the flag.
Signal ==
    /\ ~Over /\ ~interrupted
    /\ interrupted' = TRUE
    /\ UNCHANGED <<engineVars, pc, args, scan, plan, idx, total, remaining, answer, exitCode>>

Outside ==
    /\ ~Over /\ Elsewhere
    /\ UNCHANGED <<pc, loopVars>>

Terminated == Over /\ UNCHANGED vars

Prompt == Select \/ Confirm
Work == Scan \/ Filter \/ BeginCache \/ CleanStep \/ EndCache \/ Crash \/ Exit
Next == Prompt \/ Work \/ Signal \/ Outside \/ Terminated

Spec == Init /\ [][Next]_vars
\* The process runs; nothing makes the user answer.
FairSpec == Spec /\ WF_vars(Work)

-----------------------------------------------------------------------------
(* Properties *)

\* What the run has reclaimed so far by its own count.
Reported == total + (IF pc = "clean" THEN result.bytesRemoved ELSE 0)

\* Across all caches of the loop the stale walks count no more than --target,
\* and what is left of it is exactly what has not been counted: the unsigned
\* subtractions of CleanEngine and of the loop never wrap.
WithinBudget ==
    args.target > 0 =>
        /\ total + remaining = args.target
        /\ Reported <= args.target

\* A walk without limit (targetBytes = 0) starts only when no --target was
\* given: a target that has been used up is never handed on as 0.
NoAccidentalLimitLift ==
    pc = "clean" /\ args.stale /\ walk.budget = 0 => args.target = 0

\* The ledger of the loop: the control states, what is counted and what is
\* left, strong enough to be inductive.
LedgerTypeOK ==
    /\ pc \in PC /\ op \in Op
    /\ args \in CommandLines
    /\ total \in Uint /\ remaining \in Uint
    /\ disk \in [Entry -> File]
    /\ DOMAIN walk = {"root", "budget", "todo", "entry", "bytes"}
    /\ walk.budget \in Uint /\ walk.bytes \in Uint /\ walk.entry \in Entry
    /\ result \in [success : BOOLEAN, error : BOOLEAN, bytesRemoved : Uint]
    /\ answer \in {"n", "y"}

WalkOps == {"next", "age", "size", "unlink"}

LedgerInv ==
    /\ LedgerTypeOK
    /\ pc \in {"scan", "filter", "select", "confirm"} => total = 0 /\ remaining = args.target
    /\ args.target = 0 => remaining = 0
    /\ args.target > 0 => total + remaining = args.target
    /\ pc = "loop" /\ args.target > 0 => remaining > 0
    /\ pc = "clean" <=> op \notin {"idle", "thrown"} \/ (op = "thrown" /\ pc # "crashed")
    /\ pc = "clean" => (op \in WalkOps => args.stale) /\ (op = "removing" => ~args.stale)
    /\ pc = "clean" /\ args.stale => walk.budget = remaining
    /\ pc = "clean" /\ args.target > 0 => remaining > 0 /\ result.bytesRemoved <= remaining
    /\ pc = "clean" /\ ~args.stale => result.bytesRemoved = 0
    /\ op = "unlink" /\ args.target > 0 => result.bytesRemoved + walk.bytes <= remaining

\* Nothing is deleted by --dry-run or --json, nor without --force or a "y".
Consent ==
    gone # {} => ~args.dryRun /\ ~args.json /\ (args.force \/ answer = "y")

\* Its inductive form: whoever is past the confirmation has consent.
ConsentInv ==
    /\ pc \in {"loop", "clean"} =>
          ~args.dryRun /\ ~args.json /\ (args.force \/ answer = "y")
    /\ pc \in {"select", "confirm"} => ~args.json
    /\ pc = "confirm" => ~args.dryRun /\ ~args.force
    /\ pc \in {"scan", "filter", "select", "confirm"} => gone = {} /\ answer = "n"
    /\ Consent

\* Every entry that is gone lay below a selected cache which the scan had found
\* and, under --safe, nobody warned about.
OnlyEligibleGone ==
    \A e \in gone : \E r \in Range(plan) :
        /\ e \in Below[r] /\ r \in scan.found
        /\ args.safe => r \notin Installed \cup scan.warned \cup Protected

\* The bytes of the regular files that are there.
BytesOn(d, S) == SumFunctionOnSet([e \in Entry |-> d[e].size],
                                  {e \in S \cap Regular : d[e].age # "absent"})

\* When nobody else writes, a stale run frees no more bytes than --target,
\* whatever the scan missed; a run that removes directories keeps to it if the
\* scan missed no file of a planned cache, although files vanish while they are
\* measured and the selected locations overlap.
FreesWithinTarget ==
    /\ Volatile = {} /\ args.target > 0
    /\ args.stale \/ Range(plan) \cap scan.short = {}
    => freed <= args.target

\* When nobody else writes, the bytes a stale run reports are the bytes it
\* freed: nothing is counted twice, or lost when a walk stops on an error.  Only
\* a run without --target could free more than a word counts.
FreedIsReported ==
    Volatile = {} /\ args.stale =>
        \E wraps \in 0..freed : /\ freed = Reported + wraps * (UintMax + 1)
                                /\ args.target > 0 => wraps = 0

\* What the loop may touch, in inductive form: the plan holds eligible caches,
\* the engine is below the planned cache in hand, and so is all that is gone.
ScopeInv ==
    /\ TypeOK
    /\ pc \in {"scan", "filter"} => plan = <<>>
    /\ pc \in {"select", "confirm", "loop", "clean"} => plan # <<>>
    /\ pc \in {"scan", "filter", "select", "confirm"} => gone = {} /\ freed = 0 /\ idx = 1
    /\ pc \in {"loop", "clean"} => idx \in 1..Len(plan)
    /\ \A r \in Range(plan) : r \in scan.found /\ Eligible(r)
    /\ pc = "clean" =>
          /\ walk.root = plan[idx] /\ walk.todo \subseteq Below[walk.root]
          /\ op \in {"age", "size", "unlink"} => walk.entry \in Below[walk.root]
    /\ \A e \in gone : \E r \in Range(plan) : e \in Below[r]
    /\ op = "thrown" => result.bytesRemoved = 0

\* Its inductive form: if nobody else writes, the file about to be unlinked has
\* the size that was read.
FreedInv ==
    /\ Volatile = {} /\ op = "unlink" =>
          disk[walk.entry].age = "absent" \/ disk[walk.entry].size = walk.bytes
    /\ FreedIsReported

\* Nobody else writes: a cache of which the scan missed nothing never holds more
\* than was measured, and what is freed and what the plan still holds stay
\* within --target.
Held(roots) == BytesOn(disk, UNION {Below[r] : r \in roots})
Measured(r) == Below[r] \ {e \in Entry : <<r, e>> \in scan.todo}
HeldInv ==
    Volatile = {} =>
        /\ \A e \in Entry \ Regular : disk[e].size = 0
        /\ pc # "scan" => scan.todo = {}
        /\ pc \in {"scan", "filter"} =>
              \A r \in scan.found \ scan.short : BytesOn(disk, Measured(r)) <= scan.bytes[r]
        /\ args.target > 0 /\ pc \notin {"scan", "filter"} =>
              /\ Held(Range(plan) \ scan.short) <= args.target
              /\ Range(plan) \cap scan.short = {} => freed + Held(Range(plan)) <= args.target

\* A stale run unlinks only regular files older than the cut-off; a file that
\* others rewrite may lose this race, every other one may not.
OnlyStaleUnlinked ==
    [][args.stale => \A e \in (gone' \ gone) \ Volatile :
                        e \in Regular /\ disk[e].age = "stale"]_vars

\* Its inductive form: the verdict on the file in hand still holds, unless
\* others may rewrite it.
VerdictInv ==
    op \in {"age", "size", "unlink"} =>
        /\ walk.entry \in Regular
        /\ op # "age" /\ walk.entry \notin Volatile => disk[walk.entry].age # "fresh"

\* Once a cache failed the run cannot end with status 0.
FailureIsKept ==
    [][/\ pc = "clean" /\ pc' \in {"loop", "done"} /\ ~result.success => exitCode' # 0
       /\ exitCode # 0 => exitCode' # 0]_vars

\* A cleanup that has started comes to its end, whatever fails on the way.
LoopEnds == (pc = "loop") ~> Over

\* The run implements the promise of module Reclaim.
Stage == CASE pc \in {"scan", "filter", "select", "confirm"} -> "planning"
           [] pc \in {"loop", "clean"} -> "cleaning"
           [] OTHER -> "over"
Approved == IF Stage = "planning" \/ args.dryRun \/ args.json \/ ~(args.force \/ answer = "y")
            THEN {} ELSE Range(plan)
Promise == INSTANCE Reclaim WITH
    stage <- Stage, approved <- Approved, target <- args.target, spent <- Reported
KeepsPromise == Promise!Spec

-----------------------------------------------------------------------------
(* What the documents say and the code does not do *)

\* docs/design/spec-35-interruption.md:3: after SIGINT no new destructive
\* operation is scheduled.
StopsWhenInterrupted == [][interrupted /\ pc = "loop" => pc' # "clean"]_vars

\* docs/implementation-notes/duration-parsing.md:5: malformed values are rejected.
\* So whoever gives --stale with some value loses stale files only, or nothing.
OnlyStaleIfGiven ==
    [][args.staleGiven => \A e \in (gone' \ gone) \ Volatile :
                             e \in Regular /\ disk[e].age = "stale"]_vars
=============================================================================
