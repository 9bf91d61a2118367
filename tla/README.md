# Verification of devclean

devclean is a C++ command line program that finds the caches of development
tools (npm, cargo, Gradle, ...), reports their size and deletes them on request.
What can go wrong matters: it deletes files, in directories that other programs
are using at the same moment. This directory holds TLA+ modules translated from
its source, TLC configurations that check them on small instances, and proofs
that TLAPS checks for every value of the constants.

## 1. Inventory

| Part | State it keeps | Operations | What is hard |
|---|---|---|---|
| Deletion engine (`cleaner/CleanEngine.cpp`, `Filesystem::removeDirectory`) | locals of one call: iterator, `CleanResult`, budget | `removeStaleFiles`, `removeDirectory` | every access to the file system races with tools that write, delete or lock; unsigned budget arithmetic; exceptions in the middle of a walk |
| clean command (`commands/CleanCommand.cpp`) | candidates, selection, `remainingTarget`, totals, exit code | filters, `applyTarget`, selection, confirmation, loop | one budget across several caches, where 0 means "no limit"; failures of one cache; overlapping caches; SIGINT |
| Process shell (`core/Application.cpp`, `main.cpp`) | `interrupted` flag | signal handler, `run` | the flag is only read where a command looks at it |
| Thread pool (`utils/ThreadPool`) | queue, mutex, condition, `stopped` | `enqueue`, `worker`, destructor | lost wake-ups, shutdown against submission |
| Scanner engine (`scanner/ScannerEngine.cpp`, `Filesystem::inspectDirectory`) | result list | `scan` | order of the merge, filter and plugin rules; directories change while they are measured; an interrupt truncates the result |
| Scan history (`core/ScanHistory.cpp`) | snapshots in memory and in one JSON file | load, record, trim, save, differences | two processes lose each other's updates; a crash between truncation and write |
| Configuration (`core/Config.cpp`) | JSON file, migrated form | load, validate, migrate, save | a load that fails half-way writes its partial result over the user's file |
| Cleanup planner, policies (`core/CleanupPlanner.cpp`, `core/CleanupPolicy.cpp`, `engine/CachePolicy.cpp`) | none | choose caches for a target | greedy choice against the promised limit |
| Path safety (`Filesystem::isProtectedPath`, `engine/PathSafety.cpp`) | none | protected path tests | two implementations that differ |
| Insights, budget, growth (`core/CacheInsights.cpp`, `core/StorageBudget.cpp`, `engine/GrowthModel.cpp`, `engine/ScanDiff.cpp`) | none | scores, ratios, projections and deltas | which two scans a "growth" compares; signed arithmetic at the limits |
| Tool detection (`platform/ToolDetector.cpp`) | memo of answers | installed? running? | answers are stale when used; a failed query reads as "not running" |
| Registry and plugins (`scanner/CacheRegistry.cpp`, `scanner/PluginLoader.cpp`) | definitions | load, parse, validate, merge | plugin order, duplicate names |
| Argument parser, dispatcher (`core/ArgumentParser.cpp`, `core/CommandDispatcher.cpp`) | the arguments read so far | tokens, options and their values, sizes, durations, commands | which words an option swallows; a bad duration becomes 0, which means "delete everything" |
| Dashboard (`commands/DashboardCommand.cpp`) | screen, selection, rescan | key loop | Ctrl-C and end of input inside the loop |
| Report commands (`ScanCommand`, `AnalyzeCommand`, `StatsCommand`, `RecommendCommand`) | none of their own; they record into the history | filters, what is recorded, totals and counts, the report | each command filters, records and sums a little differently; the trend stands beside totals that are computed another way |
| Engine helpers (`engine/SizeEstimator.cpp`, `FileAgeIndex.cpp`, `DuplicateDetector.cpp`, `ReportModel.cpp`, `EnvironmentSummary.cpp`, `CleanupManifest.cpp`) | none | estimates, indexes, tables | whether an incomplete answer says so |
| Formatting and terminal | none | text and JSON | pure output |

Components talk by plain calls. A reporting command or `clean` asks the scanner
engine for results; the engine asks the registry for cache definitions, the tool
detector for activity and the history for the previous scan; `clean` filters the
results, asks the user and hands one path after the other to the deletion
engine. The only shared state inside a process is `Application::interrupted`,
which a signal handler sets. The shared state between processes is the file
system: the caches themselves, `config.json` and `history.json`, none of them
locked. The thread pool is a library of the program that nothing constructs
today; it is modelled because it is the one place with threads.

## 2. Plan

The order of the modules follows what a mistake costs: first the code that
deletes, then the state that outlives a run, then what only advises.

| Step | Modules | State |
|---|---|---|
| 1 | `CleanEngine`, `CleanCommand` (extends it), `Reclaim` (its abstract specification), `CleanCommandProofs` | done, with the refinement of `Reclaim` |
| 2 | `ThreadPool`, `Executor` (abstract), `ThreadPoolProofs` | done |
| 3 | `ScanHistory`, `RecentLog` (abstract), `HistoryProofs` | done |
| 4 | `CleanupPlanner`, `CleanupPlannerProofs` | done |
| 5 | `ConfigLoader`, `ConfigLoaderProofs` | done |
| 6 | `ScannerEngine` with `CacheRegistry` and `PluginLoader`, `ScannerProofs` | done |
| 7 | `Dashboard` (extends `ScannerEngine`), `ScannerProofs` | done |
| 8 | pure algorithms as operators against reference definitions: `Paths`, with the theorems of `ConfigLoaderProofs`; `Insights`, `StorageModels`, `InsightsProofs`; `DirectoryIndex` | done |
| 9 | the reporting commands as users of the history: `ArgumentParser`, `Selection` (what a command line lets through), `Reports` (composes both with `ScanHistory`), `HistoryProofs` | done |
| 10 | `Lists` and `FoldLemmas`: the lemmas on lists, sums and folds that the proofs above share | done |
| 11 | proofs about `ArgumentParser` (that `ParserReference` holds of every command line) and `DirectoryIndex`, and that unlinking through a path stays below its cache (`Paths` with `CleanEngine`) | to come |

Every module takes its sets and bounds as CONSTANTS with a named assumption, has
one action per operation, and uses no RECURSIVE operator.

## 3. The modules and the code

`Lists` holds the one operator on lists that most modules need: `Filtered` is what
`std::remove_if`, `std::copy_if` and a loop of `push_back` behind a condition compute.
It, the totals of `Selection` and the two loops of `Paths` are recursive functions on
the positions of a list, and so can be reasoned about.

### CleanEngine: `cleaner/CleanEngine.cpp`, `Filesystem::removeDirectory`

`disk[e]` says of each directory entry whether it is there, older than the
cut-off ("stale") or younger ("fresh"), and how large; `kind[r]` what the path of
a location names. `op` is the position inside the engine call, `walk` its
arguments and locals, `result` its `CleanResult`. `gone` and `freed` are history.

A call is one step per access to the file system, because between two accesses
other processes act. `removeStaleFiles` is `StaleStart` (the two tests before the
loop; `fs::exists` stands outside the `try` and may throw), `StaleVisit` (the
iterator yields an entry), `StaleAge`, `StaleSize`, `StaleUnlink` (the three calls
on one file) and `StaleEnd` (the iterator is exhausted or throws).
`removeDirectory` is `RemoveStart` (its four guards), `RemoveUnlink` and
`RemoveEnd` (the steps and outcomes of `remove_all`, a library function). Other
processes `Rewrite`, let `Vanish` and `Withdraw` what they like. `MaxDisturb`
bounds their steps.

Unsigned arithmetic is modelled by `Minus` and `Plus`, which wrap at `UintMax`.
Directory contents are fixed sets: a file that is created under a new name
during a run is a `Volatile` entry that was absent. There are finitely many caches,
and at least one. Entries that are not regular files have size 0; `BytesOn` sums the
others.

### CleanCommand: `commands/CleanCommand.cpp`, `Application.cpp`, `main.cpp`

`pc` walks through `execute()`: `Scan` (file by file), `Filter` (filters, `applyTarget`, the
`--json` exit), `Select`, `Confirm`, and the loop `BeginCache`, `CleanStep`,
`EndCache`. `Crash` is the exception that nobody catches. `Exit` is the end of
`Application::run`, the only reader of the flag that `Signal` sets. The filters by
size, age, category and name are any subset of the results; `--safe` and
`--target` are modelled exactly.

The scan takes any of the caches that are there (`BeginMeasure`), one after the other, and
adds up one file per step (`Measure`) while other processes act. What it says of a cache
may be too little, and nobody notes it: a file whose size cannot be read counts
nothing, and an increment that fails ends the iteration as if it were complete
(`StopShort`, `Filesystem.cpp:47`; the disagreement of `scan_partial`). `scan.short` is the history of
the caches of which a file was missed. `FreesWithinTarget` holds of a stale run whatever
was missed, because the walk counts for itself; of a run that removes directories it
holds if no planned cache is in `scan.short`, and it fails otherwise. An interrupted scan is
one that ends early (`EndScan`). Links count nothing here; the code counts the size of
what a link to a file leads to, which plans too much and not too little.

`Reclaim` is the promise: roots are approved once, then only entries below
approved roots go, the reported bytes never shrink and never exceed the target.
The refinement maps `pc` to three stages, the plan to the approved roots if
there is consent, and `Reported` to the bytes spent. Without a target, the last
cache may push the reported sum over the word it is kept in (`Stop`); with one, the
sum fits.

### ThreadPool: `utils/ThreadPool.cpp`, `include/utils/ThreadPool.hpp`

The mutex is a variable. A worker locks, tests the predicate, and then parks or
takes: falling asleep (`Park`) releases the mutex and sleeps in one step, as
`condition.wait` does, but the test before it is a step of its own. `enqueue` is
`TaskLock`, `Push` and `NotifyOne`, the destructor `OwnerLock`, `Stop`,
`NotifyAll` and `Join`. Wake-ups may be spurious. A caller that is inside
`enqueue` keeps the pool alive (`Join` waits for it): without that rule the use
of the pool would be undefined. The pool has finitely many workers, its callers may
be any set. `Executor` is what the callers are promised.

### ScanHistory: `core/ScanHistory.cpp`, the history part of `ScannerEngine::scan`

`file` is `history.json`, `mem[p]` the list of a process. `BeginScan` loads the
history, once per process, and looks up the baseline for growth; `RecordScan` puts
the snapshot in front and trims; `OpenTruncate` and `Write` are the two halves of
`saveToDisk`. A snapshot is its time (the number of snapshots so far, which
`MaxScans` bounds), its scope and whether it was complete. Two processes may
truncate and write in any order. `operator>>` of the JSON library reads one value
and leaves the rest of the stream, so a longer text whose tail survives behind a
shorter one still loads; `Write` says so. The variable `calm` chooses between two
surroundings: in calm ones runs follow each other and every write succeeds; a run
may then die at any step but between truncation and write, where a death does lose
the history. `RecentLog` is the promise of the calm case.

### ArgumentParser: `core/ArgumentParser.cpp`, `core/CommandDispatcher.cpp`

Operators only. A token is an option, an option with `=value`, or a word, together
with the number at its front; the loop of `parse` is the fold `Read`, whose state
says whether the option before asks for a value (`TakesNext`) and takes it. `Scaled`
is the multiplication guarded against overflow: what does not fit, or has an
unknown unit, is 0. `Kilo` stands for 1024.

### Selection: what a command line lets through

Operators only. `Asked` is the filter of the scanner; `ByActivity`, `BySize`,
`ByCategory` and `ByName` are the filters of the commands, and `Passes` says which
command applies them: `analyze` and `stats` do not (`Selective`). `Recorded` is what
enters the history: `scan` records before it filters, the others after. The four ways
in which totals are formed are `SnapshotTotal` (saturates), `WrappedTotal` (wraps),
`InsightsTotal` (wraps, usable caches only) and `ShownTotal` (what the report prints).
`Counts`, `CategoryBytes`, `Unused`, `SafeToClean`, `LargeCache` and `OldCache` are the
lists and numbers of `stats` and `analyze`.

### Reports: the commands on top of `ScanHistory`

`content[t]` is what the snapshot of time `t` holds; `world` says which command lines
are in use and what the machine's caches hold at each time. `BeginReport`,
`RecordReport` and `Other` are the steps of `ScanHistory` with results: a scan finds
the asked caches in order, or, if it is interrupted, a part of them. Only the
dashboard scans again with the list it has. The scope of a snapshot is its command
line, so that a property can say which scans are comparable (the program does not
ask). `behind[p]` is history: another run has touched the file since `p` loaded its list.
`LostOnlyToOverlap` says that a run of which this is not true writes back every snapshot
the file still has, as far as the limit allows.

### StorageModels: `core/StorageBudget.cpp`, `engine/GrowthModel.cpp`, `engine/ScanDiff.cpp`, `engine/CachePolicy.cpp`, `getDifferences`

Operators only. A budget is the record that `calculateStorageBudget` fills, and each
predicate and ratio of the file is an operator on it; a ratio is a pair of integers.
`SaturatingAdd` and `SaturatingMultiply` test for overflow as the code does, with signed
numbers of the width that `MaxInt` says. `Change` is the classification of one
cache name by `compareScans`, `Differences` what the history reports instead.

### DirectoryIndex: `src/engine`, the helpers

Operators only. A walk is what one recursive iteration delivers: entries, some of
which vanish or cannot be read, and an end that may be an error. The three readers
treat the same walk differently: `EstimateDirectorySize` counts what is missing as
incomplete, `IndexFileAges` leaves it out, `FindDuplicateCandidates` follows links.
`ReportRows` and `BuildEnvironmentSummary` are the two tables.

### CleanupPlanner: `core/CleanupPlanner.cpp`, `core/CleanupPolicy.cpp`

`Collect` is the filter and the stable sort, `TakeAll` and `TakeBest` one pass of
the loop each, `Finish` its end. `BestFit` and `LeastExcess` are the two scans of
`bestCandidate`, with their tie-breaking. Sums are taken modulo `Word`.

### ScannerEngine: `scanner/ScannerEngine.cpp`, `PluginLoader.cpp`, `Filesystem::inspectDirectory`

`caches` is the vector of definitions that `scan()` builds, `todo` what the current
loop has still to look at, `results` and `result` the finished results and the one
under construction. Each pass of a loop is a step: `MergeCustom` (`mergeCaches` on
the caches of the configuration), `FilterCache`, `LoadPlugin` (one file of the
plugin directory, in any order, with what does not parse or is not valid),
`EndPlugins` (all files have been read) or `PluginsBreakOff` (the directory cannot be
listed to its end, which the outer `catch` takes for an end),
`MergePlugin`, and one pass over each cache: `Ignore`, `Missing`, or `Approach`,
`Inspect` and the walk. The walk yields one entry per step (`Count`), while other
processes create, resize and remove entries (`ChangeEntry`) and whole paths
(`ChangePath`), at most `setup.changes` times. `WalkFails` is the iterator that
cannot be constructed or advanced: it then equals `end`, so the code behind the
loop takes it for a complete iteration. `Crash` is the exception of
`is_directory` (`PluginLoader.cpp:77`) or `exists` (`ToolDetector.cpp:52`) where access is denied.
`Signal` may come at any step and is read once per cache. The registry's table is
the constant `Builtin`; names are compared without case, so a name is a class of
spellings, and `Within` is the substring relation of `matchesQuery`.

### Dashboard: `commands/DashboardCommand.cpp`

`pc` walks through `execute()`: `BeginScan` and the steps of `ScannerEngine`, `Digest`
(what the screen needs of the results), `Draw` (the clamps at the top of the
loop), `readKey`, and one action per kind of key. `readKey` is modelled byte by
byte: `wire` holds the bytes of a key that the terminal has not delivered yet,
`input` those it has, `sequence` those taken for the current key. A read does not
wait (VMIN is 0), so `ReadNothing` gives up in the middle of a sequence. A session
is `careful` if keys arrive whole and neither Escape nor a key of another terminal
family is pressed; `QuitLeaves` speaks of those. `Obeys` speaks of every session without
Escape and keys of another family: it holds the bytes of two keys apart however they
arrive, and a key that arrives whole to its meaning. `Digest` keeps of the
recommendations their number and of the content its number of lines, for each
selection, and lets both be anything the results allow.

### Paths: `platform/Filesystem.cpp`, the validation in `PluginLoader.cpp` and `Config.cpp`

Operators only. A path is a sequence of parts; `Follow` and `Reached` are what the
file system does with it (links, `..`, directories that may not be searched),
`LexicallyNormal` and the prefix rule of `WeaklyCanonical` what the standard library
does, `IsProtectedPath`, `IsValidPluginPath` and `IsSafeCustomPath` what devclean
decides. `FileSystem` is the assumption of the theorems: what a kernel guarantees of
directories and links, and a working directory that still exists. `MCPaths` is a small file system with links; `MCClean` and `MCDashboard`
place their caches in it, and assumptions that TLC evaluates say that their
`Protected` and `Acceptable` are what `Paths` computes of those places.
`IsSafePath` and `IsPathInside` are the two tests of `engine/PathSafety.cpp`.

### Insights: `core/CacheInsights.cpp`

Operators only: the penalties, `HealthScore` of a `Summary` of results and history, the
trend (`Delta`, `AverageGrowth`), and the `Priority` and `MarkedSafe` of the
recommendation that a result gets, if any. `Delta` converts both totals to signed numbers
before it subtracts, as the code does (`Int64`): from 2^63 bytes on they are negative, and a
difference that does not fit wraps around, as the build makes of it. The same holds of
the sum of the deltas. The sums of bytes behind the score are unbounded here, while the
code's are 64 bits wide.

### ConfigLoader: `core/Config.cpp`

A configuration is a record of fields that are missing, of a wrong type, or a
value. `MigrateLegacyConfig`, `Parsed` (with the places where a wrong type throws
and what has been read by then), `ValidateConfig` and `Saved` are the functions of
the file; `Load`, `OpenTruncate`, `Write`, `Exit` and `Die` what a process does, and
`Edit` what the user's editor does. `disabledCaches` and `ignoredCaches` are read
alike and are one field, as are the three defaults.

## 4. Runs

| Run | What it asks | Bounds, and why they are enough |
|---|---|---|
| `clean_busy` | Does the budget hold while others write? `TypeOK`, `WithinBudget`, `NoAccidentalLimitLift`, `OnlyStaleUnlinked`, `FailureIsKept`, `KeepsPromise` | two disjoint caches with three files and a directory, sizes 0 to 2, targets 0, 2 and 3, two disturbances. Two caches are the first number at which a budget is handed on; a target of 2 is used up exactly, one of 3 is not; one disturbance changes a file between age and size, the second between size and unlink |
| `clean_quiet` | What do the flags delete, with a scan that may miss files? `Consent`, `OnlyEligibleGone`, `FreesWithinTarget`, `FreedIsReported`, `LoopEnds` | nested caches, one of them protected; `--stale` and `--target` with and without each other, `--safe`, `--dry-run`, `--json` and `--force` in the combinations of `AllLines`, `--json --force` among them; one disturbance that only removes, during the scan or later. Nesting is where bytes could be counted twice |
| `pool` | `PoolInv`, `Fifo`, `NoLostWakeup`, `WorkConserving`, `DrainedAtDestruction`, `ImplementsExecutor`, `AcceptedIsRun`, `DestructorReturns` | three workers, three callers: one worker running, one asleep and one between; more tasks than idle workers. The safety properties are proved for any number |
| `reports` | Is anything lost without an overlap, and are growth and totals what the machine held? `NewestFirst`, `LostOnlyToOverlap`, `GrowthIsReal`, `TrendEndsInTotal`, `KeepsRecent` | two terminals, a history of 2, three scans: the list overflows and two runs overlap, or a dashboard scans again. Four command lines, parsed from their tokens (`st`; `--category node scan`; `dashboard --exclude npm`; `recommend --max-size=4kb`), on two machines: one whose caches grow, one where a cache goes away, another is disabled and one cannot be read |
| `planner` | `NoneTwice`, `ShortfallIsReal`, `Balanced`, `Ends` | words of three bits and up to three results: sums wrap, sizes saturate, ties and excesses of each order occur |
| `config` | `ConfigInv` (the types, and `SavedLoadsCleanly`), `OnlyTheUserChangesIt` | two processes, two edits, seven files that cover old and current formats, wrong types in each place where `load` may throw, empty strings and both names of a field |
| `dashboard` | The scanner: `OneOwnerPerName`, `PluginsIsolated`, `ResultsFollowCatalogue`, `MeasuredExactly`. The key loop: `InRange`, `Obeys`, `QuitLeaves`, `AutoRefreshes`. Both: `TypeOK` | reports with two built-in caches, a custom one and three plugin files of each kind (two that clash with each other, one with an alias; malformed, unsafe, not a plugin), in a directory that can be listed or breaks off, three filters, an ignored cache; or two changes during the measurement of two directories. Live sessions with two recommendations, contents shorter and longer than a viewport of 2, two bytes typed ahead and then one more key: a rescan shrinks list and content below the selection, and a key waits behind another; two sessions in which the bytes of arrow keys may arrive apart |
| `clean_interrupt`, `clean_duration`, `history_growth`, `config_partial`, `scan_partial` | five statements of the documents that the code does not keep; TLC shows a behaviour | as small as the disagreement allows |

All the invariants and the properties of single steps in this table are proved as
well; what TLC adds is the liveness, the counterexamples and, while the model
changes, a fast answer.

The pure operators have no behaviour of their own. What is checked of them are
assumptions of the MC modules, which TLC evaluates before the runs of those
modules start:

* `MCPaths` (with `clean_*`, `dashboard`, `scan_partial`), for every path of up to three
  parts, absolute or not, with and without a trailing slash: a path to something
  that exists is protected exactly when it denotes a protected directory
  (`ProtectsWhatItDenotes`), a plugin or a custom cache cannot name one
  (`AcceptsNothingUntouchable`), normalisation is stable (`NormalFormIsStable`) and
  the canonical path denotes the same (`CanonicalDenotesTheSame`), what
  `isPathInside` accepts lies below its parent (`InsideIsBelow`), and what
  `inspectPathSafety` accepts may be touched (`SafeMayBeTouched`).
* `MCPlanner` (with `planner`): the average growth is the overall growth per step
  (`AverageIsOverall`), and one more cache never makes a scan healthier
  (`MoreIsNotHealthier`), for sizes on both sides of the thresholds.
* `MCDirectoryIndex` (with `planner`), for every walk of up to three entries and a word
  in which two files overflow: an estimate is exact, and complete only if nothing was
  left out (`CompleteIsExact`), the index of ages agrees with it
  (`AgesAgreeWithEstimate`), duplicates promise less than the directory holds
  (`DuplicatesKeepOne`), rows and tools are listed once and in order (`RowsAreOrdered`,
  `InstalledComeFirst`).
* `MCReports` (with `reports`): for every sequence of up to four tokens the parser uses
  each word once, as a non-sequential description says (`ParserReference`), and
  `--option=value` means `--option value` (`InlineIsSpaced`); a number that just fits is
  kept, the next one is 0 (`NumberBoundary`); the numbers of `stats` and the lists of
  `analyze` add up (`StatsAddUp`), as do the changes between two scans (`ChangesAddUp`);
  a projection is made of the true sum, and steady growth does not accelerate
  (`ProjectionIsTrue`).

TLC checks deadlock in the runs of `CleanCommand`, `ThreadPool`, `Dashboard` and
`ConfigLoader`; the first three end in a state that stutters explicitly. It is off in `reports`
and `history_growth`, which stop at `MaxScans`, and in `planner`, a function that returns.

### Fairness

* `CleanCommand`: weak fairness of the process's own steps (`Work`): a thread that
  can run does. Nothing makes the user answer, a signal arrive or others write.
  `LoopEnds` holds because each step of the walk consumes an entry.
* `ThreadPool`: weak fairness of each thread, and strong fairness of a worker's
  lock: the mutex is free again and again, and the operating system does not
  starve a waiting thread for ever. The owner need not destroy the pool and
  callers need not submit; once inside they go on.
* `CleanupPlanner`: weak fairness of the function's own steps.
* `Dashboard`: weak fairness of the process's own steps (`Work`; a failing iterator
  and a crash are not among them), and of the terminal (what was sent arrives).
  Nobody has to press a key, and no signal has to come.
* `ScanHistory`, `Reports` and `ConfigLoader` state no liveness: nothing in them waits.

## 5. Proofs

All theorems hold for every value of the constants that the named assumptions
admit: any number of caches, files, sizes, workers, callers, terminals, results.

* `FoldLemmas` is a library. The prover has no induction over data, but it can follow
  a set: the numbers (or subsets of a finite set) of which a statement holds, closed
  under one more, are all of them (`EveryNumberUpTo`, `EverySubset`). From that come
  the laws of a sum over a set (`SumUpdate`, `SumUnion`, ...), that a recursive
  function on the positions of a list exists and stays in its range (`StepsExist`,
  `StepsStay`), and what a filter computes: `FilteredIsThinned` gives an increasing
  map from the positions of the result to those of the list.
* `CleanCommandProofs`. The budget is a relation between three numbers that live
  in different functions: `totalBytesRemoved`, `remainingTarget` and the
  `bytesRemoved` of the call under way. `WithinBudget` alone is not inductive:
  one must know that the budget of the walk equals what is left, that a file
  about to be unlinked fits, and that a walk is only entered with something
  left. `LedgerInv` says so, and gives `BudgetCorrect` and `LimitIsKept` (a
  used-up target is never handed on as 0, "no limit"). `ConsentInv` adds what
  each control state knows of the flags (`ConsentCorrect`); `VerdictInv` that the
  file in hand is still stale unless others may rewrite it (`StaleOnly`).
  `ScopeInv` ties the walk to the plan: the engine is below the cache in hand, and
  every planned cache was found and eligible. Its hard steps are `Filter` and `Select`,
  where `applyTarget` and the selection must not bring in a cache that was filtered
  out (`EligibleCorrect`, `TypeCorrect`). `FreedCorrect` needs that the size that was
  read is still the file's when it is unlinked (`FreedInv`), `TargetCorrect` that
  what is freed and what the planned caches still hold, each entry counted once
  however many caches contain it, stay within the target (`HeldInv`); it starts from
  the sum that `applyTarget` keeps, and before that from the scan: what a cache holds
  is at most what has been counted, what is still to be measured and nothing else,
  unless the cache is in `scan.short`. `PromiseKept` is the refinement of `Reclaim`: the
  step of `Confirm` or `Select` that starts the loop is `Approve`, an unlink is `Clean`.
* `ThreadPoolProofs`. `PoolInv` is the conjunction of the types, mutual exclusion
  (each critical section is the mutex's holder), what the control states say of
  `stopped` and the queue, where each task is, the order, and that no wake-up is
  lost. The last one depends on the rest: a worker that parks holds the mutex,
  so nothing can have been pushed or stopped since its test. From it follow
  `FifoCorrect`, `WakeupCorrect`, `DrainCorrect` and `PoolRefinesExecutor`.
  `WorkCorrect` counts: tasks in the queue against workers and notifications on
  their way, step by step; that only finitely many calls are about to notify makes
  the count a number (`WorkInv`).
* `HistoryProofs`. `HistoryInv` adds to `NewestFirst` that no list is newer
  than the clock; `OrderCorrect` holds whatever overlaps or dies. For the calm
  case `SoloInv` says that one process at a time has a list and that it is the
  file's unless it is saving, which a death at any other step leaves so;
  `KeepsRecentCorrect` is the refinement of `RecentLog`. `ReportsScan` shows that
  `Reports` implements `Spec` of `ScanHistory`, which carries both over
  (`ReportsOrdered`). `OverlapCorrect` rests on `KeepsInv`: from the load to the save, a list
  has what the file has, or only newer snapshots and as many as the limit; recording
  drops the oldest one, so what it drops is older than all that stay. The lemma
  `ReportsCorrect` says that a snapshot is written once, at its time, so that what it
  holds stays what that scan found. `GrowthCorrect` and `TrendCorrect` add what the
  totals compute: two filtered sums of one content agree if the filters do. Both hold
  only where the totals fit into their numbers, since snapshots saturate and insights
  wrap around; growth also needs both totals on one side of 2^63, where the signed
  difference cannot overflow. The properties say so.
  `OwnScanFirst` says that a run that reports has its own snapshot in front.
  `NumbersAreExact` and `OptionsCommute` are about the parser: a number is 0 or exactly
  what was written, and different options may be given in either order.
* `CleanupPlannerProofs`. `PlanInv` says which candidates are left and that an
  item chosen beyond the target was the smallest left; that a smallest one
  exists is the lemma `LeastNumber`. It gives `NoneTwiceCorrect`,
  `ShortfallCorrect` and `BalanceCorrect`.
* `ScannerProofs`. `OwnerCorrect` and `IsolationCorrect` hold for every
  registry whose own rows do not clash (`RegistryAssumption`). The filter is what
  makes the invariants more than the properties: while it moves the list from
  `todo` to `caches`, both halves and the pair of them must have one owner per
  name (`OwnerInv`), and a built-in cache is in one half or the other (`BuiltinInv`).
  `IsolationInv` adds what has been made of the files read so far (`ReadInv`), that the
  cache of each valid file is merged or still to be merged once the reading is over
  (`PluginInv`), and where every cache comes from (`KnownInv`).
  `ResultsCorrect` rests on `FollowInv`: what is published and what is to do are the
  two parts of a catalogue of selected caches, and the last filter of `scan` lets
  pass what the first one did. `MeasuredCorrect` rests on `MeasuredInv`: the bytes
  cover what was yielded and not changed since, and nothing else if nobody changed
  anything. `DashboardScans` shows that the dashboard implements `ScanSpec`, which
  carries these theorems over. `RangeCorrect` needs only the types of the numbers;
  `DashboardTypesCorrect` gives all types (`KeyTypes` are those of the keys).
  `ObeysCorrect` rests on `KeyInv`: the bytes taken for the current key,
  those in `input` and those on the `wire` are one flow of whole keys behind the rest of
  one, cut anywhere; `KeyTable` sorts the keys into the forms that `readKey` tells apart,
  and `LeftOver` says what the rest of a key that was given up is taken for.
* `ConfigLoaderProofs`. `ConfigCorrect`: what `Saved` writes is in the current format,
  never throws and is read back as what `validateConfig` makes of the saved
  settings; the list of custom caches goes through the filter once when it is
  written and once when it is read. `MeaningCorrect` rests on `CalmInv`: while one
  process has the file truncated, the settings are in its memory, and they mean what
  the file meant before, because converting twice means what converting once does.
  The second half is about `Paths`, in every file system that is one (`FileSystem`):
  a path is followed to at most one directory, whose own names lead to it
  (`DirectoryDenotesItself`) and are not shortened (`NormalOfNames`); so the canonical
  form of a path that exists is the names of what it denotes (`CanonicalPath`).
  `ProtectionByDirectory` and `AcceptedIsHarmless` say what the tests of devclean are
  worth: with detours over links and ".." or without, exactly the root, the system
  directories by their own names, and HOME are refused. Paths that do not exist or may
  not be searched are left to `MCPaths`, and so is a HOME that leads nowhere.
* `InsightsProofs`. Each penalty is monotone by arithmetic, linear in the bytes of
  a megabyte; their sum is at most 105, so the clamp matters, and the bonus for
  shrinking goes the way of the growth penalty: `ScoreIsPercentage`, `ScoreFalls`.
  `SafeAdviceIsSafe` goes through the branches that write their own flag,
  `AdviceGrows` uses that no test of the chain fails for a larger value, and
  `OrderIsStrict` shows that the comparison is one that `std::sort` may be given.
  `BudgetIsCoherent`, `RatiosAgree` and `RankIsStrict` relate the predicates, ratios and
  the ranking of `StorageBudget`; `AddSaturates` and `MultiplySaturates` show that the
  guards of `GrowthModel` themselves never overflow, for every width;
  `ReviewsAreWorthIt` is about `evaluateCachePolicy`.

Only model-checked: liveness (`LoopEnds`, `AcceptedIsRun`, `DestructorReturns`,
`Ends`, `QuitLeaves`, `AutoRefreshes`), which is out of the prover's reach; and, among
the operators, the assumptions of `MCDirectoryIndex` and `MCPlanner`, those of
`MCReports` but for the numbers of the parser, and in `MCPaths` paths that lead
nowhere, `NormalFormIsStable` and `SafeMayBeTouched`. `TypeOK` of `CleanupPlanner`, which
`PlanInv` contains, is proved and has no run.

## 6. Where the code and the documents disagree

Five disagreements have a run and are listed as findings:

* `clean_interrupt`: after SIGINT the loop of `clean` goes on to the next cache
  (`CleanCommand.cpp:294`; `docs/design/spec-35-interruption.md:3`).
* `clean_duration`: a `--stale` duration that cannot be parsed is 0, and 0 means no age
  limit: whole directories go, with their fresh files (`ArgumentParser.cpp:65`;
  `docs/implementation-notes/duration-parsing.md:5`).
* `history_growth`: growth "since the previous scan" is measured against the scan
  before the previous one, or against nothing if there is none (`ScannerEngine.cpp:153`; `CacheInsights.cpp:121`).
* `config_partial`: a load that throws half-way writes what it has over the
  user's file (`Config.cpp:252`; `docs/architecture/configuration.md:7`).
* `scan_partial`: an iteration that fails half-way counts as a complete one, since
  the failed iterator equals `end` before its error is looked at
  (`Filesystem.cpp:52`; `docs/design/spec-10-partial-scan.md:5`).

Others were met while the modules were written. The modules contain the
behaviour; no run is kept for it:

* `fs::exists` without an error code ends the process, and the other caches with it
  (`CleanEngine.cpp:20`; `docs/design/error-recovery.md:7`): `StaleStart`, `Crash`.
* The stale walk does not ask `isProtectedPath` (`CleanEngine.cpp:32`;
  `docs/cli.md:94`) and starts behind a top-level symbolic link
  (`docs/architecture.md:33`): `StaleStart`.
* One file whose time cannot be read ends the whole walk (`CleanEngine.cpp:37`;
  `docs/design/stale-file-policy.md:15`): `StaleAge`.
* A missing path is a failure of a stale clean (`CleanEngine.cpp:22`) and a success
  of a full one; `docs/security/filesystem-boundaries.md:8` wants a no-op. A path
  that may not be examined is a success of a full clean (`Filesystem.cpp:118`;
  line 11 of the same document): `StaleStart`, `RemoveStart`.
* An interrupted scan enters the history like a complete one
  (`ScanCommand.cpp:151`), a process that dies between truncation and write leaves
  none (`ScanHistory.cpp:177`; both against `docs/design/scan-consistency.md:13`),
  and scans of different scope or filters stand side by side and are compared
  (`docs/design/growth-analysis.md:3`): `RecordScan`, `OpenTruncate`, `Recorded`. `scan` records
  before it filters, so a later `recommend --category` shows a loss that is none; a
  cache that grows past `--max-size` shows as one too. `Comparable` excludes both.
* `stats` and `analyze` ignore the filters (`docs/api/filtering.md:20`), `--exclude` compares
  names and not the aliases that its help promises (`CommandDispatcher.cpp:36`), and
  what `analyze` calls safe may be protected: `Selective`, `ByName`, `SafeToClean`.
* `--target` uses the next word unless that is an option, whatever the word is:
  `clean --target pip` takes `pip` as a size, which is 0, no target, and is left with
  no cache named: `TakesNext`, `Scaled`.
* `projectCacheGrowth` calls a steady shrinking with an odd number of deltas
  accelerating; `budgetSavingsBytes` is 0 without a limit; `isPathInside` accepts every
  path if the parent is empty; a symbolic link counts as a duplicate of its own
  target; an iterator that cannot be constructed makes a complete estimate of 0
  bytes: `ProjectCacheGrowth`, `SavingsBytes`, `IsPathInside`, `IsCandidate`,
  `EstimateDirectorySize`. Nothing in the program calls these.
* The planner takes its target for a lower bound and may exceed it
  (`CleanupPlanner.cpp:32`; `docs/design/target-cleanup-guarantees.md:7` and
  `docs/cleanup-policy.md:15` forbid it, while
  `tests/focused/cleanup_plan_target_overshoot.cpp:3` expects it). No property of `CleanupPlanner` judges
  by how much. Of equal sizes it takes
  the one of lowest priority (`CleanupPlanner.cpp:22`; `docs/cleanup-policy.md:10`):
  `LeastExcess`, `BestFit`.
* A dry run converts an old configuration (`CleanCommand.cpp:198`;
  `docs/cleanup-policy.md:23`), and a configuration that cannot be loaded leaves the
  exit status 0 (`Config.cpp:247`; `docs/cli-design.md:11`): `Load`, `Write`.
* A command that loads between another's truncation and write gets the defaults:
  what the user ignores or disables is eligible in that run (`Config.cpp:304`).
* In the dashboard Enter does nothing, and `j`, `k`, the arrows, Home and End move the
  viewport (`DashboardCommand.cpp:604`, 815; `docs/cli.md:72` and 73 promise a refresh and a
  move between recommendations; the footer of the screen, line 425, says "scroll"): `Letter`,
  `Scroll`. `Obeys` judges how bytes become keys, leaves Enter open, and does not say what
  a key does to the screen. An arrow key whose bytes arrive apart may toggle the
  automatic refresh, which `Obeys` has as its one exception; F2 on some terminals
  (ESC O Q) quits, and Escape swallows the byte behind it, neither of which is judged:
  `ReadBracket`, `ReadNothing`.
* SIGINT does not end the key loop; it leaves every later scan of the session
  empty. At the end of standard input the loop polls without pause: `NoKey`. An
  exception leaves the terminal in raw mode: `Crash`.
* A plugin directory that cannot be examined ends the scan with an exception, built-in
  caches included (`PluginLoader.cpp:77`; `docs/plugin-contract.md:13` wants an unavailable plugin
  not to prevent their discovery): `Crash`. One that cannot be listed costs the
  plugins behind the break only: `PluginsBreakOff`.
* The built-in caches are filtered before the plugins are merged, so a plugin may
  take the name of a built-in cache that the filter has left out, and the order
  of the directory decides between two plugins of one name (`ScannerEngine.cpp:119`,
  `PluginLoader.cpp:82`): `FilterCache`, `LoadPlugin`. The paths that environment variables
  give are not validated (`ScannerEngine.cpp:58`; `docs/plugin-contract.md`):
  `ResolveConfiguredPath`.
* The names of system directories are compared with canonical paths, so where one
  of them is a link (`/bin` and `/lib` are on many systems), neither the name nor
  what it leads to is protected (`Filesystem.cpp:222`): `IsProtectedPath`. Validation
  follows normalisation, so the test for `..` never fires in the program
  (`PluginLoader.cpp:31`): `IsValidPluginPath`. `engine/PathSafety.cpp`, through which
  operations should pass (`docs/architecture/analysis-engine.md:25`), has no caller.

## 7. Not modelled

* Tools that start during a run: activity is a constant of `CleanCommand`, and
  a nondeterministic answer in `ScannerEngine`.
* Nesting of caches is the function `Inside`; `Paths` has no cycles of links, and no
  files, whose paths end what can be followed like directories without entries.
* Symbolic links to files, of which the scan counts what they lead to, in `CleanCommand`;
  an `exists` that throws before the configuration is loaded (`Config.cpp:164`).
* Undefined or overflowing time arithmetic (`CleanEngine.cpp:28`): a file is stale or
  fresh.
* The constructor of the thread pool failing half-way.
* The order in which reports sort their rows, layout, colours, formats and the help text;
  the suggestion for an unknown command; `doctor` and `version`, which only print; the
  terminal. They keep no state and decide nothing.
* `CleanupManifest`: an identifier and a text, which nothing writes.
* Ages, file counts and types of a result in `ScannerEngine` and `Reports`, and in the dashboard which results
  deserve a recommendation: `Digest` chooses. The lists of largest caches in
  `CacheInsights`. The Windows branches.
* Which of the tool families a cache name belongs to (`ToolDetector.cpp:84`): a
  result has warnings or has none.
* The parser of plugin files: a file is malformed, something else, or a definition.
* Step 11 of the plan.
