---------------------------- MODULE CleanEngine ----------------------------
(***************************************************************************)
(* The deletion engine of devclean and the file system it works on:        *)
(* CleanEngine::removeStaleFiles (a walk that unlinks old regular files    *)
(* within a byte budget), CleanEngine::removeDirectory through             *)
(* Filesystem::removeDirectory (checks, then remove_all), interleaved with *)
(* the other processes that keep using the caches.  One engine call is a   *)
(* sequence of steps, one per access to the file system.                   *)
(***************************************************************************)
EXTENDS Naturals, FiniteSets

CONSTANTS
    Root,       \* the cache locations a scan can report
    Entry,      \* the directory entries found below the locations
    Regular,    \* the entries that are regular files and not symbolic links
    Below,      \* Below[r]: what a recursive iteration that starts at r reaches
    Inside,     \* Inside[r]: the other locations that lie below r
    Protected,  \* the locations isProtectedPath answers true for
    Volatile,   \* the entries that other processes rewrite during a run
    FileSize,   \* the sizes a rewritten file may get
    UintMax,    \* the largest value of the code's uint64_t
    MaxDisturb  \* bound on the steps of other processes

ASSUME EngineAssumption ==
    /\ Root # {} /\ IsFiniteSet(Root)
    /\ Entry # {} /\ IsFiniteSet(Entry)
    /\ Regular \subseteq Entry /\ Volatile \subseteq Regular
    /\ Below \in [Root -> SUBSET Entry]
    /\ Inside \in [Root -> SUBSET Root]
    /\ \A r \in Root : \A q \in Inside[r] : Below[q] \subseteq Below[r]
    /\ Protected \subseteq Root
    /\ UintMax \in Nat \ {0} /\ FileSize \subseteq 0..UintMax
    /\ MaxDisturb \in Nat

VARIABLES
    disk,     \* disk[e]: is the entry there, is it older than the cut-off, how large
    kind,     \* kind[r]: what the path of the location r names
    op,       \* where the engine call is
    walk,     \* the arguments and the local variables of the engine call
    result,   \* the CleanResult under construction
    gone,     \* history: the entries devclean has unlinked
    freed,    \* history: the bytes those entries held when they were unlinked
    disturbed \* steps taken by other processes

engineVars == <<disk, kind, op, walk, result, gone, freed, disturbed>>

Uint == 0..UintMax
Age == {"absent", "fresh", "stale"}
File == [age : Age, size : Uint]
PathKind == {"dir", "link", "absent", "denied"}
Op == {"idle", "next", "age", "size", "unlink", "removing", "returned", "thrown"}

EngineTypeOK ==
    /\ disk \in [Entry -> File]
    /\ kind \in [Root -> PathKind]
    /\ op \in Op
    /\ walk \in [root : Root, budget : Uint, todo : SUBSET Entry,
                 entry : Entry, bytes : Uint]
    /\ result \in [success : BOOLEAN, error : BOOLEAN, bytesRemoved : Uint]
    /\ gone \subseteq Entry
    /\ freed \in Nat
    /\ disturbed \in 0..MaxDisturb

\* Unsigned subtraction and addition: both wrap, as uint64_t does.
Minus(a, b) == IF b <= a THEN a - b ELSE a + UintMax + 1 - b
Plus(a, b) == IF a + b <= UintMax THEN a + b ELSE a + b - (UintMax + 1)

NewResult == [success |-> FALSE, error |-> FALSE, bytesRemoved |-> 0]

EngineInit ==
    /\ op = "idle"
    /\ walk = [root |-> CHOOSE r \in Root : TRUE, budget |-> 0, todo |-> {},
               entry |-> CHOOSE e \in Entry : TRUE, bytes |-> 0]
    /\ result = NewResult
    /\ gone = {} /\ freed = 0 /\ disturbed = 0

-----------------------------------------------------------------------------
(* removeStaleFiles *)

\* The file does not fit into what is left of the budget; 0 is "no budget".
MutTooLarge(size, budget, removed) == budget > 0 /\ size > budget
TooLarge(size, budget, removed) == budget > 0 /\ size > Minus(budget, removed)

Spent(budget, removed) == budget > 0 /\ removed >= budget

\* now - modified < threshold, with the cut-off fixed when the call started.
MutTooYoung(e) == FALSE
TooYoung(e) == disk[e].age = "fresh"

\* Unreachable metadata: the entry vanished, or a parent lost its search bit.
Unreadable(e) == disk[e].age = "absent" \/ kind[walk.root] = "denied"

Return(res) == op' = "returned" /\ result' = res
MutThrow == Return([NewResult EXCEPT !.error = TRUE])
Throw == Return([result EXCEPT !.success = FALSE, !.error = TRUE])

\* fs::exists(path) is outside the try block: an error other than "not found"
\* leaves the function as an exception.
StaleStart(r, budget) ==
    /\ op = "idle"
    /\ walk' = [walk EXCEPT !.root = r, !.budget = budget, !.todo = Below[r]]
    /\ \/ kind[r] = "denied" /\ op' = "thrown" /\ result' = NewResult
       \/ kind[r] = "absent" /\ Return([NewResult EXCEPT !.error = TRUE])
       \/ kind[r] \in {"dir", "link"} /\ op' = "next" /\ result' = NewResult
    /\ UNCHANGED <<disk, kind, gone, freed, disturbed>>

\* The iterator yields the next entry; directories, devices and links are
\* passed over, an entry that is not there is not yielded.
StaleVisit(e) ==
    /\ op = "next" /\ e \in walk.todo
    /\ walk' = [walk EXCEPT !.todo = @ \ {e}, !.entry = e]
    /\ op' = IF e \in Regular /\ disk[e].age # "absent" THEN "age" ELSE "next"
    /\ UNCHANGED <<disk, kind, result, gone, freed, disturbed>>

\* The iterator is exhausted, or its increment throws into the catch block.
StaleEnd ==
    /\ op = "next"
    /\ \/ walk.todo = {} /\ Return([result EXCEPT !.success = ~result.error])
       \/ walk.todo # {} /\ Throw
    /\ UNCHANGED <<disk, kind, walk, gone, freed, disturbed>>

\* last_write_time() throws for a file it cannot read.
StaleAge ==
    /\ op = "age"
    /\ IF Unreadable(walk.entry)
       THEN Throw
       ELSE /\ op' = IF TooYoung(walk.entry) THEN "next" ELSE "size"
            /\ UNCHANGED result
    /\ UNCHANGED <<disk, kind, walk, gone, freed, disturbed>>

StaleSize ==
    /\ op = "size"
    /\ IF Unreadable(walk.entry)
       THEN Throw /\ UNCHANGED walk
       ELSE LET bytes == disk[walk.entry].size IN
            /\ walk' = [walk EXCEPT !.bytes = bytes]
            /\ op' = IF TooLarge(bytes, walk.budget, result.bytesRemoved)
                     THEN "next" ELSE "unlink"
            /\ UNCHANGED result
    /\ UNCHANGED <<disk, kind, gone, freed, disturbed>>

Unlink(e) ==
    /\ disk' = [disk EXCEPT ![e] = [age |-> "absent", size |-> 0]]
    /\ gone' = gone \cup {e}
    /\ freed' = freed + disk[e].size

\* After the attempt the walk goes on, or ends once the budget is used up.
Proceed(res) ==
    IF Spent(walk.budget, res.bytesRemoved)
    THEN Return([res EXCEPT !.success = ~res.error])
    ELSE op' = "next" /\ result' = res

\* remove() with an error code: the file goes and the size read before counts,
\* it had gone already, or an error is kept.
StaleUnlink ==
    /\ op = "unlink"
    /\ \/ /\ ~Unreadable(walk.entry) /\ Unlink(walk.entry)
          /\ Proceed([result EXCEPT !.bytesRemoved = Plus(@, walk.bytes)])
       \/ /\ disk[walk.entry].age = "absent" /\ Proceed(result)
          /\ UNCHANGED <<disk, gone, freed>>
       \/ /\ Proceed([result EXCEPT !.error = TRUE])
          /\ UNCHANGED <<disk, gone, freed>>
    /\ UNCHANGED <<kind, walk, disturbed>>

-----------------------------------------------------------------------------
(* removeDirectory *)

\* Protected, missing and linked paths end the call before anything is
\* deleted; the error-code form of exists answers false on a denied path.
RemoveStart(r) ==
    /\ op = "idle"
    /\ walk' = [walk EXCEPT !.root = r, !.budget = 0, !.todo = Below[r]]
    /\ \/ r \in Protected /\ Return([NewResult EXCEPT !.error = TRUE])
       \/ /\ r \notin Protected
          /\ \/ kind[r] \in {"absent", "denied"} /\ Return([NewResult EXCEPT !.success = TRUE])
             \/ kind[r] = "link" /\ Return([NewResult EXCEPT !.error = TRUE])
             \/ kind[r] = "dir" /\ op' = "removing" /\ result' = NewResult
    /\ UNCHANGED <<disk, kind, gone, freed, disturbed>>

\* remove_all unlinks what it finds; an entry that vanished is not an error.
RemoveUnlink(e) ==
    /\ op = "removing" /\ e \in walk.todo
    /\ walk' = [walk EXCEPT !.todo = @ \ {e}]
    /\ \/ disk[e].age # "absent" /\ kind[walk.root] = "dir" /\ Unlink(e)
       \/ disk[e].age = "absent" /\ UNCHANGED <<disk, gone, freed>>
    /\ UNCHANGED <<kind, op, result, disturbed>>

\* The directory itself goes last.  If another process took it away the call
\* succeeds when remove_all had deleted something; an entry written meanwhile,
\* or any other error, stops remove_all and leaves the rest in place.
RemoveEnd ==
    /\ op = "removing"
    /\ \/ /\ walk.todo = {} /\ kind[walk.root] = "dir"
          /\ \A e \in Below[walk.root] : disk[e].age = "absent"
          /\ kind' = [q \in Root |-> IF q = walk.root \/ q \in Inside[walk.root]
                                     THEN "absent" ELSE kind[q]]
          /\ Return([result EXCEPT !.success = TRUE])
       \/ /\ kind[walk.root] = "absent"
          /\ \E deleted \in BOOLEAN : Return([result EXCEPT !.success = deleted])
          /\ UNCHANGED kind
       \/ /\ Return([result EXCEPT !.error = TRUE])
          /\ UNCHANGED kind
    /\ UNCHANGED <<disk, walk, gone, freed, disturbed>>

EngineStep ==
    \/ \E e \in Entry : StaleVisit(e) \/ RemoveUnlink(e)
    \/ StaleEnd \/ StaleAge \/ StaleSize \/ StaleUnlink
    \/ RemoveEnd

-----------------------------------------------------------------------------
(* Other processes: build tools that write, delete and lock what they use. *)

Disturb ==
    /\ disturbed < MaxDisturb
    /\ disturbed' = disturbed + 1
    /\ UNCHANGED <<op, walk, result, gone, freed>>

\* A tool writes the file anew.  Its modification time is now, or an old one
\* if the tool restores times, as unpacking an archive does.
Rewrite(e, age, size) ==
    /\ Disturb
    /\ e \in Volatile /\ age # "absent"
    /\ \E r \in Root : e \in Below[r] /\ kind[r] \in {"dir", "link"}
    /\ disk' = [disk EXCEPT ![e] = [age |-> age, size |-> size]]
    /\ UNCHANGED kind

Vanish(e) ==
    /\ Disturb
    /\ disk[e].age # "absent"
    /\ disk' = [disk EXCEPT ![e] = [age |-> "absent", size |-> 0]]
    /\ UNCHANGED kind

\* The path is deleted, or a parent directory loses its search permission.
Withdraw(r, to) ==
    /\ Disturb
    /\ kind[r] \in {"dir", "link"} /\ to \in {"absent", "denied"}
    /\ kind' = [q \in Root |-> IF q = r \/ q \in Inside[r] THEN to ELSE kind[q]]
    /\ disk' = [e \in Entry |-> IF to = "absent" /\ kind[r] = "dir" /\ e \in Below[r]
                                THEN [age |-> "absent", size |-> 0] ELSE disk[e]]

Elsewhere ==
    \/ \E e \in Entry : Vanish(e) \/ \E age \in Age, s \in FileSize : Rewrite(e, age, s)
    \/ \E r \in Root, to \in PathKind : Withdraw(r, to)
=============================================================================
