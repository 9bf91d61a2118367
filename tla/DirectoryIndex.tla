--------------------------- MODULE DirectoryIndex ---------------------------
(***************************************************************************)
(* The helpers of src/engine that read a directory (SizeEstimator,         *)
(* FileAgeIndex, DuplicateDetector) and the two that prepare a table       *)
(* (ReportModel, EnvironmentSummary).                                      *)
(*                                                                         *)
(* A walk is what one recursive iteration delivers: whether the root is a  *)
(* directory, the entries in the order of the file system, and whether the *)
(* iterator comes to its end or to an error, which leaves it equal to end. *)
(***************************************************************************)
EXTENDS Integers, SequencesExt

CONSTANTS
    UintMax,        \* the largest uint64_t
    Unreadable      \* a size or a time that cannot be read

Wrapped(n) == n % (UintMax + 1)

\* type is what symlink_status says, "gone" if it fails; a "link" leads to a
\* regular file, whose size bytes is.  Paths are numbered alphabetically.
IsEntry(e) ==
    /\ e.type \in {"regular", "directory", "link", "other", "gone"}
    /\ e.path \in Nat /\ {e.bytes, e.age} \subseteq 0..UintMax \cup {Unreadable}
IsWalk(w) ==
    /\ {w.isDirectory, w.fails} \subseteq BOOLEAN
    /\ \A i \in DOMAIN w.entries : IsEntry(w.entries[i])

Delivered(w) == IF w.isDirectory THEN w.entries ELSE <<>>
Entries(w, Test(_)) == {i \in DOMAIN Delivered(w) : Test(Delivered(w)[i])}

IsSized(e) == e.type = "regular" /\ e.bytes # Unreadable
IsDated(e) == IsSized(e) /\ e.age # Unreadable

-----------------------------------------------------------------------------
(* SizeEstimator *)

Overflows(bytes, e) == bytes > UintMax - e.bytes

\* The loop body of estimateDirectorySize before the increment.
Estimated(estimate, e) ==
    CASE e.type = "gone" \/ (e.type = "regular" /\ ~IsSized(e)) ->
           [estimate EXCEPT !.complete = FALSE]
      [] e.type = "directory" -> [estimate EXCEPT !.directories = @ + 1]
      [] IsSized(e) ->
           [estimate EXCEPT !.bytes = IF Overflows(@, e) THEN UintMax ELSE @ + e.bytes,
                            !.complete = @ /\ ~Overflows(estimate.bytes, e),
                            !.files = @ + 1]
      [] OTHER -> estimate

\* An iterator that cannot be constructed never enters the loop, where errors
\* are looked at: the directory then counts as completely read, and empty.
EstimateDirectorySize(w) ==
    LET nothing == [bytes |-> 0, files |-> 0, directories |-> 0, complete |-> w.isDirectory]
        walked  == FoldLeft(Estimated, nothing, Delivered(w))
    IN  [walked EXCEPT !.complete = @ /\ ~(w.fails /\ Delivered(w) # <<>>)]

-----------------------------------------------------------------------------
(* FileAgeIndex *)

Older(e, f) == e.age > f.age \/ (e.age = f.age /\ e.path < f.path)
IndexFileAges(w) == SetToSortSeq({Delivered(w)[i] : i \in Entries(w, IsDated)}, Older)

WrappedSum(entries) == FoldLeft(LAMBDA sum, e : Wrapped(sum + e.bytes), 0, entries)
SummarizeFileAges(entries, staleAfter) ==
    LET stale == SelectSeq(entries, LAMBDA e : e.age >= staleAfter)
    IN  [totalBytes |-> WrappedSum(entries), staleBytes |-> WrappedSum(stale),
         fileCount |-> Len(entries), staleCount |-> Len(stale)]

-----------------------------------------------------------------------------
(* DuplicateDetector *)

\* is_regular_file follows links.  Empty files are no candidates.
IsCandidate(e) == e.type \in {"regular", "link"} /\ e.bytes \notin {0, Unreadable}

Group(w, size) ==
    LET files == {Delivered(w)[i].path :
                    i \in Entries(w, LAMBDA e : IsCandidate(e) /\ e.bytes = size)}
    IN  [size |-> size, files |-> files,
         reclaimableBytes |-> Wrapped(size * (Cardinality(files) - 1))]

\* The groups come from a map, in ascending order of size, which the stable
\* sort keeps among equals.
MoreReclaimable(g, h) ==
    \/ g.reclaimableBytes > h.reclaimableBytes
    \/ /\ g.reclaimableBytes = h.reclaimableBytes
       /\ \/ Cardinality(g.files) > Cardinality(h.files)
          \/ Cardinality(g.files) = Cardinality(h.files) /\ g.size < h.size

FindDuplicateCandidates(w, minimumGroupSize) ==
    LET sizes == {Delivered(w)[i].bytes : i \in Entries(w, IsCandidate)}
    IN  SetToSortSeq({g \in {Group(w, s) : s \in sizes} :
                        Cardinality(g.files) >= minimumGroupSize}, MoreReclaimable)

-----------------------------------------------------------------------------
(* ReportModel and EnvironmentSummary *)

\* std::stable_sort of a sequence.
StableSort(seq, Before(_, _)) ==
    LET order == SetToSortSeq(DOMAIN seq,
                   LAMBDA i, j : \/ Before(seq[i], seq[j])
                                 \/ ~Before(seq[j], seq[i]) /\ i < j)
    IN  [i \in DOMAIN seq |-> seq[order[i]]]

LargerRow(r, s) == r.bytes > s.bytes \/ (r.bytes = s.bytes /\ r.name < s.name)
ReportRows(results) == StableSort(SelectSeq(results, LAMBDA r : r.found), LargerRow)

InstalledFirst(t, u) ==
    \/ t.installed /\ ~u.installed
    \/ t.installed = u.installed /\ t.name < u.name
BuildEnvironmentSummary(tools) ==
    [tools |-> StableSort(tools, InstalledFirst),
     installedCount |-> Len(SelectSeq(tools, LAMBDA t : t.installed)),
     activeCount |-> Len(SelectSeq(tools, LAMBDA t : t.active))]
=============================================================================
