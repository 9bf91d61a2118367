-------------------------- MODULE MCDirectoryIndex --------------------------
(***************************************************************************)
(* DirectoryIndex on all walks of up to three entries.  The largest number *)
(* is 4, so that two files may overflow a sum.                             *)
(***************************************************************************)
EXTENDS Integers, SequencesExt, FiniteSetsExt

Largest == 4
NoNumber == -1
D == INSTANCE DirectoryIndex WITH UintMax <- Largest, Unreadable <- NoNumber

Kinds ==
    {[type |-> "regular", bytes |-> b, age |-> a] : b \in {NoNumber, 0, 2, 3}, a \in {NoNumber, 1, 2}}
    \cup {[type |-> t, bytes |-> 2, age |-> 1] : t \in {"directory", "link", "other", "gone"}}

DirEntry(kind, path) ==
    [type |-> kind.type, bytes |-> kind.bytes, age |-> kind.age, path |-> path]

\* The file system delivers the paths in no particular order.
Walks ==
    UNION {{[isDirectory |-> d, fails |-> f,
             entries |-> [i \in 1..n |-> DirEntry(k[i], (2 * i) % 5)]] :
              k \in [1..n -> Kinds], d \in BOOLEAN, f \in BOOLEAN} : n \in 0..3}

ASSUME WalksAreWalks == \A w \in Walks : D!IsWalk(w)

\* What the regular files of a walk that can be read hold, without overflow.
Held(w) ==
    MapThenSumSet(LAMBDA i : w.entries[i].bytes, D!Entries(w, D!IsSized))

\* estimateDirectorySize never says more than the files hold, counts each file
\* once, and says that it is complete only if nothing was left out, neither an
\* entry that could not be read, nor the rest behind an error, nor an overflow.
\* The iterator that cannot be constructed is the one exception.
ASSUME CompleteIsExact ==
    \A w \in Walks :
        LET e == D!EstimateDirectorySize(w)
        IN  /\ e.bytes = Min({Held(w), Largest})
            /\ e.files = Cardinality(D!Entries(w, D!IsSized))
            /\ e.complete <=>
                 /\ w.isDirectory /\ Held(w) <= Largest
                 /\ w.fails => w.entries = <<>>
                 /\ \A i \in DOMAIN w.entries :
                      w.entries[i].type \in {"regular", "gone"} => D!IsSized(w.entries[i])

\* The two indexes agree: if the estimate is complete and every time could be
\* read, the summary of ages has its bytes and its files.  The stale files are
\* the first of the list, and hold what remains when the others are taken away.
ASSUME AgesAgreeWithEstimate ==
    \A w \in Walks, staleAfter \in 1..3 :
        LET e    == D!EstimateDirectorySize(w)
            list == D!IndexFileAges(w)
            s    == D!SummarizeFileAges(list, staleAfter)
        IN  /\ e.complete /\ D!Entries(w, D!IsSized) = D!Entries(w, D!IsDated) =>
                 s.totalBytes = e.bytes /\ s.fileCount = e.files
            /\ \A i \in DOMAIN list : i <= s.staleCount <=> list[i].age >= staleAfter
            /\ s.staleBytes = D!WrappedSum(SubSeq(list, 1, s.staleCount))

\* Without links, what the duplicates promise to free is less than what the
\* directory holds, and one file of each group remains.  (A link counts as a
\* copy of the file it leads to, so with links the promise may be empty.)
ASSUME DuplicatesKeepOne ==
    \A w \in Walks :
        LET groups == D!FindDuplicateCandidates(w, 2)
            links  == {i \in DOMAIN w.entries : w.entries[i].type = "link"}
        IN  /\ \A i, j \in DOMAIN groups :
                 i < j => /\ groups[i].reclaimableBytes >= groups[j].reclaimableBytes
                          /\ groups[i].files \cap groups[j].files = {}
            /\ Held(w) <= Largest /\ links = {} /\ groups # <<>> =>
                 FoldLeft(LAMBDA sum, g : sum + g.reclaimableBytes, 0, groups) < Held(w)

Row(name, bytes, found) == [name |-> name, bytes |-> bytes, found |-> found]
Rows == UNION {[1..n -> {Row(m, b, f) : m \in 1..2, b \in {0, 3}, f \in BOOLEAN}] : n \in 0..3}

\* A report lists every result that was found, and only those, the larger ones
\* first; the order of the scan decides nothing that sizes and names do.
ASSUME RowsAreOrdered ==
    \A results \in Rows :
        LET rows == D!ReportRows(results)
        IN  /\ \A r \in ToSet(results) :
                 Cardinality({i \in DOMAIN rows : rows[i] = r})
                   = IF r.found THEN Cardinality({i \in DOMAIN results : results[i] = r}) ELSE 0
            /\ \A i, j \in DOMAIN rows : i < j => ~D!LargerRow(rows[j], rows[i])
            /\ rows = D!ReportRows(Reverse(results))

Tools ==
    UNION {[1..n -> {[name |-> m, installed |-> i, active |-> a] :
                       m \in 1..2, i \in BOOLEAN, a \in BOOLEAN}] : n \in 0..3}

\* The installed tools come first, as many as the count says.
ASSUME InstalledComeFirst ==
    \A tools \in Tools :
        LET s == D!BuildEnvironmentSummary(tools)
        IN  /\ \A i \in DOMAIN s.tools : s.tools[i].installed <=> i <= s.installedCount
            /\ s.activeCount = Cardinality({i \in DOMAIN s.tools : s.tools[i].active})
=============================================================================
