------------------------------ MODULE MCReports ------------------------------
(***************************************************************************)
(* Instances of Reports for TLC: command lines that are parsed from their  *)
(* tokens, and two machines whose caches grow, shrink, go away, cannot be  *)
(* read or are disabled.  Terminals are interchangeable.                   *)
(***************************************************************************)
EXTENDS Reports, StorageModels

Symmetric == Permutations(Proc)

\* Tokens.  A text that is no number has no leading digits.
Text(name, digits, suffix) ==
    [name |-> name, number |-> [digits |-> digits, suffix |-> suffix]]
Tok(kind, option, text) ==
    [kind |-> kind, option |-> option, name |-> text.name, number |-> text.number]
NoText == Text("", -1, "")
Word(name) == Tok("word", "", Text(name, -1, name))
Number(name, digits, suffix) == Tok("word", "", Text(name, digits, suffix))
Option(option) == Tok("option", option, NoText)
Inline(option, text) == Tok("inline", option, text)

Argv ==
    [stats |-> <<Word("st")>>,
     scanNode |-> <<Option("category"), Word("node"), Word("scan")>>,
     dashboard |-> <<Word("dashboard"), Option("exclude"), Word("npm")>>,
     recommend |-> <<Word("recommend"), Inline("max-size", Text("4kb", 4, "kb"))>>]
Lines == [s \in DOMAIN Argv |-> [Parse(Argv[s]) EXCEPT !.command = Dispatch(Parse(Argv[s]))]]

\* The parser against a description of it that does not run from left to right,
\* for every short sequence of tokens.
Tokens ==
    {Word("scan"), Word("pip"), Number("4h", 4, "h"), Option("stale"), Option("exclude"),
     Option("json"), Option("unknown"), Inline("stale", Text("2m", 2, "m")), Inline("exclude", NoText)}
Argvs == UNION {[1..n -> Tokens] : n \in 0..4}

\* The tokens that are values of the option before them.
Values(argv) ==
    LET taken[i \in 0..Len(argv)] == i > 1 /\ ~taken[i - 1] /\ TakesNext(argv, i - 1)
    IN  {i \in 1..Len(argv) : taken[i]}
Words(argv) == {i \in 1..Len(argv) : ~IsOption(argv[i])} \ Values(argv)
Given(argv, option) ==
    {i \in Values(argv) : argv[i - 1].option = option}
        \cup {i \in 1..Len(argv) : argv[i].kind = "inline" /\ argv[i].option = option /\ argv[i].name # ""}

\* Every word is used once, as the command, a target or a value; an option
\* never is a value; the last of several values counts.
ASSUME ParserReference ==
    \A argv \in Argvs :
        LET args == Parse(argv)
            words == Words(argv)
        IN  /\ args.command = IF words = {} THEN "" ELSE argv[Min(words)].name
            /\ Len(args.targets) = Cardinality(words \ {i \in words : i = Min(words)})
            /\ Len(args.excludes) = Cardinality(Given(argv, "exclude"))
            /\ args.stale = IF Given(argv, "stale") = {} THEN 0
                            ELSE ParseDuration(argv[Max(Given(argv, "stale"))].number)
            /\ "json" \in args.flags <=> \E i \in 1..Len(argv) : argv[i] = Option("json")

\* "--option=value" is "--option value", wherever it stands.
ASSUME InlineIsSpaced ==
    \A argv \in UNION {[1..n -> Tokens] : n \in 0..2}, i \in 0..2 : i <= Len(argv) =>
        LET Around(middle) == SubSeq(argv, 1, i) \o middle \o SubSeq(argv, i + 1, Len(argv))
        IN  \A option \in {"exclude", "category"} :
                \* a value that is asked for is taken away by what stands before it
                (i = 0 \/ ~(argv[i].option \in Settings /\ argv[i].name = "")) =>
                    Parse(Around(<<Option(option), Word("pip")>>))
                        = Parse(Around(<<Inline(option, Text("pip", -1, "pip"))>>))

\* The multiplication of a number that just fits, and of one that does not.
ASSUME NumberBoundary ==
    /\ ParseSize([digits |-> UintMax \div 8, suffix |-> "gb"]) = (UintMax \div 8) * 8
    /\ ParseSize([digits |-> UintMax \div 8 + 1, suffix |-> "gb"]) = 0
    /\ ParseDuration([digits |-> 30, suffix |-> ""]) = 0

\* Two scans of up to three caches, of which two may have one name: what has
\* changed adds up to the difference of the totals, and the history lists the
\* same caches if all were found and differ in their bytes.
Sizes == {[name |-> n, bytes |-> b, files |-> b, found |-> f] : n \in 1..2, b \in {0, 2, 5}, f \in BOOLEAN}
Scans == UNION {[1..n -> Sizes] : n \in 0..2}
ASSUME ChangesAddUp ==
    \A before, after \in Scans :
        LET diff == CompareScans(before, after)
            all == \A r \in Range(before) \cup Range(after) : r.found
        IN  /\ MapThenSumSet(LAMBDA n : diff.changes[n], DOMAIN diff.changes) = diff.byteDelta
            /\ diff.byteDelta = diff.afterBytes - diff.beforeBytes
            /\ all => DOMAIN diff.changes = {d[1] : d \in Differences(before, after)}

\* The projection of deltas that do not saturate is made of their true sum; and
\* steady growth does not accelerate, however many deltas there are.
Deltas == UNION {[1..n -> {-9, -2, 0, 1, 4, MaxInt}] : n \in 0..4}
ASSUME ProjectionIsTrue ==
    \A d \in Deltas :
        LET p == ProjectCacheGrowth(d)
            n == Len(d)
            sum == MapThenSumSet(LAMBDA i : d[i], 1..n)
        IN  /\ MaxInt \notin Range(d) => SumOf(d) = sum
            /\ p.average \in Signed /\ p.thirtyDays \in Signed
            /\ n > 0 /\ sum \in Signed /\ MaxInt \notin Range(d) => p.average = Quotient(sum, n)
            /\ n > 1 /\ (\A i \in 1..n : d[i] = d[1]) /\ d[1] > 0 => ~p.accelerating

\* The numbers of stats and the lists of analyze, for every short list of
\* results: the categories add up to the total of the caches that were found;
\* each result is unused or counted as found; what analyze calls safe is what
\* stats counts as inactive; an old or large cache is one that was found.
Listed ==
    {[category |-> c, found |-> f, active |-> a, bytes |-> b, age |-> g] :
        c \in {"", "python"}, f \in BOOLEAN, a \in BOOLEAN, b \in {0, 3, UintMax},
        g \in {719, 720}}
ASSUME StatsAddUp ==
    \A results \in UNION {[1..n -> Listed] : n \in 0..2} :
        LET bytes == CategoryBytes(results)
            counts == Counts(results)
            Count(Test(_)) == Len(SelectSeq(results, Test))
        IN  /\ Min({UintMax, MapThenSumSet(LAMBDA c : bytes[c], DOMAIN bytes)})
                    = SnapshotTotal(SelectSeq(results, LAMBDA r : r.found))
            /\ counts.found + Count(Unused) = Len(results)
            /\ counts.inactive = Count(LAMBDA r : SafeToClean(r, FALSE))
            /\ Count(LAMBDA r : OldCache(r) \/ LargeCache(r)) <= counts.found

Found(name, category, bytes) ==
    [name |-> name, aliases |-> {}, category |-> category, found |-> TRUE, usable |-> TRUE,
     active |-> name = "npm", bytes |-> bytes]
Gone(result) == [result EXCEPT !.found = FALSE, !.bytes = 0]
Unreadable(result) == [result EXCEPT !.found = FALSE, !.usable = FALSE]
Disabled(result) == [result EXCEPT !.usable = FALSE]
Pip(bytes) == Found("pip", "python", bytes)
Npm(bytes) == Found("npm", "javascript", bytes)

Growing == <<<<Pip(30), Npm(5)>>, <<Pip(39), Npm(5)>>, <<Pip(39), Npm(6)>>>>
Fading == <<<<Pip(8), Disabled(Npm(2))>>, <<Gone(Pip(0)), Disabled(Npm(2))>>,
            <<Unreadable(Pip(1)), Npm(7)>>>>
BothWorlds == {[lines |-> {"stats", "scanNode"}, caches |-> Growing],
               [lines |-> {"dashboard", "recommend"}, caches |-> Fading]}
=============================================================================
