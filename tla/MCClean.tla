------------------------------ MODULE MCClean ------------------------------
(***************************************************************************)
(* Instances of CleanCommand: two caches, three files and a directory.     *)
(* Which caches are protected is what Paths says of their locations.       *)
(***************************************************************************)
EXTENDS CleanCommand, MCPaths

CONSTANTS r1, r2, e1, e2, e3, d1

MCRoot == {r1, r2}
MCEntry == {e1, e2, e3, d1}
MCRegular == {e1, e2, e3}

\* r1 holds two files and a directory, r2 one file of its own.
Disjoint == (r1 :> {e1, e2, d1}) @@ (r2 :> {e3})
NoneInside == (r1 :> {}) @@ (r2 :> {})
\* r2 lies inside r1, as a project cache inside its tool's cache.
Nested == (r1 :> {e1, e2, e3, d1}) @@ (r2 :> {e2, e3})
TwoInsideOne == (r1 :> {r2}) @@ (r2 :> {})

\* A cache in HOME and one elsewhere; HOME itself and a cache inside it.
Protects(p1, p2) == {r \in MCRoot : FS!IsProtectedPath(IF r = r1 THEN p1 ELSE p2)}
TwoCaches == Protects(FS!Absolute(<<"home", "me", "pip", "">>), FS!Relative(<<"..", "npm">>))
HomeAndCache == Protects(FS!Absolute(<<"home", "me">>), FS!Relative(<<"pip">>))
ASSUME ProtectedIsReal == Protected \in {TwoCaches, HomeAndCache}

F(age, size) == [age |-> age, size |-> size]
Disk(f1, f2, f3) == (e1 :> f1) @@ (e2 :> f2) @@ (e3 :> f3) @@ (d1 :> F("stale", 0))
Dirs == (r1 :> "dir") @@ (r2 :> "dir")
LinkedDirs == (r1 :> "link") @@ (r2 :> "dir")

\* Stale and fresh files of different sizes; one layout reached by a link.
MCLayouts ==
    {[disk |-> Disk(F("stale", 2), F("stale", 1), F("stale", 1)), kind |-> Dirs],
     [disk |-> Disk(F("stale", 1), F("fresh", 2), F("stale", 1)), kind |-> LinkedDirs]}

\* Caches in which nothing is old.
FreshLayouts == {[disk |-> Disk(F("fresh", 2), F("fresh", 1), F("fresh", 1)), kind |-> Dirs]}

Flags(safe, force, dry, json, targets) ==
    [target : targets, stale : {TRUE}, staleGiven : {TRUE}, safe : safe, force : force,
     dryRun : dry, json : json]
StaleLines ==
    Flags({FALSE}, {TRUE}, {FALSE}, {FALSE}, {0, 2}) \cup
    Flags({TRUE}, {TRUE}, {FALSE, TRUE}, {FALSE}, {3})
PlainLines == {[c EXCEPT !.stale = FALSE, !.staleGiven = FALSE] : c \in StaleLines}
AskLines ==
    Flags({FALSE}, {FALSE}, {FALSE, TRUE}, {FALSE, TRUE}, {2}) \cup
    Flags({FALSE}, {TRUE}, {FALSE, TRUE}, {TRUE}, {2})

\* `clean --force --stale 30d` and the same without a unit, parsed.
AP == INSTANCE ArgumentParser WITH Kilo <- 1024, UintMax <- 1000000000
Thirty(suffix) ==
    LET word(text) == [kind |-> "word", option |-> "", name |-> text,
                       number |-> [digits |-> 30, suffix |-> suffix]]
        option(name) == [kind |-> "option", option |-> name, name |-> "",
                         number |-> [digits |-> -1, suffix |-> ""]]
    IN  AP!Parse(<<word("clean"), option("force"), option("stale"), word("30" \o suffix)>>)
DurationLines ==
    {[target |-> parsed.target, stale |-> parsed.stale # 0, staleGiven |-> TRUE,
      safe |-> "safe" \in parsed.flags, force |-> "force" \in parsed.flags,
      dryRun |-> "dry-run" \in parsed.flags, json |-> "json" \in parsed.flags] :
        parsed \in {Thirty("d"), Thirty("")}}

AllLines == StaleLines \cup PlainLines \cup AskLines
=============================================================================
