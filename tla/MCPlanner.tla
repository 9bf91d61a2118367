----------------------------- MODULE MCPlanner -----------------------------
(***************************************************************************)
(* An instance of CleanupPlanner for TLC: words of three bits, where 7 is  *)
(* the size that saturated and sums of a few sizes wrap around.  Insights  *)
(* is checked here too, with a megabyte of one byte, and DirectoryIndex in *)
(* the module extended.                                                    *)
(***************************************************************************)
EXTENDS CleanupPlanner, MCDirectoryIndex

Cache(name, bytes, active, growing) ==
    [name |-> name, bytes |-> bytes, usable |-> TRUE, active |-> active,
     warned |-> FALSE, protected |-> FALSE, growing |-> growing]

Caches ==
    {Cache(1, b, a, FALSE) : b \in {1, 2, 3, 7}, a \in BOOLEAN}
    \cup {Cache(2, 2, FALSE, g) : g \in BOOLEAN}
    \cup {Cache(2, 5, TRUE, TRUE), Cache(1, 0, FALSE, FALSE),
          [Cache(2, 3, FALSE, FALSE) EXCEPT !.warned = TRUE],
          [Cache(1, 3, FALSE, FALSE) EXCEPT !.usable = FALSE],
          [Cache(2, 2, FALSE, FALSE) EXCEPT !.protected = TRUE]}

-----------------------------------------------------------------------------
(* Insights *)

I == INSTANCE Insights WITH MB <- 1, MaxInt <- 1000000

Trends == UNION {[1..n -> {0, 3, 8}] : n \in 2..4} \cup [1..7 -> {0, 5}]

\* The average growth is the difference between the newest and the oldest of
\* the (at most six) totals, over the number of steps between them.
ASSUME AverageIsOverall ==
    \A h \in Trends :
        LET n == I!Limit(h)  IN  I!AverageGrowth(h) = I!Quotient(h[1] - h[n], n - 1)

Scanned(bytes, active, warnings, age, growth, usable) ==
    [name |-> 1, bytes |-> bytes, usable |-> usable, active |-> active, warnings |-> warnings,
     protected |-> FALSE, growth |-> growth, age |-> age]
Findings ==
    {Scanned(b, a, w, 24 * d, 0, u) :
        b \in {0, 2047, 2048, 8192}, a \in BOOLEAN, w \in {0, 3}, d \in {-1, 29, 365},
        u \in BOOLEAN}

\* One more cache never makes a scan healthier, wherever it comes in the list,
\* and one that was not found changes nothing.
Score(found, history) == I!HealthScore(I!Summary(found, history))
ASSUME MoreIsNotHealthier ==
    \A r1, r2 \in Findings, h \in {<<>>, <<9, 9>>, <<1, 9>>, <<600, 9>>} :
        /\ Score(<<r1, r2>>, h) <= Score(<<r1>>, h)
        /\ Score(<<r1, r2>>, h) = Score(<<r2, r1>>, h)
        /\ ~r2.usable => Score(<<r1, r2>>, h) = Score(<<r1>>, h)
=============================================================================
