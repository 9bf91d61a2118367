------------------------------ MODULE Dashboard ------------------------------
(***************************************************************************)
(* `devclean dashboard`: a scan, then a loop that draws the screen, waits  *)
(* for a key and acts on it, with further scans between.  The terminal     *)
(* hands over bytes; readKey makes keys of them.  The scans are those of   *)
(* ScannerEngine, step by step, and keys may be typed while they run.      *)
(***************************************************************************)
EXTENDS ScannerEngine

CONSTANTS
    Sessions,    \* how the command may be started, and the keys that get pressed
    Heights,     \* the numbers of lines of a content, by selected recommendation
    ViewportHeight, \* the lines the terminal shows
    MaxRecommendations, \* bound on the recommendations of a scan
    MaxInput     \* bound on the bytes typed ahead

\* What a terminal sends for a key.
Bytes ==
    [q |-> <<"q">>, r |-> <<"r">>, a |-> <<"a">>, n |-> <<"n">>, p |-> <<"p">>,
     k |-> <<"k">>, j |-> <<"j">>, Enter |-> <<"newline">>, Escape |-> <<"escape">>,
     Up |-> <<"escape", "[", "A">>, Down |-> <<"escape", "[", "B">>,
     Home |-> <<"escape", "[", "H">>, End |-> <<"escape", "[", "F">>,
     PageUp |-> <<"escape", "[", "5", "~">>, PageDown |-> <<"escape", "[", "6", "~">>,
     Delete |-> <<"escape", "[", "3", "~">>, F2 |-> <<"escape", "O", "Q">>]
Char == {"q", "r", "a", "n", "p", "k", "j", "newline", "escape", "[", "A", "B", "H", "F", "O", "Q",
         "3", "5", "6", "~"}
Byte == [char : Char, key : DOMAIN Bytes, at : 1..4]
Sent(key) == [i \in 1..Len(Bytes[key]) |-> [char |-> Bytes[key][i], key |-> key, at |-> i]]

\* Neither Escape nor a key that starts with another sequence.  A careful user
\* presses none but these, on a terminal that delivers the bytes of a key
\* together.
Plain == DOMAIN Bytes \ {"Escape", "F2"}

ASSUME DashboardAssumption ==
    /\ Sessions \subseteq [setup : Setups, screen : BOOLEAN, careful : BOOLEAN,
                           keys : SUBSET DOMAIN Bytes]
    /\ \A s \in Sessions : s.careful => s.keys \subseteq Plain
    /\ Heights \subseteq [0..(MaxRecommendations - 1) -> Nat] /\ ViewportHeight \in Nat \ {0}
    /\ MaxRecommendations \in Nat \ {0} /\ MaxInput \in Nat

VARIABLES
    session,    \* the arguments, and what the terminal is like
    pc,         \* where execute() is
    recommendations, \* how many there are
    height,     \* height[i]: content.size() with recommendation i selected
    selectedRecommendation, viewportOffset, maxOffset, autoRefresh,
    wire,       \* the bytes of a key that are still under way
    input,      \* the bytes that standard input holds
    sequence,   \* the bytes readKey has taken
    key         \* what readKey made of them

screenVars == <<recommendations, height, selectedRecommendation, viewportOffset, maxOffset>>
keyVars == <<wire, input, sequence, key>>
loopVars == <<session, pc, screenVars, autoRefresh, keyVars>>
vars == <<scanVars, loopVars>>

Keys == {"none", "quit", "refresh", "up", "down", "home", "end", "pageUp", "pageDown",
         "toggleAuto", "nextRecommendation", "prevRecommendation"}

TypeOK ==
    /\ ScanTypeOK
    /\ session \in Sessions /\ setup = session.setup
    /\ pc \in {"start", "scan", "draw", "wait", "escape", "bracket", "page", "act", "left"}
    /\ recommendations \in 0..MaxRecommendations
    /\ height \in [0..(MaxRecommendations - 1) -> Nat]
    /\ selectedRecommendation \in Nat /\ viewportOffset \in Nat /\ maxOffset \in Nat
    /\ autoRefresh \in BOOLEAN /\ key \in Keys
    /\ wire \in Seq(Byte) /\ input \in Seq(Byte) /\ sequence \in Seq(Byte)

Init ==
    /\ ScanInit
    /\ session \in Sessions /\ setup = session.setup
    /\ pc = "start" /\ recommendations = 0
    /\ height = [i \in 0..(MaxRecommendations - 1) |-> 0]
    /\ selectedRecommendation = 0 /\ viewportOffset = 0 /\ maxOffset = 0
    /\ autoRefresh = FALSE /\ key = "none"
    /\ wire = <<>> /\ input = <<>> /\ sequence = <<>>

Least(m, n) == IF m <= n THEN m ELSE n

-----------------------------------------------------------------------------
(* Scanning and drawing *)

BeginScan ==
    /\ pc = "start" /\ pc' = "scan"
    /\ StartScan
    /\ UNCHANGED <<session, screenVars, autoRefresh, keyVars>>

\* How many of the usable caches pass the filters and deserve a recommendation
\* depends on sizes, ages and growth that are left out here.  With --json and
\* without a terminal the report ends the command.
Digest ==
    /\ pc = "scan" /\ stage = "done"
    /\ \E n \in 0..Cardinality({i \in 1..Len(results) : results[i].found /\ ~results[i].skipped}) :
          recommendations' = Least(n, MaxRecommendations)
    /\ height' \in Heights
    /\ pc' = IF session.screen THEN "draw" ELSE "left"
    /\ UNCHANGED <<scanVars, session, selectedRecommendation, viewportOffset, maxOffset,
                   autoRefresh, keyVars>>

ContentSize(selected) == height[selected]

MutDrawEmpty ==
    /\ pc = "draw" /\ pc' = "wait"
    /\ selectedRecommendation' = Least(selectedRecommendation, recommendations - 1)
    /\ maxOffset' = 0 /\ viewportOffset' = 0
    /\ UNCHANGED <<scanVars, session, recommendations, height, autoRefresh, keyVars>>
MutDraw ==
    /\ pc = "draw" /\ pc' = "wait"
    /\ selectedRecommendation' =
          IF recommendations = 0 THEN 0 ELSE Least(selectedRecommendation, recommendations - 1)
    /\ maxOffset' = LET lines == ContentSize(selectedRecommendation')
                    IN  IF lines > ViewportHeight THEN lines - ViewportHeight ELSE 0
    /\ UNCHANGED <<scanVars, session, recommendations, height, viewportOffset, autoRefresh, keyVars>>
\* The top of the loop: a shorter list or a shorter content moves the selection
\* and the viewport back.
Draw ==
    /\ pc = "draw" /\ pc' = "wait"
    /\ selectedRecommendation' =
          IF recommendations = 0 THEN 0 ELSE Least(selectedRecommendation, recommendations - 1)
    /\ maxOffset' = LET lines == ContentSize(selectedRecommendation')
                    IN  IF lines > ViewportHeight THEN lines - ViewportHeight ELSE 0
    /\ viewportOffset' = Least(viewportOffset, maxOffset')
    /\ UNCHANGED <<scanVars, session, recommendations, height, autoRefresh, keyVars>>

-----------------------------------------------------------------------------
(* readKey *)

\* The time is up, a signal ends select, or standard input is at its end: then
\* read() returns 0 at once.
MutNoKey ==
    /\ pc = "wait" /\ input = <<>>
    /\ pc' = "draw"
    /\ UNCHANGED <<scanVars, session, screenVars, autoRefresh, keyVars>>
NoKey ==
    /\ pc = "wait" /\ input = <<>>
    /\ pc' = IF autoRefresh THEN "start" ELSE "draw"
    /\ UNCHANGED <<scanVars, session, screenVars, autoRefresh, keyVars>>

\* Letters in either case; the space bar is "a".
Letter(char) ==
    CASE char = "q" -> "quit" [] char = "r" -> "refresh" [] char = "a" -> "toggleAuto"
      [] char = "n" -> "nextRecommendation" [] char = "p" -> "prevRecommendation"
      [] char = "k" -> "up" [] char = "j" -> "down" [] char = "A" -> "toggleAuto"
      [] char = "Q" -> "quit" [] OTHER -> "none"
Final(char) ==
    CASE char = "A" -> "up" [] char = "B" -> "down" [] char = "H" -> "home"
      [] char = "F" -> "end" [] OTHER -> "none"

Take ==
    /\ input # <<>>
    /\ input' = Tail(input) /\ sequence' = Append(sequence, Head(input))
Decoded(k) == pc' = "act" /\ key' = k

ReadFirst ==
    /\ pc = "wait" /\ Take
    /\ IF Head(input).char = "escape" THEN pc' = "escape" /\ key' = key
       ELSE Decoded(Letter(Head(input).char))
    /\ UNCHANGED <<scanVars, session, screenVars, autoRefresh, wire>>

\* VMIN is 0: a byte that has not arrived yet is not waited for.
ReadNothing ==
    /\ pc \in {"escape", "bracket", "page"} /\ input = <<>>
    /\ Decoded("none")
    /\ UNCHANGED <<scanVars, session, screenVars, autoRefresh, wire, input, sequence>>

ReadBracket ==
    /\ pc = "escape" /\ Take
    /\ IF Head(input).char = "[" THEN pc' = "bracket" /\ key' = key ELSE Decoded("none")
    /\ UNCHANGED <<scanVars, session, screenVars, autoRefresh, wire>>

MutReadFinal ==
    /\ pc = "bracket" /\ Take
    /\ IF Head(input).char \in {"3", "5", "6"} THEN pc' = "page" /\ key' = key
       ELSE Decoded(Final(Head(input).char))
    /\ UNCHANGED <<scanVars, session, screenVars, autoRefresh, wire>>
ReadFinal ==
    /\ pc = "bracket" /\ Take
    /\ IF Head(input).char \in {"5", "6"} THEN pc' = "page" /\ key' = key
       ELSE Decoded(Final(Head(input).char))
    /\ UNCHANGED <<scanVars, session, screenVars, autoRefresh, wire>>

ReadTilde ==
    /\ pc = "page" /\ Take
    /\ Decoded(IF Head(input).char # "~" THEN "none"
               ELSE IF sequence[Len(sequence)].char = "5" THEN "pageUp" ELSE "pageDown")
    /\ UNCHANGED <<scanVars, session, screenVars, autoRefresh, wire>>

-----------------------------------------------------------------------------
(* Acting on a key *)

Act(next) ==
    /\ pc = "act" /\ pc' = next
    /\ key' = "none" /\ sequence' = <<>>
    /\ UNCHANGED <<scanVars, session, recommendations, height, maxOffset, wire, input>>

MutQuit == key = "quit" /\ Act("draw") /\ UNCHANGED <<selectedRecommendation, viewportOffset, autoRefresh>>
Quit == key = "quit" /\ Act("left") /\ UNCHANGED <<selectedRecommendation, viewportOffset, autoRefresh>>

Refresh == key = "refresh" /\ Act("start") /\ UNCHANGED <<selectedRecommendation, viewportOffset, autoRefresh>>

ToggleAuto ==
    /\ key = "toggleAuto" /\ Act("draw") /\ autoRefresh' = ~autoRefresh
    /\ UNCHANGED <<selectedRecommendation, viewportOffset>>

Scroll ==
    /\ Act("draw") /\ UNCHANGED <<selectedRecommendation, autoRefresh>>
    /\ \/ key = "up" /\ viewportOffset' = IF viewportOffset > 0 THEN viewportOffset - 1 ELSE 0
       \/ key = "down" /\ viewportOffset' = Least(maxOffset, viewportOffset + 1)
       \/ key = "home" /\ viewportOffset' = 0
       \/ key = "end" /\ viewportOffset' = maxOffset
       \/ key = "pageUp" /\ viewportOffset' =
             IF viewportOffset > ViewportHeight THEN viewportOffset - ViewportHeight ELSE 0
       \/ key = "pageDown" /\ viewportOffset' = Least(maxOffset, viewportOffset + ViewportHeight)

Select ==
    /\ Act("draw") /\ UNCHANGED <<viewportOffset, autoRefresh>>
    /\ \/ /\ key = "nextRecommendation"
          /\ selectedRecommendation' = IF selectedRecommendation + 1 < recommendations
                                       THEN selectedRecommendation + 1 ELSE selectedRecommendation
       \/ /\ key = "prevRecommendation"
          /\ selectedRecommendation' = IF selectedRecommendation > 0
                                       THEN selectedRecommendation - 1 ELSE 0

Disregard == key = "none" /\ Act("draw") /\ UNCHANGED <<selectedRecommendation, viewportOffset, autoRefresh>>

-----------------------------------------------------------------------------
(* The user and the terminal *)

Press ==
    /\ pc # "left" /\ session.screen /\ wire = <<>> /\ Len(input) < MaxInput
    /\ \E k \in session.keys : wire' = Sent(k)
    /\ UNCHANGED <<scanVars, session, pc, screenVars, autoRefresh, input, sequence, key>>

\* One or more bytes arrive; all of them with a careful user.
Arrive ==
    /\ wire # <<>>
    /\ \E n \in 1..Len(wire) :
          /\ session.careful => n = Len(wire)
          /\ input' = input \o SubSeq(wire, 1, n)
          /\ wire' = SubSeq(wire, n + 1, Len(wire))
    /\ UNCHANGED <<scanVars, session, pc, screenVars, autoRefresh, sequence, key>>

Loop ==
    \/ BeginScan \/ Digest \/ Draw \/ NoKey
    \/ ReadFirst \/ ReadNothing \/ ReadBracket \/ ReadFinal \/ ReadTilde
    \/ Quit \/ Refresh \/ ToggleAuto \/ Scroll \/ Select \/ Disregard

Over == pc = "left" \/ stage = "crashed"
Done == Over /\ UNCHANGED vars

Next ==
    \/ ~Over /\ Loop
    \/ (ScanStep \/ World) /\ pc # "left" /\ UNCHANGED loopVars
    \/ ~Over /\ (Press \/ Arrive)
    \/ Done

Spec == Init /\ [][Next]_vars

\* The process goes on, and what was sent arrives; nobody has to press a key.
Work == ~Over /\ (Loop \/ (Advance /\ UNCHANGED loopVars))
FairSpec == Spec /\ WF_vars(Work) /\ WF_vars(~Over /\ Arrive)

-----------------------------------------------------------------------------
(* Properties *)

\* The loop of execute: when the screen is drawn, the selection is one of the
\* recommendations and no line is left blank that content could fill, however
\* the rescans changed both.
InRange ==
    pc = "wait" =>
        /\ selectedRecommendation < recommendations \/ selectedRecommendation = 0
        /\ viewportOffset = 0 \/ viewportOffset + ViewportHeight <= ContentSize(selectedRecommendation)

\* What readKey makes of a key.  Enter is left open: docs/cli.md lets it refresh,
\* the code ignores it.
Decoding ==
    [q |-> "quit", r |-> "refresh", a |-> "toggleAuto", n |-> "nextRecommendation",
     p |-> "prevRecommendation", k |-> "up", j |-> "down", Up |-> "up", Down |-> "down",
     Home |-> "home", End |-> "end", PageUp |-> "pageUp", PageDown |-> "pageDown",
     Delete |-> "none"]

\* readKey: the bytes of two keys are never taken for one, and a key that arrives
\* whole is decoded as what was pressed, once.  One whose bytes arrive apart may
\* be given up, and then what is left of it does nothing: except that the "A" of
\* a torn arrow key is taken for the letter.
Obeys ==
    session.keys \subseteq Plain /\ pc = "act" =>
        LET first == sequence[1] IN
        /\ \A i \in 1..Len(sequence) : sequence[i].key = first.key /\ sequence[i].at = first.at + i - 1
        /\ first.at = 1 /\ first.key # "Enter" =>
              \/ key = Decoding[first.key]
              \/ ~session.careful /\ key = "none" /\ Len(sequence) < Len(Bytes[first.key])
        /\ first.at > 1 =>
              \/ key = "none"
              \/ ~session.careful /\ first.key = "Up" /\ key = "toggleAuto"

\* docs/cli.md: `q` exits, though it may have been typed during a scan.
QuitLeaves ==
    (session.careful /\ \E i \in 1..Len(input) : input[i].key = "q") ~> Over

\* The loop of execute: with auto-refresh on and no input, scan follows scan and
\* each of them comes to its end.
AutoRefreshes ==
    <>[](autoRefresh /\ ~Over /\ input = <<>>) => []<>(pc = "scan") /\ []<>(pc = "wait")
=============================================================================
