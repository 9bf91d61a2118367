--------------------------- MODULE ArgumentParser ---------------------------
(***************************************************************************)
(* core/ArgumentParser and core/CommandDispatcher: what a command line     *)
(* asks for.  A token is what the parser tells apart of it; texts are      *)
(* lower case and trimmed, as the parser makes them.                       *)
(***************************************************************************)
EXTENDS Integers, Sequences, SequencesExt

CONSTANTS
    Kilo,    \* the bytes of a kilobyte
    UintMax  \* the largest number of 64 bits

ASSUME ParserAssumption == Kilo \in Nat \ {0} /\ UintMax \in Nat

-----------------------------------------------------------------------------
(* Numbers *)

\* The text of a number: its leading digits as a number (-1 if it has none)
\* and what follows them.
NumberText == [digits : Nat \cup {-1}, suffix : STRING]

Hour == 60 * 60
Day == 24 * Hour

\* The multiplier of a suffix, or 0 for a suffix that is not known.
SizeUnit(suffix) ==
    CASE suffix \in {"", "b"} -> 1
      [] suffix = "kb" -> Kilo
      [] suffix = "mb" -> Kilo * Kilo
      [] suffix = "gb" -> Kilo * Kilo * Kilo
      [] suffix = "tb" -> Kilo * Kilo * Kilo * Kilo
      [] OTHER -> 0
DurationUnit(suffix) ==
    CASE suffix = "s" -> 1
      [] suffix = "m" -> 60
      [] suffix = "h" -> Hour
      [] suffix = "d" -> Day
      [] suffix = "w" -> 7 * Day
      [] OTHER -> 0

\* No digits, a suffix nobody knows, or a number that does not fit in 64 bits,
\* before or after the multiplication: all give 0.
Scaled(digits, multiplier) ==
    IF digits = -1 \/ multiplier = 0 \/ digits > UintMax \div multiplier
    THEN 0 ELSE digits * multiplier

ParseSize(text) == Scaled(text.digits, SizeUnit(text.suffix))
ParseDuration(text) == Scaled(text.digits, DurationUnit(text.suffix))

-----------------------------------------------------------------------------
(* Tokens *)

\* The options that take a value, and the flags.
Settings == {"min-size", "max-size", "target", "stale", "category", "exclude", "sort", "report"}
Flags == {"json", "verbose", "dry-run", "force", "safe", "active-only", "help", "version", "reverse"}

\* A token is an option by itself, an option with "=" and a value, or a word:
\* what does not begin with "--" and is neither -h nor -V.  An option of a name
\* that nobody knows is ignored.  A text is a name and a number at once.
Token == [kind : {"option", "inline", "word"}, option : STRING, name : STRING, number : NumberText]

IsOption(token) == token.kind # "word"
HasValue(argv, i) == i + 1 <= Len(argv) /\ ~IsOption(argv[i + 1])

ParsedArgs ==
    [command : STRING, targets : Seq(STRING), excludes : Seq(STRING), category : STRING,
     sort : STRING, report : STRING, minSize : Nat, maxSize : Nat, target : Nat, stale : Nat,
     flags : SUBSET Flags]
NoArgs ==
    [command |-> "", targets |-> <<>>, excludes |-> <<>>, category |-> "", sort |-> "name",
     report |-> "", minSize |-> 0, maxSize |-> 0, target |-> 0, stale |-> 0, flags |-> {}]

\* What an option does with its value: the last one counts, exclusions add up.
Set(args, option, value) ==
    CASE option = "min-size" -> [args EXCEPT !.minSize = ParseSize(value.number)]
      [] option = "max-size" -> [args EXCEPT !.maxSize = ParseSize(value.number)]
      [] option = "target" -> [args EXCEPT !.target = ParseSize(value.number)]
      [] option = "stale" -> [args EXCEPT !.stale = ParseDuration(value.number)]
      [] option = "category" -> [args EXCEPT !.category = value.name]
      [] option = "exclude" -> [args EXCEPT !.excludes = Append(@, value.name)]
      [] option = "sort" -> [args EXCEPT !.sort = value.name]
      [] option = "report" -> [args EXCEPT !.report = value.name]
      [] OTHER -> args

\* The first word that is not empty is the command, the others are targets.
Say(args, word) ==
    IF args.command = "" THEN [args EXCEPT !.command = word.name]
    ELSE [args EXCEPT !.targets = Append(@, word.name)]

\* The token that gives an option its value: itself, or the next one unless
\* that is an option too; without a value the option is ignored.
TakesNext(argv, i) ==
    /\ argv[i].option \in Settings
    /\ argv[i].kind = "option" \/ (argv[i].kind = "inline" /\ argv[i].name = "")
    /\ HasValue(argv, i)

\* One pass of the loop over argv; state.next is the next index it looks at.
Read(argv, state, i) ==
    LET token == argv[i]
    IN  IF i < state.next THEN state
        ELSE IF token.kind = "word" THEN [next |-> i + 1, args |-> Say(state.args, token)]
        ELSE IF token.kind = "option" /\ token.option \in Flags
             THEN [next |-> i + 1, args |-> [state.args EXCEPT !.flags = @ \cup {token.option}]]
        ELSE IF TakesNext(argv, i)
             THEN [next |-> i + 2, args |-> Set(state.args, token.option, argv[i + 1])]
        ELSE IF token.kind = "inline" /\ token.name # ""
             THEN [next |-> i + 1, args |-> Set(state.args, token.option, token)]
        ELSE [next |-> i + 1, args |-> state.args]

Parse(argv) ==
    FoldLeft(LAMBDA state, i : Read(argv, state, i), [next |-> 1, args |-> NoArgs],
             [i \in 1..Len(argv) |-> i]).args

-----------------------------------------------------------------------------
(* The dispatcher *)

Aliases == [s |-> "scan", a |-> "analyze", r |-> "recommend", c |-> "clean",
            d |-> "doctor", st |-> "stats", v |-> "version"]
CanonicalCommand(command) == IF command \in DOMAIN Aliases THEN Aliases[command] ELSE command

Commands == {"scan", "analyze", "recommend", "dashboard", "clean", "doctor", "stats", "version"}

\* The command that runs: --version comes before --help, and both before any
\* command.  What is not known is answered with a suggestion and status 1.
Dispatch(args) ==
    LET command == CanonicalCommand(args.command)
    IN  IF "version" \in args.flags THEN "version"
        ELSE IF command \in {"", "help"} \/ "help" \in args.flags THEN "help"
        ELSE IF command \in Commands THEN command
        ELSE "unknown"
=============================================================================
