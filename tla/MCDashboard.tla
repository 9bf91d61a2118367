----------------------------- MODULE MCDashboard -----------------------------
(***************************************************************************)
(* Instances of Dashboard for TLC.  The reports (--json, or no terminal)   *)
(* have a rich catalogue: plugins that clash, fail or are unsafe, filters, *)
(* ignored caches, and directories that change while they are measured.    *)
(* The live sessions have two empty caches, so that the states are those   *)
(* of keys, screen and interrupts.                                         *)
(***************************************************************************)
EXTENDS Dashboard, MCPaths

CONSTANTS pip, npm, conan, mine, x, y, z, w

\* Three places for a cache, and one that a link makes a system directory.
Places == {x, y, z, w}
At(p) == FS!Absolute(CASE p = x -> <<"data", "me", "pip">> [] p = y -> <<"vault", "in">>
                       [] p = z -> <<"nope">> [] p = w -> <<"home", "me", "up", "">>)
ASSUME AcceptableIsReal ==
    Acceptable = {p \in Places : FS!IsValidPluginPath(FS!LexicallyNormal(At(p)))}

Names == {pip, npm, conan, mine}
Parts == [n \in Names |-> IF n = pip THEN {pip, npm} ELSE {n}]
Row(name, aliases, variables, path, more) ==
    [name |-> name, aliases |-> aliases, variables |-> variables, path |-> path,
     more |-> more, enabled |-> TRUE]
Table == <<Row(pip, {pip, conan}, <<>>, x, <<>>), Row(npm, {npm}, <<"UNSET">>, y, <<>>)>>
Env == [v \in {"UNSET", "SET"} |-> IF v = "SET" THEN z ELSE Nowhere]

File(size) == [kind |-> "file", size |-> size]
Nothing == [kind |-> "absent", size |-> 0]
Link == [kind |-> "broken link", size |-> 4]
Tree == [p \in Places |-> IF p = x THEN {1, 2} ELSE IF p = y THEN {3} ELSE {}]
Kinds == {Nothing, File(2), Link}
Disk == [e \in 1..3 |-> IF e = 2 THEN Link ELSE File(1)]
Empty == [e \in 1..3 |-> Nothing]

Plugin(text, cache) == [text |-> text, cache |-> cache]
Good == Plugin("definition", Row(mine, {pip}, <<"UNSET", "SET">>, x, <<>>))
Same == Plugin("definition", Row(mine, {}, <<>>, y, <<x>>))
Alias == Plugin("definition", Row(conan, {}, <<>>, z, <<>>))
Unsafe == Plugin("definition", Row(npm, {}, <<>>, y, <<w>>))
Broken == Plugin("malformed", Row(pip, {}, <<>>, Nowhere, <<>>))
Readme == Plugin("other", Row(pip, {}, <<>>, Nowhere, <<>>))
Custom == Row(mine, {npm}, <<>>, Nowhere, <<z>>)

Reports ==
    [filters : {{}, {pip}, {npm, mine}}, ignored : {{npm}}, custom : {<<>>, <<Custom>>},
     files : {{Good, Same, Broken}, {Alias, Unsafe, Readme}}, listable : BOOLEAN, disk : {Disk},
     present : {{x, z}}, changes : {0}]
    \cup [filters : {{}}, ignored : {{}}, custom : {<<>>}, files : {{}}, listable : {TRUE},
          disk : {Disk}, present : {{x, y}}, changes : {2}]
Live == [filters |-> {}, ignored |-> {}, custom |-> <<>>, files |-> {}, listable |-> TRUE,
         disk |-> Empty, present |-> {x, y}, changes |-> 0]
AllSetups == Reports \cup {Live}
AllSessions ==
    [setup : Reports, screen : {FALSE}, careful : {TRUE}, keys : {{}}]
    \cup [setup : {Live}, screen : {TRUE}, careful : {TRUE},
          keys : {{"q", "r", "a", "n", "PageDown", "Delete"}}]
    \cup [setup : {Live}, screen : {TRUE}, careful : {FALSE}, keys : {{"r", "p", "Up", "F2"}}]
    \cup [setup : {Live}, screen : {TRUE}, careful : {FALSE}, keys : {{"Up", "PageDown"}}]
Contours == {<<2, 5>>, <<4, 2>>}
Lines == {[i \in 0..1 |-> c[i + 1]] : c \in Contours}
=============================================================================
