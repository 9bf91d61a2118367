------------------------------ MODULE MCPaths ------------------------------
(***************************************************************************)
(* A small file system for Paths: the home directories are reached by a    *)
(* link, as /lib is, a link in HOME leads to /usr, one in /usr to nothing, *)
(* and /vault may not be searched.  Every path of up to three parts is     *)
(* checked.                                                                *)
(***************************************************************************)
EXTENDS Sequences, Naturals

Folders == {<<>>, <<"usr">>, <<"usr", "lib">>, <<"data">>, <<"data", "me">>,
            <<"data", "me", "pip">>, <<"vault">>, <<"vault", "in">>}
Shortcuts ==
    [l \in {<<"home">>, <<"lib">>, <<"data", "me", "up">>, <<"usr", "up">>, <<"vault", "up">>} |->
            CASE l = <<"home">> -> <<"data">>
              [] l = <<"lib">> -> <<"usr", "lib">>
              [] l = <<"usr", "up">> -> <<"gone">>
              [] OTHER -> <<"usr">>]

FS == INSTANCE Paths WITH
        Directory <- Folders, Symlink <- Shortcuts, Sealed <- {<<"vault">>},
        Cwd <- <<"data", "me">>,
        Home <- {[absolute |-> TRUE, parts |-> <<"home", "me">>]}

Written(n) == UNION {[1..k -> {"home", "me", "up", "lib", "vault", "..", "."}] : k \in 0..n}
Spelled == Written(3) \cup {Append(s, "") : s \in Written(2) \ {<<>>}}
Samples == [absolute : BOOLEAN, parts : Spelled]
Open == {p \in Samples : ~FS!Refused(p)}

ASSUME FS!FileSystem

-----------------------------------------------------------------------------
(* What is checked of every sample *)

\* The reference: what may not be deleted, as directories.  The list of names
\* is compared with canonical paths, so here, where /home and /lib are links,
\* the directories that they lead to are not on it.
Untouchable == {<<>>, <<"usr">>, <<"data", "me">>}

\* A path to something that exists is protected exactly when it denotes one of
\* these, by whatever links, dots and slashes it is written.
ASSUME ProtectsWhatItDenotes ==
    \A p \in Open : FS!Denotes(p) # {} =>
        (FS!IsProtectedPath(p) <=> FS!Denotes(p) \subseteq Untouchable)

\* What a plugin or a custom cache may name is absolute, denotes none of these
\* and has no ".." left.  Validation comes after the path was normalised.
ASSUME AcceptsNothingUntouchable ==
    \A p \in Open :
        LET q == FS!LexicallyNormal(p)
        IN  FS!IsValidPluginPath(q) \/ (FS!IsSafeCustomPath(q) /\ q # FS!Empty) =>
                /\ q.absolute /\ FS!Denotes(q) \cap Untouchable = {}
                /\ \A i \in 1..Len(q.parts) : q.parts[i] \notin {".", ".."}

\* Normalising again changes nothing, and an absolute path keeps no dots.
ASSUME NormalFormIsStable ==
    \A p \in Samples :
        LET q == FS!LexicallyNormal(p)
        IN  /\ FS!LexicallyNormal(q) = q
            /\ p.absolute => \A i \in 1..Len(q.parts) : q.parts[i] \notin {".", ".."}

\* The canonical path denotes what the path denotes, and is its own.
ASSUME CanonicalDenotesTheSame ==
    \A p \in Open : FS!Denotes(p) # {} =>
        LET q == FS!WeaklyCanonical(p)
        IN  q.absolute /\ FS!Denotes(q) = {q.parts} /\ FS!Denotes(q) = FS!Denotes(p)

\* What is inside what, by canonical paths, is what lies below it; and what is
\* safe is there, and may be touched.
ASSUME InsideIsBelow ==
    \A child, parent \in {p \in Open : Len(p.parts) <= 2 /\ FS!Denotes(p) # {}} :
        FS!IsPathInside(child, parent) <=>
            \A c \in FS!Denotes(child), d \in FS!Denotes(parent) :
                Len(d) <= Len(c) /\ SubSeq(c, 1, Len(d)) = d
ASSUME SafeMayBeTouched ==
    \A p \in Open : FS!IsSafePath(p) =>
        FS!Denotes(p) # {} /\ FS!Denotes(p) \cap Untouchable = {}
=============================================================================
