------------------------------- MODULE Paths -------------------------------
(***************************************************************************)
(* platform/Filesystem and the validation of configured paths: which paths *)
(* devclean refuses.  A path is a sequence of parts, absolute or not; "",  *)
(* which only comes last, is what a trailing slash leaves.  Following a    *)
(* path in the file system gives the set of the directories it denotes:    *)
(* one, or none.  There are no cycles of links, and a link is resolved to  *)
(* the directory at its end.                                               *)
(***************************************************************************)
EXTENDS Naturals, SequencesExt

CONSTANTS
    Directory,  \* the directories that exist, each the sequence of names from the root
    Symlink,    \* the links, each with the directory at its end
    Sealed,     \* directories the process may not search
    Cwd,        \* the working directory
    Home        \* the path in HOME, if the variable is set: a set of at most one

IsName(part) == part \notin {"", ".", ".."}

\* What the kernel guarantees of them: directories are within directories, and a
\* name is a link, which may dangle, or a directory.  The working directory may be
\* deleted under a process; that is left out.
FileSystem ==
    /\ Directory \subseteq Seq(STRING) /\ <<>> \in Directory
    /\ \A d \in Directory : \A i \in 1..Len(d) : IsName(d[i])
    /\ \A d \in Directory : \A n \in 0..Len(d) : SubSeq(d, 1, n) \in Directory
    /\ \A l \in DOMAIN Symlink : l \notin Directory
    /\ Cwd \in Directory

Absolute(parts) == [absolute |-> TRUE, parts |-> parts]
Relative(parts) == [absolute |-> FALSE, parts |-> parts]
Empty == Relative(<<>>)

-----------------------------------------------------------------------------
(* What the file system does *)

\* One part of a path, followed from a directory; ".." is the parent of the
\* directory itself, whatever link led there.
Follow(dir, part) ==
    CASE part \in {"", "."} -> {dir}
      [] part = ".." -> {IF dir = <<>> THEN <<>> ELSE Front(dir)}
      [] OTHER ->
            LET entry == Append(dir, part)
            IN  {IF entry \in DOMAIN Symlink THEN Symlink[entry] ELSE entry} \cap Directory

Start(p) == IF p.absolute THEN <<>> ELSE Cwd

\* The directory that the first n parts of p lead to.
Reached(p, n) ==
    LET reached[k \in 0..Len(p.parts)] ==
            IF k = 0 THEN {Start(p)} ELSE UNION {Follow(d, p.parts[k]) : d \in reached[k - 1]}
    IN  reached[n]
Denotes(p) == IF p = Empty THEN {} ELSE Reached(p, Len(p.parts))

\* Some part has to be looked up in a directory that may not be searched.
Refused(p) ==
    \E n \in 1..Len(p.parts) : p.parts[n] # "" /\ Reached(p, n - 1) \cap Sealed # {}

-----------------------------------------------------------------------------
(* The standard library *)

\* lexically_normal: "." goes, ".." takes the name before it along, and at the
\* root it goes too.  What loses its last name keeps a trailing slash.
Shortened(done, part, absolute) ==
    CASE part \in {"", "."} -> done
      [] part = ".." /\ done = <<>> /\ absolute -> done
      [] part = ".." /\ done # <<>> /\ Last(done) # ".." -> Front(done)
      [] OTHER -> Append(done, part)
LexicallyNormal(p) ==
    LET done[k \in 0..Len(p.parts)] ==
            IF k = 0 THEN <<>> ELSE Shortened(done[k - 1], p.parts[k], p.absolute)
        names == done[Len(p.parts)]
        slash == /\ names # <<>> /\ Last(names) # ".."
                 /\ Last(p.parts) \in {"", ".", ".."}
        parts == CASE slash -> Append(names, "")
                   [] names = <<>> /\ ~p.absolute /\ p # Empty -> <<".">>
                   [] OTHER -> names
    IN  [p EXCEPT !.parts = parts]

\* The leading parts that exist are resolved, the others appended as they are.
\* A relative path of which nothing exists stays relative.
WeaklyCanonical(p) ==
    LET n == Max({k \in 0..Len(p.parts) : Reached(p, k) # {}})
        dir == CHOOSE d \in Reached(p, n) : TRUE
        rest == SubSeq(p.parts, n + 1, Len(p.parts))
    IN  IF Refused(p) \/ (n = 0 /\ ~p.absolute)
          THEN LexicallyNormal(p)
          ELSE LexicallyNormal(Absolute(dir \o rest))

-----------------------------------------------------------------------------
(* What devclean decides *)

SystemDirectories ==
    {Absolute(<<name>>) : name \in
        {"bin", "boot", "dev", "etc", "home", "lib", "lib64", "opt", "proc", "root",
         "sbin", "srv", "sys", "usr", "var"}}

\* Below HOME only HOME itself is protected.
IsProtectedPath(p) ==
    LET path == WeaklyCanonical(p)
    IN  \/ Empty \in {p, path}
        \/ path \in SystemDirectories \cup {Absolute(<<>>)}
        \/ \E home \in Home : WeaklyCanonical(home) # Empty /\ path = WeaklyCanonical(home)

\* A plugin's path, and each of its cache paths, when it is validated.
IsValidPluginPath(p) ==
    /\ p # Empty /\ p.absolute
    /\ ~IsProtectedPath(p)
    /\ \A n \in 1..Len(p.parts) : p.parts[n] # ".."

\* The same of a custom cache in the configuration, where a path may be empty.
IsSafeCustomPath(p) == p = Empty \/ IsValidPluginPath(p)

\* engine/PathSafety, which no command calls.  A link is looked at itself, unless
\* a slash follows it; what is missing or refused is not safe.
IsSymlink(p) ==
    p.parts # <<>> /\ \E dir \in Reached(p, Len(p.parts) - 1) :
        Append(dir, Last(p.parts)) \in DOMAIN Symlink
IsSafePath(p) == ~Refused(p) /\ Denotes(p) # {} /\ ~IsProtectedPath(p) /\ ~IsSymlink(p)

\* The parts of both canonical paths in turn; the root is a part, too.
Elements(p) == IF p.absolute THEN <<"/">> \o p.parts ELSE p.parts
IsPathInside(child, parent) ==
    /\ ~Refused(child) /\ ~Refused(parent)
    /\ IsPrefix(Elements(WeaklyCanonical(parent)), Elements(WeaklyCanonical(child)))
=============================================================================
