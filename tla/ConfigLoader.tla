---------------------------- MODULE ConfigLoader ----------------------------
(***************************************************************************)
(* core/Config: load() parses config.json, converts an older format and    *)
(* then writes the result back over the file by truncating it.  Every      *)
(* command loads; several processes and the user's editor share the file.  *)
(*                                                                         *)
(* A field of the file is missing, of the wrong type ("bad") or a value.   *)
(* disabledCaches and ignoredCaches are read alike and are one field here, *)
(* as are the three defaults; an empty string is the value "empty".        *)
(***************************************************************************)
EXTENDS Naturals, Lists

CONSTANTS
    Proc,
    Root,      \* the texts a user may write
    MaxEdits   \* bound on the user's edits

Names == {"none", "one", "two"}             \* lists of cache names
Text == {"missing", "bad", "empty"}
ListField == {"missing", "bad"} \cup Names
Scalar == Text \cup {"name", "size"}        \* "name" is the default
Version == Text \cup {"1.0.0", "1.0.1"}
Schema == {"missing", "bad", "old", "current"}
Custom == {"safe", "other", "unsafe", "bad"}  \* custom caches, some with a wrong type

RootType == [version : Version, schema : Schema, ignored : ListField, legacyIgnored : ListField,
             sort : Scalar, legacySort : Scalar, custom : Seq(Custom)]

ASSUME ConfigAssumption ==
    Root \subseteq RootType /\ MaxEdits \in Nat

AppConfig == [ignored : Names, sort : {"empty", "name", "size"},
              version : {"empty", "1.0.0", "1.0.1"}, custom : Seq({"safe", "other"})]

VARIABLES
    file,    \* config.json: its state, its root, who wrote it last
    pc,      \* pc[p]
    config,  \* config[p]: what load() returns
    source,  \* source[p]: the root that load() has read
    edits,
    calm     \* of the surroundings: nobody dies, no write fails, no edit during a run

vars == <<file, pc, config, source, edits, calm>>

-----------------------------------------------------------------------------
(* The conversion *)

Default == [ignored |-> "none", sort |-> "name", version |-> "1.0.1", custom |-> <<>>]

\* The old name of a field, where the new one is missing.
MigrateLegacyConfig(r) ==
    [r EXCEPT !.ignored = IF @ = "missing" /\ r.legacyIgnored # "bad" THEN r.legacyIgnored ELSE @,
              !.sort = IF @ = "missing" THEN r.legacySort ELSE @,
              !.schema = IF @ = "missing" THEN "current" ELSE @,
              !.version = IF @ = "missing" THEN "1.0.0" ELSE @]

\* version and schemaVersion are read first: with a wrong type nothing else is.
Unreadable(r) == r.version = "bad" \/ r.schema = "bad"
Migrated(r) == ~Unreadable(r) /\ (r.version = "missing" \/ r.schema \in {"missing", "old"})

ReadStringArray(field) == IF field \in {"missing", "bad"} THEN "none" ELSE field

\* A wrong type throws: in a default under either name, in a custom cache.
DefaultsThrow(r) == r.sort = "bad" \/ r.legacySort = "bad"
BadAt(list) == {k \in 1..Len(list) : list[k] = "bad"}
Throws(r) == Unreadable(r) \/ DefaultsThrow(r) \/ BadAt(r.custom) # {}

\* The custom caches before the first that throws, without the unsafe ones.
CustomCaches(list) ==
    LET before == {k \in 1..Len(list) : \A j \in BadAt(list) : k < j}
    IN  Filtered([k \in before |-> list[k]], Custom \ {"unsafe"})

ValidateConfig(c) ==
    [c EXCEPT !.sort = IF @ = "empty" THEN "name" ELSE @,
              !.version = IF @ = "empty" THEN "1.0.0" ELSE @]

\* What load() makes of a root, up to where it throws.
Parsed(r) ==
    LET m == MigrateLegacyConfig(r)
        lists == [Default EXCEPT !.ignored = ReadStringArray(m.ignored)]
        full == [lists EXCEPT !.sort = IF m.sort = "missing" THEN "name" ELSE m.sort,
                              !.version = m.version, !.custom = CustomCaches(m.custom)]
    IN  CASE Unreadable(r) -> Default
          [] ~Unreadable(r) /\ DefaultsThrow(r) -> lists
          [] OTHER -> IF Throws(r) THEN full ELSE ValidateConfig(full)

\* What save() writes of it.
MutSaved(c) ==
    [version |-> c.version, schema |-> "missing", ignored |-> c.ignored, legacyIgnored |-> "missing",
     sort |-> c.sort, legacySort |-> "missing", custom |-> c.custom]
MutForgets(c) ==
    [version |-> c.version, schema |-> "current", ignored |-> c.ignored, legacyIgnored |-> "missing",
     sort |-> "missing", legacySort |-> "missing", custom |-> c.custom]
Saved(c) ==
    [version |-> c.version, schema |-> "current", ignored |-> c.ignored, legacyIgnored |-> "missing",
     sort |-> c.sort, legacySort |-> "missing", custom |-> c.custom]

Blank == Saved(Default)

-----------------------------------------------------------------------------
(* The file *)

NoFile(state) == [state |-> state, root |-> Blank, by |-> "devclean"]
Running(p) == pc[p] # "idle"

Init ==
    /\ file \in {NoFile("absent")} \cup {[state |-> "whole", root |-> r, by |-> "user"] : r \in Root}
    /\ pc = [p \in Proc |-> "idle"]
    /\ config = [p \in Proc |-> Default]
    /\ source = [p \in Proc |-> Blank]
    /\ edits = 0
    /\ calm \in BOOLEAN

\* load() reads the file.  One that does not parse yields the defaults and a
\* warning; so does one that another process has just truncated.
Load(p) ==
    /\ pc[p] = "idle"
    /\ LET r == file.root IN
       IF file.state = "whole"
         THEN /\ config' = [config EXCEPT ![p] = Parsed(r)]
              /\ source' = [source EXCEPT ![p] = r]
              /\ pc' = [pc EXCEPT ![p] = IF Migrated(r) THEN "saving" ELSE "loaded"]
         ELSE /\ config' = [config EXCEPT ![p] = Default]
              /\ source' = [source EXCEPT ![p] = Blank]
              /\ pc' = [pc EXCEPT ![p] = "loaded"]
    /\ UNCHANGED <<file, edits, calm>>

\* save() truncates the file, unless it cannot be opened.
OpenTruncate(p) ==
    /\ pc[p] = "saving"
    /\ \/ pc' = [pc EXCEPT ![p] = "writing"] /\ file' = NoFile("empty")
       \/ ~calm /\ pc' = [pc EXCEPT ![p] = "loaded"] /\ UNCHANGED file
    /\ UNCHANGED <<config, source, edits, calm>>

\* A full disk leaves a prefix that does not parse.
Write(p) ==
    /\ pc[p] = "writing"
    /\ \/ file' = [state |-> "whole", root |-> Saved(config[p]), by |-> "devclean"]
       \/ ~calm /\ file' = NoFile("garbage")
    /\ pc' = [pc EXCEPT ![p] = "loaded"]
    /\ UNCHANGED <<config, source, edits, calm>>

\* The command runs with what load() returned, and ends.
Exit(p) ==
    /\ pc[p] = "loaded"
    /\ pc' = [pc EXCEPT ![p] = "idle"]
    /\ UNCHANGED <<file, config, source, edits, calm>>

Die(p) ==
    /\ ~calm /\ Running(p)
    /\ pc' = [pc EXCEPT ![p] = "idle"]
    /\ UNCHANGED <<file, config, source, edits, calm>>

Edit(r) ==
    /\ edits < MaxEdits
    /\ calm => \A p \in Proc : ~Running(p)
    /\ file' = [state |-> "whole", root |-> r, by |-> "user"]
    /\ edits' = edits + 1
    /\ UNCHANGED <<pc, config, source, calm>>

UserEdits == \E r \in Root : Edit(r)
Next ==
    \/ UserEdits
    \/ \E p \in Proc : Load(p) \/ OpenTruncate(p) \/ Write(p) \/ Exit(p) \/ Die(p)

Spec == Init /\ [][Next]_vars

-----------------------------------------------------------------------------
(* Properties *)

TypeOK ==
    /\ file \in [state : {"absent", "empty", "garbage", "whole"}, root : RootType, by : {"user", "devclean"}]
    /\ pc \in [Proc -> {"idle", "saving", "writing", "loaded"}]
    /\ config \in [Proc -> AppConfig]
    /\ source \in [Proc -> RootType]
    /\ edits \in 0..MaxEdits /\ calm \in BOOLEAN

\* What devclean has saved is in the current format, parses without a warning
\* and reads back as the settings it was saved from: a file is converted once.
SavedLoadsCleanly ==
    file.state = "whole" /\ file.by = "devclean" =>
        /\ ~Migrated(file.root) /\ ~Throws(file.root)
        /\ \E c \in {config[p] : p \in Proc} : Parsed(file.root) = ValidateConfig(c)

\* Both, whatever order the runs load, truncate, write and die in.
ConfigInv == TypeOK /\ SavedLoadsCleanly

\* What the file means to the next run: the settings it would load, once the
\* run that has truncated the file has written it.
Meaning(c) == <<c.ignored, ValidateConfig(c).sort, c.custom>>
Writing == {p \in Proc : pc[p] = "writing"}
Settings ==
    IF Writing # {} THEN Meaning(config[CHOOSE p \in Writing : TRUE])
    ELSE Meaning(IF file.state = "whole" THEN Parsed(file.root) ELSE Default)

\* While the surroundings are calm, whoever converts the file and what is in it
\* have one meaning.
CalmInv ==
    calm =>
        /\ file.state # "garbage"
        /\ file.state = "empty" => Writing # {}
        /\ file.state = "whole" => Meaning(Parsed(file.root)) = Settings
        /\ \A p \in Proc : pc[p] \in {"saving", "writing"} => Meaning(config[p]) = Settings

\* However many runs convert the same file at once, in the old format or the
\* new, well formed or not, only the user changes what it means, as long as the
\* surroundings are calm.
OnlyTheUserChangesIt == [][calm => UserEdits \/ UNCHANGED Settings]_vars

-----------------------------------------------------------------------------
(* What the documents say and the code does not do *)

\* docs/architecture/configuration.md:7: the loader converts known fields
\* before it saves: what is saved has every value that the file it was read
\* from has under its current name.
SavesOnlyConverted ==
    \A p \in Writing :
        /\ source[p].sort \in {"name", "size"} => config[p].sort = source[p].sort
        /\ \A k \in 1..Len(source[p].custom) : source[p].custom[k] \in {"safe", "other"} =>
              \E l \in 1..Len(config[p].custom) : config[p].custom[l] = source[p].custom[k]
=============================================================================
