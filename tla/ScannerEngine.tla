--------------------------- MODULE ScannerEngine ---------------------------
(***************************************************************************)
(* ScannerEngine::scan: which caches there are (the registry, the caches   *)
(* of the configuration, the plugins), and what each of them holds.  The   *)
(* loops take one pass per step, and a directory is measured one entry per *)
(* step, because other processes change it meanwhile.  Names are compared  *)
(* without regard to case: two spellings are one element of Name.          *)
(***************************************************************************)
EXTENDS Naturals, FiniteSets, FiniteSetsExt, Functions, Lists

CONSTANTS
    Name,       \* names, aliases and filters
    Within,     \* Within[n]: the names of which n is a part
    Path,       \* the paths of caches, normalised
    Nowhere,    \* the empty path
    Acceptable, \* the paths isValidPluginPath admits
    PluginName, \* the names isValidPluginName admits
    Variable,   \* environment variables
    Environment,\* Environment[v]: the path a variable gives, or Nowhere
    Builtin,    \* CacheRegistry::getCaches()
    Installed,  \* the names that are programs on the PATH
    Watched,    \* the names for which running processes are looked for
    Entry,      \* the entries of directories
    Below,      \* Below[p]: what a recursive iteration of p reaches
    Contents,   \* what an entry may become
    Setups      \* arguments, configuration, plugin directory and disk of a run,
                \* whether that directory can be examined and read, and a bound on
                \* the changes by other processes

Definition == [name : Name, aliases : SUBSET Name, variables : Seq(Variable),
               path : Path \cup {Nowhere}, more : Seq(Path), enabled : BOOLEAN]
PluginFile == [text : {"other", "malformed", "definition"}, cache : Definition]
Content == [kind : {"absent", "file", "directory", "broken link"}, size : Nat]
Result == [name : Name, aliases : SUBSET Name, location : Path \cup {Nowhere},
           enabled : BOOLEAN, active : BOOLEAN, warned : BOOLEAN, skipped : BOOLEAN,
           found : BOOLEAN, bytes : Nat]

ASSUME ScannerAssumption ==
    /\ Within \in [Name -> SUBSET Name] /\ \A n \in Name : n \in Within[n]
    /\ Nowhere \notin Path /\ Acceptable \subseteq Path
    /\ Environment \in [Variable -> Path \cup {Nowhere}]
    /\ Builtin \in Seq(Definition)
    /\ IsFiniteSet(Entry) /\ Below \in [Path -> SUBSET Entry]
    /\ Contents \subseteq Content
    /\ Setups \subseteq [filters : SUBSET Name, ignored : SUBSET Name, custom : Seq(Definition),
                         files : SUBSET PluginFile, listable : BOOLEAN,
                         disk : [Entry -> Content], present : SUBSET Path, changes : Nat]

\* No name in the registry's table is a name or an alias of an earlier row.
ASSUME RegistryAssumption ==
    \A i, j \in 1..Len(Builtin) : i < j =>
        Builtin[j].name # Builtin[i].name /\ Builtin[j].name \notin Builtin[i].aliases

VARIABLES
    setup,       \* what the run was started with
    stage,       \* where scan() is
    todo,        \* the definitions the current loop has still to look at
    caches,      \* the vector scan() builds and then goes through
    files,       \* the plugin directory's files not yet read
    loaded,      \* PluginLoader::loadedPlugins
    failed,      \* PluginLoader::failedPlugins
    results,
    result,      \* the ScanResult under construction
    visited,     \* the entries the iteration has yielded
    touched,     \* history: the entries that changed during the iteration
    disk, present, \* the file system: entries, and the paths that exist
    changes,     \* the number of changes so far
    interrupted  \* Application::interrupted

catalogueVars == <<todo, caches, files, loaded, failed>>
measureVars == <<results, result, visited>>
worldVars == <<touched, disk, present, changes, interrupted>>
scanVars == <<setup, stage, catalogueVars, measureVars, worldVars>>

Stage == {"idle", "custom", "filter", "plugins", "merge", "measure", "inspect", "walk",
          "done", "crashed"}
Blank == [name |-> Nowhere, bytes |-> 0]

ScanTypeOK ==
    /\ setup \in Setups /\ stage \in Stage
    /\ todo \in Seq(Definition) /\ caches \in Seq(Definition) /\ loaded \in Seq(Definition)
    /\ files \subseteq setup.files /\ failed \subseteq setup.files
    /\ results \in Seq(Result)
    /\ stage \in {"inspect", "walk"} => result \in Result /\ result.location \in Path
    /\ visited \subseteq Entry /\ touched \subseteq Entry
    /\ disk \in [Entry -> Content] /\ present \subseteq Path
    /\ changes \in Nat /\ interrupted \in BOOLEAN

ScanInit ==
    /\ setup \in Setups /\ stage = "idle"
    /\ todo = <<>> /\ caches = <<>> /\ files = setup.files /\ loaded = <<>> /\ failed = {}
    /\ results = <<>> /\ result = Blank /\ visited = {} /\ touched = {}
    /\ disk = setup.disk /\ present = setup.present
    /\ changes = 0 /\ interrupted = FALSE

-----------------------------------------------------------------------------
(* The catalogue: the registry, then the configuration, then the plugins *)

\* A name is taken if an earlier definition has it or goes by it.
MutTaken(list, name) == \E i \in 1..Len(list) : list[i].name = name
Taken(list, name) ==
    \E i \in 1..Len(list) : list[i].name = name \/ name \in list[i].aliases
Merged(list, cache) == IF Taken(list, cache.name) THEN list ELSE Append(list, cache)

GetCaches == Builtin

Selected(cache) ==
    setup.filters = {} \/ cache.name \in setup.filters \/ cache.aliases \cap setup.filters # {}

StartScan ==
    /\ stage \in {"idle", "done"} /\ stage' = "custom"
    /\ caches' = GetCaches /\ todo' = setup.custom /\ results' = <<>>
    /\ UNCHANGED <<setup, files, loaded, failed, result, visited, worldVars>>

MergeCustom ==
    /\ stage = "custom"
    /\ IF todo # <<>>
       THEN todo' = Tail(todo) /\ caches' = Merged(caches, Head(todo)) /\ stage' = stage
       ELSE todo' = caches /\ caches' = <<>> /\ stage' = "filter"
    /\ UNCHANGED <<setup, files, loaded, failed, measureVars, worldVars>>

FilterCache ==
    /\ stage = "filter" /\ todo # <<>>
    /\ todo' = Tail(todo)
    /\ caches' = IF Selected(Head(todo)) THEN Append(caches, Head(todo)) ELSE caches
    /\ UNCHANGED <<setup, stage, files, loaded, failed, measureVars, worldVars>>

\* loadPlugins reads the directory anew for each scan.
OpenPlugins ==
    /\ stage = "filter" /\ todo = <<>> /\ stage' = "plugins"
    /\ files' = setup.files /\ loaded' = <<>> /\ failed' = {}
    /\ UNCHANGED <<setup, todo, caches, measureVars, worldVars>>

\* The paths are those after normalizePath.
ValidatePluginDefinition(cache) ==
    /\ cache.name \in PluginName
    /\ cache.path \in Acceptable
    /\ \A i \in 1..Len(cache.more) : cache.more[i] \in Acceptable
Loads(f) == f.text = "definition" /\ ValidatePluginDefinition(f.cache)

\* The directory's order is any.  A file that does not parse is caught inside
\* the loop.
MutLoadPlugin ==
    /\ stage = "plugins"
    /\ \E f \in files :
          /\ files' = files \ {f}
          /\ IF Loads(f) THEN loaded' = Append(loaded, f.cache) /\ failed' = failed
             ELSE loaded' = loaded /\ failed' = IF f.text = "other" THEN failed ELSE failed \cup {f}
          /\ IF f.text = "malformed" THEN stage' = "merge" /\ todo' = loaded
             ELSE UNCHANGED <<stage, todo>>
    /\ UNCHANGED <<setup, caches, measureVars, worldVars>>
LoadPlugin ==
    /\ stage = "plugins"
    /\ \E f \in files :
          /\ files' = files \ {f}
          /\ IF Loads(f) THEN loaded' = Append(loaded, f.cache) /\ failed' = failed
             ELSE loaded' = loaded /\ failed' = IF f.text = "other" THEN failed ELSE failed \cup {f}
    /\ UNCHANGED <<setup, stage, todo, caches, measureVars, worldVars>>

\* loadPlugins gives back what has been loaded by then.
TakeLoaded ==
    /\ stage = "plugins" /\ stage' = "merge" /\ todo' = loaded
    /\ UNCHANGED <<setup, caches, files, loaded, failed, measureVars, worldVars>>

EndPlugins == files = {} /\ TakeLoaded

\* The iterator throws when it is constructed or advanced; the files it has not
\* yielded are not read.
PluginsBreakOff == ~setup.listable /\ TakeLoaded

MergePlugin ==
    /\ stage = "merge"
    /\ IF todo # <<>>
       THEN /\ todo' = Tail(todo) /\ stage' = stage
            /\ caches' = IF Selected(Head(todo)) THEN Merged(caches, Head(todo)) ELSE caches
       ELSE todo' = caches /\ caches' = caches /\ stage' = "measure"
    /\ UNCHANGED <<setup, files, loaded, failed, measureVars, worldVars>>

-----------------------------------------------------------------------------
(* Measuring *)

ResolveConfiguredPath(cache) ==
    LET given == {i \in 1..Len(cache.variables) : Environment[cache.variables[i]] # Nowhere}
    IN  IF given # {} THEN Environment[cache.variables[Min(given)]]
        ELSE IF cache.path # Nowhere THEN cache.path
        ELSE IF cache.more # <<>> THEN cache.more[1] ELSE Nowhere

\* ToolDetector: whether the tool is on the PATH, and whether a process runs
\* that a warning is about, which is found out at this moment.
IsInstalled(name) == name \in Installed
Warnings(cache) == IF cache.name \in Watched THEN BOOLEAN ELSE {FALSE}

\* What is known of a cache before its directory is looked at.
Outlines(cache) ==
    {[name |-> cache.name, aliases |-> cache.aliases,
      location |-> ResolveConfiguredPath(cache), enabled |-> cache.enabled,
      active |-> \E n \in {cache.name} \cup cache.aliases : IsInstalled(n),
      warned |-> warned, skipped |-> FALSE, found |-> FALSE, bytes |-> 0] :
     warned \in Warnings(cache)}

Current == Head(todo)
Turn == stage = "measure" /\ ~interrupted /\ todo # <<>>
Publish(r) == results' = Append(results, r) /\ todo' = Tail(todo) /\ stage' = "measure"

Ignore ==
    /\ Turn /\ Current.name \in setup.ignored
    /\ \E r \in Outlines(Current) : Publish([r EXCEPT !.skipped = TRUE])
    /\ UNCHANGED <<setup, caches, files, loaded, failed, result, visited, worldVars>>

MutMissing ==
    /\ Turn /\ Current.name \notin setup.ignored
    /\ \E r \in Outlines(Current) :
          r.location \notin present /\ todo' = Tail(todo) /\ UNCHANGED <<stage, results>>
    /\ UNCHANGED <<setup, caches, files, loaded, failed, result, visited, worldVars>>
Missing ==
    /\ Turn /\ Current.name \notin setup.ignored
    /\ \E r \in Outlines(Current) : r.location \notin present /\ Publish(r)
    /\ UNCHANGED <<setup, caches, files, loaded, failed, result, visited, worldVars>>

Approach ==
    /\ Turn /\ Current.name \notin setup.ignored
    /\ \E r \in Outlines(Current) : r.location \in present /\ result' = r
    /\ stage' = "inspect"
    /\ UNCHANGED <<setup, catalogueVars, results, visited, worldVars>>

\* inspectDirectory asks again whether the path exists, then opens it.
Inspect ==
    /\ stage = "inspect"
    /\ IF result.location \in present
       THEN /\ stage' = "walk" /\ visited' = {} /\ touched' = {}
            /\ UNCHANGED <<todo, results>>
       ELSE Publish(result) /\ UNCHANGED <<visited, touched>>
    /\ UNCHANGED <<setup, caches, files, loaded, failed, result, disk, present, changes, interrupted>>

\* A symbolic link that leads nowhere is not counted.
Counted(e) == IF disk[e].kind = "file" THEN disk[e].size ELSE 0

MutCount ==
    /\ stage = "walk"
    /\ \E e \in Below[result.location] \ visited :
          /\ disk[e].kind # "absent"
          /\ visited' = visited \cup {e}
          /\ result' = [result EXCEPT !.bytes = Counted(e)]
    /\ UNCHANGED <<setup, stage, catalogueVars, results, worldVars>>
Count ==
    /\ stage = "walk"
    /\ \E e \in Below[result.location] \ visited :
          /\ disk[e].kind # "absent"
          /\ visited' = visited \cup {e}
          /\ result' = [result EXCEPT !.bytes = @ + Counted(e)]
    /\ UNCHANGED <<setup, stage, catalogueVars, results, worldVars>>

Found == [result EXCEPT !.found = TRUE]

\* The iteration yields every entry that is there all the time.
WalkEnd ==
    /\ stage = "walk"
    /\ \A e \in Below[result.location] : e \in visited \cup touched \/ disk[e].kind = "absent"
    /\ Publish(Found)
    /\ UNCHANGED <<setup, caches, files, loaded, failed, result, visited, worldVars>>

\* The iterator cannot be constructed or advanced.  It then equals `end`, so
\* the loop is left before the error code is looked at.
WalkFails ==
    /\ stage = "walk" /\ Publish(Found)
    /\ UNCHANGED <<setup, caches, files, loaded, failed, result, visited, worldVars>>

MatchesQuery(r, query) ==
    \E n \in {r.name} \cup r.aliases : n \in Within[query]
Shown(r) == r.skipped \/ setup.filters = {} \/ \E f \in setup.filters : MatchesQuery(r, f)

FinishScan ==
    /\ stage = "measure" /\ (interrupted \/ todo = <<>>)
    /\ stage' = "done" /\ results' = Filtered(results, {r \in Range(results) : Shown(r)})
    /\ UNCHANGED <<setup, catalogueVars, result, visited, worldVars>>

\* An exception that nobody catches: is_directory of the plugin directory and
\* exists of a program on the PATH throw where access is denied.
Crash ==
    /\ (stage = "filter" /\ todo = <<>> /\ ~setup.listable) \/ Turn
    /\ stage' = "crashed"
    /\ UNCHANGED <<setup, catalogueVars, measureVars, worldVars>>

Advance ==
    \/ MergeCustom \/ FilterCache \/ OpenPlugins \/ LoadPlugin \/ EndPlugins \/ MergePlugin
    \/ Ignore \/ Missing \/ Approach \/ Inspect \/ Count \/ WalkEnd \/ FinishScan
ScanStep == Advance \/ PluginsBreakOff \/ WalkFails \/ Crash

-----------------------------------------------------------------------------
(* The others *)

\* Another process creates, resizes or removes an entry of the path that is
\* being measured.
ChangeEntry ==
    /\ stage = "walk" /\ changes < setup.changes /\ changes' = changes + 1
    /\ \E e \in Below[result.location], c \in Contents :
          disk' = [disk EXCEPT ![e] = c] /\ touched' = touched \cup {e}
    /\ UNCHANGED <<setup, stage, catalogueVars, measureVars, present, interrupted>>

\* A tool creates its cache directory or removes it; it matters only before the
\* scan has opened it.
ChangePath ==
    /\ stage \in {"measure", "inspect"}
    /\ changes < setup.changes /\ changes' = changes + 1
    /\ \E p \in Path : present' = (present \ {p}) \cup ({p} \ present)
    /\ UNCHANGED <<setup, stage, catalogueVars, measureVars, touched, disk, interrupted>>

Signal ==
    /\ ~interrupted /\ interrupted' = TRUE
    /\ UNCHANGED <<setup, stage, catalogueVars, measureVars, touched, disk, present, changes>>

World == ChangeEntry \/ ChangePath \/ Signal

ScanNext == StartScan \/ ScanStep \/ World
ScanSpec == ScanInit /\ [][ScanNext]_scanVars

-----------------------------------------------------------------------------
(* Properties *)

\* mergeCaches: no cache has the name of an earlier one, or goes by what is an
\* earlier one's alias.  (An alias of a later cache may be an earlier one's name.)
OneOwnerPerName ==
    \A i, j \in 1..Len(caches) : i < j =>
        caches[j].name # caches[i].name /\ caches[j].name \notin caches[i].aliases

\* The scan knows its caches, also when a later step ends it.
Catalogued ==
    stage \in {"measure", "inspect", "walk", "done"} \/ (stage = "crashed" /\ setup.listable)

\* docs/plugin-contract.md: a malformed plugin is reported and does not prevent
\* the discovery of built-in caches; nor does it prevent that of the other
\* plugins, in whatever order the directory yields them, and no cache comes from
\* a file that is not valid.  A directory that cannot be read costs plugins only;
\* one that cannot even be examined ends the scan.
PluginsIsolated ==
    /\ Catalogued =>
          /\ \A i \in 1..Len(Builtin) : Selected(Builtin[i]) =>
                \E j \in 1..Len(caches) : caches[j] = Builtin[i]
          /\ setup.listable =>
                /\ \A f \in setup.files : Loads(f) /\ Selected(f.cache) => Taken(caches, f.cache.name)
                /\ failed = {f \in setup.files : ~Loads(f) /\ f.text # "other"}
    /\ \A j \in 1..Len(caches) :
          \/ \E i \in 1..Len(Builtin) : caches[j] = Builtin[i]
          \/ \E i \in 1..Len(setup.custom) : caches[j] = setup.custom[i]
          \/ \E f \in setup.files : Loads(f) /\ caches[j] = f.cache

\* scan: there is one result for each cache of the catalogue, in its order; an
\* interrupt cuts the list off, and the last filter takes nothing away.
ResultsFollowCatalogue ==
    stage \in {"measure", "inspect", "walk", "done"} =>
        /\ Len(results) <= Len(caches)
        /\ \A i \in 1..Len(results) : results[i].name = caches[i].name
        /\ stage = "done" /\ ~interrupted => Len(results) = Len(caches)

SizeOf(S) == SumFunctionOnSet([e \in Entry |-> Counted(e)], S)

\* inspectDirectory: an iteration that reaches its end reports the size of the
\* directory; what changed meanwhile may be missing, but nothing else is.
MeasuredExactly ==
    [][WalkEnd =>
        LET bytes == results'[Len(results')].bytes
            quiet == Below[result.location] \ touched
        IN  bytes >= SizeOf(quiet) /\ (touched = {} => bytes = SizeOf(quiet))]_scanVars

\* inspectDirectory promises `success = false` for an iteration that fails: the
\* size of part of a directory is not reported as the size of it
\* (docs/design/spec-10-partial-scan.md).
PartialIsMarked ==
    [][stage = "walk" /\ WalkFails /\ ~WalkEnd => results'[Len(results')].skipped]_scanVars
=============================================================================
