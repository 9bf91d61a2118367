---------------------------- MODULE ScannerProofs ----------------------------
(***************************************************************************)
(* What holds of every scan, for every registry, configuration and plugin  *)
(* directory: a name has one owner, and plugins harm neither each other    *)
(* nor the built-in caches.  What holds of the dashboard for every         *)
(* catalogue, terminal and user: its scans are scans, and the selection    *)
(* and the viewport stay within what is shown.                             *)
(***************************************************************************)
EXTENDS Dashboard, FoldLemmas

-----------------------------------------------------------------------------
(* The catalogue *)

\* The types of what the catalogue is built from.
CatalogueTypes ==
    /\ setup \in Setups
    /\ todo \in Seq(Definition) /\ caches \in Seq(Definition) /\ loaded \in Seq(Definition)
    /\ files \subseteq setup.files
    /\ stage \in {"inspect", "walk"} => todo # <<>>

\* `later` has no name that `earlier` owns.
Apart(earlier, later) ==
    \A i \in 1..Len(earlier), j \in 1..Len(later) :
        later[j].name # earlier[i].name /\ later[j].name \notin earlier[i].aliases
Owned(list) ==
    \A i, j \in 1..Len(list) : i < j =>
        list[j].name # list[i].name /\ list[j].name \notin list[i].aliases

\* The strengthening: while the filter moves the list, both halves and the pair
\* of them have one owner per name.
OwnerInv ==
    /\ Owned(caches)
    /\ stage = "filter" => Owned(todo) /\ Apart(caches, todo)

Has(list, cache) == \E j \in 1..Len(list) : list[j] = cache

\* `cache` is one of the registry, of the configuration, or of a valid file of
\* the plugin directory of the run `s`.
Known(s, cache) ==
    \/ \E i \in 1..Len(Builtin) : cache = Builtin[i]
    \/ \E i \in 1..Len(s.custom) : cache = s.custom[i]
    \/ \E f \in s.files : Loads(f) /\ cache = f.cache
AllKnown(s, list) == \A j \in 1..Len(list) : Known(s, list[j])

\* The strengthening, in four parts.  What has been made of the files read so far.
ReadInv ==
    /\ {loaded[i] : i \in 1..Len(loaded)} = {f.cache : f \in {g \in setup.files \ files : Loads(g)}}
    /\ failed = {f \in setup.files \ files : ~Loads(f) /\ f.text # "other"}
    /\ (stage = "merge" \/ Catalogued) /\ setup.listable => files = {}

\* Where caches come from, also those that are still to be looked at.
KnownInv ==
    /\ AllKnown(setup, caches)
    /\ stage \in {"custom", "filter", "merge"} => AllKnown(setup, todo)

\* Where each built-in cache is.
BuiltinInv ==
    /\ stage = "custom" => \A i \in 1..Len(Builtin) : Has(caches, Builtin[i])
    /\ stage = "filter" => \A i \in 1..Len(Builtin) : Selected(Builtin[i]) =>
          Has(caches, Builtin[i]) \/ Has(todo, Builtin[i])
    /\ stage \in {"plugins", "merge"} \/ Catalogued =>
          \A i \in 1..Len(Builtin) : Selected(Builtin[i]) => Has(caches, Builtin[i])

\* Where the cache of each valid file is: merged, or still to be merged.
PluginInv ==
    setup.listable =>
        \A f \in setup.files : Loads(f) /\ Selected(f.cache) =>
            /\ stage = "merge" => Taken(caches, f.cache.name) \/ Has(todo, f.cache)
            /\ Catalogued => Taken(caches, f.cache.name)

IsolationInv == ReadInv /\ KnownInv /\ BuiltinInv /\ PluginInv

-----------------------------------------------------------------------------
(* The two operations on lists of definitions *)

\* What Append does to the places of a list.
LEMMA Appended ==
    ASSUME NEW S, NEW list \in Seq(S), NEW d \in S
    PROVE  /\ Append(list, d) \in Seq(S)
           /\ Len(Append(list, d)) = Len(list) + 1
           /\ \A i \in 1..Len(list) : Append(list, d)[i] = list[i]
           /\ Append(list, d)[Len(list) + 1] = d
           /\ 1..Len(Append(list, d)) = 1..Len(list) \cup {Len(list) + 1}
<1>1. Len(list) \in Nat
  BY LenProperties
<1> QED
  BY <1>1

\* Append adds one element to those of a list.
LEMMA AppendedRange ==
    ASSUME NEW S, NEW list \in Seq(S), NEW d \in S
    PROVE  {Append(list, d)[i] : i \in 1..Len(Append(list, d))} = {list[i] : i \in 1..Len(list)} \cup {d}
<1> DEFINE more == Append(list, d)
<1>1. /\ Len(list) + 1 \in 1..Len(more) /\ more[Len(list) + 1] = d
      /\ \A i \in 1..Len(list) : i \in 1..Len(more) /\ more[i] = list[i]
      /\ \A i \in 1..Len(more) : i \in 1..Len(list) \/ i = Len(list) + 1
  BY Appended
<1> HIDE DEF more
<1>2. ASSUME NEW c \in {more[i] : i \in 1..Len(more)} PROVE c \in {list[i] : i \in 1..Len(list)} \cup {d}
  BY <1>1
<1>3. ASSUME NEW c \in {list[i] : i \in 1..Len(list)} \cup {d} PROVE c \in {more[i] : i \in 1..Len(more)}
  BY <1>1
<1> QED
  BY <1>2, <1>3 DEF more

\* mergeCaches keeps every cache and the ownership of names.
LEMMA MergedProperties ==
    ASSUME NEW list \in Seq(Definition), NEW d \in Definition
    PROVE  /\ Merged(list, d) \in Seq(Definition)
           /\ \A c : Has(list, c) => Has(Merged(list, d), c)
           /\ Owned(list) => Owned(Merged(list, d))
<1>1. CASE Taken(list, d.name)
  BY <1>1 DEF Merged
<1>2. CASE ~Taken(list, d.name)
  <2>1. Merged(list, d) = Append(list, d)
    BY <1>2 DEF Merged
  <2>2. ASSUME NEW c, Has(list, c) PROVE Has(Append(list, d), c)
    BY <2>2, Appended DEF Has
  <2>3. ASSUME Owned(list) PROVE Owned(Append(list, d))
    <3> SUFFICES ASSUME NEW i \in 1..Len(Append(list, d)), NEW j \in 1..Len(Append(list, d)), i < j
                 PROVE  /\ Append(list, d)[j].name # Append(list, d)[i].name
                        /\ Append(list, d)[j].name \notin Append(list, d)[i].aliases
      BY DEF Owned
    <3>1. Len(list) \in Nat
      BY LenProperties
    <3>2. i \in 1..Len(list)
      BY <3>1, Appended
    <3>3. CASE j \in 1..Len(list)
      BY <2>3, <3>2, <3>3, Appended DEF Owned
    <3>4. CASE j = Len(list) + 1
      BY <1>2, <3>2, <3>4, Appended DEF Taken
    <3> QED
      BY <3>3, <3>4, Appended
  <2> QED
    BY <2>1, <2>2, <2>3, Appended
<1> QED
  BY <1>1, <1>2

\* One step of a loop over a list.
LEMMA HeadTail ==
    ASSUME NEW list \in Seq(Definition), list # <<>>
    PROVE  /\ Head(list) \in Definition /\ Tail(list) \in Seq(Definition)
           /\ Head(list) = list[1] /\ 1 \in 1..Len(list)
           /\ \A i \in 1..Len(Tail(list)) : i + 1 \in 1..Len(list) /\ Tail(list)[i] = list[i + 1]
           /\ \A c : Has(list, c) => c = Head(list) \/ Has(Tail(list), c)
<1>1. Len(list) \in Nat \ {0}
  BY EmptySeq
<1>2. Head(list) = list[1]
  OBVIOUS
<1>3. ASSUME NEW c, Has(list, c) PROVE c = Head(list) \/ Has(Tail(list), c)
  <2>1. PICK j \in 1..Len(list) : list[j] = c
    BY <1>3 DEF Has
  <2>2. CASE j = 1
    BY <1>2, <2>1, <2>2
  <2>3. CASE j # 1
    <3>1. j - 1 \in 1..Len(Tail(list)) /\ Tail(list)[j - 1] = list[(j - 1) + 1]
      BY <1>1, <2>3, HeadTailProperties
    <3> QED
      BY <2>1, <3>1 DEF Has
  <2> QED
    BY <2>2, <2>3
<1>4. \A i \in 1..Len(Tail(list)) : i + 1 \in 1..Len(list) /\ Tail(list)[i] = list[i + 1]
  BY <1>1, HeadTailProperties
<1> QED
  BY <1>1, <1>2, <1>3, <1>4, HeadTailProperties

-----------------------------------------------------------------------------
(* Types *)

\* The bounds of a run are of the types that the assumption gives.
LEMMA SetupTypes ==
    ASSUME NEW s \in Setups
    PROVE  /\ s.custom \in Seq(Definition)
           /\ s.files \subseteq PluginFile
BY ScannerAssumption

\* A run is started once.
LEMMA SetupStays == [ScanNext]_scanVars => setup' = setup
BY DEF ScanNext, ScanStep, Advance, World, StartScan, MergeCustom, FilterCache, OpenPlugins, LoadPlugin,
       EndPlugins, PluginsBreakOff, TakeLoaded, MergePlugin, Ignore, Missing, Approach, Inspect, Count,
       WalkEnd, WalkFails, FinishScan, Crash, ChangeEntry, ChangePath, Signal, scanVars

LEMMA TypesInit == ScanInit => CatalogueTypes
BY DEF ScanInit, CatalogueTypes

LEMMA TypesNext == CatalogueTypes /\ [ScanNext]_scanVars => CatalogueTypes'
<1> SUFFICES ASSUME CatalogueTypes, [ScanNext]_scanVars PROVE CatalogueTypes'
  OBVIOUS
<1> USE DEF CatalogueTypes
<1>1. CASE StartScan
  BY <1>1, SetupTypes, ScannerAssumption DEF StartScan, GetCaches, worldVars
<1>2. CASE MergeCustom
  <2>1. CASE todo # <<>>
    BY <1>2, <2>1, HeadTail, MergedProperties DEF MergeCustom
  <2>2. CASE todo = <<>>
    BY <1>2, <2>2 DEF MergeCustom
  <2> QED
    BY <2>1, <2>2
<1>3. CASE FilterCache
  BY <1>3, HeadTail, Appended DEF FilterCache
<1>4. CASE OpenPlugins
  BY <1>4 DEF OpenPlugins
<1>5. CASE LoadPlugin
  <2>1. PICK f \in files :
          /\ files' = files \ {f}
          /\ loaded' = Append(loaded, f.cache) \/ loaded' = loaded
    BY <1>5 DEF LoadPlugin
  <2>2. f.cache \in Definition
    BY <2>1, SetupTypes DEF PluginFile
  <2>3. loaded' \in Seq(Definition)
    BY <2>1, <2>2, Appended
  <2> QED
    BY <1>5, <2>1, <2>3 DEF LoadPlugin
<1>6. CASE EndPlugins \/ PluginsBreakOff
  BY <1>6 DEF EndPlugins, PluginsBreakOff, TakeLoaded
<1>7. CASE MergePlugin
  <2>1. CASE todo # <<>>
    BY <1>7, <2>1, HeadTail, MergedProperties DEF MergePlugin
  <2>2. CASE todo = <<>>
    BY <1>7, <2>2 DEF MergePlugin
  <2> QED
    BY <2>1, <2>2
<1>8. CASE Ignore \/ Missing \/ WalkEnd \/ WalkFails \/ Inspect
  <2>1. /\ setup' = setup /\ caches' = caches /\ files' = files /\ loaded' = loaded
        /\ todo # <<>>
        /\ \/ todo' = todo /\ stage' = "walk"
           \/ todo' = Tail(todo) /\ stage' = "measure"
    BY <1>8 DEF Ignore, Missing, WalkEnd, WalkFails, Inspect, Publish, Turn
  <2> QED
    BY <2>1, HeadTail
<1>9. CASE Approach \/ Count \/ FinishScan \/ Crash \/ World \/ UNCHANGED scanVars
  BY <1>9 DEF Approach, Turn, Count, FinishScan, Crash, World, ChangeEntry, ChangePath, Signal,
              catalogueVars, scanVars
<1> QED
  BY <1>1, <1>2, <1>3, <1>4, <1>5, <1>6, <1>7, <1>8, <1>9 DEF ScanNext, ScanStep, Advance

LEMMA TypesAlways == ScanSpec => []CatalogueTypes
BY TypesInit, TypesNext, PTL DEF ScanSpec

-----------------------------------------------------------------------------
(* Results *)

LEMMA ResolvedType ==
    ASSUME NEW cache \in Definition
    PROVE  ResolveConfiguredPath(cache) \in Path \cup {Nowhere}
<1> DEFINE given == {i \in 1..Len(cache.variables) : Environment[cache.variables[i]] # Nowhere}
<1>1. /\ cache.variables \in Seq(Variable) /\ cache.path \in Path \cup {Nowhere}
      /\ cache.more \in Seq(Path)
  BY DEF Definition
<1>2. \A i \in given : Environment[cache.variables[i]] \in Path \cup {Nowhere}
  BY <1>1, ScannerAssumption
<1>3. given # {} => Min(given) \in given
  <2>1. given \in SUBSET Nat
    BY <1>1
  <2> HIDE DEF given
  <2>2. given # {} => \E m \in given : \A n \in given : m <= n
    BY <2>1, LeastNumber
  <2> QED
    BY <2>2 DEF Min
<1>4. cache.more # <<>> => cache.more[1] \in Path
  BY <1>1
<1> HIDE DEF given
<1>5. given # {} => Environment[cache.variables[Min(given)]] \in Path \cup {Nowhere}
  BY <1>2, <1>3
<1> QED
  BY <1>1, <1>4, <1>5 DEF ResolveConfiguredPath, given

\* A result is about its cache, whether it is found, missing or ignored.
LEMMA OutlineFacts ==
    ASSUME NEW cache \in Definition, NEW r \in Outlines(cache)
    PROVE  /\ r \in Result /\ r.name = cache.name /\ r.aliases = cache.aliases /\ r.bytes = 0
           /\ [r EXCEPT !.skipped = TRUE] \in Result
           /\ [r EXCEPT !.skipped = TRUE].name = cache.name
           /\ [r EXCEPT !.skipped = TRUE].skipped
<1>1. cache.name \in Name /\ cache.aliases \in SUBSET Name /\ cache.enabled \in BOOLEAN
  BY DEF Definition
<1>2. ResolveConfiguredPath(cache) \in Path \cup {Nowhere}
  BY ResolvedType
<1>3. PICK warned \in BOOLEAN :
        r = [name |-> cache.name, aliases |-> cache.aliases,
             location |-> ResolveConfiguredPath(cache), enabled |-> cache.enabled,
             active |-> \E n \in {cache.name} \cup cache.aliases : IsInstalled(n),
             warned |-> warned, skipped |-> FALSE, found |-> FALSE, bytes |-> 0]
  BY DEF Outlines, Warnings
<1>4. r \in Result /\ r.name = cache.name /\ r.aliases = cache.aliases /\ r.bytes = 0
  BY <1>1, <1>2, <1>3 DEF Result
<1> QED
  BY <1>4 DEF Result

LEMMA ScanTypesInit == ScanInit => ScanTypeOK
<1> SUFFICES ASSUME ScanInit PROVE ScanTypeOK
  OBVIOUS
<1>1. setup \in Setups
  BY DEF ScanInit
<1>2. setup.disk \in [Entry -> Content] /\ setup.present \subseteq Path
  BY <1>1, ScannerAssumption
<1>3. <<>> \in Seq(Definition) /\ <<>> \in Seq(Result)
  OBVIOUS
<1>4. /\ stage = "idle" /\ todo = <<>> /\ caches = <<>> /\ files = setup.files /\ loaded = <<>>
      /\ failed = {} /\ results = <<>> /\ visited = {} /\ touched = {}
      /\ disk = setup.disk /\ present = setup.present /\ changes = 0 /\ interrupted = FALSE
  BY DEF ScanInit
<1> QED
  BY <1>1, <1>2, <1>3, <1>4 DEF ScanTypeOK, Stage

LEMMA ScanTypesNext == CatalogueTypes /\ ScanTypeOK /\ [ScanNext]_scanVars => ScanTypeOK'
<1> SUFFICES ASSUME CatalogueTypes, ScanTypeOK, [ScanNext]_scanVars PROVE ScanTypeOK'
  OBVIOUS
<1>0. CatalogueTypes'
  BY TypesNext
<1>1. /\ setup \in Setups /\ stage \in Stage /\ results \in Seq(Result)
      /\ files \subseteq setup.files /\ failed \subseteq setup.files
      /\ stage \in {"inspect", "walk"} => result \in Result /\ result.location \in Path
      /\ visited \subseteq Entry /\ touched \subseteq Entry
      /\ disk \in [Entry -> Content] /\ present \subseteq Path
      /\ changes \in Nat /\ interrupted \in BOOLEAN
  BY DEF ScanTypeOK
<1> DEFINE Rest == /\ stage' \in Stage /\ results' \in Seq(Result)
                   /\ failed' \subseteq setup'.files
                   /\ stage' \in {"inspect", "walk"} => result' \in Result /\ result'.location \in Path
                   /\ visited' \subseteq Entry /\ touched' \subseteq Entry
                   /\ disk' \in [Entry -> Content] /\ present' \subseteq Path
                   /\ changes' \in Nat /\ interrupted' \in BOOLEAN
<1>2. ASSUME StartScan \/ MergeCustom \/ FilterCache \/ OpenPlugins \/ EndPlugins \/ PluginsBreakOff
             \/ MergePlugin
      PROVE  Rest
  <2>1. /\ UNCHANGED <<setup, visited, touched, disk, present, changes, interrupted>>
        /\ results' = results \/ results' = <<>>
        /\ failed' = failed \/ failed' = {}
        /\ stage' \in {"custom", "filter", "plugins", "merge", "measure"}
    BY <1>2 DEF StartScan, MergeCustom, FilterCache, OpenPlugins, EndPlugins, PluginsBreakOff,
                TakeLoaded, MergePlugin, measureVars, worldVars
  <2>2. results' \in Seq(Result)
    <3>1. <<>> \in Seq(Result)
      OBVIOUS
    <3> QED
      BY <1>1, <2>1, <3>1
  <2>3. setup' = setup /\ stage' \in Stage /\ stage' \notin {"inspect", "walk"}
    BY <2>1 DEF Stage
  <2> QED
    BY <1>1, <2>1, <2>2, <2>3
<1>3. ASSUME LoadPlugin PROVE Rest
  <2>1. PICK f \in files : failed' = failed \/ failed' = failed \cup {f}
    BY <1>3 DEF LoadPlugin
  <2>2. UNCHANGED <<setup, stage, results, result, visited, touched, disk, present, changes, interrupted>>
        /\ stage = "plugins"
    BY <1>3 DEF LoadPlugin, measureVars, worldVars
  <2> QED
    BY <1>1, <2>1, <2>2 DEF Stage
\* One result more.
<1>4. ASSUME NEW r \in Result, Publish(r), UNCHANGED <<setup, failed, result>>,
             visited' \subseteq Entry, touched' \subseteq Entry,
             UNCHANGED <<disk, present, changes, interrupted>>
      PROVE  Rest
  <2>1. results' = Append(results, r) /\ stage' = "measure"
    BY <1>4 DEF Publish
  <2>2. results' \in Seq(Result)
    BY <1>1, <2>1, Appended
  <2> QED
    BY <1>1, <1>4, <2>1, <2>2 DEF Stage
<1>5. ASSUME Ignore \/ Missing PROVE Rest
  <2>1. todo # <<>> /\ Current \in Definition
    BY <1>5, HeadTail DEF Ignore, Missing, Turn, Current, CatalogueTypes
  <2>2. PICK r \in Outlines(Current) : Publish(r) \/ Publish([r EXCEPT !.skipped = TRUE])
    BY <1>5 DEF Ignore, Missing
  <2>3. r \in Result /\ [r EXCEPT !.skipped = TRUE] \in Result
    BY <2>1, OutlineFacts
  <2>4. UNCHANGED <<setup, failed, result, visited, touched, disk, present, changes, interrupted>>
    BY <1>5 DEF Ignore, Missing, worldVars
  <2> QED
    BY <1>1, <1>4, <2>2, <2>3, <2>4
<1>6. ASSUME Approach PROVE Rest
  <2>1. todo # <<>> /\ Current \in Definition
    BY <1>6, HeadTail DEF Approach, Turn, Current, CatalogueTypes
  <2>2. PICK r \in Outlines(Current) : r.location \in present /\ result' = r
    BY <1>6 DEF Approach
  <2>3. result' \in Result /\ result'.location \in Path
    BY <1>1, <2>1, <2>2, OutlineFacts
  <2>4. stage' = "inspect" /\ UNCHANGED <<setup, failed, results, visited, worldVars>>
    BY <1>6 DEF Approach, catalogueVars
  <2> QED
    BY <1>1, <2>3, <2>4 DEF Stage, worldVars
<1>7. ASSUME Inspect PROVE Rest
  <2>1. CASE result.location \in present
    BY <1>1, <1>7, <2>1 DEF Inspect, Stage
  <2>2. CASE result.location \notin present
    BY <1>1, <1>4, <1>7, <2>2 DEF Inspect
  <2> QED
    BY <2>1, <2>2
<1>8. ASSUME Count PROVE Rest
  <2>1. PICK e \in Below[result.location] \ visited :
          visited' = visited \cup {e} /\ result' = [result EXCEPT !.bytes = @ + Counted(e)]
    BY <1>8 DEF Count
  <2>2. stage = "walk" /\ UNCHANGED <<setup, stage, failed, results, worldVars>>
    BY <1>8 DEF Count, catalogueVars
  <2>3. result \in Result /\ result.location \in Path /\ Below[result.location] \subseteq Entry
    BY <1>1, <2>2, ScannerAssumption
  <2>4. Counted(e) \in Nat
    BY <1>1, <2>1, <2>3 DEF Counted, Content
  <2>5. result' \in Result /\ result'.location \in Path
    BY <2>1, <2>3, <2>4 DEF Result
  <2> QED
    BY <1>1, <2>1, <2>2, <2>3, <2>5 DEF Stage, worldVars
<1>9. ASSUME WalkEnd \/ WalkFails PROVE Rest
  <2>1. stage = "walk" /\ Publish(Found) /\ UNCHANGED <<setup, failed, result, visited, worldVars>>
    BY <1>9 DEF WalkEnd, WalkFails
  <2>2. Found \in Result
    BY <1>1, <2>1 DEF Found, Result
  <2> QED
    BY <1>1, <1>4, <2>1, <2>2 DEF worldVars
<1>10. ASSUME FinishScan PROVE Rest
  <2> DEFINE S == {r \in Range(results) : Shown(r)}
  <2>1. results' = Filtered(results, S) /\ stage' = "done"
        /\ UNCHANGED <<setup, failed, result, visited, worldVars>>
    BY <1>10 DEF FinishScan, catalogueVars
  <2>2. results' \in Seq(Result)
    <3> HIDE DEF S
    <3> QED
      BY <1>1, <2>1, FilteredFacts
  <2> QED
    BY <1>1, <2>1, <2>2 DEF Stage, worldVars
<1>11. ASSUME ChangeEntry PROVE Rest
  <2>1. PICK e \in Below[result.location], c \in Contents :
          disk' = [disk EXCEPT ![e] = c] /\ touched' = touched \cup {e}
    BY <1>11 DEF ChangeEntry
  <2>2. /\ stage = "walk" /\ changes' = changes + 1
        /\ UNCHANGED <<setup, stage, failed, results, result, visited, present, interrupted>>
    BY <1>11 DEF ChangeEntry, catalogueVars, measureVars
  <2>3. e \in Entry /\ c \in Content
    BY <1>1, <2>1, <2>2, ScannerAssumption
  <2> QED
    BY <1>1, <2>1, <2>2, <2>3
<1>12. ASSUME ChangePath \/ Signal PROVE Rest
  <2>1. /\ UNCHANGED <<setup, stage, failed, results, result, visited, touched, disk>>
        /\ changes' \in {changes, changes + 1} /\ interrupted' \in {interrupted, TRUE}
        /\ present' = present \/ \E p \in Path : present' = (present \ {p}) \cup ({p} \ present)
    BY <1>12 DEF ChangePath, Signal, catalogueVars, measureVars
  <2>2. present' \subseteq Path
    BY <1>1, <2>1
  <2>3. changes' \in Nat /\ interrupted' \in BOOLEAN
    <3>1. changes' = changes \/ changes' = changes + 1
      BY <2>1
    <3>2. interrupted' \in BOOLEAN
      BY <1>1, <2>1, Zenon
    <3> QED
      BY <1>1, <3>1, <3>2
  <2>4. stage' \in {"inspect", "walk"} => result' \in Result /\ result'.location \in Path
    BY <1>1, <2>1
  <2>5. disk' \in [Entry -> Content] /\ visited' \subseteq Entry /\ touched' \subseteq Entry
    BY <1>1, <2>1
  <2> QED
    BY <1>1, <2>1, <2>2, <2>3, <2>4, <2>5
<1>13. ASSUME Crash \/ UNCHANGED scanVars PROVE Rest
  <2>1. /\ UNCHANGED <<setup, failed, results, result, visited, touched, disk, present, changes, interrupted>>
        /\ stage' \in {stage, "crashed"}
    BY <1>13 DEF Crash, scanVars, catalogueVars, measureVars, worldVars
  <2> QED
    BY <1>1, <2>1 DEF Stage
<1>14. Rest
  BY <1>2, <1>3, <1>5, <1>6, <1>7, <1>8, <1>9, <1>10, <1>11, <1>12, <1>13 DEF ScanNext, ScanStep, Advance, World
<1> QED
  BY <1>0, <1>14 DEF CatalogueTypes, ScanTypeOK

\* A scan keeps to its types, whatever other processes do to the disk meanwhile.
THEOREM ScanTypesCorrect == ScanSpec => []ScanTypeOK
BY TypesAlways, ScanTypesInit, ScanTypesNext, PTL DEF ScanSpec

-----------------------------------------------------------------------------
(* One owner per name *)

\* Once the catalogue is merged, nothing changes it.
LEMMA Measuring ==
    ASSUME Ignore \/ Missing \/ Approach \/ Inspect \/ Count \/ WalkEnd \/ WalkFails \/ FinishScan
           \/ Crash \/ World \/ UNCHANGED scanVars
    PROVE  /\ UNCHANGED <<setup, caches, loaded, failed, files>>
           /\ \/ UNCHANGED <<stage, todo>>
              \/ stage' = "crashed" /\ (setup.listable => stage = "measure")
              \/ /\ stage \in {"measure", "inspect", "walk"}
                 /\ stage' \in {"measure", "inspect", "walk", "done"}
<1>1. CASE Ignore \/ Missing \/ Approach
  BY <1>1 DEF Ignore, Missing, Approach, Turn, Publish, catalogueVars
<1>2. CASE Inspect \/ Count \/ WalkEnd \/ WalkFails \/ FinishScan
  BY <1>2 DEF Inspect, Count, WalkEnd, WalkFails, FinishScan, Publish, catalogueVars
<1>3. CASE Crash \/ World \/ UNCHANGED scanVars
  BY <1>3 DEF Crash, Turn, World, ChangeEntry, ChangePath, Signal, scanVars, catalogueVars
<1> QED
  BY <1>1, <1>2, <1>3

LEMMA OwnerInit == ScanInit => OwnerInv
BY DEF ScanInit, OwnerInv, Owned

LEMMA OwnerNext == CatalogueTypes /\ OwnerInv /\ [ScanNext]_scanVars => OwnerInv'
<1> SUFFICES ASSUME CatalogueTypes, OwnerInv, [ScanNext]_scanVars PROVE OwnerInv'
  OBVIOUS
<1> USE DEF OwnerInv
<1>1. CASE StartScan
  <2>1. Owned(Builtin)
    BY RegistryAssumption DEF Owned
  <2> QED
    BY <1>1, <2>1 DEF StartScan, GetCaches
<1>2. CASE MergeCustom
  <2>1. CASE todo # <<>>
    BY <1>2, <2>1, HeadTail, MergedProperties DEF MergeCustom, CatalogueTypes
  <2>2. CASE todo = <<>>
    <3>1. todo' = caches /\ caches' = <<>>
      BY <1>2, <2>2 DEF MergeCustom
    <3> QED
      BY <3>1 DEF Owned, Apart
  <2> QED
    BY <2>1, <2>2
<1>3. CASE FilterCache
  <2> DEFINE d == Head(todo)
  <2>1. stage = "filter" /\ todo # <<>> /\ stage' = "filter" /\ todo' = Tail(todo)
    BY <1>3 DEF FilterCache
  <2>2. d \in Definition /\ Len(caches) \in Nat
    BY <2>1, HeadTail, LenProperties DEF CatalogueTypes
  <2>3. Owned(todo')
    <3> SUFFICES ASSUME NEW i \in 1..Len(Tail(todo)), NEW j \in 1..Len(Tail(todo)), i < j
                 PROVE  /\ Tail(todo)[j].name # Tail(todo)[i].name
                        /\ Tail(todo)[j].name \notin Tail(todo)[i].aliases
      BY <2>1 DEF Owned
    <3>1. /\ i + 1 \in 1..Len(todo) /\ Tail(todo)[i] = todo[i + 1]
          /\ j + 1 \in 1..Len(todo) /\ Tail(todo)[j] = todo[j + 1] /\ i + 1 < j + 1
      BY <2>1, HeadTail DEF CatalogueTypes
    <3> QED
      BY <2>1, <3>1 DEF Owned
  <2>4. Apart(caches, Tail(todo))
    BY <2>1, HeadTail DEF Apart, CatalogueTypes
  <2>5. Owned(Append(caches, d))
    <3> SUFFICES ASSUME NEW i \in 1..Len(Append(caches, d)), NEW j \in 1..Len(Append(caches, d)), i < j
                 PROVE  /\ Append(caches, d)[j].name # Append(caches, d)[i].name
                        /\ Append(caches, d)[j].name \notin Append(caches, d)[i].aliases
      BY DEF Owned
    <3>1. i \in 1..Len(caches)
      BY <2>2, Appended DEF CatalogueTypes
    <3>2. CASE j \in 1..Len(caches)
      BY <2>2, <3>1, <3>2, Appended DEF Owned, CatalogueTypes
    <3>3. CASE j = Len(caches) + 1
      <4>1. Append(caches, d)[j] = todo[1] /\ Append(caches, d)[i] = caches[i]
        BY <2>1, <2>2, <3>1, <3>3, Appended, HeadTail DEF CatalogueTypes
      <4> QED
        BY <2>1, <3>1, <4>1, HeadTail DEF Apart, CatalogueTypes
    <3> QED
      BY <2>2, <3>2, <3>3, Appended DEF CatalogueTypes
  <2>6. Apart(Append(caches, d), Tail(todo))
    <3> SUFFICES ASSUME NEW i \in 1..Len(Append(caches, d)), NEW j \in 1..Len(Tail(todo))
                 PROVE  /\ Tail(todo)[j].name # Append(caches, d)[i].name
                        /\ Tail(todo)[j].name \notin Append(caches, d)[i].aliases
      BY DEF Apart
    <3>1. CASE i \in 1..Len(caches)
      BY <2>2, <2>4, <3>1, Appended DEF Apart, CatalogueTypes
    <3>2. CASE i = Len(caches) + 1
      <4>1. Append(caches, d)[i] = todo[1]
        BY <2>1, <2>2, <3>2, Appended, HeadTail DEF CatalogueTypes
      <4>2. 1 \in 1..Len(todo) /\ j + 1 \in 1..Len(todo) /\ Tail(todo)[j] = todo[j + 1] /\ 1 < j + 1
        BY <2>1, HeadTail DEF CatalogueTypes
      <4> QED
        BY <2>1, <4>1, <4>2 DEF Owned
    <3> QED
      BY <2>2, <3>1, <3>2, Appended DEF CatalogueTypes
  <2>7. caches' = Append(caches, d) \/ caches' = caches
    BY <1>3 DEF FilterCache
  <2> QED
    BY <2>1, <2>3, <2>4, <2>5, <2>6, <2>7
<1>4. CASE OpenPlugins \/ LoadPlugin \/ EndPlugins \/ PluginsBreakOff
  BY <1>4 DEF OpenPlugins, LoadPlugin, EndPlugins, PluginsBreakOff, TakeLoaded
<1>5. CASE MergePlugin
  <2>1. CASE todo # <<>>
    BY <1>5, <2>1, HeadTail, MergedProperties DEF MergePlugin, CatalogueTypes
  <2>2. CASE todo = <<>>
    BY <1>5, <2>2 DEF MergePlugin
  <2> QED
    BY <2>1, <2>2
<1>6. CASE Ignore \/ Missing \/ Approach \/ Inspect \/ Count \/ WalkEnd \/ WalkFails \/ FinishScan
           \/ Crash \/ World \/ UNCHANGED scanVars
  BY <1>6, Measuring
<1> QED
  BY <1>1, <1>2, <1>3, <1>4, <1>5, <1>6 DEF ScanNext, ScanStep, Advance

\* ScannerEngine::scan, mergeCaches: whatever the configuration and the plugins
\* define, no cache of the catalogue has the name or an alias of an earlier one.
THEOREM OwnerCorrect == ScanSpec => []OneOwnerPerName
<1>1. OwnerInv => OneOwnerPerName
  BY DEF OwnerInv, Owned, OneOwnerPerName
<1> QED
  BY OwnerInit, OwnerNext, TypesAlways, <1>1, PTL DEF ScanSpec

-----------------------------------------------------------------------------
(* Plugins *)

\* A list of known caches stays one when one more is appended or merged, and
\* when its head is taken off.
LEMMA KnownLists ==
    ASSUME NEW s, NEW list \in Seq(Definition), NEW d \in Definition,
           AllKnown(s, list), Known(s, d)
    PROVE  AllKnown(s, Append(list, d)) /\ AllKnown(s, Merged(list, d))
<1>1. AllKnown(s, Append(list, d))
  <2> SUFFICES ASSUME NEW j \in 1..Len(Append(list, d)) PROVE Known(s, Append(list, d)[j])
    BY DEF AllKnown
  <2>1. CASE j \in 1..Len(list)
    BY <2>1, Appended DEF AllKnown
  <2>2. CASE j = Len(list) + 1
    BY <2>2, Appended
  <2> QED
    BY <2>1, <2>2, Appended
<1> QED
  BY <1>1 DEF Merged

LEMMA KnownHead ==
    ASSUME NEW s, NEW list \in Seq(Definition), list # <<>>, AllKnown(s, list)
    PROVE  Known(s, Head(list)) /\ AllKnown(s, Tail(list))
BY HeadTail DEF AllKnown

\* After the merge the name is taken, and those that were taken stay so.
LEMMA TakenMerged ==
    ASSUME NEW list \in Seq(Definition), NEW d \in Definition
    PROVE  /\ Taken(Merged(list, d), d.name)
           /\ \A n : Taken(list, n) => Taken(Merged(list, d), n)
<1>1. CASE Taken(list, d.name)
  BY <1>1 DEF Merged
<1>2. CASE ~Taken(list, d.name)
  <2>1. Merged(list, d) = Append(list, d)
    BY <1>2 DEF Merged
  <2>2. Len(list) + 1 \in 1..Len(Append(list, d)) /\ Append(list, d)[Len(list) + 1] = d
    BY Appended, LenProperties
  <2>3. ASSUME NEW n, Taken(list, n) PROVE Taken(Append(list, d), n)
    <3>1. PICK i \in 1..Len(list) : list[i].name = n \/ n \in list[i].aliases
      BY <2>3 DEF Taken
    <3>2. i \in 1..Len(Append(list, d)) /\ Append(list, d)[i] = list[i]
      BY Appended
    <3> QED
      BY <3>1, <3>2 DEF Taken
  <2>4. Taken(Append(list, d), d.name)
    BY <2>2 DEF Taken
  <2> QED
    BY <2>1, <2>3, <2>4
<1> QED
  BY <1>1, <1>2

LEMMA IsolationInit == ScanInit => IsolationInv
<1> SUFFICES ASSUME ScanInit PROVE IsolationInv
  OBVIOUS
<1>1. stage = "idle" /\ todo = <<>> /\ caches = <<>> /\ files = setup.files /\ loaded = <<>> /\ failed = {}
  BY DEF ScanInit
<1>2. ReadInv
  BY <1>1 DEF ReadInv, Catalogued
<1>3. KnownInv /\ BuiltinInv /\ PluginInv
  BY <1>1 DEF KnownInv, AllKnown, BuiltinInv, PluginInv, Catalogued
<1> QED
  BY <1>2, <1>3 DEF IsolationInv

\* One file more has been read.
LEMMA ReadOne ==
    ASSUME CatalogueTypes, ReadInv, LoadPlugin
    PROVE  ReadInv'
<1> USE DEF ReadInv
<1>1. UNCHANGED <<setup, stage>> /\ stage = "plugins"
  BY DEF LoadPlugin
<1>2. PICK f \in files :
        /\ files' = files \ {f}
        /\ IF Loads(f) THEN loaded' = Append(loaded, f.cache) /\ failed' = failed
           ELSE loaded' = loaded /\ failed' = IF f.text = "other" THEN failed ELSE failed \cup {f}
  BY DEF LoadPlugin
<1>3. setup.files \ files' = (setup.files \ files) \cup {f} /\ f \in PluginFile
  BY <1>2, SetupTypes DEF CatalogueTypes
<1>4. {loaded'[i] : i \in 1..Len(loaded')} = {g.cache : g \in {h \in setup.files \ files' : Loads(h)}}
  <2>1. CASE Loads(f)
    <3>1. f.cache \in Definition
      BY <1>3 DEF PluginFile
    <3>2. {loaded'[i] : i \in 1..Len(loaded')} = {loaded[i] : i \in 1..Len(loaded)} \cup {f.cache}
      <4>1. loaded' = Append(loaded, f.cache)
        BY <1>2, <2>1
      <4> QED
        BY <3>1, <4>1, AppendedRange DEF CatalogueTypes
    <3>3. {h \in setup.files \ files' : Loads(h)} = {h \in setup.files \ files : Loads(h)} \cup {f}
      BY <1>3, <2>1
    <3> DEFINE A == {h \in setup.files \ files : Loads(h)}
    <3>4. {g.cache : g \in A \cup {f}} = {g.cache : g \in A} \cup {f.cache}
      OBVIOUS
    <3>5. {loaded[i] : i \in 1..Len(loaded)} = {g.cache : g \in A}
      OBVIOUS
    <3> HIDE DEF A
    <3> QED
      BY <3>2, <3>3, <3>4, <3>5 DEF A
  <2>2. CASE ~Loads(f)
    <3>1. {h \in setup.files \ files' : Loads(h)} = {h \in setup.files \ files : Loads(h)}
      BY <1>3, <2>2
    <3>2. loaded' = loaded
      BY <1>2, <2>2
    <3> QED
      BY <3>1, <3>2
  <2> QED
    BY <2>1, <2>2
<1>5. failed' = {g \in setup.files \ files' : ~Loads(g) /\ g.text # "other"}
  <2>1. CASE Loads(f)
    BY <1>2, <1>3, <2>1
  <2>2. CASE ~Loads(f) /\ f.text = "other"
    BY <1>2, <1>3, <2>2
  <2>3. CASE ~Loads(f) /\ f.text # "other"
    BY <1>2, <1>3, <2>3
  <2> QED
    BY <2>1, <2>2, <2>3
<1>6. ~(stage' = "merge" \/ Catalogued')
  BY <1>1 DEF Catalogued
<1> QED
  BY <1>1, <1>4, <1>5, <1>6

LEMMA ReadNext == CatalogueTypes /\ ReadInv /\ [ScanNext]_scanVars => ReadInv'
<1> SUFFICES ASSUME CatalogueTypes, ReadInv, [ScanNext]_scanVars PROVE ReadInv'
  OBVIOUS
<1>1. CASE StartScan \/ MergeCustom \/ FilterCache
  <2>1. UNCHANGED <<setup, files, loaded, failed>> /\ stage' \in {"custom", "filter"}
    BY <1>1 DEF StartScan, MergeCustom, FilterCache
  <2> QED
    BY <2>1 DEF ReadInv, Catalogued
<1>2. CASE OpenPlugins
  <2>1. setup' = setup /\ files' = setup.files /\ loaded' = <<>> /\ failed' = {} /\ stage' = "plugins"
    BY <1>2 DEF OpenPlugins
  <2> QED
    BY <2>1 DEF ReadInv, Catalogued
<1>3. CASE LoadPlugin
  BY <1>3, ReadOne
<1>4. CASE EndPlugins \/ PluginsBreakOff
  <2>1. UNCHANGED <<setup, files, loaded, failed>> /\ (setup.listable => files = {})
    BY <1>4 DEF EndPlugins, PluginsBreakOff, TakeLoaded
  <2> QED
    BY <2>1 DEF ReadInv
<1>5. CASE MergePlugin
  <2>1. UNCHANGED <<setup, files, loaded, failed>> /\ stage = "merge"
    BY <1>5 DEF MergePlugin
  <2> QED
    BY <2>1 DEF ReadInv
<1>6. CASE Ignore \/ Missing \/ Approach \/ Inspect \/ Count \/ WalkEnd \/ WalkFails \/ FinishScan
           \/ Crash \/ World \/ UNCHANGED scanVars
  <2>1. /\ UNCHANGED <<setup, files, loaded, failed>>
        /\ setup.listable /\ (stage' = "merge" \/ Catalogued') => stage = "merge" \/ Catalogued
    BY <1>6, Measuring DEF Catalogued
  <2> QED
    BY <2>1 DEF ReadInv
<1> QED
  BY <1>1, <1>2, <1>3, <1>4, <1>5, <1>6 DEF ScanNext, ScanStep, Advance

LEMMA KnownNext == CatalogueTypes /\ ReadInv /\ KnownInv /\ [ScanNext]_scanVars => KnownInv'
<1> SUFFICES ASSUME CatalogueTypes, ReadInv, KnownInv, [ScanNext]_scanVars PROVE KnownInv'
  OBVIOUS
<1> USE DEF KnownInv
<1>0. todo \in Seq(Definition) /\ caches \in Seq(Definition) /\ loaded \in Seq(Definition)
  BY DEF CatalogueTypes
<1>1. CASE StartScan
  <2>1. setup' = setup /\ caches' = Builtin /\ todo' = setup.custom
    BY <1>1 DEF StartScan, GetCaches
  <2>2. AllKnown(setup, Builtin) /\ AllKnown(setup, setup.custom)
    BY DEF AllKnown, Known
  <2> QED
    BY <2>1, <2>2
<1>2. CASE MergeCustom
  <2>1. setup' = setup /\ AllKnown(setup, todo) /\ AllKnown(setup, caches)
    BY <1>2 DEF MergeCustom
  <2>2. CASE todo # <<>>
    <3>1. todo' = Tail(todo) /\ caches' = Merged(caches, Head(todo)) /\ Head(todo) \in Definition
      BY <1>0, <1>2, <2>2, HeadTail DEF MergeCustom
    <3> QED
      BY <1>0, <2>1, <2>2, <3>1, KnownHead, KnownLists
  <2>3. CASE todo = <<>>
    <3>1. todo' = caches /\ caches' = <<>>
      BY <1>2, <2>3 DEF MergeCustom
    <3>2. AllKnown(setup, <<>>)
      BY DEF AllKnown
    <3> QED
      BY <2>1, <3>1, <3>2
  <2> QED
    BY <2>2, <2>3
<1>3. CASE FilterCache
  <2>1. /\ setup' = setup /\ AllKnown(setup, todo) /\ AllKnown(setup, caches)
        /\ todo # <<>> /\ todo' = Tail(todo) /\ Head(todo) \in Definition
        /\ caches' = Append(caches, Head(todo)) \/ caches' = caches
    BY <1>0, <1>3, HeadTail DEF FilterCache
  <2> QED
    BY <1>0, <2>1, KnownHead, KnownLists
<1>4. CASE OpenPlugins \/ LoadPlugin
  <2>1. UNCHANGED <<setup, caches>> /\ stage' = "plugins"
    BY <1>4 DEF OpenPlugins, LoadPlugin
  <2> QED
    BY <2>1
<1>5. CASE EndPlugins \/ PluginsBreakOff
  <2>1. UNCHANGED <<setup, caches>> /\ todo' = loaded
    BY <1>5 DEF EndPlugins, PluginsBreakOff, TakeLoaded
  <2>2. ASSUME NEW j \in 1..Len(loaded) PROVE Known(setup, loaded[j])
    <3>1. loaded[j] \in {f.cache : f \in {g \in setup.files \ files : Loads(g)}}
      BY DEF ReadInv
    <3> QED
      BY <3>1 DEF Known
  <2>3. AllKnown(setup, loaded)
    BY <2>2 DEF AllKnown
  <2> QED
    BY <2>1, <2>3
<1>6. CASE MergePlugin
  <2>1. setup' = setup /\ AllKnown(setup, todo) /\ AllKnown(setup, caches)
    BY <1>6 DEF MergePlugin
  <2>2. CASE todo # <<>>
    <3>1. /\ todo' = Tail(todo) /\ Head(todo) \in Definition
          /\ caches' = Merged(caches, Head(todo)) \/ caches' = caches
      BY <1>0, <1>6, <2>2, HeadTail DEF MergePlugin
    <3> QED
      BY <1>0, <2>1, <2>2, <3>1, KnownHead, KnownLists
  <2>3. CASE todo = <<>>
    BY <1>6, <2>1, <2>3 DEF MergePlugin
  <2> QED
    BY <2>2, <2>3
<1>7. CASE Ignore \/ Missing \/ Approach \/ Inspect \/ Count \/ WalkEnd \/ WalkFails \/ FinishScan
           \/ Crash \/ World \/ UNCHANGED scanVars
  BY <1>7, Measuring
<1> QED
  BY <1>1, <1>2, <1>3, <1>4, <1>5, <1>6, <1>7 DEF ScanNext, ScanStep, Advance

LEMMA BuiltinNext == CatalogueTypes /\ BuiltinInv /\ [ScanNext]_scanVars => BuiltinInv'
<1> SUFFICES ASSUME CatalogueTypes, BuiltinInv, [ScanNext]_scanVars PROVE BuiltinInv'
  OBVIOUS
<1> USE DEF BuiltinInv
<1>1. CASE StartScan
  BY <1>1 DEF StartScan, GetCaches, Has, Catalogued
<1>2. CASE MergeCustom
  <2>1. setup' = setup /\ stage = "custom"
    BY <1>2 DEF MergeCustom
  <2>2. CASE todo # <<>>
    <3>1. stage' = "custom" /\ caches' = Merged(caches, Head(todo))
      BY <1>2, <2>1, <2>2 DEF MergeCustom
    <3>2. \A c : Has(caches, c) => Has(caches', c)
      BY <2>2, <3>1, HeadTail, MergedProperties DEF CatalogueTypes
    <3> QED
      BY <2>1, <3>1, <3>2 DEF Catalogued
  <2>3. CASE todo = <<>>
    <3>1. stage' = "filter" /\ todo' = caches
      BY <1>2, <2>3 DEF MergeCustom
    <3> QED
      BY <2>1, <3>1 DEF Catalogued
  <2> QED
    BY <2>2, <2>3
<1>3. CASE FilterCache
  <2>1. /\ UNCHANGED <<setup, stage>> /\ stage = "filter"
        /\ todo # <<>> /\ todo' = Tail(todo)
    BY <1>3 DEF FilterCache
  <2>2. ASSUME NEW i \in 1..Len(Builtin), Selected(Builtin[i])
        PROVE  Has(caches', Builtin[i]) \/ Has(todo', Builtin[i])
    <3>1. CASE Has(caches, Builtin[i])
      BY <1>3, <2>1, <3>1, HeadTail, Appended DEF FilterCache, CatalogueTypes, Has
    <3>2. CASE Has(todo, Builtin[i])
      <4>1. CASE Builtin[i] = Head(todo)
        <5>1. caches' = Append(caches, Builtin[i])
          BY <1>3, <2>2, <4>1 DEF FilterCache
        <5> QED
          BY <2>1, <4>1, <5>1, HeadTail, Appended, LenProperties DEF CatalogueTypes, Has
      <4> QED
        BY <2>1, <3>2, <4>1, HeadTail DEF CatalogueTypes
    <3> QED
      BY <2>1, <2>2, <3>1, <3>2
  <2>3. ASSUME NEW i \in 1..Len(Builtin) PROVE Selected(Builtin[i])' = Selected(Builtin[i])
    BY <2>1 DEF Selected
  <2> QED
    BY <2>1, <2>2, <2>3 DEF Catalogued
<1>4. CASE OpenPlugins
  <2>1. stage = "filter" /\ todo = <<>> /\ stage' = "plugins" /\ UNCHANGED <<setup, caches>>
    BY <1>4 DEF OpenPlugins
  <2>2. ASSUME NEW i \in 1..Len(Builtin), Selected(Builtin[i]) PROVE Has(caches', Builtin[i])
    BY <2>1, <2>2 DEF Has
  <2> QED
    BY <2>1, <2>2 DEF Selected
<1>5. CASE LoadPlugin \/ EndPlugins \/ PluginsBreakOff
  <2>1. UNCHANGED <<setup, caches>> /\ stage = "plugins" /\ stage' \in {"plugins", "merge"}
    BY <1>5 DEF LoadPlugin, EndPlugins, PluginsBreakOff, TakeLoaded
  <2> QED
    BY <2>1 DEF Selected, Has
<1>6. CASE MergePlugin
  <2>1. setup' = setup /\ stage = "merge" /\ stage' \in {"merge", "measure"}
    BY <1>6 DEF MergePlugin
  <2>2. \A c : Has(caches, c) => Has(caches', c)
    <3>1. CASE todo # <<>> /\ Selected(Head(todo))
      <4>1. caches' = Merged(caches, Head(todo)) /\ Head(todo) \in Definition
        BY <1>6, <3>1, HeadTail DEF MergePlugin, CatalogueTypes
      <4> QED
        BY <4>1, MergedProperties DEF CatalogueTypes
    <3>2. CASE ~(todo # <<>> /\ Selected(Head(todo)))
      BY <1>6, <3>2 DEF MergePlugin
    <3> QED
      BY <3>1, <3>2
  <2>3. ASSUME NEW i \in 1..Len(Builtin) PROVE Selected(Builtin[i])' = Selected(Builtin[i])
    BY <2>1 DEF Selected
  <2> QED
    BY <2>1, <2>2, <2>3
<1>7. CASE Ignore \/ Missing \/ Approach \/ Inspect \/ Count \/ WalkEnd \/ WalkFails \/ FinishScan
           \/ Crash \/ World \/ UNCHANGED scanVars
  <2>1. /\ UNCHANGED <<setup, caches>>
        /\ UNCHANGED <<stage, todo>> \/ stage' \notin {"custom", "filter", "plugins", "merge"}
        /\ Catalogued' => Catalogued
    BY <1>7, Measuring DEF Catalogued
  <2> QED
    BY <2>1 DEF Selected, Has
<1> QED
  BY <1>1, <1>2, <1>3, <1>4, <1>5, <1>6, <1>7 DEF ScanNext, ScanStep, Advance

LEMMA PluginNext == CatalogueTypes /\ ReadInv /\ PluginInv /\ [ScanNext]_scanVars => PluginInv'
<1> SUFFICES ASSUME CatalogueTypes, ReadInv, PluginInv, [ScanNext]_scanVars PROVE PluginInv'
  OBVIOUS
<1>0. setup' = setup
  BY SetupStays
<1> SUFFICES ASSUME setup.listable, NEW f \in setup.files, Loads(f), Selected(f.cache)
             PROVE  /\ stage' = "merge" => Taken(caches', f.cache.name) \/ Has(todo', f.cache)
                    /\ Catalogued' => Taken(caches', f.cache.name)
  BY <1>0 DEF PluginInv, Selected
<1>1. /\ stage = "merge" => Taken(caches, f.cache.name) \/ Has(todo, f.cache)
      /\ Catalogued => Taken(caches, f.cache.name)
  BY DEF PluginInv
<1>2. CASE StartScan \/ MergeCustom \/ FilterCache \/ OpenPlugins \/ LoadPlugin
  <2>1. stage' \in {"custom", "filter", "plugins"}
    BY <1>2 DEF StartScan, MergeCustom, FilterCache, OpenPlugins, LoadPlugin
  <2> QED
    BY <2>1 DEF Catalogued
\* Every file has been read: what it defines is among what is merged next.
<1>3. CASE EndPlugins \/ PluginsBreakOff
  <2>1. stage' = "merge" /\ todo' = loaded /\ files = {}
    BY <1>3 DEF EndPlugins, PluginsBreakOff, TakeLoaded
  <2>2. f.cache \in {loaded[i] : i \in 1..Len(loaded)}
    BY <2>1 DEF ReadInv
  <2>3. Has(loaded, f.cache)
    BY <2>2 DEF Has
  <2> QED
    BY <2>1, <2>3 DEF Catalogued
<1>4. CASE MergePlugin
  <2>1. stage = "merge"
    BY <1>4 DEF MergePlugin
  <2>2. CASE todo # <<>>
    <3> DEFINE d == Head(todo)
    <3>1. /\ stage' = "merge" /\ todo' = Tail(todo)
          /\ caches' = IF Selected(d) THEN Merged(caches, d) ELSE caches
      BY <1>4, <2>1, <2>2 DEF MergePlugin
    <3>2. d \in Definition /\ (Has(todo, f.cache) => f.cache = d \/ Has(todo', f.cache))
      BY <2>2, <3>1, HeadTail DEF CatalogueTypes
    <3>3. ASSUME Taken(caches, f.cache.name) PROVE Taken(caches', f.cache.name)
      BY <3>1, <3>2, <3>3, TakenMerged DEF CatalogueTypes
    <3>4. ASSUME f.cache = d PROVE Taken(caches', f.cache.name)
      BY <3>1, <3>2, <3>4, TakenMerged DEF CatalogueTypes
    <3> HIDE DEF d
    <3> QED
      BY <1>1, <2>1, <3>1, <3>2, <3>3, <3>4 DEF Catalogued
  <2>3. CASE todo = <<>>
    <3>1. caches' = caches /\ stage' = "measure" /\ ~Has(todo, f.cache)
      BY <1>4, <2>3 DEF MergePlugin, Has
    <3> QED
      BY <1>1, <2>1, <3>1
  <2> QED
    BY <2>2, <2>3
<1>5. CASE Ignore \/ Missing \/ Approach \/ Inspect \/ Count \/ WalkEnd \/ WalkFails \/ FinishScan
           \/ Crash \/ World \/ UNCHANGED scanVars
  <2>1. /\ caches' = caches
        /\ stage' = "merge" => stage = "merge" /\ todo' = todo
        /\ Catalogued' => Catalogued
    BY <1>5, Measuring DEF Catalogued
  <2> QED
    BY <1>1, <2>1
<1> QED
  BY <1>2, <1>3, <1>4, <1>5 DEF ScanNext, ScanStep, Advance

LEMMA IsolationNext == CatalogueTypes /\ IsolationInv /\ [ScanNext]_scanVars => IsolationInv'
BY ReadNext, KnownNext, BuiltinNext, PluginNext DEF IsolationInv

LEMMA IsolationImplies == IsolationInv => PluginsIsolated
<1> SUFFICES ASSUME IsolationInv PROVE PluginsIsolated
  OBVIOUS
<1>1. Catalogued => \A i \in 1..Len(Builtin) : Selected(Builtin[i]) =>
                       \E j \in 1..Len(caches) : caches[j] = Builtin[i]
  BY DEF IsolationInv, BuiltinInv, Has
<1>2. Catalogued /\ setup.listable =>
         /\ \A f \in setup.files : Loads(f) /\ Selected(f.cache) => Taken(caches, f.cache.name)
         /\ failed = {f \in setup.files : ~Loads(f) /\ f.text # "other"}
  BY DEF IsolationInv, ReadInv, PluginInv
<1>3. \A j \in 1..Len(caches) : Known(setup, caches[j])
  BY DEF IsolationInv, KnownInv, AllKnown
<1> QED
  BY <1>1, <1>2, <1>3 DEF PluginsIsolated, Known

\* PluginLoader::loadPlugins and mergeCaches: whatever the plugin directory holds
\* and in whichever order, each valid file's cache is in the catalogue unless its
\* name is taken already, each bad file is reported and costs no other cache its
\* place, every selected built-in cache is there, and nothing else is.
THEOREM IsolationCorrect == ScanSpec => []PluginsIsolated
<1>1. IsolationInv => PluginsIsolated
  BY IsolationImplies
<1> QED
  BY IsolationInit, IsolationNext, TypesAlways, <1>1, PTL DEF ScanSpec

-----------------------------------------------------------------------------
(* Results follow the catalogue *)

About(r, cache) == r.name = cache.name /\ r.aliases = cache.aliases

\* The strengthening: what is published and what is still to do are the two
\* parts of a catalogue whose caches are all selected.
FollowInv ==
    /\ stage \in {"idle", "custom", "filter", "plugins", "merge"} => results = <<>>
    /\ stage \in {"filter", "plugins", "merge", "measure", "inspect", "walk", "done"} =>
          \A i \in 1..Len(caches) : Selected(caches[i])
    /\ stage \in {"measure", "inspect", "walk"} =>
          /\ Len(results) + Len(todo) = Len(caches)
          /\ \A i \in 1..Len(results) : About(results[i], caches[i])
          /\ \A i \in 1..Len(todo) : todo[i] = caches[Len(results) + i]
    /\ stage \in {"inspect", "walk"} => About(result, Head(todo))
    /\ ResultsFollowCatalogue

\* The last filter of scan lets pass what the first one, on the definitions, did.
LEMMA SelectedIsShown ==
    ASSUME setup \in Setups, NEW cache \in Definition, NEW r \in Result,
           Selected(cache), About(r, cache)
    PROVE  Shown(r)
<1>1. setup.filters \subseteq Name
  BY ScannerAssumption
<1>2. CASE setup.filters = {}
  BY <1>2 DEF Shown
<1>3. CASE cache.name \in setup.filters
  BY <1>1, <1>3, ScannerAssumption DEF Shown, MatchesQuery, About
<1>4. CASE cache.aliases \cap setup.filters # {}
  <2>1. PICK f \in setup.filters : f \in cache.aliases
    BY <1>4
  <2> QED
    BY <1>1, <2>1, ScannerAssumption DEF Shown, MatchesQuery, About
<1> QED
  BY <1>2, <1>3, <1>4 DEF Selected

LEMMA FollowInit == ScanInit => FollowInv
BY DEF ScanInit, FollowInv, ResultsFollowCatalogue

\* A result more, and a cache less to look at.
LEMMA FollowPublish ==
    ASSUME CatalogueTypes, ScanTypeOK, FollowInv, stage \in {"measure", "inspect", "walk"},
           todo # <<>>, NEW r \in Result, About(r, Head(todo)), Publish(r),
           UNCHANGED <<setup, caches>>
    PROVE  FollowInv'
<1> DEFINE n == Len(results)
<1>1. n \in Nat /\ Len(todo) \in Nat \ {0} /\ results \in Seq(Result) /\ todo \in Seq(Definition)
  BY EmptySeq DEF CatalogueTypes, ScanTypeOK
<1>2. results' = Append(results, r) /\ todo' = Tail(todo) /\ stage' = "measure"
  BY DEF Publish
<1>3. /\ Len(results') = n + 1 /\ results'[n + 1] = r
      /\ \A i \in 1..n : results'[i] = results[i]
      /\ \A i \in 1..Len(results') : i \in 1..n \/ i = n + 1
  BY <1>1, <1>2, Appended
<1>4. /\ Head(todo) = todo[1] /\ 1 \in 1..Len(todo) /\ Len(todo') = Len(todo) - 1
      /\ \A i \in 1..Len(todo') : i + 1 \in 1..Len(todo) /\ todo'[i] = todo[i + 1]
  BY <1>1, <1>2, HeadTail, HeadTailProperties
<1>5. /\ n + Len(todo) = Len(caches)
      /\ \A i \in 1..n : About(results[i], caches[i])
      /\ \A i \in 1..Len(todo) : todo[i] = caches[n + i]
      /\ \A i \in 1..Len(caches) : Selected(caches[i])
  BY DEF FollowInv
<1>6. caches' = caches /\ setup' = setup /\ Len(caches) \in Nat
  BY DEF CatalogueTypes
<1> HIDE DEF n
<1>7. Len(results') + Len(todo') = Len(caches') /\ Len(results') <= Len(caches')
  BY <1>1, <1>3, <1>4, <1>5, <1>6
<1>8. \A i \in 1..Len(results') : About(results'[i], caches'[i])
  <2>1. About(results'[n + 1], caches[n + 1])
    BY <1>3, <1>4, <1>5
  <2> QED
    BY <1>3, <1>5, <1>6, <2>1
<1>9. \A i \in 1..Len(todo') : todo'[i] = caches'[Len(results') + i]
  <2> SUFFICES ASSUME NEW i \in 1..Len(todo') PROVE todo[i + 1] = caches[(n + 1) + i]
    BY <1>3, <1>4, <1>6
  <2>1. todo[i + 1] = caches[n + (i + 1)] /\ i \in Nat
    BY <1>1, <1>4, <1>5
  <2>2. n + (i + 1) = (n + 1) + i
    BY <1>1, <2>1
  <2> QED
    BY <2>1, <2>2
<1>10. \A i \in 1..Len(caches') : Selected(caches[i])'
  BY <1>5, <1>6 DEF Selected
<1>11. \A i \in 1..Len(results') : results'[i].name = caches'[i].name
  BY <1>8 DEF About
<1> QED
  BY <1>2, <1>6, <1>7, <1>8, <1>9, <1>10, <1>11 DEF FollowInv, ResultsFollowCatalogue

LEMMA FollowNext ==
    CatalogueTypes /\ ScanTypeOK /\ FollowInv /\ [ScanNext]_scanVars => FollowInv'
<1> SUFFICES ASSUME CatalogueTypes, ScanTypeOK, FollowInv, [ScanNext]_scanVars PROVE FollowInv'
  OBVIOUS
<1>0. /\ todo \in Seq(Definition) /\ caches \in Seq(Definition) /\ results \in Seq(Result)
      /\ setup \in Setups
  BY DEF CatalogueTypes, ScanTypeOK
<1>1. CASE StartScan
  BY <1>1 DEF StartScan, FollowInv, ResultsFollowCatalogue
<1>2. CASE MergeCustom
  <2>1. results' = results /\ results = <<>> /\ stage' \in {"custom", "filter"}
        /\ (stage' = "filter" => caches' = <<>>)
    BY <1>2 DEF MergeCustom, measureVars, FollowInv
  <2> QED
    BY <2>1 DEF FollowInv, ResultsFollowCatalogue
<1>3. CASE FilterCache
  <2>1. /\ UNCHANGED <<setup, stage, results>> /\ stage = "filter" /\ todo # <<>>
        /\ caches' = IF Selected(Head(todo)) THEN Append(caches, Head(todo)) ELSE caches
    BY <1>3 DEF FilterCache, measureVars
  <2>2. \A i \in 1..Len(caches') : Selected(caches'[i])
    <3>1. \A i \in 1..Len(caches) : Selected(caches[i])
      BY <2>1 DEF FollowInv
    <3>2. CASE Selected(Head(todo))
      BY <1>0, <2>1, <3>1, <3>2, HeadTail, Appended
    <3>3. CASE ~Selected(Head(todo))
      BY <2>1, <3>1, <3>3
    <3> QED
      BY <3>2, <3>3
  <2> QED
    BY <2>1, <2>2 DEF FollowInv, ResultsFollowCatalogue, Selected
<1>4. CASE OpenPlugins \/ LoadPlugin \/ EndPlugins \/ PluginsBreakOff
  <2>1. /\ UNCHANGED <<setup, caches, results>>
        /\ stage \in {"filter", "plugins"} /\ stage' \in {"plugins", "merge"}
    BY <1>4 DEF OpenPlugins, LoadPlugin, EndPlugins, PluginsBreakOff, TakeLoaded, measureVars
  <2> QED
    BY <2>1 DEF FollowInv, ResultsFollowCatalogue, Selected
<1>5. CASE MergePlugin
  <2>1. UNCHANGED <<setup, results>> /\ stage = "merge" /\ results = <<>>
    BY <1>5 DEF MergePlugin, measureVars, FollowInv
  <2>2. \A i \in 1..Len(caches) : Selected(caches[i])
    BY <2>1 DEF FollowInv
  <2>3. CASE todo # <<>>
    <3>1. stage' = "merge"
          /\ caches' = IF Selected(Head(todo)) THEN Merged(caches, Head(todo)) ELSE caches
      BY <1>5, <2>1, <2>3 DEF MergePlugin
    <3>2. \A i \in 1..Len(caches') : Selected(caches'[i])
      <4>1. CASE Selected(Head(todo)) /\ ~Taken(caches, Head(todo).name)
        BY <1>0, <2>2, <2>3, <3>1, <4>1, HeadTail, Appended DEF Merged
      <4>2. CASE ~(Selected(Head(todo)) /\ ~Taken(caches, Head(todo).name))
        BY <2>2, <3>1, <4>2 DEF Merged
      <4> QED
        BY <4>1, <4>2
    <3> QED
      BY <2>1, <3>1, <3>2 DEF FollowInv, ResultsFollowCatalogue, Selected
  <2>4. CASE todo = <<>>
    <3>1. stage' = "measure" /\ caches' = caches /\ todo' = caches /\ results' = <<>>
      BY <1>5, <2>1, <2>4 DEF MergePlugin
    <3>2. Len(results') = 0 /\ Len(caches') \in Nat /\ \A i \in 1..Len(caches') : 0 + i = i
      BY <1>0, <3>1
    <3> QED
      BY <2>1, <2>2, <3>1, <3>2 DEF FollowInv, ResultsFollowCatalogue, Selected
  <2> QED
    BY <2>3, <2>4
<1>6. CASE Ignore \/ Missing
  <2>1. /\ stage = "measure" /\ todo # <<>> /\ Current = Head(todo) /\ UNCHANGED <<setup, caches>>
    BY <1>6 DEF Ignore, Missing, Turn, Current
  <2>2. PICK r \in Outlines(Current) : Publish(r) \/ Publish([r EXCEPT !.skipped = TRUE])
    BY <1>6 DEF Ignore, Missing
  <2>3. Current \in Definition
    BY <1>0, <2>1, HeadTail
  <2>4. /\ r \in Result /\ About(r, Head(todo)) /\ [r EXCEPT !.skipped = TRUE] \in Result
        /\ About([r EXCEPT !.skipped = TRUE], Head(todo))
    BY <2>1, <2>3, OutlineFacts DEF About
  <2> QED
    BY <2>1, <2>2, <2>4, FollowPublish
<1>7. CASE Approach
  <2>1. /\ stage = "measure" /\ todo # <<>> /\ Current = Head(todo) /\ stage' = "inspect"
        /\ UNCHANGED <<setup, todo, caches, results>>
    BY <1>7 DEF Approach, Turn, Current, catalogueVars
  <2>2. PICK r \in Outlines(Current) : result' = r
    BY <1>7 DEF Approach
  <2>3. Current \in Definition
    BY <1>0, <2>1, HeadTail
  <2>4. About(result', Head(todo'))
    BY <2>1, <2>2, <2>3, OutlineFacts DEF About
  <2> QED
    BY <2>1, <2>4 DEF FollowInv, ResultsFollowCatalogue, Selected
<1>8. CASE Inspect
  <2>1. stage = "inspect" /\ todo # <<>> /\ UNCHANGED <<setup, caches>> /\ About(result, Head(todo))
        /\ result \in Result
    BY <1>8 DEF Inspect, CatalogueTypes, FollowInv, ScanTypeOK
  <2>2. CASE result.location \in present
    <3>1. stage' = "walk" /\ UNCHANGED <<todo, results, result>>
      BY <1>8, <2>2 DEF Inspect
    <3> QED
      BY <2>1, <3>1 DEF FollowInv, ResultsFollowCatalogue, Selected
  <2>3. CASE result.location \notin present
    <3>1. Publish(result)
      BY <1>8, <2>3 DEF Inspect
    <3> QED
      BY <2>1, <3>1, FollowPublish
  <2> QED
    BY <2>2, <2>3
<1>9. CASE Count
  <2>1. /\ stage = "walk" /\ UNCHANGED <<setup, stage, todo, caches, results>> /\ result \in Result
        /\ \E e \in Entry : result' = [result EXCEPT !.bytes = @ + Counted(e)]
    BY <1>9, ScannerAssumption DEF Count, catalogueVars, ScanTypeOK
  <2>2. result'.name = result.name /\ result'.aliases = result.aliases
    BY <2>1 DEF Result
  <2> QED
    BY <2>1, <2>2 DEF FollowInv, ResultsFollowCatalogue, Selected, About
<1>10. CASE WalkEnd \/ WalkFails
  <2>1. stage = "walk" /\ todo # <<>> /\ UNCHANGED <<setup, caches>> /\ About(result, Head(todo))
        /\ result \in Result /\ Publish(Found)
    BY <1>10 DEF WalkEnd, WalkFails, CatalogueTypes, FollowInv, ScanTypeOK
  <2>2. Found \in Result /\ About(Found, Head(todo))
    BY <2>1 DEF Found, Result, About
  <2> QED
    BY <2>1, <2>2, FollowPublish
<1>11. CASE FinishScan
  <2> DEFINE S == {r \in Range(results) : Shown(r)}
  <2>1. /\ stage = "measure" /\ (interrupted \/ todo = <<>>) /\ stage' = "done"
        /\ results' = Filtered(results, S) /\ UNCHANGED <<setup, todo, caches, interrupted>>
    BY <1>11 DEF FinishScan, catalogueVars, worldVars
  <2>2. /\ Len(results) + Len(todo) = Len(caches)
        /\ \A i \in 1..Len(results) : About(results[i], caches[i])
        /\ \A i \in 1..Len(caches) : Selected(caches[i])
    BY <2>1 DEF FollowInv
  <2>3. Len(results) \in Nat /\ Len(todo) \in Nat /\ Len(caches) \in Nat
    BY <1>0
  <2>4. ASSUME NEW i \in 1..Len(results) PROVE results[i] \in S
    <3>1. i \in 1..Len(caches) /\ results[i] \in Result /\ i \in DOMAIN results
      BY <1>0, <2>2, <2>3
    <3>2. caches[i] \in Definition
      BY <1>0, <3>1
    <3>3. Shown(results[i])
      BY <1>0, <2>2, <3>1, <3>2, SelectedIsShown
    <3> QED
      BY <3>1, <3>3 DEF Range
  <2>5. results' = results
    <3> HIDE DEF S
    <3> QED
      BY <1>0, <2>1, <2>4, FilteredAll
  <2>6. Len(results) <= Len(caches) /\ (~interrupted => Len(results) = Len(caches))
    BY <2>1, <2>2, <2>3
  <2>7. \A i \in 1..Len(results) : results[i].name = caches[i].name
    BY <2>2 DEF About
  <2> QED
    BY <2>1, <2>2, <2>5, <2>6, <2>7 DEF FollowInv, ResultsFollowCatalogue, Selected
<1>12. CASE Crash \/ World \/ UNCHANGED scanVars
  <2>1. /\ UNCHANGED <<setup, todo, caches, results, result>>
        /\ stage' = stage \/ stage' = "crashed"
        /\ interrupted' = interrupted \/ interrupted'
    BY <1>12 DEF Crash, World, ChangeEntry, ChangePath, Signal, scanVars, catalogueVars, measureVars,
                 worldVars
  <2> QED
    BY <2>1 DEF FollowInv, ResultsFollowCatalogue, Selected
<1> QED
  BY <1>1, <1>2, <1>3, <1>4, <1>5, <1>6, <1>7, <1>8, <1>9, <1>10, <1>11, <1>12
     DEF ScanNext, ScanStep, Advance

\* ScannerEngine::scan: there is one result for each cache of the catalogue, in
\* its order, until an interrupt cuts the list off; the last filter, which looks
\* at parts of names, takes away nothing that the first one, on whole names, let in.
THEOREM ResultsCorrect == ScanSpec => []ResultsFollowCatalogue
<1>1. FollowInv => ResultsFollowCatalogue
  BY DEF FollowInv
<1> QED
  BY FollowInit, FollowNext, TypesAlways, ScanTypesCorrect, <1>1, PTL DEF ScanSpec

-----------------------------------------------------------------------------
(* Measuring a directory *)

\* The strengthening: while a directory is walked, the bytes cover what the
\* iteration has yielded and nobody has changed, and nothing else if nobody has
\* changed anything.
MeasuredInv ==
    /\ stage = "inspect" => result.bytes = 0
    /\ stage = "walk" =>
          /\ visited \subseteq Below[result.location]
          /\ SizeOf(visited \ touched) <= result.bytes
          /\ touched = {} => result.bytes = SizeOf(visited)

Weight == [e \in Entry |-> Counted(e)]

LEMMA WeightFacts ==
    ASSUME ScanTypeOK
    PROVE  \A e \in Entry : Weight[e] \in Nat /\ Weight[e] = Counted(e)
BY DEF ScanTypeOK, Weight, Counted, Content

LEMMA SizeFacts ==
    ASSUME ScanTypeOK, NEW S \in SUBSET Entry
    PROVE  /\ IsFiniteSet(S) /\ SizeOf(S) = SumFunctionOnSet(Weight, S) /\ SizeOf(S) \in Nat
<1>1. IsFiniteSet(S)
  BY FS_Subset, ScannerAssumption
<1>2. SumFunctionOnSet(Weight, S) \in Nat
  BY <1>1, SumNat, WeightFacts
<1> QED
  BY <1>1, <1>2 DEF SizeOf, Weight

LEMMA MeasuredInit == ScanInit => MeasuredInv
BY DEF ScanInit, MeasuredInv

LEMMA MeasuredCount == ASSUME ScanTypeOK, MeasuredInv, Count PROVE MeasuredInv'
<1>1. stage = "walk" /\ UNCHANGED <<stage, touched, disk>>
  BY DEF Count, worldVars
<1>2. /\ result \in Result /\ result.location \in Path /\ visited \subseteq Entry
      /\ result.bytes \in Nat
  BY <1>1 DEF ScanTypeOK, Result
<1>3. PICK e \in Below[result.location] \ visited :
        /\ visited' = visited \cup {e}
        /\ result' = [result EXCEPT !.bytes = @ + Counted(e)]
  BY DEF Count
<1>4. e \in Entry /\ Weight[e] \in Nat /\ Weight[e] = Counted(e)
  BY <1>2, <1>3, WeightFacts, ScannerAssumption
<1>5. result'.location = result.location /\ result'.bytes = result.bytes + Counted(e)
  BY <1>2, <1>3, <1>4 DEF Result
<1>6. \A S \in SUBSET Entry : SizeOf(S)' = SizeOf(S)
  BY <1>1 DEF SizeOf, Counted
<1>7. ASSUME NEW T \in SUBSET Entry, e \notin T PROVE SizeOf(T \cup {e}) = SizeOf(T) + Weight[e]
  <2> DEFINE more == T \cup {e}
  <2>1. more \in SUBSET Entry /\ e \in more /\ more \ {e} = T
    BY <1>4, <1>7
  <2> HIDE DEF more
  <2>2. IsFiniteSet(more) /\ SizeOf(more) = SumFunctionOnSet(Weight, more)
        /\ SizeOf(T) = SumFunctionOnSet(Weight, T) /\ SizeOf(T) \in Nat
    BY <2>1, SizeFacts
  <2>3. \A x \in more : Weight[x] \in Int
    BY <2>1, WeightFacts
  <2>4. SumFunctionOnSet(Weight, more) = Weight[e] + SumFunctionOnSet(Weight, more \ {e})
    BY <2>1, <2>2, <2>3, SumAdd
  <2>5. SumFunctionOnSet(Weight, more \ {e}) = SumFunctionOnSet(Weight, T)
    BY <2>1, Zenon
  <2>6. SizeOf(more) = SizeOf(T) + Weight[e]
    BY <1>4, <2>2, <2>4, <2>5
  <2> QED
    BY <2>6 DEF more
<1>8. SizeOf(visited \ touched) <= result.bytes /\ SizeOf(visited \ touched) \in Nat
      /\ visited \ touched \in SUBSET Entry
  BY <1>1, <1>2, SizeFacts DEF MeasuredInv
<1>9. SizeOf(visited' \ touched) <= result'.bytes
  <2>1. CASE e \in touched
    <3>1. visited' \ touched = visited \ touched
      BY <1>3, <2>1
    <3>2. SizeOf(visited' \ touched) = SizeOf(visited \ touched)
      BY <3>1, Zenon
    <3> QED
      BY <1>2, <1>4, <1>5, <1>8, <3>2
  <2>2. CASE e \notin touched
    <3>1. visited' \ touched = (visited \ touched) \cup {e} /\ e \notin visited \ touched
      BY <1>3, <2>2
    <3>2. SizeOf((visited \ touched) \cup {e}) = SizeOf(visited \ touched) + Weight[e]
      BY <1>7, <1>8, <3>1
    <3>3. SizeOf(visited' \ touched) = SizeOf(visited \ touched) + Weight[e]
      BY <3>1, <3>2, Zenon
    <3> QED
      BY <1>2, <1>4, <1>5, <1>8, <3>3
  <2> QED
    BY <2>1, <2>2
<1>10. ASSUME touched = {} PROVE result'.bytes = SizeOf(visited')
  <2>1. result.bytes = SizeOf(visited)
    BY <1>1, <1>10 DEF MeasuredInv
  <2>2. SizeOf(visited \cup {e}) = SizeOf(visited) + Weight[e]
    BY <1>2, <1>3, <1>7
  <2>3. SizeOf(visited') = SizeOf(visited) + Weight[e]
    BY <1>3, <2>2, Zenon
  <2> QED
    BY <1>4, <1>5, <2>1, <2>3
<1>11. visited' \subseteq Below[result'.location] /\ visited' \subseteq Entry
  BY <1>1, <1>2, <1>3, <1>4, <1>5 DEF MeasuredInv
<1>12. SizeOf(visited \ touched)' = SizeOf(visited' \ touched) /\ SizeOf(visited)' = SizeOf(visited')
  BY <1>1, <1>6, <1>11 DEF SizeOf, Counted
<1> QED
  BY <1>1, <1>9, <1>10, <1>11, <1>12 DEF MeasuredInv

\* A change elsewhere takes its entry out of what is promised.
LEMMA MeasuredChange == ASSUME ScanTypeOK, MeasuredInv, ChangeEntry PROVE MeasuredInv'
<1>1. stage = "walk" /\ UNCHANGED <<stage, result, visited>>
  BY DEF ChangeEntry, measureVars
<1>2. result.location \in Path /\ visited \subseteq Entry /\ result.bytes \in Nat
  BY <1>1 DEF ScanTypeOK, Result
<1>3. PICK e \in Below[result.location], c \in Contents :
        disk' = [disk EXCEPT ![e] = c] /\ touched' = touched \cup {e}
  BY DEF ChangeEntry
<1>4. e \in Entry /\ disk \in [Entry -> Content]
  BY <1>2, <1>3, ScannerAssumption DEF ScanTypeOK
<1> DEFINE A == visited \ touched
           B == visited \ touched'
           v == [x \in Entry |-> Counted(x)']
<1>5. A \in SUBSET Entry /\ B \in SUBSET A /\ e \notin B /\ B \in SUBSET Entry
  BY <1>2, <1>3
<1>6. \A x \in B : v[x] = Weight[x]
  <2>1. ASSUME NEW x \in B PROVE v[x] = Weight[x]
    <3>1. x \in Entry /\ disk'[x] = disk[x]
      BY <1>3, <1>4, <1>5
    <3> QED
      BY <3>1 DEF Counted, Weight
  <2> QED
    BY <2>1
<1>7. /\ IsFiniteSet(A) /\ SizeOf(A) = SumFunctionOnSet(Weight, A)
      /\ SizeOf(A) <= result.bytes /\ SizeOf(A) \in Nat
  BY <1>1, <1>5, SizeFacts DEF MeasuredInv
<1>8. \A x \in A : Weight[x] \in Nat
  BY <1>5, WeightFacts
<1>9. (SizeOf(visited \ touched))' = SumFunctionOnSet(v, B)
  BY <1>1 DEF SizeOf
<1>10. SumFunctionOnSet(v, B) <= SizeOf(A) /\ SumFunctionOnSet(v, B) \in Nat
  <2> HIDE DEF A, B, v
  <2>1. \A x \in B : v[x] \in Int /\ v[x] \in Nat /\ v[x] <= Weight[x]
    BY <1>5, <1>6, <1>8
  <2>2. SumFunctionOnSet(v, B) <= SumFunctionOnSet(Weight, A)
    BY <1>5, <1>7, <1>8, <2>1, SumLess
  <2>3. IsFiniteSet(B)
    BY <1>5, <1>7, FS_Subset
  <2> QED
    BY <1>7, <2>1, <2>2, <2>3, SumNat
<1>11. (SizeOf(visited \ touched))' <= result.bytes
  <2> HIDE DEF A, B, v
  <2> QED
    BY <1>2, <1>7, <1>9, <1>10
<1>12. touched' # {}
  BY <1>3
<1> QED
  BY <1>1, <1>11, <1>12 DEF MeasuredInv

LEMMA MeasuredNext ==
    CatalogueTypes /\ ScanTypeOK /\ MeasuredInv /\ [ScanNext]_scanVars => MeasuredInv'
<1> SUFFICES ASSUME CatalogueTypes, ScanTypeOK, MeasuredInv, [ScanNext]_scanVars PROVE MeasuredInv'
  OBVIOUS
<1>1. CASE Count
  BY <1>1, MeasuredCount
<1>2. CASE ChangeEntry
  BY <1>2, MeasuredChange
<1>3. CASE Approach
  <2>1. stage' = "inspect" /\ todo # <<>> /\ Current = Head(todo)
    BY <1>3 DEF Approach, Turn, Current
  <2>2. PICK r \in Outlines(Current) : result' = r
    BY <1>3 DEF Approach
  <2>3. Current \in Definition
    BY <2>1, HeadTail DEF CatalogueTypes
  <2> QED
    BY <2>1, <2>2, <2>3, OutlineFacts DEF MeasuredInv
<1>4. CASE Inspect
  <2>1. CASE result.location \in present
    <3>1. /\ stage = "inspect" /\ stage' = "walk" /\ visited' = {} /\ touched' = {}
          /\ result' = result /\ result.bytes = 0
      BY <1>4, <2>1 DEF Inspect, MeasuredInv
    <3>2. (SizeOf(visited))' = 0 /\ (SizeOf(visited \ touched))' = 0
      <4>1. visited' = {} /\ visited' \ touched' = {}
        BY <3>1
      <4> QED
        BY <4>1, SumEmpty DEF SizeOf
    <3> QED
      BY <3>1, <3>2 DEF MeasuredInv
  <2>2. CASE result.location \notin present
    BY <1>4, <2>2 DEF Inspect, Publish, MeasuredInv
  <2> QED
    BY <2>1, <2>2
<1>5. CASE Ignore \/ Missing \/ WalkEnd \/ WalkFails \/ FinishScan \/ Crash
  BY <1>5 DEF Ignore, Missing, WalkEnd, WalkFails, FinishScan, Crash, Publish, MeasuredInv
<1>6. CASE StartScan \/ MergeCustom \/ FilterCache \/ OpenPlugins \/ LoadPlugin \/ EndPlugins
           \/ PluginsBreakOff \/ MergePlugin
  <2>1. stage' \in {"custom", "filter", "plugins", "merge", "measure"}
    BY <1>6 DEF StartScan, MergeCustom, FilterCache, OpenPlugins, LoadPlugin, EndPlugins,
                PluginsBreakOff, TakeLoaded, MergePlugin
  <2> QED
    BY <2>1 DEF MeasuredInv
<1>7. CASE ChangePath \/ Signal \/ UNCHANGED scanVars
  <2>1. UNCHANGED <<stage, result, visited, touched, disk>>
    BY <1>7 DEF ChangePath, Signal, scanVars, measureVars, worldVars
  <2> QED
    BY <2>1 DEF MeasuredInv, SizeOf, Counted
<1> QED
  BY <1>1, <1>2, <1>3, <1>4, <1>5, <1>6, <1>7 DEF ScanNext, ScanStep, Advance, World

\* inspectDirectory: an iteration that reaches its end reports what the directory
\* holds, exactly if nobody changes it meanwhile, and at least the part that
\* nobody changes.
THEOREM MeasuredCorrect == ScanSpec => MeasuredExactly
<1> DEFINE Exact ==
        LET bytes == results'[Len(results')].bytes
            quiet == Below[result.location] \ touched
        IN  bytes >= SizeOf(quiet) /\ (touched = {} => bytes = SizeOf(quiet))
<1>1. ASSUME ScanTypeOK, MeasuredInv, WalkEnd PROVE Exact
  <2> DEFINE quiet == Below[result.location] \ touched
             seen == visited \ touched
  <2>1. stage = "walk" /\ results' = Append(results, Found)
        /\ \A e \in Below[result.location] : e \in visited \cup touched \/ disk[e].kind = "absent"
    BY <1>1 DEF WalkEnd, Publish
  <2>2. result \in Result /\ result.location \in Path /\ results \in Seq(Result) /\ result.bytes \in Nat
    BY <1>1, <2>1 DEF ScanTypeOK, Result
  <2>3. results'[Len(results')].bytes = result.bytes
    <3>1. Found \in Result /\ Found.bytes = result.bytes
      BY <2>2 DEF Found, Result
    <3> QED
      BY <2>1, <2>2, <3>1, Appended
  <2>4. quiet \in SUBSET Entry /\ seen \in SUBSET quiet /\ seen \in SUBSET Entry
        /\ SizeOf(seen) <= result.bytes
        /\ (touched = {} => result.bytes = SizeOf(visited) /\ seen = visited)
    BY <1>1, <2>1, <2>2, ScannerAssumption DEF MeasuredInv
  <2>5. \A x \in quiet \ seen : Weight[x] = 0
    <3> SUFFICES ASSUME NEW x \in quiet \ seen PROVE Weight[x] = 0
      OBVIOUS
    <3>1. x \in Entry /\ disk[x].kind = "absent"
      BY <2>1, <2>4
    <3> QED
      BY <3>1 DEF Weight, Counted
  <2> HIDE DEF quiet, seen
  <2>6. \A x \in quiet : Weight[x] \in Nat
    BY <1>1, <2>4, WeightFacts
  <2>7. /\ IsFiniteSet(quiet) /\ SizeOf(quiet) = SumFunctionOnSet(Weight, quiet)
        /\ SizeOf(seen) = SumFunctionOnSet(Weight, seen)
    BY <1>1, <2>4, SizeFacts
  <2>8. SizeOf(quiet) = SizeOf(seen)
    <3>1. SumFunctionOnSet(Weight, quiet) = SumFunctionOnSet(Weight, seen)
      BY <2>4, <2>5, <2>6, <2>7, SumWithoutZeros
    <3> QED
      BY <2>7, <3>1
  <2>9. SizeOf(seen) \in Nat
    BY <1>1, <2>4, SizeFacts
  <2>10. result.bytes >= SizeOf(quiet)
    BY <2>2, <2>4, <2>8, <2>9
  <2>11. ASSUME touched = {} PROVE result.bytes = SizeOf(quiet)
    <3>1. result.bytes = SizeOf(visited) /\ seen = visited
      BY <2>4, <2>11
    <3>2. SizeOf(seen) = SizeOf(visited)
      BY <3>1, Zenon
    <3> QED
      BY <2>8, <3>1, <3>2
  <2> QED
    BY <2>3, <2>10, <2>11 DEF quiet
<1>2. ScanTypeOK /\ MeasuredInv => [WalkEnd => Exact]_scanVars
  BY <1>1
<1>3. ScanSpec => [](ScanTypeOK /\ MeasuredInv)
  BY MeasuredInit, MeasuredNext, TypesAlways, ScanTypesCorrect, PTL DEF ScanSpec
<1> QED
  BY <1>2, <1>3, PTL DEF MeasuredExactly

-----------------------------------------------------------------------------
(* The dashboard *)

\* The strengthening: the numbers behind the screen are numbers.
ScreenInv ==
    /\ recommendations \in Nat
    /\ height \in [0..(MaxRecommendations - 1) -> Nat]
    /\ recommendations <= MaxRecommendations
    /\ selectedRecommendation \in Nat /\ viewportOffset \in Nat /\ maxOffset \in Nat
    /\ InRange

-----------------------------------------------------------------------------
(* The dashboard and the scanner *)

LEMMA LoopScans == Loop => StartScan \/ UNCHANGED scanVars
BY DEF Loop, BeginScan, Digest, Draw, NoKey, ReadFirst, ReadNothing, ReadBracket, ReadFinal,
       ReadTilde, Quit, Refresh, ToggleAuto, Scroll, Select, Disregard, Act

LEMMA StepScans == [Next]_vars => [ScanNext]_scanVars
<1>1. CASE Loop
  BY <1>1, LoopScans DEF ScanNext
<1>2. CASE ScanStep \/ World
  BY <1>2 DEF ScanNext
<1>3. CASE Press \/ Arrive \/ Done \/ UNCHANGED vars
  BY <1>3 DEF Press, Arrive, Done, vars
<1> QED
  BY <1>1, <1>2, <1>3 DEF Next

\* DashboardCommand::execute scans as every command does: each of its behaviours
\* is one of ScannerEngine, with the key loop hidden.
THEOREM DashboardScans == Spec => ScanSpec
<1>1. Init => ScanInit
  BY DEF Init
<1> QED
  BY <1>1, StepScans, PTL DEF Spec, ScanSpec

\* So a name has one owner in every refresh of the screen.
THEOREM DashboardOwnerCorrect == Spec => []OneOwnerPerName
BY DashboardScans, OwnerCorrect, PTL

\* And in each of them every valid plugin has its place, every bad one is
\* reported, and the built-in caches stay.
THEOREM DashboardIsolationCorrect == Spec => []PluginsIsolated
BY DashboardScans, IsolationCorrect, PTL

\* What a refresh shows has a line for each cache.
THEOREM DashboardResultsCorrect == Spec => []ResultsFollowCatalogue
BY DashboardScans, ResultsCorrect, PTL

\* With the size that the directory has.
THEOREM DashboardMeasuredCorrect == Spec => MeasuredExactly
BY DashboardScans, MeasuredCorrect, PTL

-----------------------------------------------------------------------------
(* The screen *)

LEMMA ScreenInit == Init => ScreenInv
BY DashboardAssumption DEF Init, ScreenInv, InRange

LEMMA ScreenNext == ScreenInv /\ [Next]_vars => ScreenInv'
<1> SUFFICES ASSUME ScreenInv, [Next]_vars PROVE ScreenInv'
  OBVIOUS
<1> USE DashboardAssumption DEF ScreenInv
<1>1. CASE Digest
  BY <1>1 DEF Digest, InRange, Least
<1>2. CASE Draw
  <2>1. /\ selectedRecommendation' \in Nat
        /\ selectedRecommendation' = 0 \/ selectedRecommendation' < recommendations
    BY <1>2 DEF Draw, Least
  <2>2. selectedRecommendation' \in 0..(MaxRecommendations - 1)
    BY <2>1
  <2>3. height' = height /\ height[selectedRecommendation'] \in Nat
    BY <1>2, <2>2 DEF Draw
  <2>4. /\ maxOffset' \in Nat
        /\ maxOffset' = 0 \/ maxOffset' + ViewportHeight = height[selectedRecommendation']
    BY <1>2, <2>3 DEF Draw, ContentSize
  <2>5. viewportOffset' \in Nat /\ viewportOffset' <= maxOffset'
    BY <1>2, <2>4 DEF Draw, Least
  <2> QED
    BY <1>2, <2>1, <2>3, <2>4, <2>5 DEF Draw, InRange, ContentSize
<1>3. CASE Scroll
  BY <1>3 DEF Scroll, Act, InRange, Least
<1>4. CASE Select
  BY <1>4 DEF Select, Act, InRange
<1>5. CASE BeginScan \/ NoKey \/ ReadFirst \/ ReadNothing \/ ReadBracket \/ ReadFinal \/ ReadTilde
  BY <1>5 DEF BeginScan, NoKey, ReadFirst, ReadNothing, ReadBracket, ReadFinal, ReadTilde,
              Decoded, screenVars, InRange
<1>6. CASE Quit \/ Refresh \/ ToggleAuto \/ Disregard
  BY <1>6 DEF Quit, Refresh, ToggleAuto, Disregard, Act, InRange
<1>7. CASE UNCHANGED loopVars \/ Press \/ Arrive \/ Done \/ UNCHANGED vars
  BY <1>7 DEF loopVars, Press, Arrive, Done, vars, screenVars, InRange, ContentSize
<1> QED
  BY <1>1, <1>2, <1>3, <1>4, <1>5, <1>6, <1>7 DEF Next, Loop

\* The loop of DashboardCommand::execute: whatever the rescans find and the user
\* presses, what is drawn is a recommendation that exists and a full viewport.
THEOREM RangeCorrect == Spec => []InRange
<1>1. ScreenInv => InRange
  BY DEF ScreenInv
<1> QED
  BY ScreenInit, ScreenNext, <1>1, PTL DEF Spec

-----------------------------------------------------------------------------
(* Keys *)

\* A byte that belongs to a key.
Genuine(b) == b.key \in Plain /\ b.at \in 1..Len(Bytes[b.key]) /\ b = Sent(b.key)[b.at]
Ending(b) == b.at = Len(Bytes[b.key])

\* A list of bytes in which each key is continued until its last byte.
Whole(list) ==
    /\ list \in Seq(Byte)
    /\ \A i \in 1..Len(list) :
          /\ Genuine(list[i])
          /\ IF Ending(list[i]) THEN i + 1 \in 1..Len(list) => list[i + 1].at = 1
             ELSE i + 1 \in 1..Len(list) /\ list[i + 1] = Sent(list[i].key)[list[i].at + 1]

\* What readKey may find when it starts: a key, or what Delete has left over.
Opening(list) ==
    list # <<>> => list[1].at = 1 \/ (list[1].key = "Delete" /\ list[1].at = 4)

\* What has been sent and not been read.
Flow == input \o wire

\* readKey has taken the first n bytes of key k, and there are more.
Started(k, n) ==
    /\ Len(sequence) = n /\ \A i \in 1..n : sequence[i] = Sent(k)[i]
    /\ n < Len(Bytes[k]) /\ Flow # <<>> /\ Flow[1] = Sent(k)[n + 1]

\* The strengthening: where readKey is inside a key.
KeyInv ==
    /\ session \in Sessions /\ session.keys \subseteq Plain
    /\ sequence \in Seq(Byte) /\ input \in Seq(Byte) /\ wire \in Seq(Byte)
    /\ Whole(Flow)
    /\ session.careful => wire = <<>> \/ wire[1].at = 1
    /\ pc \in {"start", "scan", "draw", "wait", "left"} => sequence = <<>>
    /\ session.careful /\ pc \in {"start", "scan", "draw", "wait", "left", "act"} => Opening(Flow)
    /\ pc = "escape" => \E k \in Plain : Started(k, 1)
    /\ pc = "bracket" => \E k \in Plain : Started(k, 2)
    /\ pc = "page" => \E k \in {"PageUp", "PageDown"} : Started(k, 3)
    /\ Obeys

\* Tuples of the lengths that keys have.
LEMMA Tuples ==
    ASSUME NEW S, NEW a \in S, NEW b \in S, NEW c \in S, NEW d \in S
    PROVE  /\ <<a>> \in Seq(S) /\ Len(<<a>>) = 1 /\ <<a>>[1] = a
           /\ <<a, b, c>> \in Seq(S) /\ Len(<<a, b, c>>) = 3
           /\ <<a, b, c>>[1] = a /\ <<a, b, c>>[2] = b /\ <<a, b, c>>[3] = c
           /\ <<a, b, c, d>> \in Seq(S) /\ Len(<<a, b, c, d>>) = 4
           /\ <<a, b, c, d>>[1] = a /\ <<a, b, c, d>>[2] = b
           /\ <<a, b, c, d>>[3] = c /\ <<a, b, c, d>>[4] = d
OBVIOUS

\* The four forms of a key, as readKey distinguishes them.
Single(k) ==
    /\ Len(Bytes[k]) = 1 /\ Bytes[k][1] # "escape"
    /\ k # "Enter" => Letter(Bytes[k][1]) = Decoding[k]
Arrow(k) ==
    /\ Len(Bytes[k]) = 3 /\ Bytes[k][1] = "escape" /\ Bytes[k][2] = "["
    /\ Bytes[k][3] \notin {"5", "6"} /\ Final(Bytes[k][3]) = Decoding[k]
Page(k) ==
    /\ k \in {"PageUp", "PageDown"}
    /\ Len(Bytes[k]) = 4 /\ Bytes[k][1] = "escape" /\ Bytes[k][2] = "["
    /\ Bytes[k][3] \in {"5", "6"} /\ Bytes[k][4] = "~"
    /\ Decoding[k] = IF Bytes[k][3] = "5" THEN "pageUp" ELSE "pageDown"
Unknown(k) ==
    /\ k = "Delete"
    /\ Len(Bytes[k]) = 4 /\ Bytes[k][1] = "escape" /\ Bytes[k][2] = "["
    /\ Bytes[k][3] = "3" /\ Bytes[k][4] = "~"
    /\ Final("3") = Decoding[k] /\ Decoding[k] = "none"

LEMMA KeyLengths ==
    ASSUME NEW k
    PROVE  /\ Single(k) => Len(Bytes[k]) = 1
           /\ Arrow(k) => Len(Bytes[k]) = 3
           /\ Unknown(k) => k = "Delete"
BY Zenon DEF Single, Arrow, Unknown

LEMMA KeyTable ==
    ASSUME NEW k \in Plain
    PROVE  /\ k \in DOMAIN Bytes /\ Bytes[k] \in Seq(Char)
           /\ Single(k) \/ Arrow(k) \/ Page(k) \/ Unknown(k)
<1>1. k \in {"q", "r", "a", "n", "p", "k", "j", "Enter", "Up", "Down", "Home", "End", "PageUp",
             "PageDown", "Delete"} /\ k \in DOMAIN Bytes
  BY DEF Plain, Bytes
<1>2. /\ \A c \in Char : <<c>> \in Seq(Char) /\ Len(<<c>>) = 1 /\ <<c>>[1] = c
      /\ \A a, b, c \in Char : /\ <<a, b, c>> \in Seq(Char) /\ Len(<<a, b, c>>) = 3
                               /\ <<a, b, c>>[1] = a /\ <<a, b, c>>[2] = b /\ <<a, b, c>>[3] = c
      /\ \A a, b, c, d \in Char :
            /\ <<a, b, c, d>> \in Seq(Char) /\ Len(<<a, b, c, d>>) = 4
            /\ <<a, b, c, d>>[1] = a /\ <<a, b, c, d>>[2] = b
            /\ <<a, b, c, d>>[3] = c /\ <<a, b, c, d>>[4] = d
  BY Tuples
<1>3. \A c \in {"q", "r", "a", "n", "p", "k", "j", "newline", "escape", "[", "A", "B", "H", "F",
                "3", "5", "6", "~"} : c \in Char
  BY DEF Char
<1>4. CASE k \in {"q", "r", "a", "n", "p", "k", "j", "Enter"}
  <2>1. PICK c \in {"q", "r", "a", "n", "p", "k", "j", "newline"} :
           Bytes[k] = <<c>> /\ (k # "Enter" => Letter(c) = Decoding[k])
    <3>1. CASE k \in {"q", "r", "a", "n"}
      BY <3>1 DEF Bytes, Letter, Decoding
    <3>2. CASE k \in {"p", "k", "j", "Enter"}
      BY <3>2 DEF Bytes, Letter, Decoding
    <3> QED
      BY <1>4, <3>1, <3>2
  <2>2. c \in Char /\ c # "escape"
    BY <1>3
  <2> QED
    BY <1>1, <1>2, <2>1, <2>2 DEF Single
<1>5. CASE k \in {"Up", "Down", "Home", "End"}
  <2>1. PICK c \in {"A", "B", "H", "F"} :
           Bytes[k] = <<"escape", "[", c>> /\ Final(c) = Decoding[k]
    BY <1>5 DEF Bytes, Final, Decoding
  <2>2. c \in Char /\ "escape" \in Char /\ "[" \in Char /\ c \notin {"5", "6"}
    BY <1>3
  <2> QED
    BY <1>1, <1>2, <2>1, <2>2 DEF Arrow
<1>6. CASE k \in {"PageUp", "PageDown"}
  <2>1. PICK c \in {"5", "6"} : /\ Bytes[k] = <<"escape", "[", c, "~">>
                                /\ Decoding[k] = IF c = "5" THEN "pageUp" ELSE "pageDown"
    BY <1>6 DEF Bytes, Decoding
  <2>2. c \in Char /\ "escape" \in Char /\ "[" \in Char /\ "~" \in Char
    BY <1>3
  <2> QED
    BY <1>1, <1>2, <1>6, <2>1, <2>2 DEF Page
<1>7. CASE k = "Delete"
  <2>1. Bytes[k] = <<"escape", "[", "3", "~">> /\ Decoding[k] = "none"
    BY <1>7 DEF Bytes, Decoding
  <2>2. Final("3") = "none" /\ Letter("~") = "none"
    BY DEF Final, Letter
  <2>3. "escape" \in Char /\ "[" \in Char /\ "3" \in Char /\ "~" \in Char
    BY <1>3
  <2> QED
    BY <1>1, <1>2, <1>7, <2>1, <2>2, <2>3 DEF Unknown
<1> QED
  BY <1>1, <1>4, <1>5, <1>6, <1>7

\* The bytes of a key.
LEMMA SentBytes ==
    ASSUME NEW k \in Plain
    PROVE  /\ Sent(k) \in Seq(Byte) /\ Len(Sent(k)) = Len(Bytes[k]) /\ Len(Bytes[k]) \in 1..4
           /\ \A i \in 1..Len(Bytes[k]) :
                 Sent(k)[i] = [char |-> Bytes[k][i], key |-> k, at |-> i]
<1>1. Len(Bytes[k]) \in 1..4 /\ Bytes[k] \in Seq(Char) /\ k \in DOMAIN Bytes
  BY KeyTable DEF Single, Arrow, Page, Unknown
<1>2. \A i \in 1..Len(Bytes[k]) : Bytes[k][i] \in Char
  BY <1>1
<1>3. \A i \in 1..Len(Bytes[k]) : [char |-> Bytes[k][i], key |-> k, at |-> i] \in Byte
  BY <1>1, <1>2 DEF Byte
<1> QED
  BY <1>1, <1>3 DEF Sent

LEMMA ByteFields ==
    ASSUME NEW b, NEW c, NEW k, NEW n, b = [char |-> c, key |-> k, at |-> n]
    PROVE  b.char = c /\ b.key = k /\ b.at = n
OBVIOUS

LEMMA LongerThanNone ==
    ASSUME NEW S, NEW list \in Seq(S), Len(list) >= 1
    PROVE  list # <<>> /\ 1 \in 1..Len(list)
OBVIOUS

LEMMA KeyWhole ==
    ASSUME NEW k \in Plain
    PROVE  Whole(Sent(k)) /\ Sent(k) # <<>> /\ Sent(k)[1].at = 1
<1>1. /\ Sent(k) \in Seq(Byte) /\ Len(Sent(k)) = Len(Bytes[k]) /\ Len(Bytes[k]) \in 1..4
      /\ \A i \in 1..Len(Bytes[k]) : Sent(k)[i] = [char |-> Bytes[k][i], key |-> k, at |-> i]
  BY SentBytes
<1>2. ASSUME NEW i \in 1..Len(Bytes[k]) PROVE Sent(k)[i].key = k /\ Sent(k)[i].at = i
  <2>1. Sent(k)[i] = [char |-> Bytes[k][i], key |-> k, at |-> i]
    BY <1>1
  <2> QED
    BY <2>1, ByteFields
<1>3. Sent(k) # <<>> /\ 1 \in 1..Len(Bytes[k])
  <2> DEFINE more == Sent(k)
             length == Len(Bytes[k])
  <2>1. more \in Seq(Byte) /\ Len(more) = length /\ length \in 1..4
    BY SentBytes
  <2> HIDE DEF more, length
  <2>2. Len(more) >= 1
    BY <2>1
  <2>3. more # <<>> /\ 1 \in 1..Len(more)
    BY <2>1, <2>2, LongerThanNone
  <2>4. more # <<>> /\ 1 \in 1..length
    BY <2>1, <2>3
  <2> QED
    BY <2>4 DEF more, length
<1>4. \A i \in 1..Len(Bytes[k]) : Ending(Sent(k)[i]) <=> i = Len(Bytes[k])
  BY <1>2 DEF Ending
<1>5. \A i \in 1..Len(Bytes[k]) : i # Len(Bytes[k]) <=> i + 1 \in 1..Len(Bytes[k])
  BY <1>1
<1>6. \A i \in 1..Len(Bytes[k]) : Genuine(Sent(k)[i])
  BY <1>2 DEF Genuine
<1> QED
  BY <1>1, <1>2, <1>3, <1>4, <1>5, <1>6 DEF Whole

LEMMA WholeTail ==
    ASSUME NEW list, Whole(list), list # <<>>
    PROVE  /\ Head(list) \in Byte /\ Genuine(Head(list)) /\ Head(list) = list[1]
           /\ Whole(Tail(list))
           /\ IF Ending(Head(list)) THEN Opening(Tail(list))
              ELSE Tail(list) # <<>> /\ Tail(list)[1] = Sent(Head(list).key)[Head(list).at + 1]
<1>1. list \in Seq(Byte) /\ Len(list) \in Nat \ {0}
  BY EmptySeq DEF Whole
<1>2. /\ Head(list) = list[1] /\ Head(list) \in Byte /\ 1 \in 1..Len(list)
      /\ Tail(list) \in Seq(Byte) /\ Len(Tail(list)) = Len(list) - 1
      /\ \A i \in 1..Len(Tail(list)) : Tail(list)[i] = list[i + 1] /\ i + 1 \in 1..Len(list)
  BY <1>1, HeadTailProperties
<1>3. Whole(Tail(list))
  <2> SUFFICES ASSUME NEW i \in 1..Len(Tail(list))
               PROVE  /\ Genuine(Tail(list)[i])
                      /\ IF Ending(Tail(list)[i])
                         THEN i + 1 \in 1..Len(Tail(list)) => Tail(list)[i + 1].at = 1
                         ELSE /\ i + 1 \in 1..Len(Tail(list))
                              /\ Tail(list)[i + 1] = Sent(Tail(list)[i].key)[Tail(list)[i].at + 1]
    BY <1>2 DEF Whole
  <2>1. Tail(list)[i] = list[i + 1] /\ i + 1 \in 1..Len(list)
    BY <1>2
  <2>2. (i + 1) + 1 \in 1..Len(list) <=> i + 1 \in 1..Len(Tail(list))
    BY <1>1, <1>2
  <2>3. i + 1 \in 1..Len(Tail(list)) => Tail(list)[i + 1] = list[(i + 1) + 1]
    BY <1>2
  <2> QED
    BY <2>1, <2>2, <2>3 DEF Whole
<1>4. CASE Ending(Head(list))
  <2>1. ASSUME Tail(list) # <<>> PROVE Tail(list)[1].at = 1
    <3>1. 1 \in 1..Len(Tail(list))
      BY <1>2, <2>1, EmptySeq
    <3>2. Tail(list)[1] = list[1 + 1] /\ 1 + 1 \in 1..Len(list)
      BY <1>2, <3>1
    <3> QED
      BY <1>2, <1>4, <3>2 DEF Whole
  <2> QED
    BY <1>2, <1>3, <1>4, <2>1 DEF Whole, Opening
<1>5. CASE ~Ending(Head(list))
  <2>1. 1 + 1 \in 1..Len(list) /\ list[1 + 1] = Sent(list[1].key)[list[1].at + 1]
    BY <1>2, <1>5 DEF Whole
  <2>2. 1 \in 1..Len(Tail(list)) /\ Tail(list) # <<>>
    <3>1. Len(Tail(list)) \in Nat /\ Len(Tail(list)) >= 1
      BY <1>1, <1>2, <2>1
    <3> QED
      BY <1>2, <3>1, LongerThanNone
  <2> QED
    BY <1>2, <1>3, <1>5, <2>1, <2>2 DEF Whole
<1> QED
  BY <1>4, <1>5

LEMMA WholeConcat ==
    ASSUME NEW list, Whole(list), NEW k \in Plain
    PROVE  /\ Whole(list \o Sent(k)) /\ list \o Sent(k) # <<>>
           /\ IF list = <<>> THEN (list \o Sent(k))[1].at = 1
              ELSE (list \o Sent(k))[1] = list[1]
<1> DEFINE more == Sent(k)
           all == list \o more
<1>1. /\ list \in Seq(Byte) /\ more \in Seq(Byte) /\ Whole(more) /\ more # <<>> /\ more[1].at = 1
      /\ Len(list) \in Nat /\ Len(more) \in Nat \ {0}
  BY KeyWhole, EmptySeq, LenProperties DEF Whole
<1> HIDE DEF more
<1>2. /\ all \in Seq(Byte) /\ Len(all) = Len(list) + Len(more)
      /\ \A i \in 1..Len(list) + Len(more) :
            all[i] = IF i <= Len(list) THEN list[i] ELSE more[i - Len(list)]
  BY <1>1, ConcatProperties
<1> HIDE DEF all
<1>3. \A i \in 1..Len(list) : i \in 1..Len(all) /\ all[i] = list[i]
  BY <1>1, <1>2
<1>4. \A i \in 1..Len(more) : Len(list) + i \in 1..Len(all) /\ all[Len(list) + i] = more[i]
  <2> SUFFICES ASSUME NEW i \in 1..Len(more)
               PROVE  Len(list) + i \in 1..Len(all) /\ all[Len(list) + i] = more[i]
    OBVIOUS
  <2>1. /\ Len(list) + i \in 1..Len(list) + Len(more) /\ ~(Len(list) + i <= Len(list))
        /\ (Len(list) + i) - Len(list) = i
    BY <1>1
  <2> QED
    BY <1>2, <2>1
<1>5. Whole(all)
  <2> SUFFICES ASSUME NEW i \in 1..Len(all)
               PROVE  /\ Genuine(all[i])
                      /\ IF Ending(all[i]) THEN i + 1 \in 1..Len(all) => all[i + 1].at = 1
                         ELSE /\ i + 1 \in 1..Len(all)
                              /\ all[i + 1] = Sent(all[i].key)[all[i].at + 1]
    BY <1>2 DEF Whole
  <2>1. CASE i \in 1..Len(list) /\ i + 1 \in 1..Len(list)
    BY <1>1, <1>3, <2>1 DEF Whole
  <2>2. CASE i = Len(list)
    <3>1. i \in 1..Len(list) /\ i + 1 \notin 1..Len(list) /\ 1 \in 1..Len(more)
      BY <1>1, <2>2
    <3>2. all[i] = list[i] /\ all[i + 1] = more[1]
      BY <1>3, <1>4, <2>2, <3>1
    <3> QED
      BY <1>1, <3>1, <3>2 DEF Whole
  <2>3. CASE i > Len(list)
    <3> DEFINE j == i - Len(list)
    <3>1. j \in 1..Len(more) /\ all[i] = more[j] /\ (i + 1 \in 1..Len(all) <=> j + 1 \in 1..Len(more))
      BY <1>1, <1>2, <2>3
    <3>2. j + 1 \in 1..Len(more) => all[i + 1] = more[j + 1]
      BY <1>1, <1>2, <2>3
    <3> HIDE DEF j
    <3> QED
      BY <1>1, <3>1, <3>2 DEF Whole
  <2> QED
    BY <1>1, <1>2, <2>1, <2>2, <2>3
<1>6. all # <<>>
  BY <1>1, <1>2
<1>7. IF list = <<>> THEN all[1].at = 1 ELSE all[1] = list[1]
  <2>1. CASE list = <<>>
    BY <1>1, <1>4, <2>1
  <2>2. CASE list # <<>>
    BY <1>1, <1>3, <2>2, EmptySeq
  <2> QED
    BY <2>1, <2>2
<1> QED
  BY <1>5, <1>6, <1>7 DEF all, more

\* What is left of a key that is given up: only one byte of one key is a letter.
LEMMA LeftOver ==
    ASSUME NEW k \in Plain, NEW n \in 2..Len(Bytes[k])
    PROVE  /\ Bytes[k][n] # "escape"
           /\ Letter(Bytes[k][n]) = "none" \/ (k = "Up" /\ Letter(Bytes[k][n]) = "toggleAuto")
<1>1. /\ \A c \in {"[", "B", "H", "F", "3", "5", "6", "~"} : c # "escape" /\ Letter(c) = "none"
      /\ Letter("A") = "toggleAuto"
  BY DEF Letter
<1>2. Len(Bytes[k]) \in 1..4 /\ k \in DOMAIN Bytes
  BY SentBytes, KeyTable
<1>3. /\ Len(Bytes[k]) = 1 => FALSE
      /\ Len(Bytes[k]) = 3 => n \in {2, 3}
      /\ Len(Bytes[k]) = 4 => n \in {2, 3, 4}
  <2> DEFINE m == Len(Bytes[k])
  <2>1. n \in 2..m /\ m \in Nat
    BY <1>2
  <2> HIDE DEF m
  <2>2. (m = 1 => FALSE) /\ (m = 3 => n \in {2, 3}) /\ (m = 4 => n \in {2, 3, 4})
    BY <2>1
  <2> QED
    BY <2>2 DEF m
<1>4. k # "Up" => Bytes[k][n] \in {"[", "B", "H", "F", "3", "5", "6", "~"}
  <2>1. k \in {"q", "r", "a", "n", "p", "k", "j", "Enter", "Up", "Down", "Home", "End", "PageUp",
               "PageDown", "Delete"}
    BY DEF Plain, Bytes
  <2>2. k \in {"q", "r", "a", "n", "p", "k", "j", "Enter"} => Len(Bytes[k]) = 1
    BY DEF Bytes
  <2>3. k \in {"Down", "Home", "End"} =>
          Len(Bytes[k]) = 3 /\ Bytes[k][2] = "[" /\ Bytes[k][3] \in {"B", "H", "F"}
    BY DEF Bytes
  <2>4. k \in {"PageUp", "PageDown", "Delete"} =>
          /\ Len(Bytes[k]) = 4 /\ Bytes[k][2] = "[" /\ Bytes[k][3] \in {"3", "5", "6"}
          /\ Bytes[k][4] = "~"
    BY DEF Bytes
  <2>5. CASE k \in {"q", "r", "a", "n", "p", "k", "j", "Enter"}
    BY <1>3, <2>2, <2>5
  <2>6. CASE k \in {"Down", "Home", "End"}
    <3>1. n \in {2, 3}
      BY <1>3, <2>3, <2>6
    <3> QED
      BY <2>3, <2>6, <3>1
  <2>7. CASE k \in {"PageUp", "PageDown", "Delete"}
    <3>1. n \in {2, 3, 4}
      BY <1>3, <2>4, <2>7
    <3> QED
      BY <2>4, <2>7, <3>1
  <2> QED
    BY <2>1, <2>5, <2>6, <2>7
<1>5. k = "Up" => Bytes[k][n] \in {"[", "A"}
  <2>1. k = "Up" => Len(Bytes[k]) = 3 /\ Bytes[k][2] = "[" /\ Bytes[k][3] = "A"
    BY DEF Bytes
  <2>2. k = "Up" => n \in {2, 3}
    BY <1>3, <2>1
  <2> QED
    BY <2>1, <2>2
<1> QED
  BY <1>1, <1>4, <1>5

\* Taking a byte off the front of a list takes it off the front of its concatenation.
LEMMA TailConcat ==
    ASSUME NEW S, NEW list \in Seq(S), NEW more \in Seq(S), list # <<>>
    PROVE  /\ list \o more \in Seq(S) /\ list \o more # <<>>
           /\ (list \o more)[1] = Head(list) /\ Head(list \o more) = Head(list)
           /\ Tail(list \o more) = Tail(list) \o more
<1> DEFINE all == list \o more
           rest == Tail(list)
<1>1. Len(list) \in Nat \ {0} /\ Len(more) \in Nat
  BY EmptySeq, LenProperties
<1>2. /\ all \in Seq(S) /\ Len(all) = Len(list) + Len(more)
      /\ \A i \in 1..Len(list) + Len(more) : all[i] = IF i <= Len(list) THEN list[i] ELSE more[i - Len(list)]
  BY ConcatProperties
<1>3. /\ rest \in Seq(S) /\ Len(rest) = Len(list) - 1
      /\ \A i \in 1..Len(rest) : rest[i] = list[i + 1]
  BY HeadTailProperties
<1>4. /\ rest \o more \in Seq(S) /\ Len(rest \o more) = Len(rest) + Len(more)
      /\ \A i \in 1..Len(rest) + Len(more) :
            (rest \o more)[i] = IF i <= Len(rest) THEN rest[i] ELSE more[i - Len(rest)]
  BY <1>3, ConcatProperties
<1> HIDE DEF all, rest
<1>5. all # <<>> /\ all[1] = list[1]
  BY <1>1, <1>2
<1>6. /\ Tail(all) \in Seq(S) /\ Len(Tail(all)) = Len(all) - 1
      /\ \A i \in 1..Len(Tail(all)) : Tail(all)[i] = all[i + 1]
  BY <1>2, <1>5, HeadTailProperties
<1>7. Len(Tail(all)) = Len(rest \o more)
  BY <1>1, <1>2, <1>3, <1>4, <1>6
<1>8. ASSUME NEW i \in 1..Len(Tail(all)) PROVE Tail(all)[i] = (rest \o more)[i]
  <2>1. /\ i \in 1..Len(rest) + Len(more) /\ i + 1 \in 1..Len(list) + Len(more)
        /\ Tail(all)[i] = all[i + 1]
    BY <1>1, <1>2, <1>3, <1>4, <1>6, <1>7
  <2>2. CASE i <= Len(rest)
    <3>1. i \in 1..Len(rest) /\ i + 1 <= Len(list)
      BY <1>1, <1>3, <2>1, <2>2
    <3> QED
      BY <1>2, <1>3, <1>4, <2>1, <2>2, <3>1
  <2>3. CASE ~(i <= Len(rest))
    <3>1. ~(i + 1 <= Len(list)) /\ (i + 1) - Len(list) = i - Len(rest)
      BY <1>1, <1>3, <2>1, <2>3
    <3> QED
      BY <1>2, <1>4, <2>1, <2>3, <3>1
  <2> QED
    BY <2>2, <2>3
<1>9. Tail(all) = rest \o more
  BY <1>4, <1>6, <1>7, <1>8, SeqEqual
<1>10. Head(list) = list[1] /\ Head(all) = all[1]
  BY <1>2, <1>5, EmptySeq
<1> QED
  BY <1>2, <1>5, <1>9, <1>10 DEF all, rest

\* Taking a byte.
LEMMA Taken1 ==
    ASSUME KeyInv, Take, UNCHANGED wire
    PROVE  /\ Head(input) = Flow[1] /\ Head(input) \in Byte /\ Genuine(Head(input))
           /\ input' \in Seq(Byte) /\ wire' \in Seq(Byte) /\ Whole(Flow)'
           /\ IF Ending(Head(input)) THEN Opening(Flow)'
              ELSE (Flow # <<>>)' /\ Flow'[1] = Sent(Head(input).key)[Head(input).at + 1]
           /\ sequence' \in Seq(Byte) /\ Len(sequence') = Len(sequence) + 1
           /\ \A i \in 1..Len(sequence) : sequence'[i] = sequence[i]
           /\ sequence'[Len(sequence) + 1] = Head(input)
<1>1. /\ input \in Seq(Byte) /\ wire \in Seq(Byte) /\ sequence \in Seq(Byte) /\ input # <<>>
      /\ input' = Tail(input) /\ wire' = wire /\ sequence' = Append(sequence, Head(input))
      /\ Whole(Flow)
  BY DEF KeyInv, Take
<1>2. Flow # <<>> /\ Flow[1] = Head(input) /\ Head(Flow) = Head(input) /\ Flow' = Tail(Flow)
  BY <1>1, TailConcat DEF Flow
<1>3. Tail(input) \in Seq(Byte)
  BY <1>1, HeadTailProperties
<1> HIDE DEF Flow
<1>4. /\ Head(Flow) \in Byte /\ Genuine(Head(Flow)) /\ Whole(Tail(Flow))
      /\ IF Ending(Head(Flow)) THEN Opening(Tail(Flow))
         ELSE Tail(Flow) # <<>> /\ Tail(Flow)[1] = Sent(Head(Flow).key)[Head(Flow).at + 1]
  BY <1>1, <1>2, WholeTail
<1>5. /\ Whole(Flow')
      /\ IF Ending(Head(input)) THEN Opening(Flow')
         ELSE Flow' # <<>> /\ Flow'[1] = Sent(Head(input).key)[Head(input).at + 1]
  BY <1>2, <1>4
<1>6. /\ sequence' \in Seq(Byte) /\ Len(sequence') = Len(sequence) + 1
      /\ \A i \in 1..Len(sequence) : sequence'[i] = sequence[i]
      /\ sequence'[Len(sequence) + 1] = Head(input)
  BY <1>1, <1>2, <1>4, AppendProperties
<1> QED
  BY <1>1, <1>2, <1>3, <1>4, <1>5, <1>6 DEF Whole, Opening

\* Taking the next byte of a key that readKey has started.
LEMMA TakenOn ==
    ASSUME KeyInv, Take, UNCHANGED wire, NEW k \in Plain, NEW n \in 1..3, Started(k, n)
    PROVE  /\ Head(input).char = Bytes[k][n + 1]
           /\ Len(sequence') = n + 1 /\ \A i \in 1..(n + 1) : sequence'[i] = Sent(k)[i]
           /\ n + 1 = Len(Bytes[k]) => Opening(Flow)'
           /\ n + 1 < Len(Bytes[k]) => Started(k, n + 1)'
           /\ k = "Delete" /\ n = 2 => Opening(Flow)'
<1>1. /\ Len(sequence) = n /\ \A i \in 1..n : sequence[i] = Sent(k)[i]
      /\ n < Len(Bytes[k]) /\ Head(input) = Sent(k)[n + 1] /\ Len(Bytes[k]) \in 1..4
      /\ n + 1 \in 1..Len(Bytes[k])
  BY Taken1, SentBytes DEF Started
<1>2. Head(input) = [char |-> Bytes[k][n + 1], key |-> k, at |-> n + 1]
  BY <1>1, SentBytes
<1>3. Head(input).char = Bytes[k][n + 1] /\ Head(input).key = k /\ Head(input).at = n + 1
  BY <1>2, ByteFields
<1>4. Ending(Head(input)) <=> n + 1 = Len(Bytes[k])
  BY <1>3 DEF Ending
<1>5. Len(sequence') = n + 1 /\ \A i \in 1..(n + 1) : sequence'[i] = Sent(k)[i]
  BY <1>1, Taken1
<1>6. n + 1 < Len(Bytes[k]) => Flow' # <<>> /\ Flow'[1] = Sent(k)[(n + 1) + 1]
  BY <1>3, <1>4, Taken1
<1>7. ASSUME k = "Delete", n = 2 PROVE Opening(Flow)'
  <2>1. Len(Bytes[k]) = 4
    BY <1>7 DEF Bytes
  <2>2. Flow'[1] = [char |-> Bytes[k][4], key |-> k, at |-> 4]
    BY <1>6, <1>7, <2>1, SentBytes
  <2> QED
    BY <1>7, <2>2, ByteFields DEF Opening
<1> QED
  BY <1>3, <1>4, <1>5, <1>6, <1>7, Taken1 DEF Started

\* What is asked of a key when it is whole, or given up.
LEMMA Obeyed ==
    ASSUME session' = session, NEW k \in Plain, NEW n \in 1..4, n <= Len(Bytes[k]),
           Len(sequence') = n, \A i \in 1..n : sequence'[i] = Sent(k)[i],
           k # "Enter" =>
              key' = Decoding[k] \/ (~session.careful /\ key' = "none" /\ n < Len(Bytes[k]))
    PROVE  Obeys'
<1>1. \A i \in 1..n : sequence'[i] = [char |-> Bytes[k][i], key |-> k, at |-> i]
  <2>1. Len(Bytes[k]) \in 1..4
    BY SentBytes
  <2>2. \A i \in 1..n : i \in 1..Len(Bytes[k])
    BY <2>1
  <2> QED
    BY <2>2, SentBytes
<1>2. \A i \in 1..n : sequence'[i].key = k /\ sequence'[i].at = i
  BY <1>1, ByteFields
<1>3. sequence'[1].key = k /\ sequence'[1].at = 1
  BY <1>2
<1>4. \A i \in 1..Len(sequence') : sequence'[i].key = k /\ sequence'[i].at = 1 + i - 1
  BY <1>2
<1> QED
  BY <1>3, <1>4 DEF Obeys

LEMMA KeyInit == Init /\ session.keys \subseteq Plain => KeyInv
<1> SUFFICES ASSUME Init, session.keys \subseteq Plain PROVE KeyInv
  OBVIOUS
<1>1. <<>> \in Seq(Byte) /\ Flow = <<>>
  BY ConcatEmptySeq DEF Init, Flow
<1>2. Whole(Flow) /\ Opening(Flow)
  BY <1>1 DEF Whole, Opening
<1> QED
  BY <1>1, <1>2 DEF Init, KeyInv, Obeys

LEMMA KeyReadFirst == ASSUME KeyInv, ReadFirst PROVE KeyInv'
<1> DEFINE b == Head(input)
<1>1. /\ pc = "wait" /\ Take /\ UNCHANGED <<session, wire>> /\ sequence = <<>>
      /\ session.careful => Opening(Flow)
      /\ IF b.char = "escape" THEN pc' = "escape" /\ key' = key
         ELSE pc' = "act" /\ key' = Letter(b.char)
  BY DEF ReadFirst, Decoded, KeyInv
<1>2. /\ Genuine(b) /\ Whole(Flow)' /\ b = Flow[1] /\ input' \in Seq(Byte) /\ wire' \in Seq(Byte)
      /\ IF Ending(b) THEN Opening(Flow)' ELSE (Flow # <<>>)' /\ Flow'[1] = Sent(b.key)[b.at + 1]
      /\ sequence' \in Seq(Byte) /\ Len(sequence') = 1 /\ sequence'[1] = b
  BY <1>1, Taken1
<1>3. session.careful => b.at = 1 \/ (b.key = "Delete" /\ b.at = 4)
  <2>1. Flow # <<>>
    BY <1>1, TailConcat DEF Take, KeyInv, Flow
  <2> QED
    BY <1>1, <1>2, <2>1 DEF Opening
<1>4. PICK k \in Plain : /\ k = b.key /\ b.at \in 1..Len(Bytes[k])
                         /\ b = Sent(k)[b.at] /\ b.char = Bytes[k][b.at]
  <2>1. b.key \in Plain /\ b.at \in 1..Len(Bytes[b.key]) /\ b = Sent(b.key)[b.at]
    BY <1>2 DEF Genuine
  <2>2. b = [char |-> Bytes[b.key][b.at], key |-> b.key, at |-> b.at]
    BY <2>1, SentBytes
  <2> QED
    BY <2>1, <2>2, ByteFields
<1>5. session' = session /\ KeyInv
  BY <1>1
<1> HIDE DEF b
<1>6. Len(Bytes[k]) \in 1..4
  BY SentBytes
<1>7. CASE b.at = 1 /\ Single(k)
  <2>1. pc' = "act" /\ (k # "Enter" => key' = Decoding[k]) /\ Ending(b)
    BY <1>1, <1>4, <1>7 DEF Single, Ending
  <2>2. Obeys'
    BY <1>2, <1>4, <1>5, <1>7, <2>1, Obeyed DEF Single
  <2> QED
    BY <1>1, <1>2, <1>5, <2>1, <2>2 DEF KeyInv
<1>8. CASE b.at = 1 /\ (Arrow(k) \/ Page(k) \/ Unknown(k))
  <2>1. pc' = "escape" /\ ~Ending(b) /\ 1 < Len(Bytes[k])
    BY <1>1, <1>4, <1>8 DEF Arrow, Page, Unknown, Ending
  <2>2. Started(k, 1)'
    BY <1>2, <1>4, <1>8, <2>1 DEF Started
  <2> QED
    BY <1>1, <1>2, <1>4, <1>5, <2>1, <2>2 DEF KeyInv, Obeys
<1>9. CASE b.at # 1
  <2>1. b.at \in 2..Len(Bytes[k])
    BY <1>4, <1>6, <1>9
  <2>2. /\ b.char # "escape"
        /\ Letter(b.char) = "none" \/ (k = "Up" /\ Letter(b.char) = "toggleAuto")
    BY <1>4, <2>1, LeftOver
  <2>3. pc' = "act" /\ key' = Letter(b.char)
    BY <1>1, <2>2
  <2>4. session.careful => k = "Delete" /\ Ending(b) /\ Letter(b.char) = "none"
    <3>1. k = "Delete" => Len(Bytes[k]) = 4
      BY DEF Bytes
    <3>2. session.careful => k = "Delete" /\ b.at = 4
      BY <1>3, <1>4, <1>9
    <3> QED
      BY <1>4, <2>2, <3>1, <3>2 DEF Ending
  <2>5. Obeys'
    <3>1. sequence'[1].at > 1 /\ sequence'[1].key = k
      BY <1>2, <1>4, <2>1
    <3>2. \A i \in 1..Len(sequence') : i = 1
      BY <1>2
    <3>3. \A i \in 1..Len(sequence') :
            sequence'[i].key = sequence'[1].key /\ sequence'[i].at = sequence'[1].at + i - 1
      BY <1>2, <1>4, <2>1, <3>1, <3>2
    <3>4. key' = "none" \/ (~session'.careful /\ k = "Up" /\ key' = "toggleAuto")
      BY <1>5, <2>2, <2>3, <2>4
    <3> QED
      BY <3>1, <3>3, <3>4 DEF Obeys
  <2>6. session.careful => Opening(Flow)'
    BY <1>2, <2>4
  <2> QED
    BY <1>1, <1>2, <1>5, <2>3, <2>5, <2>6 DEF KeyInv
<1> QED
  BY <1>7, <1>8, <1>9, KeyTable

LEMMA KeyReadBracket == ASSUME KeyInv, ReadBracket PROVE KeyInv'
<1>1. PICK k \in Plain : Started(k, 1)
  BY DEF KeyInv, ReadBracket
<1>2. /\ Take /\ UNCHANGED <<session, wire>>
      /\ IF Head(input).char = "[" THEN pc' = "bracket" ELSE pc' = "act"
  BY DEF ReadBracket, Decoded
<1>3. /\ Head(input).char = Bytes[k][1 + 1]
      /\ 1 + 1 < Len(Bytes[k]) => Started(k, 1 + 1)'
  BY <1>1, <1>2, TakenOn
<1>4. Bytes[k][2] = "[" /\ 2 < Len(Bytes[k])
  BY <1>1, KeyTable DEF Started, Single, Arrow, Page, Unknown
<1>5. pc' = "bracket" /\ Started(k, 2)'
  BY <1>2, <1>3, <1>4
<1> QED
  BY <1>2, <1>5, Taken1 DEF KeyInv, Obeys

LEMMA KeyReadFinal == ASSUME KeyInv, ReadFinal PROVE KeyInv'
<1>1. PICK k \in Plain : Started(k, 2)
  BY DEF KeyInv, ReadFinal
<1>2. /\ Take /\ UNCHANGED <<session, wire>>
      /\ IF Head(input).char \in {"5", "6"} THEN pc' = "page"
         ELSE pc' = "act" /\ key' = Final(Head(input).char)
  BY DEF ReadFinal, Decoded
<1>3. /\ Head(input).char = Bytes[k][2 + 1]
      /\ Len(sequence') = 2 + 1 /\ \A i \in 1..(2 + 1) : sequence'[i] = Sent(k)[i]
      /\ 2 + 1 = Len(Bytes[k]) => Opening(Flow)'
      /\ 2 + 1 < Len(Bytes[k]) => Started(k, 2 + 1)'
      /\ k = "Delete" => Opening(Flow)'
  BY <1>1, <1>2, TakenOn
<1>4. 2 < Len(Bytes[k])
  BY <1>1 DEF Started
<1>5. CASE Page(k)
  <2>1. pc' = "page" /\ k \in {"PageUp", "PageDown"} /\ Started(k, 3)'
    BY <1>2, <1>3, <1>5 DEF Page
  <2> QED
    BY <1>2, <2>1, Taken1 DEF KeyInv, Obeys
<1>6. CASE Arrow(k) \/ Unknown(k)
  <2>1. pc' = "act" /\ key' = Decoding[k] /\ Opening(Flow)'
    BY <1>2, <1>3, <1>6 DEF Arrow, Unknown
  <2>2. Len(sequence') = 3 /\ \A i \in 1..3 : sequence'[i] = Sent(k)[i]
    BY <1>3
  <2>3. Obeys'
    BY <1>2, <1>6, <2>1, <2>2, Obeyed DEF Arrow, Unknown
  <2> QED
    BY <1>2, <2>1, <2>3, Taken1 DEF KeyInv
<1>7. ASSUME Single(k) PROVE FALSE
  <2>1. Len(Bytes[k]) = 1
    BY <1>7, KeyLengths, Zenon
  <2> QED
    BY <1>4, <2>1
<1> QED
  BY <1>5, <1>6, <1>7, KeyTable

LEMMA PageKey ==
    ASSUME NEW k \in {"PageUp", "PageDown"}
    PROVE  k \in Plain /\ Page(k)
<1>1. k \in Plain /\ k # "Delete" /\ Len(Bytes[k]) = 4
  BY DEF Plain, Bytes
<1>2. ASSUME Single(k) \/ Arrow(k) PROVE FALSE
  <2>1. Len(Bytes[k]) = 1 \/ Len(Bytes[k]) = 3
    BY <1>2, KeyLengths, Zenon
  <2> QED
    BY <1>1, <2>1
<1>3. ~Unknown(k)
  BY <1>1, KeyLengths
<1> QED
  BY <1>1, <1>2, <1>3, KeyTable

LEMMA KeyReadTilde == ASSUME KeyInv, ReadTilde PROVE KeyInv'
<1>1. PICK k \in {"PageUp", "PageDown"} : Started(k, 3)
  BY DEF KeyInv, ReadTilde
<1>2. k \in Plain /\ Page(k)
  BY PageKey
<1>3. /\ Take /\ UNCHANGED <<session, wire>> /\ pc' = "act"
      /\ key' = IF Head(input).char # "~" THEN "none"
                ELSE IF sequence[Len(sequence)].char = "5" THEN "pageUp" ELSE "pageDown"
  BY DEF ReadTilde, Decoded
<1>4. /\ Head(input).char = Bytes[k][3 + 1]
      /\ Len(sequence') = 3 + 1 /\ \A i \in 1..(3 + 1) : sequence'[i] = Sent(k)[i]
      /\ 3 + 1 = Len(Bytes[k]) => Opening(Flow)'
  BY <1>1, <1>2, <1>3, TakenOn
<1>5. sequence[Len(sequence)].char = Bytes[k][3]
  <2>1. sequence[Len(sequence)] = Sent(k)[3]
    BY <1>1 DEF Started
  <2>2. Sent(k)[3] = [char |-> Bytes[k][3], key |-> k, at |-> 3]
    BY <1>2, SentBytes DEF Page
  <2> QED
    BY <2>1, <2>2, ByteFields
<1>6. key' = Decoding[k] /\ Opening(Flow)'
  BY <1>2, <1>3, <1>4, <1>5 DEF Page
<1>7. Len(sequence') = 4 /\ \A i \in 1..4 : sequence'[i] = Sent(k)[i]
  BY <1>4
<1>8. Obeys'
  BY <1>2, <1>3, <1>6, <1>7, Obeyed DEF Page
<1> QED
  BY <1>3, <1>6, <1>8, Taken1 DEF KeyInv

\* A key is given up when its next byte has not arrived, which does not happen
\* to a careful user.
LEMMA KeyReadNothing == ASSUME KeyInv, ReadNothing PROVE KeyInv'
<1>1. /\ pc \in {"escape", "bracket", "page"} /\ input = <<>> /\ pc' = "act" /\ key' = "none"
      /\ UNCHANGED <<session, wire, input, sequence>>
  BY DEF ReadNothing, Decoded
<1>2. PICK k \in Plain, n \in {1, 2, 3} : Started(k, n)
  BY <1>1, PageKey DEF KeyInv
<1>3. /\ Len(sequence) = n /\ \A i \in 1..n : sequence[i] = Sent(k)[i]
      /\ n < Len(Bytes[k]) /\ Flow # <<>> /\ Flow[1] = Sent(k)[n + 1]
  BY <1>2 DEF Started
<1>4. ~session.careful
  <2>1. Flow = wire
    BY <1>1, ConcatEmptySeq DEF KeyInv, Flow
  <2>2. n + 1 \in 1..Len(Bytes[k])
    BY <1>3, SentBytes
  <2>3. wire[1] = [char |-> Bytes[k][n + 1], key |-> k, at |-> n + 1]
    BY <1>3, <2>1, <2>2, SentBytes
  <2>4. wire[1].at = n + 1 /\ wire # <<>>
    BY <1>3, <2>1, <2>3, ByteFields
  <2> QED
    BY <2>4 DEF KeyInv
<1>5. Obeys'
  BY <1>1, <1>3, <1>4, Obeyed
<1>6. Flow' = Flow
  BY <1>1 DEF Flow
<1> QED
  BY <1>1, <1>4, <1>5, <1>6 DEF KeyInv

\* More is sent.
LEMMA KeyPress == ASSUME KeyInv, Press PROVE KeyInv'
<1>1. /\ UNCHANGED <<session, pc, input, sequence, key>> /\ wire = <<>>
      /\ session.keys \subseteq Plain /\ input \in Seq(Byte)
  BY DEF Press, KeyInv
<1>2. PICK k \in Plain : wire' = Sent(k)
  BY <1>1 DEF Press
<1>3. Flow = input /\ Flow' = input \o Sent(k) /\ Whole(Flow)
  BY <1>1, <1>2, ConcatEmptySeq DEF Flow, KeyInv
<1>4. wire' \in Seq(Byte) /\ wire'[1].at = 1
  BY <1>2, SentBytes, KeyWhole
<1>5. /\ Whole(Flow') /\ Flow' # <<>>
      /\ IF Flow = <<>> THEN Flow'[1].at = 1 ELSE Flow'[1] = Flow[1]
  BY <1>3, WholeConcat
<1>6. Opening(Flow) => Opening(Flow')
  BY <1>5 DEF Opening
<1>7. \A j \in Plain, m \in {1, 2, 3} : Started(j, m) => Started(j, m)'
  BY <1>1, <1>5 DEF Started
<1>8. {"PageUp", "PageDown"} \subseteq Plain
  BY DEF Plain, Bytes
<1> QED
  BY <1>1, <1>4, <1>5, <1>6, <1>7, <1>8 DEF KeyInv, Obeys, Whole, Opening

\* What arrives has been sent.
LEMMA KeyArrive == ASSUME KeyInv, Arrive PROVE KeyInv'
<1>1. /\ UNCHANGED <<session, pc, sequence, key>> /\ wire # <<>>
      /\ input \in Seq(Byte) /\ wire \in Seq(Byte)
  BY DEF Arrive, KeyInv
<1>2. PICK n \in 1..Len(wire) :
        /\ session.careful => n = Len(wire)
        /\ input' = input \o SubSeq(wire, 1, n)
        /\ wire' = SubSeq(wire, n + 1, Len(wire))
  BY DEF Arrive
<1> DEFINE front == SubSeq(wire, 1, n)
           back == SubSeq(wire, n + 1, Len(wire))
<1>3. Len(wire) \in Nat /\ \A i \in 1..Len(wire) : wire[i] \in Byte
  BY <1>1, LenProperties, ElementOfSeq
<1>4. front \in Seq(Byte) /\ back \in Seq(Byte)
  BY <1>3, SubSeqProperties
<1>5. front \o back = wire
  <2>1. 1 \in 1..Len(wire) + 1 /\ n \in 1 - 1..Len(wire) /\ Len(wire) \in n..Len(wire)
    BY <1>3
  <2>2. front \o back = SubSeq(wire, 1, Len(wire))
    BY <1>1, <2>1, ConcatAdjacentSubSeq
  <2> QED
    BY <1>1, <2>2, SubSeqFull
<1>6. n = Len(wire) => back = <<>>
  BY <1>3, SubSeqEmpty
<1>7. input' = input \o front /\ wire' = back
  BY <1>2
<1> HIDE DEF front, back
<1>8. input' \in Seq(Byte) /\ wire' \in Seq(Byte)
  BY <1>1, <1>4, <1>7, ConcatProperties
<1>9. Flow' = Flow
  <2>1. Flow' = (input \o front) \o back
    BY <1>7 DEF Flow
  <2>2. (input \o front) \o back = input \o (front \o back)
    BY <1>1, <1>4, ConcatAssociative
  <2> QED
    BY <1>5, <2>1, <2>2 DEF Flow
<1>10. session.careful => wire' = <<>>
  BY <1>2, <1>6, <1>7
<1> HIDE DEF Flow
<1>11. \A j, m : Started(j, m) => Started(j, m)'
  BY <1>1, <1>9 DEF Started
<1> QED
  BY <1>1, <1>8, <1>9, <1>10, <1>11 DEF KeyInv, Obeys, Whole, Opening

PlainInv == session.keys \subseteq Plain => KeyInv

LEMMA KeyNext == PlainInv /\ [Next]_vars => PlainInv'
<1> SUFFICES ASSUME PlainInv, [Next]_vars, session'.keys \subseteq Plain PROVE KeyInv'
  BY DEF PlainInv
<1>1. session' = session
  BY DEF Next, Loop, BeginScan, Digest, Draw, NoKey, ReadFirst, ReadNothing, ReadBracket, ReadFinal,
         ReadTilde, Quit, Refresh, ToggleAuto, Scroll, Select, Disregard, Act, Press, Arrive, Done,
         loopVars, vars
<1>2. KeyInv
  BY <1>1 DEF PlainInv
<1>3. CASE ReadFirst \/ ReadBracket \/ ReadFinal \/ ReadTilde \/ ReadNothing \/ Press \/ Arrive
  BY <1>2, <1>3, KeyReadFirst, KeyReadBracket, KeyReadFinal, KeyReadTilde, KeyReadNothing, KeyPress,
     KeyArrive
<1>4. CASE BeginScan \/ Digest \/ Draw \/ NoKey
  <2>1. /\ UNCHANGED <<session, wire, input, sequence, key>>
        /\ pc \in {"start", "scan", "draw", "wait"} /\ pc' \in {"start", "scan", "draw", "wait", "left"}
    BY <1>4 DEF BeginScan, Digest, Draw, NoKey, keyVars
  <2>2. Flow' = Flow
    BY <2>1 DEF Flow
  <2> QED
    BY <1>2, <2>1, <2>2 DEF KeyInv, Obeys
<1>5. CASE Quit \/ Refresh \/ ToggleAuto \/ Scroll \/ Select \/ Disregard
  <2>1. /\ UNCHANGED <<session, wire, input>> /\ sequence' = <<>> /\ pc = "act"
        /\ pc' \in {"left", "draw", "start"}
    BY <1>1, <1>5 DEF Quit, Refresh, ToggleAuto, Scroll, Select, Disregard, Act
  <2>2. Flow' = Flow
    BY <2>1 DEF Flow
  <2>3. <<>> \in Seq(Byte)
    OBVIOUS
  <2> QED
    BY <1>2, <2>1, <2>2, <2>3 DEF KeyInv, Obeys
<1>6. CASE UNCHANGED loopVars \/ Done \/ UNCHANGED vars
  <2>1. UNCHANGED <<session, pc, wire, input, sequence, key>>
    BY <1>6 DEF loopVars, keyVars, Done, vars
  <2>2. Flow' = Flow
    BY <2>1 DEF Flow
  <2> QED
    BY <1>2, <2>1, <2>2 DEF KeyInv, Started, Obeys
<1> QED
  BY <1>3, <1>4, <1>5, <1>6 DEF Next, Loop

\* DashboardCommand::readKey: for every set of keys, any number of bytes typed
\* ahead, and whatever pieces a key arrives in, no key turns into another one:
\* it is decoded as what was pressed, or given up, and what is left of it does
\* nothing, but for the letter in a torn arrow key.
THEOREM ObeysCorrect == Spec => []Obeys
<1>1. Init => PlainInv
  BY KeyInit DEF PlainInv
<1>2. PlainInv => Obeys
  BY DEF PlainInv, KeyInv, Obeys
<1> QED
  BY KeyNext, <1>1, <1>2, PTL DEF Spec

-----------------------------------------------------------------------------
(* Types of the dashboard *)

LEMMA AnySent ==
    ASSUME NEW k \in DOMAIN Bytes
    PROVE  Sent(k) \in Seq(Byte)
<1>1. CASE k \in Plain
  BY <1>1, SentBytes
<1>2. CASE k \notin Plain
  <2>1. Bytes[k] = <<"escape">> \/ Bytes[k] = <<"escape", "O", "Q">>
    BY <1>2 DEF Plain, Bytes
  <2>2. "escape" \in Char /\ "O" \in Char /\ "Q" \in Char
    BY DEF Char
  <2>3. Bytes[k] \in Seq(Char) /\ Len(Bytes[k]) \in 1..4
    <3>1. CASE Bytes[k] = <<"escape">>
      <4>1. <<"escape">> \in Seq(Char) /\ Len(<<"escape">>) = 1
        BY <2>2, Tuples
      <4> QED
        BY <3>1, <4>1
    <3>2. CASE Bytes[k] = <<"escape", "O", "Q">>
      <4>1. <<"escape", "O", "Q">> \in Seq(Char) /\ Len(<<"escape", "O", "Q">>) = 3
        BY <2>2, Tuples
      <4> QED
        BY <3>2, <4>1
    <3> QED
      BY <2>1, <3>1, <3>2
  <2>4. \A i \in 1..Len(Bytes[k]) : Bytes[k][i] \in Char /\ i \in 1..4
    BY <2>3
  <2>5. \A i \in 1..Len(Bytes[k]) : [char |-> Bytes[k][i], key |-> k, at |-> i] \in Byte
    BY <2>4 DEF Byte
  <2>6. Len(Bytes[k]) \in Nat
    BY <2>3
  <2> QED
    BY <2>5, <2>6 DEF Sent
<1> QED
  BY <1>1, <1>2

KeyTypes ==
    /\ session \in Sessions /\ setup = session.setup
    /\ pc \in {"start", "scan", "draw", "wait", "escape", "bracket", "page", "act", "left"}
    /\ autoRefresh \in BOOLEAN /\ key \in Keys
    /\ wire \in Seq(Byte) /\ input \in Seq(Byte) /\ sequence \in Seq(Byte)

LEMMA KeyTypesInit == Init => KeyTypes
<1>1. <<>> \in Seq(Byte)
  OBVIOUS
<1> QED
  BY <1>1 DEF Init, KeyTypes, Keys

LEMMA KeysRead ==
    /\ \A char : Letter(char) \in Keys /\ Final(char) \in Keys
    /\ {"none", "pageUp", "pageDown"} \subseteq Keys
BY DEF Letter, Final, Keys

LEMMA KeyTypesNext == KeyTypes /\ [Next]_vars => KeyTypes'
<1> SUFFICES ASSUME KeyTypes, [Next]_vars PROVE KeyTypes'
  OBVIOUS
<1>0. /\ session \in Sessions /\ setup = session.setup /\ setup' = setup
      /\ pc \in {"start", "scan", "draw", "wait", "escape", "bracket", "page", "act", "left"}
      /\ autoRefresh \in BOOLEAN /\ key \in Keys
      /\ wire \in Seq(Byte) /\ input \in Seq(Byte) /\ sequence \in Seq(Byte)
  BY StepScans, SetupStays DEF KeyTypes
<1>1. ASSUME ReadFirst \/ ReadBracket \/ ReadFinal \/ ReadTilde PROVE KeyTypes'
  <2>1. /\ UNCHANGED <<session, autoRefresh, wire>> /\ Take
        /\ pc' \in {"escape", "bracket", "page", "act"} /\ key' \in Keys
    BY <1>0, <1>1, KeysRead DEF ReadFirst, ReadBracket, ReadFinal, ReadTilde, Decoded
  <2>2. input # <<>> /\ input' = Tail(input) /\ sequence' = Append(sequence, Head(input))
    BY <2>1 DEF Take
  <2>3. input' \in Seq(Byte) /\ sequence' \in Seq(Byte)
    BY <1>0, <2>2
  <2> QED
    BY <1>0, <2>1, <2>3 DEF KeyTypes
<1>2. ASSUME ReadNothing PROVE KeyTypes'
  BY <1>0, <1>2, KeysRead DEF ReadNothing, Decoded, KeyTypes
<1>3. ASSUME BeginScan \/ Digest \/ Draw \/ NoKey PROVE KeyTypes'
  <2>1. /\ UNCHANGED <<session, autoRefresh, wire, input, sequence, key>>
        /\ pc' \in {"start", "scan", "draw", "wait", "left"}
    BY <1>3 DEF BeginScan, Digest, Draw, NoKey, keyVars
  <2> QED
    BY <1>0, <2>1 DEF KeyTypes
<1>4. ASSUME Quit \/ Refresh \/ ToggleAuto \/ Scroll \/ Select \/ Disregard PROVE KeyTypes'
  <2>1. /\ UNCHANGED <<session, wire, input>> /\ sequence' = <<>> /\ key' = "none"
        /\ pc' \in {"left", "draw", "start"}
        /\ autoRefresh' = autoRefresh \/ autoRefresh' = ~autoRefresh
    BY <1>4 DEF Quit, Refresh, ToggleAuto, Scroll, Select, Disregard, Act
  <2>2. autoRefresh' \in BOOLEAN
    BY <1>0, <2>1
  <2>3. <<>> \in Seq(Byte)
    OBVIOUS
  <2> QED
    BY <1>0, <2>1, <2>2, <2>3, KeysRead DEF KeyTypes
<1>5. ASSUME Press PROVE KeyTypes'
  <2>1. UNCHANGED <<session, pc, autoRefresh, input, sequence, key>>
    BY <1>5 DEF Press
  <2>2. PICK k \in session.keys : wire' = Sent(k)
    BY <1>5 DEF Press
  <2>3. k \in DOMAIN Bytes
    BY <1>0, <2>2, DashboardAssumption
  <2> QED
    BY <1>0, <2>1, <2>2, <2>3, AnySent DEF KeyTypes
<1>6. ASSUME Arrive PROVE KeyTypes'
  <2>1. UNCHANGED <<session, pc, autoRefresh, sequence, key>>
    BY <1>6 DEF Arrive
  <2>2. PICK n \in 1..Len(wire) :
          input' = input \o SubSeq(wire, 1, n) /\ wire' = SubSeq(wire, n + 1, Len(wire))
    BY <1>6 DEF Arrive
  <2>3. SubSeq(wire, 1, n) \in Seq(Byte) /\ SubSeq(wire, n + 1, Len(wire)) \in Seq(Byte)
    BY <1>0, <2>2
  <2>4. input' \in Seq(Byte)
    BY <1>0, <2>2, <2>3, ConcatProperties
  <2> QED
    BY <1>0, <2>1, <2>2, <2>3, <2>4 DEF KeyTypes
<1>7. ASSUME UNCHANGED loopVars \/ Done \/ UNCHANGED vars PROVE KeyTypes'
  <2>1. UNCHANGED <<session, pc, autoRefresh, wire, input, sequence, key>>
    BY <1>7 DEF loopVars, keyVars, Done, vars
  <2> QED
    BY <1>0, <2>1 DEF KeyTypes
<1> QED
  BY <1>1, <1>2, <1>3, <1>4, <1>5, <1>6, <1>7 DEF Next, Loop

\* DashboardCommand::execute keeps to its types through scans and keys, whatever
\* bytes the terminal hands over and however it splits them.
THEOREM DashboardTypesCorrect == Spec => []TypeOK
<1>1. ScanTypeOK /\ ScreenInv /\ KeyTypes => TypeOK
  <2> SUFFICES ASSUME ScanTypeOK, ScreenInv, KeyTypes PROVE TypeOK
    OBVIOUS
  <2>1. recommendations \in 0..MaxRecommendations
    BY DashboardAssumption DEF ScreenInv
  <2> QED
    BY <2>1 DEF ScreenInv, KeyTypes, TypeOK
<1> QED
  BY DashboardScans, ScanTypesCorrect, ScreenInit, ScreenNext, KeyTypesInit, KeyTypesNext, <1>1, PTL
     DEF Spec
=============================================================================
