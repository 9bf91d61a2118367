------------------------- MODULE ConfigLoaderProofs -------------------------
(***************************************************************************)
(* Proofs about ConfigLoader for every number of processes and every text  *)
(* a user may write, and about Paths, which decides which paths of that    *)
(* text are safe, for every file system.                                   *)
(***************************************************************************)
EXTENDS ConfigLoader, Paths, FoldLemmas

Kept == {"safe", "other"}

\* What precedes the first bad entry is a list again.
LEMMA BeforeIsPrefix ==
    ASSUME NEW list \in Seq(Custom)
    PROVE  LET before == {k \in 1..Len(list) : \A j \in BadAt(list) : k < j}
           IN  \E m \in 0..Len(list) : before = 1..m
<1> DEFINE before == {k \in 1..Len(list) : \A j \in BadAt(list) : k < j}
           n == Len(list)
<1>0. n \in Nat /\ BadAt(list) \in SUBSET Nat /\ BadAt(list) \subseteq 1..n
  BY DEF BadAt
<1>1. CASE BadAt(list) = {}
  <2>1. before = 1..n
    BY <1>1
  <2> QED
    BY <1>0, <2>1
<1>2. CASE BadAt(list) # {}
  <2>1. PICK b \in BadAt(list) : \A j \in BadAt(list) : b <= j
    BY <1>0, <1>2, LeastNumber
  <2>2. b \in 1..n /\ b - 1 \in 0..n
    BY <1>0, <2>1
  <2>3. \A k \in 1..n : (\A j \in BadAt(list) : k < j) <=> k < b
    <3> SUFFICES ASSUME NEW k \in 1..n PROVE (\A j \in BadAt(list) : k < j) <=> k < b
      OBVIOUS
    <3>1. ASSUME k < b, NEW j \in BadAt(list) PROVE k < j
      BY <1>0, <2>1, <3>1
    <3> QED
      BY <2>1, <3>1
  <2>4. before = {k \in 1..n : k < b}
    BY <2>3
  <2>5. {k \in 1..n : k < b} = 1..(b - 1)
    BY <1>0, <2>2
  <2> HIDE DEF before
  <2> QED
    BY <2>2, <2>4, <2>5, Zenon DEF before
<1> QED
  BY <1>1, <1>2

LEMMA CustomFacts ==
    ASSUME NEW list \in Seq(Custom)
    PROVE  CustomCaches(list) \in Seq(Kept)
<1> DEFINE before == {k \in 1..Len(list) : \A j \in BadAt(list) : k < j}
           prefix == [k \in before |-> list[k]]
           S == Custom \ {"unsafe"}
<1>1. PICK m \in 0..Len(list) : before = 1..m
  BY BeforeIsPrefix
<1>2. \A k \in before : list[k] \in Custom \ {"bad"}
  BY DEF BadAt
<1>3. prefix \in Seq(Custom \ {"bad"})
  <2>1. prefix \in [1..m -> Custom \ {"bad"}]
    BY <1>1, <1>2
  <2> HIDE DEF prefix
  <2> QED
    BY <2>1
<1> DEFINE made == Filtered(prefix, S)
           X == Custom \ {"bad"}
<1>4. made \in Seq(X) /\ Range(made) = Range(prefix) \cap S
  <2> HIDE DEF prefix, S
  <2> QED
    BY <1>3, FilteredFacts
<1>5. \A k \in 1..Len(made) : made[k] \in X /\ made[k] \in S
  <2> HIDE DEF made, X, S
  <2>1. \A k \in 1..Len(made) : made[k] \in X /\ made[k] \in Range(made)
    BY <1>4 DEF Range
  <2> QED
    BY <1>4, <2>1
<1>6. \A x \in X : x \in S => x \in Kept
  BY DEF Custom, Kept
<1>7. made \in Seq(Kept)
  <2> HIDE DEF made, X, S
  <2>1. Len(made) \in Nat /\ made \in [1..Len(made) -> X]
    BY <1>4
  <2>2. made = [k \in 1..Len(made) |-> made[k]] /\ \A k \in 1..Len(made) : made[k] \in Kept
    BY <1>5, <1>6, <2>1
  <2>3. made \in [1..Len(made) -> Kept]
    BY <2>2
  <2> QED
    BY <2>1, <2>3
<1> QED
  BY <1>7 DEF CustomCaches

\* Nothing is lost of a list that devclean has written.
LEMMA CustomKept ==
    ASSUME NEW list \in Seq(Kept)
    PROVE  list \in Seq(Custom) /\ BadAt(list) = {} /\ CustomCaches(list) = list
<1>1. Len(list) \in Nat /\ \A k \in 1..Len(list) : list[k] \in Kept
  OBVIOUS
<1>2. list \in Seq(Custom)
  <2>1. Kept \subseteq Custom
    BY DEF Kept, Custom
  <2> QED
    BY <2>1, SeqMonotonic
<1>3. BadAt(list) = {}
  BY <1>1 DEF BadAt, Kept
<1> DEFINE before == {k \in 1..Len(list) : \A j \in BadAt(list) : k < j}
           S == Custom \ {"unsafe"}
<1>4. before = 1..Len(list) /\ [k \in before |-> list[k]] = list
  <2>1. before = 1..Len(list)
    BY <1>3
  <2>2. list = [k \in 1..Len(list) |-> list[k]]
    OBVIOUS
  <2> HIDE DEF before
  <2> QED
    BY <2>1, <2>2
<1>5. \A k \in 1..Len(list) : list[k] \in S
  BY <1>1 DEF Kept, Custom
<1>6. Filtered(list, S) = list
  <2> HIDE DEF S
  <2> QED
    BY <1>5, FilteredAll
<1>7. CustomCaches(list) = Filtered([k \in before |-> list[k]], S)
  BY DEF CustomCaches
<1> HIDE DEF before, S
<1> QED
  BY <1>2, <1>3, <1>4, <1>6, <1>7

-----------------------------------------------------------------------------
(* The conversion *)

LEMMA ValidateFacts ==
    ASSUME NEW c \in AppConfig
    PROVE  /\ ValidateConfig(c) \in AppConfig
           /\ ValidateConfig(ValidateConfig(c)) = ValidateConfig(c)
           /\ Meaning(ValidateConfig(c)) = Meaning(c)
<1>1. ValidateConfig(c) \in AppConfig
  BY DEF AppConfig, ValidateConfig
<1>2. /\ ValidateConfig(c).sort # "empty" /\ ValidateConfig(c).version # "empty"
      /\ ValidateConfig(c).ignored = c.ignored /\ ValidateConfig(c).custom = c.custom
  BY DEF AppConfig, ValidateConfig
<1>3. \A d \in AppConfig : d.sort # "empty" /\ d.version # "empty" => ValidateConfig(d) = d
  BY DEF AppConfig, ValidateConfig
<1>4. ValidateConfig(ValidateConfig(c)) = ValidateConfig(c)
  BY <1>1, <1>2, <1>3
<1> QED
  BY <1>1, <1>2, <1>4, Zenon DEF Meaning

LEMMA DefaultFacts == Default \in AppConfig
<1>1. <<>> \in Seq({"safe", "other"})
  OBVIOUS
<1> QED
  BY <1>1 DEF Default, AppConfig, Names

\* Whatever the user has written, load() returns settings.
LEMMA ParsedType ==
    ASSUME NEW r \in RootType
    PROVE  Parsed(r) \in AppConfig
<1> DEFINE m == MigrateLegacyConfig(r)
           lists == [Default EXCEPT !.ignored = ReadStringArray(m.ignored)]
           full == [lists EXCEPT !.sort = IF m.sort = "missing" THEN "name" ELSE m.sort,
                                 !.version = m.version, !.custom = CustomCaches(m.custom)]
<1>1. /\ r.version \in Version /\ r.sort \in Scalar /\ r.legacySort \in Scalar
      /\ r.ignored \in ListField /\ r.legacyIgnored \in ListField /\ r.custom \in Seq(Custom)
  BY DEF RootType
<1>2. /\ m.ignored \in ListField /\ m.custom = r.custom
      /\ ~Unreadable(r) => m.version \in {"empty", "1.0.0", "1.0.1"}
      /\ ~DefaultsThrow(r) => m.sort \in {"missing", "empty", "name", "size"}
  BY <1>1 DEF MigrateLegacyConfig, RootType, Unreadable, DefaultsThrow, Version, Scalar, Text
<1>3. ReadStringArray(m.ignored) \in Names
  BY <1>2 DEF ReadStringArray, ListField, Names
<1>4. lists \in AppConfig
  BY <1>3, DefaultFacts DEF AppConfig
<1>5. CustomCaches(m.custom) \in Seq({"safe", "other"})
  BY <1>1, <1>2, CustomFacts DEF Kept
<1>6. ~Unreadable(r) /\ ~DefaultsThrow(r) => full \in AppConfig
  <2> HIDE DEF m, lists
  <2> QED
    BY <1>2, <1>4, <1>5 DEF AppConfig
<1>7. ~Unreadable(r) /\ ~DefaultsThrow(r) => ValidateConfig(full) \in AppConfig
  <2> HIDE DEF full
  <2> QED
    BY <1>6, ValidateFacts
<1>8. Parsed(r) = CASE Unreadable(r) -> Default
                    [] ~Unreadable(r) /\ DefaultsThrow(r) -> lists
                    [] OTHER -> IF Throws(r) THEN full ELSE ValidateConfig(full)
  BY DEF Parsed
<1> HIDE DEF m, lists, full
<1>9. Parsed(r) \in {Default, lists, full, ValidateConfig(full)}
      /\ (Parsed(r) \in {Default, lists} \/ (~Unreadable(r) /\ ~DefaultsThrow(r)))
  BY <1>8
<1> QED
  BY <1>4, <1>6, <1>7, <1>9, DefaultFacts

\* What save() writes is in the current format and reads back as it was.
LEMMA SavedFacts ==
    ASSUME NEW c \in AppConfig
    PROVE  /\ Saved(c) \in RootType /\ ~Migrated(Saved(c)) /\ ~Throws(Saved(c))
           /\ Parsed(Saved(c)) = ValidateConfig(c)
<1> DEFINE r == Saved(c)
<1>1. /\ c.ignored \in Names /\ c.sort \in {"empty", "name", "size"}
      /\ c.version \in {"empty", "1.0.0", "1.0.1"} /\ c.custom \in Seq(Kept)
  BY DEF AppConfig, Kept
<1>2. c.custom \in Seq(Custom) /\ BadAt(c.custom) = {} /\ CustomCaches(c.custom) = c.custom
  BY <1>1, CustomKept
<1>3. /\ r.version = c.version /\ r.schema = "current" /\ r.ignored = c.ignored /\ r.legacyIgnored = "missing"
      /\ r.sort = c.sort /\ r.legacySort = "missing" /\ r.custom = c.custom
  BY DEF Saved
<1>4. r \in RootType
  BY <1>1, <1>2 DEF Saved, RootType, Names, ListField, Scalar, Version, Schema, Text
<1>5. ~Unreadable(r) /\ ~DefaultsThrow(r) /\ ~Throws(r) /\ ~Migrated(r)
  <2> HIDE DEF r
  <2> QED
    BY <1>1, <1>2, <1>3 DEF Unreadable, DefaultsThrow, Throws, Migrated
<1>6. MigrateLegacyConfig(r) = r
  <2> HIDE DEF r
  <2> QED
    BY <1>1, <1>3, <1>4 DEF MigrateLegacyConfig, RootType, Names
<1>7. ReadStringArray(c.ignored) = c.ignored
  BY <1>1 DEF ReadStringArray, Names
<1> DEFINE lists == [Default EXCEPT !.ignored = ReadStringArray(r.ignored)]
           full == [lists EXCEPT !.sort = IF r.sort = "missing" THEN "name" ELSE r.sort,
                                 !.version = r.version, !.custom = CustomCaches(r.custom)]
<1>8. full = c
  <2>1. full = [ignored |-> c.ignored, sort |-> c.sort, version |-> c.version, custom |-> c.custom]
    <3>1. ReadStringArray(r.ignored) = c.ignored /\ CustomCaches(r.custom) = c.custom
      BY <1>2, <1>3, <1>7, Zenon
    <3>2. (IF r.sort = "missing" THEN "name" ELSE r.sort) = c.sort
      BY <1>1, <1>3
    <3>3. lists = [ignored |-> c.ignored, sort |-> "name", version |-> "1.0.1", custom |-> <<>>]
      <4> HIDE DEF r
      <4> QED
        BY <3>1 DEF Default
    <3>4. \A s, v, k : [lists EXCEPT !.sort = s, !.version = v, !.custom = k]
                        = [ignored |-> c.ignored, sort |-> s, version |-> v, custom |-> k]
      <4> SUFFICES ASSUME NEW s, NEW v, NEW k
                   PROVE  [lists EXCEPT !.sort = s, !.version = v, !.custom = k]
                          = [ignored |-> c.ignored, sort |-> s, version |-> v, custom |-> k]
        OBVIOUS
      <4> DEFINE one == [lists EXCEPT !.sort = s]
                 two == [one EXCEPT !.version = v]
      <4>1. one = [ignored |-> c.ignored, sort |-> s, version |-> "1.0.1", custom |-> <<>>]
        <5> HIDE DEF lists
        <5> QED
          BY <3>3
      <4>2. two = [ignored |-> c.ignored, sort |-> s, version |-> v, custom |-> <<>>]
        <5> HIDE DEF one
        <5> QED
          BY <4>1
      <4>3. [two EXCEPT !.custom = k] = [ignored |-> c.ignored, sort |-> s, version |-> v, custom |-> k]
        <5> HIDE DEF two
        <5> QED
          BY <4>2
      <4> HIDE DEF lists
      <4> QED
        BY <4>3
    <3>5. full = [lists EXCEPT !.sort = c.sort, !.version = c.version, !.custom = c.custom]
      BY <1>3, <3>1, <3>2, Zenon
    <3> HIDE DEF full, lists
    <3> QED
      BY <3>4, <3>5
  <2>2. c = [ignored |-> c.ignored, sort |-> c.sort, version |-> c.version, custom |-> c.custom]
    BY DEF AppConfig
  <2> QED
    BY <2>1, <2>2
<1>9. Parsed(r) = ValidateConfig(full)
  <2> HIDE DEF r
  <2> QED
    BY <1>5, <1>6 DEF Parsed
<1> QED
  BY <1>4, <1>5, <1>8, <1>9

-----------------------------------------------------------------------------
(* The file *)

LEMMA BlankFacts == Blank \in RootType /\ \A s \in {"absent", "empty", "garbage", "whole"} :
    NoFile(s) \in [state : {"absent", "empty", "garbage", "whole"}, root : RootType, by : {"user", "devclean"}]
<1>1. Blank \in RootType
  BY DefaultFacts, SavedFacts DEF Blank
<1> QED
  BY <1>1 DEF NoFile

LEMMA ConfigInit == Init => ConfigInv
<1> SUFFICES ASSUME Init PROVE ConfigInv
  OBVIOUS
<1>1. TypeOK
  <2>1. file \in [state : {"absent", "empty", "garbage", "whole"}, root : RootType, by : {"user", "devclean"}]
    BY BlankFacts, ConfigAssumption DEF Init
  <2> QED
    BY <2>1, BlankFacts, DefaultFacts, ConfigAssumption DEF Init, TypeOK
<1>2. file.state # "whole" \/ file.by = "user"
  BY DEF Init, NoFile
<1> QED
  BY <1>1, <1>2 DEF ConfigInv, SavedLoadsCleanly

LEMMA TypeStep == TypeOK /\ [Next]_vars => TypeOK'
<1> SUFFICES ASSUME TypeOK, [Next]_vars PROVE TypeOK'
  OBVIOUS
<1> USE DEF TypeOK
<1>1. CASE UserEdits
  BY <1>1, ConfigAssumption DEF UserEdits, Edit
<1>2. ASSUME NEW p \in Proc, Load(p) PROVE TypeOK'
  <2>1. file.root \in RootType
    OBVIOUS
  <2>2. Parsed(file.root) \in AppConfig /\ Default \in AppConfig /\ Blank \in RootType
    BY <2>1, ParsedType, DefaultFacts, BlankFacts
  <2>3. config' \in [Proc -> AppConfig] /\ source' \in [Proc -> RootType]
        /\ pc' \in [Proc -> {"idle", "saving", "writing", "loaded"}]
    BY <1>2, <2>1, <2>2 DEF Load
  <2> QED
    BY <1>2, <2>3 DEF Load
<1>3. ASSUME NEW p \in Proc, OpenTruncate(p) PROVE TypeOK'
  BY <1>3, BlankFacts DEF OpenTruncate
<1>4. ASSUME NEW p \in Proc, Write(p) PROVE TypeOK'
  <2>1. Saved(config[p]) \in RootType
    BY SavedFacts
  <2>2. file' \in [state : {"absent", "empty", "garbage", "whole"}, root : RootType, by : {"user", "devclean"}]
    BY <1>4, <2>1, BlankFacts DEF Write
  <2> QED
    BY <1>4, <2>2 DEF Write
<1>5. ASSUME NEW p \in Proc, Exit(p) \/ Die(p) PROVE TypeOK'
  BY <1>5 DEF Exit, Die
<1>6. CASE UNCHANGED vars
  BY <1>6 DEF vars
<1> QED
  BY <1>1, <1>2, <1>3, <1>4, <1>5, <1>6 DEF Next

\* Whoever loads what devclean has saved gets the settings it was saved from,
\* so a later load that replaces them changes nothing.
LEMMA CleanStep == ConfigInv /\ [Next]_vars => SavedLoadsCleanly'
<1> SUFFICES ASSUME TypeOK, SavedLoadsCleanly, [Next]_vars,
                    file'.state = "whole", file'.by = "devclean"
             PROVE  /\ ~Migrated(file'.root) /\ ~Throws(file'.root)
                    /\ \E p \in Proc : Parsed(file'.root) = ValidateConfig(config'[p])
  BY DEF ConfigInv, SavedLoadsCleanly
<1>0. config \in [Proc -> AppConfig] /\ file.root \in RootType
  BY DEF TypeOK
<1>1. ASSUME file' = file
      PROVE  /\ ~Migrated(file'.root) /\ ~Throws(file'.root)
             /\ \E p \in Proc : Parsed(file'.root) = ValidateConfig(config[p])
  BY <1>1 DEF SavedLoadsCleanly
<1>2. CASE UserEdits
  BY <1>2 DEF UserEdits, Edit
<1>3. ASSUME NEW p \in Proc, Load(p)
      PROVE  /\ ~Migrated(file'.root) /\ ~Throws(file'.root)
             /\ \E q \in Proc : Parsed(file'.root) = ValidateConfig(config'[q])
  <2>1. file' = file /\ config' = [config EXCEPT ![p] = Parsed(file.root)]
    BY <1>3 DEF Load
  <2>2. PICK q \in Proc : Parsed(file.root) = ValidateConfig(config[q])
    BY <1>1, <2>1
  <2>3. ~Migrated(file'.root) /\ ~Throws(file'.root)
    BY <1>1, <2>1
  <2>4. ValidateConfig(Parsed(file.root)) = Parsed(file.root)
    BY <1>0, <2>2, ValidateFacts
  <2>5. Parsed(file'.root) = ValidateConfig(config'[p])
    BY <1>0, <2>1, <2>4
  <2> QED
    BY <2>3, <2>5
<1>4. ASSUME NEW p \in Proc, OpenTruncate(p)
      PROVE  /\ ~Migrated(file'.root) /\ ~Throws(file'.root)
             /\ \E q \in Proc : Parsed(file'.root) = ValidateConfig(config'[q])
  <2>1. file' = file /\ config' = config
    BY <1>4 DEF OpenTruncate, NoFile
  <2> QED
    BY <1>1, <2>1
<1>5. ASSUME NEW p \in Proc, Write(p)
      PROVE  /\ ~Migrated(file'.root) /\ ~Throws(file'.root)
             /\ \E q \in Proc : Parsed(file'.root) = ValidateConfig(config'[q])
  <2>1. file'.root = Saved(config[p]) /\ config' = config
    BY <1>5 DEF Write, NoFile
  <2> QED
    BY <1>0, <2>1, SavedFacts
<1>6. CASE (\E p \in Proc : Exit(p) \/ Die(p)) \/ UNCHANGED vars
  <2>1. file' = file /\ config' = config
    BY <1>6 DEF Exit, Die, vars
  <2> QED
    BY <1>1, <2>1
<1> QED
  BY <1>2, <1>3, <1>4, <1>5, <1>6 DEF Next

LEMMA ConfigStep == ConfigInv /\ [Next]_vars => ConfigInv'
BY TypeStep, CleanStep DEF ConfigInv

\* In every reachable state what devclean has saved is in the current format,
\* parses without a warning, and reads back as the settings of a run; whatever
\* order the runs load, truncate, write and die in.
THEOREM ConfigCorrect == Spec => []ConfigInv
BY ConfigInit, ConfigStep, PTL DEF Spec

-----------------------------------------------------------------------------
(* What the file means *)

LEMMA CalmInit == Init => CalmInv
<1> SUFFICES ASSUME Init PROVE CalmInv
  OBVIOUS
<1>1. Writing = {} /\ file.state \in {"absent", "whole"} /\ \A p \in Proc : pc[p] = "idle"
  BY DEF Init, Writing, NoFile
<1> QED
  BY <1>1 DEF CalmInv, Settings

\* Whichever of several writers the next run waits for, it waits for the same.
LEMMA OneMeaning ==
    ASSUME CalmInv, calm, NEW m, m = Settings
    PROVE  /\ Writing = {} => m = Meaning(IF file.state = "whole" THEN Parsed(file.root) ELSE Default)
           /\ \A p \in Writing : Meaning(config[p]) = m
BY DEF CalmInv, Settings, Writing

\* The steps of a run keep the meaning, and every text and every writer has it.
LEMMA RunsKeepMeaning ==
    ASSUME TypeOK, CalmInv, calm, NEW p \in Proc,
           Load(p) \/ OpenTruncate(p) \/ Write(p) \/ Exit(p) \/ Die(p)
    PROVE  CalmInv' /\ Settings' = Settings
<1> DEFINE m == Settings
           Tells(t) == Meaning(IF file'.state = "whole" THEN Parsed(file'.root) ELSE Default) = t
<1>0. /\ config \in [Proc -> AppConfig] /\ pc \in [Proc -> {"idle", "saving", "writing", "loaded"}]
      /\ file.root \in RootType
  BY DEF TypeOK
<1>1. /\ file.state # "garbage"
      /\ file.state = "empty" => Writing # {}
      /\ file.state = "whole" => Meaning(Parsed(file.root)) = m
      /\ \A q \in Proc : pc[q] \in {"saving", "writing"} => Meaning(config[q]) = m
      /\ Writing = {} => m = Meaning(IF file.state = "whole" THEN Parsed(file.root) ELSE Default)
  BY OneMeaning DEF CalmInv
\* It is enough that the texts and the writers after the step mean what they meant.
<1>2. ASSUME file'.state # "garbage", file'.state = "empty" => Writing' # {},
             file'.state = "whole" => Meaning(Parsed(file'.root)) = m,
             \A q \in Proc : pc'[q] \in {"saving", "writing"} => Meaning(config'[q]) = m,
             Writing' = {} => Tells(m)
      PROVE  CalmInv' /\ Settings' = m
  <2>1. \A q \in Writing' : Meaning(config'[q]) = m
    BY <1>2 DEF Writing
  <2>2. Settings' = IF Writing' # {} THEN Meaning(config'[CHOOSE q \in Writing' : TRUE])
                    ELSE Meaning(IF file'.state = "whole" THEN Parsed(file'.root) ELSE Default)
    BY DEF Settings, Meaning
  <2>3. Settings' = m
    <3>1. CASE Writing' = {}
      BY <1>2, <2>2, <3>1
    <3>2. CASE Writing' # {}
      <4>1. (CHOOSE q \in Writing' : TRUE) \in Writing'
        BY <3>2
      <4> QED
        BY <2>1, <2>2, <3>2, <4>1, Zenon
    <3> QED
      BY <3>1, <3>2
  <2> HIDE DEF m
  <2> QED
    BY <1>2, <2>3 DEF CalmInv
<1> HIDE DEF m
<1>3. ASSUME Load(p) PROVE CalmInv' /\ Settings' = m
  <2>1. file' = file /\ pc[p] = "idle"
    BY <1>3 DEF Load
  <2>2. PICK c, s : /\ config' = [config EXCEPT ![p] = c] /\ pc' = [pc EXCEPT ![p] = s]
                    /\ s \in {"saving", "loaded"}
                    /\ s = "saving" => file.state = "whole" /\ c = Parsed(file.root)
    BY <1>3 DEF Load
  <2>3. Writing' = Writing
    BY <1>0, <2>1, <2>2 DEF Writing
  <2>4. \A q \in Proc : pc'[q] \in {"saving", "writing"} => Meaning(config'[q]) = m
    <3> SUFFICES ASSUME NEW q \in Proc, pc'[q] \in {"saving", "writing"}
                 PROVE  Meaning(config'[q]) = m
      OBVIOUS
    <3>1. CASE q = p
      BY <1>0, <1>1, <2>2, <3>1
    <3>2. CASE q # p
      BY <1>0, <1>1, <2>2, <3>2
    <3> QED
      BY <3>1, <3>2
  <2>5. Writing = {} => Tells(m)
    BY <1>1, <2>1
  <2> QED
    BY <1>1, <1>2, <2>1, <2>3, <2>4, <2>5, Zenon
<1>4. ASSUME OpenTruncate(p) PROVE CalmInv' /\ Settings' = m
  <2>1. config' = config /\ pc[p] = "saving" /\ pc' = [pc EXCEPT ![p] = "writing"] /\ file' = NoFile("empty")
    BY <1>4 DEF OpenTruncate
  <2>2. Writing' = Writing \cup {p} /\ Writing' # {}
    BY <1>0, <2>1 DEF Writing
  <2>3. \A q \in Proc : pc'[q] \in {"saving", "writing"} => Meaning(config'[q]) = m
    BY <1>0, <1>1, <2>1
  <2>4. file'.state # "garbage" /\ file'.state # "whole"
    BY <2>1 DEF NoFile
  <2> QED
    BY <1>2, <2>2, <2>3, <2>4, Zenon
<1>5. ASSUME Write(p) PROVE CalmInv' /\ Settings' = m
  <2>1. /\ config' = config /\ pc[p] = "writing" /\ pc' = [pc EXCEPT ![p] = "loaded"]
        /\ file'.state = "whole" /\ file'.root = Saved(config[p])
    BY <1>5 DEF Write
  <2>2. Meaning(Parsed(file'.root)) = m
    <3>1. Parsed(file'.root) = ValidateConfig(config[p])
      BY <1>0, <2>1, SavedFacts
    <3>2. Meaning(ValidateConfig(config[p])) = Meaning(config[p])
      BY <1>0, ValidateFacts
    <3> QED
      BY <1>1, <2>1, <3>1, <3>2
  <2>3. \A q \in Proc : pc'[q] \in {"saving", "writing"} => Meaning(config'[q]) = m
    BY <1>0, <1>1, <2>1
  <2>4. file'.state # "garbage" /\ file'.state # "empty" /\ Tells(m)
    BY <2>1, <2>2
  <2> QED
    BY <1>2, <2>2, <2>3, <2>4, Zenon
<1>6. ASSUME Exit(p) PROVE CalmInv' /\ Settings' = m
  <2>1. config' = config /\ file' = file /\ pc[p] = "loaded" /\ pc' = [pc EXCEPT ![p] = "idle"]
    BY <1>6 DEF Exit
  <2>2. Writing' = Writing
    BY <1>0, <2>1 DEF Writing
  <2>3. \A q \in Proc : pc'[q] \in {"saving", "writing"} => Meaning(config'[q]) = m
    BY <1>0, <1>1, <2>1
  <2>4. Writing = {} => Tells(m)
    BY <1>1, <2>1
  <2> QED
    BY <1>1, <1>2, <2>1, <2>2, <2>3, <2>4, Zenon
<1>7. ~Die(p)
  BY DEF Die
<1> USE DEF m
<1> QED
  BY <1>3, <1>4, <1>5, <1>6, <1>7, Zenon

LEMMA CalmStep ==
    TypeOK /\ CalmInv /\ [Next]_vars => CalmInv' /\ (calm => UserEdits \/ UNCHANGED Settings)
<1> SUFFICES ASSUME TypeOK, CalmInv, [Next]_vars
             PROVE  CalmInv' /\ (calm => UserEdits \/ Settings' = Settings)
  OBVIOUS
<1>1. CASE ~calm
  <2>1. calm' = calm
    BY DEF Next, UserEdits, Edit, Load, OpenTruncate, Write, Exit, Die, vars
  <2> QED
    BY <1>1, <2>1 DEF CalmInv
<1>2. CASE calm /\ UserEdits
  <2>1. PICK r \in Root : Edit(r)
    BY <1>2 DEF UserEdits
  <2>2. /\ pc' = pc /\ config' = config /\ file'.state = "whole" /\ \A p \in Proc : pc[p] = "idle"
        /\ Writing' = {}
    BY <1>2, <2>1 DEF Edit, Running, Writing
  <2>3. Settings' = Meaning(Parsed(file'.root))
    BY <2>2 DEF Settings, Meaning
  <2> QED
    BY <1>2, <2>2, <2>3 DEF CalmInv, Meaning
<1>3. CASE calm /\ ~UserEdits /\ Next
  <2>1. PICK p \in Proc : Load(p) \/ OpenTruncate(p) \/ Write(p) \/ Exit(p) \/ Die(p)
    BY <1>3 DEF Next
  <2> QED
    BY <1>3, <2>1, RunsKeepMeaning
<1>4. CASE UNCHANGED vars
  <2>1. Settings' = Settings
    BY <1>4 DEF vars, Settings, Meaning, Writing
  <2>2. Writing' = Writing
    BY <1>4 DEF vars, Writing
  <2>3. calm' = calm /\ file' = file /\ pc' = pc /\ config' = config
    BY <1>4 DEF vars
  <2>4. CalmInv'
    BY <2>1, <2>2, <2>3, Zenon DEF CalmInv
  <2> QED
    BY <2>1, <2>4, Zenon
<1> QED
  BY <1>1, <1>2, <1>3, <1>4

\* However many runs convert the same file at once, only the user changes what
\* it means, as long as the surroundings are calm.
THEOREM MeaningCorrect == Spec => OnlyTheUserChangesIt
<1>1. Init => ConfigInv /\ CalmInv
  BY ConfigInit, CalmInit
<1>2. ConfigInv /\ CalmInv /\ [Next]_vars => (ConfigInv /\ CalmInv)'
  BY ConfigStep, CalmStep DEF ConfigInv
<1>3. ConfigInv /\ CalmInv /\ [Next]_vars => [calm => UserEdits \/ UNCHANGED Settings]_vars
  BY CalmStep DEF ConfigInv
<1> QED
  BY <1>1, <1>2, <1>3, PTL DEF Spec, OnlyTheUserChangesIt

-----------------------------------------------------------------------------
(* What the paths of a configuration denote, in every file system *)

Spelling == [absolute : BOOLEAN, parts : Seq(STRING)]

\* What one part leads to is a directory, and there is at most one.
LEMMA Followed ==
    ASSUME FileSystem, NEW d \in Directory, NEW part \in STRING
    PROVE  /\ Follow(d, part) \subseteq Directory
           /\ \A e, f \in Follow(d, part) : e = f
<1>1. d \in Seq(STRING) /\ <<>> \in Directory
  BY DEF FileSystem
<1>2. d # <<>> => Front(d) \in Directory
  <2>1. Len(d) \in Nat /\ (d # <<>> => Len(d) - 1 \in 0..Len(d))
    BY <1>1
  <2> QED
    BY <2>1 DEF FileSystem, Front
<1>3. CASE part \in {"", "."}
  BY <1>3 DEF Follow
<1>4. CASE part = ".."
  BY <1>1, <1>2, <1>4 DEF Follow
<1>5. CASE part \notin {"", ".", ".."}
  BY <1>5 DEF Follow
<1> QED
  BY <1>3, <1>4, <1>5

LEMMA Starts ==
    ASSUME FileSystem, NEW p \in Spelling
    PROVE  Start(p) \in Directory
BY DEF FileSystem, Start

\* The parts of a path are followed one after the other.
LEMMA ReachedSteps ==
    ASSUME FileSystem, NEW p \in Spelling
    PROVE  /\ Reached(p, 0) = {Start(p)}
           /\ \A k \in 1..Len(p.parts) :
                 Reached(p, k) = UNION {Follow(d, p.parts[k]) : d \in Reached(p, k - 1)}
           /\ \A k \in 0..Len(p.parts) : Reached(p, k) \in SUBSET Directory
<1> DEFINE n == Len(p.parts)
           V == SUBSET Directory
           Next1(x, k) == UNION {Follow(d, p.parts[k]) : d \in x}
           g == [q \in (1..n) \X V |-> Next1(q[2], q[1])]
           Is(h) == h = [k \in 0..n |-> IF k = 0 THEN {Start(p)} ELSE Next1(h[k - 1], k)]
           r == CHOOSE h : Is(h)
<1>1. n \in Nat /\ (\A k \in 1..n : p.parts[k] \in STRING) /\ {Start(p)} \in V
  <2>1. p.parts \in Seq(STRING)
    BY DEF Spelling
  <2> QED
    BY <2>1, Starts
<1>2. \A x \in V, k \in 1..n : Next1(x, k) \in V
  <2> SUFFICES ASSUME NEW x \in V, NEW k \in 1..n PROVE Next1(x, k) \in V
    OBVIOUS
  <2>1. \A d \in x : Follow(d, p.parts[k]) \subseteq Directory
    BY <1>1, Followed
  <2> QED
    BY <2>1
<1> HIDE DEF Next1
<1>3. g \in [(1..n) \X V -> V]
  <2> HIDE DEF V, n
  <2> QED
    BY <1>2
<1>4. PICK h \in [0..n -> V] : StepLaw(h, n, {Start(p)}, g)
  <2> HIDE DEF n, V, g
  <2> QED
    BY <1>1, <1>3, StepsExist
<1>5. \A i \in 0..n : i # 0 => g[<<i, h[i - 1]>>] = Next1(h[i - 1], i)
  <2>1. \A i \in 0..n : i # 0 => i \in 1..n /\ i - 1 \in 0..n
    BY <1>1
  <2>2. \A i \in 0..n : i # 0 => <<i, h[i - 1]>> \in (1..n) \X V
    <3> HIDE DEF n, V
    <3> QED
      BY <1>4, <2>1
  <2> QED
    BY <2>2
<1>6. Is(h)
  <2>1. h = [i \in 0..n |-> IF i = 0 THEN {Start(p)} ELSE g[<<i, h[i - 1]>>]]
    BY <1>4 DEF StepLaw
  <2> HIDE DEF g, n
  <2> QED
    BY <1>5, <2>1
<1>7. Is(r)
  <2> HIDE DEF Is
  <2> QED
    BY <1>6
<1>8. \A k : Reached(p, k) = r[k]
  BY DEF Reached, Next1
<1>9. r[0] = {Start(p)} /\ \A k \in 1..n : r[k] = Next1(r[k - 1], k)
  <2>1. 0 \in 0..n /\ \A k \in 1..n : k \in 0..n /\ k # 0
    BY <1>1
  <2> HIDE DEF n, r
  <2> QED
    BY <1>7, <2>1
<1>10. r \in [0..n -> V]
  <2>1. r = [k \in 0..n |-> r[k]]
    <3> HIDE DEF r
    <3> QED
      BY <1>7
  <2>2. \A k \in 1..n : r[k - 1] \in V => r[k] \in V
    <3> HIDE DEF r, V, n
    <3> QED
      BY <1>2, <1>9
  <2>3. r[0] \in V /\ n \in Nat
    <3> HIDE DEF r, V, n
    <3> QED
      BY <1>1, <1>9
  <2> HIDE DEF r, V, n
  <2> QED
    BY <2>1, <2>2, <2>3, StepsStay
<1> HIDE DEF r
<1>11. Reached(p, 0) = {Start(p)}
  BY <1>8, <1>9
<1>12. ASSUME NEW k \in 1..n
       PROVE  Reached(p, k) = UNION {Follow(d, p.parts[k]) : d \in Reached(p, k - 1)}
  BY <1>8, <1>9, Zenon DEF Next1
<1>13. ASSUME NEW k \in 0..n PROVE Reached(p, k) \in SUBSET Directory
  BY <1>8, <1>10
<1> QED
  BY <1>11, <1>12, <1>13

\* So a path denotes at most one directory.
LEMMA OneReached ==
    ASSUME FileSystem, NEW p \in Spelling, NEW k \in 0..Len(p.parts)
    PROVE  \A d, e \in Reached(p, k) : d = e
<1> DEFINE n == Len(p.parts)
           N == {i \in 0..n : \A d, e \in Reached(p, i) : d = e}
<1>1. n \in Nat /\ \A i \in 1..n : p.parts[i] \in STRING
  BY DEF Spelling
<1>2. 0 \in N
  <2>1. Reached(p, 0) = {Start(p)}
    BY ReachedSteps
  <2> QED
    BY <1>1, <2>1
<1>3. ASSUME NEW i \in 0..(n - 1), i \in N PROVE i + 1 \in N
  <2>1. i \in 0..n /\ i + 1 \in 1..n /\ i + 1 \in 0..n /\ (i + 1) - 1 = i
    BY <1>1
  <2>2. Reached(p, i + 1) = UNION {Follow(d, p.parts[i + 1]) : d \in Reached(p, i)}
        /\ Reached(p, i) \subseteq Directory
    BY <2>1, ReachedSteps
  <2>3. ASSUME NEW d \in Reached(p, i + 1), NEW e \in Reached(p, i + 1) PROVE d = e
    <3>1. PICK x \in Reached(p, i) : d \in Follow(x, p.parts[i + 1])
      BY <2>2
    <3>2. PICK y \in Reached(p, i) : e \in Follow(y, p.parts[i + 1])
      BY <2>2
    <3>3. x = y /\ x \in Directory /\ p.parts[i + 1] \in STRING
      BY <1>1, <1>3, <2>1, <2>2
    <3> QED
      BY <3>1, <3>2, <3>3, Followed
  <2> QED
    BY <2>1, <2>3
<1>4. k \in N
  <2> HIDE DEF N
  <2>1. 0..n \subseteq N
    <3> HIDE DEF n
    <3> QED
      BY <1>1, <1>2, <1>3, EveryNumberUpTo
  <2> QED
    BY <2>1
<1> QED
  BY <1>4

\* The first elements of a sequence are those before the last of them, and it.
LEMMA OneMore ==
    ASSUME NEW dir \in Seq(STRING), NEW i \in Nat, i + 1 \in 1..Len(dir)
    PROVE  SubSeq(dir, 1, i + 1) = Append(SubSeq(dir, 1, i), dir[i + 1])
<1> DEFINE here == SubSeq(dir, 1, i)
           there == SubSeq(dir, 1, i + 1)
<1>1. here \in Seq(STRING) /\ there \in Seq(STRING) /\ Len(here) = i /\ Len(there) = i + 1
  BY SubSeqProperties
<1>2. \A j \in 1..i : here[j] = dir[j]
  BY SubSeqProperties
<1>3. \A j \in 1..(i + 1) : there[j] = dir[j]
  BY SubSeqProperties
<1>4. dir[i + 1] \in STRING
  OBVIOUS
<1> HIDE DEF here, there
<1>5. /\ Append(here, dir[i + 1]) \in Seq(STRING) /\ Len(Append(here, dir[i + 1])) = i + 1
      /\ Append(here, dir[i + 1])[i + 1] = dir[i + 1]
      /\ \A j \in 1..i : Append(here, dir[i + 1])[j] = here[j]
  BY <1>1, <1>4, AppendProperties
<1>6. \A j \in 1..(i + 1) : there[j] = Append(here, dir[i + 1])[j]
  <2>1. \A j \in 1..(i + 1) : j \in 1..i \/ j = i + 1
    OBVIOUS
  <2> QED
    BY <1>2, <1>3, <1>5, <2>1
<1>7. there = Append(here, dir[i + 1])
  BY <1>1, <1>5, <1>6, SeqEqual
<1> QED
  BY <1>7 DEF here, there

\* A directory is denoted by the names on the way to it.
LEMMA DirectoryDenotesItself ==
    ASSUME FileSystem, NEW dir \in Directory
    PROVE  Absolute(dir) \in Spelling /\ Denotes(Absolute(dir)) = {dir}
<1> DEFINE p == Absolute(dir)
           n == Len(dir)
           N == {i \in 0..n : Reached(p, i) = {SubSeq(dir, 1, i)}}
<1>1. dir \in Seq(STRING) /\ n \in Nat /\ p \in Spelling /\ p.parts = dir /\ p.absolute
  BY DEF FileSystem, Absolute, Spelling
<1> HIDE DEF p
<1>2. 0 \in N
  <2>1. SubSeq(dir, 1, 0) = <<>>
    BY <1>1, SubSeqEmpty
  <2>2. Reached(p, 0) = {<<>>}
    BY <1>1, ReachedSteps DEF Start
  <2>3. Reached(p, 0) = {SubSeq(dir, 1, 0)}
    BY <2>1, <2>2, Zenon
  <2>4. 0 \in 0..n
    BY <1>1
  <2> QED
    BY <2>3, <2>4, Zenon
<1>3. ASSUME NEW i \in 0..(n - 1), i \in N PROVE i + 1 \in N
  <2> DEFINE here == SubSeq(dir, 1, i)
             there == SubSeq(dir, 1, i + 1)
  <2>1. i \in Nat /\ i \in 0..n /\ i + 1 \in 1..n /\ i + 1 \in 0..n /\ (i + 1) - 1 = i
    BY <1>1
  <2>2. Reached(p, i + 1) = UNION {Follow(d, p.parts[i + 1]) : d \in Reached(p, i)}
    BY <1>1, <2>1, ReachedSteps
  <2>3. Reached(p, i) = {here}
    BY <1>3
  <2>4. there = Append(here, dir[i + 1])
    BY <1>1, <2>1, OneMore
  <2>5. there \in Directory /\ IsName(dir[i + 1])
    BY <1>1, <2>1 DEF FileSystem
  <2>6. there \notin DOMAIN Symlink
    BY <2>5 DEF FileSystem
  <2> HIDE DEF here, there
  <2>7. Follow(here, dir[i + 1]) = {there}
    BY <2>4, <2>5, <2>6 DEF Follow, IsName
  <2>8. Reached(p, i + 1) = {there}
    BY <1>1, <2>2, <2>3, <2>7
  <2> QED
    BY <2>1, <2>8 DEF there
<1>4. Reached(p, n) = {dir}
  <2>1. n \in N
    <3> HIDE DEF N, n
    <3>1. 0..n \subseteq N
      BY <1>1, <1>2, <1>3, EveryNumberUpTo
    <3> QED
      BY <1>1, <3>1
  <2>2. SubSeq(dir, 1, n) = dir
    BY <1>1, SubSeqFull
  <2> QED
    BY <2>1, <2>2
<1>5. p # Empty
  BY DEF p, Absolute, Empty, Relative
<1> QED
  BY <1>1, <1>4, <1>5 DEF Denotes, p

\* A path is shortened one part after the other; done holds what is left of them.
NormalLaw(done, p) ==
    LET n == Len(p.parts)
        names == done[n]
        slash == /\ names # <<>> /\ Last(names) # ".."
                 /\ Last(p.parts) \in {"", ".", ".."}
    IN  /\ done \in [0..n -> Seq(STRING)]
        /\ done[0] = <<>>
        /\ \A k \in 1..n : done[k] = Shortened(done[k - 1], p.parts[k], p.absolute)
        /\ LexicallyNormal(p) =
               [p EXCEPT !.parts = CASE slash -> Append(names, "")
                                     [] names = <<>> /\ ~p.absolute /\ p # Empty -> <<".">>
                                     [] OTHER -> names]

LEMMA ShortenedType ==
    ASSUME NEW done \in Seq(STRING), NEW part \in STRING, NEW absolute
    PROVE  Shortened(done, part, absolute) \in Seq(STRING)
<1>1. Append(done, part) \in Seq(STRING)
  BY AppendProperties
<1>2. done # <<>> => Front(done) \in Seq(STRING)
  <2>1. done # <<>> => 1 \in Int /\ Len(done) - 1 \in 0..Len(done)
    OBVIOUS
  <2> QED
    BY <2>1 DEF Front
<1> QED
  BY <1>1, <1>2 DEF Shortened

LEMMA NormalSteps ==
    ASSUME NEW p \in Spelling
    PROVE  \E done : NormalLaw(done, p)
<1> DEFINE n == Len(p.parts)
           V == Seq(STRING)
           Next1(x, k) == Shortened(x, p.parts[k], p.absolute)
           g == [q \in (1..n) \X V |-> Next1(q[2], q[1])]
           Is(h) == h = [k \in 0..n |-> IF k = 0 THEN <<>> ELSE Next1(h[k - 1], k)]
           r == CHOOSE h : Is(h)
<1>1. n \in Nat /\ (\A k \in 1..n : p.parts[k] \in STRING) /\ <<>> \in V
  BY DEF Spelling
<1>2. \A x \in V, k \in 1..n : Next1(x, k) \in V
  BY <1>1, ShortenedType
<1>3. LexicallyNormal(p) =
        [p EXCEPT !.parts = CASE /\ r[n] # <<>> /\ Last(r[n]) # ".."
                                 /\ Last(p.parts) \in {"", ".", ".."} -> Append(r[n], "")
                              [] r[n] = <<>> /\ ~p.absolute /\ p # Empty -> <<".">>
                              [] OTHER -> r[n]]
  BY DEF LexicallyNormal
<1> HIDE DEF Next1
<1>4. g \in [(1..n) \X V -> V]
  <2> HIDE DEF V, n
  <2> QED
    BY <1>2
<1>5. PICK h \in [0..n -> V] : StepLaw(h, n, <<>>, g)
  <2> HIDE DEF n, V, g
  <2> QED
    BY <1>1, <1>4, StepsExist
<1>6. \A i \in 0..n : i # 0 => g[<<i, h[i - 1]>>] = Next1(h[i - 1], i)
  <2>1. \A i \in 0..n : i # 0 => i \in 1..n /\ i - 1 \in 0..n
    BY <1>1
  <2>2. \A i \in 0..n : i # 0 => <<i, h[i - 1]>> \in (1..n) \X V
    <3> HIDE DEF n, V
    <3> QED
      BY <1>5, <2>1
  <2> QED
    BY <2>2
<1>7. Is(h)
  <2>1. h = [i \in 0..n |-> IF i = 0 THEN <<>> ELSE g[<<i, h[i - 1]>>]]
    BY <1>5 DEF StepLaw
  <2> HIDE DEF g, n
  <2> QED
    BY <1>6, <2>1
<1>8. Is(r)
  <2> HIDE DEF Is
  <2> QED
    BY <1>7
<1>9. r[0] = <<>> /\ \A k \in 1..n : r[k] = Next1(r[k - 1], k)
  <2>1. 0 \in 0..n /\ \A k \in 1..n : k \in 0..n /\ k # 0
    BY <1>1
  <2> HIDE DEF n, r
  <2> QED
    BY <1>8, <2>1
<1>10. r \in [0..n -> V]
  <2>1. r = [k \in 0..n |-> r[k]]
    <3> HIDE DEF r
    <3> QED
      BY <1>8
  <2>2. \A k \in 1..n : r[k - 1] \in V => r[k] \in V
    <3> HIDE DEF r, V, n
    <3> QED
      BY <1>2, <1>9
  <2>3. r[0] \in V /\ n \in Nat
    <3> HIDE DEF r, V, n
    <3> QED
      BY <1>1, <1>9
  <2> HIDE DEF r, V, n
  <2> QED
    BY <2>1, <2>2, <2>3, StepsStay
<1>11. ASSUME NEW k \in 1..n PROVE r[k] = Shortened(r[k - 1], p.parts[k], p.absolute)
  BY <1>9 DEF Next1
<1> HIDE DEF r
<1>12. NormalLaw(r, p)
  BY <1>3, <1>9, <1>10, <1>11 DEF NormalLaw
<1> QED
  BY <1>12

\* Names are not shortened.
LEMMA NormalOfNames ==
    ASSUME NEW p \in Spelling, \A i \in 1..Len(p.parts) : IsName(p.parts[i])
    PROVE  LexicallyNormal(p) = p
<1> DEFINE n == Len(p.parts)
<1>1. PICK done : NormalLaw(done, p)
  BY NormalSteps
<1> DEFINE N == {i \in 0..n : done[i] = SubSeq(p.parts, 1, i)}
<1>2. p.parts \in Seq(STRING) /\ n \in Nat /\ p = [p EXCEPT !.parts = p.parts]
  BY DEF Spelling
<1>3. 0 \in N
  <2>1. SubSeq(p.parts, 1, 0) = <<>>
    BY <1>2, SubSeqEmpty
  <2>2. done[0] = <<>>
    BY <1>1 DEF NormalLaw
  <2>3. 0 \in 0..n /\ done[0] = SubSeq(p.parts, 1, 0)
    BY <1>2, <2>1, <2>2
  <2> HIDE DEF n
  <2> QED
    BY <2>3
<1>4. ASSUME NEW i \in 0..(n - 1), i \in N PROVE i + 1 \in N
  <2>1. i \in Nat /\ i \in 0..n /\ i + 1 \in 1..n /\ i + 1 \in 0..n /\ (i + 1) - 1 = i
    BY <1>2
  <2>2. done[i + 1] = Shortened(done[i], p.parts[i + 1], p.absolute)
    BY <1>1, <2>1 DEF NormalLaw
  <2>3. done[i] = SubSeq(p.parts, 1, i)
    BY <1>4
  <2>4. done[i + 1] = Append(done[i], p.parts[i + 1])
    BY <2>1, <2>2 DEF Shortened, IsName
  <2>5. SubSeq(p.parts, 1, i + 1) = Append(SubSeq(p.parts, 1, i), p.parts[i + 1])
    BY <1>2, <2>1, OneMore
  <2> QED
    BY <2>1, <2>3, <2>4, <2>5
<1>5. done[n] = p.parts
  <2>1. n \in N
    <3> HIDE DEF N, n
    <3>1. 0..n \subseteq N
      BY <1>2, <1>3, <1>4, EveryNumberUpTo
    <3> QED
      BY <1>2, <3>1
  <2>2. SubSeq(p.parts, 1, n) = p.parts
    BY <1>2, SubSeqFull
  <2> QED
    BY <2>1, <2>2
<1>6. CASE p.parts = <<>>
  <2>1. ~p.absolute => p = Empty
    BY <1>6 DEF Spelling, Empty, Relative
  <2> QED
    BY <1>1, <1>2, <1>5, <1>6, <2>1 DEF NormalLaw
<1>7. CASE p.parts # <<>>
  <2>1. n \in 1..n /\ Last(p.parts) = p.parts[n]
    BY <1>2, <1>7 DEF Last
  <2>2. IsName(Last(p.parts))
    BY <2>1
  <2> QED
    BY <1>1, <1>2, <1>5, <1>7, <2>2 DEF NormalLaw, IsName
<1> QED
  BY <1>6, <1>7

\* What can be followed to its end has one canonical path, the names of the
\* directory it ends at.
LEMMA CanonicalPath ==
    ASSUME FileSystem, NEW p \in Spelling, ~Refused(p), NEW d \in Denotes(p)
    PROVE  /\ d \in Directory
           /\ Denotes(p) = {d}
           /\ WeaklyCanonical(p) = Absolute(d)
<1> DEFINE n == Len(p.parts)
           ends == {k \in 0..n : Reached(p, k) # {}}
<1>1. p.parts \in Seq(STRING) /\ n \in Nat /\ n \in 0..n
  BY DEF Spelling
<1>2. p # Empty /\ Denotes(p) = Reached(p, n) /\ d \in Reached(p, n)
  BY DEF Denotes
<1>3. Reached(p, n) \in SUBSET Directory /\ \A e \in Reached(p, n) : e = d
  BY <1>1, <1>2, ReachedSteps, OneReached
<1>4. d \in Directory /\ Reached(p, n) = {d}
  BY <1>2, <1>3
<1>5. Max(ends) = n
  <2>1. n \in ends /\ ends \subseteq Nat /\ \A k \in ends : n >= k
    BY <1>1, <1>2
  <2> DEFINE m == Max(ends)
  <2>2. m \in ends /\ \A k \in ends : m >= k
    <3> HIDE DEF ends, n
    <3> QED
      BY <2>1 DEF Max
  <2>3. m >= n /\ n >= m /\ m \in Nat
    <3> HIDE DEF ends, n, m
    <3> QED
      BY <2>1, <2>2
  <2> HIDE DEF m, n
  <2>4. m = n
    BY <1>1, <2>3
  <2> QED
    BY <2>4 DEF m
<1>6. SubSeq(p.parts, n + 1, n) = <<>>
  BY <1>1, SubSeqEmpty
<1>7. ~(n = 0 /\ ~p.absolute)
  BY <1>1, <1>2 DEF Empty, Relative, Spelling
<1>8. (CHOOSE e \in Reached(p, n) : TRUE) = d
  BY <1>4
<1>9. d \in Seq(STRING) /\ d \o <<>> = d
  BY <1>4, ConcatEmptySeq DEF FileSystem
<1>10. WeaklyCanonical(p) = LexicallyNormal(Absolute(d))
  BY <1>5, <1>6, <1>7, <1>8, <1>9 DEF WeaklyCanonical
<1>11. LexicallyNormal(Absolute(d)) = Absolute(d)
  <2>1. Absolute(d) \in Spelling /\ Absolute(d).parts = d
    BY <1>9 DEF Absolute, Spelling
  <2>2. \A i \in 1..Len(d) : IsName(d[i])
    BY <1>4 DEF FileSystem
  <2> QED
    BY <2>1, <2>2, NormalOfNames
<1> QED
  BY <1>2, <1>4, <1>10, <1>11

\* Making a path canonical (Filesystem.cpp, PathSafety.cpp) does not change what
\* it denotes, whatever links and ".." it goes through.
THEOREM CanonicalDenotes ==
    ASSUME FileSystem, NEW p \in Spelling, ~Refused(p), Denotes(p) # {}
    PROVE  Denotes(WeaklyCanonical(p)) = Denotes(p)
<1>1. PICK d \in Denotes(p) : TRUE
  OBVIOUS
<1>2. d \in Directory /\ Denotes(p) = {d} /\ WeaklyCanonical(p) = Absolute(d)
  BY <1>1, CanonicalPath
<1> QED
  BY <1>2, DirectoryDenotesItself

\* Whether isProtectedPath refuses a path depends on the directory alone, not on
\* how the configuration spells it, whatever HOME is.
THEOREM SpellingDoesNotMatter ==
    ASSUME FileSystem,
           NEW p \in Spelling, ~Refused(p), Denotes(p) # {},
           NEW q \in Spelling, ~Refused(q), Denotes(q) = Denotes(p)
    PROVE  IsProtectedPath(p) <=> IsProtectedPath(q)
<1>1. PICK d \in Denotes(p) : TRUE
  OBVIOUS
<1>2. WeaklyCanonical(p) = Absolute(d) /\ WeaklyCanonical(q) = Absolute(d)
  BY <1>1, CanonicalPath
<1>3. p # Empty /\ q # Empty
  BY DEF Denotes
<1> QED
  BY <1>2, <1>3 DEF IsProtectedPath

\* The directories isProtectedPath is there for.
Untouchable ==
    {p.parts : p \in SystemDirectories \cup {Absolute(<<>>)}} \cup UNION {Denotes(h) : h \in Home}

LEMMA NamesOfAbsolute ==
    ASSUME NEW d, NEW e, Absolute(d) = Absolute(e)
    PROVE  d = e
<1>1. Absolute(d).parts = d /\ Absolute(e).parts = e
  BY DEF Absolute
<1> QED
  BY <1>1

\* isProtectedPath refuses exactly the paths that lead to the root, to a system
\* directory or to HOME: no detour gets around it, and nothing else is refused.
\* What is asked of HOME is that it leads somewhere.
THEOREM ProtectionByDirectory ==
    ASSUME FileSystem, NEW p \in Spelling, ~Refused(p), Denotes(p) # {},
           Home \subseteq Spelling, \A h \in Home : ~Refused(h) /\ Denotes(h) # {}
    PROVE  IsProtectedPath(p) <=> Denotes(p) \subseteq Untouchable
<1>1. PICK d \in Denotes(p) : TRUE
  OBVIOUS
<1>2. Denotes(p) = {d} /\ WeaklyCanonical(p) = Absolute(d) /\ p # Empty
  BY <1>1, CanonicalPath DEF Denotes
<1>3. Absolute(d) # Empty
  <2>1. Absolute(d).absolute = TRUE /\ Empty.absolute = FALSE
    BY DEF Absolute, Empty, Relative
  <2> QED
    BY <2>1
<1>4. Absolute(d) \in SystemDirectories \cup {Absolute(<<>>)}
        <=> d \in {s.parts : s \in SystemDirectories \cup {Absolute(<<>>)}}
  <2>1. Absolute(d).parts = d
    BY DEF Absolute
  <2>2. \A s \in SystemDirectories \cup {Absolute(<<>>)} : s = Absolute(s.parts)
    BY DEF SystemDirectories, Absolute
  <2> HIDE DEF SystemDirectories
  <2> QED
    BY <2>1, <2>2
<1>5. ASSUME NEW h \in Home
      PROVE  (WeaklyCanonical(h) # Empty /\ Absolute(d) = WeaklyCanonical(h)) <=> d \in Denotes(h)
  <2>1. PICK e \in Denotes(h) : TRUE
    OBVIOUS
  <2>2. h \in Spelling /\ ~Refused(h)
    OBVIOUS
  <2>3. Denotes(h) = {e} /\ WeaklyCanonical(h) = Absolute(e)
    BY <2>1, <2>2, CanonicalPath
  <2> QED
    BY <1>3, <2>3, NamesOfAbsolute
<1>6. IsProtectedPath(p)
        <=> \/ Absolute(d) \in SystemDirectories \cup {Absolute(<<>>)}
            \/ \E h \in Home : WeaklyCanonical(h) # Empty /\ Absolute(d) = WeaklyCanonical(h)
  BY <1>2, <1>3 DEF IsProtectedPath
<1> QED
  BY <1>2, <1>4, <1>5, <1>6 DEF Untouchable

\* A path that validation accepts (PluginLoader.cpp, Config.cpp) is absolute and
\* leads to no directory that must not be cleaned, or nowhere.
THEOREM AcceptedIsHarmless ==
    ASSUME FileSystem, NEW p \in Spelling, ~Refused(p), IsValidPluginPath(p),
           Home \subseteq Spelling, \A h \in Home : ~Refused(h) /\ Denotes(h) # {}
    PROVE  p.absolute /\ Denotes(p) \cap Untouchable = {}
<1>1. p.absolute /\ ~IsProtectedPath(p)
  BY DEF IsValidPluginPath
<1>2. ASSUME NEW d \in Denotes(p), d \in Untouchable PROVE FALSE
  <2>1. Denotes(p) \subseteq Untouchable
    BY <1>2, CanonicalPath
  <2> QED
    BY <1>1, <1>2, <2>1, ProtectionByDirectory
<1> QED
  BY <1>1, <1>2

BeginsWith(t, s) == Len(s) <= Len(t) /\ \A i \in 1..Len(s) : s[i] = t[i]

LEMMA PrefixByElements ==
    ASSUME NEW X, NEW s \in Seq(X), NEW t \in Seq(X)
    PROVE  IsPrefix(s, t) <=> BeginsWith(t, s)
<1>1. CASE Len(s) > Len(t)
  BY <1>1 DEF IsPrefix, BeginsWith
<1>2. CASE Len(s) <= Len(t)
  <2> DEFINE head == SubSeq(t, 1, Len(s))
  <2>1. SubSeq(s, 1, Len(s)) = s
    BY SubSeqFull
  <2>2. head \in Seq(X) /\ Len(head) = Len(s) /\ \A i \in 1..Len(s) : head[i] = t[i]
    BY <1>2, SubSeqProperties
  <2>3. IsPrefix(s, t) <=> s = head
    BY <1>2, <2>1 DEF IsPrefix
  <2> HIDE DEF head
  <2>4. (\A i \in 1..Len(s) : s[i] = t[i]) => s = head
    BY <2>2, SeqEqual
  <2> QED
    BY <1>2, <2>2, <2>3, <2>4 DEF BeginsWith
<1> QED
  BY <1>1, <1>2

Headed(t, first, d, X) ==
    /\ t \in Seq(X) /\ Len(t) = Len(d) + 1 /\ t[1] = first
    /\ \A i \in 1..Len(d) : t[i + 1] = d[i]

LEMMA OneBefore ==
    ASSUME NEW X, NEW first \in X, NEW d \in Seq(X)
    PROVE  Headed(<<first>> \o d, first, d, X)
<1> DEFINE one == <<first>>
           t == one \o d
<1>1. Len(one) = 1 /\ one[1] = first
  OBVIOUS
<1>2. one \in Seq(X)
  OBVIOUS
<1>3. Len(d) \in Nat
  OBVIOUS
<1> HIDE DEF one
<1>4. /\ t \in Seq(X) /\ Len(t) = Len(one) + Len(d)
      /\ \A i \in 1..(Len(one) + Len(d)) :
            t[i] = IF i <= Len(one) THEN one[i] ELSE d[i - Len(one)]
  BY <1>2, ConcatProperties
<1> HIDE DEF t
<1>5. Len(t) = Len(d) + 1
  BY <1>1, <1>3, <1>4
<1>6. t[1] = first
  <2>1. 1 \in 1..(Len(one) + Len(d)) /\ 1 <= Len(one)
    BY <1>1, <1>3
  <2>2. t[1] = one[1]
    BY <1>4, <2>1
  <2> QED
    BY <1>1, <2>2
<1>7. ASSUME NEW i \in 1..Len(d) PROVE t[i + 1] = d[i]
  <2>1. i + 1 \in 1..(1 + Len(d)) /\ ~(i + 1 <= 1) /\ (i + 1) - 1 = i
    BY <1>3
  <2> QED
    BY <1>1, <1>4, <2>1
<1> QED
  BY <1>4, <1>5, <1>6, <1>7 DEF t, one, Headed

\* isPathInside (PathSafety.cpp) says of two paths that exist whether the one
\* leads to the directory of the other or to one below it, links or not.
THEOREM InsideIsBelow ==
    ASSUME FileSystem,
           NEW child \in Spelling, ~Refused(child), NEW d \in Denotes(child),
           NEW parent \in Spelling, ~Refused(parent), NEW e \in Denotes(parent)
    PROVE  IsPathInside(child, parent) <=> IsPrefix(e, d)
<1> DEFINE s == <<"/">> \o e
           t == <<"/">> \o d
           Part == STRING \cup {"/"}
<1>1. d \in Seq(Part) /\ e \in Seq(Part)
  <2>1. d \in Seq(STRING) /\ e \in Seq(STRING)
    BY CanonicalPath DEF FileSystem
  <2> QED
    BY <2>1, SeqMonotonic
<1>2. WeaklyCanonical(child) = Absolute(d) /\ WeaklyCanonical(parent) = Absolute(e)
  BY CanonicalPath
<1>3. Elements(Absolute(d)) = t /\ Elements(Absolute(e)) = s
  BY DEF Elements, Absolute
<1>4. IsPathInside(child, parent) <=> IsPrefix(s, t)
  BY <1>2, <1>3 DEF IsPathInside
<1>5. Headed(s, "/", e, Part) /\ Headed(t, "/", d, Part)
  <2>1. "/" \in Part
    OBVIOUS
  <2> HIDE DEF Part
  <2> QED
    BY <1>1, <2>1, OneBefore, Zenon
<1> HIDE DEF s, t, Part
<1>6. /\ s \in Seq(Part) /\ Len(s) = Len(e) + 1 /\ s[1] = "/"
      /\ \A i \in 1..Len(e) : s[i + 1] = e[i]
      /\ t \in Seq(Part) /\ Len(t) = Len(d) + 1 /\ t[1] = "/"
      /\ \A i \in 1..Len(d) : t[i + 1] = d[i]
  BY <1>5 DEF Headed
<1>7. Len(d) \in Nat /\ Len(e) \in Nat
  BY <1>1
<1>8. Len(e) <= Len(d) =>
        ((\A i \in 1..Len(s) : s[i] = t[i]) <=> \A i \in 1..Len(e) : e[i] = d[i])
  <2> SUFFICES ASSUME Len(e) <= Len(d)
               PROVE  (\A i \in 1..Len(s) : s[i] = t[i]) <=> \A i \in 1..Len(e) : e[i] = d[i]
    OBVIOUS
  <2>1. ASSUME \A i \in 1..Len(s) : s[i] = t[i], NEW i \in 1..Len(e) PROVE e[i] = d[i]
    <3>1. i + 1 \in 1..Len(s) /\ i \in 1..Len(d)
      BY <1>6, <1>7
    <3> QED
      BY <1>6, <2>1, <3>1
  <2>2. ASSUME \A i \in 1..Len(e) : e[i] = d[i], NEW i \in 1..Len(s) PROVE s[i] = t[i]
    <3>1. CASE i = 1
      BY <1>6, <3>1
    <3>2. CASE i # 1
      <4>1. i - 1 \in 1..Len(e) /\ i - 1 \in 1..Len(d) /\ (i - 1) + 1 = i
        BY <1>6, <1>7, <3>2
      <4> QED
        BY <1>6, <2>2, <4>1
    <3> QED
      BY <3>1, <3>2
  <2> QED
    BY <2>1, <2>2
<1>9. Len(s) <= Len(t) <=> Len(e) <= Len(d)
  BY <1>6, <1>7
<1>10. IsPrefix(s, t) <=> BeginsWith(t, s)
  <2>1. s \in Seq(Part) /\ t \in Seq(Part)
    BY <1>6
  <2> QED
    BY <2>1, PrefixByElements
<1>11. IsPrefix(e, d) <=> BeginsWith(d, e)
  BY <1>1, PrefixByElements
<1> QED
  BY <1>4, <1>8, <1>9, <1>10, <1>11 DEF BeginsWith
=============================================================================
