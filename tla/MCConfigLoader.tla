--------------------------- MODULE MCConfigLoader ---------------------------
(***************************************************************************)
(* Instances of ConfigLoader for TLC.                                      *)
(***************************************************************************)
EXTENDS ConfigLoader, TLC

Symmetric == Permutations(Proc)

\* Old files, current ones, and files with wrong types in different places.
Files == {[version |-> "missing", schema |-> "missing", ignored |-> "missing", legacyIgnored |-> "two",
         sort |-> "missing", legacySort |-> "size", custom |-> <<"safe", "unsafe", "other">>],
        [version |-> "empty", schema |-> "old", ignored |-> "one", legacyIgnored |-> "two",
         sort |-> "empty", legacySort |-> "size", custom |-> <<"safe", "bad", "other">>],
        [version |-> "1.0.0", schema |-> "old", ignored |-> "two", legacyIgnored |-> "missing",
         sort |-> "size", legacySort |-> "bad", custom |-> <<"other">>],
        [version |-> "1.0.1", schema |-> "current", ignored |-> "one", legacyIgnored |-> "missing",
         sort |-> "name", legacySort |-> "missing", custom |-> <<>>],
        [version |-> "1.0.0", schema |-> "bad", ignored |-> "one", legacyIgnored |-> "missing",
         sort |-> "size", legacySort |-> "missing", custom |-> <<"safe">>],
        [version |-> "missing", schema |-> "current", ignored |-> "bad", legacyIgnored |-> "two",
         sort |-> "missing", legacySort |-> "missing", custom |-> <<"other", "safe">>],
        [version |-> "missing", schema |-> "missing", ignored |-> "missing", legacyIgnored |-> "bad",
         sort |-> "bad", legacySort |-> "missing", custom |-> <<"unsafe">>]}
=============================================================================
