--------------------------- MODULE MCScanHistory ---------------------------
(***************************************************************************)
(* Instances of ScanHistory for TLC.  Terminals are interchangeable.       *)
(***************************************************************************)
EXTENDS ScanHistory, TLC

Symmetric == Permutations(Proc)
=============================================================================
