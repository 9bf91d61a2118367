-------------------------------- MODULE Lists --------------------------------
(***************************************************************************)
(* What std::copy_if, std::remove_if and the loops that push_back some of  *)
(* the elements of a vector compute.  The test is a set, not an operator.  *)
(***************************************************************************)
EXTENDS Naturals, SequencesExt

\* The elements of a list that belong to a set, in the order of the list.
Filtered(list, S) ==
    LET kept[i \in 0..Len(list)] ==
            IF i = 0 THEN <<>>
            ELSE IF list[i] \in S THEN Append(kept[i - 1], list[i]) ELSE kept[i - 1]
    IN  kept[Len(list)]
=============================================================================
