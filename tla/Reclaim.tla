------------------------------ MODULE Reclaim ------------------------------
(***************************************************************************)
(* What `devclean clean` promises, without saying how: roots are approved  *)
(* once, by the user or by --force; from then on only entries below them   *)
(* go; what is reported as reclaimed never shrinks and never exceeds a     *)
(* requested target; after the end nothing more goes.                      *)
(***************************************************************************)
EXTENDS Naturals

CONSTANTS Root, Entry, Below

VARIABLES
    stage,    \* "planning", "cleaning" or "over"
    approved, \* the roots the user agreed to clean
    target,   \* the bytes asked for, 0 for no limit
    gone,     \* the entries removed so far
    spent     \* the bytes reported as reclaimed so far

vars == <<stage, approved, target, gone, spent>>

Init ==
    /\ stage = "planning" /\ approved = {} /\ target \in Nat
    /\ gone = {} /\ spent = 0

Approve ==
    /\ stage = "planning" /\ stage' = "cleaning"
    /\ approved' \in SUBSET Root
    /\ UNCHANGED <<target, gone, spent>>

\* One step of the cleaning: at most one entry goes.
Clean ==
    /\ stage = "cleaning" /\ UNCHANGED <<stage, approved, target>>
    /\ \/ UNCHANGED gone
       \/ \E r \in approved : \E e \in Below[r] : gone' = gone \cup {e}
    /\ spent' \in Nat
    /\ target > 0 => spent <= spent' /\ spent' <= target

\* The last cache is added up.  Without a limit the sum may exceed the word it
\* is kept in; a limit fits into it.
Stop ==
    /\ stage # "over" /\ stage' = "over"
    /\ spent' \in Nat /\ (target > 0 => spent' = spent)
    /\ UNCHANGED <<approved, target, gone>>

Next == Approve \/ Clean \/ Stop

Spec == Init /\ [][Next]_vars
=============================================================================
