------------------------------ MODULE Executor ------------------------------
(***************************************************************************)
(* What a thread pool promises its callers: a submitted task is accepted   *)
(* or refused; an accepted task is run exactly once, in any order with     *)
(* respect to tasks that run at the same time; once the pool is closed     *)
(* nothing is accepted, and everything accepted before has been run.       *)
(***************************************************************************)
CONSTANT Task

VARIABLES
    status, \* status[t]: "new", "accepted", "running", "done" or "refused"
    closed  \* the pool is gone

vars == <<status, closed>>

Init == status = [t \in Task |-> "new"] /\ closed = FALSE

Change(t, from, to) ==
    /\ ~closed /\ status[t] = from
    /\ status' = [status EXCEPT ![t] = to]
    /\ UNCHANGED closed

Close ==
    /\ \A t \in Task : status[t] \in {"new", "done", "refused"}
    /\ closed' = TRUE
    /\ UNCHANGED status

Next ==
    \/ \E t \in Task : \/ Change(t, "new", "accepted") \/ Change(t, "new", "refused")
                       \/ Change(t, "accepted", "running") \/ Change(t, "running", "done")
    \/ Close

Spec == Init /\ [][Next]_vars
=============================================================================
