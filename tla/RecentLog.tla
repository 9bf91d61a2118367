------------------------------ MODULE RecentLog ------------------------------
(***************************************************************************)
(* What a scan history promises: each recorded scan comes to the front of  *)
(* a list that keeps the newest ones and forgets nothing else.             *)
(***************************************************************************)
EXTENDS Naturals, Sequences

CONSTANTS Snapshot, Keep

VARIABLE log

\* The first Keep entries of a list.
Newest(list) == SubSeq(list, 1, IF Len(list) <= Keep THEN Len(list) ELSE Keep)

Init == log = <<>>
Record(s) ==
    /\ \A i \in 1..Len(log) : log[i].at < s.at
    /\ log' = Newest(<<s>> \o log)

Spec == Init /\ [][\E s \in Snapshot : Record(s)]_log
=============================================================================
