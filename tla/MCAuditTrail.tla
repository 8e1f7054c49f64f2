---------------------------- MODULE MCAuditTrail ----------------------------
(* Instances of AuditTrail for TLC. *)
EXTENDS AuditTrail

MCVerdicts == {[authorized |-> TRUE, decision |-> "allow", approval |-> FALSE]}
MCOwner == [c \in Calls |-> IF c = "c1" THEN "l1" ELSE "l2"]
Old(entry, ts) == [entry |-> entry, ts |-> ts]
NoLegacy == {<<>>}
\* No old trail, one in the order of its times, one that is not, and one with a row whose
\* time the backfill rounds.
MCLegacies ==
    {<<>>, <<Old("old1", -1), Old("old2", 0)>>, <<Old("old1", 0), Old("old2", -1)>>,
     <<Old("precise", 0)>>}
=============================================================================
