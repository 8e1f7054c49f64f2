----------------------------- MODULE MCApprovals -----------------------------
(* Instances of Approvals for TLC. *)
EXTENDS Approvals

Transfer == Parse(<<"payments", "transfer", "prod">>)

\* Two asks that has_approved_request cannot tell apart: only the session differs.
MCAsks ==
    {[actor |-> <<"bot">>, tool |-> <<"transfer">>, cap |-> Transfer, env |-> <<"prod">>,
      session |-> s, key |-> "p1"] : s \in {"s1", "s2"}}

\* One request in time, one overdue when it is queued, one without a deadline.
MCTtls == {1, -1, 0}

Term(cap, duration, session, secret) ==
    [actor |-> <<"bot">>, cap |-> Parse(cap), env |-> Wildcard,
     duration |-> duration, session |-> session, secret |-> secret]

MCGrantTerms ==
    {Term(<<"payments">>, 1, "s1", "k1"),       \* a duration drops the session
     Term(<<"payments", "transfer">>, None, "s1", None),    \* a row that has no signature
     Term(<<"payments">>, 0, None, "k2")}       \* signed by a process with another secret
=============================================================================
