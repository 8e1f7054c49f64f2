------------------------------ MODULE MCRuntime ------------------------------
(* Instances of Runtime for TLC. *)
EXTENDS Runtime

Event(action, env, session, inline) ==
    [actor |-> <<"bot">>, action |-> <<action>>, resource |-> <<"payments">>, env |-> <<env>>,
     session |-> session, payload |-> "p1", capability |-> None, scope |-> None,
     inline |-> inline]

\* The rules ask for approval in production; in staging no rule matches, and the call
\* asks for approval itself.
Pay == Event("transfer", "prod", "s1", FALSE)
PayInStaging == Event("transfer", "staging", "s2", TRUE)
Close == Event("close", "prod", None, TRUE)
Unknown == [Event("dance", "prod", None, FALSE) EXCEPT !.payload = None]
Read == Event("read", "prod", None, TRUE)
Watch == Event("watch", "prod", None, FALSE)

MCEvents == {Pay, PayInStaging, Close, Unknown, Read, Watch}
\* c1 goes through a runtime that enforces, c2 through one that observes, over the same
\* store and trail.
MCModeOf == [c \in Calls |-> IF c = "c1" THEN "enforce" ELSE "observe"]
AllEnforce == [c \in Calls |-> "enforce"]
MCCarries ==
    [c \in Calls |-> IF c = "c1" THEN {Pay, Close, Read} ELSE {PayInStaging, Watch, Unknown}]
AnyCarries == [c \in Calls |-> MCEvents]

MCPolicyVerdict ==
    [e \in MCEvents |->
        CASE e = Pay -> "require_approval"
          [] e \in {PayInStaging, Unknown} -> "default_deny"
          [] e = Close -> "deny"
          [] e = Read -> "allow"
          [] e = Watch -> "warn"]

\* The grant covers production only.
MCGrantTerms ==
    {[actor |-> <<"bot">>, cap |-> Parse(<<"payments">>), env |-> <<"prod">>,
      duration |-> 1, session |-> None, secret |-> "k1"]}
=============================================================================
