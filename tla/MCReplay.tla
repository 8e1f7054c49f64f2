------------------------------ MODULE MCReplay ------------------------------
(* Instances of Replay for TLC. *)
EXTENDS Replay

Event(action, payload, inline) ==
    [actor |-> <<"bot">>, action |-> <<action>>, resource |-> <<"payments">>, env |-> <<"prod">>,
     session |-> None, payload |-> payload, capability |-> None, scope |-> None,
     inline |-> inline]

Pay == Event("transfer", "p1", FALSE)
Close == Event("close", "p1", TRUE)

MCAsks == {AskOf(Pay), AskOf(Close)}
MCPolicyVerdict ==
    [e \in {Pay, Close} |-> IF e = Pay THEN "require_approval" ELSE "deny"]
MCSimulatedVerdict ==
    [e \in {Pay, Close} |-> IF e = Pay THEN "warn" ELSE "default_deny"]

Item(event, original, keys) ==
    [event |-> event, original |-> original, risk |-> "high", keys |-> keys, typed |-> TRUE]

\* The same event three times, which was authorized first and refused last; and a trace
\* that names the outcome in a way that _parse_event does not take, and one whose outcome
\* is no text.
MCTraces ==
    {<<Item(Pay, "pass", {"payload", "decision"}),
       Item(Close, None, {"payload", "require_approval"}),
       Item(Pay, "fail", {"payload", "decision"}), Item(Pay, None, {"payload"})>>,
     <<Item(Pay, "pass", {"payload", "decision"}),
       Item(Close, "fail", {"payload", "original_decision"})>>,
     <<Item(Pay, None, {"payload"}), Item(Pay, "not_text", {"payload"})>>}

MCGrantTerms ==
    {[actor |-> <<"bot">>, cap |-> Parse(<<"payments">>), env |-> <<"prod">>,
      duration |-> 1, session |-> None, secret |-> "k1"]}
=============================================================================
