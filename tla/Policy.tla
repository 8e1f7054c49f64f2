------------------------------- MODULE Policy -------------------------------
(***************************************************************************)
(* What a policy decides (capfence/core/policy.py): rules, the levels of   *)
(* risk, the order in which they are consulted, and how two policies are   *)
(* layered.                                                                *)
(*                                                                         *)
(* A rule is a record [cap, action, needs]: `needs` is the set of its      *)
(* conditions, and an event `holds` the conditions its payload and context *)
(* meet, so a condition on text, amounts or paths is an element.           *)
(***************************************************************************)
EXTENDS Integers, Sequences, Capabilities

CONSTANTS
    IllFormed,  \* segments with a character that Capability.parse refuses
    Begins      \* pairs <<s, t>> of segments: t's text begins with s's

RuleActions == {"allow", "deny", "block", "require_approval", "warn"}
NoLevel == "none"   \* the context has no risk level, or the policy no entry for it

Parses(name) == \A i \in DOMAIN name : name[i] \notin IllFormed

\* The text of `required` begins with the one of `granted`, the `.*` at its end left out:
\* the last segment may go on.
BeginsWith(required, granted) ==
    LET n == Len(granted) - 1
    IN  /\ n >= 1 /\ granted[n + 1] = "*" /\ n <= Len(required)
        /\ \A i \in 1..(n - 1) : granted[i] = required[i]
        /\ granted[n] = required[n] \/ <<granted[n], required[n]>> \in Begins

\* Rule.matches: the parsed capabilities are compared, or the texts if one of them does
\* not parse ...
CapabilityMatches(granted, required) ==
    IF Parses(granted) /\ Parses(required) THEN Covers(Parse(granted), Parse(required))
    ELSE granted \in {Wildcard, required} \/ BeginsWith(required, granted)

\* ... and every condition must hold.
Matches(rule, e) == CapabilityMatches(rule.cap, e.cap) /\ rule.needs \subseteq e.holds

SomeMatch(rules, actions, e) ==
    \E i \in DOMAIN rules : rules[i].action \in actions /\ Matches(rules[i], e)

FirstMatch(rules, actions, e) ==
    rules[CHOOSE i \in DOMAIN rules :
            /\ rules[i].action \in actions /\ Matches(rules[i], e)
            /\ \A j \in 1..(i - 1) : ~ (rules[j].action \in actions /\ Matches(rules[j], e))]

\* evaluate_risk_level
RiskAction(p, e) ==
    IF e.risk \in DOMAIN p.risk THEN p.risk[e.risk] ELSE NoLevel

\* Policy.explain: denials, then approvals, then the level of risk (which can deny, ask
\* or warn, not allow), then the first rule that allows or warns.
Verdict(p, e) ==
    CASE SomeMatch(p.rules, {"deny", "block"}, e) -> "deny"
      [] ~ SomeMatch(p.rules, {"deny", "block"}, e)
         /\ SomeMatch(p.rules, {"require_approval"}, e) -> "require_approval"
      [] OTHER ->
            IF RiskAction(p, e) \in {"deny", "block"} THEN "deny"
            ELSE IF RiskAction(p, e) \in {"require_approval", "warn"} THEN RiskAction(p, e)
            ELSE IF SomeMatch(p.rules, {"allow", "warn"}, e)
            THEN FirstMatch(p.rules, {"allow", "warn"}, e).action
            ELSE "default_deny"

Empty == [rules |-> <<>>, risk |-> <<>>]

\* Policy.merge: the other policy's rules come first, its levels of risk win.
Merge(p, other) ==
    [rules |-> other.rules \o p.rules,
     risk  |-> [l \in DOMAIN p.risk \cup DOMAIN other.risk |->
                    IF l \in DOMAIN other.risk THEN other.risk[l] ELSE p.risk[l]]]
=============================================================================
