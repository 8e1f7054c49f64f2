--------------------------- MODULE MCPolicyLoader ---------------------------
(* Instances of PolicyLoader for TLC. *)
EXTENDS PolicyLoader

Rule(cap, action, needs) == [cap |-> cap, action |-> action, needs |-> needs]

MCFiles == {"base", "team", "agent"}

MCRules ==
    [base  |-> <<Rule(<<"shell">>, "deny", {"rm"}), Rule(<<"shell">>, "allow", {})>>,
     team  |-> <<Rule(<<"pay", "send">>, "require_approval", {"big"}),
                 Rule(<<"pay", "*">>, "warn", {})>>,
     agent |-> <<Rule(<<"*">>, "allow", {})>>]

MCRisk ==
    [base  |-> [medium |-> "deny", high |-> "block"],
     team  |-> [medium |-> "warn"],
     agent |-> [low |-> "allow"]]

\* Three files that extend each other and themselves in every way, two of them at most
\* one file each, the third up to two; one of them may be invalid.
One == {<<>>} \cup {<<f>> : f \in MCFiles}
Two == One \cup {<<f, g>> : f, g \in MCFiles}
MCExtends == {[base |-> x, team |-> y, agent |-> z] : x, y \in One, z \in Two}

MCDisks ==
    {[f \in MCFiles |-> Content(IF f = bad THEN "invalid" ELSE "policy",
                                MCRules[f], MCRisk[f], x[f])] :
        x \in MCExtends, bad \in {"none", "base"}}

\* A capability with a blank in it does not parse.
MCIllFormed == {"pay now"}
MCBegins == {<<"pay", "pay now">>}

MCEvents ==
    {[cap |-> c, risk |-> r, holds |-> h] :
        c \in {<<"shell", "run", "prod">>, <<"pay", "send", "prod">>, <<"pay now", "send">>},
        r \in {"low", "medium", "high", "unrated"}, h \in {{}, {"rm", "big"}}}
=============================================================================
