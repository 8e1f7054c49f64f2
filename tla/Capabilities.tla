---------------------------- MODULE Capabilities ----------------------------
(***************************************************************************)
(* Capability identifiers, `resource.action.scope`, and the matching that  *)
(* both the policy rules and the approval grants use                       *)
(* (capfence/core/capabilities.py).                                        *)
(*                                                                         *)
(* Names and capability strings are represented by the sequences of their  *)
(* segments, the pieces between the dots: joining two of them by a dot is  *)
(* concatenation.                                                          *)
(***************************************************************************)
EXTENDS Integers, Sequences

Wildcard == <<"*">>

\* Capability.parse: split at the first two dots; missing parts read as the wildcard.
Parse(name) ==
    [resource |-> <<name[1]>>,
     action   |-> IF Len(name) >= 2 THEN <<name[2]>> ELSE Wildcard,
     scope    |-> IF Len(name) >= 3 THEN SubSeq(name, 3, Len(name)) ELSE Wildcard]

\* match_part: only the granted side's wildcard is a wildcard.
MatchPart(granted, required) == granted \in {Wildcard, required}

\* Capability.matches
Covers(granted, required) ==
    /\ MatchPart(granted.resource, required.resource)
    /\ MatchPart(granted.action, required.action)
    /\ MatchPart(granted.scope, required.scope)
=============================================================================
