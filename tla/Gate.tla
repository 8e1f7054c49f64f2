-------------------------------- MODULE Gate --------------------------------
(***************************************************************************)
(* What CapFence promises of a tool call, whatever happens inside it       *)
(* (docs/concepts/fail-closed-enforcement.md, docs/architecture/           *)
(* failure-behavior.md): a tool is invoked only after an authorization is  *)
(* durably recorded for that call, the record is made once, and, when the  *)
(* runtime enforces, it says "authorized" only for a call that policy, a   *)
(* grant or an operator cleared.                                           *)
(***************************************************************************)
CONSTANTS
    Calls,
    Enforcing   \* the calls that go through a runtime in enforce mode

VARIABLES
    cleared,   \* calls something permitted
    recorded,  \* what the audit trail says of each call
    invoked    \* calls whose tool ran

vars == <<cleared, recorded, invoked>>

Init ==
    /\ cleared = {}
    /\ recorded = [c \in Calls |-> "none"]
    /\ invoked = {}

Clear(c) ==
    /\ recorded[c] = "none"
    /\ cleared' = cleared \cup {c}
    /\ UNCHANGED <<recorded, invoked>>

Record(c, result) ==
    /\ recorded[c] = "none"
    /\ result = "authorized" => (c \in cleared \/ c \notin Enforcing)
    /\ recorded' = [recorded EXCEPT ![c] = result]
    /\ UNCHANGED <<cleared, invoked>>

Invoke(c) ==
    /\ recorded[c] = "authorized"
    /\ c \notin invoked
    /\ invoked' = invoked \cup {c}
    /\ UNCHANGED <<cleared, recorded>>

Next ==
    \E c \in Calls :
        Clear(c) \/ Invoke(c) \/ \E r \in {"authorized", "blocked"} : Record(c, r)

Spec == Init /\ [][Next]_vars
=============================================================================
