---------------------------- MODULE ActionEvents ----------------------------
(***************************************************************************)
(* ActionEvents: which ones can be built, and what ActionRuntime.execute   *)
(* derives from one before it asks the approval store                      *)
(* (capfence/core/runtime.py).                                             *)
(***************************************************************************)
EXTENDS Capabilities

CONSTANT None   \* Python's None

PolicyVerdicts == {"allow", "warn", "deny", "require_approval", "default_deny"}

\* What an ActionEvent may say of its risk: a level, a category that stands for a level,
\* or a number (here "score").
Risks ==
    {"low", "medium", "high", "critical", "score",
     "command_execution", "execute", "payment_initiation", "delete", "write",
     "read_only", "read"}

MetadataKeys ==
    {"session_id", "scope", "payload", "require_approval", "risk_category",
     "payload_hash", "threshold", "latency_ms", "decision", "reason", "timestamp",
     "entry_hash", "signature", "policy_decision", "verdict", "id", "caller_depth",
     "capability", "tool_name", "risk_level", "framework"}

\* ActionEvent.__post_init__ raises for any other risk or metadata key, and, unless the
\* event is `typed`, for an empty name or a value that has the wrong type or is not JSON.
Constructible(risk, keys, typed) == risk \in Risks /\ keys \subseteq MetadataKeys /\ typed

\* The capability checked: metadata's own, or resource.action.scope, which is split again,
\* so that a dot in the resource or in the action moves the parts behind it.
RequiredCap(e) ==
    Parse(IF e.capability # None THEN e.capability
          ELSE e.resource \o e.action \o (IF e.scope # None THEN e.scope ELSE e.env))

\* What identifies a request for approval: the payload, or all of the metadata if
\* the payload is empty.
RequestKey(e) ==
    IF e.payload # None THEN <<"payload", e.payload>>
    ELSE <<"metadata", e.session, e.capability, e.scope, e.inline>>

AskOf(e) ==
    [actor |-> e.actor, tool |-> e.action, cap |-> RequiredCap(e),
     env |-> e.env, session |-> e.session, key |-> RequestKey(e)]

\* Mutation of NeedsApproval: the inline flag is looked at before the policy's denial.
NeedsApprovalFirst(verdict, e) == verdict = "require_approval" \/ e.inline

\* The approval branch of execute, for a policy's verdict on e: the inline flag counts
\* only when no rule matched.
NeedsApproval(verdict, e) ==
    \/ verdict = "require_approval"
    \/ verdict = "default_deny" /\ e.inline
=============================================================================
