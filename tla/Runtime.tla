------------------------------- MODULE Runtime -------------------------------
(***************************************************************************)
(* ActionRuntime.execute (capfence/core/runtime.py) and the adapter that   *)
(* calls it before it runs a tool (capfence/framework/_base.py and the     *)
(* adapters' "if authorized, invoke"), over the approval store and the     *)
(* audit trail they share with other calls, with operators deciding        *)
(* requests, and with the clock.  Calls run in threads or processes of     *)
(* their own; each of their SQL statements is one step.                    *)
(***************************************************************************)
EXTENDS Integers, Sequences, ActionEvents

CONSTANTS
    Calls,          \* tool calls; an agent's retry is another call
    Events,         \* ActionEvents
    Carries,        \* Carries[c]: the events call c may carry
    NonAsciiEvents, \* events whose required capability has characters beyond ASCII
    PolicyVerdict,  \* PolicyVerdict[e]: evaluate_capability's answer for event e
    ModeOf,         \* ModeOf[c]: "enforce" or "observe", the mode of the runtime c goes through
    GrantTerms, Secret, DefaultGrant,   \* see Approvals
    DefaultTtl,     \* request_approval's default expires_in
    MaxTime, MaxGrants, MaxRequests   \* bounds of the model

VARIABLES
    clock, grants, requests,   \* the approval store, see Approvals
    log, writer, quiet,        \* the audit trail, and where each call is with it, see AuditTrail
    call,      \* where each call is, and its other local variables
    approved   \* history: the requests that were ever approved

store == <<clock, grants, requests>>
trail == <<log, writer, quiet>>
vars == <<clock, grants, requests, log, writer, quiet, call, approved>>

AuditLogger == "audit.db"   \* one logger, opened before the first call

-----------------------------------------------------------------------------
(* Verdicts *)

Asks == {AskOf(e) : e \in Events}

Reasons ==
    {"policy_default_deny", "policy_deny", "policy_allow", "policy_warn",
     "approved_grant", "previously_approved", "approval_required"}
Permits == {"policy_allow", "policy_warn", "approved_grant", "previously_approved"}

Verdicts ==
    [authorized : BOOLEAN, decision : {"allow", "deny", "require_approval"},
     approval : BOOLEAN]

\* Why a verdict was reached: the branch of execute, and the approval's id.
Answers == [why : Reasons, id : Nat \cup {None}]

ASSUME RuntimeAssumption ==
    /\ PolicyVerdict \in [Events -> PolicyVerdicts]
    /\ Carries \in [Calls -> SUBSET Events]
    /\ \A c \in Calls :   \* a call's events are all in NonAsciiEvents, or none is
            Carries[c] \cap NonAsciiEvents = {} \/ Carries[c] \subseteq NonAsciiEvents
    /\ ModeOf \in [Calls -> {"enforce", "observe"}]
    /\ DefaultTtl \in Nat \ {0} /\ DefaultGrant \in Int
    /\ \A t \in GrantTerms : t.duration \in Int \cup {None}
    /\ MaxTime \in Nat /\ MaxGrants \in Nat /\ MaxRequests \in Nat
    /\ None \notin Int \cup Answers

-----------------------------------------------------------------------------
(* The components *)

\* The calls whose rows chain.py does not verify, see AuditTrail.
NonAscii == {c \in Calls : Carries[c] \cap NonAsciiEvents # {}}

\* Of the operator commands only the effects are here (Resolve, Expire); their steps
\* are in Approvals.
Store == INSTANCE Approvals WITH
    Ttls <- {DefaultTtl}, Operators <- {}, ops <- [o \in {} |-> None]

Trail == INSTANCE AuditTrail WITH
    Loggers <- {AuditLogger}, Owner <- [c \in Calls |-> AuditLogger],
    Legacies <- {<<>>}, Unrounded <- {}, MaxCrashes <- 0, crashes <- 0,
    logger <- [l \in {AuditLogger} |-> [pc |-> "ready", todo |-> {}, prev |-> <<>>]]

-----------------------------------------------------------------------------
(* One call *)

Running(c) == call[c].pc \in {"evaluate", "grants", "requests", "enqueue", "audit", "insert"}

\* A call that has no local variables yet, or no longer; `why` is history.
Gone(pc, why) == [pc |-> pc, event |-> None, verdict |-> None, reason |-> why]

\* execute starts: the event is built and the start time taken.
Begin(c, e) ==
    /\ call[c].pc = "idle"
    /\ call' = [call EXCEPT ![c].pc = "evaluate", ![c].event = e]
    /\ Trail!Start(c)
    /\ UNCHANGED store

\* Mutation of Settle: observe mode rewrites the decision too.
SettleAsAllow(c, authorized, decision, why, id) ==
    call' = [call EXCEPT
        ![c].pc = "audit",
        ![c].verdict = [authorized |-> authorized \/ ModeOf[c] = "observe",
                        decision |-> IF ModeOf[c] = "observe" THEN "allow" ELSE decision,
                        approval |-> id # None],
        ![c].reason = [why |-> why, id |-> id]]

\* A verdict is reached.  In observe mode it always authorizes, and keeps the
\* decision and the approval id.
Settle(c, authorized, decision, why, id) ==
    call' = [call EXCEPT
        ![c].pc = "audit",
        ![c].verdict = [authorized |-> authorized \/ ModeOf[c] = "observe",
                        decision |-> decision, approval |-> id # None],
        ![c].reason = [why |-> why, id |-> id]]

\* Mutation of Evaluate: the policy's own word is passed on as the decision.
EvaluateRaw(c) ==
    /\ call[c].pc = "evaluate"
    /\ LET e == call[c].event
           v == PolicyVerdict[e]
       IN  IF NeedsApproval(v, e) THEN call' = [call EXCEPT ![c].pc = "grants"]
           ELSE Settle(c, v \in {"allow", "warn"}, v, "policy_" \o v, None)
    /\ UNCHANGED <<store, trail>>

\* evaluate_capability, and the branches that need no approval.
Evaluate(c) ==
    /\ call[c].pc = "evaluate"
    /\ LET e == call[c].event
           v == PolicyVerdict[e]
       IN  \/ v = "allow" /\ Settle(c, TRUE, "allow", "policy_allow", None)
           \/ v = "warn" /\ Settle(c, TRUE, "allow", "policy_warn", None)
           \/ v = "deny" /\ Settle(c, FALSE, "deny", "policy_deny", None)
           \/ NeedsApproval(v, e) /\ call' = [call EXCEPT ![c].pc = "grants"]
           \/ /\ v = "default_deny" /\ ~ NeedsApproval(v, e)
              /\ Settle(c, FALSE, "deny", "policy_default_deny", None)
    /\ UNCHANGED <<store, trail>>

\* check_approval parses the capability, which raises unless it is ASCII (see Fail), takes
\* the time, then reads the grants.
LookupGrant(c) ==
    /\ call[c].pc = "grants"
    /\ call[c].event \notin NonAsciiEvents
    /\ \E now \in writer[c].start..clock :
        LET found == Store!CheckApproval(AskOf(call[c].event), now)
        IN  \/ \E i \in found : Settle(c, TRUE, "allow", "approved_grant", i)
            \/ found = {} /\ call' = [call EXCEPT ![c].pc = "requests"]
    /\ UNCHANGED <<store, trail>>

\* has_approved_request: an approved request authorizes, and leaves no approval id.
LookupRequest(c) ==
    /\ call[c].pc = "requests"
    /\ IF Store!ApprovedRequests(AskOf(call[c].event)) # {}
       THEN Settle(c, TRUE, "allow", "previously_approved", None)
       ELSE call' = [call EXCEPT ![c].pc = "enqueue"]
    /\ UNCHANGED <<store, trail>>

\* Mutation of Enqueue: the id of the row before.
EnqueueStaleId(c) ==
    /\ call[c].pc = "enqueue"
    /\ \E now \in writer[c].start..clock :
            Store!RequestApproval(AskOf(call[c].event), DefaultTtl, now)
    /\ Settle(c, FALSE, "require_approval", "approval_required", Len(requests))
    /\ UNCHANGED trail

\* request_approval takes the time, then adds a row, whatever is queued already.
Enqueue(c) ==
    /\ call[c].pc = "enqueue"
    /\ \E now \in writer[c].start..clock :
            Store!RequestApproval(AskOf(call[c].event), DefaultTtl, now)
    /\ Settle(c, FALSE, "require_approval", "approval_required", Len(requests) + 1)
    /\ UNCHANGED trail

\* record_event: read the last hash ...
ReadHead(c) ==
    /\ call[c].pc = "audit"
    /\ call' = [call EXCEPT ![c].pc = "insert"]
    /\ Trail!ReadHead(c)
    /\ UNCHANGED store

\* Mutation of Insert: an error of the INSERT is swallowed.
InsertBestEffort(c) ==
    /\ call[c].pc = "insert"
    /\ call' = [call EXCEPT ![c].pc = "deliver"]
    /\ Trail!Insert(c, call[c].verdict) \/ Trail!Fail(c)
    /\ UNCHANGED store

\* ... and insert the row; execute returns the verdict.
Insert(c) ==
    /\ call[c].pc = "insert"
    /\ call' = [call EXCEPT ![c].pc = "deliver"]
    /\ Trail!Insert(c, call[c].verdict)
    /\ UNCHANGED store

\* Mutation of Deliver: the tool runs while the row is still being written.
DeliverEarly(c) ==
    /\ call[c].pc \in {"insert", "deliver"}
    /\ call' = [call EXCEPT ![c].pc =
            IF call[c].verdict.authorized THEN "invoked" ELSE "blocked"]
    /\ UNCHANGED <<store, trail>>

\* The adapter runs the tool, or raises for a verdict that does not authorize.
Deliver(c) ==
    /\ call[c].pc = "deliver"
    /\ call' = [call EXCEPT ![c].pc =
            IF call[c].verdict.authorized THEN "invoked" ELSE "blocked"]
    /\ UNCHANGED <<store, trail>>

\* A policy, store or audit operation raises, or the process dies: no verdict is
\* returned and the tool is not called ...
Fail(c) ==
    /\ Running(c)
    /\ call' = [call EXCEPT ![c] = Gone("failed", call[c].reason)]
    /\ Trail!Fail(c)
    /\ UNCHANGED store

\* ... or it dies with the verdict in hand.
Abandon(c) ==
    /\ call[c].pc = "deliver"
    /\ call' = [call EXCEPT ![c] = Gone("abandoned", call[c].reason)]
    /\ UNCHANGED <<store, trail>>

-----------------------------------------------------------------------------

Proceed(c) ==
    \/ Evaluate(c) \/ LookupGrant(c) \/ LookupRequest(c) \/ Enqueue(c)
    \/ ReadHead(c) \/ Insert(c) \/ Deliver(c)

\* A listing marks an overdue request as expired, whatever was decided since it looked
\* (Approvals: ExpireOne, ExpiredOnlyPastDeadline).
Expire(i) ==
    /\ Store!Overdue(requests[i], clock)
    /\ Store!UpdateStatus(i, "expired")
    /\ UNCHANGED <<clock, grants>>

\* Time, administrators, operators, and programs that decide requests themselves.
Environment ==
    /\ \/ Store!Tick
       \/ \E t \in GrantTerms, now \in 0..clock : Store!Grant(t, now)
       \/ \E i \in DOMAIN requests :
            Expire(i) \/ \E d \in Store!Decisions : Store!Resolve(i, d)
    /\ UNCHANGED <<trail, call>>

Init ==
    /\ Store!Init
    /\ Trail!Init
    /\ call = [c \in Calls |-> Gone("idle", None)]
    /\ approved = {}

Step ==
    \/ Environment
    \/ \E c \in Calls :
        (\E e \in Carries[c] : Begin(c, e)) \/ Proceed(c) \/ Fail(c) \/ Abandon(c)

Remember ==
    approved' = approved \cup {i \in DOMAIN requests' : requests'[i].status = "approved"}

Next == Step /\ Remember

Spec == Init /\ [][Next]_vars

-----------------------------------------------------------------------------
(* Properties *)

Finished == {"invoked", "blocked", "failed", "abandoned"}

CallState ==
    [pc : {"idle", "evaluate", "grants", "requests", "enqueue", "audit", "insert",
           "deliver"} \cup Finished,
     event : Events \cup {None},
     verdict : Verdicts \cup {None},
     reason : Answers \cup {None}]

TypeOK ==
    /\ Store!TypeOK
    /\ Trail!TypeOK
    /\ call \in [Calls -> CallState]
    /\ approved \subseteq DOMAIN requests

RowsOf(c) == {i \in DOMAIN log : log[i].entry = c}

\* A tool runs only after its call's own authorization is in the trail, and no call
\* is recorded twice, whatever fails and whoever else writes (runtime.py:290).
AuditedBeforeInvoked ==
    \A c \in Calls :
        /\ \A i, j \in RowsOf(c) : i = j
        /\ call[c].pc = "invoked" =>
            \E i \in RowsOf(c) : log[i].verdict.result = "authorized"

\* Event e had the approval it needed: a grant that covered it no earlier than
\* `start`, or a request with its actor, tool and payload that was once approved.
Approved(e, start) ==
    \/ \E i \in DOMAIN grants : Store!GrantCovers(grants[i], AskOf(e), start)
    \/ \E i \in approved :
        /\ requests[i].actor = e.actor
        /\ requests[i].tool = e.action
        /\ requests[i].key = RequestKey(e)

\* In enforce mode a tool runs only if policy allows the event, or if policy leaves it
\* to an approval and one was there: a denial is never overridden by a grant, by an
\* operator or by the call's own metadata (the order of execute's branches).
InvokedOnlyWithCause ==
    \A c \in Calls : ModeOf[c] = "enforce" /\ call[c].pc = "invoked" =>
            LET e == call[c].event
            IN  \/ PolicyVerdict[e] \in {"allow", "warn"}
                \/ /\ \/ PolicyVerdict[e] = "require_approval"
                      \/ PolicyVerdict[e] = "default_deny" /\ e.inline
                   /\ \E i \in RowsOf(c) : Approved(e, log[i].ts)

Waits(c) ==
    /\ call[c].pc \in {"audit", "insert", "deliver", "blocked"}
    /\ call[c].reason.why = "approval_required"

\* A call that was told to wait for an approval left a request of its own, and that
\* request, whatever operators and sweeps did to it meanwhile, still lets a retry of
\* the call through once its status is "approved" (request_approval,
\* has_approved_request).
BlockedAskIsQueued ==
    \A c \in Calls : Waits(c) =>
        LET i == call[c].reason.id
        IN  /\ i \in DOMAIN requests
            /\ requests[i].status = "approved" =>
                    i \in Store!ApprovedRequests(AskOf(call[c].event))
            /\ \A d \in Calls \ {c} : Waits(d) => call[d].reason.id # i

\* The trail tells the calls that something permitted from those that nothing did, also
\* in observe mode, which lets both through (the decision is not rewritten,
\* runtime.py:268).
TrueDecisionIsRecorded ==
    \A c \in Calls, i \in DOMAIN log : log[i].entry = c =>
        (log[i].verdict.decision = "allow" <=> call[c].reason.why \in Permits)

\* execute implements the gate's promise.
recordedOf(c) ==
    IF RowsOf(c) = {} THEN "none" ELSE log[CHOOSE i \in RowsOf(c) : TRUE].verdict.result

Promise == INSTANCE Gate WITH
    Enforcing <- {c \in Calls : ModeOf[c] = "enforce"},
    cleared <- {c \in Calls : call[c].reason # None /\ call[c].reason.why \in Permits},
    recorded <- [c \in Calls |-> recordedOf(c)],
    invoked <- {c \in Calls : call[c].pc = "invoked"}

ImplementsGate == Promise!Spec

\* What the docs say of approvals: "scoped exceptions", "a matching active grant"
\* (docs/architecture).  The request that let a call through asked for the same
\* capability.  It does not hold: has_approved_request compares the payload only.
ApprovalIsScoped ==
    \A c \in Calls :
        call[c].pc = "invoked" /\ call[c].reason.why = "previously_approved" =>
            \E i \in approved : requests[i].cap = RequiredCap(call[c].event)

=============================================================================
