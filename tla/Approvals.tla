------------------------------ MODULE Approvals ------------------------------
(***************************************************************************)
(* The approval store (capfence/core/approvals.py): grants made ahead of   *)
(* time, and the queue of requests an operator decides.  Every operation   *)
(* is one or more SQL statements, each committed on its own                *)
(* (capfence/core/db.py), so what one process read may be stale by the     *)
(* time it writes.  The operator commands of capfence/cli.py that read a   *)
(* request, test its status and only then write are two steps here.  An    *)
(* operation that takes the time before its statement may be held up in    *)
(* between: its `now` is any time until the statement.                     *)
(***************************************************************************)
EXTENDS Integers, Sequences, ActionEvents

CONSTANTS
    Asks,        \* what calls ask for: records of actor, tool, cap, env, session, key
    Ttls,        \* values of request_approval's expires_in
    GrantTerms,  \* what an administrator may pass to `capfence grant`
    Operators,   \* operator command processes that may run at the same time
    Secret,      \* the signing secret of the process that checks grants
    DefaultGrant, \* lifetime of a grant made with no duration and no session
    MaxTime, MaxGrants, MaxRequests   \* bounds of the model

ASSUME ApprovalsAssumption ==
    /\ None \notin Int
    /\ Ttls \subseteq Int \cup {None}
    /\ \A t \in GrantTerms : t.duration \in Int \cup {None}
    /\ DefaultGrant \in Int
    /\ MaxTime \in Nat /\ MaxGrants \in Nat /\ MaxRequests \in Nat

VARIABLES
    clock,     \* time.time(), the same for every process
    grants,    \* table approved_grants, in insertion order
    requests,  \* table approvals, in insertion order; a row's index stands for its id
    ops        \* what each operator process is in the middle of

vars == <<clock, grants, requests, ops>>

Decisions == {"approved", "rejected"}
Statuses == Decisions \cup {"pending", "expired"}
Idle == [cmd |-> "idle"]

-----------------------------------------------------------------------------
(* Grants *)

\* `capfence grant`: a duration wins over a session, and makes the grant valid in
\* every session; with neither, the grant lasts DefaultGrant.
GrantRow(t, now) ==
    [actor   |-> t.actor,
     cap     |-> t.cap,
     env     |-> t.env,
     secret  |-> t.secret,
     expires |-> IF t.duration \notin {None, 0} THEN now + t.duration
                 ELSE IF t.session # None THEN None
                 ELSE now + DefaultGrant,
     session |-> IF t.duration \notin {None, 0} THEN None ELSE t.session]

\* Mutation of Grant: a grant with the same scope is renewed in place.
GrantRenews(t, now) ==
    /\ \/ /\ Len(grants) < MaxGrants
          /\ grants' = Append(grants, GrantRow(t, now))
       \/ \E i \in DOMAIN grants :
            grants' = [grants EXCEPT ![i].expires = GrantRow(t, now).expires]
    /\ UNCHANGED <<clock, requests, ops>>

Grant(t, now) ==
    /\ Len(grants) < MaxGrants
    /\ grants' = Append(grants, GrantRow(t, now))
    /\ UNCHANGED <<clock, requests, ops>>

\* The tests check_approval applies to one grant row at time `now`.
GrantCovers(g, ask, now) ==
    /\ g.actor \in {ask.actor, Wildcard}
    /\ Covers(g.cap, ask.cap)
    /\ g.env \in {ask.env, Wildcard}
    /\ g.expires = None \/ now <= g.expires
    /\ g.session \in {None, ask.session}
    /\ g.secret \in {None, Secret}    \* a signature, if the row has one, must verify

\* check_approval: the rows it may return (SQL promises no order).
CheckApproval(ask, now) == {i \in DOMAIN grants : GrantCovers(grants[i], ask, now)}

-----------------------------------------------------------------------------
(* The request queue *)

\* request_approval always inserts; expires_in of None or 0 means no deadline.
RequestRow(ask, ttl, now) ==
    [actor   |-> ask.actor,
     tool    |-> ask.tool,
     cap     |-> ask.cap,
     key     |-> ask.key,
     status  |-> "pending",
     expires |-> IF ttl \in {None, 0} THEN None ELSE now + ttl]

\* Mutation of RequestApproval: a row for the same ask is re-used.
RequestReusesRow(ask, ttl, now) ==
    /\ \/ /\ Len(requests) < MaxRequests
          /\ requests' = Append(requests, RequestRow(ask, ttl, now))
       \/ \E i \in DOMAIN requests :
            /\ requests[i].key = ask.key
            /\ requests' = [requests EXCEPT ![i] = RequestRow(ask, ttl, now)]
    /\ UNCHANGED <<clock, grants, ops>>

RequestApproval(ask, ttl, now) ==
    /\ Len(requests) < MaxRequests
    /\ requests' = Append(requests, RequestRow(ask, ttl, now))
    /\ UNCHANGED <<clock, grants, ops>>

\* has_approved_request: actor, tool and payload decide; not the capability, the
\* environment, the session or the deadline.
ApprovedRequests(ask) ==
    {i \in DOMAIN requests :
        /\ requests[i].actor = ask.actor
        /\ requests[i].tool = ask.tool
        /\ requests[i].key = ask.key
        /\ requests[i].status = "approved"}

\* _update_status: an UPDATE by id, whatever the row's status is by now.
UpdateStatus(i, status) == requests' = [requests EXCEPT ![i].status = status]

\* ApprovalManager.approve and reject, called by a program.
Resolve(i, d) ==
    /\ UpdateStatus(i, d)
    /\ UNCHANGED <<clock, grants, ops>>

-----------------------------------------------------------------------------
(* Operator commands *)

\* Mutation of ReadRequest: the status is not tested.
ReadAnyRequest(o, i, d) ==
    /\ ops[o] = Idle
    /\ ops' = [ops EXCEPT ![o] = [cmd |-> "decide", id |-> i, to |-> d]]
    /\ UNCHANGED <<clock, grants, requests>>

\* `capfence approve` and `capfence reject`: read the request, give up unless pending ...
ReadRequest(o, i, d) ==
    /\ ops[o] = Idle
    /\ requests[i].status = "pending"
    /\ ops' = [ops EXCEPT ![o] = [cmd |-> "decide", id |-> i, to |-> d]]
    /\ UNCHANGED <<clock, grants, requests>>

\* ... then write the decision.
WriteDecision(o) ==
    /\ ops[o].cmd = "decide"
    /\ UpdateStatus(ops[o].id, ops[o].to)
    /\ ops' = [ops EXCEPT ![o] = Idle]
    /\ UNCHANGED <<clock, grants>>

\* Mutation of Overdue: off by one at the deadline itself.
OverdueAtDeadline(r, now) == r.expires # None /\ now >= r.expires

Overdue(r, now) == r.expires # None /\ now > r.expires

\* Mutation of SelectPending: row positions counted from zero.
SelectFromZero(o, now) ==
    /\ ops[o] = Idle
    /\ ops' = [ops EXCEPT ![o] =
            [cmd |-> "list", cutoff |-> now, seen |-> Len(requests),
             todo |-> {i - 1 : i \in {j \in DOMAIN requests : Overdue(requests[j], now)}}]]
    /\ UNCHANGED <<clock, grants, requests>>

\* `capfence pending-approvals`, that is get_pending: one SELECT of the pending rows, of
\* those that were `seen` (history) ...
SelectPending(o, now) ==
    /\ ops[o] = Idle
    /\ ops' = [ops EXCEPT ![o] =
            [cmd |-> "list", cutoff |-> now, seen |-> Len(requests),
             todo |-> {i \in DOMAIN requests : requests[i].status = "pending"
                                            /\ Overdue(requests[i], now)}]]
    /\ UNCHANGED <<clock, grants, requests>>

\* Mutation of ExpireOne: the loop returns after its first update.
ExpireOnlyOne(o) ==
    /\ ops[o].cmd = "list"
    /\ \E i \in ops[o].todo :
        /\ UpdateStatus(i, "expired")
        /\ ops' = [ops EXCEPT ![o].todo = {}]
    /\ UNCHANGED <<clock, grants>>

\* ... then one UPDATE for each row it found overdue ...
ExpireOne(o) ==
    /\ ops[o].cmd = "list"
    /\ \E i \in ops[o].todo :
        /\ UpdateStatus(i, "expired")
        /\ ops' = [ops EXCEPT ![o].todo = @ \ {i}]
    /\ UNCHANGED <<clock, grants>>

\* ... until there is none left and the list is printed.
EndList(o) ==
    /\ ops[o].cmd = "list"
    /\ ops[o].todo = {}
    /\ ops' = [ops EXCEPT ![o] = Idle]
    /\ UNCHANGED <<clock, grants, requests>>

\* The operator's process is interrupted between two statements.
Interrupt(o) ==
    /\ ops[o] # Idle
    /\ ops' = [ops EXCEPT ![o] = Idle]
    /\ UNCHANGED <<clock, grants, requests>>

-----------------------------------------------------------------------------

Tick ==
    /\ clock < MaxTime
    /\ clock' = clock + 1
    /\ UNCHANGED <<grants, requests, ops>>

Init ==
    /\ clock = 0
    /\ grants = <<>>
    /\ requests = <<>>
    /\ ops = [o \in Operators |-> Idle]

Command(o) ==
    \/ \E i \in DOMAIN requests, d \in Decisions : ReadRequest(o, i, d)
    \/ WriteDecision(o)
    \/ \E now \in 0..clock : SelectPending(o, now)
    \/ ExpireOne(o)
    \/ EndList(o)
    \/ Interrupt(o)

Next ==
    \/ Tick
    \/ \E t \in GrantTerms, now \in 0..clock : Grant(t, now)
    \/ \E a \in Asks, ttl \in Ttls, now \in 0..clock : RequestApproval(a, ttl, now)
    \/ \E i \in DOMAIN requests, d \in Decisions : Resolve(i, d)
    \/ \E o \in Operators : Command(o)

Spec == Init /\ [][Next]_vars

-----------------------------------------------------------------------------
(* Properties *)

Request ==
    [actor : {a.actor : a \in Asks}, tool : {a.tool : a \in Asks},
     cap : {a.cap : a \in Asks}, key : {a.key : a \in Asks},
     status : Statuses, expires : Int \cup {None}]

GrantRecord ==
    [actor : {t.actor : t \in GrantTerms}, cap : {t.cap : t \in GrantTerms},
     env : {t.env : t \in GrantTerms}, secret : {t.secret : t \in GrantTerms},
     expires : Int \cup {None}, session : {t.session : t \in GrantTerms} \cup {None}]

OperatorState ==
    {Idle}
    \cup [cmd : {"decide"}, id : DOMAIN requests, to : Decisions]
    \cup [cmd : {"list"}, cutoff : Nat, seen : 0..Len(requests), todo : SUBSET DOMAIN requests]

\* Type invariant; a command in flight only names requests that exist.
TypeOK ==
    /\ clock \in Nat
    /\ grants \in Seq(GrantRecord)
    /\ requests \in Seq(Request)
    /\ ops \in [Operators -> OperatorState]

\* A sweep never expires a request before its own deadline, however stale the
\* sweep's clock and whatever other commands did meanwhile (get_pending).
ExpiredOnlyPastDeadline ==
    \A i \in DOMAIN requests :
        requests[i].status = "expired" =>
            requests[i].expires # None /\ clock > requests[i].expires

\* While a listing is in progress, every request it read that was overdue at its cutoff
\* is either decided by now or still on its list: what `pending-approvals` prints at the
\* end holds no overdue request that is still pending.  A request queued after the SELECT
\* may be overdue already, and is left to the next listing (get_pending, request_approval).
SweepIsComplete ==
    \A o \in Operators : ops[o].cmd = "list" =>
        \A i \in 1..ops[o].seen :
            /\ requests[i].status = "pending"
            /\ Overdue(requests[i], ops[o].cutoff)
            => i \in ops[o].todo

\* Process o read request i while it was pending and may still write it.
Holds(o, i) ==
    \/ ops[o].cmd = "decide" /\ ops[o].id = i
    \/ ops[o].cmd = "list" /\ i \in ops[o].todo

Settled(i) ==
    /\ requests[i].status # "pending"
    /\ \A o \in Operators : ~ Holds(o, i)

\* Once a request is decided and no command that read it as pending is in flight,
\* no operator command ever changes it again; only a program that calls approve or
\* reject itself can (the status test of cli.py's approve and reject, and the
\* WHERE status = 'pending' of get_pending).
SettledStaysSettled ==
    [][\A i \in DOMAIN requests :
          Settled(i) =>
            \/ requests'[i].status = requests[i].status /\ Settled(i)'
            \/ \E d \in Decisions : Resolve(i, d)]_vars

\* A decided or expired request never becomes pending again, so a retry can never
\* re-open it: it queues a row of its own (request_approval, _update_status).
NeverPendingAgain ==
    [][\A i \in DOMAIN requests :
          requests[i].status # "pending" => requests'[i].status # "pending"]_vars

\* A grant that no longer covers an ask never covers it again: no operation renews
\* or widens a grant row (check_approval, _insert_grant).
LapsedGrantStaysLapsed ==
    [][\A i \in DOMAIN grants, a \in Asks :
          i \notin CheckApproval(a, clock) => i \notin CheckApproval(a, clock)']_vars

\* What the docs say of deadlines: a request not decided in time expires and is
\* rejected, so it is never approved later (docs/reference/policy-schema.md).  It does
\* not hold: only a listing expires requests, and `approve` does not look at the time.
OverdueIsNotApproved ==
    [][\A i \in DOMAIN requests :
          requests[i].status = "pending" /\ Overdue(requests[i], clock) =>
            requests'[i].status # "approved"]_vars

=============================================================================
