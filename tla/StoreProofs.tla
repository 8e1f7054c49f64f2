----------------------------- MODULE StoreProofs -----------------------------
(***************************************************************************)
(* Proofs about the approval store, for every set of asks, operators and   *)
(* grants, every number of rows and every time, and about the replay       *)
(* engine that copies it, for any traces.                                  *)
(***************************************************************************)
EXTENDS Replay, TLAPS


-----------------------------------------------------------------------------
(* Rows *)

\* The row request_approval inserts is well formed and starts out pending.
LEMMA RequestRowType ==
    ASSUME NEW a \in Asks, NEW ttl \in Ttls, NEW now \in Int
    PROVE  /\ RequestRow(a, ttl, now) \in Request
           /\ RequestRow(a, ttl, now).status = "pending"
  BY ApprovalsAssumption DEF RequestRow, Request, Statuses, Decisions

\* The row a grant inserts is well formed.
LEMMA GrantRowType ==
    ASSUME NEW t \in GrantTerms, NEW now \in Int
    PROVE  GrantRow(t, now) \in GrantRecord
  BY ApprovalsAssumption DEF GrantRow, GrantRecord

\* What a request is for.
SameAsk(r, q) == r.actor = q.actor /\ r.tool = q.tool /\ r.key = q.key

\* An UPDATE of one row's status keeps the table well formed, and every other column.
LEMMA UpdateStatusType ==
    ASSUME requests \in Seq(Request), NEW i \in DOMAIN requests,
           NEW s \in Statuses, UpdateStatus(i, s)
    PROVE  /\ requests' \in Seq(Request)
           /\ DOMAIN requests' = DOMAIN requests
           /\ requests'[i].status = s
           /\ \A j \in DOMAIN requests :
                /\ requests'[j].expires = requests[j].expires
                /\ SameAsk(requests'[j], requests[j])
           /\ \A j \in DOMAIN requests \ {i} : requests'[j] = requests[j]
<1>1. requests[i] \in Request /\ i \in 1..Len(requests) /\ DOMAIN requests = 1..Len(requests)
  OBVIOUS
<1>2. [requests[i] EXCEPT !.status = s] \in Request
  BY <1>1 DEF Request
<1>3. requests' = [requests EXCEPT ![i] = [requests[i] EXCEPT !.status = s]]
  BY DEF UpdateStatus
<1>4. requests' \in Seq(Request) /\ DOMAIN requests' = DOMAIN requests
  BY <1>1, <1>2, <1>3
<1>5. requests'[i] = [requests[i] EXCEPT !.status = s]
  BY <1>1, <1>3
<1>6. \A j \in DOMAIN requests \ {i} : requests'[j] = requests[j]
  BY <1>1, <1>3
<1>7. /\ requests'[i].status = s /\ requests'[i].expires = requests[i].expires
      /\ SameAsk(requests'[i], requests[i])
  BY <1>1, <1>5 DEF Request, SameAsk
<1> QED BY <1>4, <1>6, <1>7 DEF SameAsk

\* A command in flight names rows that exist.
LEMMA OperatorTargets ==
    ASSUME TypeOK, NEW o \in Operators
    PROVE  /\ ops[o].cmd = "decide" => ops[o].id \in DOMAIN requests /\ ops[o].to \in Decisions
           /\ ops[o].cmd = "list" => /\ ops[o].cutoff \in Nat
                                    /\ ops[o].seen \in 0..Len(requests)
                                    /\ ops[o].todo \subseteq DOMAIN requests
           /\ ops[o] # Idle => ops[o].cmd \in {"decide", "list"}
  BY DEF TypeOK, OperatorState, Idle

-----------------------------------------------------------------------------
(* Type correctness *)

\* An empty store is well formed.
LEMMA InitTypeOK == Init => TypeOK
  BY ApprovalsAssumption DEF Init, TypeOK, OperatorState, Idle

\* Every operation keeps the store well formed.
LEMMA NextTypeOK == TypeOK /\ [Next]_vars => TypeOK'
<1> SUFFICES ASSUME TypeOK, [Next]_vars PROVE TypeOK'
  OBVIOUS
<1> USE DEF TypeOK
<1>1. CASE Tick
  BY <1>1 DEF Tick, OperatorState
<1>2. ASSUME NEW t \in GrantTerms, NEW now \in 0..clock, Grant(t, now) PROVE TypeOK'
  <2>1. grants' \in Seq(GrantRecord)
    BY <1>2, GrantRowType DEF Grant
  <2> QED BY <1>2, <2>1 DEF Grant, OperatorState
<1>3. ASSUME NEW a \in Asks, NEW ttl \in Ttls, NEW now \in 0..clock,
             RequestApproval(a, ttl, now)
      PROVE  TypeOK'
  <2>1. /\ requests' \in Seq(Request) /\ DOMAIN requests \subseteq DOMAIN requests'
        /\ Len(requests') = Len(requests) + 1
    BY <1>3, RequestRowType DEF RequestApproval
  <2>2. ops' \in [Operators -> OperatorState']
    BY <1>3, <2>1 DEF RequestApproval, OperatorState
  <2> QED BY <1>3, <2>1, <2>2 DEF RequestApproval
<1>4. ASSUME NEW i \in DOMAIN requests, NEW d \in Decisions, Resolve(i, d) PROVE TypeOK'
  <2>1. requests' \in Seq(Request) /\ DOMAIN requests' = DOMAIN requests
    BY <1>4, UpdateStatusType DEF Resolve, Statuses
  <2> QED BY <1>4, <2>1 DEF Resolve, OperatorState
<1>5. ASSUME NEW o \in Operators, Command(o) PROVE TypeOK'
  <2>1. ASSUME NEW i \in DOMAIN requests, NEW d \in Decisions, ReadRequest(o, i, d)
        PROVE  TypeOK'
    BY <2>1 DEF ReadRequest, OperatorState
  <2>2. CASE WriteDecision(o)
    <3>1. requests' \in Seq(Request) /\ DOMAIN requests' = DOMAIN requests
      BY <2>2, OperatorTargets, UpdateStatusType DEF WriteDecision, Statuses
    <3> QED BY <2>2, <3>1 DEF WriteDecision, OperatorState, Idle
  <2>3. ASSUME NEW now \in 0..clock, SelectPending(o, now) PROVE TypeOK'
    BY <2>3 DEF SelectPending, OperatorState
  <2>4. CASE ExpireOne(o)
    <3>1. PICK i \in ops[o].todo :
            /\ UpdateStatus(i, "expired")
            /\ ops' = [ops EXCEPT ![o].todo = @ \ {i}]
      BY <2>4 DEF ExpireOne
    <3>2. i \in DOMAIN requests
      BY <2>4, <3>1, OperatorTargets DEF ExpireOne
    <3>3. requests' \in Seq(Request) /\ DOMAIN requests' = DOMAIN requests
      BY <3>1, <3>2, UpdateStatusType DEF Statuses
    <3>4. [ops[o] EXCEPT !.todo = @ \ {i}] \in OperatorState
      BY <2>4 DEF ExpireOne, OperatorState, Idle
    <3>5. ops' \in [Operators -> OperatorState]
      BY <3>1, <3>4
    <3> QED BY <2>4, <3>3, <3>5 DEF ExpireOne, OperatorState
  <2>5. CASE EndList(o)
    BY <2>5 DEF EndList, OperatorState, Idle
  <2>6. CASE Interrupt(o)
    BY <2>6 DEF Interrupt, OperatorState, Idle
  <2> QED BY <1>5, <2>1, <2>2, <2>3, <2>4, <2>5, <2>6 DEF Command
<1>6. CASE UNCHANGED vars
  BY <1>6 DEF vars, OperatorState
<1> QED BY <1>1, <1>2, <1>3, <1>4, <1>5, <1>6 DEF Next

\* The store's tables and the commands in flight are always well formed; in particular
\* no command ever writes a row that does not exist (approvals.py, cli.py).
THEOREM TypeCorrect == Spec => []TypeOK
  BY InitTypeOK, NextTypeOK, PTL DEF Spec

-----------------------------------------------------------------------------
(* What a step does to one request *)

\* A step leaves a request alone, or an operation that names it sets its status;
\* nothing else of the row ever changes.
LEMMA RequestStep ==
    ASSUME TypeOK, [Next]_vars, NEW i \in DOMAIN requests
    PROVE  /\ i \in DOMAIN requests'
           /\ requests'[i].expires = requests[i].expires
           /\ SameAsk(requests'[i], requests[i])
           /\ \/ requests'[i] = requests[i]
              \/ \E d \in Decisions : Resolve(i, d) /\ requests'[i].status = d
              \/ \E o \in Operators :
                    /\ WriteDecision(o)
                    /\ ops[o].id = i
                    /\ requests'[i].status = ops[o].to
              \/ \E o \in Operators :
                    /\ ops[o].cmd = "list" /\ i \in ops[o].todo
                    /\ requests'[i].status = "expired"
                    /\ ops' = [ops EXCEPT ![o].todo = @ \ {i}]
                    /\ clock' = clock
<1> DEFINE Goal == /\ i \in DOMAIN requests'
                   /\ requests'[i].expires = requests[i].expires
                   /\ SameAsk(requests'[i], requests[i])
                   /\ \/ requests'[i] = requests[i]
                      \/ \E d \in Decisions : Resolve(i, d) /\ requests'[i].status = d
                      \/ \E o \in Operators :
                            /\ WriteDecision(o)
                            /\ ops[o].id = i
                            /\ requests'[i].status = ops[o].to
                      \/ \E o \in Operators :
                            /\ ops[o].cmd = "list" /\ i \in ops[o].todo
                            /\ requests'[i].status = "expired"
                            /\ ops' = [ops EXCEPT ![o].todo = @ \ {i}]
                            /\ clock' = clock
<1> SUFFICES Goal
  OBVIOUS
<1>0. requests \in Seq(Request) /\ DOMAIN requests = 1..Len(requests)
  BY DEF TypeOK
<1>1. ASSUME requests' = requests PROVE Goal
  BY <1>1 DEF SameAsk
<1>2. ASSUME NEW t \in GrantTerms, NEW now \in 0..clock, Grant(t, now) PROVE Goal
  BY <1>1, <1>2 DEF Grant
<1>3. ASSUME NEW a \in Asks, NEW ttl \in Ttls, NEW now \in 0..clock,
             RequestApproval(a, ttl, now)
      PROVE  Goal
  BY <1>0, <1>3 DEF RequestApproval, SameAsk
<1>4. ASSUME NEW j \in DOMAIN requests, NEW d \in Decisions, Resolve(j, d) PROVE Goal
  <2>1. CASE i = j
    BY <1>0, <1>4, <2>1, UpdateStatusType DEF Resolve, Statuses
  <2>2. CASE i # j
    BY <1>0, <1>4, <2>2, UpdateStatusType DEF Resolve, Statuses
  <2> QED BY <2>1, <2>2
<1>5. ASSUME NEW o \in Operators, Command(o) PROVE Goal
  <2>1. ASSUME NEW j \in DOMAIN requests, NEW d \in Decisions, ReadRequest(o, j, d) PROVE Goal
    BY <1>1, <2>1 DEF ReadRequest
  <2>2. CASE WriteDecision(o)
    <3>1. ops[o].id \in DOMAIN requests /\ ops[o].to \in Statuses
      BY <2>2, OperatorTargets DEF WriteDecision, Statuses
    <3>2. UpdateStatus(ops[o].id, ops[o].to)
      BY <2>2 DEF WriteDecision
    <3>3. CASE i = ops[o].id
      BY <1>0, <2>2, <3>1, <3>2, <3>3, UpdateStatusType
    <3>4. CASE i # ops[o].id
      BY <1>0, <3>1, <3>2, <3>4, UpdateStatusType
    <3> QED BY <3>3, <3>4
  <2>3. CASE ExpireOne(o)
    <3>1. PICK j \in ops[o].todo :
            UpdateStatus(j, "expired") /\ ops' = [ops EXCEPT ![o].todo = @ \ {j}]
      BY <2>3 DEF ExpireOne
    <3>2. j \in DOMAIN requests /\ ops[o].cmd = "list" /\ clock' = clock
      BY <2>3, <3>1, OperatorTargets DEF ExpireOne
    <3>3. CASE i = j
      BY <1>0, <3>1, <3>2, <3>3, UpdateStatusType DEF Statuses
    <3>4. CASE i # j
      BY <1>0, <3>1, <3>2, <3>4, UpdateStatusType DEF Statuses
    <3> QED BY <3>3, <3>4
  <2>4. CASE (\E now \in 0..clock : SelectPending(o, now)) \/ EndList(o) \/ Interrupt(o)
    BY <1>1, <2>4 DEF SelectPending, EndList, Interrupt
  <2> QED BY <1>5, <2>1, <2>2, <2>3, <2>4 DEF Command
<1>6. CASE Tick \/ UNCHANGED vars
  BY <1>1, <1>6 DEF Tick, vars
<1> QED BY <1>2, <1>3, <1>4, <1>5, <1>6 DEF Next

\* A row a step adds is a pending one.
LEMMA NewRequest ==
    ASSUME TypeOK, [Next]_vars, NEW i \in DOMAIN requests', i \notin DOMAIN requests
    PROVE  /\ requests'[i].status = "pending"
           /\ clock' = clock /\ ops' = ops
<1>0. requests \in Seq(Request)
  BY DEF TypeOK
<1>1. ASSUME DOMAIN requests' = DOMAIN requests PROVE FALSE
  BY <1>1
<1>2. ASSUME NEW a \in Asks, NEW ttl \in Ttls, NEW now \in 0..clock,
             RequestApproval(a, ttl, now)
      PROVE  i = Len(requests) + 1 /\ requests'[i] = RequestRow(a, ttl, now)
             /\ clock' = clock /\ ops' = ops
  BY <1>0, <1>2 DEF RequestApproval
<1>3. ASSUME NEW j, NEW s, UpdateStatus(j, s) PROVE FALSE
  BY <1>1, <1>3 DEF UpdateStatus
<1>4. \E a \in Asks, ttl \in Ttls, now \in 0..clock : RequestApproval(a, ttl, now)
  BY <1>1, <1>3
  DEF Next, vars, Tick, Grant, Resolve, Command, ReadRequest, WriteDecision,
      SelectPending, ExpireOne, EndList, Interrupt
<1> QED BY <1>2, <1>4, RequestRowType DEF TypeOK

-----------------------------------------------------------------------------
(* Expiry *)

\* What makes ExpiredOnlyPastDeadline inductive: a sweep's list was overdue at its
\* cutoff, the cutoff is not in the future, and deadlines never move.
ListedAreOverdue ==
    \A o \in Operators : ops[o].cmd = "list" =>
        /\ ops[o].cutoff <= clock
        /\ \A i \in ops[o].todo : Overdue(requests[i], ops[o].cutoff)

ExpiryInv == TypeOK /\ ListedAreOverdue /\ ExpiredOnlyPastDeadline

\* Nothing is listed or expired at first.
LEMMA InitExpiryInv == Init => ExpiryInv
  BY InitTypeOK DEF Init, ExpiryInv, ListedAreOverdue, ExpiredOnlyPastDeadline, Idle

\* What a step does to one operator's listing: it only gets shorter, or it is taken
\* from the pending rows, at a time that is not in the future.
LEMMA ListStep ==
    ASSUME TypeOK, [Next]_vars, NEW o \in Operators, ops'[o].cmd = "list"
    PROVE  \/ /\ ops[o].cmd = "list"
              /\ ops'[o].cutoff = ops[o].cutoff /\ ops'[o].seen = ops[o].seen
              /\ ops'[o].todo \subseteq ops[o].todo
              /\ \A i \in ops[o].todo \ ops'[o].todo : requests'[i].status = "expired"
           \/ \E now \in 0..clock : SelectPending(o, now)
<1>0. ops \in [Operators -> OperatorState] /\ requests \in Seq(Request)
  BY DEF TypeOK
<1>1. CASE ops'[o] = ops[o]
  BY <1>1
<1>2. ASSUME NEW p \in Operators, Command(p) PROVE ops'[o] = ops[o] \/ p = o
  BY <1>0, <1>2
  DEF Command, ReadRequest, WriteDecision, SelectPending, ExpireOne, EndList, Interrupt
<1>3. CASE Command(o)
  <2>1. ASSUME NEW i \in DOMAIN requests, NEW d \in Decisions, ReadRequest(o, i, d) PROVE FALSE
    BY <1>0, <2>1 DEF ReadRequest
  <2>2. CASE WriteDecision(o) \/ EndList(o) \/ Interrupt(o)
    BY <1>0, <2>2 DEF WriteDecision, EndList, Interrupt, Idle
  <2>3. CASE ExpireOne(o)
    <3>1. PICK j \in ops[o].todo :
            UpdateStatus(j, "expired") /\ ops' = [ops EXCEPT ![o].todo = @ \ {j}]
      BY <2>3 DEF ExpireOne
    <3>2. ops[o].cmd = "list" /\ j \in DOMAIN requests
      BY <2>3, <3>1, OperatorTargets DEF ExpireOne
    <3>3. requests'[j].status = "expired"
      BY <1>0, <3>1, <3>2, UpdateStatusType DEF Statuses
    <3>4. ops'[o] = [ops[o] EXCEPT !.todo = @ \ {j}]
      BY <1>0, <3>1
    <3>5. /\ ops'[o].cutoff = ops[o].cutoff /\ ops'[o].seen = ops[o].seen
          /\ ops'[o].todo = ops[o].todo \ {j}
      BY <1>0, <3>2, <3>4 DEF OperatorState, Idle
    <3> QED BY <3>2, <3>3, <3>5
  <2> QED BY <1>3, <2>1, <2>2, <2>3 DEF Command
<1>4. CASE ops' = ops
  BY <1>1, <1>4
<1> QED
  BY <1>1, <1>2, <1>3, <1>4 DEF Next, vars, Tick, Grant, RequestApproval, Resolve

\* Time does not run backward.
LEMMA ClockStep == ASSUME TypeOK, [Next]_vars PROVE clock' \in Nat /\ clock <= clock'
  BY DEF TypeOK, Next, vars, Tick, Grant, RequestApproval, Resolve, Command, ReadRequest,
         WriteDecision, SelectPending, ExpireOne, EndList, Interrupt

\* A listing only ever holds requests that are overdue, and only those get expired.
LEMMA NextExpiryInv == ExpiryInv /\ [Next]_vars => ExpiryInv'
<1> SUFFICES ASSUME ExpiryInv, [Next]_vars PROVE ExpiryInv'
  OBVIOUS
<1>1. TypeOK /\ TypeOK'
  BY NextTypeOK DEF ExpiryInv
<1>2. clock \in Nat /\ clock' \in Nat /\ clock <= clock'
  BY <1>1, ClockStep DEF TypeOK
<1>3. \A i \in DOMAIN requests : requests[i].expires \in Int \cup {None}
  <2>1. \A i \in DOMAIN requests : requests[i] \in Request
    BY <1>1 DEF TypeOK
  <2> QED BY <2>1 DEF Request
<1>4. ListedAreOverdue'
  <2> SUFFICES ASSUME NEW o \in Operators, ops'[o].cmd = "list"
               PROVE  /\ ops'[o].cutoff <= clock'
                      /\ \A i \in ops'[o].todo : Overdue(requests'[i], ops'[o].cutoff)
    BY DEF ListedAreOverdue, Overdue
  <2>1. CASE /\ ops[o].cmd = "list"
             /\ ops'[o].cutoff = ops[o].cutoff
             /\ ops'[o].todo \subseteq ops[o].todo
    <3>1. ops[o].cutoff \in Nat /\ ops[o].todo \subseteq DOMAIN requests
      BY <1>1, <2>1, OperatorTargets
    <3>2. \A i \in ops[o].todo : requests'[i].expires = requests[i].expires
      BY <1>1, <3>1, RequestStep
    <3> QED BY <1>2, <2>1, <3>1, <3>2 DEF ExpiryInv, ListedAreOverdue, Overdue
  <2>2. ASSUME NEW now \in 0..clock, SelectPending(o, now)
        PROVE  /\ ops'[o].cutoff <= clock'
               /\ \A i \in ops'[o].todo : Overdue(requests'[i], ops'[o].cutoff)
    <3>1. /\ ops'[o].cutoff = now /\ requests' = requests
          /\ \A i \in ops'[o].todo : Overdue(requests[i], now)
      BY <1>1, <2>2 DEF SelectPending, TypeOK
    <3> QED BY <1>2, <3>1
  <2> QED BY <1>1, <2>1, <2>2, ListStep
<1>5. ExpiredOnlyPastDeadline'
  <2> SUFFICES ASSUME NEW i \in DOMAIN requests', requests'[i].status = "expired"
               PROVE  requests'[i].expires # None /\ clock' > requests'[i].expires
    BY DEF ExpiredOnlyPastDeadline
  <2>1. i \in DOMAIN requests
    BY <1>1, NewRequest
  <2>2. requests'[i].expires = requests[i].expires
    BY <1>1, <2>1, RequestStep
  <2>3. CASE requests[i].status = "expired"
    BY <1>2, <1>3, <2>1, <2>2, <2>3 DEF ExpiryInv, ExpiredOnlyPastDeadline
  <2>4. CASE requests[i].status # "expired"
    <3>1. PICK o \in Operators : ops[o].cmd = "list" /\ i \in ops[o].todo
      <4>1. \A o \in Operators : WriteDecision(o) => ops[o].to \in Decisions
        BY <1>1, OperatorTargets DEF WriteDecision
      <4> QED BY <1>1, <2>1, <2>4, <4>1, RequestStep DEF Decisions
    <3>2. ops[o].cutoff \in Nat
      BY <1>1, <3>1, OperatorTargets
    <3> QED BY <1>2, <1>3, <2>1, <2>2, <3>1, <3>2 DEF ExpiryInv, ListedAreOverdue, Overdue
  <2> QED BY <2>3, <2>4
<1> QED BY <1>1, <1>4, <1>5 DEF ExpiryInv

\* However stale a sweep's clock and whatever operators do meanwhile, a request is
\* marked "expired" only when its own deadline is over (get_pending).
THEOREM ExpiryIsDeserved == Spec => []ExpiredOnlyPastDeadline
<1>1. ExpiryInv => ExpiredOnlyPastDeadline
  BY DEF ExpiryInv
<1> QED BY <1>1, InitExpiryInv, NextExpiryInv, PTL DEF Spec

-----------------------------------------------------------------------------
(* Sweeps *)

\* The positions a listing has seen stay the same rows: the table only grows, and a row's
\* deadline never moves.
SweepInv == TypeOK /\ SweepIsComplete

\* No step makes a listing miss a request that it read and that was overdue.
LEMMA NextSweepInv == SweepInv /\ [Next]_vars => SweepInv'
<1> SUFFICES ASSUME SweepInv, [Next]_vars PROVE SweepIsComplete'
  BY NextTypeOK DEF SweepInv
<1>1. TypeOK /\ SweepIsComplete /\ requests \in Seq(Request)
  BY DEF SweepInv, TypeOK
<1> SUFFICES ASSUME NEW o \in Operators, ops'[o].cmd = "list",
                    NEW i \in 1..ops'[o].seen, requests'[i].status = "pending",
                    Overdue(requests'[i], ops'[o].cutoff)
             PROVE  i \in ops'[o].todo
  BY DEF SweepIsComplete, Overdue
<1>2. ASSUME NEW now \in 0..clock, SelectPending(o, now) PROVE i \in ops'[o].todo
  BY <1>1, <1>2 DEF SelectPending, TypeOK
<1>3. CASE /\ ops[o].cmd = "list"
           /\ ops'[o].cutoff = ops[o].cutoff /\ ops'[o].seen = ops[o].seen
           /\ \A j \in ops[o].todo \ ops'[o].todo : requests'[j].status = "expired"
  <2>1. i \in DOMAIN requests
    BY <1>1, <1>3, OperatorTargets
  <2>2. requests'[i].expires = requests[i].expires /\ requests[i].status = "pending"
    <3>1. \A p \in Operators : WriteDecision(p) => ops[p].to \in Decisions
      BY <1>1, OperatorTargets DEF WriteDecision
    <3> QED BY <1>1, <2>1, <3>1, RequestStep DEF Decisions
  <2>3. i \in ops[o].todo
    BY <1>1, <1>3, <2>2 DEF SweepIsComplete, Overdue
  <2> QED BY <1>3, <2>3
<1> QED BY <1>1, <1>2, <1>3, ListStep

\* A listing never overlooks an overdue request that it read: at its end, every row that
\* was there at its SELECT and overdue at its cutoff has been expired or decided, whatever
\* was queued, decided or swept meanwhile (get_pending).
THEOREM SweepCompletes == Spec => []SweepIsComplete
<1>1. Init => SweepInv
  BY InitTypeOK DEF Init, SweepInv, SweepIsComplete, Idle
<1>2. SweepInv => SweepIsComplete
  BY DEF SweepInv
<1> QED BY <1>1, <1>2, NextSweepInv, PTL DEF Spec

-----------------------------------------------------------------------------
(* Decisions *)

\* Whatever happens, a request that is no longer pending never is again: a retry cannot
\* re-open a decided request.
THEOREM NeverReopened == Spec => NeverPendingAgain
<1>1. TypeOK /\ [Next]_vars =>
        [\A i \in DOMAIN requests :
            requests[i].status # "pending" => requests'[i].status # "pending"]_vars
  <2> SUFFICES ASSUME TypeOK, [Next]_vars, NEW i \in DOMAIN requests,
                      requests[i].status # "pending"
               PROVE  requests'[i].status # "pending"
    OBVIOUS
  <2>1. \A o \in Operators : WriteDecision(o) => ops[o].to \in Decisions
    BY OperatorTargets DEF WriteDecision
  <2> QED BY <2>1, RequestStep DEF Decisions
<1> QED BY <1>1, TypeCorrect, PTL DEF Spec, NeverPendingAgain

\* A decided request that no command in flight read as pending is out of reach of
\* operators for good: no command gets hold of it again, and only a program that calls
\* approve or reject changes it.
THEOREM DecisionsHold == Spec => SettledStaysSettled
<1>1. TypeOK /\ [Next]_vars =>
        [\A i \in DOMAIN requests : Settled(i) =>
            \/ requests'[i].status = requests[i].status /\ Settled(i)'
            \/ \E d \in Decisions : Resolve(i, d)]_vars
  <2> SUFFICES ASSUME TypeOK, [Next]_vars, NEW i \in DOMAIN requests, Settled(i),
                      \A d \in Decisions : ~ Resolve(i, d)
               PROVE  requests'[i].status = requests[i].status /\ Settled(i)'
    OBVIOUS
  <2>1. requests'[i] = requests[i]
    BY RequestStep DEF Settled, Holds, WriteDecision
  <2>2. ASSUME NEW o \in Operators, Holds(o, i)' PROVE FALSE
    <3>0. ops \in [Operators -> OperatorState]
      BY DEF TypeOK
    <3>1. CASE ops'[o].cmd = "list" /\ i \in ops'[o].todo
      BY <3>0, <3>1, ListStep DEF Settled, Holds, SelectPending
    <3>2. CASE ops'[o].cmd = "decide" /\ ops'[o].id = i
      <4>1. ops'[o] # ops[o]
        BY <3>2 DEF Settled, Holds
      <4>2. PICK p \in Operators : Command(p)
        BY <4>1 DEF Next, vars, Tick, Grant, RequestApproval, Resolve
      <4>3. \E j \in DOMAIN requests, d \in Decisions : ReadRequest(p, j, d)
        BY <3>0, <3>2, <4>1, <4>2
        DEF Command, WriteDecision, SelectPending, ExpireOne, EndList, Interrupt,
            Settled, Holds, Idle, OperatorState
      <4> QED BY <3>0, <3>2, <4>1, <4>3 DEF ReadRequest, Settled
    <3> QED BY <2>2, <3>1, <3>2 DEF Holds
  <2> QED BY <2>1, <2>2 DEF Settled
<1> QED BY <1>1, TypeCorrect, PTL DEF Spec, SettledStaysSettled

-----------------------------------------------------------------------------
(* Grants *)

\* A step leaves the grant rows alone, and may add one.
LEMMA GrantStep ==
    ASSUME TypeOK, [Next]_vars, NEW i \in DOMAIN grants
    PROVE  i \in DOMAIN grants' /\ grants'[i] = grants[i]
<1>1. grants' = grants \/ \E t \in GrantTerms, now \in 0..clock : Grant(t, now)
  BY DEF Next, vars, Tick, RequestApproval, Resolve, Command, ReadRequest,
         WriteDecision, SelectPending, ExpireOne, EndList, Interrupt
<1>2. ASSUME NEW t, NEW now, Grant(t, now)
      PROVE  i \in DOMAIN grants' /\ grants'[i] = grants[i]
  BY <1>2 DEF Grant, TypeOK
<1> QED BY <1>1, <1>2

\* A grant row is never renewed, widened or replaced, so a grant that has stopped
\* covering an ask never covers it again (grant_temporary_approval, check_approval).
THEOREM GrantsLapseForGood == Spec => LapsedGrantStaysLapsed
<1>1. TypeOK /\ [Next]_vars =>
        [\A i \in DOMAIN grants, a \in Asks :
            i \notin CheckApproval(a, clock) => i \notin CheckApproval(a, clock)']_vars
  <2> SUFFICES ASSUME TypeOK, [Next]_vars, NEW i \in DOMAIN grants, NEW a \in Asks,
                      i \in CheckApproval(a, clock)'
               PROVE  i \in CheckApproval(a, clock)
    OBVIOUS
  <2>0. grants \in Seq(GrantRecord) /\ grants[i] \in GrantRecord
    BY DEF TypeOK
  <2>1. grants'[i] = grants[i]
    BY GrantStep
  <2>2. grants[i].expires \in Int \cup {None}
    BY <2>0 DEF GrantRecord
  <2>3. GrantCovers(grants[i], a, clock')
    BY <2>1 DEF CheckApproval, GrantCovers
  <2>4. GrantCovers(grants[i], a, clock)
    BY <2>2, <2>3, ClockStep DEF GrantCovers, TypeOK
  <2> QED BY <2>4 DEF CheckApproval
<1> QED BY <1>1, TypeCorrect, PTL DEF Spec, LapsedGrantStaysLapsed

-----------------------------------------------------------------------------
(* The inductive invariant, first part: the shape of the state *)

Items == UNION {{t[i] : i \in DOMAIN t} : t \in Traces}

Results ==
    [item : Items, authorized : BOOLEAN, decision : {"allow", "require_approval", "deny"},
     differs : BOOLEAN, was : [clock : Nat, grants : Nat, approved : SUBSET Nat]]

Copying == {"idle", "grants", "approvals"}

\* The tables are filled in order, and nothing is replayed before they are.
Shaped ==
    /\ sandbox \in [grants : Seq(GrantRecord), requests : Seq(Request)]
    /\ replay \in [pc : Copying \cup {"events", "drift", "compliant", "raised"},
                   trace : Traces \cup {<<>>}, runtime : Runtimes, results : Seq(Results)]
    /\ Len(replay.results) <= Len(replay.trace)
    /\ replay.pc \in Copying => replay.results = <<>> /\ sandbox.requests = <<>>
    /\ replay.pc \in {"idle", "grants"} => sandbox.grants = <<>>
    /\ approved \in SUBSET (DOMAIN requests)

Typed == TypeOK /\ Shaped

-----------------------------------------------------------------------------
(* The live store *)

\* A step of the replay engine, or beside it, is a step of the live store or leaves it be.
LEMMA LiveSteps == [ReplayNext]_replayVars => [Next]_vars
  BY DEF ReplayNext, ReplayStep, LiveStep, replayVars, vars, Reject, Begin, CopyGrants,
         CopyApprovals, ParseFails, ExecuteFails, ReplayEvent, Finish

\* The live store of a replay is an approval store like any other: all that is proved of
\* approvals above goes for it, before, during and after the replay.
THEOREM LiveStoreIsStore == ReplaySpec => Spec
<1>1. ReplayInit => Init
  BY DEF ReplayInit
<1> QED BY <1>1, LiveSteps, PTL DEF ReplaySpec, Spec

\* What a step does to the live store: time passes, grants are added, requests are added or
\* change their status.
StoreStep ==
    /\ TypeOK'
    /\ clock \in Nat /\ clock' \in Nat /\ clock <= clock'
    /\ \A i \in DOMAIN grants : i \in DOMAIN grants' /\ grants'[i] = grants[i]
    /\ \A i \in DOMAIN requests : i \in DOMAIN requests' /\ SameAsk(requests'[i], requests[i])

\* Every step is one.
LEMMA StoreSteps == TypeOK /\ [ReplayNext]_replayVars => StoreStep
<1> SUFFICES ASSUME TypeOK, [ReplayNext]_replayVars PROVE StoreStep
  OBVIOUS
<1>1. [Next]_vars
  BY LiveSteps
<1>2. TypeOK' /\ clock \in Nat
  BY <1>1, NextTypeOK DEF TypeOK
<1>3. clock' \in Nat /\ clock <= clock'
  BY <1>1, ClockStep
<1>4. \A i \in DOMAIN grants : i \in DOMAIN grants' /\ grants'[i] = grants[i]
  BY <1>1, GrantStep
<1>5. \A i \in DOMAIN requests : i \in DOMAIN requests' /\ SameAsk(requests'[i], requests[i])
  BY <1>1, RequestStep
<1> QED BY <1>2, <1>3, <1>4, <1>5 DEF StoreStep

\* Copying rows one after the other, until an exception, leaves the first of them.
LEMMA FirstRows ==
    ASSUME NEW T, NEW s \in Seq(T), NEW n \in 0..Len(s)
    PROVE  /\ SubSeq(s, 1, n) \in Seq(T)
           /\ \A i \in DOMAIN SubSeq(s, 1, n) : i \in DOMAIN s /\ SubSeq(s, 1, n)[i] = s[i]
  OBVIOUS

-----------------------------------------------------------------------------
(* Type correctness *)

\* The record that comes next is one of the trace's.
LEMMA NextItem ==
    ASSUME Typed, Pending
    PROVE  /\ Current \in Items
           /\ ReplayAsk(Current) \in Asks
           /\ replay.pc = "events" /\ replay.trace \in Traces
<1>1. replay.trace \in Traces /\ replay.pc = "events"
  BY DEF Typed, Shaped, Pending
<1>2. replay.trace \in Seq({replay.trace[i] : i \in DOMAIN replay.trace})
  BY <1>1, TraceAssumption
<1>3. Len(replay.results) + 1 \in DOMAIN replay.trace
  BY <1>2 DEF Pending, Typed, Shaped
<1>4. Current \in {replay.trace[i] : i \in DOMAIN replay.trace}
  BY <1>3 DEF Current
<1>5. ReplayAsk(Current) \in Asks
  BY <1>1, <1>3, TraceAssumption DEF Current
<1> QED BY <1>1, <1>4, <1>5 DEF Items

\* What the sandbox queues is a well formed request, and pending.
LEMMA SandboxRowType ==
    ASSUME NEW a \in Asks, clock \in Nat
    PROVE  /\ Sandbox!RequestRow(a, DefaultTtl, clock) \in Request
           /\ Sandbox!RequestRow(a, DefaultTtl, clock).status = "pending"
  BY ReplayAssumption DEF Sandbox!RequestRow, Request, Statuses

\* A result says what was decided, and in what state of the live store.
LEMMA ResultType ==
    ASSUME Typed, NEW item \in Items
    PROVE  Result(item) \in Results
<1>1. /\ Decision(item) \in {"allow", "require_approval", "deny"}
      /\ (Permitted(item) \/ ~ Enforces) \in BOOLEAN
      /\ \A a \in BOOLEAN : Differs(item, a) \in BOOLEAN
  BY DEF Decision, Permitted, Enforces, Differs, Typed, Shaped
<1>2. clock \in Nat /\ Len(grants) \in Nat /\ approved \in SUBSET Nat
  BY DEF Typed, Shaped, TypeOK
<1> QED BY <1>1, <1>2 DEF Result, Results

\* What replaying one record does to the replay and to the sandbox.
LEMMA EventEffect ==
    ASSUME Typed, ReplayEvent
    PROVE  \E item \in Items, row \in Request :
            /\ Pending /\ item = Current /\ Result(item) \in Results
            /\ row.status = "pending"
            /\ replay' = [replay EXCEPT !.results = Append(replay.results, Result(item))]
            /\ \/ sandbox' = sandbox
               \/ sandbox' = [sandbox EXCEPT !.requests = Append(sandbox.requests, row)]
            /\ UNCHANGED <<vars, approved>>
<1> DEFINE item == Current
           row == Sandbox!RequestRow(ReplayAsk(item), DefaultTtl, clock)
<1>1. item \in Items /\ ReplayAsk(item) \in Asks
  BY NextItem DEF ReplayEvent
<1>2. row \in Request /\ row.status = "pending"
  BY <1>1, SandboxRowType DEF Typed, TypeOK
<1>3. Result(item) \in Results
  BY <1>1, ResultType
<1>4. replay' = [replay EXCEPT !.results = Append(replay.results, Result(item))]
  BY DEF ReplayEvent, Advance
<1>5. sandbox' = [sandbox EXCEPT !.requests =
            IF Queues(item) THEN Append(sandbox.requests, row) ELSE sandbox.requests]
  BY DEF ReplayEvent
<1>6. sandbox' = sandbox \/ sandbox' = [sandbox EXCEPT !.requests = Append(sandbox.requests, row)]
  BY <1>5 DEF Typed, Shaped
<1> QED BY <1>1, <1>2, <1>3, <1>4, <1>6 DEF ReplayEvent

\* The copies hold rows of the live tables of this moment, from the first one on.
LEMMA CopyEffect ==
    ASSUME Typed
    PROVE  /\ CopyGrants =>
                /\ sandbox' \in [grants : Seq(GrantRecord), requests : Seq(Request)]
                /\ sandbox'.requests = sandbox.requests
                /\ \A i \in DOMAIN sandbox'.grants :
                        i \in DOMAIN grants /\ sandbox'.grants[i] = grants[i]
                /\ replay.pc = "grants"
                /\ \E pc \in {"approvals", "events"} : replay' = [replay EXCEPT !.pc = pc]
                /\ UNCHANGED <<vars, approved>>
           /\ CopyApprovals =>
                /\ sandbox' \in [grants : Seq(GrantRecord), requests : Seq(Request)]
                /\ sandbox'.grants = sandbox.grants
                /\ \A i \in DOMAIN sandbox'.requests :
                        i \in DOMAIN requests /\ sandbox'.requests[i] = requests[i]
                /\ replay.pc = "approvals"
                /\ replay' = [replay EXCEPT !.pc = "events"]
                /\ UNCHANGED <<vars, approved>>
<1>0. /\ sandbox \in [grants : Seq(GrantRecord), requests : Seq(Request)]
      /\ grants \in Seq(GrantRecord) /\ requests \in Seq(Request)
  BY DEF Typed, Shaped, TypeOK
<1>1. ASSUME CopyGrants
      PROVE  \E rows \in Seq(GrantRecord), pc \in {"approvals", "events"} :
                /\ sandbox' = [sandbox EXCEPT !.grants = rows]
                /\ replay' = [replay EXCEPT !.pc = pc]
                /\ \A i \in DOMAIN rows : i \in DOMAIN grants /\ rows[i] = grants[i]
  <2>1. CASE sandbox' = [sandbox EXCEPT !.grants = grants]
             /\ replay' = [replay EXCEPT !.pc = "approvals"]
    BY <1>0, <2>1
  <2>2. ASSUME NEW n \in 0..Len(grants), replay' = [replay EXCEPT !.pc = "events"],
               sandbox' = [sandbox EXCEPT !.grants = SubSeq(grants, 1, n)]
        PROVE  \E rows \in Seq(GrantRecord), pc \in {"approvals", "events"} :
                /\ sandbox' = [sandbox EXCEPT !.grants = rows]
                /\ replay' = [replay EXCEPT !.pc = pc]
                /\ \A i \in DOMAIN rows : i \in DOMAIN grants /\ rows[i] = grants[i]
    <3>1. /\ SubSeq(grants, 1, n) \in Seq(GrantRecord)
          /\ \A i \in DOMAIN SubSeq(grants, 1, n) :
                i \in DOMAIN grants /\ SubSeq(grants, 1, n)[i] = grants[i]
      BY <1>0, FirstRows
    <3> QED BY <2>2, <3>1
  <2> QED BY <1>1, <2>1, <2>2 DEF CopyGrants
<1>2. ASSUME CopyApprovals
      PROVE  \E rows \in Seq(Request) :
                /\ sandbox' = [sandbox EXCEPT !.requests = rows]
                /\ \A i \in DOMAIN rows : i \in DOMAIN requests /\ rows[i] = requests[i]
  <2>1. PICK n \in 0..Len(requests) :
            sandbox' = [sandbox EXCEPT !.requests = SubSeq(requests, 1, n)]
    BY <1>2 DEF CopyApprovals
  <2>2. /\ SubSeq(requests, 1, n) \in Seq(Request)
        /\ \A i \in DOMAIN SubSeq(requests, 1, n) :
              i \in DOMAIN requests /\ SubSeq(requests, 1, n)[i] = requests[i]
    BY <1>0, FirstRows
  <2> QED BY <2>1, <2>2
<1>3. CopyGrants => replay.pc = "grants" /\ UNCHANGED <<vars, approved>>
  BY DEF CopyGrants
<1>4. CopyApprovals => /\ replay.pc = "approvals" /\ UNCHANGED <<vars, approved>>
                       /\ replay' = [replay EXCEPT !.pc = "events"]
  BY DEF CopyApprovals
<1> QED BY <1>0, <1>1, <1>2, <1>3, <1>4

\* Before the replay begins there is nothing to be wrong about.
LEMMA InitTyped == ReplayInit => Typed
<1> SUFFICES ASSUME ReplayInit PROVE Typed
  OBVIOUS
<1>2. TypeOK
  BY InitTypeOK DEF ReplayInit
<1>3. Shaped
  BY DEF ReplayInit, Shaped, Copying, Runtimes
<1> QED BY <1>2, <1>3 DEF Typed

\* Every step keeps the shape.
LEMMA NextTyped == Typed /\ [ReplayNext]_replayVars => Typed'
<1> SUFFICES ASSUME Typed, [ReplayNext]_replayVars PROVE Typed'
  OBVIOUS
<1>0. /\ sandbox \in [grants : Seq(GrantRecord), requests : Seq(Request)]
      /\ replay \in [pc : Copying \cup {"events", "drift", "compliant", "raised"},
                     trace : Traces \cup {<<>>}, runtime : Runtimes, results : Seq(Results)]
      /\ Len(replay.results) <= Len(replay.trace)
      /\ replay.pc \in Copying => replay.results = <<>> /\ sandbox.requests = <<>>
      /\ replay.pc \in {"idle", "grants"} => sandbox.grants = <<>>
      /\ approved \in SUBSET (DOMAIN requests)
      /\ StoreStep
  BY StoreSteps DEF Typed, Shaped
<1>1. CASE UNCHANGED <<requests, sandbox, replay, approved>>
  BY <1>0, <1>1 DEF Typed, Shaped, StoreStep
<1>2. CASE Reject \/ ParseFails \/ ExecuteFails \/ Finish
  <2>1. PICK pc \in {"raised", "drift", "compliant"} : replay' = [replay EXCEPT !.pc = pc]
    BY <1>2 DEF Reject, ParseFails, ExecuteFails, Finish
  <2>2. UNCHANGED <<vars, sandbox, approved>>
    BY <1>2 DEF Reject, ParseFails, ExecuteFails, Finish
  <2> QED BY <1>0, <2>1, <2>2 DEF Typed, Shaped, StoreStep, Copying, vars
<1>3. CASE Begin
  <2>1. PICK t \in Traces, r \in Runtimes :
            replay' = [replay EXCEPT !.pc = "grants", !.trace = t, !.runtime = r]
    BY <1>3 DEF Begin
  <2>2. t \in Seq({t[i] : i \in DOMAIN t})
    BY TraceAssumption
  <2>3. approved' = ApprovedNow /\ replay.pc = "idle" /\ UNCHANGED <<vars, sandbox>>
    BY <1>3 DEF Begin
  <2>4. replay.results = <<>> /\ Len(t) \in Nat
    BY <1>0, <2>2, <2>3 DEF Copying
  <2>5. /\ replay'.pc = "grants" /\ replay'.trace = t /\ replay'.results = <<>>
        /\ replay' \in [pc : Copying \cup {"events", "drift", "compliant", "raised"},
                     trace : Traces \cup {<<>>}, runtime : Runtimes, results : Seq(Results)]
    BY <1>0, <2>1, <2>4 DEF Copying
  <2>6. sandbox' = sandbox /\ sandbox.requests = <<>> /\ sandbox.grants = <<>>
    BY <1>0, <2>3 DEF Copying
  <2>7. requests' = requests /\ approved' \in SUBSET (DOMAIN requests)
    BY <2>3 DEF vars, ApprovedNow
  <2>8. Len(replay'.results) <= Len(replay'.trace)
    BY <2>4, <2>5
  <2>9. TypeOK'
    BY <1>0 DEF StoreStep
  <2> QED BY <1>0, <2>5, <2>6, <2>7, <2>8, <2>9 DEF Typed, Shaped
<1>4. CASE CopyGrants
  BY <1>0, <1>4, CopyEffect DEF Typed, Shaped, StoreStep, Copying, vars
<1>5. CASE CopyApprovals
  BY <1>0, <1>5, CopyEffect DEF Typed, Shaped, StoreStep, Copying, vars
<1>6. CASE ReplayEvent
  <2>1. PICK item \in Items, row \in Request :
            /\ Pending /\ Result(item) \in Results
            /\ replay' = [replay EXCEPT !.results = Append(replay.results, Result(item))]
            /\ \/ sandbox' = sandbox
               \/ sandbox' = [sandbox EXCEPT !.requests = Append(sandbox.requests, row)]
            /\ UNCHANGED <<vars, approved>>
    BY <1>6, EventEffect
  <2>2. /\ sandbox' \in [grants : Seq(GrantRecord), requests : Seq(Request)]
        /\ sandbox'.grants = sandbox.grants
    <3>1. Append(sandbox.requests, row) \in Seq(Request)
      BY <1>0
    <3> QED BY <1>0, <2>1, <3>1
  <2>3. /\ replay'.pc = "events" /\ replay'.trace = replay.trace
        /\ replay'.runtime = replay.runtime
        /\ replay'.results = Append(replay.results, Result(item))
    BY <1>0, <2>1 DEF Pending
  <2>4. replay'.results \in Seq(Results) /\ Len(replay'.results) = Len(replay.results) + 1
    BY <1>0, <2>1, <2>3
  <2>5. /\ replay' \in [pc : Copying \cup {"events", "drift", "compliant", "raised"},
                     trace : Traces \cup {<<>>}, runtime : Runtimes, results : Seq(Results)]
        /\ Len(replay.results) < Len(replay.trace)
    BY <1>0, <2>1, <2>3, <2>4 DEF Pending
  <2>6. /\ replay'.trace \in Traces /\ Len(replay'.results) <= Len(replay'.trace)
    <3>1. replay.trace \in Traces
      BY <2>1, NextItem
    <3>2. Len(replay.trace) \in Nat
      BY <3>1, TraceAssumption
    <3> QED BY <1>0, <2>3, <2>4, <2>5, <3>1, <3>2
  <2> QED BY <1>0, <2>1, <2>2, <2>3, <2>5, <2>6 DEF Typed, Shaped, StoreStep, Copying, vars
<1>7. CASE LiveStep
  <2>1. approved' \in SUBSET (DOMAIN requests')
    BY <1>0, <1>7 DEF LiveStep, StoreStep
  <2> QED BY <1>0, <1>7, <2>1 DEF LiveStep, Typed, Shaped, StoreStep
<1> QED BY <1>1, <1>2, <1>3, <1>4, <1>5, <1>6, <1>7 DEF ReplayNext, ReplayStep, replayVars, vars

\* The sandbox and the results are always well formed, whatever the live store does while
\* its tables are copied.
THEOREM ReplayTypeCorrect == ReplaySpec => []ReplayTypeOK
<1>1. Typed => ReplayTypeOK
  BY DEF Typed, Shaped, ReplayTypeOK, Copying
<1> QED BY <1>1, InitTyped, NextTyped, PTL DEF ReplaySpec

-----------------------------------------------------------------------------
(* Repeated records *)

\* A grant that covers an ask covered it all the time before.
LEMMA CoversBefore ==
    ASSUME NEW g \in GrantRecord, NEW ask, NEW now \in Nat, NEW then \in Nat, now <= then,
           Sandbox!GrantCovers(g, ask, then)
    PROVE  Sandbox!GrantCovers(g, ask, now)
<1>1. g.expires \in Int \cup {None}
  BY DEF GrantRecord
<1> QED BY <1>1, ReplayAssumption DEF Sandbox!GrantCovers

\* While records are replayed, time passes and the sandbox only gets pending requests: what
\* is not permitted is not permitted later.
LEMMA PermittedShrinks ==
    ASSUME Typed, [ReplayNext]_replayVars, replay.pc \notin Copying, NEW item \in Items, Permitted(item)'
    PROVE  Permitted(item)
<1>0. /\ sandbox \in [grants : Seq(GrantRecord), requests : Seq(Request)]
      /\ clock \in Nat /\ clock' \in Nat /\ clock <= clock'
  BY StoreSteps DEF Typed, Shaped, StoreStep
<1>1. /\ replay'.runtime = replay.runtime /\ sandbox'.grants = sandbox.grants
      /\ \/ sandbox'.requests = sandbox.requests
         \/ \E row \in Request : /\ row.status = "pending"
                                      /\ sandbox'.requests = Append(sandbox.requests, row)
  <2>1. CASE ReplayEvent
    <3>1. PICK it \in Items, row \in Request :
            /\ row.status = "pending"
            /\ replay' = [replay EXCEPT !.results = Append(replay.results, Result(it))]
            /\ \/ sandbox' = sandbox
               \/ sandbox' = [sandbox EXCEPT !.requests = Append(sandbox.requests, row)]
      BY <2>1, EventEffect
    <3> QED BY <1>0, <3>1 DEF Typed, Shaped
  <2>2. CASE ParseFails \/ ExecuteFails \/ Finish \/ LiveStep \/ UNCHANGED replayVars
    BY <2>2 DEF ParseFails, ExecuteFails, Finish, LiveStep, replayVars, Typed, Shaped
  <2>3. ~ (Reject \/ Begin \/ CopyGrants \/ CopyApprovals)
    BY DEF Reject, Begin, CopyGrants, CopyApprovals, Copying
  <2> QED BY <2>1, <2>2, <2>3 DEF ReplayNext, ReplayStep
<1>2. ASSUME NEW i \in Sandbox!CheckApproval(ReplayAsk(item), clock)'
      PROVE  i \in Sandbox!CheckApproval(ReplayAsk(item), clock)
  <2>1. /\ i \in DOMAIN sandbox.grants /\ sandbox.grants[i] \in GrantRecord
        /\ Sandbox!GrantCovers(sandbox.grants[i], ReplayAsk(item), clock')
    BY <1>0, <1>1, <1>2 DEF Sandbox!CheckApproval, Sandbox!GrantCovers
  <2> QED BY <1>0, <2>1, CoversBefore DEF Sandbox!CheckApproval
<1>3. ASSUME NEW i \in Sandbox!ApprovedRequests(ReplayAsk(item))'
      PROVE  i \in Sandbox!ApprovedRequests(ReplayAsk(item))
  <2>1. CASE sandbox'.requests = sandbox.requests
    BY <1>3, <2>1 DEF Sandbox!ApprovedRequests
  <2>2. ASSUME NEW row \in Request, row.status = "pending",
               sandbox'.requests = Append(sandbox.requests, row)
        PROVE  i \in Sandbox!ApprovedRequests(ReplayAsk(item))
    <3>1. /\ i \in DOMAIN sandbox'.requests /\ sandbox'.requests[i].status = "approved"
          /\ sandbox'.requests[i].actor = ReplayAsk(item).actor
          /\ sandbox'.requests[i].tool = ReplayAsk(item).tool
          /\ sandbox'.requests[i].key = ReplayAsk(item).key
      BY <1>3 DEF Sandbox!ApprovedRequests
    <3>2. i \in DOMAIN sandbox.requests /\ sandbox'.requests[i] = sandbox.requests[i]
      BY <1>0, <2>2, <3>1
    <3> QED BY <3>1, <3>2 DEF Sandbox!ApprovedRequests
  <2> QED BY <1>1, <2>1, <2>2
<1> QED BY <1>1, <1>2, <1>3 DEF Permitted, Approved, Verdict

\* Inductive invariant: what would be permitted now was authorized whenever it came.
PermittedWasAuthorized ==
    \A i \in DOMAIN replay.results, item \in Items :
        replay.results[i].item = item /\ (Permitted(item) \/ ~ Enforces)
            => replay.results[i].authorized

RepeatInv == Typed /\ PermittedWasAuthorized /\ RepeatsOnlyLose

\* Two records with the same event and the same ask are permitted at the same time.
LEMMA SameVerdict ==
    ASSUME NEW i \in Items, NEW j \in Items, i.event = j.event, ReplayAsk(i) = ReplayAsk(j)
    PROVE  Permitted(i) = Permitted(j)
  BY DEF Permitted, Approved

\* Every step keeps it.
LEMMA NextRepeatInv == RepeatInv /\ [ReplayNext]_replayVars => RepeatInv'
<1> SUFFICES ASSUME RepeatInv, [ReplayNext]_replayVars
             PROVE  PermittedWasAuthorized' /\ RepeatsOnlyLose'
  BY NextTyped DEF RepeatInv
<1>0. /\ Typed /\ Typed' /\ PermittedWasAuthorized /\ RepeatsOnlyLose
      /\ replay.results \in Seq(Results) /\ replay'.results \in Seq(Results)
      /\ replay.pc \in Copying => replay.results = <<>>
  BY NextTyped DEF RepeatInv, Typed, Shaped
<1>1. CASE replay'.results = <<>>
  BY <1>1 DEF PermittedWasAuthorized, RepeatsOnlyLose
<1>2. ASSUME replay.pc \notin Copying, replay'.runtime = replay.runtime,
             NEW i \in DOMAIN replay.results, replay'.results[i] = replay.results[i],
             NEW item \in Items, replay.results[i].item = item,
             Permitted(item)' \/ ~ Enforces'
      PROVE  replay'.results[i].authorized
  BY <1>0, <1>2, PermittedShrinks DEF PermittedWasAuthorized, Enforces
<1>3. CASE ReplayEvent
  <2>1. PICK it \in Items, row \in Request :
            /\ Pending /\ Result(it) \in Results
            /\ replay' = [replay EXCEPT !.results = Append(replay.results, Result(it))]
    BY <1>0, <1>3, EventEffect
  <2> DEFINE n == Len(replay.results) + 1
  <2>2. replay'.results = Append(replay.results, Result(it))
        /\ replay'.runtime = replay.runtime /\ replay.pc \notin Copying
    BY <1>0, <2>1 DEF Typed, Shaped, Pending, Copying
  <2>3. /\ replay'.results[n] = Result(it)
        /\ \A i \in DOMAIN replay'.results : i = n \/ i \in DOMAIN replay.results
        /\ \A i \in DOMAIN replay.results : i < n /\ replay'.results[i] = replay.results[i]
    BY <1>0, <2>1, <2>2
  <2>4. /\ Result(it).item = it
        /\ Result(it).authorized = (Permitted(it) \/ ~ Enforces)
    BY DEF Result
  <2>5. PermittedWasAuthorized'
    <3> SUFFICES ASSUME NEW i \in DOMAIN replay'.results, NEW item \in Items,
                        replay'.results[i].item = item, Permitted(item)' \/ ~ Enforces'
                 PROVE  replay'.results[i].authorized
      BY DEF PermittedWasAuthorized
    <3>1. CASE i = n
      <4>1. item = it
        BY <2>3, <2>4, <3>1
      <4>2. Permitted(it) \/ ~ Enforces
        BY <1>0, <2>2, <4>1, PermittedShrinks DEF Enforces
      <4> QED BY <2>3, <2>4, <3>1, <4>2
    <3>2. CASE i \in DOMAIN replay.results
      <4>1. replay'.results[i] = replay.results[i]
        BY <2>3, <3>2
      <4> QED BY <1>2, <2>2, <3>2, <4>1
    <3> QED BY <2>3, <3>1, <3>2
  <2>6. RepeatsOnlyLose'
    <3> SUFFICES ASSUME NEW i \in DOMAIN replay'.results, NEW j \in DOMAIN replay'.results,
                        i < j, replay'.results[i].item.event = replay'.results[j].item.event,
                        ReplayAsk(replay'.results[i].item) = ReplayAsk(replay'.results[j].item),
                        replay'.results[j].authorized
                 PROVE  replay'.results[i].authorized
      BY DEF RepeatsOnlyLose
    <3>1. CASE j = n
      <4>1. i \in DOMAIN replay.results /\ replay'.results[i] = replay.results[i]
        BY <2>3, <3>1
      <4> DEFINE item == replay.results[i].item
      <4>2. replay.results[i] \in Results
        BY <1>0, <4>1
      <4>3. item \in Items /\ item.event = it.event /\ ReplayAsk(item) = ReplayAsk(it)
        BY <2>3, <2>4, <3>1, <4>1, <4>2 DEF Results
      <4>4. Permitted(it) \/ ~ Enforces
        BY <2>3, <2>4, <3>1
      <4>5. Permitted(item) \/ ~ Enforces
        BY <4>3, <4>4, SameVerdict
      <4> QED BY <1>0, <4>1, <4>3, <4>5 DEF PermittedWasAuthorized
    <3>2. CASE j \in DOMAIN replay.results
      <4>1. i \in DOMAIN replay.results
        <5>1. i # n
          <6>1. i \in Nat /\ j \in Nat /\ n \in Nat /\ j < n
            BY <1>0, <2>3, <3>2
          <6> QED BY <6>1
        <5> QED BY <2>3, <5>1
      <4>2. replay'.results[i] = replay.results[i] /\ replay'.results[j] = replay.results[j]
        BY <2>3, <3>2, <4>1
      <4> QED BY <1>0, <3>2, <4>1, <4>2 DEF RepeatsOnlyLose
    <3> QED BY <2>3, <3>1, <3>2
  <2> QED BY <2>5, <2>6
<1>4. CASE replay'.results = replay.results /\ replay'.runtime = replay.runtime
           /\ replay.pc \notin Copying
  <2>1. PermittedWasAuthorized'
    <3> SUFFICES ASSUME NEW i \in DOMAIN replay.results, NEW item \in Items,
                        replay.results[i].item = item, Permitted(item)' \/ ~ Enforces'
                 PROVE  replay'.results[i].authorized
      BY <1>4 DEF PermittedWasAuthorized
    <3> QED BY <1>2, <1>4
  <2>2. RepeatsOnlyLose'
    BY <1>0, <1>4 DEF RepeatsOnlyLose
  <2> QED BY <2>1, <2>2
<1>5. CASE Reject \/ Begin \/ CopyGrants \/ CopyApprovals
  <2>1. replay.pc \in Copying
    BY <1>5 DEF Reject, Begin, CopyGrants, CopyApprovals, Copying
  <2>2. replay'.results = replay.results
    <3>1. CASE Reject \/ Begin
      BY <3>1 DEF Reject, Begin, Typed, Shaped, RepeatInv
    <3>2. CASE CopyGrants \/ CopyApprovals
      BY <1>0, <3>2, CopyEffect DEF Typed, Shaped
    <3> QED BY <1>5, <3>1, <3>2
  <2> QED BY <1>0, <1>1, <2>1, <2>2
<1>6. CASE ParseFails \/ ExecuteFails \/ Finish \/ LiveStep \/ UNCHANGED replayVars
  <2>1. replay'.results = replay.results /\ replay'.runtime = replay.runtime
    BY <1>0, <1>6 DEF ParseFails, ExecuteFails, Finish, LiveStep, replayVars, Typed, Shaped
  <2>2. CASE replay.pc \in Copying
    BY <1>0, <1>1, <2>1, <2>2
  <2> QED BY <1>4, <2>1, <2>2
<1> QED BY <1>3, <1>5, <1>6 DEF ReplayNext, ReplayStep

\* Replaying the same record again never authorizes what it refused before.
THEOREM RepeatsLose == ReplaySpec => []RepeatsOnlyLose
<1>1. ReplayInit => RepeatInv
  BY InitTyped DEF ReplayInit, RepeatInv, PermittedWasAuthorized, RepeatsOnlyLose
<1>2. RepeatInv => RepeatsOnlyLose
  BY DEF RepeatInv
<1> QED BY <1>1, <1>2, NextRepeatInv, PTL DEF ReplaySpec

-----------------------------------------------------------------------------
(* What a replay may authorize *)

\* What is approved in the live store was approved since the replay began or when it did;
\* the copied rows are rows of the live tables, an approved one among those.
CopyIsPast ==
    /\ ApprovedNow \subseteq approved
    /\ \A i \in DOMAIN sandbox.grants : i \in DOMAIN grants /\ grants[i] = sandbox.grants[i]
    /\ \A i \in DOMAIN sandbox.requests : sandbox.requests[i].status = "approved" =>
            i \in approved /\ SameAsk(requests[i], sandbox.requests[i])

\* A reason for which a runtime of the live store could have authorized the record.
Cause(res) ==
    \/ Verdict(res.item.event) \in {"allow", "warn"}
    \/ /\ Verdict(res.item.event) # "deny"
       /\ \/ \E g \in 1..res.was.grants :
                GrantCovers(grants[g], ReplayAsk(res.item), res.was.clock)
          \/ \E r \in res.was.approved : SameAsk(requests[r], ReplayAsk(res.item))

\* What is authorized has a reason, which the live store still shows.
HasCause ==
    \A i \in DOMAIN replay.results, res \in Results : replay.results[i] = res =>
        /\ res.was.grants <= Len(grants) /\ res.was.approved \subseteq DOMAIN requests
        /\ Enforces /\ res.authorized => Cause(res)

CauseInv == Typed /\ CopyIsPast /\ HasCause

\* A step of the live store keeps what has been copied true of it.
LEMMA NextCopyIsPast == CauseInv /\ [ReplayNext]_replayVars => CopyIsPast'
<1> SUFFICES ASSUME CauseInv, [ReplayNext]_replayVars PROVE CopyIsPast'
  OBVIOUS
<1>0. /\ Typed /\ Typed' /\ CopyIsPast /\ StoreStep
      /\ sandbox \in [grants : Seq(GrantRecord), requests : Seq(Request)]
      /\ approved \subseteq DOMAIN requests
  BY NextTyped, StoreSteps DEF CauseInv, Typed, Shaped
<1>1. CASE UNCHANGED <<vars, sandbox, approved>>
  BY <1>0, <1>1 DEF CopyIsPast, ApprovedNow, vars
<1>2. CASE Begin
  <2>1. sandbox.grants = <<>> /\ sandbox.requests = <<>>
    BY <1>0, <1>2 DEF Begin, Typed, Shaped, Copying
  <2>2. UNCHANGED <<vars, sandbox>> /\ approved' = ApprovedNow
    BY <1>2 DEF Begin
  <2> QED BY <2>1, <2>2 DEF CopyIsPast, ApprovedNow, vars
<1>3. CASE CopyGrants
  <2>1. /\ sandbox'.requests = sandbox.requests
        /\ \A i \in DOMAIN sandbox'.grants :
                i \in DOMAIN grants /\ sandbox'.grants[i] = grants[i]
        /\ UNCHANGED <<vars, approved>>
    BY <1>0, <1>3, CopyEffect
  <2> QED BY <1>0, <2>1 DEF CopyIsPast, ApprovedNow, vars
<1>4. CASE CopyApprovals
  <2>1. /\ sandbox'.grants = sandbox.grants
        /\ \A i \in DOMAIN sandbox'.requests :
                i \in DOMAIN requests /\ sandbox'.requests[i] = requests[i]
        /\ UNCHANGED <<vars, approved>>
    BY <1>0, <1>4, CopyEffect
  <2> QED BY <1>0, <2>1 DEF CopyIsPast, ApprovedNow, vars, SameAsk
<1>5. CASE ReplayEvent
  <2>1. PICK item \in Items, row \in Request :
            /\ row.status = "pending"
            /\ \/ sandbox' = sandbox
               \/ sandbox' = [sandbox EXCEPT !.requests = Append(sandbox.requests, row)]
            /\ UNCHANGED <<vars, approved>>
    BY <1>0, <1>5, EventEffect
  <2>2. CASE sandbox' = sandbox
    BY <1>1, <2>1, <2>2
  <2>3. CASE sandbox' = [sandbox EXCEPT !.requests = Append(sandbox.requests, row)]
    <3>1. /\ sandbox'.grants = sandbox.grants
          /\ sandbox'.requests = Append(sandbox.requests, row)
      BY <1>0, <2>3
    <3>2. \A i \in DOMAIN sandbox'.requests : sandbox'.requests[i].status = "approved" =>
            i \in DOMAIN sandbox.requests /\ sandbox'.requests[i] = sandbox.requests[i]
      BY <1>0, <2>1, <3>1
    <3> QED BY <1>0, <2>1, <3>1, <3>2 DEF CopyIsPast, ApprovedNow, vars
  <2> QED BY <2>1, <2>2, <2>3
<1>6. CASE LiveStep
  <2>1. /\ approved' = approved \cup {i \in DOMAIN requests' : requests'[i].status = "approved"}
        /\ sandbox' = sandbox
    BY <1>6 DEF LiveStep
  <2>2. ApprovedNow' \subseteq approved'
    BY <2>1 DEF ApprovedNow
  <2>3. \A i \in DOMAIN sandbox.grants : i \in DOMAIN grants' /\ grants'[i] = sandbox.grants[i]
    BY <1>0 DEF CopyIsPast, StoreStep
  <2>4. \A i \in DOMAIN sandbox.requests : sandbox.requests[i].status = "approved" =>
            i \in approved' /\ SameAsk(requests'[i], sandbox.requests[i])
    BY <1>0, <2>1 DEF CopyIsPast, StoreStep, SameAsk
  <2> QED BY <2>1, <2>2, <2>3, <2>4 DEF CopyIsPast
<1> QED BY <1>1, <1>2, <1>3, <1>4, <1>5, <1>6
        DEF ReplayNext, ReplayStep, replayVars, Reject, ParseFails, ExecuteFails, Finish, vars

\* A reason, once there, stays.
LEMMA CauseStays ==
    ASSUME Typed, [ReplayNext]_replayVars, NEW res \in Results, Cause(res),
           replay'.runtime = replay.runtime,
           res.was.grants <= Len(grants), res.was.approved \subseteq DOMAIN requests
    PROVE  Cause(res)'
<1>1. /\ \A i \in DOMAIN grants : i \in DOMAIN grants' /\ grants'[i] = grants[i]
      /\ \A i \in DOMAIN requests : SameAsk(requests'[i], requests[i])
  BY StoreSteps DEF Typed, StoreStep
<1>2. 1..res.was.grants \subseteq DOMAIN grants
  BY DEF Typed, TypeOK, Results
<1>3. \A g \in 1..res.was.grants :
        GrantCovers(grants[g], ReplayAsk(res.item), res.was.clock) =>
            GrantCovers(grants'[g], ReplayAsk(res.item), res.was.clock)
  BY <1>1, <1>2
<1>4. \A r \in res.was.approved :
        SameAsk(requests[r], ReplayAsk(res.item)) => SameAsk(requests'[r], ReplayAsk(res.item))
  BY <1>1 DEF SameAsk
<1> QED BY <1>3, <1>4 DEF Cause, Verdict, GrantCovers

\* What the sandbox authorizes in enforce mode has a reason in the live store.
LEMMA ResultHasCause ==
    ASSUME Typed, CopyIsPast, NEW item \in Items, Enforces, Result(item).authorized
    PROVE  Cause(Result(item))
<1>0. /\ grants \in Seq(GrantRecord)
      /\ sandbox \in [grants : Seq(GrantRecord), requests : Seq(Request)]
  BY DEF Typed, TypeOK, Shaped
<1>1. Result(item).item = item /\ Result(item).was.clock = clock
      /\ Result(item).was.grants = Len(grants) /\ Result(item).was.approved = approved
  BY DEF Result
<1>2. Permitted(item)
  BY DEF Result
<1>3. CASE Verdict(item.event) \in {"allow", "warn"}
  BY <1>1, <1>3 DEF Cause
<1>4. ASSUME Verdict(item.event) # "deny",
             NEW g \in Sandbox!CheckApproval(ReplayAsk(item), clock)
      PROVE  Cause(Result(item))
  <2>1. /\ g \in DOMAIN grants /\ grants[g] = sandbox.grants[g]
        /\ Sandbox!GrantCovers(sandbox.grants[g], ReplayAsk(item), clock)
    BY <1>4 DEF CopyIsPast, Sandbox!CheckApproval
  <2>2. GrantCovers(grants[g], ReplayAsk(item), clock)
    BY <2>1 DEF Sandbox!GrantCovers, GrantCovers, Sandbox!Covers, Covers,
        Sandbox!MatchPart, MatchPart, Sandbox!Wildcard, Wildcard
  <2>3. g \in 1..Len(grants)
    BY <1>0, <2>1
  <2> QED BY <1>1, <1>4, <2>2, <2>3 DEF Cause
<1>5. ASSUME Verdict(item.event) # "deny",
             NEW r \in Sandbox!ApprovedRequests(ReplayAsk(item))
      PROVE  Cause(Result(item))
  <2>1. r \in approved /\ SameAsk(requests[r], ReplayAsk(item))
    BY <1>5 DEF CopyIsPast, Sandbox!ApprovedRequests, SameAsk
  <2> QED BY <1>1, <1>5, <2>1 DEF Cause
<1>6. NeedsApproval(Verdict(item.event), item.event) => Verdict(item.event) # "deny"
  BY DEF NeedsApproval
<1> QED BY <1>2, <1>3, <1>4, <1>5, <1>6 DEF Permitted, Approved

\* Every step keeps a reason for everything that is authorized.
LEMMA NextCauseInv == CauseInv /\ [ReplayNext]_replayVars => CauseInv'
<1> SUFFICES ASSUME CauseInv, [ReplayNext]_replayVars PROVE HasCause'
  BY NextTyped, NextCopyIsPast DEF CauseInv
<1>0. /\ Typed /\ Typed' /\ CopyIsPast /\ HasCause /\ StoreStep
      /\ replay.results \in Seq(Results) /\ replay'.results \in Seq(Results)
      /\ grants \in Seq(GrantRecord) /\ grants' \in Seq(GrantRecord)
      /\ approved \subseteq DOMAIN requests
      /\ replay.pc \in Copying => replay.results = <<>>
  BY NextTyped, StoreSteps DEF CauseInv, Typed, Shaped, TypeOK
<1>a. Len(grants) <= Len(grants') /\ DOMAIN requests \subseteq DOMAIN requests'
  <2>1. Len(grants) \in DOMAIN grants \/ Len(grants) = 0
    BY <1>0
  <2>2. Len(grants) \in DOMAIN grants' \/ Len(grants) = 0
    BY <1>0, <2>1 DEF StoreStep
  <2> QED BY <1>0, <2>2 DEF StoreStep
<1>1. CASE replay'.results = <<>>
  BY <1>1 DEF HasCause
<1>2. ASSUME replay'.runtime = replay.runtime, NEW i \in DOMAIN replay.results,
             NEW res \in Results, replay.results[i] = res
      PROVE  /\ res.was.grants <= Len(grants') /\ res.was.approved \subseteq DOMAIN requests'
             /\ Enforces' /\ res.authorized => Cause(res)'
  <2>1. /\ res.was.grants <= Len(grants) /\ res.was.approved \subseteq DOMAIN requests
        /\ Enforces /\ res.authorized => Cause(res)
    BY <1>0, <1>2 DEF HasCause
  <2>2. Enforces' => Enforces
    BY <1>2 DEF Enforces
  <2>3. res.was.grants \in Nat /\ Len(grants) \in Nat /\ Len(grants') \in Nat
    BY <1>0 DEF Results
  <2> QED BY <1>0, <1>2, <1>a, <2>1, <2>2, <2>3, CauseStays
<1>3. CASE replay'.results = replay.results /\ replay'.runtime = replay.runtime
  BY <1>2, <1>3 DEF HasCause
<1>4. CASE ReplayEvent
  <2>1. PICK item \in Items, row \in Request :
            /\ Result(item) \in Results
            /\ replay' = [replay EXCEPT !.results = Append(replay.results, Result(item))]
            /\ UNCHANGED <<vars, approved>>
    BY <1>0, <1>4, EventEffect
  <2> DEFINE n == Len(replay.results) + 1
  <2>2. replay'.results = Append(replay.results, Result(item))
        /\ replay'.runtime = replay.runtime
    BY <1>0, <2>1 DEF Typed, Shaped
  <2>3. /\ replay'.results[n] = Result(item)
        /\ \A i \in DOMAIN replay'.results : i = n \/ i \in DOMAIN replay.results
        /\ \A i \in DOMAIN replay.results : replay'.results[i] = replay.results[i]
    BY <1>0, <2>1, <2>2
  <2> SUFFICES ASSUME NEW i \in DOMAIN replay'.results, NEW res \in Results,
                      replay'.results[i] = res
               PROVE  /\ res.was.grants <= Len(grants')
                      /\ res.was.approved \subseteq DOMAIN requests'
                      /\ Enforces' /\ res.authorized => Cause(res)'
    BY DEF HasCause
  <2>4. CASE i \in DOMAIN replay.results
    BY <1>2, <2>2, <2>3, <2>4
  <2>5. CASE i = n
    <3>1. res = Result(item)
      BY <2>3, <2>5
    <3>2. res.was.grants = Len(grants) /\ res.was.approved = approved
      BY <3>1 DEF Result
    <3>3. res.was.grants <= Len(grants) /\ res.was.approved \subseteq DOMAIN requests
      BY <1>0, <3>2
    <3>4. Enforces' /\ res.authorized => Cause(res)
      BY <1>0, <2>2, <3>1, ResultHasCause DEF Enforces
    <3>5. Enforces' /\ res.authorized => Cause(res)'
      BY <1>0, <2>2, <3>3, <3>4, CauseStays
    <3> QED BY <1>0, <1>a, <3>2, <3>3, <3>5
  <2> QED BY <2>3, <2>4, <2>5
<1>5. CASE Reject \/ Begin \/ CopyGrants \/ CopyApprovals
  <2>1. replay.pc \in Copying
    BY <1>5 DEF Reject, Begin, CopyGrants, CopyApprovals, Copying
  <2>2. replay'.results = replay.results
    <3>1. CASE Reject \/ Begin
      BY <1>0, <3>1 DEF Reject, Begin, Typed, Shaped
    <3>2. CASE CopyGrants \/ CopyApprovals
      BY <1>0, <3>2, CopyEffect DEF Typed, Shaped
    <3> QED BY <1>5, <3>1, <3>2
  <2> QED BY <1>0, <1>1, <2>1, <2>2
<1>6. CASE ParseFails \/ ExecuteFails \/ Finish \/ LiveStep \/ UNCHANGED replayVars
  <2>1. replay'.results = replay.results /\ replay'.runtime = replay.runtime
    BY <1>0, <1>6 DEF ParseFails, ExecuteFails, Finish, LiveStep, replayVars, Typed, Shaped
  <2> QED BY <1>3, <2>1
<1> QED BY <1>4, <1>5, <1>6 DEF ReplayNext, ReplayStep

\* A replay authorizes nothing that the live store, as it was at some time since the
\* replay began, gave no reason to authorize under the replayed policy.
THEOREM NothingNew == ReplaySpec => []AuthorizesNothingNew
<1>1. ReplayInit => CauseInv
  BY InitTyped DEF ReplayInit, CauseInv, CopyIsPast, HasCause, ApprovedNow, Init
<1>2. CauseInv => AuthorizesNothingNew
  <2> SUFFICES ASSUME CauseInv, Enforces, NEW i \in DOMAIN replay.results,
                      replay.results[i].authorized
               PROVE  Cause(replay.results[i])
    BY DEF AuthorizesNothingNew, Cause, SameAsk
  <2>1. replay.results[i] \in Results
    BY DEF CauseInv, Typed, Shaped
  <2> QED BY <2>1 DEF CauseInv, HasCause
<1> QED BY <1>1, <1>2, NextCauseInv, PTL DEF ReplaySpec

=============================================================================
