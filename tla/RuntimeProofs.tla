---------------------------- MODULE RuntimeProofs ----------------------------
(***************************************************************************)
(* Proofs about ActionRuntime.execute and the adapters' gate, for any      *)
(* number of calls, events, grants, requests and operators' decisions, in  *)
(* enforce and in observe mode.                                            *)
(***************************************************************************)
EXTENDS Runtime, TLAPS

-----------------------------------------------------------------------------
(* The inductive invariant, first part: what a call holds at each point *)

Deciding == {"evaluate", "grants", "requests", "enqueue"}
Decided == {"audit", "insert", "deliver", "invoked", "blocked"}

\* A call that is under way has its event, and one that is decided has its verdict and
\* the reason for it.
HoldsItsOwn ==
    \A c \in Calls :
        /\ call[c].pc \in Deciding \cup Decided => call[c].event \in Events
        /\ call[c].pc \in Decided => call[c].verdict \in Verdicts /\ call[c].reason \in Answers
        /\ call[c].pc \in {"idle"} \cup Deciding => call[c].reason = None

Typed == TypeOK /\ HoldsItsOwn

-----------------------------------------------------------------------------
(* Rows *)

\* The reason a verdict is given is never mistaken for none.
LEMMA AnswerIsSome == \A r \in Answers : r # None
  BY RuntimeAssumption

\* Settling changes one call's place, verdict and reason.
LEMMA SettleEffect ==
    ASSUME call \in [Calls -> CallState], NEW c \in Calls,
           NEW authorized \in BOOLEAN, NEW decision \in {"allow", "deny", "require_approval"},
           NEW why \in Reasons, NEW id \in Nat \cup {None},
           Settle(c, authorized, decision, why, id)
    PROVE  /\ call' \in [Calls -> CallState]
           /\ call'[c].pc = "audit"
           /\ call'[c].event = call[c].event
           /\ call'[c].verdict \in Verdicts
           /\ authorized => call'[c].verdict.authorized
           /\ ModeOf[c] = "observe" => call'[c].verdict.authorized
           /\ call'[c].verdict.authorized => authorized \/ ModeOf[c] = "observe"
           /\ call'[c].verdict.decision = decision
           /\ call'[c].reason = [why |-> why, id |-> id]
           /\ call'[c].reason \in Answers
           /\ \A d \in Calls \ {c} : call'[d] = call[d]
<1> DEFINE v == [authorized |-> authorized \/ ModeOf[c] = "observe",
                 decision |-> decision, approval |-> id # None]
           r == [why |-> why, id |-> id]
<1>1. v \in Verdicts /\ r \in Answers
  BY DEF Verdicts, Answers
<1>2. call[c] \in CallState
  OBVIOUS
<1>3. call' = [call EXCEPT ![c] = [call[c] EXCEPT !.pc = "audit", !.verdict = v, !.reason = r]]
  BY <1>2 DEF Settle, CallState
<1>4. [call[c] EXCEPT !.pc = "audit", !.verdict = v, !.reason = r] \in CallState
  BY <1>1, <1>2 DEF CallState
<1>5. call'[c] = [call[c] EXCEPT !.pc = "audit", !.verdict = v, !.reason = r]
  BY <1>3
<1>6. /\ call'[c].pc = "audit" /\ call'[c].event = call[c].event
      /\ call'[c].verdict = v /\ call'[c].reason = r
  BY <1>2, <1>5 DEF CallState
<1>7. call' \in [Calls -> CallState] /\ \A d \in Calls \ {c} : call'[d] = call[d]
  BY <1>3, <1>4
<1> QED BY <1>1, <1>6, <1>7 DEF Verdicts

\* A call that only moves on keeps what it holds.
LEMMA MoveEffect ==
    ASSUME call \in [Calls -> CallState], NEW c \in Calls,
           NEW pc \in {"grants", "requests", "enqueue", "insert", "deliver", "invoked", "blocked"},
           call' = [call EXCEPT ![c].pc = pc]
    PROVE  /\ call' \in [Calls -> CallState]
           /\ call'[c].pc = pc /\ call'[c].event = call[c].event
           /\ call'[c].verdict = call[c].verdict /\ call'[c].reason = call[c].reason
           /\ \A d \in Calls \ {c} : call'[d] = call[d]
<1>1. call[c] \in CallState
  OBVIOUS
<1>2. [call[c] EXCEPT !.pc = pc] \in CallState
  BY <1>1 DEF CallState, Finished
<1>3. call' = [call EXCEPT ![c] = [call[c] EXCEPT !.pc = pc]]
  OBVIOUS
<1>4. call'[c] = [call[c] EXCEPT !.pc = pc]
  BY <1>3
<1>5. /\ call'[c].pc = pc /\ call'[c].event = call[c].event
      /\ call'[c].verdict = call[c].verdict /\ call'[c].reason = call[c].reason
  BY <1>1, <1>4 DEF CallState
<1> QED BY <1>2, <1>3, <1>5

\* A call that is over keeps its reason only.
LEMMA GoneEffect ==
    ASSUME call \in [Calls -> CallState], NEW c \in Calls, NEW pc \in {"failed", "abandoned"},
           call' = [call EXCEPT ![c] = Gone(pc, call[c].reason)]
    PROVE  /\ call' \in [Calls -> CallState]
           /\ call'[c].pc = pc /\ call'[c].reason = call[c].reason
           /\ \A d \in Calls \ {c} : call'[d] = call[d]
<1>1. Gone(pc, call[c].reason) \in CallState
  BY DEF Gone, CallState, Finished
<1>2. call'[c] = Gone(pc, call[c].reason)
  OBVIOUS
<1> QED BY <1>1, <1>2 DEF Gone

\* A call that begins has its event and nothing else.
LEMMA BeginEffect ==
    ASSUME call \in [Calls -> CallState], NEW c \in Calls, NEW e \in Events,
           call' = [call EXCEPT ![c].pc = "evaluate", ![c].event = e]
    PROVE  /\ call' \in [Calls -> CallState]
           /\ call'[c].pc = "evaluate" /\ call'[c].event = e
           /\ call'[c].reason = call[c].reason
           /\ \A d \in Calls \ {c} : call'[d] = call[d]
<1>1. call[c] \in CallState
  OBVIOUS
<1>2. [call[c] EXCEPT !.pc = "evaluate", !.event = e] \in CallState
  BY <1>1 DEF CallState
<1>3. call' = [call EXCEPT ![c] = [call[c] EXCEPT !.pc = "evaluate", !.event = e]]
  BY <1>1 DEF CallState
<1>4. call'[c] = [call[c] EXCEPT !.pc = "evaluate", !.event = e]
  BY <1>3
<1>5. call'[c].pc = "evaluate" /\ call'[c].event = e /\ call'[c].reason = call[c].reason
  BY <1>1, <1>4 DEF CallState
<1> QED BY <1>2, <1>3, <1>5

-----------------------------------------------------------------------------
(* Type correctness *)

\* What a call asks for is one of the asks of the store.
LEMMA AskType == \A e \in Events : AskOf(e) \in Asks
  BY DEF Asks

\* A request's row is well formed.
LEMMA RequestRowType ==
    ASSUME NEW a \in Asks, NEW now \in Int
    PROVE  Store!RequestRow(a, DefaultTtl, now) \in Store!Request
  BY RuntimeAssumption DEF Store!RequestRow, Store!Request, Store!Statuses

\* A grant's row is well formed.
LEMMA GrantRowType ==
    ASSUME NEW t \in GrantTerms, NEW now \in Int
    PROVE  Store!GrantRow(t, now) \in Store!GrantRecord
  BY RuntimeAssumption DEF Store!GrantRow, Store!GrantRecord

\* An UPDATE of a row's status keeps the table well formed, and every other column.
LEMMA UpdateStatusType ==
    ASSUME requests \in Seq(Store!Request), NEW i \in DOMAIN requests,
           NEW s \in Store!Statuses, Store!UpdateStatus(i, s)
    PROVE  /\ requests' \in Seq(Store!Request)
           /\ DOMAIN requests' = DOMAIN requests
           /\ \A j \in DOMAIN requests :
                /\ requests'[j].actor = requests[j].actor
                /\ requests'[j].tool = requests[j].tool
                /\ requests'[j].key = requests[j].key
<1>1. requests[i] \in Store!Request /\ i \in 1..Len(requests) /\ DOMAIN requests = 1..Len(requests)
  OBVIOUS
<1>2. [requests[i] EXCEPT !.status = s] \in Store!Request
  BY <1>1 DEF Store!Request
<1>3. requests' = [requests EXCEPT ![i] = [requests[i] EXCEPT !.status = s]]
  BY DEF Store!UpdateStatus
<1>4. requests' \in Seq(Store!Request) /\ DOMAIN requests' = DOMAIN requests
  BY <1>1, <1>2, <1>3
<1>5. requests'[i] = [requests[i] EXCEPT !.status = s]
  BY <1>1, <1>3
<1>6. \A j \in DOMAIN requests \ {i} : requests'[j] = requests[j]
  BY <1>1, <1>3
<1>7. /\ requests'[i].actor = requests[i].actor
      /\ requests'[i].tool = requests[i].tool
      /\ requests'[i].key = requests[i].key
  BY <1>1, <1>5 DEF Store!Request
<1> QED BY <1>4, <1>6, <1>7

\* What a step does to the store: time passes, grants are added, requests are added or
\* change their status.
StoreStep ==
    /\ clock' \in Nat /\ clock <= clock'
    /\ grants' \in Seq(Store!GrantRecord)
    /\ Len(grants) <= Len(grants') /\ \A i \in DOMAIN grants : grants'[i] = grants[i]
    /\ requests' \in Seq(Store!Request)
    /\ Len(requests) <= Len(requests')
    /\ \A i \in DOMAIN requests :
            /\ requests'[i].actor = requests[i].actor
            /\ requests'[i].tool = requests[i].tool
            /\ requests'[i].key = requests[i].key

\* Every step of the store is one.
LEMMA StoreSteps == Typed /\ [Next]_vars => StoreStep
<1> SUFFICES ASSUME Typed, [Next]_vars PROVE StoreStep
  OBVIOUS
<1>0. /\ clock \in Nat /\ grants \in Seq(Store!GrantRecord) /\ requests \in Seq(Store!Request)
      /\ HoldsItsOwn
  BY DEF Typed, TypeOK, Store!TypeOK
<1>1. CASE UNCHANGED store
  BY <1>0, <1>1 DEF store, StoreStep
<1>2. CASE Store!Tick
  BY <1>0, <1>2 DEF Store!Tick, StoreStep
<1>3. ASSUME NEW t \in GrantTerms, NEW now \in 0..clock, Store!Grant(t, now)
      PROVE  StoreStep
  <2>1. /\ grants' = Append(grants, Store!GrantRow(t, now))
        /\ Store!GrantRow(t, now) \in Store!GrantRecord
    BY <1>0, <1>3, GrantRowType DEF Store!Grant
  <2> QED BY <1>0, <1>3, <2>1 DEF Store!Grant, StoreStep
<1>4. ASSUME NEW i \in DOMAIN requests, NEW s \in Store!Statuses, Store!UpdateStatus(i, s),
             UNCHANGED <<clock, grants>>
      PROVE  StoreStep
  <2>1. Len(requests') = Len(requests)
    BY <1>0, <1>4, UpdateStatusType
  <2> QED BY <1>0, <1>4, <2>1, UpdateStatusType DEF StoreStep
<1>5. ASSUME NEW c \in Calls, Enqueue(c) PROVE StoreStep
  <2>1. AskOf(call[c].event) \in Asks
    BY <1>0, <1>5, AskType DEF Enqueue, HoldsItsOwn, Deciding
  <2>a. PICK now \in writer[c].start..clock :
            Store!RequestApproval(AskOf(call[c].event), DefaultTtl, now)
    BY <1>5 DEF Enqueue
  <2> DEFINE row == Store!RequestRow(AskOf(call[c].event), DefaultTtl, now)
  <2>2. row \in Store!Request
    BY <1>0, <2>1, RequestRowType
  <2>3. requests' = Append(requests, row) /\ UNCHANGED <<clock, grants>>
    BY <2>a DEF Store!RequestApproval
  <2> QED BY <1>0, <2>2, <2>3 DEF StoreStep
<1>6. CASE Environment
  <2>1. ASSUME NEW i \in DOMAIN requests, Expire(i) PROVE StoreStep
    BY <1>4, <2>1 DEF Expire, Store!Statuses
  <2>2. ASSUME NEW i \in DOMAIN requests, NEW d \in Store!Decisions, Store!Resolve(i, d)
        PROVE  StoreStep
    BY <1>4, <2>2 DEF Store!Resolve, Store!Statuses
  <2> QED BY <1>2, <1>3, <1>6, <2>1, <2>2 DEF Environment
<1>7. ASSUME NEW c \in Calls,
             (\E e \in Carries[c] : Begin(c, e)) \/ Proceed(c) \/ Fail(c) \/ Abandon(c)
      PROVE  StoreStep
  BY <1>1, <1>5, <1>7
     DEF Proceed, Begin, Evaluate, LookupGrant, LookupRequest, ReadHead, Insert, Deliver,
         Fail, Abandon
<1>8. CASE UNCHANGED vars
  BY <1>1, <1>8 DEF vars, store
<1> QED BY <1>6, <1>7, <1>8 DEF Next, Step

\* The row of a call's event is well formed.
LEMMA EventRowType ==
    ASSUME NEW c \in Calls, NEW ts \in Nat, NEW prev \in Seq(Trail!Entries), NEW v \in Verdicts
    PROVE  Trail!EventRow(c, ts, prev, v) \in Trail!Row
<1>1. Trail!EntryHash(c, prev) \in Seq(Trail!Entries)
  BY DEF Trail!EntryHash, Trail!Entries
<1>2. Trail!Recorded(v) \in Trail!EventVerdicts
  BY DEF Trail!EventVerdicts
<1> QED BY <1>1, <1>2 DEF Trail!EventRow, Trail!Row, Trail!Entries

\* What record_event reads is a stored hash, or nothing.
LEMMA LastHashType ==
    ASSUME log \in Seq(Trail!Row)
    PROVE  Trail!LastHash(log) \in Seq(Trail!Entries)
<1>1. CASE log = <<>>
  BY <1>1 DEF Trail!LastHash, Trail!Genesis
<1>2. CASE log # <<>>
  <2>1. Len(log) \in DOMAIN log /\ log[Len(log)] \in Trail!Row
    BY <1>2
  <2> QED BY <1>2, <2>1 DEF Trail!LastHash, Trail!Row
<1> QED BY <1>1, <1>2

Writers ==
    [pc : {"idle", "started", "read", "done", "failed"}, start : Nat, head : Seq(Trail!Entries)]

\* The one logger is open throughout.
LEMMA LoggerType ==
    [l \in {AuditLogger} |-> [pc |-> "ready", todo |-> {}, prev |-> <<>>]]
        \in [{AuditLogger} -> [pc : {"off", "migrating", "ready"}, todo : SUBSET DOMAIN log,
                              prev : Seq(Trail!Entries)]]
<1>1. {} \in SUBSET DOMAIN log /\ <<>> \in Seq(Trail!Entries)
  OBVIOUS
<1> QED BY <1>1

\* Every step keeps the trail well formed, and a row of it is added by an Insert only.
LEMMA TrailSteps ==
    Typed /\ [Next]_vars =>
        /\ Trail!TypeOK'
        /\ UNCHANGED log \/ \E c \in Calls : Insert(c)
<1> SUFFICES ASSUME Typed, [Next]_vars
             PROVE  /\ Trail!TypeOK'
                    /\ UNCHANGED log \/ \E c \in Calls : Insert(c)
  OBVIOUS
<1>0. /\ clock \in Nat /\ clock' \in Nat /\ log \in Seq(Trail!Row)
      /\ writer \in [Calls -> Writers] /\ quiet \in BOOLEAN /\ HoldsItsOwn
  BY StoreSteps DEF Typed, TypeOK, Trail!TypeOK, StoreStep, Writers
<1>a. \A pc \in {"done", "failed"} : Trail!Closed(pc) \in Writers
  BY DEF Trail!Closed, Writers, Trail!Genesis
<1>b. ASSUME log' \in Seq(Trail!Row), writer' \in [Calls -> Writers], quiet' \in BOOLEAN
      PROVE  Trail!TypeOK'
  BY <1>0, <1>b, LoggerType DEF Trail!TypeOK, Writers
<1>1. CASE UNCHANGED trail
  BY <1>0, <1>1, <1>b DEF trail
<1>2. ASSUME NEW c \in Calls, NEW e \in Carries[c], Begin(c, e)
      PROVE  Trail!TypeOK' /\ UNCHANGED log
  <2>1. UNCHANGED log /\ quiet' \in BOOLEAN
    BY <1>0, <1>2 DEF Begin, Trail!Start
  <2>2. writer' = [writer EXCEPT ![c].pc = "started", ![c].start = clock]
    BY <1>2 DEF Begin, Trail!Start
  <2>3. writer' \in [Calls -> Writers]
    BY <1>0, <2>2 DEF Writers
  <2> QED BY <1>0, <1>b, <2>1, <2>3
<1>3. ASSUME NEW c \in Calls, ReadHead(c) PROVE Trail!TypeOK' /\ UNCHANGED log
  <2>1. UNCHANGED <<log, quiet>>
    BY <1>3 DEF ReadHead, Trail!ReadHead
  <2>2. writer' = [writer EXCEPT ![c].pc = "read", ![c].head = Trail!LastHash(log)]
    BY <1>3 DEF ReadHead, Trail!ReadHead
  <2>3. writer' \in [Calls -> Writers]
    BY <1>0, <2>2, LastHashType DEF Writers
  <2> QED BY <1>0, <1>b, <2>1, <2>3
<1>4. ASSUME NEW c \in Calls, Insert(c) PROVE Trail!TypeOK'
  <2>1. call[c].verdict \in Verdicts
    BY <1>0, <1>4 DEF Insert, HoldsItsOwn, Decided
  <2>2. writer[c].start \in Nat /\ writer[c].head \in Seq(Trail!Entries)
    BY <1>0 DEF Writers
  <2> DEFINE row == Trail!EventRow(c, writer[c].start, writer[c].head, call[c].verdict)
  <2>3. log' = Append(log, row) /\ UNCHANGED quiet
    BY <1>4 DEF Insert, Trail!Insert
  <2>4. row \in Trail!Row
    BY <2>1, <2>2, EventRowType
  <2>5. writer' = [writer EXCEPT ![c] = Trail!Closed("done")]
    BY <1>4 DEF Insert, Trail!Insert
  <2>6. log' \in Seq(Trail!Row)
    BY <1>0, <2>3, <2>4
  <2>7. writer' \in [Calls -> Writers]
    BY <1>0, <1>a, <2>5
  <2> QED BY <1>0, <1>b, <2>3, <2>6, <2>7
<1>5. ASSUME NEW c \in Calls, Fail(c) PROVE Trail!TypeOK' /\ UNCHANGED log
  <2>1. UNCHANGED <<log, quiet>> /\ writer' = [writer EXCEPT ![c] = Trail!Closed("failed")]
    BY <1>5 DEF Fail, Trail!Fail
  <2>2. writer' \in [Calls -> Writers]
    BY <1>0, <1>a, <2>1
  <2> QED BY <1>0, <1>b, <2>1, <2>2
<1>6. ASSUME NEW c \in Calls, Proceed(c) PROVE UNCHANGED trail \/ ReadHead(c) \/ Insert(c)
  BY <1>6 DEF Proceed, Evaluate, LookupGrant, LookupRequest, Enqueue, Deliver
<1>7. UNCHANGED trail => UNCHANGED log
  BY DEF trail
<1>8. CASE Environment
  BY <1>1, <1>7, <1>8 DEF Environment
<1>9. ASSUME NEW c \in Calls,
             (\E e \in Carries[c] : Begin(c, e)) \/ Proceed(c) \/ Fail(c) \/ Abandon(c)
      PROVE  Trail!TypeOK' /\ (UNCHANGED log \/ Insert(c))
  <2>1. CASE Abandon(c)
    BY <1>1, <1>7, <2>1 DEF Abandon
  <2> QED BY <1>1, <1>2, <1>3, <1>4, <1>5, <1>6, <1>7, <1>9, <2>1
<1>10. CASE UNCHANGED vars
  BY <1>1, <1>7, <1>10 DEF vars, trail
<1> QED BY <1>8, <1>9, <1>10 DEF Next, Step

-----------------------------------------------------------------------------
(* What a step does to a call *)

\* It comes nearer to its verdict ...
Advances(c) ==
    /\ call[c].pc \in {"idle"} \cup Deciding
    /\ call'[c].pc \in Deciding
    /\ call'[c].event \in Events /\ call'[c].reason = None
    /\ UNCHANGED log

\* ... reaches it, with a reason that tells whether something permitted the call ...
Settles(c) ==
    /\ call[c].pc \in Deciding
    /\ call'[c].pc = "audit" /\ call'[c].event = call[c].event
    /\ call'[c].verdict \in Verdicts /\ call'[c].reason \in Answers
    /\ call'[c].verdict.decision = "allow" <=> call'[c].reason.why \in Permits
    /\ call'[c].verdict.authorized <=>
            call'[c].reason.why \in Permits \/ ModeOf[c] = "observe"
    /\ UNCHANGED log

Keeps(c) ==
    /\ call'[c].event = call[c].event
    /\ call'[c].verdict = call[c].verdict /\ call'[c].reason = call[c].reason

\* ... reads the trail's last hash, inserts its row ...
Reads(c) == call[c].pc = "audit" /\ call'[c].pc = "insert" /\ Keeps(c) /\ UNCHANGED log

Inserts(c) ==
    /\ call[c].pc = "insert" /\ call'[c].pc = "deliver" /\ Keeps(c)
    /\ log' = Append(log, Trail!EventRow(c, writer[c].start, writer[c].head, call[c].verdict))

\* ... is delivered, or ends without a verdict.
Delivers(c) ==
    /\ call[c].pc = "deliver" /\ Keeps(c)
    /\ call'[c].pc = IF call[c].verdict.authorized THEN "invoked" ELSE "blocked"
    /\ UNCHANGED log

Ends(c) ==
    /\ \/ Running(c) /\ call'[c].pc = "failed"
       \/ call[c].pc = "deliver" /\ call'[c].pc = "abandoned"
    /\ call'[c].reason = call[c].reason
    /\ UNCHANGED log

CallStep(c) ==
    /\ \A d \in Calls \ {c} : call'[d] = call[d]
    /\ Advances(c) \/ Settles(c) \/ Reads(c) \/ Inserts(c) \/ Delivers(c) \/ Ends(c)

\* Every branch of execute is one of these.
LEMMA CallSteps ==
    Typed /\ [Next]_vars =>
        /\ call' \in [Calls -> CallState]
        /\ UNCHANGED <<call, log>> \/ \E c \in Calls : CallStep(c)
<1> SUFFICES ASSUME Typed, [Next]_vars
             PROVE  /\ call' \in [Calls -> CallState]
                    /\ UNCHANGED <<call, log>> \/ \E c \in Calls : CallStep(c)
  OBVIOUS
<1> DEFINE Goal == /\ call' \in [Calls -> CallState]
                   /\ UNCHANGED <<call, log>> \/ \E c \in Calls : CallStep(c)
<1>0. /\ call \in [Calls -> CallState] /\ HoldsItsOwn
      /\ requests \in Seq(Store!Request) /\ grants \in Seq(Store!GrantRecord)
  BY DEF Typed, TypeOK, Store!TypeOK
<1>a. UNCHANGED trail => UNCHANGED log
  BY DEF trail
<1>1. ASSUME NEW c \in Calls, NEW e \in Carries[c], Begin(c, e) PROVE Goal
  <2>1. e \in Events
    BY RuntimeAssumption
  <2>2. call[c].pc = "idle" /\ call[c].reason = None /\ UNCHANGED log
    BY <1>0, <1>1 DEF Begin, Trail!Start, HoldsItsOwn
  <2>3. call' = [call EXCEPT ![c].pc = "evaluate", ![c].event = e]
    BY <1>1 DEF Begin
  <2>4. Advances(c)
    BY <1>0, <2>1, <2>2, <2>3, BeginEffect DEF Advances, Deciding
  <2> QED BY <1>0, <2>1, <2>3, <2>4, BeginEffect DEF CallStep
<1>2. ASSUME NEW c \in Calls, NEW authorized \in BOOLEAN,
             NEW decision \in {"allow", "deny", "require_approval"},
             NEW why \in Reasons, NEW id \in Nat \cup {None},
             Settle(c, authorized, decision, why, id), call[c].pc \in Deciding,
             decision = "allow" <=> why \in Permits, authorized <=> why \in Permits,
             UNCHANGED log
      PROVE  Goal
  <2>1. /\ call' \in [Calls -> CallState]
        /\ call'[c].pc = "audit" /\ call'[c].event = call[c].event
        /\ call'[c].verdict \in Verdicts /\ call'[c].reason \in Answers
        /\ call'[c].verdict.decision = decision
        /\ call'[c].reason = [why |-> why, id |-> id]
        /\ \A d \in Calls \ {c} : call'[d] = call[d]
    BY <1>0, <1>2, SettleEffect
  <2>2. call'[c].verdict.authorized <=> authorized \/ ModeOf[c] = "observe"
    <3> DEFINE v == [authorized |-> authorized \/ ModeOf[c] = "observe",
                     decision |-> decision, approval |-> id # None]
    <3>1. call[c] \in CallState /\ c \in DOMAIN call
      BY <1>0
    <3>2. call'[c].verdict = v
      BY <1>2, <3>1 DEF Settle, CallState
    <3>3. v.authorized <=> authorized \/ ModeOf[c] = "observe"
      OBVIOUS
    <3> QED BY <3>2, <3>3
  <2>3. call'[c].reason.why = why
    BY <2>1
  <2>4. /\ call'[c].verdict.decision = "allow" <=> call'[c].reason.why \in Permits
        /\ call'[c].verdict.authorized <=>
                call'[c].reason.why \in Permits \/ ModeOf[c] = "observe"
    <3>1. decision = "allow" <=> why \in Permits
      BY <1>2
    <3>2. authorized <=> why \in Permits
      BY <1>2
    <3> QED BY <2>1, <2>2, <2>3, <3>1, <3>2, Zenon
  <2>5. Settles(c)
    BY <1>2, <2>1, <2>4 DEF Settles
  <2> QED BY <2>1, <2>5 DEF CallStep
<1>3. ASSUME NEW c \in Calls, NEW pc \in {"grants", "requests", "enqueue"},
             call' = [call EXCEPT ![c].pc = pc], call[c].pc \in Deciding, UNCHANGED log
      PROVE  Goal
  <2>1. Advances(c)
    BY <1>0, <1>3, MoveEffect DEF Advances, Deciding, HoldsItsOwn
  <2> QED BY <1>0, <1>3, <2>1, MoveEffect DEF CallStep
<1>b. /\ {"evaluate", "grants", "requests", "enqueue"} = Deciding
      /\ {"policy_allow", "policy_warn", "approved_grant", "previously_approved"} = Permits
  BY DEF Deciding, Permits
<1>4. ASSUME NEW c \in Calls, Evaluate(c) PROVE Goal
  <2>1. call[c].pc \in Deciding /\ UNCHANGED log
    BY <1>4, <1>a, <1>b DEF Evaluate
  <2>2. CASE Settle(c, TRUE, "allow", "policy_allow", None)
    BY <1>2, <2>1, <2>2 DEF Reasons, Permits
  <2>3. CASE Settle(c, TRUE, "allow", "policy_warn", None)
    BY <1>2, <2>1, <2>3 DEF Reasons, Permits
  <2>4. CASE Settle(c, FALSE, "deny", "policy_deny", None)
    BY <1>2, <2>1, <2>4 DEF Reasons, Permits
  <2>5. CASE Settle(c, FALSE, "deny", "policy_default_deny", None)
    BY <1>2, <2>1, <2>5 DEF Reasons, Permits
  <2>6. CASE call' = [call EXCEPT ![c].pc = "grants"]
    BY <1>3, <2>1, <2>6
  <2> QED BY <1>4, <2>2, <2>3, <2>4, <2>5, <2>6 DEF Evaluate
<1>5. ASSUME NEW c \in Calls, LookupGrant(c) PROVE Goal
  <2>1. call[c].pc \in Deciding /\ UNCHANGED log
    BY <1>5, <1>a, <1>b DEF LookupGrant
  <2>2. PICK now \in writer[c].start..clock :
            LET found == Store!CheckApproval(AskOf(call[c].event), now)
            IN  \/ \E i \in found : Settle(c, TRUE, "allow", "approved_grant", i)
                \/ found = {} /\ call' = [call EXCEPT ![c].pc = "requests"]
    BY <1>5 DEF LookupGrant
  <2>3. Store!CheckApproval(AskOf(call[c].event), now) \subseteq Nat
    BY <1>0 DEF Store!CheckApproval
  <2>4. ASSUME NEW i \in Nat, Settle(c, TRUE, "allow", "approved_grant", i) PROVE Goal
    BY <1>2, <2>1, <2>4 DEF Reasons, Permits
  <2>5. CASE call' = [call EXCEPT ![c].pc = "requests"]
    BY <1>3, <2>1, <2>5
  <2> QED BY <2>2, <2>3, <2>4, <2>5
<1>6. ASSUME NEW c \in Calls, LookupRequest(c) PROVE Goal
  <2>1. call[c].pc \in Deciding /\ UNCHANGED log
    BY <1>6, <1>a, <1>b DEF LookupRequest
  <2>2. CASE Settle(c, TRUE, "allow", "previously_approved", None)
    BY <1>2, <2>1, <2>2 DEF Reasons, Permits
  <2>3. CASE call' = [call EXCEPT ![c].pc = "enqueue"]
    BY <1>3, <2>1, <2>3
  <2> QED BY <1>6, <2>2, <2>3 DEF LookupRequest
<1>7. ASSUME NEW c \in Calls, Enqueue(c) PROVE Goal
  <2>1. call[c].pc \in Deciding /\ UNCHANGED log
    BY <1>7, <1>a, <1>b DEF Enqueue
  <2>2. Settle(c, FALSE, "require_approval", "approval_required", Len(requests) + 1)
    BY <1>7 DEF Enqueue
  <2>3. Len(requests) + 1 \in Nat
    BY <1>0
  <2> QED BY <1>2, <2>1, <2>2, <2>3 DEF Reasons, Permits
<1>8. ASSUME NEW c \in Calls, ReadHead(c) PROVE Goal
  <2>1. Reads(c)
    BY <1>0, <1>8, MoveEffect DEF ReadHead, Trail!ReadHead, Reads, Keeps
  <2> QED BY <1>0, <1>8, <2>1, MoveEffect DEF ReadHead, CallStep
<1>9. ASSUME NEW c \in Calls, Insert(c) PROVE Goal
  <2>1. Inserts(c)
    BY <1>0, <1>9, MoveEffect DEF Insert, Trail!Insert, Inserts, Keeps
  <2> QED BY <1>0, <1>9, <2>1, MoveEffect DEF Insert, CallStep
<1>10. ASSUME NEW c \in Calls, Deliver(c) PROVE Goal
  <2> DEFINE pc == IF call[c].verdict.authorized THEN "invoked" ELSE "blocked"
  <2>1. call' = [call EXCEPT ![c].pc = pc] /\ call[c].pc = "deliver" /\ UNCHANGED log
    BY <1>10, <1>a DEF Deliver
  <2>2. pc \in {"invoked", "blocked"}
    OBVIOUS
  <2> HIDE DEF pc
  <2>3. /\ call' \in [Calls -> CallState] /\ call'[c].pc = pc /\ Keeps(c)
        /\ \A d \in Calls \ {c} : call'[d] = call[d]
    BY <1>0, <2>1, <2>2, MoveEffect DEF Keeps
  <2>4. Delivers(c)
    BY <2>1, <2>3 DEF Delivers, pc
  <2> QED BY <2>3, <2>4 DEF CallStep
<1>11. ASSUME NEW c \in Calls, Fail(c) \/ Abandon(c) PROVE Goal
  <2>1. UNCHANGED log
    BY <1>11, <1>a DEF Fail, Abandon, Trail!Fail
  <2>2. PICK pc \in {"failed", "abandoned"} :
            /\ call' = [call EXCEPT ![c] = Gone(pc, call[c].reason)]
            /\ \/ pc = "failed" /\ Running(c)
               \/ pc = "abandoned" /\ call[c].pc = "deliver"
    <3>1. CASE Fail(c)
      BY <3>1 DEF Fail
    <3>2. CASE Abandon(c)
      BY <3>2 DEF Abandon
    <3> QED BY <1>11, <3>1, <3>2
  <2>3. Ends(c)
    BY <1>0, <2>1, <2>2, GoneEffect DEF Ends
  <2> QED BY <1>0, <2>2, <2>3, GoneEffect DEF CallStep
<1>12. CASE UNCHANGED <<trail, call>>
  BY <1>0, <1>a, <1>12
<1> QED
  BY <1>1, <1>4, <1>5, <1>6, <1>7, <1>8, <1>9, <1>10, <1>11, <1>12
     DEF Next, Step, Environment, Proceed, vars, trail

-----------------------------------------------------------------------------
(* Type correctness, concluded *)

\* Initially nothing is stored, recorded or under way.
LEMMA InitTyped == Init => Typed
<1> SUFFICES ASSUME Init PROVE Typed
  OBVIOUS
<1>1. Store!TypeOK
  BY DEF Init, Store!Init, Store!TypeOK
<1>2. /\ log = <<>> /\ clock = 0 /\ quiet = TRUE
      /\ writer = [c \in Calls |-> Trail!Closed("idle")]
  BY DEF Init, Store!Init, Trail!Init, Trail!InOrder
<1>3. Trail!Closed("idle") \in Writers
  BY DEF Trail!Closed, Writers, Trail!Genesis
<1>4. Trail!TypeOK
  BY <1>2, <1>3, LoggerType DEF Trail!TypeOK, Writers
<1>5. call = [c \in Calls |-> Gone("idle", None)] /\ Gone("idle", None) \in CallState
  BY DEF Init, Gone, CallState
<1>6. HoldsItsOwn
  BY <1>5 DEF HoldsItsOwn, Gone, Deciding, Decided
<1> QED BY <1>1, <1>4, <1>5, <1>6 DEF Init, Typed, TypeOK

\* A step leaves every call with what it should hold.
LEMMA NextHolds == Typed /\ [Next]_vars => HoldsItsOwn'
<1> SUFFICES ASSUME Typed, [Next]_vars, NEW d \in Calls
             PROVE  /\ call'[d].pc \in Deciding \cup Decided => call'[d].event \in Events
                    /\ call'[d].pc \in Decided =>
                         call'[d].verdict \in Verdicts /\ call'[d].reason \in Answers
                    /\ call'[d].pc \in {"idle"} \cup Deciding => call'[d].reason = None
  BY DEF HoldsItsOwn
<1>0. HoldsItsOwn
  BY DEF Typed
<1>1. CASE call'[d] = call[d]
  BY <1>0, <1>1 DEF HoldsItsOwn
<1>2. CASE CallStep(d)
  BY <1>0, <1>2
     DEF HoldsItsOwn, CallStep, Advances, Settles, Reads, Inserts, Delivers, Ends, Keeps,
         Running, Deciding, Decided
<1> QED BY <1>1, <1>2, CallSteps DEF CallStep

\* Every step keeps the whole state well formed.
LEMMA NextTyped == Typed /\ [Next]_vars => Typed'
<1> SUFFICES ASSUME Typed, [Next]_vars PROVE Typed'
  OBVIOUS
<1>1. StoreStep /\ Trail!TypeOK' /\ call' \in [Calls -> CallState] /\ HoldsItsOwn'
  BY StoreSteps, TrailSteps, CallSteps, NextHolds
<1>2. Store!TypeOK'
  BY <1>1 DEF StoreStep, Store!TypeOK
<1>3. DOMAIN requests \subseteq DOMAIN requests'
  BY <1>1 DEF StoreStep, Typed, TypeOK, Store!TypeOK
<1>4. approved' \subseteq DOMAIN requests'
  BY <1>3 DEF Typed, TypeOK, Next, Remember, vars
<1> QED BY <1>1, <1>2, <1>4 DEF Typed, TypeOK

\* The state of calls, store and trail is well formed (TypeOK of Runtime).
THEOREM TypeCorrect == Spec => []TypeOK
<1>1. Typed => TypeOK
  BY DEF Typed
<1> QED BY <1>1, InitTyped, NextTyped, PTL DEF Spec

\* So the state is well formed in every behaviour.
LEMMA AlwaysTyped == Spec => []Typed
  BY InitTyped, NextTyped, PTL DEF Spec

-----------------------------------------------------------------------------
(* The calls and the trail they write *)

\* The trail's step that each step of the runtime makes.
LEMMA StepsOfTrail == Typed /\ [Next]_vars => [Trail!Next]_Trail!vars
<1> SUFFICES ASSUME Typed, [Next]_vars PROVE [Trail!Next]_Trail!vars
  OBVIOUS
<1>0. HoldsItsOwn
  BY DEF Typed
<1>1. CASE UNCHANGED trail /\ UNCHANGED clock
  BY <1>1 DEF trail, Trail!vars
<1>2. CASE Environment
  <2>1. CASE Store!Tick
    <3>1. Trail!Tick
      BY <1>2, <2>1 DEF Environment, trail, Store!Tick, Trail!Tick
    <3> QED BY <3>1 DEF Trail!Next
  <2>2. CASE UNCHANGED clock
    BY <1>1, <1>2, <2>2 DEF Environment
  <2>3. Store!Tick \/ UNCHANGED clock
    BY <1>2 DEF Environment, Expire, Store!Grant, Store!Resolve
  <2> QED BY <2>1, <2>2, <2>3
<1>3. ASSUME NEW c \in Calls, NEW e \in Carries[c], Begin(c, e) PROVE Trail!Next
  <2>1. Trail!Start(c)
    BY <1>3 DEF Begin
  <2> QED BY <2>1 DEF Trail!Next, Trail!Record
<1>4. ASSUME NEW c \in Calls, Proceed(c)
      PROVE  Trail!Next \/ (UNCHANGED trail /\ UNCHANGED clock)
  <2>1. CASE ReadHead(c)
    <3>1. Trail!ReadHead(c)
      BY <2>1 DEF ReadHead
    <3> QED BY <3>1 DEF Trail!Next, Trail!Record
  <2>2. CASE Insert(c)
    <3>1. call[c].verdict \in Verdicts
      BY <1>0, <2>2 DEF Insert, HoldsItsOwn, Decided
    <3>2. Trail!Insert(c, call[c].verdict)
      BY <2>2 DEF Insert
    <3> QED BY <3>1, <3>2 DEF Trail!Next, Trail!Record
  <2>3. CASE Evaluate(c) \/ LookupGrant(c) \/ LookupRequest(c) \/ Deliver(c)
    BY <2>3 DEF Evaluate, LookupGrant, LookupRequest, Deliver, store
  <2>4. CASE Enqueue(c)
    BY <2>4 DEF Enqueue, Store!RequestApproval
  <2> QED BY <1>4, <2>1, <2>2, <2>3, <2>4 DEF Proceed
<1>5. ASSUME NEW c \in Calls, Fail(c) PROVE Trail!Next
  <2>1. Trail!Fail(c)
    BY <1>5 DEF Fail
  <2> QED BY <2>1 DEF Trail!Next, Trail!Record
<1>6. ASSUME NEW c \in Calls, Abandon(c) PROVE UNCHANGED trail /\ UNCHANGED clock
  BY <1>6 DEF Abandon, store
<1>7. CASE UNCHANGED vars
  BY <1>1, <1>7 DEF vars, trail
<1>8. CASE \E c \in Calls :
        (\E e \in Carries[c] : Begin(c, e)) \/ Proceed(c) \/ Fail(c) \/ Abandon(c)
  BY <1>1, <1>3, <1>4, <1>5, <1>6, <1>8
<1> QED BY <1>2, <1>7, <1>8 DEF Next, Step

\* execute uses the audit trail as AuditTrail says its callers do, whatever the verdicts
\* and however the calls interleave (record_event, called from execute).
THEOREM RuntimeKeepsTheTrail == Spec => Trail!Spec
<1>1. Init => Trail!Init
  BY DEF Init
<1> QED BY <1>1, StepsOfTrail, AlwaysTyped, PTL DEF Spec, Trail!Spec

\* So what AuditTrailProofs shows of any calls holds of the runtime's, which share one
\* open logger.  Facts is Trail again, with the theorems.
Facts == INSTANCE AuditTrailProofs WITH
    Loggers <- {AuditLogger}, Owner <- [c \in Calls |-> AuditLogger],
    Legacies <- {<<>>}, Unrounded <- {}, MaxCrashes <- 0, crashes <- 0,
    logger <- [l \in {AuditLogger} |-> [pc |-> "ready", todo |-> {}, prev |-> <<>>]]

\* The trail's assumptions on its constants hold of the runtime's.
LEMMA TrailAssumption == Facts!AuditTrailAssumption
  BY RuntimeAssumption DEF Facts!AuditTrailAssumption, Facts!LegacyEntries, NonAscii

\* A call does the same in both.
LEMMA SameRecord == ASSUME NEW c \in Calls, Trail!Record(c) PROVE Facts!Record(c)
<1>1. \A t, h, v : Facts!EventRow(c, t, h, v) = Trail!EventRow(c, t, h, v)
  BY DEF Facts!EventRow, Trail!EventRow, Facts!EntryHash, Trail!EntryHash,
         Facts!Recorded, Trail!Recorded
<1> QED BY <1>1
     DEF Trail!Record, Facts!Record, Trail!Start, Facts!Start, Trail!ReadHead, Facts!ReadHead,
         Trail!Insert, Facts!Insert, Trail!Fail, Facts!Fail, Trail!LastHash, Facts!LastHash,
         Trail!Closed, Facts!Closed, Trail!Active, Facts!Active, Trail!Genesis, Facts!Genesis

\* So does a logger.
LEMMA SameMigrate == ASSUME NEW l, Trail!Migrate(l) PROVE Facts!Migrate(l)
  BY DEF Trail!Migrate, Facts!Migrate, Trail!Open, Facts!Open, Trail!MigrateOne,
         Facts!MigrateOne, Trail!Unhashed, Facts!Unhashed, Trail!EntryHash, Facts!EntryHash,
         Trail!Genesis, Facts!Genesis

\* The two have the same behaviours.
LEMMA SameTrail == Trail!Spec => Facts!Spec
<1>1. Trail!Init => Facts!Init
  BY DEF Trail!Init, Facts!Init, Trail!Closed, Facts!Closed, Trail!Off, Facts!Off,
         Trail!Ready, Facts!Ready, Trail!Genesis, Facts!Genesis, Trail!LegacyRow,
         Facts!LegacyRow, Trail!LegacyVerdict, Facts!LegacyVerdict, Trail!InOrder,
         Facts!InOrder
<1>2. [Trail!Next]_Trail!vars => [Facts!Next]_Facts!vars
  <2> SUFFICES ASSUME Trail!Next PROVE Facts!Next
    BY DEF Trail!vars, Facts!vars
  <2>1. CASE Trail!Tick
    BY <2>1 DEF Trail!Tick, Facts!Tick, Facts!Next
  <2>2. CASE \E c \in Calls : Trail!Record(c)
    BY <2>2, SameRecord DEF Facts!Next
  <2>3. ASSUME NEW l \in {AuditLogger}, Trail!Migrate(l) PROVE Facts!Next
    BY <2>3, SameMigrate DEF Facts!Next
  <2>4. \A l \in {AuditLogger} : ~ Trail!Crash(l)
    BY DEF Trail!Crash
  <2> QED BY <2>1, <2>2, <2>3, <2>4 DEF Trail!Next
<1> QED BY <1>1, <1>2, PTL DEF Trail!Spec, Facts!Spec

\* However calls of execute interleave and fail, each row they leave starts a chain or
\* names an earlier row by its stored hash (LinksBackward of AuditTrail, of the
\* runtime's own trail).
THEOREM RuntimeTrailPointsBackward == Spec => []Trail!LinksBackward
<1>1. Facts!Spec => []Facts!LinksBackward
  BY TrailAssumption, Facts!ChainPointsBackward
<1>2. Facts!LinksBackward => Trail!LinksBackward
  BY DEF Facts!LinksBackward, Trail!LinksBackward, Facts!IsEvent, Trail!IsEvent,
         Facts!Genesis, Trail!Genesis
<1> QED BY <1>1, <1>2, SameTrail, RuntimeKeepsTheTrail, PTL

\* As long as no two calls of execute overlapped, what they leave verifies, whichever of
\* them failed on the way, if and only if none of the recorded calls needed a capability
\* beyond ASCII: one such row spoils the trail though nobody altered it (QuietTrailVerifies
\* of AuditTrail; the runtime's trail has no legacy rows).
THEOREM QuietCallsVerify ==
    Spec => [](quiet => (Trail!Verified(log) <=> \A i \in DOMAIN log : log[i].entry \notin NonAscii))
<1>1. Facts!Spec => []Facts!QuietInv
  <2>1. Facts!Init => Facts!QuietInv
    BY TrailAssumption, Facts!InitQuiet
  <2>2. Facts!QuietInv /\ [Facts!Next]_Facts!vars => Facts!QuietInv'
    BY TrailAssumption, Facts!NextQuiet
  <2> QED BY <2>1, <2>2, PTL DEF Facts!Spec
<1>2. Facts!Spec => []Facts!QuietTrailVerifies
  BY TrailAssumption, Facts!QuietTrailsVerify
<1>3. Facts!QuietInv => Facts!Unhashed = {}
  BY DEF Facts!QuietInv, Facts!Gated
<1>4. Facts!Reproducible <=> \A i \in DOMAIN log : log[i].entry \notin NonAscii
  BY DEF Facts!Reproducible
<1>5. Facts!Verified(log) <=> Trail!Verified(log)
  BY DEF Facts!Verified, Trail!Verified, Facts!HashVerifies, Trail!HashVerifies,
         Facts!Before, Trail!Before, Facts!EntryHash, Trail!EntryHash,
         Facts!Genesis, Trail!Genesis
<1>6. Facts!QuietInv /\ Facts!QuietTrailVerifies =>
        (quiet => (Trail!Verified(log) <=> \A i \in DOMAIN log : log[i].entry \notin NonAscii))
  BY <1>3, <1>4, <1>5 DEF Facts!QuietTrailVerifies
<1> QED BY <1>1, <1>2, <1>6, SameTrail, RuntimeKeepsTheTrail, PTL

-----------------------------------------------------------------------------
(* The inductive invariant, second part: what the trail says of a call *)

Recorded == {"deliver", "invoked", "blocked", "abandoned"}

Justified(c) == call[c].reason.why \in Permits \/ ModeOf[c] = "observe"

\* A call has one row from the insert on and none before; its verdict, and then its row,
\* say "allow" if something permitted it, and "authorized" if so or if the runtime only
\* observes.
Ledger ==
    \A c \in Calls :
        /\ call[c].pc \notin Recorded => RowsOf(c) = {}
        /\ call[c].pc \in Recorded => \E i \in DOMAIN log : RowsOf(c) = {i}
        /\ call[c].pc \in {"audit", "insert", "deliver"} =>
            /\ call[c].verdict.decision = "allow" <=> call[c].reason.why \in Permits
            /\ call[c].verdict.authorized <=> Justified(c)
        /\ \A i \in RowsOf(c) :
            /\ call[c].reason \in Answers
            /\ log[i].verdict.decision = "allow" <=> call[c].reason.why \in Permits
            /\ log[i].verdict.result = "authorized" <=> Justified(c)
        /\ call[c].pc = "invoked" => Justified(c)

\* An inserted row is its call's, the other calls' rows are what they were.
LEMMA InsertedRow ==
    ASSUME Typed, NEW c \in Calls, Inserts(c)
    PROVE  /\ RowsOf(c)' = RowsOf(c) \cup {Len(log) + 1}
           /\ DOMAIN log \subseteq DOMAIN log' /\ Len(log) + 1 \in DOMAIN log'
           /\ \A d \in Calls \ {c} : RowsOf(d)' = RowsOf(d)
           /\ \A i \in DOMAIN log : log'[i] = log[i]
           /\ log'[Len(log) + 1].verdict = Trail!Recorded(call[c].verdict)
           /\ log'[Len(log) + 1].ts = writer[c].start
<1> DEFINE row == Trail!EventRow(c, writer[c].start, writer[c].head, call[c].verdict)
<1>1. log \in Seq(Trail!Row) /\ log' = Append(log, row)
  BY DEF Typed, TypeOK, Trail!TypeOK, Inserts
<1>2. /\ row.entry = c /\ row.verdict = Trail!Recorded(call[c].verdict)
      /\ row.ts = writer[c].start
  BY DEF Trail!EventRow
<1> HIDE DEF row
<1>3. /\ DOMAIN log' = DOMAIN log \cup {Len(log) + 1} /\ DOMAIN log = 1..Len(log)
      /\ Len(log) \in Nat
      /\ \A i \in DOMAIN log : log'[i] = log[i]
      /\ log'[Len(log) + 1] = row
  BY <1>1
<1>4. RowsOf(c)' = RowsOf(c) \cup {Len(log) + 1}
  BY <1>2, <1>3 DEF RowsOf
<1>5. \A d \in Calls \ {c} : RowsOf(d)' = RowsOf(d)
  BY <1>2, <1>3 DEF RowsOf
<1> QED BY <1>2, <1>3, <1>4, <1>5

\* No row is a call's at first.
LEMMA InitLedger == Init => Ledger
<1> SUFFICES ASSUME Init PROVE Ledger
  OBVIOUS
<1>1. log = <<>>
  BY DEF Init, Trail!Init
<1>2. \A c \in Calls : RowsOf(c) = {}
  BY <1>1 DEF RowsOf
<1>3. \A c \in Calls : call[c].pc = "idle"
  BY DEF Init, Gone
<1> QED BY <1>2, <1>3 DEF Ledger, Recorded

\* A step keeps each call's books: only its own insert gives it a row, and from then on
\* it decides nothing.
LEMMA NextLedger == Typed /\ Ledger /\ [Next]_vars => Ledger'
<1> SUFFICES ASSUME Typed, Ledger, [Next]_vars, NEW d \in Calls
             PROVE  /\ call'[d].pc \notin Recorded => RowsOf(d)' = {}
                    /\ call'[d].pc \in Recorded => \E i \in DOMAIN log' : RowsOf(d)' = {i}
                    /\ call'[d].pc \in {"audit", "insert", "deliver"} =>
                        /\ call'[d].verdict.decision = "allow" <=>
                                call'[d].reason.why \in Permits
                        /\ call'[d].verdict.authorized <=> Justified(d)'
                    /\ \A i \in RowsOf(d)' :
                        /\ call'[d].reason \in Answers
                        /\ log'[i].verdict.decision = "allow" <=>
                                call'[d].reason.why \in Permits
                        /\ log'[i].verdict.result = "authorized" <=> Justified(d)'
                    /\ call'[d].pc = "invoked" => Justified(d)'
  BY DEF Ledger
<1>0. RowsOf(d) \subseteq DOMAIN log
  BY DEF RowsOf
<1>1. CASE UNCHANGED <<call, log>>
  BY <1>1 DEF Ledger, RowsOf, Justified
<1>2. ASSUME NEW c \in Calls, c # d, CallStep(c)
      PROVE  /\ call'[d] = call[d] /\ RowsOf(d)' = RowsOf(d) /\ DOMAIN log \subseteq DOMAIN log'
             /\ \A i \in RowsOf(d) : log'[i] = log[i]
  <2>1. call'[d] = call[d]
    BY <1>2 DEF CallStep
  <2>2. CASE UNCHANGED log
    BY <2>1, <2>2 DEF RowsOf
  <2>3. CASE Inserts(c)
    BY <1>0, <1>2, <2>1, <2>3, InsertedRow
  <2> QED BY <1>2, <2>2, <2>3 DEF CallStep, Advances, Settles, Reads, Delivers, Ends
<1>3. CASE \E c \in Calls \ {d} : CallStep(c)
  BY <1>2, <1>3 DEF Ledger, Justified
<1>4. CASE CallStep(d)
  <2>1. CASE Advances(d)
    BY <2>1 DEF Advances, Deciding, Ledger, RowsOf, Recorded
  <2>2. CASE Settles(d)
    BY <2>2 DEF Settles, Deciding, Ledger, RowsOf, Recorded, Justified
  <2>3. CASE Reads(d)
    BY <2>3 DEF Reads, Keeps, Ledger, RowsOf, Recorded, Justified
  <2>4. CASE Inserts(d)
    <3>1. call[d].verdict \in Verdicts /\ call[d].reason \in Answers
      BY <2>4 DEF Inserts, Typed, HoldsItsOwn, Decided
    <3>2. RowsOf(d)' = {Len(log) + 1} /\ Len(log) + 1 \in DOMAIN log'
      BY <2>4, InsertedRow DEF Inserts, Ledger, Recorded
    <3>3. log'[Len(log) + 1].verdict = Trail!Recorded(call[d].verdict)
      BY <2>4, InsertedRow
    <3>4. /\ Trail!Recorded(call[d].verdict).decision = call[d].verdict.decision
          /\ Trail!Recorded(call[d].verdict).result =
                IF call[d].verdict.authorized THEN "authorized" ELSE "blocked"
      BY DEF Trail!Recorded
    <3>5. /\ call[d].verdict.decision = "allow" <=> call[d].reason.why \in Permits
          /\ call[d].verdict.authorized <=> Justified(d)
      BY <2>4 DEF Inserts, Ledger
    <3>6. call'[d].pc = "deliver" /\ Keeps(d)
      BY <2>4 DEF Inserts
    <3>7. Justified(d)' <=> Justified(d)
      BY <3>6 DEF Justified, Keeps
    <3>8. Trail!Recorded(call[d].verdict).result = "authorized" <=> call[d].verdict.authorized
      BY <3>4
    <3> QED BY <3>1, <3>2, <3>3, <3>4, <3>5, <3>6, <3>7, <3>8 DEF Keeps, Recorded
  <2>5. CASE Delivers(d)
    BY <2>5 DEF Delivers, Keeps, Ledger, RowsOf, Recorded, Justified
  <2>6. CASE Ends(d)
    BY <2>6 DEF Ends, Running, Ledger, RowsOf, Recorded, Justified
  <2> QED BY <1>4, <2>1, <2>2, <2>3, <2>4, <2>5, <2>6 DEF CallStep
<1> QED BY <1>1, <1>3, <1>4, CallSteps

\* So the books are right in every behaviour.
LEMMA AlwaysLedger == Spec => [](Typed /\ Ledger)
  BY InitTyped, NextTyped, InitLedger, NextLedger, PTL DEF Spec

\* A tool runs only after its call's own authorization is in the trail, and no call is
\* recorded twice, for any number of calls, failures and other writers.
THEOREM InvokedWasAudited == Spec => []AuditedBeforeInvoked
<1>1. Typed /\ Ledger => AuditedBeforeInvoked
  <2> SUFFICES ASSUME Typed, Ledger, NEW c \in Calls
               PROVE  /\ \A i, j \in RowsOf(c) : i = j
                      /\ call[c].pc = "invoked" =>
                            \E i \in RowsOf(c) : log[i].verdict.result = "authorized"
    BY DEF AuditedBeforeInvoked
  <2>1. \A i, j \in RowsOf(c) : i = j
    BY DEF Ledger
  <2>2. ASSUME call[c].pc = "invoked"
        PROVE  \E i \in RowsOf(c) : log[i].verdict.result = "authorized"
    <3>1. PICK i \in DOMAIN log : RowsOf(c) = {i}
      BY <2>2 DEF Ledger, Recorded
    <3> QED BY <2>2, <3>1 DEF Ledger
  <2> QED BY <2>1, <2>2
<1> QED BY <1>1, AlwaysLedger, PTL

\* The trail's decision tells the calls that something permitted from the others, also
\* in observe mode.
THEOREM DecisionIsTrue == Spec => []TrueDecisionIsRecorded
<1>1. Typed /\ Ledger => TrueDecisionIsRecorded
  BY DEF Ledger, TrueDecisionIsRecorded, RowsOf
<1> QED BY <1>1, AlwaysLedger, PTL

-----------------------------------------------------------------------------
(* execute implements the gate's promise *)

Cleared(c) == call[c].reason # None /\ call[c].reason.why \in Permits

\* What the trail says of a call is what its one row says.
LEMMA RecordedOfRow ==
    ASSUME NEW c \in Calls
    PROVE  /\ RowsOf(c) = {} => recordedOf(c) = "none"
           /\ \A i \in DOMAIN log : RowsOf(c) = {i} => recordedOf(c) = log[i].verdict.result
  BY DEF recordedOf

\* A call whose step leaves the trail alone changes no call's record, and the others'
\* clearance and invocation are what they were.
LEMMA OthersKeep ==
    ASSUME Typed, Ledger, NEW c \in Calls, CallStep(c)
    PROVE  /\ \A d \in Calls \ {c} : /\ Cleared(d)' <=> Cleared(d)
                                     /\ call'[d].pc = call[d].pc
                                     /\ recordedOf(d)' = recordedOf(d)
           /\ UNCHANGED log => recordedOf(c)' = recordedOf(c)
<1>1. ASSUME NEW d \in Calls, RowsOf(d)' = RowsOf(d), \A i \in RowsOf(d) : log'[i] = log[i]
      PROVE  recordedOf(d)' = recordedOf(d)
  <2>1. CASE RowsOf(d) = {}
    BY <1>1, <2>1 DEF recordedOf
  <2>2. CASE \E i \in DOMAIN log : RowsOf(d) = {i}
    <3>1. PICK i \in DOMAIN log : RowsOf(d) = {i}
      BY <2>2
    <3>2. recordedOf(d) = log[i].verdict.result
      BY <3>1, RecordedOfRow
    <3>3. recordedOf(d)' = log'[i].verdict.result
      BY <1>1, <3>1 DEF recordedOf
    <3> QED BY <1>1, <3>1, <3>2, <3>3
  <2> QED BY <2>1, <2>2 DEF Ledger
<1>2. ASSUME NEW d \in Calls, UNCHANGED log PROVE recordedOf(d)' = recordedOf(d)
  BY <1>1, <1>2 DEF RowsOf
<1>3. ASSUME NEW d \in Calls \ {c}
      PROVE  /\ Cleared(d)' <=> Cleared(d)
             /\ call'[d].pc = call[d].pc
             /\ recordedOf(d)' = recordedOf(d)
  <2>1. call'[d] = call[d]
    BY DEF CallStep
  <2>2. RowsOf(d) \subseteq DOMAIN log
    BY DEF RowsOf
  <2>3. UNCHANGED log \/ Inserts(c)
    BY DEF CallStep, Advances, Settles, Reads, Delivers, Ends
  <2>4. ASSUME Inserts(c) PROVE recordedOf(d)' = recordedOf(d)
    <3>1. RowsOf(d)' = RowsOf(d) /\ \A i \in RowsOf(d) : log'[i] = log[i]
      BY <2>2, <2>4, InsertedRow
    <3> QED BY <1>1, <3>1
  <2> QED BY <1>2, <2>1, <2>3, <2>4 DEF Cleared
<1> QED BY <1>2, <1>3

\* Every step of a call is a step of the promise, or none.
LEMMA CallStepImplements ==
    ASSUME Typed, Ledger, Typed', Ledger', NEW c \in Calls, CallStep(c)
    PROVE  [Promise!Next]_Promise!vars
<1> DEFINE cleared == {d \in Calls : call[d].reason # None /\ call[d].reason.why \in Permits}
           recorded == [d \in Calls |-> recordedOf(d)]
           invoked == {d \in Calls : call[d].pc = "invoked"}
<1>1. /\ cleared = {d \in Calls : Cleared(d)} /\ cleared' = {d \in Calls : Cleared(d)'}
  BY DEF Cleared
<1>2. /\ \A d \in Calls \ {c} : (Cleared(d)' <=> Cleared(d)) /\ call'[d].pc = call[d].pc
      /\ UNCHANGED log => recorded' = recorded
  BY OthersKeep
<1>3. (Cleared(c)' <=> Cleared(c)) => cleared' = cleared
  BY <1>1, <1>2
<1>4. Cleared(c)' => cleared' = cleared \cup {c}
  BY <1>1, <1>2
<1>5. (call'[c].pc = "invoked" <=> call[c].pc = "invoked") => invoked' = invoked
  BY <1>2
<1>6. call'[c].pc = "invoked" => invoked' = invoked \cup {c}
  BY <1>2
<1>7. call[c].pc \notin Recorded => recorded[c] = "none"
  BY RecordedOfRow DEF Ledger
<1>8. CASE Advances(c)
  <2>1. ~ Cleared(c) /\ ~ Cleared(c)'
    BY <1>8 DEF Advances, Typed, HoldsItsOwn, Cleared
  <2>2. call[c].pc # "invoked" /\ call'[c].pc # "invoked" /\ UNCHANGED log
    BY <1>8 DEF Advances, Deciding
  <2> QED BY <1>2, <1>3, <1>5, <2>1, <2>2 DEF Promise!vars
<1>9. CASE Settles(c)
  <2>1. call[c].pc # "invoked" /\ call'[c].pc # "invoked" /\ UNCHANGED log
    BY <1>9 DEF Settles, Deciding
  <2>2. CASE Cleared(c)'
    <3>1. Promise!Clear(c)
      BY <1>2, <1>4, <1>5, <1>7, <1>9, <2>1, <2>2 DEF Promise!Clear, Settles, Deciding, Recorded
    <3> QED BY <3>1 DEF Promise!Next
  <2>3. CASE ~ Cleared(c)'
    <3>1. ~ Cleared(c)
      BY <1>9 DEF Settles, Typed, HoldsItsOwn, Cleared
    <3> QED BY <1>2, <1>3, <1>5, <2>1, <2>3, <3>1 DEF Promise!vars
  <2> QED BY <2>2, <2>3
<1>10. CASE Reads(c)
  <2>1. /\ Cleared(c)' <=> Cleared(c)
        /\ call[c].pc # "invoked" /\ call'[c].pc # "invoked" /\ UNCHANGED log
    BY <1>10 DEF Reads, Keeps, Cleared
  <2> QED BY <1>2, <1>3, <1>5, <2>1 DEF Promise!vars
<1>11. CASE Inserts(c)
  <2> DEFINE result == IF call[c].verdict.authorized THEN "authorized" ELSE "blocked"
             n == Len(log) + 1
  <2>1. /\ Cleared(c)' <=> Cleared(c)
        /\ call[c].pc = "insert" /\ call'[c].pc = "deliver"
    BY <1>11 DEF Inserts, Keeps, Cleared
  <2>2. RowsOf(c) = {} /\ recorded[c] = "none"
    BY <1>7, <2>1 DEF Ledger, Recorded
  <2>3. RowsOf(c)' = {n} /\ n \in DOMAIN log' /\ log'[n].verdict = Trail!Recorded(call[c].verdict)
    BY <1>11, <2>2, InsertedRow
  <2>4. recordedOf(c)' = result
    <3>1. recordedOf(c)' = log'[n].verdict.result
      BY <2>3 DEF recordedOf
    <3> QED BY <2>3, <3>1 DEF Trail!Recorded
  <2>5. \A d \in Calls \ {c} : recordedOf(d)' = recordedOf(d)
    BY OthersKeep
  <2>6. recorded' = [recorded EXCEPT ![c] = result]
    BY <2>4, <2>5
  <2>7. result = "authorized" => c \in cleared \/ ModeOf[c] # "enforce"
    <3>1. call[c].reason \in Answers /\ call[c].reason # None
      BY <2>1, AnswerIsSome DEF Typed, HoldsItsOwn, Decided
    <3>2. call[c].verdict.authorized => Justified(c)
      BY <2>1 DEF Ledger
    <3> QED BY <1>1, <3>1, <3>2 DEF Justified, Cleared
  <2>8. Promise!Record(c, result)
    <3> HIDE DEF result, recorded
    <3> QED BY <1>3, <1>5, <2>1, <2>2, <2>6, <2>7 DEF Promise!Record, recorded
  <2> QED BY <2>8 DEF Promise!Next
<1>12. CASE Delivers(c)
  <2>1. Cleared(c)' <=> Cleared(c)
    BY <1>12 DEF Delivers, Keeps, Cleared
  <2>2. CASE call[c].verdict.authorized
    <3>1. call[c].pc = "deliver" /\ call'[c].pc = "invoked" /\ UNCHANGED log
      BY <1>12, <2>2 DEF Delivers
    <3>2. PICK i \in DOMAIN log : RowsOf(c) = {i}
      BY <3>1 DEF Ledger, Recorded
    <3>3. Justified(c)
      BY <2>2, <3>1 DEF Ledger
    <3>4. recorded[c] = "authorized"
      BY <3>2, <3>3, RecordedOfRow DEF Ledger
    <3>5. Promise!Invoke(c)
      BY <1>2, <1>3, <1>6, <2>1, <3>1, <3>4 DEF Promise!Invoke
    <3> QED BY <3>5 DEF Promise!Next
  <2>3. CASE ~ call[c].verdict.authorized
    <3>1. call[c].pc # "invoked" /\ call'[c].pc # "invoked" /\ UNCHANGED log
      BY <1>12, <2>3 DEF Delivers
    <3> QED BY <1>2, <1>3, <1>5, <2>1, <3>1 DEF Promise!vars
  <2> QED BY <2>2, <2>3
<1>13. CASE Ends(c)
  <2>1. /\ Cleared(c)' <=> Cleared(c)
        /\ call[c].pc # "invoked" /\ call'[c].pc # "invoked" /\ UNCHANGED log
    BY <1>13 DEF Ends, Running, Cleared
  <2> QED BY <1>2, <1>3, <1>5, <2>1 DEF Promise!vars
<1> QED BY <1>8, <1>9, <1>10, <1>11, <1>12, <1>13 DEF CallStep

\* execute and the adapter that calls it implement Gate: whatever fails or interleaves,
\* a tool runs only after its call's authorization is recorded, the record is made once,
\* and an enforcing runtime records "authorized" only for what something permitted.
THEOREM KeepsThePromise == Spec => ImplementsGate
<1>1. Init => Promise!Init
  <2> SUFFICES ASSUME Init PROVE Promise!Init
    OBVIOUS
  <2>1. \A c \in Calls : call[c].reason = None /\ call[c].pc = "idle"
    BY DEF Init, Gone
  <2>2. \A c \in Calls : recordedOf(c) = "none"
    BY DEF Init, Trail!Init, RowsOf, recordedOf
  <2> QED BY <2>1, <2>2 DEF Promise!Init
<1>2. Typed /\ Ledger /\ Typed' /\ Ledger' /\ [Next]_vars => [Promise!Next]_Promise!vars
  <2> SUFFICES ASSUME Typed, Ledger, Typed', Ledger', [Next]_vars
               PROVE  [Promise!Next]_Promise!vars
    OBVIOUS
  <2>1. CASE UNCHANGED <<call, log>>
    <3>1. \A d \in Calls : recordedOf(d)' = recordedOf(d)
      BY <2>1 DEF recordedOf, RowsOf
    <3> QED BY <2>1, <3>1 DEF Promise!vars
  <2>2. CASE \E c \in Calls : CallStep(c)
    BY <2>2, CallStepImplements
  <2> QED BY <2>1, <2>2, CallSteps
<1> QED BY <1>1, <1>2, AlwaysLedger, PTL DEF Spec, ImplementsGate, Promise!Spec

-----------------------------------------------------------------------------
(* The inductive invariant, third part: why a call is permitted *)

\* Policy allows e, or leaves it to an approval that was there at time t or later.
Entitled(e, t) ==
    \/ PolicyVerdict[e] \in {"allow", "warn"}
    \/ NeedsApproval(PolicyVerdict[e], e) /\ Approved(e, t)

\* When call c started: the runtime knows it until it has recorded the call, and then
\* its row says it.
StartsAt(c, t) ==
    IF call[c].pc \in {"audit", "insert"} THEN t = writer[c].start
    ELSE \E i \in RowsOf(c) : t = log[i].ts

Warranted(c) ==
    /\ call[c].pc \in {"grants", "requests", "enqueue"} =>
        \A e \in Events : e = call[c].event => NeedsApproval(PolicyVerdict[e], e)
    /\ /\ call[c].pc \in {"audit", "insert", "deliver", "invoked"}
       /\ call[c].reason.why \in Permits
       => \A e \in Events, t \in Int : e = call[c].event /\ StartsAt(c, t) => Entitled(e, t)

\* Every approved request is remembered as such, and every permitted call was entitled.
Warrants ==
    /\ \A i \in DOMAIN requests : requests[i].status = "approved" => i \in approved
    /\ \A c \in Calls : Warranted(c)

\* A grant that covers an ask covers it at any earlier time.
LEMMA CoveredEarlier ==
    ASSUME NEW g \in Store!GrantRecord, NEW a, NEW t \in Int, NEW now \in Nat, t <= now,
           Store!GrantCovers(g, a, now)
    PROVE  Store!GrantCovers(g, a, t)
  BY RuntimeAssumption DEF Store!GrantCovers, Store!GrantRecord

\* Grants stay where they are, requests keep what they asked for, approvals are
\* remembered: who is entitled stays so.
LEMMA EntitledStays ==
    ASSUME Typed, StoreStep, approved \subseteq approved',
           NEW e \in Events, NEW t \in Int, Entitled(e, t)
    PROVE  Entitled(e, t)'
<1>0. /\ grants \in Seq(Store!GrantRecord) /\ requests \in Seq(Store!Request)
      /\ approved \subseteq DOMAIN requests
  BY DEF Typed, TypeOK, Store!TypeOK
<1>1. ASSUME Approved(e, t) PROVE Approved(e, t)'
  <2>1. CASE \E i \in DOMAIN grants : Store!GrantCovers(grants[i], AskOf(e), t)
    <3>1. PICK i \in DOMAIN grants : Store!GrantCovers(grants[i], AskOf(e), t)
      BY <2>1
    <3>2. i \in DOMAIN grants' /\ grants'[i] = grants[i]
      BY <1>0 DEF StoreStep
    <3>3. Store!GrantCovers(grants'[i], AskOf(e), t)
      BY <3>1, <3>2
    <3> QED BY <3>2, <3>3 DEF Approved, Store!GrantCovers
  <2>2. CASE \E i \in approved : /\ requests[i].actor = e.actor
                                 /\ requests[i].tool = e.action
                                 /\ requests[i].key = RequestKey(e)
    <3>1. PICK i \in approved : /\ requests[i].actor = e.actor
                                /\ requests[i].tool = e.action
                                /\ requests[i].key = RequestKey(e)
      BY <2>2
    <3>2. /\ i \in approved'
          /\ requests'[i].actor = e.actor
          /\ requests'[i].tool = e.action
          /\ requests'[i].key = RequestKey(e)
      BY <1>0, <3>1 DEF StoreStep
    <3> QED BY <3>2 DEF Approved
  <2> QED BY <1>1, <2>1, <2>2 DEF Approved
<1> QED BY <1>1 DEF Entitled

\* What a step remembers.
LEMMA Remembers ==
    ASSUME Typed, Warrants, [Next]_vars
    PROVE  /\ StoreStep /\ approved \subseteq approved'
           /\ \A i \in DOMAIN requests' : requests'[i].status = "approved" => i \in approved'
  BY StoreSteps DEF Warrants, Next, Remember, vars

\* A call that a step does not concern stays warranted.
LEMMA OthersStayWarranted ==
    ASSUME Typed, Warrants, [Next]_vars, NEW d \in Calls,
           call'[d] = call[d], writer'[d] = writer[d], RowsOf(d)' = RowsOf(d),
           \A i \in RowsOf(d) : log'[i].ts = log[i].ts
    PROVE  Warranted(d)'
<1>1. ASSUME NEW t PROVE StartsAt(d, t)' <=> StartsAt(d, t)
  BY DEF StartsAt
<1>2. Warranted(d)
  BY DEF Warrants
<1> QED BY <1>1, <1>2, Remembers, EntitledStays DEF Warranted

\* A call that settles with someone's permission is warranted if it is entitled to it.
LEMMA SettledIsWarranted ==
    ASSUME Typed, Warrants, [Next]_vars, NEW c \in Calls,
           NEW authorized \in BOOLEAN, NEW decision \in {"allow", "deny", "require_approval"},
           NEW why \in Reasons, NEW id \in Nat \cup {None},
           Settle(c, authorized, decision, why, id), call[c].event \in Events,
           writer[c].start \in Nat, writer'[c] = writer[c],
           why \in Permits => Entitled(call[c].event, writer[c].start)
    PROVE  Warranted(c)'
<1>1. /\ call'[c].pc = "audit" /\ call'[c].event = call[c].event
      /\ call'[c].reason = [why |-> why, id |-> id]
  BY SettleEffect DEF Typed, TypeOK
<1>2. ASSUME NEW e \in Events, NEW t \in Int, e = call'[c].event, StartsAt(c, t)',
             why \in Permits
      PROVE  Entitled(e, t)'
  <2>1. t = writer[c].start /\ e = call[c].event
    BY <1>1, <1>2 DEF StartsAt
  <2>2. Entitled(e, t)
    BY <1>2, <2>1
  <2> QED BY <2>2, Remembers, EntitledStays
<1> QED BY <1>1, <1>2 DEF Warranted

\* The acting call stays warranted, whichever branch of execute it takes.
LEMMA ActorStaysWarranted ==
    ASSUME Typed, Ledger, Warrants, [Next]_vars, NEW c \in Calls,
           (\E e \in Carries[c] : Begin(c, e)) \/ Proceed(c) \/ Fail(c) \/ Abandon(c)
    PROVE  Warranted(c)'
<1>0. /\ call \in [Calls -> CallState] /\ HoldsItsOwn /\ Warranted(c)
      /\ grants \in Seq(Store!GrantRecord) /\ requests \in Seq(Store!Request)
      /\ clock \in Nat /\ writer \in [Calls -> Writers] /\ writer[c].start \in Nat
  BY DEF Typed, TypeOK, Store!TypeOK, Trail!TypeOK, Writers, Warrants
<1>a. UNCHANGED trail => writer'[c] = writer[c] /\ UNCHANGED log
  BY DEF trail
<1>1. ASSUME NEW e \in Carries[c], Begin(c, e) PROVE Warranted(c)'
  <2>1. e \in Events
    BY RuntimeAssumption
  <2>2. call'[c].pc = "evaluate"
    BY <1>0, <1>1, <2>1, BeginEffect DEF Begin
  <2> QED BY <2>2 DEF Warranted
<1>2. CASE Evaluate(c)
  <2>1. call[c].event \in Events /\ writer'[c] = writer[c]
    BY <1>0, <1>2, <1>a DEF Evaluate, HoldsItsOwn, Deciding
  <2> DEFINE e == call[c].event
             v == PolicyVerdict[e]
  <2>2. CASE v = "allow" /\ Settle(c, TRUE, "allow", "policy_allow", None)
    BY <1>0, <2>1, <2>2, SettledIsWarranted DEF Reasons, Entitled
  <2>3. CASE v = "warn" /\ Settle(c, TRUE, "allow", "policy_warn", None)
    BY <1>0, <2>1, <2>3, SettledIsWarranted DEF Reasons, Entitled
  <2>4. CASE Settle(c, FALSE, "deny", "policy_deny", None)
    BY <1>0, <2>1, <2>4, SettledIsWarranted DEF Reasons, Permits
  <2>5. CASE Settle(c, FALSE, "deny", "policy_default_deny", None)
    BY <1>0, <2>1, <2>5, SettledIsWarranted DEF Reasons, Permits
  <2>6. CASE NeedsApproval(v, e) /\ call' = [call EXCEPT ![c].pc = "grants"]
    <3>1. call'[c].pc = "grants" /\ call'[c].event = e
      BY <1>0, <2>6, MoveEffect
    <3> QED BY <2>6, <3>1 DEF Warranted
  <2> QED BY <1>2, <2>2, <2>3, <2>4, <2>5, <2>6 DEF Evaluate
<1>3. ASSUME NEW pc \in {"requests", "enqueue"}, call' = [call EXCEPT ![c].pc = pc],
             call[c].pc \in {"grants", "requests"}
      PROVE  Warranted(c)'
  <2>1. call'[c].pc = pc /\ call'[c].event = call[c].event
    BY <1>0, <1>3, MoveEffect
  <2> QED BY <1>0, <1>3, <2>1 DEF Warranted
<1>4. CASE LookupGrant(c)
  <2>1. /\ call[c].pc = "grants" /\ call[c].event \in Events /\ writer'[c] = writer[c]
    BY <1>0, <1>4, <1>a DEF LookupGrant, HoldsItsOwn, Deciding
  <2>2. PICK now \in writer[c].start..clock :
            LET found == Store!CheckApproval(AskOf(call[c].event), now)
            IN  \/ \E i \in found : Settle(c, TRUE, "allow", "approved_grant", i)
                \/ found = {} /\ call' = [call EXCEPT ![c].pc = "requests"]
    BY <1>4 DEF LookupGrant
  <2>3. ASSUME NEW i \in Store!CheckApproval(AskOf(call[c].event), now),
               Settle(c, TRUE, "allow", "approved_grant", i)
        PROVE  Warranted(c)'
    <3>1. /\ i \in DOMAIN grants /\ i \in Nat /\ grants[i] \in Store!GrantRecord
          /\ Store!GrantCovers(grants[i], AskOf(call[c].event), now)
      BY <1>0, <2>3 DEF Store!CheckApproval
    <3>2. now \in Nat /\ writer[c].start <= now
      BY <1>0
    <3>3. Store!GrantCovers(grants[i], AskOf(call[c].event), writer[c].start)
      BY <1>0, <3>1, <3>2, CoveredEarlier
    <3>4. Approved(call[c].event, writer[c].start)
      BY <3>1, <3>3 DEF Approved
    <3>5. Entitled(call[c].event, writer[c].start)
      BY <1>0, <2>1, <3>4 DEF Entitled, Warranted
    <3> QED BY <1>0, <2>1, <2>3, <3>1, <3>5, SettledIsWarranted DEF Reasons
  <2> QED BY <1>3, <2>1, <2>2, <2>3
<1>5. CASE LookupRequest(c)
  <2>1. /\ call[c].pc = "requests" /\ call[c].event \in Events /\ writer'[c] = writer[c]
    BY <1>0, <1>5, <1>a DEF LookupRequest, HoldsItsOwn, Deciding
  <2>2. CASE /\ Store!ApprovedRequests(AskOf(call[c].event)) # {}
             /\ Settle(c, TRUE, "allow", "previously_approved", None)
    <3>1. PICK i \in DOMAIN requests : /\ requests[i].actor = AskOf(call[c].event).actor
                                       /\ requests[i].tool = AskOf(call[c].event).tool
                                       /\ requests[i].key = AskOf(call[c].event).key
                                       /\ requests[i].status = "approved"
      BY <2>2 DEF Store!ApprovedRequests
    <3>2. i \in approved
      BY <3>1 DEF Warrants
    <3>3. Approved(call[c].event, writer[c].start)
      BY <3>1, <3>2 DEF Approved, AskOf
    <3>4. Entitled(call[c].event, writer[c].start)
      BY <1>0, <2>1, <3>3 DEF Entitled, Warranted
    <3> QED BY <1>0, <2>1, <2>2, <3>4, SettledIsWarranted DEF Reasons
  <2> QED BY <1>3, <1>5, <2>1, <2>2 DEF LookupRequest
<1>6. CASE Enqueue(c)
  <2>1. /\ call[c].event \in Events /\ writer'[c] = writer[c] /\ Len(requests) + 1 \in Nat
        /\ Settle(c, FALSE, "require_approval", "approval_required", Len(requests) + 1)
    <3>1. call[c].pc = "enqueue" /\ UNCHANGED trail
      BY <1>6 DEF Enqueue
    <3>2. Settle(c, FALSE, "require_approval", "approval_required", Len(requests) + 1)
      BY <1>6 DEF Enqueue
    <3>3. call[c].event \in Events /\ writer'[c] = writer[c]
      BY <1>0, <1>a, <3>1 DEF HoldsItsOwn, Deciding
    <3>4. Len(requests) + 1 \in Nat
      BY <1>0
    <3> QED BY <3>2, <3>3, <3>4
  <2> QED BY <1>0, <2>1, SettledIsWarranted DEF Reasons, Permits
<1>7. CASE ReadHead(c)
  <2>1. /\ call[c].pc = "audit" /\ call'[c].pc = "insert"
        /\ call'[c].event = call[c].event /\ call'[c].reason = call[c].reason
    BY <1>0, <1>7, MoveEffect DEF ReadHead
  <2>2. writer'[c].start = writer[c].start
    <3>1. writer' = [writer EXCEPT ![c].pc = "read", ![c].head = Trail!LastHash(log)]
      BY <1>7 DEF ReadHead, Trail!ReadHead
    <3> QED BY <1>0, <3>1 DEF Writers
  <2>3. ASSUME NEW t, StartsAt(c, t)' PROVE StartsAt(c, t)
    BY <2>1, <2>2, <2>3 DEF StartsAt
  <2> QED BY <1>0, <2>1, <2>3, Remembers, EntitledStays DEF Warranted
<1>8. CASE Insert(c)
  <2>1. /\ call[c].pc = "insert" /\ call'[c].pc = "deliver"
        /\ call'[c].event = call[c].event /\ call'[c].reason = call[c].reason
        /\ call'[c].verdict = call[c].verdict
        /\ log' = Append(log, Trail!EventRow(c, writer[c].start, writer[c].head, call[c].verdict))
    BY <1>0, <1>8, MoveEffect DEF Insert, Trail!Insert
  <2>2. Inserts(c)
    BY <2>1 DEF Inserts, Keeps
  <2>3. RowsOf(c)' = {Len(log) + 1} /\ log'[Len(log) + 1].ts = writer[c].start
    BY <2>1, <2>2, InsertedRow DEF Ledger, Recorded
  <2>4. ASSUME NEW t, StartsAt(c, t)' PROVE StartsAt(c, t)
    BY <2>1, <2>3, <2>4 DEF StartsAt
  <2> QED BY <1>0, <2>1, <2>4, Remembers, EntitledStays DEF Warranted
<1>9. CASE Deliver(c)
  <2> DEFINE pc == IF call[c].verdict.authorized THEN "invoked" ELSE "blocked"
  <2>1. /\ call' = [call EXCEPT ![c].pc = pc] /\ call[c].pc = "deliver"
        /\ UNCHANGED log /\ pc \in {"invoked", "blocked"}
    BY <1>9, <1>a DEF Deliver
  <2> HIDE DEF pc
  <2>2. /\ call'[c].pc = pc /\ call'[c].event = call[c].event
        /\ call'[c].reason = call[c].reason
    BY <1>0, <2>1, MoveEffect
  <2>3. ASSUME NEW t, StartsAt(c, t)' PROVE StartsAt(c, t)
    BY <2>1, <2>2, <2>3 DEF StartsAt, RowsOf
  <2> QED BY <1>0, <2>1, <2>2, <2>3, Remembers, EntitledStays DEF Warranted
<1>10. CASE Fail(c) \/ Abandon(c)
  <2>1. call'[c].pc \in {"failed", "abandoned"}
    BY <1>0, <1>10, GoneEffect DEF Fail, Abandon
  <2> QED BY <2>1 DEF Warranted
<1> QED BY <1>1, <1>2, <1>4, <1>5, <1>6, <1>7, <1>8, <1>9, <1>10 DEF Proceed

\* What a step leaves to the calls that do not act: their rows, and where they are.
LEMMA OthersAreLeftAlone ==
    ASSUME Typed, [Next]_vars, NEW d \in Calls
    PROVE  \/ (\E e \in Carries[d] : Begin(d, e)) \/ Proceed(d) \/ Fail(d) \/ Abandon(d)
           \/ /\ call'[d] = call[d] /\ writer'[d] = writer[d] /\ RowsOf(d)' = RowsOf(d)
              /\ \A i \in RowsOf(d) : log'[i] = log[i]
<1>0. /\ call \in [Calls -> CallState] /\ writer \in [Calls -> Writers]
      /\ RowsOf(d) \subseteq DOMAIN log
  BY DEF Typed, TypeOK, Trail!TypeOK, Writers, RowsOf
<1> DEFINE Alone == /\ call'[d] = call[d] /\ writer'[d] = writer[d] /\ RowsOf(d)' = RowsOf(d)
                    /\ \A i \in RowsOf(d) : log'[i] = log[i]
<1>1. UNCHANGED log => RowsOf(d)' = RowsOf(d) /\ \A i \in RowsOf(d) : log'[i] = log[i]
  BY DEF RowsOf
<1>2. CASE UNCHANGED <<trail, call>>
  BY <1>1, <1>2 DEF trail
<1>3. ASSUME NEW c \in Calls \ {d},
             (\E e \in Carries[c] : Begin(c, e)) \/ Proceed(c) \/ Fail(c) \/ Abandon(c)
      PROVE  Alone
  <2>1. CASE \E e \in Carries[c] : Begin(c, e)
    BY <1>0, <1>1, <2>1 DEF Begin, Trail!Start
  <2>2. ASSUME UNCHANGED trail, call'[d] = call[d] PROVE Alone
    BY <1>1, <2>2 DEF trail
  <2>3. CASE Evaluate(c) \/ LookupGrant(c) \/ LookupRequest(c) \/ Enqueue(c) \/ Deliver(c) \/ Abandon(c)
    <3>1. UNCHANGED trail
      BY <2>3 DEF Evaluate, LookupGrant, LookupRequest, Enqueue, Deliver, Abandon
    <3>2. call'[d] = call[d]
      BY <1>0, <2>3
         DEF Evaluate, LookupGrant, LookupRequest, Enqueue, Deliver, Abandon, Settle
    <3> QED BY <2>2, <3>1, <3>2
  <2>4. CASE ReadHead(c)
    BY <1>0, <1>1, <2>4 DEF ReadHead, Trail!ReadHead
  <2>5. CASE Fail(c)
    BY <1>0, <1>1, <2>5 DEF Fail, Trail!Fail
  <2>6. CASE Insert(c)
    <3>1. call'[d] = call[d] /\ writer'[d] = writer[d] /\ Inserts(c)
      BY <1>0, <2>6, MoveEffect DEF Insert, Trail!Insert, Inserts, Keeps
    <3> QED BY <1>0, <3>1, InsertedRow
  <2> QED BY <1>3, <2>1, <2>3, <2>4, <2>5, <2>6 DEF Proceed
<1> QED BY <1>2, <1>3 DEF Next, Step, Environment, vars, trail

\* Nothing is approved, and nobody is permitted anything, at first.
LEMMA InitWarrants == Init => Warrants
  BY DEF Init, Store!Init, Gone, Warrants, Warranted

\* Every step keeps permitted calls warranted.
LEMMA NextWarrants == Typed /\ Ledger /\ Warrants /\ [Next]_vars => Warrants'
<1> SUFFICES ASSUME Typed, Ledger, Warrants, [Next]_vars, NEW d \in Calls
             PROVE  Warranted(d)'
  BY Remembers DEF Warrants
<1> QED BY ActorStaysWarranted, OthersStayWarranted, OthersAreLeftAlone

\* In enforce mode a tool runs only if policy allows the event, or if policy leaves it to
\* an approval and one was there when the call started or later: a denial is never
\* overridden by a grant, an operator or the call's own metadata.
THEOREM InvokedHadCause == Spec => []InvokedOnlyWithCause
<1>1. Typed /\ Ledger /\ Warrants => InvokedOnlyWithCause
  <2> SUFFICES ASSUME Typed, Ledger, Warrants, NEW c \in Calls,
                      ModeOf[c] = "enforce", call[c].pc = "invoked"
               PROVE  \/ PolicyVerdict[call[c].event] \in {"allow", "warn"}
                      \/ /\ \/ PolicyVerdict[call[c].event] = "require_approval"
                            \/ /\ PolicyVerdict[call[c].event] = "default_deny"
                               /\ call[c].event.inline
                         /\ \E i \in RowsOf(c) : Approved(call[c].event, log[i].ts)
    BY DEF InvokedOnlyWithCause
  <2>1. PICK i \in DOMAIN log : RowsOf(c) = {i}
    BY DEF Ledger, Recorded
  <2>2. log[i].ts \in Int
    <3>1. log \in Seq(Trail!Row)
      BY DEF Typed, TypeOK, Trail!TypeOK
    <3>2. log[i] \in Trail!Row
      BY <2>1, <3>1
    <3> QED BY <3>2 DEF Trail!Row
  <2>3. call[c].reason.why \in Permits /\ call[c].event \in Events
    BY DEF Ledger, Justified, Typed, HoldsItsOwn, Decided
  <2>4. StartsAt(c, log[i].ts)
    BY <2>1 DEF StartsAt
  <2>5. Entitled(call[c].event, log[i].ts)
    BY <2>2, <2>3, <2>4 DEF Warrants, Warranted
  <2> QED BY <2>1, <2>5 DEF Entitled, NeedsApproval
<1> QED BY <1>1, InitTyped, NextTyped, InitLedger, NextLedger, InitWarrants, NextWarrants, PTL
        DEF Spec

-----------------------------------------------------------------------------
(* The inductive invariant, fourth part: the request a blocked call leaves *)

\* The request that call c was told to wait for is in the queue and asks for its event.
Asked(c) ==
    LET i == call[c].reason.id
    IN  /\ i \in DOMAIN requests
        /\ requests[i].actor = call[c].event.actor
        /\ requests[i].tool = call[c].event.action
        /\ requests[i].key = RequestKey(call[c].event)

Queue ==
    \A c \in Calls : Waits(c) =>
        /\ Asked(c)
        /\ \A d \in Calls \ {c} : Waits(d) => call[d].reason.id # call[c].reason.id

\* Only request_approval tells a call to wait; afterwards the call keeps its event and
\* its request.
LEMMA HowCallsWait ==
    ASSUME Typed, [Next]_vars, NEW d \in Calls, Waits(d)'
    PROVE  \/ /\ Waits(d)
              /\ call'[d].reason = call[d].reason /\ call'[d].event = call[d].event
           \/ Enqueue(d)
<1>0. /\ call \in [Calls -> CallState] /\ HoldsItsOwn
      /\ grants \in Seq(Store!GrantRecord) /\ requests \in Seq(Store!Request)
  BY DEF Typed, TypeOK, Store!TypeOK
<1>1. ASSUME NEW authorized \in BOOLEAN, NEW decision \in {"allow", "deny", "require_approval"},
             NEW why \in Reasons \ {"approval_required"}, NEW id \in Nat \cup {None},
             Settle(d, authorized, decision, why, id)
      PROVE  FALSE
  <2>1. call'[d].reason = [why |-> why, id |-> id]
    BY <1>0, <1>1, SettleEffect
  <2> QED BY <2>1 DEF Waits
<1>2. ASSUME NEW pc \in {"grants", "requests", "enqueue"}, call' = [call EXCEPT ![d].pc = pc]
      PROVE  FALSE
  <2>1. call'[d].pc = pc
    BY <1>0, <1>2, MoveEffect
  <2> QED BY <2>1 DEF Waits
<1>3. CASE \E e \in Carries[d] : Begin(d, e)
  <2>1. call'[d].pc = "evaluate"
    BY <1>0, <1>3, RuntimeAssumption, BeginEffect DEF Begin
  <2> QED BY <2>1 DEF Waits
<1>4. CASE Evaluate(d)
  BY <1>1, <1>2, <1>4 DEF Evaluate, Reasons
<1>5. CASE LookupGrant(d)
  <2>1. PICK now \in writer[d].start..clock :
            \/ \E i \in Store!CheckApproval(AskOf(call[d].event), now) :
                    Settle(d, TRUE, "allow", "approved_grant", i)
            \/ call' = [call EXCEPT ![d].pc = "requests"]
    BY <1>5 DEF LookupGrant
  <2>2. Store!CheckApproval(AskOf(call[d].event), now) \subseteq Nat
    BY <1>0 DEF Store!CheckApproval
  <2> QED BY <1>1, <1>2, <2>1, <2>2 DEF Reasons
<1>6. CASE LookupRequest(d)
  BY <1>1, <1>2, <1>6 DEF LookupRequest, Reasons
<1>7. CASE ReadHead(d) \/ Insert(d)
  <2>1. PICK pc \in {"insert", "deliver"} : call' = [call EXCEPT ![d].pc = pc]
    BY <1>7 DEF ReadHead, Insert
  <2>2. call[d].pc \in {"audit", "insert"}
    BY <1>7 DEF ReadHead, Insert
  <2> QED BY <1>0, <2>1, <2>2, MoveEffect DEF Waits
<1>8. CASE Deliver(d)
  <2>1. PICK pc \in {"invoked", "blocked"} : call' = [call EXCEPT ![d].pc = pc]
    BY <1>8 DEF Deliver
  <2>2. call[d].pc = "deliver"
    BY <1>8 DEF Deliver
  <2> QED BY <1>0, <2>1, <2>2, MoveEffect DEF Waits
<1>9. CASE Fail(d) \/ Abandon(d)
  <2>1. call'[d].pc \in {"failed", "abandoned"}
    BY <1>0, <1>9, GoneEffect DEF Fail, Abandon
  <2> QED BY <2>1 DEF Waits
<1>10. CASE call'[d] = call[d]
  BY <1>10 DEF Waits
<1> QED BY <1>3, <1>4, <1>5, <1>6, <1>7, <1>8, <1>9, <1>10, OthersAreLeftAlone DEF Proceed

\* A request queued for a call is a new one, and asks for the call's event.
LEMMA EnqueueAsks ==
    ASSUME Typed, NEW c \in Calls, Enqueue(c)
    PROVE  /\ Asked(c)'
           /\ call'[c].reason.id \notin DOMAIN requests
           /\ \A d \in Calls \ {c} : call'[d] = call[d]
<1>0. call \in [Calls -> CallState] /\ requests \in Seq(Store!Request)
  BY DEF Typed, TypeOK, Store!TypeOK
<1>a. PICK now \in writer[c].start..clock :
        Store!RequestApproval(AskOf(call[c].event), DefaultTtl, now)
  BY DEF Enqueue
<1> DEFINE row == Store!RequestRow(AskOf(call[c].event), DefaultTtl, now)
           n == Len(requests) + 1
<1>1. /\ requests' = Append(requests, row)
      /\ Settle(c, FALSE, "require_approval", "approval_required", n)
  BY <1>a DEF Enqueue, Store!RequestApproval
<1>2. /\ row.actor = call[c].event.actor /\ row.tool = call[c].event.action
      /\ row.key = RequestKey(call[c].event)
  BY DEF Store!RequestRow, AskOf
<1> HIDE DEF row
<1>3. n \in DOMAIN requests' /\ requests'[n] = row /\ n \notin DOMAIN requests /\ n \in Nat
  BY <1>0, <1>1
<1> HIDE DEF n
<1>4. /\ call'[c].event = call[c].event
      /\ call'[c].reason = [why |-> "approval_required", id |-> n]
      /\ \A d \in Calls \ {c} : call'[d] = call[d]
  <2>1. call' = [call EXCEPT ![c].pc = "audit", ![c].verdict = call'[c].verdict,
                             ![c].reason = [why |-> "approval_required", id |-> n]]
    BY <1>0, <1>1 DEF Settle, CallState
  <2> QED BY <1>0, <2>1 DEF CallState
<1>5. call'[c].reason.id = n
  BY <1>4
<1> QED BY <1>2, <1>3, <1>4, <1>5 DEF Asked

\* A request keeps what it asks for, whatever operators and sweeps do to it.
LEMMA AskedStays ==
    ASSUME Typed, [Next]_vars, NEW c \in Calls, Asked(c),
           call'[c].reason = call[c].reason, call'[c].event = call[c].event
    PROVE  Asked(c)'
  BY StoreSteps DEF StoreStep, Asked, Typed, TypeOK, Store!TypeOK

\* Every step keeps the queue's rows apart.
LEMMA NextQueue == Typed /\ Queue /\ [Next]_vars => Queue'
<1> SUFFICES ASSUME Typed, Queue, [Next]_vars, NEW c \in Calls, Waits(c)'
             PROVE  /\ Asked(c)'
                    /\ \A d \in Calls \ {c} : Waits(d)' => call'[d].reason.id # call'[c].reason.id
  BY DEF Queue
<1>1. Asked(c)'
  BY HowCallsWait, AskedStays, EnqueueAsks DEF Queue
<1>2. ASSUME NEW d \in Calls \ {c}, Waits(d)' PROVE call'[d].reason.id # call'[c].reason.id
  <2>1. CASE Enqueue(c)
    <3>1. Waits(d) /\ call'[d] = call[d]
      BY <1>2, <2>1, EnqueueAsks DEF Waits
    <3> QED BY <2>1, <3>1, EnqueueAsks DEF Queue, Asked
  <2>2. CASE Enqueue(d)
    <3>1. Waits(c) /\ call'[c] = call[c]
      BY <2>2, EnqueueAsks DEF Waits
    <3> QED BY <2>2, <3>1, EnqueueAsks DEF Queue, Asked
  <2> QED BY <1>2, <2>1, <2>2, HowCallsWait DEF Queue
<1> QED BY <1>1, <1>2

\* A call that was told to wait left a request of its own which, once it is approved, lets
\* a retry of the call through, whatever operators and sweeps did to it meanwhile.
THEOREM BlockedCanBeApproved == Spec => []BlockedAskIsQueued
<1>1. Init => Queue
  BY DEF Init, Gone, Queue, Waits
<1>2. Queue => BlockedAskIsQueued
  BY DEF Queue, Asked, BlockedAskIsQueued, Store!ApprovedRequests, AskOf
<1> QED BY <1>1, <1>2, InitTyped, NextTyped, NextQueue, PTL DEF Spec
=============================================================================
