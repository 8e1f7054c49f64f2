----------------------------- MODULE AgentState -----------------------------
(***************************************************************************)
(* AgentStateStore (capfence/core/state.py): an agent's recent decisions   *)
(* in a table, written and queried by threads.  Each store object has a    *)
(* lock of its own.  In memory all threads share one connection; on a file *)
(* every call opens its own, and several store objects (processes) may use *)
(* the file.  No call ever rolls back: what a failed call had inserted     *)
(* stays on a shared connection and goes with one of its own.              *)
(***************************************************************************)
EXTENDS Integers, Sequences, FiniteSets

CONSTANTS
    None,
    Threads,
    Deployments,   \* [memory, storeOf]: kinds of database, and the store object of each thread
    Works,         \* Works[t]: the calls thread t may make
    Window,        \* window_seconds
    Threshold,     \* detect_velocity_spike's threshold
    Limit,         \* get_recent_tools' and get_history's limit
    MaxTime, MaxCalls   \* bounds of the model

VARIABLES
    now,
    db,       \* the deployment, which does not change
    table,    \* agent_decisions, in the order its rows became visible
    lock,     \* lock[s]: the thread that holds store s's lock
    thread    \* thread[t]: the call in progress or the last one

vars == <<now, db, table, lock, thread>>

\* A call is a write of one record or of a batch, or a query.  A record may hold a value
\* that SQLite cannot bind (a Decimal amount).
Writes == {"record_decision", "record_decision_batch"}
Queries == {"compute_K", "compute_V", "get_total_amount", "get_recent_tools",
            "detect_velocity_spike", "get_history"}

ASSUME AgentStateAssumption ==
    /\ {Window, Threshold, Limit, MaxTime, MaxCalls} \subseteq Nat
    /\ None \notin Threads
    /\ \A d \in Deployments :
        /\ d.memory \in BOOLEAN
        /\ d.memory => \A t, u \in Threads : d.storeOf[t] = d.storeOf[u]
    /\ \A t \in Threads : \A w \in Works[t] :
        /\ w.kind \in Writes \cup Queries
        /\ w.kind \in Writes =>
            /\ w.records \in Seq({w.records[i] : i \in DOMAIN w.records})
            /\ \A i \in DOMAIN w.records :
                w.records[i].bindable =>
                    w.records[i].amount = None \/ w.records[i].amount \in Int

Stores == {d.storeOf[t] : d \in Deployments, t \in Threads}
StoreOf(t) == db.storeOf[t]

-----------------------------------------------------------------------------
(* Answers *)

Min(a, b) == IF a < b THEN a ELSE b
Max(a, b) == IF a > b THEN a ELSE b

\* Mutation of Since: the window leaves out its first instant.
SinceStrict(cutoff, ts) == ts > cutoff

Since(cutoff, ts) == ts >= cutoff

\* get_history has no window.
HasWindow(q) == q.kind # "get_history"

\* The WHERE clauses, but for the window: the agent, and what each query adds to it.
Selected(q, rows) ==
    {i \in rows :
        LET r == table[i]
        IN  /\ r.agent = q.agent
            /\ q.kind = "detect_velocity_spike" /\ q.key # None => r.tool = q.key
            /\ q.kind = "get_total_amount" => r.amount # None
            /\ q.kind = "get_total_amount" /\ q.key # None => r.risk = q.key
            /\ q.kind = "get_recent_tools" => r.tool # None}

\* ORDER BY timestamp DESC LIMIT: the latest first; rows of one instant in any order.
Latest(rows) ==
    LET n == Min(Limit, Cardinality(rows))
    IN  {p \in [1..n -> rows] :
            /\ \A i, j \in 1..n : i < j => p[i] # p[j] /\ table[p[i]].ts >= table[p[j]].ts
            /\ \A i \in 1..n, x \in rows :
                x \notin {p[j] : j \in 1..n} => table[x].ts <= table[p[i]].ts}

TotalAmount(rows) ==
    LET sum[i \in 0..Len(table)] ==
            IF i = 0 THEN 0 ELSE sum[i - 1] + (IF i \in rows THEN table[i].amount ELSE 0)
    IN  sum[Len(table)]

\* What a query may answer from the rows it selected.  The fraction that compute_K
\* returns is a pair; with no rows it is 0.0.
Answers(q, rows) ==
    LET count == Cardinality(rows)
    IN  CASE q.kind = "compute_K" ->
                {IF rows = {} THEN <<0, 1>>
                 ELSE <<Cardinality({i \in rows : table[i].passed}), count>>}
          [] q.kind = "compute_V" -> {Max(count, 1)}
          [] q.kind = "get_total_amount" -> {TotalAmount(rows)}
          [] q.kind = "get_recent_tools" ->
                {[i \in DOMAIN p |-> table[p[i]].tool] : p \in Latest(rows)}
          [] q.kind = "get_history" -> Latest(rows)
          [] q.kind = "detect_velocity_spike" -> {count >= Threshold}

-----------------------------------------------------------------------------
(* Calls *)

Idle == [pc |-> "idle", work |-> None, calls |-> 0, called |-> 0, stamp |-> 0,
         left |-> <<>>, open |-> <<>>, known |-> 0, upto |-> 0, answer |-> None,
         failed |-> {}]

\* The call is over; a writer has no local variables any longer.
Over(l) == [Idle EXCEPT !.calls = l.calls, !.failed = l.failed]
Raised(l) == [Over(l) EXCEPT !.failed = @ \cup {l.calls}]

\* A call begins.  A query takes its cutoff and a batch its timestamp before they wait
\* for the lock (`known` is history: the rows that are there already).
Call(t, w) ==
    /\ thread[t].pc = "idle" /\ thread[t].calls < MaxCalls
    /\ thread' = [thread EXCEPT ![t] =
            [thread[t] EXCEPT !.pc = "wait", !.work = w, !.calls = @ + 1, !.called = now,
                      !.stamp = now, !.known = Len(table), !.answer = None,
                      !.left = IF w.kind \in Writes THEN w.records ELSE <<>>]]
    /\ UNCHANGED <<now, db, table, lock>>

\* Mutation of Acquire: without the lock.
AcquireUnchecked(t) ==
    /\ thread[t].pc = "wait"
    /\ lock' = [lock EXCEPT ![StoreOf(t)] = t]
    /\ thread' = [thread EXCEPT ![t].pc = "locked",
            ![t].stamp = IF thread[t].work.kind = "record_decision" THEN now ELSE @]
    /\ UNCHANGED <<now, db, table>>

\* `with self._lock`; record_decision takes its timestamp now.
Acquire(t) ==
    /\ thread[t].pc = "wait"
    /\ lock[StoreOf(t)] = None
    /\ lock' = [lock EXCEPT ![StoreOf(t)] = t]
    /\ thread' = [thread EXCEPT ![t].pc = "locked",
            ![t].stamp = IF thread[t].work.kind = "record_decision" THEN now ELSE @]
    /\ UNCHANGED <<now, db, table>>

\* `called`, `op` and `size` are history.
Row(t, r) ==
    [agent |-> r.agent, passed |-> r.passed, tool |-> r.tool, risk |-> r.risk,
     amount |-> r.amount, ts |-> thread[t].stamp, called |-> thread[t].called,
     op |-> <<t, thread[t].calls>>, size |-> Len(thread[t].work.records)]

\* SQLite lets one connection write to a file at a time; others wait.
Writable(t) == db.memory \/ \A u \in Threads \ {t} : thread[u].open = <<>>

\* Mutation of Insert: every row is committed as it is inserted.
InsertAutocommit(t) ==
    /\ thread[t].pc = "locked" /\ thread[t].left # <<>>
    /\ Head(thread[t].left).bindable /\ Writable(t)
    /\ table' = Append(table, Row(t, Head(thread[t].left)))
    /\ thread' = [thread EXCEPT ![t].left = Tail(@)]
    /\ UNCHANGED <<now, db, lock>>

\* One INSERT of execute or executemany.
Insert(t) ==
    /\ thread[t].pc = "locked" /\ thread[t].left # <<>>
    /\ Head(thread[t].left).bindable /\ Writable(t)
    /\ LET row == Row(t, Head(thread[t].left))
       IN  IF db.memory
           THEN /\ table' = Append(table, row)
                /\ thread' = [thread EXCEPT ![t].left = Tail(@)]
           ELSE /\ thread' = [thread EXCEPT ![t].left = Tail(@), ![t].open = Append(@, row)]
                /\ UNCHANGED table
    /\ UNCHANGED <<now, db, lock>>

Release(t) == lock' = [lock EXCEPT ![StoreOf(t)] = None]

Commit(t) ==
    /\ thread[t].pc = "locked" /\ thread[t].work.kind \in Writes /\ thread[t].left = <<>>
    /\ table' = table \o thread[t].open
    /\ thread' = [thread EXCEPT ![t] = Over(@)]
    /\ Release(t)
    /\ UNCHANGED <<now, db>>

\* Mutation of Raise: the lock is not released.
RaiseKeepingLock(t) ==
    /\ thread' = [thread EXCEPT ![t] = Raised(@)]
    /\ UNCHANGED <<now, db, table, lock>>

\* An exception leaves the `with`; a connection of the call's own goes with it.
Raise(t) ==
    /\ thread' = [thread EXCEPT ![t] = Raised(@)]
    /\ IF thread[t].pc = "locked" THEN Release(t) ELSE UNCHANGED lock
    /\ UNCHANGED <<now, db, table>>

\* A value that cannot be bound.
Reject(t) ==
    /\ thread[t].pc = "locked" /\ thread[t].left # <<>>
    /\ ~ Head(thread[t].left).bindable
    /\ Raise(t)

\* The query runs, and its answer is computed from what it fetched.
Read(t) ==
    /\ thread[t].pc = "locked" /\ thread[t].work.kind \in Queries
    /\ LET q == thread[t].work
           recent == {i \in DOMAIN table :
                        HasWindow(q) => Since(thread[t].called - Window, table[i].ts)}
       IN  \E a \in Answers(q, Selected(q, recent)) :
            thread' = [thread EXCEPT ![t].pc = "idle", ![t].answer = a,
                                     ![t].upto = Len(table)]
    /\ Release(t)
    /\ UNCHANGED <<now, db, table>>

\* SQLite raises: the file is locked for too long, cannot be opened, is full.
Fail(t) == thread[t].pc # "idle" /\ Raise(t)

Tick == now < MaxTime /\ now' = now + 1 /\ UNCHANGED <<db, table, lock, thread>>

Proceed(t) == Acquire(t) \/ Insert(t) \/ Reject(t) \/ Commit(t) \/ Read(t)

Init ==
    /\ now = 0
    /\ db \in Deployments
    /\ table = <<>>
    /\ lock = [s \in Stores |-> None]
    /\ thread = [t \in Threads |-> Idle]

Next ==
    \/ Tick
    \/ \E t \in Threads : (\E w \in Works[t] : Call(t, w)) \/ Proceed(t) \/ Fail(t)

Spec == Init /\ [][Next]_vars

\* A thread that can go on does.  The lock is not fair, but callers are finitely many.
FairSpec == Spec /\ \A t \in Threads : WF_vars(Proceed(t))

-----------------------------------------------------------------------------
(* Properties *)

\* Type invariant; in particular the locks are held by the calls that are in one, and
\* only one transaction on a file is open.
TypeOK ==
    /\ now \in 0..MaxTime
    /\ db \in Deployments
    /\ DOMAIN lock = Stores
    /\ \A s \in Stores :
        {t \in Threads : thread[t].pc = "locked" /\ StoreOf(t) = s} =
            (IF lock[s] = None THEN {} ELSE {lock[s]})
    /\ \A t, u \in Threads : thread[t].open # <<>> /\ thread[u].open # <<>> => t = u
    /\ \A t \in Threads :
        /\ thread[t].pc \in {"idle", "wait", "locked"}
        /\ thread[t].known <= Len(table) /\ thread[t].upto <= Len(table)
        /\ db.memory \/ thread[t].pc # "locked" => thread[t].open = <<>>

Answered(t) == thread[t].answer # None

\* A query may wait for the lock, and decisions may be stamped long before they are
\* stored: its answer is still right for some set of decisions that lies between those
\* of calls that had returned, begun no earlier than the window before the query began,
\* and those stored when it read (the cutoff is taken before the lock, state.py:188, a
\* batch's stamp too, state.py:92).
AnswersAreBracketed ==
    \A t \in Threads : Answered(t) =>
        LET q == thread[t].work
            start == IF HasWindow(q) THEN thread[t].called - Window ELSE 0
            due == {i \in 1..thread[t].known : table[i].called >= start}
            there == {i \in 1..thread[t].upto : table[i].ts >= start}
        IN  \E S \in SUBSET (there \ due) :
                thread[t].answer \in Answers(q, Selected(q, S \cup due))

\* A query sees a batch as a whole or not at all, through any store object, unless the
\* batch failed on the connection that all calls share (executemany, commit and no
\* rollback, state.py:94).
SeesWholeBatches ==
    \A t \in Threads : Answered(t) =>
        \A i \in 1..thread[t].upto :
            LET op == table[i].op
            IN  \/ Cardinality({j \in 1..thread[t].upto : table[j].op = op}) = table[i].size
                \/ db.memory /\ op[2] \in thread[op[1]].failed

\* Every call returns or raises, whichever calls before it raised while they held the
\* lock or had a transaction open.
CallsReturn == \A t \in Threads : thread[t].pc # "idle" ~> thread[t].pc = "idle"
=============================================================================
