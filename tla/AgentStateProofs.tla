-------------------------- MODULE AgentStateProofs --------------------------
(***************************************************************************)
(* Proofs about the table of recent decisions: its type and lock           *)
(* discipline, that a query answers right although its cutoff is older     *)
(* than what it reads, and that it sees batches whole.                     *)
(***************************************************************************)
EXTENDS AgentState, FiniteSetTheorems, WellFoundedInduction, TLAPS

-----------------------------------------------------------------------------
(* What the state is made of *)

WriteWorks == {w \in UNION {Works[t] : t \in Threads} : w.kind \in Writes}
Records == UNION {{w.records[i] : i \in DOMAIN w.records} : w \in WriteWorks}

Rows ==
    [agent : {r.agent : r \in Records}, passed : {r.passed : r \in Records},
     tool : {r.tool : r \in Records}, risk : {r.risk : r \in Records},
     amount : Int \cup {None}, ts : Nat, called : Nat, op : Threads \X Nat, size : Nat]

\* A decision is stored with a timestamp no older than its call.
Stamped(rows) == \A i \in DOMAIN rows : rows[i].called <= rows[i].ts

IsLocal(l) ==
    l = [pc |-> l.pc, work |-> l.work, calls |-> l.calls, called |-> l.called,
         stamp |-> l.stamp, left |-> l.left, open |-> l.open, known |-> l.known,
         upto |-> l.upto, answer |-> l.answer, failed |-> l.failed]

\* The local variables l of thread u, at time n with a table of len rows.
LocalOK(u, l, n, len) ==
    /\ IsLocal(l)
    /\ l.pc \in {"idle", "wait", "locked"}
    /\ {l.calls, l.called, l.stamp, l.known, l.upto} \subseteq Nat
    /\ l.left \in Seq(Records) /\ l.open \in Seq(Rows) /\ Stamped(l.open)
    /\ l.called <= l.stamp /\ l.called <= n
    /\ l.known <= len /\ l.upto <= len
    /\ l.pc # "idle" => l.work \in Works[u] /\ l.answer = None
    /\ l.left # <<>> \/ l.open # <<>> => l.work.kind \in Writes
    /\ l.pc # "locked" => l.open = <<>>
    /\ l.answer # None => l.work.kind \in Queries /\ l.known <= l.upto

LocalInv ==
    /\ now \in 0..MaxTime
    /\ db \in Deployments
    /\ table \in Seq(Rows) /\ Stamped(table)
    /\ lock = [s \in Stores |-> lock[s]]
    /\ thread = [u \in Threads |-> thread[u]]
    /\ \A u \in Threads : LocalOK(u, thread[u], now, Len(table))

-----------------------------------------------------------------------------
(* What each action does to the local variables *)

Others(t) == \A u \in Threads \ {t} : thread'[u] = thread[u]

\* The call of t goes on, or ends, as the same one.
SameCall(t) ==
    /\ thread'[t].work = thread[t].work /\ thread'[t].calls = thread[t].calls
    /\ thread'[t].failed = thread[t].failed

LEMMA RecordsOfWork ==
    ASSUME NEW t \in Threads, NEW w \in Works[t], w.kind \in Writes
    PROVE  w.records \in Seq(Records)
<1>1. w \in WriteWorks
  BY DEF WriteWorks
<1>2. {w.records[i] : i \in DOMAIN w.records} \subseteq Records
  BY <1>1 DEF Records
<1>3. w.records \in Seq({w.records[i] : i \in DOMAIN w.records})
  BY AgentStateAssumption
<1> HIDE DEF Records
<1> QED BY <1>2, <1>3

LEMMA RecordsHoldAmounts ==
    ASSUME NEW r \in Records, r.bindable
    PROVE  r.amount \in Int \cup {None}
<1>1. PICK w \in WriteWorks : r \in {w.records[i] : i \in DOMAIN w.records}
  BY DEF Records
<1>2. PICK i \in DOMAIN w.records : r = w.records[i]
  BY <1>1
<1>3. PICK t \in Threads : w \in Works[t] /\ w.kind \in Writes
  BY DEF WriteWorks
<1> QED BY <1>2, <1>3, AgentStateAssumption

LEMMA CallEffect ==
    ASSUME LocalInv, NEW t \in Threads, NEW w \in Works[t], Call(t, w)
    PROVE  /\ thread' = [u \in Threads |-> thread'[u]] /\ Others(t)
           /\ thread[t].pc = "idle"
           /\ thread'[t] =
                [pc |-> "wait", work |-> w, calls |-> thread[t].calls + 1, called |-> now,
                 stamp |-> now, left |-> IF w.kind \in Writes THEN w.records ELSE <<>>,
                 open |-> thread[t].open, known |-> Len(table), upto |-> thread[t].upto,
                 answer |-> None, failed |-> thread[t].failed]
           /\ thread'[t].pc = "wait" /\ thread'[t].open = thread[t].open
           /\ thread'[t].answer = None
           /\ thread'[t].work = w /\ thread'[t].calls = thread[t].calls + 1
           /\ thread'[t].left = (IF w.kind \in Writes THEN w.records ELSE <<>>)
           /\ thread'[t].failed = thread[t].failed
           /\ UNCHANGED <<now, db, table, lock>>
<1>1. thread = [u \in Threads |-> thread[u]] /\ IsLocal(thread[t])
  BY DEF LocalInv, LocalOK
<1>2. thread[t].pc = "idle" /\ UNCHANGED <<now, db, table, lock>>
  BY DEF Call
<1>3. thread' = [thread EXCEPT ![t] =
            [thread[t] EXCEPT !.pc = "wait", !.work = w, !.calls = @ + 1, !.called = now,
                      !.stamp = now, !.known = Len(table), !.answer = None,
                      !.left = IF w.kind \in Writes THEN w.records ELSE <<>>]]
  BY <1>1, Zenon DEF Call
<1>4. PICK left : left = IF w.kind \in Writes THEN w.records ELSE <<>>
  OBVIOUS
<1>5. PICK n : n = Len(table)
  OBVIOUS
<1>6. PICK l : l = [thread[t] EXCEPT !.pc = "wait", !.work = w, !.calls = @ + 1,
                      !.called = now, !.stamp = now, !.known = n, !.answer = None,
                      !.left = left]
  OBVIOUS
<1>7. thread' = [thread EXCEPT ![t] = l]
  BY <1>3, <1>4, <1>5, <1>6, Zenon
<1>8. thread' = [u \in Threads |-> thread'[u]] /\ Others(t) /\ thread'[t] = l
  BY <1>1, <1>7 DEF Others
<1>9. l = [pc |-> "wait", work |-> w, calls |-> thread[t].calls + 1, called |-> now,
             stamp |-> now, left |-> left, open |-> thread[t].open, known |-> n,
             upto |-> thread[t].upto, answer |-> None, failed |-> thread[t].failed]
  BY <1>1, <1>6 DEF IsLocal
<1>10. /\ thread'[t].pc = "wait" /\ thread'[t].open = thread[t].open
       /\ thread'[t].answer = None /\ thread'[t].work = w
       /\ thread'[t].calls = thread[t].calls + 1 /\ thread'[t].left = left
       /\ thread'[t].failed = thread[t].failed
  BY <1>8, <1>9
<1> QED BY <1>2, <1>4, <1>5, <1>8, <1>9, <1>10, Zenon

LEMMA AcquireEffect ==
    ASSUME LocalInv, NEW t \in Threads, Acquire(t)
    PROVE  /\ thread' = [u \in Threads |-> thread'[u]] /\ Others(t)
           /\ thread[t].pc = "wait"
           /\ thread'[t] =
                [pc |-> "locked", work |-> thread[t].work, calls |-> thread[t].calls,
                 called |-> thread[t].called,
                 stamp |-> IF thread[t].work.kind = "record_decision" THEN now
                           ELSE thread[t].stamp,
                 left |-> thread[t].left, open |-> thread[t].open,
                 known |-> thread[t].known, upto |-> thread[t].upto,
                 answer |-> thread[t].answer, failed |-> thread[t].failed]
           /\ thread'[t].pc = "locked" /\ thread'[t].open = thread[t].open
           /\ thread'[t].answer = thread[t].answer
           /\ SameCall(t) /\ thread'[t].left = thread[t].left
           /\ UNCHANGED <<now, db, table>>
<1>1. thread = [u \in Threads |-> thread[u]] /\ IsLocal(thread[t])
  BY DEF LocalInv, LocalOK
<1>2. SameCall(t) /\ thread'[t].left = thread[t].left
  BY <1>1 DEF Acquire, SameCall, IsLocal
<1> QED BY <1>1, <1>2 DEF Acquire, Others, IsLocal

LEMMA InsertEffect ==
    ASSUME LocalInv, NEW t \in Threads, Insert(t)
    PROVE  /\ thread' = [u \in Threads |-> thread'[u]] /\ Others(t)
           /\ thread[t].pc = "locked" /\ thread[t].left # <<>>
           /\ Head(thread[t].left).bindable /\ Writable(t)
           /\ thread'[t] =
                [pc |-> "locked", work |-> thread[t].work, calls |-> thread[t].calls,
                 called |-> thread[t].called, stamp |-> thread[t].stamp,
                 left |-> Tail(thread[t].left), open |-> thread'[t].open,
                 known |-> thread[t].known, upto |-> thread[t].upto,
                 answer |-> thread[t].answer, failed |-> thread[t].failed]
           /\ \/ /\ db.memory
                 /\ table' = Append(table, Row(t, Head(thread[t].left)))
                 /\ thread'[t].open = thread[t].open
              \/ /\ ~ db.memory
                 /\ table' = table
                 /\ thread'[t].open = Append(thread[t].open, Row(t, Head(thread[t].left)))
           /\ thread'[t].pc = "locked" /\ thread'[t].answer = thread[t].answer
           /\ SameCall(t) /\ thread'[t].left = Tail(thread[t].left)
           /\ UNCHANGED <<now, db, lock>>
<1>1. thread = [u \in Threads |-> thread[u]] /\ IsLocal(thread[t])
  BY DEF LocalInv, LocalOK
<1>2. PICK row : row = Row(t, Head(thread[t].left))
  OBVIOUS
<1>3. /\ thread[t].pc = "locked" /\ thread[t].left # <<>>
      /\ Head(thread[t].left).bindable /\ Writable(t)
      /\ UNCHANGED <<now, db, lock>>
      /\ \/ /\ db.memory
            /\ table' = Append(table, row)
            /\ thread' = [thread EXCEPT ![t].left = Tail(@)]
         \/ /\ ~ db.memory
            /\ table' = table
            /\ thread' = [thread EXCEPT ![t].left = Tail(@), ![t].open = Append(@, row)]
  BY <1>2, Zenon DEF Insert
<1>4. PICK rest, grown : rest = Tail(thread[t].left) /\ grown = Append(thread[t].open, row)
  OBVIOUS
<1>5. CASE db.memory
  <2>1. thread' = [thread EXCEPT ![t].left = Tail(thread[t].left)]
    BY <1>1, <1>3, <1>5
  <2>2. thread' = [thread EXCEPT ![t].left = rest]
    BY <1>4, <2>1, Zenon
  <2>3. /\ thread' = [u \in Threads |-> thread'[u]] /\ Others(t)
        /\ thread'[t] = [thread[t] EXCEPT !.left = rest]
    BY <1>1, <2>2 DEF Others
  <2>4. /\ thread'[t] =
            [pc |-> "locked", work |-> thread[t].work, calls |-> thread[t].calls,
             called |-> thread[t].called, stamp |-> thread[t].stamp, left |-> rest,
             open |-> thread'[t].open, known |-> thread[t].known,
             upto |-> thread[t].upto, answer |-> thread[t].answer,
             failed |-> thread[t].failed]
        /\ thread'[t].open = thread[t].open
    BY <1>1, <1>3, <2>3 DEF IsLocal
  <2>5. /\ thread'[t].pc = "locked" /\ thread'[t].answer = thread[t].answer
        /\ SameCall(t) /\ thread'[t].left = rest
    BY <2>4 DEF SameCall
  <2> QED BY <1>2, <1>3, <1>4, <1>5, <2>3, <2>4, <2>5, Zenon
<1>6. CASE ~ db.memory
  <2>1. thread' = [thread EXCEPT ![t].left = Tail(@), ![t].open = Append(@, row)]
    BY <1>3, <1>6, Zenon
  <2>2. thread' = [thread EXCEPT ![t] = [thread[t] EXCEPT !.left = rest, !.open = grown]]
    BY <1>1, <1>4, <2>1 DEF IsLocal
  <2>3. /\ thread' = [u \in Threads |-> thread'[u]] /\ Others(t)
        /\ thread'[t] = [thread[t] EXCEPT !.left = rest, !.open = grown]
    BY <1>1, <2>2 DEF Others
  <2>4. /\ thread'[t] =
            [pc |-> "locked", work |-> thread[t].work, calls |-> thread[t].calls,
             called |-> thread[t].called, stamp |-> thread[t].stamp, left |-> rest,
             open |-> thread'[t].open, known |-> thread[t].known,
             upto |-> thread[t].upto, answer |-> thread[t].answer,
             failed |-> thread[t].failed]
        /\ thread'[t].open = grown
    BY <1>1, <1>3, <2>3 DEF IsLocal
  <2>5. /\ thread'[t].pc = "locked" /\ thread'[t].answer = thread[t].answer
        /\ SameCall(t) /\ thread'[t].left = rest
    BY <2>4 DEF SameCall
  <2> QED BY <1>2, <1>3, <1>4, <1>6, <2>3, <2>4, <2>5, Zenon
<1> QED BY <1>5, <1>6

\* A call that is over has no locals but its history.
Reset(t) ==
    /\ thread' = [u \in Threads |-> thread'[u]] /\ Others(t)
    /\ thread'[t] = [Idle EXCEPT !.calls = thread[t].calls, !.failed = thread'[t].failed]

LEMMA CommitEffect ==
    ASSUME LocalInv, NEW t \in Threads, Commit(t)
    PROVE  Reset(t) /\ thread'[t].failed = thread[t].failed
<1>1. thread = [u \in Threads |-> thread[u]] /\ IsLocal(thread[t])
  BY DEF LocalInv, LocalOK
<1> QED BY <1>1 DEF Commit, Over, Reset, Others, IsLocal, Idle

LEMMA RaiseEffect ==
    ASSUME LocalInv, NEW t \in Threads, Raise(t)
    PROVE  /\ Reset(t) /\ thread'[t].failed = thread[t].failed \cup {thread[t].calls}
           /\ UNCHANGED <<now, db, table>>
<1>1. thread = [u \in Threads |-> thread[u]] /\ IsLocal(thread[t])
  BY DEF LocalInv, LocalOK
<1> QED BY <1>1 DEF Raise, Raised, Over, Reset, Others, IsLocal, Idle

LEMMA ReadEffect ==
    ASSUME LocalInv, NEW t \in Threads, Read(t)
    PROVE  /\ thread' = [u \in Threads |-> thread'[u]] /\ Others(t)
           /\ thread[t].pc = "locked" /\ thread[t].work.kind \in Queries
           /\ thread'[t] =
                [pc |-> "idle", work |-> thread[t].work, calls |-> thread[t].calls,
                 called |-> thread[t].called, stamp |-> thread[t].stamp,
                 left |-> thread[t].left, open |-> thread[t].open,
                 known |-> thread[t].known, upto |-> Len(table),
                 answer |-> thread'[t].answer, failed |-> thread[t].failed]
           /\ LET q == thread[t].work
                  recent == {i \in DOMAIN table :
                        HasWindow(q) => Since(thread[t].called - Window, table[i].ts)}
              IN  thread'[t].answer \in Answers(q, Selected(q, recent))
           /\ thread'[t].pc = "idle" /\ thread'[t].open = thread[t].open
           /\ SameCall(t) /\ thread'[t].upto = Len(table)
           /\ Release(t) /\ UNCHANGED <<now, db, table>>
<1>1. thread = [u \in Threads |-> thread[u]] /\ IsLocal(thread[t])
  BY DEF LocalInv, LocalOK
<1> DEFINE q == thread[t].work
           recent == {i \in DOMAIN table :
                        HasWindow(q) => Since(thread[t].called - Window, table[i].ts)}
<1>2. PICK a \in Answers(q, Selected(q, recent)) :
        thread' = [thread EXCEPT ![t].pc = "idle", ![t].answer = a, ![t].upto = Len(table)]
  BY Zenon DEF Read
<1>3. /\ thread[t].pc = "locked" /\ thread[t].work.kind \in Queries
      /\ Release(t) /\ UNCHANGED <<now, db, table>>
  BY Zenon DEF Read
<1> HIDE DEF recent
<1>4. /\ thread' = [u \in Threads |-> thread'[u]] /\ Others(t)
      /\ thread'[t].answer = a
      /\ thread'[t] =
                [pc |-> "idle", work |-> thread[t].work, calls |-> thread[t].calls,
                 called |-> thread[t].called, stamp |-> thread[t].stamp,
                 left |-> thread[t].left, open |-> thread[t].open,
                 known |-> thread[t].known, upto |-> Len(table),
                 answer |-> thread'[t].answer, failed |-> thread[t].failed]
  BY <1>1, <1>2 DEF Others, IsLocal
<1>5. /\ thread'[t].pc = "idle" /\ thread'[t].open = thread[t].open
      /\ SameCall(t) /\ thread'[t].upto = Len(table)
  BY <1>4 DEF SameCall
<1> QED BY <1>2, <1>3, <1>4, <1>5, Zenon DEF recent

-----------------------------------------------------------------------------
(* Type and lock discipline *)

\* Whoever is in a call holds the lock of its store, and nobody else does.
LockInv ==
    /\ \A u \in Threads : thread[u].pc = "locked" => lock[StoreOf(u)] = u
    /\ \A s \in Stores : lock[s] # None =>
        /\ lock[s] \in Threads /\ thread[lock[s]].pc = "locked"
        /\ StoreOf(lock[s]) = s

\* Rows wait for a commit on files only, in a call that holds a lock, and for one thread only.
OpenInv ==
    /\ \A t, u \in Threads : thread[t].open # <<>> /\ thread[u].open # <<>> => t = u
    /\ \A t \in Threads : db.memory \/ thread[t].pc # "locked" => thread[t].open = <<>>

LEMMA StoreIsOne == ASSUME LocalInv, NEW t \in Threads PROVE StoreOf(t) \in Stores
BY DEF LocalInv, StoreOf, Stores

LEMMA RowIsRow ==
    ASSUME LocalInv, NEW t \in Threads, thread[t].pc = "locked", thread[t].left # <<>>,
           Head(thread[t].left).bindable
    PROVE  /\ Row(t, Head(thread[t].left)) \in Rows
           /\ Row(t, Head(thread[t].left)).called <= Row(t, Head(thread[t].left)).ts
<1>1. PICK r : r = Head(thread[t].left)
  OBVIOUS
<1>2. r \in Records
  BY <1>1 DEF LocalInv, LocalOK
<1>3. r.amount \in Int \cup {None}
  BY <1>1, <1>2, RecordsHoldAmounts
<1>4. PICK n : n = Len(thread[t].work.records)
  OBVIOUS
<1>5. n \in Nat
  <2>1. thread[t].work \in Works[t] /\ thread[t].work.kind \in Writes
    BY DEF LocalInv, LocalOK
  <2>2. thread[t].work.records \in Seq(Records)
    BY <2>1, RecordsOfWork
  <2> HIDE DEF Records
  <2> QED BY <1>4, <2>2
<1>6. /\ thread[t].stamp \in Nat /\ thread[t].called \in Nat /\ thread[t].calls \in Nat
      /\ thread[t].called <= thread[t].stamp
  BY DEF LocalInv, LocalOK
<1>7. Row(t, r) =
        [agent |-> r.agent, passed |-> r.passed, tool |-> r.tool, risk |-> r.risk,
         amount |-> r.amount, ts |-> thread[t].stamp, called |-> thread[t].called,
         op |-> <<t, thread[t].calls>>, size |-> n]
  BY <1>4, Zenon DEF Row
<1> HIDE DEF Records
<1>8. Row(t, r) \in Rows
  BY <1>2, <1>3, <1>5, <1>6, <1>7 DEF Rows
<1> QED BY <1>1, <1>6, <1>7, <1>8

\* The local variables of a thread that does not move stay right.
LEMMA StaysOK ==
    ASSUME NEW u, NEW l, NEW n \in Int, NEW m \in Int, NEW len \in Int, NEW more \in Int,
           LocalOK(u, l, n, len), n <= m, len <= more
    PROVE  LocalOK(u, l, m, more)
<1> HIDE DEF Records, Rows, Stamped
<1>1. l.known \in Int /\ l.upto \in Int /\ l.called \in Int
  BY DEF LocalOK
<1>2. l.called <= m /\ l.known <= more /\ l.upto <= more
  BY <1>1 DEF LocalOK
<1> QED BY <1>2, Zenon DEF LocalOK

LEMMA ResetOK ==
    ASSUME LocalInv, NEW t \in Threads, Reset(t), NEW len \in Nat
    PROVE  LocalOK(t, thread'[t], now, len)
<1>1. thread[t].calls \in Nat /\ now \in Nat
  BY AgentStateAssumption DEF LocalInv, LocalOK
<1>2. PICK fs : fs = thread'[t].failed
  OBVIOUS
<1>3. thread'[t] = [pc |-> "idle", work |-> None, calls |-> thread[t].calls, called |-> 0,
                    stamp |-> 0, left |-> <<>>, open |-> <<>>, known |-> 0, upto |-> 0,
                    answer |-> None, failed |-> fs]
  BY <1>2 DEF Reset, Idle
<1> HIDE DEF Records, Rows
<1>4. <<>> \in Seq(Records) /\ <<>> \in Seq(Rows) /\ Stamped(<<>>)
  BY DEF Stamped
<1> QED BY <1>1, <1>3, <1>4 DEF LocalOK, IsLocal

LEMMA LocalStep ==
    ASSUME LocalInv, NEW t \in Threads, Others(t),
           thread' = [u \in Threads |-> thread'[u]], UNCHANGED <<now, db>>,
           table' \in Seq(Rows), Stamped(table'), Len(table) <= Len(table'),
           lock' = [s \in Stores |-> lock'[s]],
           LocalOK(t, thread'[t], now, Len(table'))
    PROVE  LocalInv'
<1> HIDE DEF Rows
<1>1. now \in Int /\ Len(table) \in Int /\ Len(table') \in Int
  BY AgentStateAssumption DEF LocalInv
<1>2. ASSUME NEW u \in Threads PROVE LocalOK(u, thread'[u], now', Len(table'))
  <2>1. CASE u = t
    BY <2>1
  <2>2. CASE u # t
    <3>1. LocalOK(u, thread[u], now, Len(table)) /\ thread'[u] = thread[u] /\ now' = now
      BY <2>2 DEF LocalInv, Others
    <3>2. LocalOK(u, thread[u], now, Len(table'))
      BY <1>1, <3>1, StaysOK
    <3> QED BY <3>1, <3>2
  <2> QED BY <2>1, <2>2
<1>3. /\ now' \in 0..MaxTime /\ db' \in Deployments
  BY DEF LocalInv
<1> HIDE DEF LocalOK, Stamped
<1> QED BY <1>2, <1>3, Zenon DEF LocalInv

LEMMA TypesByCall ==
    ASSUME LocalInv, NEW t \in Threads, NEW w \in Works[t], Call(t, w)
    PROVE  LocalInv'
<1>1. PICK left : left = IF w.kind \in Writes THEN w.records ELSE <<>>
  OBVIOUS
<1>2. PICK n : n = Len(table)
  OBVIOUS
<1>3. /\ thread' = [u \in Threads |-> thread'[u]] /\ Others(t)
      /\ thread'[t] =
            [pc |-> "wait", work |-> w, calls |-> thread[t].calls + 1, called |-> now,
             stamp |-> now, left |-> left, open |-> thread[t].open, known |-> n,
             upto |-> thread[t].upto, answer |-> None, failed |-> thread[t].failed]
      /\ UNCHANGED <<now, db, table, lock>>
  BY <1>1, <1>2, CallEffect, Zenon
<1>4. left \in Seq(Records) /\ (left # <<>> => w.kind \in Writes)
  BY <1>1, RecordsOfWork
<1> HIDE DEF Records, Rows
<1>5. n \in Nat /\ now \in Nat
  BY <1>2, AgentStateAssumption DEF LocalInv
<1>6. /\ thread[t].open \in Seq(Rows) /\ Stamped(thread[t].open)
      /\ thread[t].upto \in Nat /\ thread[t].upto <= n /\ thread[t].calls \in Nat
  BY <1>2 DEF LocalInv, LocalOK
<1>7. thread[t].open = <<>>
  <2>1. thread[t].pc = "idle"
    BY CallEffect, Zenon
  <2> QED BY <2>1 DEF LocalInv, LocalOK
<1>8. LocalOK(t, thread'[t], now, n)
  BY <1>3, <1>4, <1>5, <1>6, <1>7 DEF LocalOK, IsLocal
<1>9. /\ table' \in Seq(Rows) /\ Stamped(table') /\ Len(table') = n /\ Len(table) <= n
      /\ lock' = [s \in Stores |-> lock'[s]] /\ UNCHANGED <<now, db>>
  BY <1>2, <1>3, <1>5 DEF LocalInv
<1> QED BY <1>3, <1>8, <1>9, LocalStep

LEMMA TypesByAcquire ==
    ASSUME LocalInv, NEW t \in Threads, Acquire(t)
    PROVE  LocalInv'
<1>1. PICK stamp : stamp = IF thread[t].work.kind = "record_decision" THEN now
                           ELSE thread[t].stamp
  OBVIOUS
<1>2. /\ thread' = [u \in Threads |-> thread'[u]] /\ Others(t)
      /\ thread[t].pc = "wait"
      /\ thread'[t] =
            [pc |-> "locked", work |-> thread[t].work, calls |-> thread[t].calls,
             called |-> thread[t].called, stamp |-> stamp, left |-> thread[t].left,
             open |-> thread[t].open, known |-> thread[t].known,
             upto |-> thread[t].upto, answer |-> thread[t].answer,
             failed |-> thread[t].failed]
      /\ UNCHANGED <<now, db, table>>
  BY <1>1, AcquireEffect, Zenon
<1>3. LocalOK(t, thread[t], now, Len(table)) /\ now \in Nat
  BY AgentStateAssumption DEF LocalInv
<1> HIDE DEF Records, Rows
<1>4. stamp \in Nat /\ thread[t].called <= stamp
  BY <1>1, <1>3 DEF LocalOK
<1>5. LocalOK(t, thread'[t], now, Len(table))
  BY <1>2, <1>3, <1>4 DEF LocalOK, IsLocal
<1>6. lock' = [s \in Stores |-> lock'[s]]
  BY DEF LocalInv, Acquire
<1>7. /\ table' \in Seq(Rows) /\ Stamped(table') /\ Len(table') = Len(table)
      /\ Len(table) <= Len(table') /\ UNCHANGED <<now, db>>
  BY <1>2 DEF LocalInv
<1> QED BY <1>2, <1>5, <1>6, <1>7, LocalStep

\* A row at the end of stamped rows leaves them stamped.
LEMMA StampedAppend ==
    ASSUME NEW rows \in Seq(Rows), Stamped(rows), NEW r \in Rows, r.called <= r.ts
    PROVE  /\ Append(rows, r) \in Seq(Rows) /\ Stamped(Append(rows, r))
           /\ Len(Append(rows, r)) = Len(rows) + 1
<1> HIDE DEF Rows
<1> QED BY DEF Stamped

LEMMA TypesByInsert ==
    ASSUME LocalInv, NEW t \in Threads, Insert(t)
    PROVE  LocalInv'
<1>1. PICK row, rest, open :
        /\ row = Row(t, Head(thread[t].left)) /\ rest = Tail(thread[t].left)
        /\ open = thread'[t].open
  OBVIOUS
<1>2. /\ thread' = [u \in Threads |-> thread'[u]] /\ Others(t)
      /\ thread[t].pc = "locked" /\ thread[t].left # <<>>
      /\ Head(thread[t].left).bindable
      /\ thread'[t] =
            [pc |-> "locked", work |-> thread[t].work, calls |-> thread[t].calls,
             called |-> thread[t].called, stamp |-> thread[t].stamp, left |-> rest,
             open |-> open, known |-> thread[t].known, upto |-> thread[t].upto,
             answer |-> thread[t].answer, failed |-> thread[t].failed]
      /\ \/ table' = Append(table, row) /\ open = thread[t].open
         \/ table' = table /\ open = Append(thread[t].open, row)
      /\ UNCHANGED <<now, db, lock>>
  BY <1>1, InsertEffect, Zenon
<1>3. LocalOK(t, thread[t], now, Len(table)) /\ now \in Nat
      /\ table \in Seq(Rows) /\ Stamped(table)
  BY AgentStateAssumption DEF LocalInv
<1>4. row \in Rows /\ row.called <= row.ts
  BY <1>1, <1>2, RowIsRow
<1> HIDE DEF Records, Rows
<1>5. rest \in Seq(Records) /\ thread[t].work.kind \in Writes
  BY <1>1, <1>2, <1>3 DEF LocalOK
<1>6. thread[t].open \in Seq(Rows) /\ Stamped(thread[t].open)
  BY <1>3 DEF LocalOK
<1>7. /\ table' \in Seq(Rows) /\ Stamped(table') /\ open \in Seq(Rows) /\ Stamped(open)
      /\ Len(table) <= Len(table')
  <2>1. CASE table' = Append(table, row) /\ open = thread[t].open
    <3>1. /\ Append(table, row) \in Seq(Rows) /\ Stamped(Append(table, row))
          /\ Len(Append(table, row)) = Len(table) + 1
      BY <1>3, <1>4, StampedAppend
    <3>2. Len(table) \in Nat
      BY <1>3
    <3> HIDE DEF Stamped
    <3> QED BY <1>6, <2>1, <3>1, <3>2
  <2>2. CASE table' = table /\ open = Append(thread[t].open, row)
    <3>1. /\ Append(thread[t].open, row) \in Seq(Rows)
          /\ Stamped(Append(thread[t].open, row))
      BY <1>4, <1>6, StampedAppend
    <3>2. Len(table) \in Nat
      BY <1>3
    <3> HIDE DEF Stamped
    <3> QED BY <1>3, <2>2, <3>1, <3>2
  <2> QED BY <1>2, <2>1, <2>2
<1>8. PICK more : more = Len(table') /\ more \in Nat
  BY <1>7
<1>9. LocalOK(t, thread[t], now, more)
  BY <1>3, <1>7, <1>8, StaysOK
<1>10. LocalOK(t, thread'[t], now, more)
  BY <1>2, <1>5, <1>7, <1>9 DEF LocalOK, IsLocal
<1>11. lock' = [s \in Stores |-> lock'[s]]
  BY <1>2 DEF LocalInv
<1> QED BY <1>2, <1>7, <1>8, <1>10, <1>11, LocalStep

LEMMA StampedConcat ==
    ASSUME NEW rows \in Seq(Rows), Stamped(rows), NEW more \in Seq(Rows), Stamped(more)
    PROVE  /\ rows \o more \in Seq(Rows) /\ Stamped(rows \o more)
           /\ Len(rows) <= Len(rows \o more)
<1> HIDE DEF Rows
<1> QED BY DEF Stamped

LEMMA TypesByCommit ==
    ASSUME LocalInv, NEW t \in Threads, Commit(t)
    PROVE  LocalInv'
<1>1. Reset(t)
  BY CommitEffect
<1>2. /\ table' = table \o thread[t].open /\ UNCHANGED <<now, db>>
      /\ lock' = [s \in Stores |-> lock'[s]]
  BY DEF Commit, Release, LocalInv
<1>3. /\ table \in Seq(Rows) /\ Stamped(table)
      /\ thread[t].open \in Seq(Rows) /\ Stamped(thread[t].open)
  BY DEF LocalInv, LocalOK
<1> HIDE DEF Rows
<1>4. table' \in Seq(Rows) /\ Stamped(table') /\ Len(table) <= Len(table')
  BY <1>2, <1>3, StampedConcat
<1>5. LocalOK(t, thread'[t], now, Len(table'))
  BY <1>1, <1>4, ResetOK
<1> QED BY <1>1, <1>2, <1>4, <1>5, LocalStep DEF Reset

LEMMA TypesByRaise ==
    ASSUME LocalInv, NEW t \in Threads, Raise(t)
    PROVE  LocalInv'
<1>1. Reset(t) /\ UNCHANGED <<now, db, table>>
  BY RaiseEffect
<1>2. lock' = [s \in Stores |-> lock'[s]]
  BY DEF Raise, Release, LocalInv
<1>3. table \in Seq(Rows) /\ Stamped(table)
  BY DEF LocalInv
<1> HIDE DEF Rows
<1>4. table' \in Seq(Rows) /\ Stamped(table') /\ Len(table) <= Len(table')
  BY <1>1, <1>3
<1>5. LocalOK(t, thread'[t], now, Len(table'))
  BY <1>1, <1>4, ResetOK
<1> QED BY <1>1, <1>2, <1>4, <1>5, LocalStep DEF Reset

LEMMA TypesByRead ==
    ASSUME LocalInv, NEW t \in Threads, Read(t)
    PROVE  LocalInv'
<1>1. PICK a, n : a = thread'[t].answer /\ n = Len(table)
  OBVIOUS
<1>2. /\ thread' = [u \in Threads |-> thread'[u]] /\ Others(t)
      /\ thread[t].pc = "locked" /\ thread[t].work.kind \in Queries
      /\ thread'[t] =
            [pc |-> "idle", work |-> thread[t].work, calls |-> thread[t].calls,
             called |-> thread[t].called, stamp |-> thread[t].stamp,
             left |-> thread[t].left, open |-> thread[t].open,
             known |-> thread[t].known, upto |-> n, answer |-> a,
             failed |-> thread[t].failed]
      /\ Release(t) /\ UNCHANGED <<now, db, table>>
  BY <1>1, ReadEffect, Zenon
<1>3. LocalOK(t, thread[t], now, n)
  BY <1>1 DEF LocalInv
<1>4. n \in Nat /\ table \in Seq(Rows) /\ Stamped(table)
  BY <1>1 DEF LocalInv
<1> HIDE DEF Records, Rows
<1>5. /\ thread[t].open = <<>> /\ thread[t].left = <<>>
  <2>1. thread[t].left # <<>> \/ thread[t].open # <<>> => thread[t].work.kind \in Writes
    BY <1>3 DEF LocalOK
  <2> QED BY <1>2, <2>1 DEF Writes, Queries
<1>6. LocalOK(t, thread'[t], now, n)
  BY <1>2, <1>3, <1>4, <1>5 DEF LocalOK, IsLocal
<1>7. lock' = [s \in Stores |-> lock'[s]]
  BY <1>2 DEF Release, LocalInv
<1>8. table' \in Seq(Rows) /\ Stamped(table') /\ Len(table) <= Len(table') /\ n = Len(table')
  BY <1>1, <1>2, <1>4
<1> QED BY <1>2, <1>6, <1>7, <1>8, LocalStep

LEMMA TypesByTick ==
    ASSUME LocalInv, Tick
    PROVE  LocalInv'
<1>1. now' = now + 1 /\ now' \in 0..MaxTime /\ UNCHANGED <<db, table, lock, thread>>
  BY AgentStateAssumption DEF Tick, LocalInv
<1> HIDE DEF Rows
<1>2. now \in Int /\ now' \in Int /\ now <= now' /\ Len(table) \in Int
  BY <1>1, AgentStateAssumption DEF LocalInv
<1>3. \A u \in Threads : LocalOK(u, thread[u], now', Len(table))
  BY <1>2, StaysOK DEF LocalInv
<1> HIDE DEF LocalOK, Stamped
<1> QED BY <1>1, <1>3 DEF LocalInv

LEMMA TypesAreInductive == LocalInv /\ [Next]_vars => LocalInv'
<1> SUFFICES ASSUME LocalInv, [Next]_vars PROVE LocalInv'
  OBVIOUS
<1>1. CASE Tick
  BY <1>1, TypesByTick
<1>2. ASSUME NEW t \in Threads, NEW w \in Works[t], Call(t, w) PROVE LocalInv'
  BY <1>2, TypesByCall
<1>3. ASSUME NEW t \in Threads, Acquire(t) PROVE LocalInv'
  BY <1>3, TypesByAcquire
<1>4. ASSUME NEW t \in Threads, Insert(t) PROVE LocalInv'
  BY <1>4, TypesByInsert
<1>5. ASSUME NEW t \in Threads, Reject(t) \/ Fail(t) PROVE LocalInv'
  BY <1>5, TypesByRaise DEF Reject, Fail
<1>6. ASSUME NEW t \in Threads, Commit(t) PROVE LocalInv'
  BY <1>6, TypesByCommit
<1>7. ASSUME NEW t \in Threads, Read(t) PROVE LocalInv'
  BY <1>7, TypesByRead
<1>8. CASE UNCHANGED vars
  BY <1>8 DEF vars, LocalInv, LocalOK, Stamped
<1> QED BY <1>1, <1>2, <1>3, <1>4, <1>5, <1>6, <1>7, <1>8, Zenon DEF Next, Proceed

LEMMA TypesInitially == Init => LocalInv
<1> SUFFICES ASSUME Init PROVE LocalInv
  OBVIOUS
<1> HIDE DEF Records, Rows
<1>1. <<>> \in Seq(Records) /\ <<>> \in Seq(Rows) /\ Stamped(<<>>)
  BY DEF Stamped
<1>2. \A u \in Threads : thread[u] = Idle
  BY DEF Init
<1>3. ASSUME NEW u \in Threads PROVE LocalOK(u, thread[u], 0, 0)
  <2>1. thread[u] = [pc |-> "idle", work |-> None, calls |-> 0, called |-> 0, stamp |-> 0,
                     left |-> <<>>, open |-> <<>>, known |-> 0, upto |-> 0,
                     answer |-> None, failed |-> {}]
    BY <1>2 DEF Idle
  <2> QED BY <1>1, <2>1 DEF LocalOK, IsLocal
<1>4. /\ now = 0 /\ 0 \in 0..MaxTime /\ db \in Deployments /\ table = <<>> /\ Len(table) = 0
      /\ lock = [s \in Stores |-> lock[s]] /\ thread = [u \in Threads |-> thread[u]]
  BY AgentStateAssumption DEF Init
<1> HIDE DEF LocalOK, Stamped
<1> QED BY <1>1, <1>3, <1>4 DEF LocalInv

-----------------------------------------------------------------------------
(* The locks *)

LEMMA LockKept ==
    ASSUME LockInv, NEW t \in Threads, Others(t), UNCHANGED <<db, lock>>,
           thread[t].pc = "locked" <=> thread'[t].pc = "locked"
    PROVE  LockInv'
<1>1. \A u \in Threads : thread[u].pc = "locked" <=> thread'[u].pc = "locked"
  BY DEF Others
<1>2. \A u \in Threads : StoreOf(u)' = StoreOf(u)
  BY DEF StoreOf
<1> QED BY <1>1, <1>2 DEF LockInv, Stores

LEMMA LockFreed ==
    ASSUME LocalInv, LockInv, NEW t \in Threads, Others(t), UNCHANGED db,
           thread[t].pc = "locked", thread'[t].pc # "locked", Release(t)
    PROVE  LockInv'
<1>1. PICK s : s = StoreOf(t) /\ s \in Stores
  BY StoreIsOne
<1>2. lock' = [lock EXCEPT ![s] = None] /\ lock = [x \in Stores |-> lock[x]]
  BY <1>1 DEF Release, LocalInv
<1>3. \A u \in Threads : StoreOf(u)' = StoreOf(u) /\ StoreOf(u) \in Stores
  BY StoreIsOne DEF StoreOf
<1>4. lock[s] = t
  BY <1>1 DEF LockInv
<1>5. \A x \in Stores : lock'[x] = IF x = s THEN None ELSE lock[x]
  BY <1>2
<1>6. ASSUME NEW u \in Threads, thread'[u].pc = "locked" PROVE lock'[StoreOf(u)] = u
  <2>1. u # t /\ thread[u].pc = "locked"
    BY <1>6 DEF Others
  <2>2. lock[StoreOf(u)] = u
    BY <2>1 DEF LockInv
  <2> QED BY <1>3, <1>4, <1>5, <2>1, <2>2
<1>7. ASSUME NEW x \in Stores, lock'[x] # None
      PROVE  lock'[x] \in Threads /\ thread'[lock'[x]].pc = "locked" /\ StoreOf(lock'[x]) = x
  <2>1. x # s /\ lock'[x] = lock[x] /\ lock[x] # None
    BY <1>5, <1>7
  <2>2. lock[x] \in Threads /\ thread[lock[x]].pc = "locked" /\ StoreOf(lock[x]) = x
    BY <2>1 DEF LockInv
  <2>3. lock[x] # t
    BY <1>1, <2>1, <2>2
  <2> QED BY <2>1, <2>2, <2>3 DEF Others
<1> QED BY <1>3, <1>6, <1>7 DEF LockInv, Stores

LEMMA LockTaken ==
    ASSUME LocalInv, LockInv, NEW t \in Threads, Others(t), UNCHANGED db,
           thread'[t].pc = "locked", Acquire(t)
    PROVE  LockInv'
<1>1. PICK s : s = StoreOf(t) /\ s \in Stores
  BY StoreIsOne
<1>2. /\ lock' = [lock EXCEPT ![s] = t] /\ lock = [x \in Stores |-> lock[x]]
      /\ lock[s] = None
  BY <1>1 DEF Acquire, LocalInv
<1>3. \A u \in Threads : StoreOf(u)' = StoreOf(u) /\ StoreOf(u) \in Stores
  BY StoreIsOne DEF StoreOf
<1>4. \A x \in Stores : lock'[x] = IF x = s THEN t ELSE lock[x]
  BY <1>2
<1>5. ASSUME NEW u \in Threads, thread'[u].pc = "locked" PROVE lock'[StoreOf(u)] = u
  <2>1. CASE u = t
    BY <1>1, <1>4, <2>1
  <2>2. CASE u # t
    <3>1. thread[u].pc = "locked"
      BY <1>5, <2>2 DEF Others
    <3>2. lock[StoreOf(u)] = u
      BY <3>1 DEF LockInv
    <3>3. u # None
      BY AgentStateAssumption
    <3> QED BY <1>2, <1>3, <1>4, <3>2, <3>3
  <2> QED BY <2>1, <2>2
<1>6. ASSUME NEW x \in Stores, lock'[x] # None
      PROVE  lock'[x] \in Threads /\ thread'[lock'[x]].pc = "locked" /\ StoreOf(lock'[x]) = x
  <2>1. CASE x = s
    BY <1>1, <1>4, <2>1
  <2>2. CASE x # s
    <3>1. lock'[x] = lock[x] /\ lock[x] # None
      BY <1>4, <1>6, <2>2
    <3>2. lock[x] \in Threads /\ thread[lock[x]].pc = "locked" /\ StoreOf(lock[x]) = x
      BY <3>1 DEF LockInv
    <3>3. lock[x] # t
      BY <1>1, <2>2, <3>2
    <3> QED BY <3>1, <3>2, <3>3 DEF Others
  <2> QED BY <2>1, <2>2
<1> QED BY <1>3, <1>5, <1>6 DEF LockInv, Stores

LEMMA OpenKept ==
    ASSUME OpenInv, NEW t \in Threads, Others(t), UNCHANGED db,
           \/ thread'[t].open = <<>>
           \/ thread'[t].open = thread[t].open /\ thread'[t].pc = thread[t].pc
    PROVE  OpenInv'
BY DEF OpenInv, Others

LEMMA LocksAreInductive ==
    LocalInv /\ LockInv /\ OpenInv /\ [Next]_vars => LockInv' /\ OpenInv'
<1> SUFFICES ASSUME LocalInv, LockInv, OpenInv, [Next]_vars PROVE LockInv' /\ OpenInv'
  OBVIOUS
<1>1. CASE UNCHANGED <<db, lock, thread>>
  BY <1>1 DEF LockInv, OpenInv, StoreOf, Stores
<1>2. ASSUME NEW t \in Threads, NEW w \in Works[t], Call(t, w) PROVE LockInv' /\ OpenInv'
  <2>1. /\ Others(t) /\ UNCHANGED <<db, lock>> /\ thread[t].pc = "idle"
        /\ thread'[t].pc = "wait" /\ thread'[t].open = thread[t].open
    BY <1>2, CallEffect, Zenon
  <2>2. thread[t].open = <<>>
    BY <2>1 DEF OpenInv
  <2> QED BY <2>1, <2>2, LockKept, OpenKept
<1>3. ASSUME NEW t \in Threads, Acquire(t) PROVE LockInv' /\ OpenInv'
  <2>1. /\ Others(t) /\ UNCHANGED db /\ thread[t].pc = "wait"
        /\ thread'[t].pc = "locked" /\ thread'[t].open = thread[t].open
    BY <1>3, AcquireEffect, Zenon
  <2>2. thread[t].open = <<>>
    BY <2>1 DEF OpenInv
  <2> QED BY <1>3, <2>1, <2>2, LockTaken, OpenKept
<1>4. ASSUME NEW t \in Threads, Insert(t) PROVE LockInv' /\ OpenInv'
  <2>1. /\ Others(t) /\ UNCHANGED <<db, lock>> /\ thread[t].pc = "locked"
        /\ thread'[t].pc = "locked" /\ Writable(t)
        /\ db.memory => thread'[t].open = thread[t].open
    BY <1>4, InsertEffect, Zenon
  <2>2. CASE db.memory
    BY <2>1, <2>2, LockKept, OpenKept
  <2>3. CASE ~ db.memory
    <3>1. \A u \in Threads \ {t} : thread'[u].open = <<>> /\ thread'[u] = thread[u]
      BY <2>1, <2>3 DEF Writable, Others
    <3>2. OpenInv'
      BY <2>1, <2>3, <3>1 DEF OpenInv
    <3> QED BY <2>1, <3>2, LockKept
  <2> QED BY <2>2, <2>3
<1>5. ASSUME NEW t \in Threads, Reject(t) \/ Fail(t) PROVE LockInv' /\ OpenInv'
  <2>1. Raise(t)
    BY <1>5 DEF Reject, Fail
  <2>2. Reset(t) /\ UNCHANGED db
    BY <2>1, RaiseEffect
  <2>3. Others(t) /\ thread'[t].open = <<>> /\ thread'[t].pc = "idle"
    BY <2>2 DEF Reset, Idle
  <2>4. CASE thread[t].pc = "locked"
    BY <2>1, <2>2, <2>3, <2>4, LockFreed, OpenKept DEF Raise
  <2>5. CASE thread[t].pc # "locked"
    BY <2>1, <2>2, <2>3, <2>5, LockKept, OpenKept DEF Raise
  <2> QED BY <2>4, <2>5
<1>6. ASSUME NEW t \in Threads, Commit(t) PROVE LockInv' /\ OpenInv'
  <2>1. Reset(t) /\ UNCHANGED db /\ thread[t].pc = "locked" /\ Release(t)
    BY <1>6, CommitEffect DEF Commit
  <2>2. Others(t) /\ thread'[t].open = <<>> /\ thread'[t].pc = "idle"
    BY <2>1 DEF Reset, Idle
  <2> QED BY <2>1, <2>2, LockFreed, OpenKept
<1>7. ASSUME NEW t \in Threads, Read(t) PROVE LockInv' /\ OpenInv'
  <2>1. /\ Others(t) /\ UNCHANGED db /\ thread[t].pc = "locked" /\ Release(t)
        /\ thread[t].work.kind \in Queries
        /\ thread'[t].pc = "idle" /\ thread'[t].open = thread[t].open
    BY <1>7, ReadEffect, Zenon
  <2>2. thread[t].open = <<>>
    <3>1. thread[t].open # <<>> => thread[t].work.kind \in Writes
      BY DEF LocalInv, LocalOK
    <3> QED BY <2>1, <3>1 DEF Writes, Queries
  <2> QED BY <2>1, <2>2, LockFreed, OpenKept
<1> QED
  BY <1>1, <1>2, <1>3, <1>4, <1>5, <1>6, <1>7, Zenon DEF Next, Proceed, Tick, vars

LEMMA LocksInitially == Init => LockInv /\ OpenInv
<1> SUFFICES ASSUME Init PROVE LockInv /\ OpenInv
  OBVIOUS
<1>1. \A u \in Threads : thread[u].pc = "idle" /\ thread[u].open = <<>>
  BY DEF Init, Idle
<1>2. \A s \in Stores : lock[s] = None
  BY DEF Init
<1> QED BY <1>1, <1>2 DEF LockInv, OpenInv

BaseInv == LocalInv /\ LockInv /\ OpenInv

LEMMA BaseHolds == Spec => []BaseInv
<1>1. Init => BaseInv
  BY TypesInitially, LocksInitially DEF BaseInv
<1>2. BaseInv /\ [Next]_vars => BaseInv'
  BY TypesAreInductive, LocksAreInductive DEF BaseInv
<1> QED BY <1>1, <1>2, PTL DEF Spec

LEMMA BaseIsTyped == BaseInv => TypeOK
<1> SUFFICES ASSUME BaseInv PROVE TypeOK
  OBVIOUS
<1>1. /\ now \in 0..MaxTime /\ db \in Deployments /\ lock = [s \in Stores |-> lock[s]]
  BY DEF BaseInv, LocalInv
<1>2. DOMAIN lock = Stores
  BY <1>1
<1>3. ASSUME NEW s \in Stores
      PROVE  {t \in Threads : thread[t].pc = "locked" /\ StoreOf(t) = s} =
                (IF lock[s] = None THEN {} ELSE {lock[s]})
  <2>1. \A t \in Threads : thread[t].pc = "locked" /\ StoreOf(t) = s =>
            lock[s] = t /\ t # None
    BY AgentStateAssumption DEF BaseInv, LockInv
  <2>2. lock[s] # None =>
            lock[s] \in Threads /\ thread[lock[s]].pc = "locked" /\ StoreOf(lock[s]) = s
    BY DEF BaseInv, LockInv
  <2> QED BY <2>1, <2>2
<1>4. \A t \in Threads :
        /\ thread[t].pc \in {"idle", "wait", "locked"}
        /\ thread[t].known <= Len(table) /\ thread[t].upto <= Len(table)
  BY DEF BaseInv, LocalInv, LocalOK
<1> QED BY <1>1, <1>2, <1>3, <1>4, Zenon DEF TypeOK, BaseInv, OpenInv

\* The type invariant: whoever calls what, and fails wherever, each lock is held by the
\* one call that is inside it, and one transaction at most is open on a file
\* (`with self._lock`, state.py:75).
THEOREM TypeCorrect == Spec => []TypeOK
BY BaseHolds, BaseIsTyped, PTL

-----------------------------------------------------------------------------
(* Sums of amounts *)

\* A set of numbers has a least one.
LEMMA LeastNumber ==
    ASSUME NEW S \in SUBSET Nat, S # {}
    PROVE  \E n \in S : \A m \in S : n <= m
<1>1. PICK n \in S : \A m \in S : ~ (<<m, n>> \in OpToRel(<, Nat))
  BY NatLessThanWellFounded, WFMin
<1>2. ASSUME NEW m \in S PROVE n <= m
  <2>1. <<m, n>> \in Nat \X Nat
    OBVIOUS
  <2>2. ~ (m < n)
    BY <1>1, <2>1 DEF OpToRel
  <2> QED BY <2>2
<1> QED BY <1>2

\* A set of numbers that holds 0, and the successor of each number it holds, holds all.
LEMMA AllNumbers ==
    ASSUME NEW S, 0 \in S, \A n \in Nat : n \in S => n + 1 \in S
    PROVE  Nat \subseteq S
<1> SUFFICES ASSUME Nat \ S # {} PROVE FALSE
  OBVIOUS
<1>1. PICK n \in Nat \ S : \A m \in Nat \ S : n <= m
  BY LeastNumber
<1>2. n # 0 /\ n - 1 \in Nat
  BY <1>1
<1>3. n - 1 \in S
  BY <1>1, <1>2
<1> QED BY <1>2, <1>3

Weight(tab, rows, i) == IF i \in rows THEN tab[i].amount ELSE 0

IsSum(tab, rows, n, f) ==
    f = [i \in 0..n |-> IF i = 0 THEN 0 ELSE f[i - 1] + Weight(tab, rows, i)]

LEMMA SumExists ==
    ASSUME NEW tab, NEW rows, NEW m \in Nat
    PROVE  \E f : IsSum(tab, rows, m, f)
<1> DEFINE S == {n \in Nat : \E f : IsSum(tab, rows, n, f)}
<1>1. 0 \in S
  <2> DEFINE f == [i \in 0..0 |-> 0]
  <2>1. IsSum(tab, rows, 0, f)
    BY DEF IsSum
  <2> QED BY <2>1
<1>2. ASSUME NEW n \in Nat, n \in S PROVE n + 1 \in S
  <2>1. PICK f : IsSum(tab, rows, n, f)
    BY <1>2
  <2>2. PICK x : x = f[n] + Weight(tab, rows, n + 1)
    OBVIOUS
  <2> DEFINE g == [i \in 0..(n + 1) |-> IF i = n + 1 THEN x ELSE f[i]]
  <2>3. ASSUME NEW i \in 0..(n + 1)
        PROVE  g[i] = IF i = 0 THEN 0 ELSE g[i - 1] + Weight(tab, rows, i)
    <3>1. CASE i = n + 1
      <4>1. g[i] = x /\ i # 0 /\ i - 1 = n /\ g[i - 1] = f[n]
        BY <3>1
      <4> QED BY <2>2, <3>1, <4>1
    <3>2. CASE i # n + 1
      <4>1. i \in 0..n /\ g[i] = f[i]
        BY <3>2
      <4>2. f[i] = IF i = 0 THEN 0 ELSE f[i - 1] + Weight(tab, rows, i)
        BY <2>1, <4>1 DEF IsSum
      <4>3. i # 0 => i - 1 \in 0..(n + 1) /\ i - 1 # n + 1
        BY <4>1
      <4>4. i # 0 => g[i - 1] = f[i - 1]
        BY <4>3
      <4> HIDE DEF g
      <4> QED BY <4>1, <4>2, <4>4, Zenon
    <3> QED BY <3>1, <3>2
  <2>4. IsSum(tab, rows, n + 1, g)
    BY <2>3 DEF IsSum
  <2> QED BY <2>4
<1> HIDE DEF S
<1>3. m \in S
  BY <1>1, <1>2, AllNumbers
<1> QED BY <1>3 DEF S

\* Sums of the same rows agree as far as the tables do.
LEMMA SumsAgree ==
    ASSUME NEW tab, NEW more, NEW rows, NEW n \in Nat, NEW m \in Nat, NEW f, NEW g, NEW k \in Nat,
           k <= n, k <= m, IsSum(tab, rows, n, f), IsSum(more, rows, m, g),
           \A i \in 1..k : Weight(tab, rows, i) = Weight(more, rows, i)
    PROVE  f[k] = g[k]
<1> DEFINE S == {j \in Nat : j <= k => f[j] = g[j]}
<1>1. 0 \in S
  BY DEF IsSum
<1>2. ASSUME NEW j \in Nat, j \in S PROVE j + 1 \in S
  <2> SUFFICES ASSUME j + 1 <= k PROVE f[j + 1] = g[j + 1]
    OBVIOUS
  <2>1. /\ j + 1 \in 0..n /\ j + 1 \in 0..m /\ j + 1 \in 1..k /\ j + 1 # 0
        /\ (j + 1) - 1 = j /\ f[j] = g[j]
    BY <1>2
  <2>2. f[j + 1] = f[j] + Weight(tab, rows, j + 1)
    BY <2>1 DEF IsSum
  <2>3. g[j + 1] = g[j] + Weight(more, rows, j + 1)
    BY <2>1 DEF IsSum
  <2> QED BY <2>1, <2>2, <2>3, Zenon
<1> HIDE DEF S
<1>3. k \in S
  BY <1>1, <1>2, AllNumbers
<1> QED BY <1>3 DEF S

\* Beyond the last of the rows a sum does not change.
LEMMA SumIsFlat ==
    ASSUME NEW tab, NEW n \in Nat, NEW m \in Nat, NEW rows \in SUBSET (1..n), NEW f,
           n <= m, IsSum(tab, rows, m, f), \A i \in rows : tab[i].amount \in Int
    PROVE  f[m] = f[n]
<1>1. \A i : Weight(tab, rows, i) \in Int /\ (i \notin rows => Weight(tab, rows, i) = 0)
  <2> TAKE i
  <2>1. CASE i \in rows
    <3>1. Weight(tab, rows, i) = tab[i].amount /\ tab[i].amount \in Int
      BY <2>1, Zenon DEF Weight
    <3> QED BY <2>1, <3>1
  <2>2. CASE i \notin rows
    BY <2>2 DEF Weight
  <2> QED BY <2>1, <2>2
<1> DEFINE S == {j \in Nat : j <= m => f[j] \in Int /\ (j >= n => f[j] = f[n])}
<1>2. 0 \in S
  <2>1. f[0] = 0
    BY DEF IsSum
  <2> QED BY <2>1
<1>3. ASSUME NEW j \in Nat, j \in S PROVE j + 1 \in S
  <2> SUFFICES ASSUME j + 1 <= m
               PROVE  f[j + 1] \in Int /\ (j + 1 >= n => f[j + 1] = f[n])
    OBVIOUS
  <2>1. /\ j + 1 \in 0..m /\ j + 1 # 0 /\ (j + 1) - 1 = j
        /\ f[j] \in Int /\ (j >= n => f[j] = f[n])
    BY <1>3
  <2>2. f[j + 1] = f[j] + Weight(tab, rows, j + 1)
    BY <2>1 DEF IsSum
  <2>3. j >= n => Weight(tab, rows, j + 1) = 0
    BY <1>1
  <2>4. f[j + 1] \in Int
    BY <1>1, <2>1, <2>2
  <2>5. CASE j >= n
    BY <2>1, <2>2, <2>3, <2>4, <2>5
  <2>6. CASE j < n
    <3>1. j + 1 >= n => j + 1 = n
      BY <2>6
    <3> QED BY <2>4, <3>1
  <2> QED BY <2>5, <2>6
<1> HIDE DEF S
<1>4. m \in S
  BY <1>2, <1>3, AllNumbers
<1> QED BY <1>4 DEF S

\* TotalAmount of a table that is a parameter.
TotalOf(tab, rows) ==
    LET sum[i \in 0..Len(tab)] ==
            IF i = 0 THEN 0 ELSE sum[i - 1] + (IF i \in rows THEN tab[i].amount ELSE 0)
    IN  sum[Len(tab)]

LEMMA TotalIsSum ==
    ASSUME NEW rows, NEW tab, Len(tab) \in Nat
    PROVE  \E f : IsSum(tab, rows, Len(tab), f) /\ TotalOf(tab, rows) = f[Len(tab)]
<1>1. \E f : f = [i \in 0..Len(tab) |->
                    IF i = 0 THEN 0
                    ELSE f[i - 1] + (IF i \in rows THEN tab[i].amount ELSE 0)]
  <2>1. \E f : IsSum(tab, rows, Len(tab), f)
    BY SumExists
  <2> QED BY <2>1, Zenon DEF IsSum, Weight
<1>2. PICK f :
        /\ f = CHOOSE s : s = [i \in 0..Len(tab) |->
                    IF i = 0 THEN 0
                    ELSE s[i - 1] + (IF i \in rows THEN tab[i].amount ELSE 0)]
        /\ f = [i \in 0..Len(tab) |->
                    IF i = 0 THEN 0
                    ELSE f[i - 1] + (IF i \in rows THEN tab[i].amount ELSE 0)]
  BY <1>1, Zenon
<1>3. TotalOf(tab, rows) = f[Len(tab)]
  BY <1>2, Zenon DEF TotalOf
<1>4. IsSum(tab, rows, Len(tab), f)
  BY <1>2, Zenon DEF IsSum, Weight
<1> QED BY <1>3, <1>4, Zenon

-----------------------------------------------------------------------------
(* Answers do not change when the table grows *)

TableGrows ==
    /\ Len(table) \in Nat /\ Len(table') \in Nat /\ Len(table) <= Len(table')
    /\ \A i \in 1..Len(table) : table'[i] = table[i]

LEMMA TotalKept ==
    ASSUME TableGrows, NEW rows \in SUBSET (1..Len(table)),
           \A i \in rows : table[i].amount \in Int
    PROVE  TotalAmount(rows)' = TotalAmount(rows)
<1>1. TotalAmount(rows) = TotalOf(table, rows) /\ TotalAmount(rows)' = TotalOf(table', rows)
  BY Zenon DEF TotalAmount, TotalOf
<1>2. PICK n \in Nat, m \in Nat : n = Len(table) /\ m = Len(table') /\ n <= m
  BY DEF TableGrows
<1>3. PICK f : IsSum(table, rows, n, f) /\ TotalOf(table, rows) = f[n]
  BY <1>2, TotalIsSum
<1>4. PICK g : IsSum(table', rows, m, g) /\ TotalOf(table', rows) = g[m]
  BY <1>2, TotalIsSum
<1>5. rows \in SUBSET (1..n) /\ \A i \in 1..n : table'[i] = table[i]
  BY <1>2 DEF TableGrows
<1>6. \A i \in 1..n : Weight(table, rows, i) = Weight(table', rows, i)
  BY <1>5, Zenon DEF Weight
<1>7. f[n] = g[n]
  <2>1. n <= n
    OBVIOUS
  <2> QED BY <1>2, <1>3, <1>4, <1>6, <2>1, SumsAgree
<1>8. \A i \in rows : table'[i].amount \in Int
  BY <1>5
<1>9. g[m] = g[n]
  BY <1>2, <1>4, <1>5, <1>8, SumIsFlat
<1> QED BY <1>1, <1>3, <1>4, <1>7, <1>9

\* p lists n of the rows of a table, the latest ones first.
Lists(tab, rows, n, p) ==
    /\ \A i, j \in 1..n : i < j => p[i] # p[j] /\ tab[p[i]].ts >= tab[p[j]].ts
    /\ \A i \in 1..n, x \in rows :
        x \notin {p[j] : j \in 1..n} => tab[x].ts <= tab[p[i]].ts

LEMMA LatestKept ==
    ASSUME TableGrows, NEW rows \in SUBSET (1..Len(table))
    PROVE  Latest(rows)' = Latest(rows)
<1>1. PICK t : t = table'
  OBVIOUS
<1>2. \A i \in rows : t[i] = table[i]
  BY <1>1 DEF TableGrows
<1>3. PICK n : n = Min(Limit, Cardinality(rows))
  OBVIOUS
<1>4. Latest(rows) = {p \in [1..n -> rows] : Lists(table, rows, n, p)}
  BY <1>3, Zenon DEF Latest, Lists
<1>5. Latest(rows)' = {p \in [1..n -> rows] : Lists(t, rows, n, p)}
  BY <1>1, <1>3, Zenon DEF Latest, Lists
<1>6. ASSUME NEW p \in [1..n -> rows]
      PROVE  Lists(table, rows, n, p) <=> Lists(t, rows, n, p)
  <2>1. PICK times, others :
            /\ times = [i \in rows |-> table[i].ts] /\ others = [i \in rows |-> t[i].ts]
    OBVIOUS
  <2>2. times = others
    BY <1>2, <2>1
  <2>3. \A i \in 1..n : p[i] \in rows
    OBVIOUS
  <2>4. Lists(table, rows, n, p) <=>
            /\ \A i, j \in 1..n : i < j => p[i] # p[j] /\ times[p[i]] >= times[p[j]]
            /\ \A i \in 1..n, x \in rows :
                x \notin {p[j] : j \in 1..n} => times[x] <= times[p[i]]
    BY <2>1, <2>3, Zenon DEF Lists
  <2>5. Lists(t, rows, n, p) <=>
            /\ \A i, j \in 1..n : i < j => p[i] # p[j] /\ others[p[i]] >= others[p[j]]
            /\ \A i \in 1..n, x \in rows :
                x \notin {p[j] : j \in 1..n} => others[x] <= others[p[i]]
    BY <2>1, <2>3, Zenon DEF Lists
  <2> QED BY <2>2, <2>4, <2>5, Zenon
<1> QED BY <1>4, <1>5, <1>6, Zenon

LEMMA LatestAreRows ==
    ASSUME NEW rows, NEW p \in Latest(rows)
    PROVE  \A i \in DOMAIN p : p[i] \in rows
BY DEF Latest

LEMMA AnswersKept ==
    ASSUME TableGrows, NEW rows \in SUBSET (1..Len(table)), NEW q, q.kind \in Queries,
           q.kind = "get_total_amount" => \A i \in rows : table[i].amount \in Int
    PROVE  Answers(q, rows)' = Answers(q, rows)
<1>1. \A i \in rows : table'[i] = table[i]
  BY DEF TableGrows
<1>2. CASE q.kind = "compute_K"
  <2>1. {i \in rows : table'[i].passed} = {i \in rows : table[i].passed}
    BY <1>1
  <2> QED BY <1>2, <2>1 DEF Answers
<1>3. CASE q.kind = "compute_V"
  BY <1>3 DEF Answers
<1>4. CASE q.kind = "get_total_amount"
  <2>1. TotalAmount(rows)' = TotalAmount(rows)
    BY <1>4, TotalKept
  <2>2. Answers(q, rows) = {TotalAmount(rows)} /\ Answers(q, rows)' = {TotalAmount(rows)'}
    BY <1>4 DEF Answers
  <2> QED BY <2>1, <2>2
<1>5. CASE q.kind = "get_recent_tools"
  <2>1. Latest(rows)' = Latest(rows)
    BY LatestKept
  <2>2. ASSUME NEW p \in Latest(rows)
        PROVE  [i \in DOMAIN p |-> table'[p[i]].tool] = [i \in DOMAIN p |-> table[p[i]].tool]
    BY <1>1, LatestAreRows
  <2>3. Answers(q, rows) = {[i \in DOMAIN p |-> table[p[i]].tool] : p \in Latest(rows)}
    BY <1>5 DEF Answers
  <2>4. Answers(q, rows)' =
            {[i \in DOMAIN p |-> table'[p[i]].tool] : p \in Latest(rows)'}
    BY <1>5 DEF Answers
  <2> QED BY <2>1, <2>2, <2>3, <2>4
<1>6. CASE q.kind = "get_history"
  <2>1. Latest(rows)' = Latest(rows)
    BY LatestKept
  <2>2. Answers(q, rows) = Latest(rows) /\ Answers(q, rows)' = Latest(rows)'
    BY <1>6 DEF Answers
  <2> QED BY <2>1, <2>2
<1>7. CASE q.kind = "detect_velocity_spike"
  BY <1>7 DEF Answers
<1> QED BY <1>2, <1>3, <1>4, <1>5, <1>6, <1>7 DEF Queries

LEMMA SelectedKept ==
    ASSUME TableGrows, NEW rows \in SUBSET (1..Len(table)), NEW q
    PROVE  Selected(q, rows)' = Selected(q, rows)
<1>1. \A i \in rows : table'[i] = table[i]
  BY DEF TableGrows
<1> QED BY <1>1 DEF Selected

LEMMA SelectedHaveAmounts ==
    ASSUME table \in Seq(Rows), NEW rows \in SUBSET (1..Len(table)), NEW q,
           q.kind = "get_total_amount"
    PROVE  \A i \in Selected(q, rows) : table[i].amount \in Int
<1>1. \A i \in rows : table[i] \in Rows
  OBVIOUS
<1>2. \A r \in Rows : r.amount \in Int \cup {None}
  BY DEF Rows
<1> HIDE DEF Rows
<1> QED BY <1>1, <1>2 DEF Selected

-----------------------------------------------------------------------------
(* Answers lie between what had returned and what was stored *)

\* A query of work q that began at `called`, knew the first `known` rows and read the first
\* `upto`, had answer a.
Between(q, called, known, upto, a) ==
    LET start == IF HasWindow(q) THEN called - Window ELSE 0
        due == {i \in 1..known : table[i].called >= start}
        there == {i \in 1..upto : table[i].ts >= start}
    IN  \E S \in SUBSET (there \ due) : a \in Answers(q, Selected(q, S \cup due))

Bracketed(t) ==
    Answered(t) =>
        Between(thread[t].work, thread[t].called, thread[t].known, thread[t].upto,
                thread[t].answer)

LEMMA BracketsAll == AnswersAreBracketed <=> \A t \in Threads : Bracketed(t)
BY Zenon DEF AnswersAreBracketed, Bracketed, Between

LEMMA BetweenKept ==
    ASSUME TableGrows, table \in Seq(Rows), NEW q, q.kind \in Queries, NEW called \in Nat,
           NEW known \in Nat, NEW upto \in Nat, known <= upto, upto <= Len(table), NEW a,
           Between(q, called, known, upto, a)
    PROVE  Between(q, called, known, upto, a)'
<1> DEFINE start == IF HasWindow(q) THEN called - Window ELSE 0
           due == {i \in 1..known : table[i].called >= start}
           there == {i \in 1..upto : table[i].ts >= start}
<1> HIDE DEF Rows
<1>1. /\ 1..known \subseteq 1..Len(table) /\ 1..upto \subseteq 1..Len(table)
      /\ \A i \in 1..Len(table) : table'[i] = table[i]
  BY DEF TableGrows
<1>2. PICK S \in SUBSET (there \ due) : a \in Answers(q, Selected(q, S \cup due))
  BY Zenon DEF Between
<1>3. PICK t : t = table'
  OBVIOUS
<1>4. /\ due = {i \in 1..known : t[i].called >= start}
      /\ there = {i \in 1..upto : t[i].ts >= start}
  BY <1>1, <1>3
<1>5. PICK x : x = S \cup due
  OBVIOUS
<1>6. PICK rows : rows = Selected(q, x)
  OBVIOUS
<1>7. x \in SUBSET (1..Len(table)) /\ rows \in SUBSET (1..Len(table))
  BY <1>1, <1>2, <1>5, <1>6 DEF Selected
<1>8. Selected(q, x)' = rows
  BY <1>6, <1>7, SelectedKept
<1>9. Answers(q, rows)' = Answers(q, rows)
  BY <1>6, <1>7, AnswersKept, SelectedHaveAmounts
<1>10. a \in Answers(q, rows)
  BY <1>2, <1>5, <1>6
<1>11. a \in Answers(q, Selected(q, x))'
  BY <1>8, <1>9, <1>10
<1> QED BY <1>2, <1>3, <1>4, <1>5, <1>11, Zenon DEF Between

LEMMA BracketStays ==
    ASSUME LocalInv, TableGrows, NEW u \in Threads, thread'[u] = thread[u], Bracketed(u)
    PROVE  Bracketed(u)'
<1> SUFFICES ASSUME thread[u].answer # None
             PROVE  Between(thread[u].work, thread[u].called, thread[u].known,
                            thread[u].upto, thread[u].answer)'
  BY Zenon DEF Bracketed, Answered
<1>1. PICK l : l = thread[u]
  OBVIOUS
<1>2. LocalOK(u, l, now, Len(table)) /\ l.answer # None /\ table \in Seq(Rows)
  BY <1>1 DEF LocalInv
<1>3. /\ l.work.kind \in Queries /\ l.called \in Nat /\ l.known \in Nat /\ l.upto \in Nat
      /\ l.known <= l.upto /\ l.upto <= Len(table)
  BY <1>2 DEF LocalOK
<1>4. Between(l.work, l.called, l.known, l.upto, l.answer)
  BY <1>1, <1>2 DEF Bracketed, Answered
<1>5. Between(l.work, l.called, l.known, l.upto, l.answer)'
  BY <1>2, <1>3, <1>4, BetweenKept
<1>6. thread'[u] = l
  BY <1>1
<1> QED BY <1>1, <1>5, <1>6

LEMMA TableOnlyGrows == LocalInv /\ [Next]_vars => TableGrows
<1> SUFFICES ASSUME LocalInv, [Next]_vars PROVE TableGrows
  OBVIOUS
<1>1. table \in Seq(Rows)
  BY DEF LocalInv
<1>2. CASE table' = table
  <2> HIDE DEF Rows
  <2> QED BY <1>1, <1>2 DEF TableGrows
<1>3. ASSUME NEW t \in Threads, Insert(t) PROVE TableGrows
  <2>1. PICK row : row = Row(t, Head(thread[t].left))
    OBVIOUS
  <2>2. table' = table \/ table' = Append(table, row)
    BY <1>3, <2>1, InsertEffect, Zenon
  <2> HIDE DEF Rows
  <2>3. CASE table' = Append(table, row)
    BY <1>1, <2>3 DEF TableGrows
  <2> QED BY <1>2, <2>2, <2>3
<1>4. ASSUME NEW t \in Threads, Commit(t) PROVE TableGrows
  <2>1. table' = table \o thread[t].open
    BY <1>4 DEF Commit
  <2>2. PICK more \in Seq(Rows) : more = thread[t].open
    BY DEF LocalInv, LocalOK
  <2> HIDE DEF Rows
  <2> QED BY <1>1, <2>1, <2>2 DEF TableGrows
<1>5. \/ table' = table
      \/ \E t \in Threads : Insert(t) \/ Commit(t)
  BY Zenon DEF Next, Proceed, Tick, Call, Acquire, Reject, Fail, Raise, Read, vars
<1> QED BY <1>2, <1>3, <1>4, <1>5

\* What a query answers is between the two when it reads.
LEMMA BracketByRead ==
    ASSUME LocalInv, NEW t \in Threads, Read(t)
    PROVE  Bracketed(t)'
<1>1. PICK a, n : a = thread'[t].answer /\ n = Len(table)
  OBVIOUS
<1>2. PICK q, called, known :
        q = thread[t].work /\ called = thread[t].called /\ known = thread[t].known
  OBVIOUS
<1> DEFINE recent == {i \in DOMAIN table :
                        HasWindow(q) => Since(called - Window, table[i].ts)}
<1>3. /\ thread'[t] =
            [pc |-> "idle", work |-> q, calls |-> thread[t].calls, called |-> called,
             stamp |-> thread[t].stamp, left |-> thread[t].left,
             open |-> thread[t].open, known |-> known, upto |-> n, answer |-> a,
             failed |-> thread[t].failed]
      /\ a \in Answers(q, Selected(q, recent))
      /\ UNCHANGED table
  BY <1>1, <1>2, ReadEffect, Zenon
<1>4. /\ table \in Seq(Rows) /\ Stamped(table) /\ LocalOK(t, thread[t], now, n)
  BY <1>1 DEF LocalInv
<1>5. called \in Nat /\ known \in Nat /\ known <= n /\ n \in Nat /\ Window \in Nat
  <2>1. n \in Nat
    BY <1>1, <1>4
  <2> QED BY <1>2, <1>4, <2>1, AgentStateAssumption DEF LocalOK
<1>6. \A r \in Rows : r.ts \in Nat /\ r.called \in Nat
  BY DEF Rows
<1> HIDE DEF Rows
<1>7. /\ DOMAIN table = 1..n
      /\ \A i \in 1..n : /\ table[i].ts \in Nat /\ table[i].called \in Nat
                        /\ table[i].called <= table[i].ts
  BY <1>1, <1>4, <1>6 DEF Stamped
<1> DEFINE start == IF HasWindow(q) THEN called - Window ELSE 0
           due == {i \in 1..known : table[i].called >= start}
           there == {i \in 1..n : table[i].ts >= start}
<1>8. start \in Int
  BY <1>5
<1>9. recent = there
  <2>1. CASE HasWindow(q)
    BY <1>7, <2>1 DEF Since
  <2>2. CASE ~ HasWindow(q)
    BY <1>7, <2>2
  <2> QED BY <2>1, <2>2
<1>10. due \subseteq there
  <2> HIDE DEF start
  <2> QED BY <1>5, <1>7, <1>8
<1>11. recent = (there \ due) \cup due
  BY <1>9, <1>10
<1>12. Between(q, called, known, n, a)
  <2>1. a \in Answers(q, Selected(q, (there \ due) \cup due))
    BY <1>3, <1>11
  <2> HIDE DEF recent
  <2> QED BY <2>1, Zenon DEF Between
<1>13. Between(q, called, known, n, a)'
  <2>1. TableGrows
    BY <1>1, <1>3, <1>5 DEF TableGrows
  <2>2. q.kind \in Queries
    BY <1>2, ReadEffect, Zenon
  <2>3. n <= Len(table)
    BY <1>1, <1>5
  <2> QED BY <1>4, <1>5, <1>12, <2>1, <2>2, <2>3, BetweenKept
<1>14. /\ thread'[t].work = q /\ thread'[t].called = called /\ thread'[t].known = known
       /\ thread'[t].upto = n /\ thread'[t].answer = a
  BY <1>3
<1> QED BY <1>13, <1>14, Zenon DEF Bracketed

LEMMA BracketsAreInductive == LocalInv /\ AnswersAreBracketed /\ [Next]_vars => AnswersAreBracketed'
<1> SUFFICES ASSUME LocalInv, AnswersAreBracketed, [Next]_vars, NEW u \in Threads
             PROVE  Bracketed(u)'
  BY Zenon DEF AnswersAreBracketed, Bracketed, Between
<1>1. TableGrows /\ Bracketed(u)
  BY TableOnlyGrows, BracketsAll
<1>2. ASSUME NEW t \in Threads, Others(t), thread'[t].answer = None PROVE Bracketed(u)'
  <2>1. CASE u = t
    BY <1>2, <2>1 DEF Bracketed, Answered
  <2>2. CASE u # t
    BY <1>1, <1>2, <2>2, BracketStays DEF Others
  <2> QED BY <2>1, <2>2
<1>3. CASE thread' = thread
  BY <1>1, <1>3, BracketStays
<1>4. ASSUME NEW t \in Threads, NEW w \in Works[t], Call(t, w) PROVE Bracketed(u)'
  <2>1. Others(t) /\ thread'[t].answer = None
    BY <1>4, CallEffect, Zenon
  <2> QED BY <1>2, <2>1
<1>5. ASSUME NEW t \in Threads, Acquire(t) PROVE Bracketed(u)'
  <2>1. /\ Others(t) /\ thread'[t].answer = thread[t].answer
        /\ thread[t].pc = "wait"
    BY <1>5, AcquireEffect, Zenon
  <2>2. thread[t].answer = None
    BY <2>1 DEF LocalInv, LocalOK
  <2> QED BY <1>2, <2>1, <2>2
<1>6. ASSUME NEW t \in Threads, Insert(t) PROVE Bracketed(u)'
  <2>1. /\ Others(t) /\ thread'[t].answer = thread[t].answer
        /\ thread[t].pc = "locked"
    BY <1>6, InsertEffect, Zenon
  <2>2. thread[t].answer = None
    BY <2>1 DEF LocalInv, LocalOK
  <2> QED BY <1>2, <2>1, <2>2
<1>7. ASSUME NEW t \in Threads, Reset(t) PROVE Bracketed(u)'
  <2>1. Others(t) /\ thread'[t].answer = None
    BY <1>7 DEF Reset, Idle
  <2> QED BY <1>2, <2>1
<1>8. ASSUME NEW t \in Threads, Commit(t) \/ Reject(t) \/ Fail(t) PROVE Bracketed(u)'
  BY <1>7, <1>8, CommitEffect, RaiseEffect DEF Reject, Fail
<1>9. ASSUME NEW t \in Threads, Read(t) PROVE Bracketed(u)'
  <2>1. CASE u = t
    BY <1>9, <2>1, BracketByRead
  <2>2. CASE u # t
    <3>1. Others(t)
      BY <1>9, ReadEffect, Zenon
    <3> QED BY <1>1, <2>2, <3>1, BracketStays DEF Others
  <2> QED BY <2>1, <2>2
<1> QED
  BY <1>3, <1>4, <1>5, <1>6, <1>8, <1>9, Zenon DEF Next, Proceed, Tick, vars

\* An answer is right for decisions between those of calls that had returned when the query
\* began and those stored when it read, although cutoffs and the stamps of batches are taken
\* before the lock (state.py:92, state.py:188).
THEOREM AnswersLieBetween == Spec => []AnswersAreBracketed
<1>1. Init => AnswersAreBracketed
  <2> SUFFICES ASSUME Init, NEW t \in Threads PROVE thread[t].answer = None
    BY DEF AnswersAreBracketed, Answered
  <2> QED BY DEF Init, Idle
<1>2. AnswersAreBracketed /\ BaseInv /\ [Next]_vars => AnswersAreBracketed'
  BY BracketsAreInductive DEF BaseInv
<1> QED BY <1>1, <1>2, BaseHolds, PTL DEF Spec

-----------------------------------------------------------------------------
(* Batches are seen whole *)

RowsUpTo(tab, n, o) == {j \in 1..n : tab[j].op = o}
AllRows(tab, o) == RowsUpTo(tab, Len(tab), o)

\* What call o has stored, and what it still has to, makes up its batch.
WriteOK(tab, mem, l, o) ==
    IF mem
    THEN /\ Cardinality(AllRows(tab, o)) + Len(l.left) = Len(l.work.records)
         /\ \A j \in AllRows(tab, o) : tab[j].size = Len(l.work.records)
    ELSE /\ AllRows(tab, o) = {}
         /\ Len(l.open) + Len(l.left) = Len(l.work.records)
         /\ \A k \in 1..Len(l.open) :
                l.open[k].op = o /\ l.open[k].size = Len(l.work.records)

Placed(tab, mem, l, u) ==
    /\ l.pc = "wait" =>
        /\ AllRows(tab, <<u, l.calls>>) = {}
        /\ l.work.kind \in Writes => l.left = l.work.records
    /\ l.pc = "locked" /\ l.work.kind \in Writes => WriteOK(tab, mem, l, <<u, l.calls>>)

\* Row i is of a batch that is stored whole, that failed, or that is being inserted.
RowWhole(tab, mem, th, i) ==
    LET o == tab[i].op
        l == th[o[1]]
    IN  \/ Cardinality(AllRows(tab, o)) = tab[i].size
        \/ mem /\ o[2] \in l.failed
        \/ mem /\ l.pc = "locked" /\ l.work.kind \in Writes /\ o[2] = l.calls

BatchInv ==
    /\ \A i \in 1..Len(table) : table[i].op[2] <= thread[table[i].op[1]].calls
    /\ \A u \in Threads : Placed(table, db.memory, thread[u], u)
    /\ \A i \in 1..Len(table) : RowWhole(table, db.memory, thread, i)

OpOf(t) == <<t, thread[t].calls>>

\* What every step of t does to the past.
Moves(t) ==
    /\ Others(t) /\ UNCHANGED db /\ TableGrows
    /\ \A i \in 1..Len(table') : i > Len(table) => table'[i].op = OpOf(t)
    /\ thread'[t].calls \in Nat /\ thread[t].calls <= thread'[t].calls
    /\ thread[t].failed \subseteq thread'[t].failed

LEMMA OpIsOp ==
    ASSUME LocalInv, NEW i \in 1..Len(table)
    PROVE  /\ table[i].op[1] \in Threads /\ table[i].op[2] \in Nat
           /\ table[i].op = <<table[i].op[1], table[i].op[2]>> /\ table[i].size \in Nat
<1>1. \A r \in Rows : r.op \in Threads \X Nat /\ r.size \in Nat
  BY DEF Rows
<1>2. table[i] \in Rows
  <2> HIDE DEF Rows
  <2> QED BY DEF LocalInv
<1> HIDE DEF Rows
<1> QED BY <1>1, <1>2

LEMMA OtherRows ==
    ASSUME NEW t \in Threads, Moves(t), NEW o, o # OpOf(t)
    PROVE  AllRows(table', o) = AllRows(table, o)
BY DEF Moves, TableGrows, AllRows, RowsUpTo

LEMMA CallsStayOrdered ==
    ASSUME LocalInv, BatchInv, NEW t \in Threads, Moves(t), NEW i \in 1..Len(table')
    PROVE  table'[i].op[2] <= thread'[table'[i].op[1]].calls
<1>1. Len(table) \in Nat /\ Len(table') \in Nat
  BY DEF Moves, TableGrows
<1>2. CASE i > Len(table)
  BY <1>2 DEF Moves, OpOf
<1>3. CASE i <= Len(table)
  <2>1. i \in 1..Len(table) /\ table'[i] = table[i]
    BY <1>1, <1>3 DEF Moves, TableGrows
  <2>2. table[i].op[1] \in Threads /\ table[i].op[2] \in Nat
    BY <2>1, OpIsOp
  <2>3. table[i].op[2] <= thread[table[i].op[1]].calls
    BY <2>1 DEF BatchInv
  <2>4. CASE table[i].op[1] = t
    <3>1. thread[t].calls \in Nat
      BY DEF LocalInv, LocalOK
    <3> QED BY <2>1, <2>2, <2>3, <2>4, <3>1 DEF Moves
  <2>5. CASE table[i].op[1] # t
    BY <2>1, <2>2, <2>3, <2>5 DEF Moves, Others
  <2> QED BY <2>4, <2>5
<1> QED BY <1>1, <1>2, <1>3

LEMMA OthersPlaced ==
    ASSUME BatchInv, NEW t \in Threads, Moves(t), NEW u \in Threads \ {t}
    PROVE  Placed(table', db.memory', thread'[u], u)
<1>1. PICK l : l = thread[u] /\ l = thread'[u]
  BY DEF Moves, Others
<1>2. PICK mem : mem = db.memory /\ mem = db.memory'
  BY DEF Moves
<1>3. PICK o : o = <<u, l.calls>>
  OBVIOUS
<1>4. AllRows(table', o) = AllRows(table, o)
  BY <1>3, OtherRows DEF OpOf
<1>5. \A j \in AllRows(table, o) : table'[j] = table[j]
  BY DEF Moves, TableGrows, AllRows, RowsUpTo
<1>6. Placed(table, mem, l, u)
  BY <1>1, <1>2 DEF BatchInv
<1>7. WriteOK(table, mem, l, o) => WriteOK(table', mem, l, o)
  BY <1>4, <1>5, Zenon DEF WriteOK
<1>8. Placed(table', mem, l, u)
  BY <1>3, <1>4, <1>6, <1>7, Zenon DEF Placed
<1> QED BY <1>1, <1>2, <1>8

\* A row of another call is as whole as before.
LEMMA RowsStayWhole ==
    ASSUME LocalInv, BatchInv, NEW t \in Threads, Moves(t), NEW i \in 1..Len(table),
           table[i].op # OpOf(t)
    PROVE  RowWhole(table', db.memory', thread', i)
<1>1. PICK o : o = table[i].op
  OBVIOUS
<1>2. o[1] \in Threads /\ o = <<o[1], o[2]>>
  BY <1>1, OpIsOp
<1>3. table'[i] = table[i] /\ db.memory' = db.memory
  BY DEF Moves, TableGrows
<1>4. AllRows(table', o) = AllRows(table, o)
  BY <1>1, OtherRows
<1>5. RowWhole(table, db.memory, thread, i)
  BY DEF BatchInv
<1>6. CASE Cardinality(AllRows(table, o)) = table[i].size
  BY <1>1, <1>3, <1>4, <1>6, Zenon DEF RowWhole
<1>7. CASE db.memory /\ o[2] \in thread[o[1]].failed
  <2>1. o[2] \in thread'[o[1]].failed
    BY <1>2, <1>7 DEF Moves, Others
  <2> QED BY <1>1, <1>3, <1>7, <2>1, Zenon DEF RowWhole
<1>8. CASE /\ db.memory /\ thread[o[1]].pc = "locked" /\ thread[o[1]].work.kind \in Writes
           /\ o[2] = thread[o[1]].calls
  <2>1. o[1] # t
    BY <1>1, <1>2, <1>8 DEF OpOf
  <2>2. thread'[o[1]] = thread[o[1]]
    BY <1>2, <2>1 DEF Moves, Others
  <2> QED BY <1>1, <1>3, <1>8, <2>2, Zenon DEF RowWhole
<1> QED BY <1>1, <1>5, <1>6, <1>7, <1>8, Zenon DEF RowWhole

LEMMA BatchStep ==
    ASSUME LocalInv, BatchInv, NEW t \in Threads, Moves(t),
           Placed(table', db.memory', thread'[t], t),
           \A i \in 1..Len(table') :
                table'[i].op = OpOf(t) => RowWhole(table', db.memory', thread', i)
    PROVE  BatchInv'
<1>1. \A u \in Threads : Placed(table', db.memory', thread'[u], u)
  BY OthersPlaced
<1>2. \A i \in 1..Len(table') : table'[i].op[2] <= thread'[table'[i].op[1]].calls
  BY CallsStayOrdered
<1>3. ASSUME NEW i \in 1..Len(table'), table'[i].op # OpOf(t)
      PROVE  RowWhole(table', db.memory', thread', i)
  <2>1. Len(table) \in Nat /\ Len(table') \in Nat
    BY DEF Moves, TableGrows
  <2>2. i \in 1..Len(table)
    BY <1>3, <2>1 DEF Moves
  <2>3. table[i].op # OpOf(t)
    BY <1>3, <2>2 DEF Moves, TableGrows
  <2> QED BY <2>2, <2>3, RowsStayWhole
<1> QED BY <1>1, <1>2, <1>3, Zenon DEF BatchInv

\* A row stays whole, or failed, when no row comes.
LEMMA SameRows ==
    ASSUME LocalInv, BatchInv, NEW t \in Threads, Moves(t), table' = table,
           ~ db.memory \/ thread[t].pc # "locked" \/ thread[t].work.kind \notin Writes,
           NEW i \in 1..Len(table), table[i].op = OpOf(t)
    PROVE  RowWhole(table', db.memory', thread', i)
<1>1. table[i].op[1] = t /\ db.memory' = db.memory
  BY DEF Moves, OpOf
<1>2. RowWhole(table, db.memory, thread, i)
  BY DEF BatchInv
<1>3. \/ Cardinality(AllRows(table, table[i].op)) = table[i].size
      \/ db.memory /\ table[i].op[2] \in thread[t].failed
  BY <1>1, <1>2, Zenon DEF RowWhole
<1>4. CASE Cardinality(AllRows(table, table[i].op)) = table[i].size
  BY <1>4, Zenon DEF RowWhole
<1>5. CASE db.memory /\ table[i].op[2] \in thread[t].failed
  <2>1. table[i].op[2] \in thread'[t].failed
    BY <1>5 DEF Moves
  <2> QED BY <1>1, <1>5, <2>1, Zenon DEF RowWhole
<1> QED BY <1>3, <1>4, <1>5

LEMMA TableStays ==
    ASSUME LocalInv, table' = table
    PROVE  TableGrows /\ \A i \in 1..Len(table') : ~ (i > Len(table))
<1>1. Len(table) \in Nat
  <2> HIDE DEF Rows
  <2> QED BY DEF LocalInv
<1> QED BY <1>1 DEF TableGrows

LEMMA CountsAreNumbers ==
    ASSUME LocalInv, NEW o
    PROVE  /\ AllRows(table, o) \subseteq 1..Len(table)
           /\ IsFiniteSet(AllRows(table, o)) /\ Cardinality(AllRows(table, o)) \in Nat
<1>1. Len(table) \in Nat
  <2> HIDE DEF Rows
  <2> QED BY DEF LocalInv
<1>2. AllRows(table, o) \in SUBSET (1..Len(table))
  BY DEF AllRows, RowsUpTo
<1>3. IsFiniteSet(1..Len(table))
  BY <1>1, FS_Interval
<1>4. IsFiniteSet(AllRows(table, o))
  BY <1>2, <1>3, FS_Subset
<1>5. Cardinality(AllRows(table, o)) \in Nat
  BY <1>4, FS_CardinalityType
<1> QED BY <1>2, <1>4, <1>5

LEMMA BatchByCall ==
    ASSUME LocalInv, BatchInv, NEW t \in Threads, NEW w \in Works[t], Call(t, w)
    PROVE  BatchInv'
<1>1. /\ Others(t) /\ UNCHANGED <<db, table>> /\ thread[t].pc = "idle"
      /\ thread'[t].pc = "wait" /\ thread'[t].work = w
      /\ thread'[t].calls = thread[t].calls + 1
      /\ thread'[t].left = (IF w.kind \in Writes THEN w.records ELSE <<>>)
      /\ thread'[t].failed = thread[t].failed
  BY CallEffect, Zenon
<1>2. thread[t].calls \in Nat
  BY DEF LocalInv, LocalOK
<1>3. Moves(t)
  BY <1>1, <1>2, TableStays DEF Moves
<1>4. AllRows(table, <<t, thread[t].calls + 1>>) = {}
  <2> SUFFICES ASSUME NEW i \in 1..Len(table), table[i].op = <<t, thread[t].calls + 1>>
               PROVE  FALSE
    BY DEF AllRows, RowsUpTo
  <2> QED BY <1>2 DEF BatchInv
<1>5. Placed(table', db.memory', thread'[t], t)
  BY <1>1, <1>4, Zenon DEF Placed
<1>6. thread[t].pc # "locked"
  BY <1>1
<1> QED BY <1>1, <1>3, <1>5, <1>6, SameRows, BatchStep

LEMMA BatchByAcquire ==
    ASSUME LocalInv, BatchInv, NEW t \in Threads, Acquire(t)
    PROVE  BatchInv'
<1>1. /\ Others(t) /\ UNCHANGED <<db, table>> /\ thread[t].pc = "wait"
      /\ thread'[t].pc = "locked" /\ thread'[t].open = thread[t].open
      /\ SameCall(t) /\ thread'[t].left = thread[t].left
  BY AcquireEffect, Zenon
<1>2. thread[t].calls \in Nat /\ thread[t].open = <<>>
  BY <1>1 DEF LocalInv, LocalOK
<1>3. Moves(t)
  BY <1>1, <1>2, TableStays DEF Moves, SameCall
<1>4. /\ AllRows(table, <<t, thread[t].calls>>) = {}
      /\ thread[t].work.kind \in Writes => thread[t].left = thread[t].work.records
  BY <1>1 DEF BatchInv, Placed
<1>5. ASSUME thread[t].work.kind \in Writes
      PROVE  WriteOK(table, db.memory, thread'[t], <<t, thread[t].calls>>)
  <2>1. Len(thread[t].work.records) \in Nat
    <3>1. thread[t].work.records \in Seq(Records)
      BY <1>1, <1>5, RecordsOfWork DEF LocalInv, LocalOK
    <3> HIDE DEF Records
    <3> QED BY <3>1
  <2>2. Cardinality({}) = 0
    BY FS_EmptySet
  <2>3. Len(thread'[t].open) = 0
    BY <1>1, <1>2
  <2>4. /\ thread'[t].work = thread[t].work
        /\ thread'[t].left = thread[t].work.records
    BY <1>1, <1>4, <1>5 DEF SameCall
  <2>5. PICK l, o, n : l = thread'[t] /\ o = <<t, thread[t].calls>> /\ n = Len(l.work.records)
    OBVIOUS
  <2>6. /\ AllRows(table, o) = {} /\ Cardinality({}) + Len(l.left) = n
        /\ Len(l.open) + Len(l.left) = n
    <3>1. n \in Nat /\ Len(l.left) = n /\ Len(l.open) = 0
      BY <1>5, <2>1, <2>3, <2>4, <2>5
    <3>2. AllRows(table, o) = {}
      BY <1>4, <2>5
    <3> QED BY <2>2, <3>1, <3>2
  <2>7. \A k \in 1..Len(l.open) : FALSE
    BY <2>3, <2>5
  <2> QED BY <2>5, <2>6, <2>7, Zenon DEF WriteOK
<1>6. Placed(table', db.memory', thread'[t], t)
  BY <1>1, <1>5 DEF Placed, SameCall
<1>7. thread[t].pc # "locked"
  BY <1>1
<1> QED BY <1>1, <1>3, <1>6, <1>7, SameRows, BatchStep

LEMMA RowOfOp ==
    ASSUME NEW t, NEW r
    PROVE  Row(t, r).op = OpOf(t) /\ Row(t, r).size = Len(thread[t].work.records)
BY DEF Row, OpOf

LEMMA LengthOfTail ==
    ASSUME LocalInv, NEW t \in Threads, thread[t].left # <<>>
    PROVE  /\ Len(thread[t].left) \in Nat
           /\ Len(Tail(thread[t].left)) = Len(thread[t].left) - 1
<1>1. PICK left \in Seq(Records) : left = thread[t].left
  BY DEF LocalInv, LocalOK
<1> HIDE DEF Records
<1> QED BY <1>1

LEMMA BatchByInsertShared ==
    ASSUME LocalInv, OpenInv, BatchInv, NEW t \in Threads, Insert(t), db.memory
    PROVE  BatchInv'
<1>1. PICK row : row = Row(t, Head(thread[t].left))
  OBVIOUS
<1>2. /\ Others(t) /\ UNCHANGED db /\ thread[t].pc = "locked" /\ thread[t].left # <<>>
      /\ thread'[t].pc = "locked" /\ SameCall(t)
      /\ thread'[t].left = Tail(thread[t].left) /\ table' = Append(table, row)
  BY <1>1, InsertEffect, Zenon
<1>3. PICK n \in Nat : n = Len(table) /\ table \in Seq(Rows)
  <2>1. table \in Seq(Rows)
    BY DEF LocalInv
  <2> HIDE DEF Rows
  <2> QED BY <2>1
<1>4. row.op = OpOf(t) /\ row.size = Len(thread[t].work.records)
  BY <1>1, RowOfOp
<1>5. /\ Len(table') = n + 1 /\ table'[n + 1] = row
      /\ \A i \in 1..n : table'[i] = table[i]
  <2> HIDE DEF Rows
  <2> QED BY <1>2, <1>3
<1>6. Moves(t)
  <2>1. TableGrows
    BY <1>3, <1>5 DEF TableGrows
  <2>2. \A i \in 1..Len(table') : i > Len(table) => table'[i].op = OpOf(t)
    BY <1>3, <1>4, <1>5
  <2>3. thread[t].calls \in Nat
    BY DEF LocalInv, LocalOK
  <2> QED BY <1>2, <2>1, <2>2, <2>3 DEF Moves, SameCall
<1>7. PICK o : o = OpOf(t)
  OBVIOUS
<1>8. AllRows(table', o) = AllRows(table, o) \cup {n + 1}
  BY <1>3, <1>4, <1>5, <1>7 DEF AllRows, RowsUpTo
<1>9. Cardinality(AllRows(table', o)) = Cardinality(AllRows(table, o)) + 1
  <2>1. /\ AllRows(table, o) \subseteq 1..n /\ IsFiniteSet(AllRows(table, o))
    BY <1>3, CountsAreNumbers
  <2>2. n + 1 \notin AllRows(table, o)
    BY <2>1
  <2> QED BY <1>8, <2>1, <2>2, FS_AddElement
<1>10. thread[t].work.kind \in Writes
  BY <1>2 DEF LocalInv, LocalOK
<1>11. WriteOK(table, TRUE, thread[t], o)
  BY <1>2, <1>7, <1>10, Zenon DEF BatchInv, Placed, OpOf
<1>12. /\ Cardinality(AllRows(table, o)) + Len(thread[t].left) = Len(thread[t].work.records)
       /\ \A j \in AllRows(table, o) : table[j].size = Len(thread[t].work.records)
  BY <1>11 DEF WriteOK
<1>13. Cardinality(AllRows(table', o)) + Len(thread'[t].left) = Len(thread[t].work.records)
  <2>1. Cardinality(AllRows(table, o)) \in Nat
    BY CountsAreNumbers
  <2>2. PICK left, rest : left = Len(thread[t].left) /\ rest = Len(thread'[t].left)
    OBVIOUS
  <2>3. left \in Nat /\ rest = left - 1
    BY <1>2, <2>2, LengthOfTail
  <2> QED BY <1>9, <1>12, <2>1, <2>2, <2>3
<1>14. \A j \in AllRows(table', o) : table'[j].size = Len(thread[t].work.records)
  <2>1. AllRows(table, o) \subseteq 1..n
    BY <1>3, CountsAreNumbers
  <2> QED BY <1>4, <1>5, <1>8, <1>12, <2>1
<1>15. WriteOK(table', TRUE, thread'[t], o)
  BY <1>2, <1>13, <1>14 DEF WriteOK, SameCall
<1>16. Placed(table', db.memory', thread'[t], t)
  BY <1>2, <1>7, <1>15 DEF Placed, SameCall, OpOf
<1>17. ASSUME NEW i \in 1..Len(table'), table'[i].op = OpOf(t)
       PROVE  RowWhole(table', db.memory', thread', i)
  BY <1>2, <1>10, <1>17 DEF RowWhole, SameCall, OpOf
<1> QED BY <1>6, <1>16, <1>17, BatchStep

LEMMA BatchByInsertOwn ==
    ASSUME LocalInv, BatchInv, NEW t \in Threads, Insert(t), ~ db.memory
    PROVE  BatchInv'
<1>1. PICK row : row = Row(t, Head(thread[t].left))
  OBVIOUS
<1>2. /\ Others(t) /\ UNCHANGED db /\ thread[t].pc = "locked" /\ thread[t].left # <<>>
      /\ thread'[t].pc = "locked" /\ SameCall(t) /\ table' = table
      /\ Head(thread[t].left).bindable
      /\ thread'[t].left = Tail(thread[t].left)
      /\ thread'[t].open = Append(thread[t].open, row)
  BY <1>1, InsertEffect, Zenon
<1>3. row.op = OpOf(t) /\ row.size = Len(thread[t].work.records)
  BY <1>1, RowOfOp
<1>4. thread[t].work.kind \in Writes /\ thread[t].calls \in Nat
  BY <1>2 DEF LocalInv, LocalOK
<1>5. Moves(t)
  BY <1>2, <1>4, TableStays DEF Moves, SameCall
<1>6. PICK o, size : o = OpOf(t) /\ size = Len(thread[t].work.records)
  OBVIOUS
<1>7. WriteOK(table, FALSE, thread[t], o)
  <2>1. Placed(table, db.memory, thread[t], t)
    BY DEF BatchInv
  <2> QED BY <1>2, <1>4, <1>6, <2>1 DEF Placed, OpOf, WriteOK
<1>8. /\ AllRows(table, o) = {} /\ Len(thread[t].open) + Len(thread[t].left) = size
      /\ \A k \in 1..Len(thread[t].open) :
            thread[t].open[k].op = o /\ thread[t].open[k].size = size
  BY <1>6, <1>7 DEF WriteOK
<1>9. PICK open, more : open = thread[t].open /\ more = Append(open, row)
  OBVIOUS
<1>10. PICK n \in Nat : n = Len(open) /\ Len(more) = n + 1 /\ more[n + 1] = row
                       /\ \A k \in 1..n : more[k] = open[k]
  <2>1. open \in Seq(Rows)
    BY <1>9 DEF LocalInv, LocalOK
  <2>2. row \in Rows
    BY <1>1, <1>2, RowIsRow
  <2> HIDE DEF Rows
  <2>3. /\ Len(open) \in Nat /\ Len(more) = Len(open) + 1 /\ more[Len(open) + 1] = row
        /\ \A k \in 1..Len(open) : more[k] = open[k]
    BY <1>9, <2>1, <2>2
  <2> QED BY <2>3
<1>11. Len(thread'[t].open) + Len(thread'[t].left) = size
  <2>1. PICK left, rest : left = Len(thread[t].left) /\ rest = Len(thread'[t].left)
    OBVIOUS
  <2>2. left \in Nat /\ rest = left - 1
    BY <1>2, <2>1, LengthOfTail
  <2>3. n + left = size
    BY <1>8, <1>9, <1>10, <2>1
  <2>4. PICK grown : grown = Len(thread'[t].open) /\ grown = n + 1
    BY <1>2, <1>9, <1>10
  <2>5. grown + rest = size
    BY <2>2, <2>3, <2>4
  <2> QED BY <2>1, <2>4, <2>5
<1>12. \A k \in 1..Len(thread'[t].open) :
            thread'[t].open[k].op = o /\ thread'[t].open[k].size = size
  <2>1. thread'[t].open = more
    BY <1>2, <1>9
  <2>2. \A k \in 1..(n + 1) : k = n + 1 \/ k \in 1..n
    OBVIOUS
  <2> QED BY <1>3, <1>6, <1>8, <1>9, <1>10, <2>1, <2>2
<1>13. WriteOK(table', FALSE, thread'[t], o)
  BY <1>2, <1>6, <1>8, <1>11, <1>12 DEF WriteOK, SameCall
<1>14. Placed(table', db.memory', thread'[t], t)
  BY <1>2, <1>6, <1>13 DEF Placed, SameCall, OpOf, WriteOK
<1> QED BY <1>2, <1>5, <1>14, SameRows, BatchStep

LEMMA BatchByRaise ==
    ASSUME LocalInv, BatchInv, NEW t \in Threads, Raise(t)
    PROVE  BatchInv'
<1>1. /\ Reset(t) /\ thread'[t].failed = thread[t].failed \cup {thread[t].calls}
      /\ UNCHANGED <<db, table>>
  BY RaiseEffect
<1>2. Others(t) /\ thread'[t].pc = "idle" /\ thread'[t].calls = thread[t].calls
  BY <1>1 DEF Reset, Idle
<1>3. thread[t].calls \in Nat
  BY DEF LocalInv, LocalOK
<1>4. Moves(t)
  BY <1>1, <1>2, <1>3, TableStays DEF Moves
<1>5. Placed(table', db.memory', thread'[t], t)
  BY <1>2 DEF Placed
<1>6. ASSUME NEW i \in 1..Len(table'), table'[i].op = OpOf(t)
      PROVE  RowWhole(table', db.memory', thread', i)
  <2>1. CASE ~ db.memory
    BY <1>1, <1>4, <1>6, <2>1, SameRows
  <2>2. CASE db.memory
    <3>1. table'[i].op[1] = t /\ table'[i].op[2] \in thread'[t].failed
      BY <1>1, <1>6 DEF OpOf
    <3> QED BY <1>1, <2>2, <3>1, Zenon DEF RowWhole
  <2> QED BY <2>1, <2>2
<1> QED BY <1>4, <1>5, <1>6, BatchStep

LEMMA BatchByRead ==
    ASSUME LocalInv, BatchInv, NEW t \in Threads, Read(t)
    PROVE  BatchInv'
<1>1. /\ Others(t) /\ thread'[t].pc = "idle" /\ SameCall(t)
      /\ thread[t].work.kind \in Queries /\ UNCHANGED <<db, table>>
  BY ReadEffect, Zenon
<1>2. thread[t].calls \in Nat /\ thread[t].work.kind \notin Writes
  <2>1. thread[t].work.kind \notin Writes
    BY <1>1 DEF Writes, Queries
  <2> QED BY <2>1 DEF LocalInv, LocalOK
<1>3. Moves(t)
  BY <1>1, <1>2, TableStays DEF Moves, SameCall
<1>4. Placed(table', db.memory', thread'[t], t)
  BY <1>1 DEF Placed
<1> QED BY <1>1, <1>2, <1>3, <1>4, SameRows, BatchStep

LEMMA BatchByCommit ==
    ASSUME LocalInv, OpenInv, BatchInv, NEW t \in Threads, Commit(t)
    PROVE  BatchInv'
<1>1. /\ Reset(t) /\ thread'[t].failed = thread[t].failed /\ UNCHANGED db
      /\ thread[t].pc = "locked" /\ thread[t].work.kind \in Writes
      /\ thread[t].left = <<>> /\ table' = table \o thread[t].open
  BY CommitEffect DEF Commit
<1>2. Others(t) /\ thread'[t].pc = "idle" /\ thread'[t].calls = thread[t].calls
  BY <1>1 DEF Reset, Idle
<1>3. PICK o, open, size :
        o = OpOf(t) /\ open = thread[t].open /\ size = Len(thread[t].work.records)
  OBVIOUS
<1>4. PICK n \in Nat, m \in Nat :
        /\ n = Len(table) /\ m = Len(open) /\ Len(table') = n + m
        /\ \A i \in 1..n : table'[i] = table[i]
        /\ \A k \in 1..m : table'[n + k] = open[k]
        /\ m = 0 => table' = table
  <2>1. table \in Seq(Rows) /\ open \in Seq(Rows)
    BY <1>3 DEF LocalInv, LocalOK
  <2> HIDE DEF Rows
  <2>2. table' = table \o open
    BY <1>1, <1>3
  <2>3. /\ Len(table) \in Nat /\ Len(open) \in Nat
        /\ Len(table') = Len(table) + Len(open)
        /\ \A i \in 1..Len(table) : table'[i] = table[i]
        /\ \A k \in 1..Len(open) : table'[Len(table) + k] = open[k]
    BY <2>1, <2>2
  <2>4. Len(open) = 0 => table' = table
    BY <2>1, <2>2
  <2> QED BY <2>3, <2>4
<1>5. WriteOK(table, db.memory, thread[t], o)
  BY <1>1, <1>3 DEF BatchInv, Placed, OpOf
<1>6. thread[t].calls \in Nat /\ Len(thread[t].left) = 0
  BY <1>1 DEF LocalInv, LocalOK
<1>7. TableGrows
  BY <1>4 DEF TableGrows
<1>8. Placed(table', db.memory', thread'[t], t)
  BY <1>2 DEF Placed
<1>9. CASE db.memory
  <2>1. open = <<>>
    BY <1>3, <1>9 DEF OpenInv
  <2>2. table' = table
    BY <1>4, <2>1
  <2>3. Moves(t)
    BY <1>1, <1>2, <1>6, <2>2, TableStays DEF Moves
  <2>4. /\ Cardinality(AllRows(table, o)) + Len(thread[t].left) = size
        /\ \A j \in AllRows(table, o) : table[j].size = size
    BY <1>3, <1>5, <1>9 DEF WriteOK
  <2>5. Cardinality(AllRows(table, o)) = size
    <3>1. Cardinality(AllRows(table, o)) \in Nat
      BY CountsAreNumbers
    <3> QED BY <1>6, <2>4, <3>1
  <2>6. ASSUME NEW i \in 1..Len(table'), table'[i].op = OpOf(t)
        PROVE  RowWhole(table', db.memory', thread', i)
    <3>1. table[i].size = size /\ table[i].op = o
      BY <1>3, <2>2, <2>4, <2>6 DEF AllRows, RowsUpTo
    <3> QED BY <2>2, <2>5, <3>1, Zenon DEF RowWhole
  <2> QED BY <1>8, <2>3, <2>6, BatchStep
<1>10. CASE ~ db.memory
  <2>1. /\ AllRows(table, o) = {} /\ m + Len(thread[t].left) = size
        /\ \A k \in 1..m : open[k].op = o /\ open[k].size = size
    BY <1>3, <1>4, <1>5, <1>10 DEF WriteOK
  <2>2. size = m
    BY <1>6, <2>1
  <2>3. \A i \in (n + 1)..(n + m) : table'[i].op = o /\ table'[i].size = size
    <3> SUFFICES ASSUME NEW i \in (n + 1)..(n + m)
                 PROVE  table'[i].op = o /\ table'[i].size = size
      OBVIOUS
    <3>1. PICK k \in 1..m : i = n + k
      <4>1. i - n \in 1..m /\ i = n + (i - n)
        OBVIOUS
      <4> QED BY <4>1
    <3> QED BY <1>4, <2>1, <3>1
  <2>4. Moves(t)
    <3>1. \A i \in 1..Len(table') : i > Len(table) => i \in (n + 1)..(n + m)
      BY <1>4
    <3> QED BY <1>1, <1>2, <1>3, <1>6, <1>7, <2>3, <3>1 DEF Moves
  <2>5. AllRows(table', o) = (n + 1)..(n + m)
    <3>1. \A i \in 1..n : table'[i].op # o
      BY <1>4, <2>1 DEF AllRows, RowsUpTo
    <3>2. 1..Len(table') = (1..n) \cup ((n + 1)..(n + m))
      BY <1>4
    <3> QED BY <2>3, <3>1, <3>2 DEF AllRows, RowsUpTo
  <2>6. Cardinality(AllRows(table', o)) = size
    <3>1. Cardinality((n + 1)..(n + m)) = m
      <4>1. n + 1 \in Int /\ n + m \in Int
        OBVIOUS
      <4>2. Cardinality((n + 1)..(n + m)) =
                IF n + 1 > n + m THEN 0 ELSE (n + m) - (n + 1) + 1
        BY <4>1, FS_Interval
      <4> QED BY <4>2
    <3> QED BY <2>2, <2>5, <3>1
  <2>7. ASSUME NEW i \in 1..Len(table'), table'[i].op = OpOf(t)
        PROVE  RowWhole(table', db.memory', thread', i)
    <3>1. i \in AllRows(table', o)
      BY <1>3, <2>7 DEF AllRows, RowsUpTo
    <3>2. table'[i].size = size
      BY <2>3, <2>5, <3>1
    <3> QED BY <1>3, <2>6, <2>7, <3>2, Zenon DEF RowWhole
  <2> QED BY <1>8, <2>4, <2>7, BatchStep
<1> QED BY <1>9, <1>10

LEMMA BatchesAreInductive == LocalInv /\ OpenInv /\ BatchInv /\ [Next]_vars => BatchInv'
<1> SUFFICES ASSUME LocalInv, OpenInv, BatchInv, [Next]_vars PROVE BatchInv'
  OBVIOUS
<1>1. CASE UNCHANGED <<db, table, thread>>
  BY <1>1, Zenon DEF BatchInv, Placed, WriteOK, RowWhole, AllRows, RowsUpTo
<1>2. ASSUME NEW t \in Threads, Insert(t) PROVE BatchInv'
  BY <1>2, BatchByInsertShared, BatchByInsertOwn
<1>3. ASSUME NEW t \in Threads, Reject(t) \/ Fail(t) PROVE BatchInv'
  BY <1>3, BatchByRaise DEF Reject, Fail
<1> QED
  BY <1>1, <1>2, <1>3, BatchByCall, BatchByAcquire, BatchByCommit, BatchByRead, Zenon
     DEF Next, Proceed, Tick, vars

\* What t has read of each batch, for SeesWholeBatches.
SeenWhole(t) ==
    Answered(t) =>
        \A i \in 1..thread[t].upto :
            LET op == table[i].op
            IN  \/ Cardinality(RowsUpTo(table, thread[t].upto, op)) = table[i].size
                \/ db.memory /\ op[2] \in thread[op[1]].failed

LEMMA SeenStays ==
    ASSUME LocalInv, TableGrows, UNCHANGED db, NEW u \in Threads, thread'[u] = thread[u],
           \A v \in Threads : thread[v].failed \subseteq thread'[v].failed, SeenWhole(u)
    PROVE  SeenWhole(u)'
<1> SUFFICES ASSUME thread[u].answer # None, NEW i \in 1..thread[u].upto
             PROVE  LET op == table'[i].op
                    IN  \/ Cardinality(RowsUpTo(table', thread[u].upto, op)) = table'[i].size
                        \/ db.memory /\ op[2] \in thread'[op[1]].failed
  BY Zenon DEF SeenWhole, Answered
<1>1. PICK n \in Nat : n = thread[u].upto /\ n <= Len(table) /\ Len(table) \in Nat
  BY DEF LocalInv, LocalOK, TableGrows
<1>2. \A j \in 1..n : table'[j] = table[j]
  BY <1>1 DEF TableGrows
<1>3. PICK op : op = table[i].op /\ op[1] \in Threads
  BY <1>1, OpIsOp
<1>4. RowsUpTo(table', n, op) = RowsUpTo(table, n, op) /\ table'[i] = table[i]
  BY <1>1, <1>2 DEF RowsUpTo
<1>5. \/ Cardinality(RowsUpTo(table, n, op)) = table[i].size
      \/ db.memory /\ op[2] \in thread[op[1]].failed
  BY <1>1, <1>3, Zenon DEF SeenWhole, Answered
<1>6. op[2] \in thread[op[1]].failed => op[2] \in thread'[op[1]].failed
  BY <1>3
<1> QED BY <1>1, <1>3, <1>4, <1>5, <1>6, Zenon

\* A query reads no batch half way: in memory the lock keeps writers out, and on a file
\* only what is committed is visible.
LEMMA SeenByRead ==
    ASSUME LocalInv, LockInv, BatchInv, NEW t \in Threads, Read(t)
    PROVE  SeenWhole(t)'
<1>1. /\ Others(t) /\ SameCall(t) /\ thread'[t].upto = Len(table)
      /\ thread[t].pc = "locked" /\ thread[t].work.kind \in Queries
      /\ UNCHANGED <<db, table>>
  BY ReadEffect, Zenon
<1>2. ASSUME NEW i \in 1..Len(table)
      PROVE  LET op == table[i].op
             IN  \/ Cardinality(RowsUpTo(table, Len(table), op)) = table[i].size
                 \/ db.memory /\ op[2] \in thread'[op[1]].failed
  <2>1. PICK op : op = table[i].op /\ op[1] \in Threads
    BY OpIsOp
  <2>2. RowWhole(table, db.memory, thread, i)
    BY DEF BatchInv
  <2>3. thread'[op[1]].failed = thread[op[1]].failed
    BY <1>1, <2>1 DEF Others, SameCall
  <2>4. ~ (db.memory /\ thread[op[1]].pc = "locked" /\ thread[op[1]].work.kind \in Writes)
    <3> SUFFICES ASSUME db.memory, thread[op[1]].pc = "locked",
                        thread[op[1]].work.kind \in Writes
                 PROVE  FALSE
      OBVIOUS
    <3>1. StoreOf(op[1]) = StoreOf(t)
      BY <2>1, AgentStateAssumption DEF LocalInv, StoreOf
    <3>2. op[1] = t
      BY <1>1, <2>1, <3>1 DEF LockInv
    <3> QED BY <1>1, <3>2 DEF Writes, Queries
  <2> QED BY <2>1, <2>2, <2>3, <2>4, Zenon DEF RowWhole, AllRows
<1>3. thread'[t].upto = Len(table) /\ table' = table /\ db' = db
  BY <1>1
<1> QED BY <1>2, <1>3, Zenon DEF SeenWhole

LEMMA SeenIsInductive ==
    LocalInv /\ LockInv /\ BatchInv /\ SeesWholeBatches /\ [Next]_vars => SeesWholeBatches'
<1> SUFFICES ASSUME LocalInv, LockInv, BatchInv, SeesWholeBatches, [Next]_vars,
                    NEW u \in Threads
             PROVE  SeenWhole(u)'
  BY Zenon DEF SeesWholeBatches, SeenWhole, RowsUpTo
<1>1. TableGrows /\ SeenWhole(u)
  BY TableOnlyGrows, Zenon DEF SeesWholeBatches, SeenWhole, RowsUpTo
<1>2. ASSUME NEW t \in Threads, Others(t), UNCHANGED db,
             thread[t].failed \subseteq thread'[t].failed,
             t = u => thread'[t].answer = None
      PROVE  SeenWhole(u)'
  <2>1. CASE u = t
    BY <1>2, <2>1 DEF SeenWhole, Answered
  <2>2. CASE u # t
    <3>1. \A v \in Threads : thread[v].failed \subseteq thread'[v].failed
      BY <1>2 DEF Others
    <3>2. thread'[u] = thread[u]
      BY <1>2, <2>2 DEF Others
    <3> QED BY <1>1, <1>2, <3>1, <3>2, SeenStays
  <2> QED BY <2>1, <2>2
<1>3. CASE UNCHANGED <<db, thread>>
  BY <1>1, <1>3, SeenStays
<1>4. ASSUME NEW t \in Threads, NEW w \in Works[t], Call(t, w) PROVE SeenWhole(u)'
  <2>1. /\ Others(t) /\ UNCHANGED db /\ thread'[t].answer = None
        /\ thread'[t].failed = thread[t].failed
    BY <1>4, CallEffect, Zenon
  <2> QED BY <1>2, <2>1
<1>5. ASSUME NEW t \in Threads, Acquire(t) PROVE SeenWhole(u)'
  <2>1. /\ Others(t) /\ UNCHANGED db /\ thread'[t].answer = thread[t].answer
        /\ thread[t].pc = "wait" /\ SameCall(t)
    BY <1>5, AcquireEffect, Zenon
  <2>2. thread[t].answer = None
    BY <2>1 DEF LocalInv, LocalOK
  <2> QED BY <1>2, <2>1, <2>2 DEF SameCall
<1>6. ASSUME NEW t \in Threads, Insert(t) PROVE SeenWhole(u)'
  <2>1. /\ Others(t) /\ UNCHANGED db /\ thread'[t].answer = thread[t].answer
        /\ thread[t].pc = "locked" /\ SameCall(t)
    BY <1>6, InsertEffect, Zenon
  <2>2. thread[t].answer = None
    BY <2>1 DEF LocalInv, LocalOK
  <2> QED BY <1>2, <2>1, <2>2 DEF SameCall
<1>7. ASSUME NEW t \in Threads, Reset(t), UNCHANGED db,
             thread[t].failed \subseteq thread'[t].failed
      PROVE  SeenWhole(u)'
  <2>1. Others(t) /\ thread'[t].answer = None
    BY <1>7 DEF Reset, Idle
  <2> QED BY <1>2, <1>7, <2>1
<1>8. ASSUME NEW t \in Threads, Commit(t) PROVE SeenWhole(u)'
  BY <1>7, <1>8, CommitEffect DEF Commit
<1>9. ASSUME NEW t \in Threads, Reject(t) \/ Fail(t) PROVE SeenWhole(u)'
  <2>1. Raise(t)
    BY <1>9 DEF Reject, Fail
  <2> QED BY <1>7, <2>1, RaiseEffect
<1>10. ASSUME NEW t \in Threads, Read(t) PROVE SeenWhole(u)'
  <2>1. CASE u = t
    BY <1>10, <2>1, SeenByRead
  <2>2. CASE u # t
    <3>1. Others(t) /\ UNCHANGED db /\ SameCall(t)
      BY <1>10, ReadEffect, Zenon
    <3> QED BY <1>2, <2>2, <3>1 DEF SameCall
  <2> QED BY <2>1, <2>2
<1> QED
  BY <1>3, <1>4, <1>5, <1>6, <1>8, <1>9, <1>10, Zenon DEF Next, Proceed, Tick, vars

\* A query sees each batch as a whole or not at all, through any store object, unless the
\* batch failed on the connection in memory that all calls share (state.py:94).
THEOREM BatchesAreSeenWhole == Spec => []SeesWholeBatches
<1>1. Init => BatchInv /\ SeesWholeBatches
  <2> SUFFICES ASSUME Init PROVE BatchInv /\ SeesWholeBatches
    OBVIOUS
  <2>1. Len(table) = 0 /\ \A t \in Threads : thread[t].pc = "idle" /\ thread[t].answer = None
    BY DEF Init, Idle
  <2>2. BatchInv
    BY <2>1 DEF BatchInv, Placed
  <2>3. SeesWholeBatches
    BY <2>1 DEF SeesWholeBatches, Answered
  <2> QED BY <2>2, <2>3
<1>2. BaseInv /\ BatchInv /\ SeesWholeBatches /\ [Next]_vars
        => BatchInv' /\ SeesWholeBatches'
  BY BatchesAreInductive, SeenIsInductive DEF BaseInv
<1> QED BY <1>1, <1>2, BaseHolds, PTL DEF Spec

=============================================================================
