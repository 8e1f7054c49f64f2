-------------------------- MODULE AuditTrailProofs --------------------------
(***************************************************************************)
(* Proofs about the audit trail, for any number of calls, loggers, legacy  *)
(* rows and crashes.                                                       *)
(***************************************************************************)
EXTENDS AuditTrail, TLAPS

-----------------------------------------------------------------------------
(* Rows *)

\* The row of an event is well formed, and its hash names the event.
LEMMA EventRowType ==
    ASSUME NEW c \in Calls, NEW ts \in Nat, NEW prev \in Seq(Entries), NEW v \in Verdicts
    PROVE  /\ EventRow(c, ts, prev, v) \in Row
           /\ IsEvent(EventRow(c, ts, prev, v))
           /\ EventRow(c, ts, prev, v).prev = prev
           /\ EventRow(c, ts, prev, v).hash = EntryHash(c, prev)
<1>1. EntryHash(c, prev) \in Seq(Entries)
  BY DEF EntryHash, Entries
<1>2. Recorded(v) \in EventVerdicts
  BY DEF EventVerdicts
<1> QED BY <1>1, <1>2 DEF EventRow, Row, IsEvent, Entries

\* A hash is never the empty string, and its last link is the entry it was computed for.
LEMMA HashEndsInEntry ==
    ASSUME NEW e \in Entries, NEW prev \in Seq(Entries)
    PROVE  /\ EntryHash(e, prev) \in Seq(Entries)
           /\ EntryHash(e, prev) # Genesis
           /\ EntryHash(e, prev)[Len(EntryHash(e, prev))] = e
  BY DEF EntryHash, Genesis

\* What record_event reads is a stored hash, or nothing.
LEMMA LastHashType ==
    ASSUME log \in Seq(Row)
    PROVE  /\ LastHash(log) \in Seq(Entries)
           /\ LastHash(log) # Genesis =>
                Len(log) \in DOMAIN log /\ LastHash(log) = log[Len(log)].hash
<1>1. CASE log = <<>>
  BY <1>1 DEF LastHash, Genesis
<1>2. CASE log # <<>>
  <2>1. Len(log) \in DOMAIN log /\ log[Len(log)] \in Row
    BY <1>2
  <2> QED BY <1>2, <2>1 DEF LastHash, Row
<1> QED BY <1>1, <1>2

-----------------------------------------------------------------------------
(* Type correctness *)

Writers ==
    [pc : {"idle", "started", "read", "done", "failed"}, start : Nat, head : Seq(Entries)]

LoggerStates ==
    [pc : {"off", "migrating", "ready"}, todo : SUBSET DOMAIN log, prev : Seq(Entries)]

\* A table of legacy rows is well formed.
LEMMA InitTypeOK == Init => TypeOK
<1> SUFFICES ASSUME Init PROVE TypeOK
  OBVIOUS
<1>1. PICK old \in Legacies :
        /\ log = [i \in DOMAIN old |-> LegacyRow(old[i])]
        /\ logger \in [Loggers -> {Off} \cup IF old = <<>> THEN {Ready} ELSE {}]
        /\ quiet = InOrder(old)
  BY DEF Init
<1>2. log \in Seq(Row)
  <2>1. old \in Seq([entry : LegacyEntries, ts : Int])
    BY AuditTrailAssumption
  <2>2. \A i \in DOMAIN old : LegacyRow(old[i]) \in Row
    <3>1. \A i \in DOMAIN old : old[i] \in [entry : LegacyEntries, ts : Int]
      <4>1. ASSUME NEW R, old \in Seq(R) PROVE \A i \in DOMAIN old : old[i] \in R
        BY <4>1
      <4> QED BY <2>1, <4>1
    <3>2. Genesis \in Seq(Entries)
      BY DEF Genesis
    <3> QED BY <3>1, <3>2 DEF LegacyRow, Row, Entries
  <2> QED BY <1>1, <2>1, <2>2
<1>3. Off \in LoggerStates /\ Ready \in LoggerStates
  BY DEF Off, Ready, LoggerStates, Genesis
<1>4. logger \in [Loggers -> LoggerStates]
  BY <1>1, <1>3
<1>5. Closed("idle") \in Writers
  BY DEF Closed, Writers, Genesis
<1>6. quiet \in BOOLEAN
  BY <1>1 DEF InOrder
<1> QED BY <1>2, <1>4, <1>5, <1>6 DEF Init, TypeOK, Writers, LoggerStates

\* Every step of a call, of a backfill and of a crash keeps the trail well formed.
LEMMA NextTypeOK == TypeOK /\ [Next]_vars => TypeOK'
<1> SUFFICES ASSUME TypeOK, [Next]_vars PROVE TypeOK'
  OBVIOUS
<1> USE DEF TypeOK
<1>0. writer \in [Calls -> Writers] /\ logger \in [Loggers -> LoggerStates]
  BY DEF Writers, LoggerStates
<1>a. Closed("done") \in Writers /\ Closed("failed") \in Writers
  BY DEF Closed, Writers, Genesis
<1>1. CASE Tick
  BY <1>1 DEF Tick
<1>2. ASSUME NEW c \in Calls, Record(c) PROVE TypeOK'
  <2>1. CASE Start(c)
    BY <2>1 DEF Start
  <2>2. CASE ReadHead(c)
    BY <2>2, LastHashType DEF ReadHead
  <2>3. ASSUME NEW v \in Verdicts, Insert(c, v) PROVE TypeOK'
    <3>1. writer[c].start \in Nat /\ writer[c].head \in Seq(Entries)
      OBVIOUS
    <3>2. log' \in Seq(Row) /\ DOMAIN log \subseteq DOMAIN log'
      BY <2>3, <3>1, EventRowType DEF Insert
    <3>3. writer' \in [Calls -> Writers]
      BY <1>0, <1>a, <2>3 DEF Insert
    <3>4. logger' \in [Loggers -> LoggerStates']
      BY <1>0, <2>3, <3>2 DEF Insert, LoggerStates
    <3> QED BY <2>3, <3>2, <3>3, <3>4 DEF Insert, Writers, LoggerStates
  <2>4. CASE Fail(c)
    BY <1>0, <1>a, <2>4 DEF Fail, Writers
  <2> QED BY <1>2, <2>1, <2>2, <2>3, <2>4 DEF Record
<1>3. ASSUME NEW l \in Loggers, Migrate(l) PROVE TypeOK'
  <2>1. CASE Open(l)
    <3>1. [pc |-> IF Unhashed = {} THEN "ready" ELSE "migrating",
           todo |-> Unhashed, prev |-> Genesis] \in LoggerStates
      BY DEF LoggerStates, Unhashed, Genesis
    <3>2. logger' \in [Loggers -> LoggerStates]
      BY <1>0, <2>1, <3>1 DEF Open
    <3> QED BY <2>1, <3>2 DEF Open, LoggerStates
  <2>2. CASE MigrateOne(l)
    <3>1. PICK i \in logger[l].todo :
            LET h == EntryHash(log[i].entry, logger[l].prev)
                rest == logger[l].todo \ {i}
            IN  /\ log' = [log EXCEPT ![i].prev = logger[l].prev, ![i].hash = h]
                /\ logger' = [logger EXCEPT ![l] =
                        [pc |-> IF rest = {} THEN "ready" ELSE "migrating",
                         todo |-> rest, prev |-> h]]
      BY <2>2 DEF MigrateOne
    <3>2. i \in DOMAIN log /\ logger[l].prev \in Seq(Entries) /\ logger[l].todo \subseteq DOMAIN log
      BY <1>0, <3>1 DEF LoggerStates
    <3>3. log[i] \in Row
      BY <3>2
    <3>8. log[i].entry \in Entries
      BY <3>3 DEF Row
    <3> DEFINE h == EntryHash(log[i].entry, logger[l].prev)
    <3>4. h \in Seq(Entries)
      BY <3>2, <3>8, HashEndsInEntry
    <3>5. [log[i] EXCEPT !.prev = logger[l].prev, !.hash = h] \in Row
      BY <3>2, <3>3, <3>4 DEF Row
    <3>9. log' = [log EXCEPT ![i] = [log[i] EXCEPT !.prev = logger[l].prev, !.hash = h]]
      BY <3>1
    <3>6. log' \in Seq(Row) /\ DOMAIN log' = DOMAIN log
      BY <3>2, <3>5, <3>9
    <3>7. logger' \in [Loggers -> LoggerStates]
      BY <1>0, <3>1, <3>2, <3>4 DEF LoggerStates
    <3> QED BY <2>2, <3>6, <3>7 DEF MigrateOne, LoggerStates
  <2> QED BY <1>3, <2>1, <2>2 DEF Migrate
<1>4. ASSUME NEW l \in Loggers, Crash(l) PROVE TypeOK'
  <2>1. Off \in LoggerStates
    BY DEF Off, LoggerStates, Genesis
  <2>2. logger' \in [Loggers -> LoggerStates]
    BY <1>0, <1>4, <2>1 DEF Crash
  <2>3. writer' \in [Calls -> Writers]
    BY <1>0, <1>a, <1>4 DEF Crash
  <2> QED BY <1>4, <2>2, <2>3 DEF Crash, LoggerStates, Writers
<1>5. CASE UNCHANGED vars
  BY <1>5 DEF vars
<1> QED BY <1>1, <1>2, <1>3, <1>4, <1>5 DEF Next

\* Rows, calls and migrations stay well formed; in particular a migration only ever
\* updates rows that exist (audit.py).
THEOREM TypeCorrect == Spec => []TypeOK
  BY InitTypeOK, NextTypeOK, PTL DEF Spec

-----------------------------------------------------------------------------
(* What a step does to the table *)

\* One UPDATE of the backfill: the lowest listed row is linked to the hash the migration
\* carries, and every other row is left alone.
LEMMA MigrateOneStep ==
    ASSUME TypeOK, NEW l \in Loggers, MigrateOne(l)
    PROVE  \E i \in logger[l].todo :
              /\ i \in DOMAIN log
              /\ \A j \in logger[l].todo : i <= j
              /\ DOMAIN log' = DOMAIN log
              /\ \A j \in DOMAIN log \ {i} : log'[j] = log[j]
              /\ log'[i].entry = log[i].entry
              /\ log'[i].ts = log[i].ts
              /\ log'[i].prev = logger[l].prev
              /\ log'[i].hash = EntryHash(log[i].entry, logger[l].prev)
              /\ log[i].entry \in Entries /\ logger[l].prev \in Seq(Entries)
              /\ logger' = [logger EXCEPT ![l] =
                    [pc |-> IF logger[l].todo \ {i} = {} THEN "ready" ELSE "migrating",
                     todo |-> logger[l].todo \ {i},
                     prev |-> EntryHash(log[i].entry, logger[l].prev)]]
<1>1. PICK i \in logger[l].todo :
        LET h == EntryHash(log[i].entry, logger[l].prev)
            rest == logger[l].todo \ {i}
        IN  /\ \A j \in logger[l].todo : i <= j
            /\ log' = [log EXCEPT ![i].prev = logger[l].prev, ![i].hash = h]
            /\ logger' = [logger EXCEPT ![l] =
                    [pc |-> IF rest = {} THEN "ready" ELSE "migrating",
                     todo |-> rest, prev |-> h]]
  BY DEF MigrateOne
<1>2. i \in DOMAIN log /\ logger[l].prev \in Seq(Entries)
  BY <1>1 DEF TypeOK
<1>3. log[i] \in Row
  BY <1>2 DEF TypeOK
<1> DEFINE h == EntryHash(log[i].entry, logger[l].prev)
<1>4. log' = [log EXCEPT ![i] = [log[i] EXCEPT !.prev = logger[l].prev, !.hash = h]]
  BY <1>1
<1>5. /\ DOMAIN log' = DOMAIN log
      /\ log'[i] = [log[i] EXCEPT !.prev = logger[l].prev, !.hash = h]
      /\ \A j \in DOMAIN log \ {i} : log'[j] = log[j]
  BY <1>2, <1>4 DEF TypeOK
<1>6. /\ log'[i].entry = log[i].entry /\ log'[i].ts = log[i].ts
      /\ log'[i].prev = logger[l].prev /\ log'[i].hash = h
      /\ log[i].entry \in Entries
  BY <1>3, <1>5 DEF Row
<1> QED BY <1>1, <1>2, <1>5, <1>6

\* One INSERT: the new row is the event's, linked to the head its call read.
LEMMA InsertStep ==
    ASSUME TypeOK, NEW c \in Calls, NEW v \in Verdicts, Insert(c, v)
    PROVE  /\ DOMAIN log' = 1..(Len(log) + 1)
           /\ \A i \in DOMAIN log : log'[i] = log[i]
           /\ log'[Len(log) + 1].entry = c
           /\ log'[Len(log) + 1].ts = writer[c].start
           /\ log'[Len(log) + 1].prev = writer[c].head
           /\ log'[Len(log) + 1].hash = EntryHash(c, writer[c].head)
           /\ writer[c].head \in Seq(Entries) /\ c \in Entries
           /\ log \in Seq(Row)
<1>1. log' = Append(log, EventRow(c, writer[c].start, writer[c].head, v)) /\ log \in Seq(Row)
  BY DEF Insert, TypeOK
<1>2. /\ DOMAIN log' = 1..(Len(log) + 1)
      /\ \A i \in DOMAIN log : log'[i] = log[i]
      /\ log'[Len(log) + 1] = EventRow(c, writer[c].start, writer[c].head, v)
  BY <1>1
<1> QED BY <1>1, <1>2 DEF EventRow, TypeOK, Entries

\* Every other step leaves the table alone.
LEMMA OtherStep ==
    ASSUME [Next]_vars, \A c \in Calls, v \in Verdicts : ~ Insert(c, v),
           \A l \in Loggers : ~ MigrateOne(l)
    PROVE  log' = log
  BY DEF Next, vars, Tick, Record, Start, ReadHead, Fail, Migrate, Open, Crash

-----------------------------------------------------------------------------
(* Links *)

\* A stored hash was computed for the row it is stored in, and no event's row lacks one.
HashesNameEntries ==
    \A i \in DOMAIN log :
        /\ log[i].hash # Genesis => log[i].hash[Len(log[i].hash)] = log[i].entry
        /\ IsEvent(log[i]) => log[i].hash # Genesis

\* A migration never lists the row of an event.
ListsAreLegacy == \A l \in Loggers : \A i \in logger[l].todo : ~ IsEvent(log[i])

\* Row i of table t is the one the hash h was read from, or is a legacy row.
Names(t, h, i) ==
    /\ t[i].entry = h[Len(h)]
    /\ IsEvent(t[i]) => t[i].hash = h

\* The head a call holds between its two statements names a row.
HeadsName ==
    \A c \in Calls : writer[c].pc = "read" =>
        writer[c].head = Genesis \/ \E j \in DOMAIN log : Names(log, writer[c].head, j)

\* What makes LinksBackward and RecordedRowsAreImmutable inductive.
LinkInv == TypeOK /\ HashesNameEntries /\ ListsAreLegacy /\ HeadsName /\ LinksBackward

\* Legacy rows have no links at first.
LEMMA InitLinkInv == Init => LinkInv
<1> SUFFICES ASSUME Init PROVE LinkInv
  OBVIOUS
<1>0. PICK old \in Legacies :
        /\ log = [i \in DOMAIN old |-> LegacyRow(old[i])]
        /\ logger \in [Loggers -> {Off} \cup IF old = <<>> THEN {Ready} ELSE {}]
  BY DEF Init
<1>1. \A i \in DOMAIN log : ~ IsEvent(log[i]) /\ log[i].hash = Genesis
  <2>1. \A i \in DOMAIN old : old[i].entry \in LegacyEntries
    BY DEF LegacyEntries
  <2> QED BY <1>0, <2>1, AuditTrailAssumption DEF IsEvent, LegacyRow
<1>2. ListsAreLegacy
  BY <1>0, <1>1 DEF ListsAreLegacy, Off, Ready
<1> QED
  BY <1>1, <1>2, InitTypeOK
  DEF LinkInv, HashesNameEntries, HeadsName, LinksBackward, Init, Closed

\* A row keeps its entry, and an event's row keeps everything.
LEMMA RowStep ==
    ASSUME LinkInv, [Next]_vars, NEW i \in DOMAIN log
    PROVE  /\ i \in DOMAIN log'
           /\ log'[i].entry = log[i].entry
           /\ \/ log'[i] = log[i]
              \/ ~ IsEvent(log[i]) /\ \E l \in Loggers : i \in logger[l].todo
<1>1. ASSUME NEW c \in Calls, NEW v \in Verdicts, Insert(c, v)
      PROVE  i \in DOMAIN log' /\ log'[i] = log[i]
  BY <1>1, InsertStep DEF LinkInv
<1>2. ASSUME NEW l \in Loggers, MigrateOne(l)
      PROVE  /\ i \in DOMAIN log' /\ log'[i].entry = log[i].entry
             /\ log'[i] = log[i] \/ (~ IsEvent(log[i]) /\ i \in logger[l].todo)
  <2>1. PICK k \in logger[l].todo :
          /\ DOMAIN log' = DOMAIN log /\ log'[k].entry = log[k].entry
          /\ \A j \in DOMAIN log \ {k} : log'[j] = log[j]
    BY <1>2, MigrateOneStep DEF LinkInv
  <2>2. CASE i = k
    BY <2>1, <2>2 DEF LinkInv, ListsAreLegacy
  <2>3. CASE i # k
    <3>1. log'[i] = log[i]
      BY <2>1, <2>3
    <3> QED BY <2>1, <3>1
  <2> QED BY <2>2, <2>3
<1> QED BY <1>1, <1>2, OtherStep

\* A row that a hash names goes on being named by it.
LEMMA NamesStep ==
    ASSUME LinkInv, [Next]_vars, NEW h, NEW i \in DOMAIN log, Names(log, h, i)
    PROVE  i \in DOMAIN log' /\ Names(log', h, i)
  BY RowStep DEF Names, IsEvent

\* A row a step adds belongs to an event, linked to the head its call read.
LEMMA NewRow ==
    ASSUME LinkInv, [Next]_vars, NEW i \in DOMAIN log', i \notin DOMAIN log
    PROVE  /\ i = Len(log) + 1 /\ DOMAIN log = 1..Len(log)
           /\ \E c \in Calls :
                /\ writer[c].pc = "read"
                /\ log'[i].entry = c
                /\ log'[i].prev = writer[c].head
                /\ log'[i].hash # Genesis
                /\ log'[i].hash[Len(log'[i].hash)] = c
<1>1. ASSUME NEW l \in Loggers, MigrateOne(l) PROVE FALSE
  BY <1>1, MigrateOneStep DEF LinkInv
<1>2. PICK c \in Calls, v \in Verdicts : Insert(c, v)
  BY <1>1, OtherStep
<1>3. /\ DOMAIN log' = 1..(Len(log) + 1) /\ DOMAIN log = 1..Len(log) /\ Len(log) \in Nat
      /\ log'[Len(log) + 1].entry = c
      /\ log'[Len(log) + 1].prev = writer[c].head
      /\ log'[Len(log) + 1].hash = EntryHash(c, writer[c].head)
      /\ writer[c].head \in Seq(Entries) /\ c \in Entries
  BY <1>2, InsertStep DEF LinkInv
<1>4. i = Len(log) + 1
  BY <1>3
<1>5. writer[c].pc = "read"
  BY <1>2 DEF Insert
<1> QED BY <1>3, <1>4, <1>5, HashEndsInEntry

\* Inserts link to what was read, and the backfill leaves those links and their
\* targets in place.
LEMMA NextLinkInv == LinkInv /\ [Next]_vars => LinkInv'
<1> SUFFICES ASSUME LinkInv, [Next]_vars PROVE LinkInv'
  OBVIOUS
<1>0. TypeOK /\ TypeOK'
  BY NextTypeOK DEF LinkInv
<1>1. HashesNameEntries'
  <2> SUFFICES ASSUME NEW i \in DOMAIN log'
               PROVE  /\ log'[i].hash # Genesis => log'[i].hash[Len(log'[i].hash)] = log'[i].entry
                      /\ IsEvent(log'[i]) => log'[i].hash # Genesis
    BY DEF HashesNameEntries, IsEvent
  <2>1. CASE i \notin DOMAIN log
    BY <2>1, NewRow
  <2>2. CASE i \in DOMAIN log /\ log'[i] = log[i]
    BY <2>2 DEF LinkInv, HashesNameEntries
  <2>3. CASE i \in DOMAIN log /\ log'[i] # log[i]
    <3>1. PICK l \in Loggers : MigrateOne(l)
      BY <1>0, <2>3, InsertStep, OtherStep
    <3> QED BY <1>0, <2>3, <3>1, MigrateOneStep, HashEndsInEntry
            DEF LinkInv, ListsAreLegacy, IsEvent
  <2> QED BY <2>1, <2>2, <2>3
<1>2. ListsAreLegacy'
  <2> SUFFICES ASSUME NEW l \in Loggers, NEW i \in logger'[l].todo PROVE ~ IsEvent(log'[i])
    BY DEF ListsAreLegacy, IsEvent
  <2>1. CASE i \in logger[l].todo
    <3>1. i \in DOMAIN log
      BY <1>0, <2>1 DEF TypeOK
    <3> QED BY <2>1, <3>1, RowStep DEF LinkInv, ListsAreLegacy, IsEvent
  <2>2. CASE i \notin logger[l].todo
    <3>1. Open(l)
      <4>1. logger \in [Loggers -> LoggerStates]
        BY <1>0 DEF TypeOK, LoggerStates
      <4>2. ASSUME NEW m \in Loggers, MigrateOne(m) PROVE FALSE
        BY <1>0, <2>2, <4>1, <4>2, MigrateOneStep
      <4>3. ASSUME NEW m \in Loggers, Crash(m) PROVE FALSE
        BY <2>2, <4>1, <4>3 DEF Crash, Off
      <4>4. ASSUME NEW m \in Loggers, Open(m) PROVE m = l
        BY <2>2, <4>1, <4>4 DEF Open
      <4> QED BY <2>2, <4>2, <4>3, <4>4
              DEF Next, vars, Tick, Record, Start, ReadHead, Insert, Fail, Migrate
    <3>2. i \in Unhashed /\ log' = log
      BY <1>0, <3>1 DEF Open, TypeOK
    <3> QED BY <3>2 DEF LinkInv, HashesNameEntries, Unhashed
  <2> QED BY <2>1, <2>2
<1>3. HeadsName'
  <2> SUFFICES ASSUME NEW c \in Calls, writer'[c].pc = "read", writer'[c].head # Genesis
               PROVE  \E j \in DOMAIN log' : Names(log', writer'[c].head, j)
    BY DEF HeadsName, Names, IsEvent
  <2>1. CASE writer'[c] = writer[c]
    BY <2>1, NamesStep DEF LinkInv, HeadsName
  <2>2. CASE writer'[c] # writer[c]
    <3>1. ReadHead(c)
      <4>1. writer \in [Calls -> Writers]
        BY <1>0 DEF TypeOK, Writers
      <4>2. ASSUME NEW d \in Calls, Record(d) PROVE d = c /\ ReadHead(c)
        <5>1. CASE d # c
          BY <2>2, <4>1, <4>2, <5>1 DEF Record, Start, ReadHead, Insert, Fail
        <5>2. CASE Start(c)
          BY <4>1, <5>2 DEF Start
        <5>3. CASE Fail(c) \/ \E v \in Verdicts : Insert(c, v)
          BY <4>1, <5>3 DEF Fail, Insert, Closed
        <5> QED BY <4>2, <5>1, <5>2, <5>3 DEF Record
      <4>3. ASSUME NEW l \in Loggers, Crash(l) PROVE FALSE
        BY <2>2, <4>1, <4>3 DEF Crash, Closed
      <4> QED BY <2>2, <4>2, <4>3 DEF Next, vars, Tick, Migrate, Open, MigrateOne
    <3>2. log' = log /\ writer'[c].head = LastHash(log)
      BY <1>0, <3>1 DEF ReadHead, TypeOK
    <3>3. Len(log) \in DOMAIN log /\ LastHash(log) = log[Len(log)].hash
      BY <1>0, <3>2, LastHashType DEF TypeOK
    <3>4. Names(log, LastHash(log), Len(log))
      BY <3>2, <3>3 DEF LinkInv, HashesNameEntries, Names
    <3> QED BY <3>2, <3>3, <3>4 DEF Names
  <2> QED BY <2>1, <2>2
<1>4. LinksBackward'
  <2> SUFFICES ASSUME NEW i \in DOMAIN log', IsEvent(log'[i]), log'[i].prev # Genesis
               PROVE  \E j \in 1..(i - 1) : Names(log', log'[i].prev, j)
    BY DEF LinksBackward, Names, IsEvent
  <2>0. log \in Seq(Row) /\ DOMAIN log = 1..Len(log)
    BY <1>0 DEF TypeOK
  <2>1. CASE i \in DOMAIN log
    <3>1. log'[i] = log[i]
      BY <2>1, RowStep DEF IsEvent
    <3>2. PICK j \in 1..(i - 1) : Names(log, log[i].prev, j)
      BY <2>1, <3>1 DEF LinkInv, LinksBackward, Names
    <3>3. j \in DOMAIN log
      BY <2>0, <2>1
    <3> QED BY <3>1, <3>2, <3>3, NamesStep
  <2>2. CASE i \notin DOMAIN log
    <3>1. PICK c \in Calls : writer[c].pc = "read" /\ log'[i].prev = writer[c].head
      BY <2>2, NewRow
    <3>2. PICK j \in DOMAIN log : Names(log, writer[c].head, j)
      BY <3>1 DEF LinkInv, HeadsName
    <3>3. j \in 1..(i - 1)
      BY <2>0, <2>2, NewRow
    <3> QED BY <3>1, <3>2, <3>3, NamesStep
  <2> QED BY <2>1, <2>2
<1> QED BY <1>0, <1>1, <1>2, <1>3, <1>4 DEF LinkInv

\* Whatever interleaves, fails or crashes, the rows of events form a forest whose links
\* point backward (record_event).
THEOREM ChainPointsBackward == Spec => []LinksBackward
<1>1. LinkInv => LinksBackward
  BY DEF LinkInv
<1> QED BY <1>1, InitLinkInv, NextLinkInv, PTL DEF Spec

\* The row of a recorded event never changes and is never removed (audit.py has no
\* UPDATE or DELETE that can reach it).
THEOREM RowsAreImmutable == Spec => RecordedRowsAreImmutable
<1>1. LinkInv /\ [Next]_vars =>
        [\A i \in DOMAIN log :
            \/ i \in DOMAIN log' /\ log'[i] = log[i]
            \/ ~ IsEvent(log[i]) /\ \E l \in Loggers : i \in logger[l].todo]_vars
  BY RowStep
<1> QED BY <1>1, InitLinkInv, NextLinkInv, PTL DEF Spec, RecordedRowsAreImmutable

-----------------------------------------------------------------------------
(* The quiet trail *)

\* A call under way records with a logger that is ready, and a logger is ready only when
\* no row lacks a hash.
Gated ==
    /\ \A c \in Calls : Active(c) => logger[Owner[c]].pc = "ready"
    /\ \A l \in Loggers :
        /\ logger[l].pc = "ready" => Unhashed = {}
        /\ logger[l].pc = "migrating" => Unhashed \subseteq logger[l].todo

\* The hash that row i should link to.
HashBefore(t, i) == IF i = 1 THEN Genesis ELSE t[i - 1].hash

\* One call at a time takes its start and its head when the table is as it will still be
\* when it inserts.
OneCall ==
    /\ \A c, d \in Calls : Active(c) /\ Active(d) => c = d
    /\ \A c \in Calls : Active(c) =>
        /\ writer[c].start <= clock
        /\ \A i \in DOMAIN log : log[i].ts <= writer[c].start
        /\ writer[c].pc = "read" => writer[c].head = LastHash(log)

\* The rows that have a hash come first and make one chain, in the order of their times.
OneChain ==
    /\ \A i \in DOMAIN log :
        /\ log[i].ts <= clock
        /\ \A j \in DOMAIN log : j <= i => log[j].ts <= log[i].ts
    /\ \A i \in DOMAIN log \ Unhashed :
        /\ log[i].prev = HashBefore(log, i)
        /\ log[i].hash = EntryHash(log[i].entry, log[i].prev)
        /\ \A j \in DOMAIN log : j <= i => j \notin Unhashed

\* One migration at a time has the rest of the rows to do; before it none has a hash.
OneMigration ==
    /\ \A l, m \in Loggers : logger[l].pc = "migrating" /\ logger[m].pc = "migrating" => l = m
    /\ \A l \in Loggers : logger[l].pc = "migrating" =>
        /\ logger[l].todo = Unhashed /\ Unhashed # {}
        /\ \A i \in Unhashed : (\A j \in Unhashed : i <= j) => logger[l].prev = HashBefore(log, i)
    /\ (\A l \in Loggers : logger[l].pc # "migrating") =>
            Unhashed = {} \/ Unhashed = DOMAIN log

Quietly == quiet => OneCall /\ OneChain /\ OneMigration

\* A quiet trail without gaps verifies unless a hash in it cannot be recomputed: its times
\* are in the order of its rows, so the verifier walks the rows as they were linked.
LEMMA QuietVerifies ==
    ASSUME TypeOK, OneChain, Unhashed = {}
    PROVE  Verified(log) <=> Reproducible
<1>0. DOMAIN log = 1..Len(log) /\ Len(log) \in Nat /\ \A i \in DOMAIN log : log[i].ts \in Int
  <2>1. DOMAIN log = 1..Len(log) /\ Len(log) \in Nat /\ \A i \in DOMAIN log : log[i] \in Row
    BY DEF TypeOK
  <2> QED BY <2>1 DEF Row
<1>1. ASSUME NEW i \in DOMAIN log, NEW j \in DOMAIN log PROVE Before(log, i, j) <=> i < j
  <2>1. i < j => log[i].ts <= log[j].ts
    BY <1>0 DEF OneChain
  <2>2. j <= i => log[j].ts <= log[i].ts
    BY DEF OneChain
  <2> QED BY <1>0, <2>1, <2>2 DEF Before
<1>2. \A i \in DOMAIN log :
        /\ log[i].prev = HashBefore(log, i)
        /\ log[i].hash = EntryHash(log[i].entry, log[i].prev)
  BY DEF OneChain
<1>3. ASSUME NEW i \in DOMAIN log, \A j \in DOMAIN log : ~ Before(log, j, i)
      PROVE  log[i].prev = Genesis
  <2>1. i = 1
    BY <1>0, <1>1, <1>3
  <2> QED BY <1>2, <2>1 DEF HashBefore
<1>4. ASSUME NEW i \in DOMAIN log, NEW j \in DOMAIN log, Before(log, j, i),
             \A k \in DOMAIN log : ~ (Before(log, j, k) /\ Before(log, k, i))
      PROVE  log[i].prev = log[j].hash
  <2>1. j < i /\ \A k \in DOMAIN log : ~ (j < k /\ k < i)
    BY <1>1, <1>4
  <2>2. j = i - 1
    <3>1. j + 1 < i => j + 1 \in DOMAIN log
      BY <1>0
    <3>2. ~ (j < j + 1 /\ j + 1 < i)
      BY <1>0, <2>1, <3>1
    <3> QED BY <1>0, <2>1, <3>2
  <2> QED BY <1>0, <1>2, <2>2 DEF HashBefore
<1>5. (\A i \in DOMAIN log : HashVerifies(log[i])) <=> Reproducible
  BY <1>2 DEF HashVerifies, Reproducible
<1> QED BY <1>3, <1>4, <1>5 DEF Verified

\* What the states of calls and loggers look like.
LEMMA StatesOf ==
    ASSUME TypeOK
    PROVE  /\ writer \in [Calls -> Writers] /\ logger \in [Loggers -> LoggerStates]
           /\ DOMAIN log = 1..Len(log) /\ Len(log) \in Nat
           /\ clock \in Nat /\ \A i \in DOMAIN log : log[i].ts \in Int /\ log[i] \in Row
           /\ \A c \in Calls : writer[c].start \in Nat /\ Owner[c] \in Loggers
<1>1. /\ writer \in [Calls -> Writers] /\ logger \in [Loggers -> LoggerStates]
      /\ DOMAIN log = 1..Len(log) /\ Len(log) \in Nat
      /\ clock \in Nat /\ \A i \in DOMAIN log : log[i] \in Row
  BY DEF TypeOK, Writers, LoggerStates
<1>2. \A i \in DOMAIN log : log[i].ts \in Int
  BY <1>1 DEF Row
<1>3. \A c \in Calls : writer[c].start \in Nat /\ Owner[c] \in Loggers
  BY <1>1, AuditTrailAssumption DEF Writers
<1> QED BY <1>1, <1>2, <1>3

\* A call that ends is no longer active, and all others are as before.
LEMMA CloseStep ==
    ASSUME TypeOK, NEW c \in Calls, NEW pc \in {"done", "failed"},
           writer' = [writer EXCEPT ![c] = Closed(pc)]
    PROVE  ~ Active(c)' /\ \A d \in Calls \ {c} : writer'[d] = writer[d] /\ Active(d)' = Active(d)
<1>1. writer'[c] = Closed(pc) /\ \A d \in Calls \ {c} : writer'[d] = writer[d]
  BY StatesOf
<1> QED BY <1>1 DEF Active, Closed

\* The steps of a call that leave the table alone.
LEMMA QuietStart ==
    ASSUME TypeOK, Gated, Quietly, NEW c \in Calls, Start(c) \/ ReadHead(c) \/ Fail(c)
    PROVE  Gated' /\ Quietly'
<1>0. /\ writer \in [Calls -> Writers] /\ UNCHANGED <<clock, log, logger>>
      /\ clock \in Nat /\ \A i \in DOMAIN log : log[i].ts \in Int
  BY StatesOf DEF Start, ReadHead, Fail
<1>1. UNCHANGED Unhashed
  BY <1>0 DEF Unhashed
<1>2. \A d \in Calls \ {c} : writer'[d] = writer[d]
  BY <1>0 DEF Start, ReadHead, Fail
<1>3. CASE Start(c)
  <2>1. /\ writer'[c].start = clock /\ writer'[c].pc = "started"
        /\ logger[Owner[c]].pc = "ready" /\ quiet' = (quiet /\ \A d \in Calls : ~ Active(d))
    BY <1>0, <1>3 DEF Start, Writers
  <2>2. Gated'
    BY <1>0, <1>1, <1>2, <2>1 DEF Gated, Active
  <2>3. ASSUME quiet' PROVE OneCall'
    <3>1. quiet /\ OneChain /\ \A d \in Calls : ~ Active(d)
      BY <2>1, <2>3 DEF Quietly
    <3>2. \A d \in Calls \ {c} : ~ Active(d)'
      BY <1>2, <3>1 DEF Active
    <3>3. writer'[c].start <= clock /\ \A i \in DOMAIN log : log[i].ts <= writer'[c].start
      BY <1>0, <2>1, <3>1 DEF OneChain
    <3> QED BY <1>0, <2>1, <3>2, <3>3 DEF OneCall
  <2>4. quiet' => OneChain' /\ OneMigration'
    BY <1>0, <1>1, <2>1 DEF Quietly, OneChain, OneMigration, HashBefore
  <2> QED BY <2>2, <2>3, <2>4 DEF Quietly
<1>4. CASE ReadHead(c)
  <2>1. /\ writer[c].pc = "started" /\ writer'[c].start = writer[c].start
        /\ writer'[c].pc = "read" /\ writer'[c].head = LastHash(log) /\ UNCHANGED quiet
    BY <1>0, <1>4 DEF ReadHead, Writers
  <2>2. Gated'
    BY <1>0, <1>1, <1>2, <2>1 DEF Gated, Active
  <2>3. ASSUME quiet PROVE OneCall'
    BY <1>0, <1>2, <2>1, <2>3 DEF OneCall, Quietly, Active, LastHash
  <2>4. quiet => OneChain' /\ OneMigration'
    BY <1>0, <1>1, <2>1 DEF Quietly, OneChain, OneMigration, HashBefore
  <2> QED BY <2>1, <2>2, <2>3, <2>4 DEF Quietly
<1>5. CASE Fail(c)
  <2>1. ~ Active(c)' /\ UNCHANGED quiet /\ \A d \in Calls \ {c} : Active(d)' = Active(d)
    BY <1>5, CloseStep DEF Fail
  <2>2. Gated'
    BY <1>0, <1>1, <2>1 DEF Gated
  <2>3. ASSUME quiet PROVE OneCall'
    BY <1>0, <1>2, <2>1, <2>3 DEF OneCall, Quietly, LastHash
  <2>4. quiet => OneChain' /\ OneMigration'
    BY <1>0, <1>1 DEF Quietly, OneChain, OneMigration, HashBefore
  <2> QED BY <2>1, <2>2, <2>3, <2>4 DEF Quietly
<1> QED BY <1>3, <1>4, <1>5

\* An insert of the only call adds to the chain's end.
LEMMA QuietInsert ==
    ASSUME TypeOK, Gated, Quietly, NEW c \in Calls, NEW v \in Verdicts, Insert(c, v)
    PROVE  Gated' /\ Quietly'
<1> DEFINE n == Len(log)
<1>0. /\ writer \in [Calls -> Writers] /\ DOMAIN log = 1..n /\ n \in Nat
      /\ clock \in Nat /\ UNCHANGED <<clock, logger, quiet>> /\ writer[c].pc = "read"
      /\ writer' = [writer EXCEPT ![c] = Closed("done")] /\ writer[c].start \in Nat
      /\ \A i \in DOMAIN log : log[i].ts \in Int
  BY StatesOf DEF Insert
<1>1. /\ DOMAIN log' = 1..(n + 1) /\ \A i \in DOMAIN log : log'[i] = log[i]
      /\ log'[n + 1].entry = c /\ log'[n + 1].ts = writer[c].start
      /\ log'[n + 1].prev = writer[c].head
      /\ log'[n + 1].hash = EntryHash(c, writer[c].head)
      /\ writer[c].head \in Seq(Entries) /\ c \in Entries
  BY InsertStep
<1>2. log'[n + 1].hash # Genesis
  BY <1>1, HashEndsInEntry
<1>3. Unhashed' = Unhashed
  BY <1>0, <1>1, <1>2 DEF Unhashed
<1>4. Unhashed = {} /\ Active(c)
  BY <1>0, StatesOf DEF Gated, Active
<1>5. ~ Active(c)' /\ \A d \in Calls \ {c} : writer'[d] = writer[d] /\ Active(d)' = Active(d)
  BY <1>0, CloseStep
<1>6. Gated'
  BY <1>0, <1>3, <1>5 DEF Gated
<1>7. ASSUME quiet PROVE OneCall' /\ OneChain' /\ OneMigration'
  <2>0. OneCall /\ OneChain /\ OneMigration
    BY <1>7 DEF Quietly
  <2>1. OneCall'
    BY <1>4, <1>5, <2>0 DEF OneCall
  <2>2. /\ writer[c].start <= clock /\ \A i \in DOMAIN log : log[i].ts <= writer[c].start
        /\ writer[c].head = LastHash(log)
    BY <1>0, <1>4, <2>0 DEF OneCall
  <2>3. writer[c].head = HashBefore(log', n + 1)
    <3>1. CASE n = 0
      <4>1. log = <<>>
        BY <3>1 DEF TypeOK
      <4> QED BY <2>2, <3>1, <4>1 DEF LastHash, HashBefore
    <3>2. CASE n # 0
      <4>1. log # <<>> /\ n \in DOMAIN log /\ n + 1 # 1 /\ (n + 1) - 1 = n
        BY <1>0, <3>2
      <4> QED BY <1>1, <2>2, <4>1 DEF LastHash, HashBefore
    <3> QED BY <3>1, <3>2
  <2>4. ASSUME NEW i \in DOMAIN log'
        PROVE  /\ log'[i].ts <= clock
               /\ \A j \in DOMAIN log' : j <= i => log'[j].ts <= log'[i].ts
    <3>1. CASE i = n + 1
      BY <1>0, <1>1, <2>2, <3>1
    <3>2. CASE i \in DOMAIN log
      BY <1>0, <1>1, <2>0, <3>2 DEF OneChain
    <3> QED BY <1>0, <1>1, <3>1, <3>2
  <2>5. ASSUME NEW i \in DOMAIN log'
        PROVE  /\ log'[i].prev = HashBefore(log', i)
               /\ log'[i].hash = EntryHash(log'[i].entry, log'[i].prev)
    <3>1. CASE i = n + 1
      BY <1>1, <2>3, <3>1
    <3>2. CASE i \in DOMAIN log
      <4>1. log[i].prev = HashBefore(log, i) /\ log[i].hash = EntryHash(log[i].entry, log[i].prev)
        BY <1>4, <2>0, <3>2 DEF OneChain
      <4>2. i # 1 => i - 1 \in DOMAIN log
        BY <1>0, <3>2
      <4> QED BY <1>1, <3>2, <4>1, <4>2 DEF HashBefore
    <3> QED BY <1>0, <1>1, <3>1, <3>2
  <2>6. OneChain'
    BY <1>0, <1>3, <1>4, <2>4, <2>5 DEF OneChain
  <2>7. OneMigration'
    BY <1>0, <1>3, <1>4, <2>0 DEF OneMigration
  <2> QED BY <2>1, <2>6, <2>7
<1> QED BY <1>0, <1>6, <1>7 DEF Quietly

\* Time passes: starts and rows only get older.
LEMMA QuietTick ==
    ASSUME TypeOK, Gated, Quietly, Tick
    PROVE  Gated' /\ Quietly'
<1>0. UNCHANGED <<log, writer, logger, quiet>> /\ clock' = clock + 1
  BY DEF Tick
<1>1. UNCHANGED Unhashed /\ \A c \in Calls : Active(c)' = Active(c)
  BY <1>0 DEF Unhashed, Active
<1>2. Gated'
  BY <1>0, <1>1 DEF Gated
<1>3. \A n \in Int : n <= clock => n <= clock'
  BY <1>0, StatesOf
<1>4. OneCall => OneCall'
  BY <1>0, <1>1, <1>3, StatesOf DEF OneCall, LastHash
<1>5. OneChain => OneChain'
  BY <1>0, <1>1, <1>3, StatesOf DEF OneChain, HashBefore
<1>6. OneMigration => OneMigration'
  BY <1>0, <1>1 DEF OneMigration, HashBefore
<1> QED BY <1>0, <1>2, <1>4, <1>5, <1>6 DEF Quietly

\* A logger that opens finds no row without a hash, or starts at the first row.
LEMMA QuietOpen ==
    ASSUME TypeOK, Gated, Quietly, NEW l \in Loggers, Open(l)
    PROVE  Gated' /\ Quietly'
<1>0. /\ UNCHANGED <<clock, log, writer>> /\ logger[l].pc = "off"
      /\ quiet' = (quiet /\ (Unhashed = {} \/ \A m \in Loggers : logger[m].pc # "migrating"))
  BY DEF Open
<1>1. /\ logger'[l] = [pc |-> IF Unhashed = {} THEN "ready" ELSE "migrating",
                       todo |-> Unhashed, prev |-> Genesis]
      /\ \A m \in Loggers \ {l} : logger'[m] = logger[m]
  BY StatesOf DEF Open
<1>2. UNCHANGED Unhashed /\ \A c \in Calls : Active(c)' = Active(c)
  BY <1>0 DEF Unhashed, Active
<1>3. \A c \in Calls : Active(c) => Owner[c] \in Loggers \ {l}
  BY <1>0, StatesOf DEF Gated
<1>4. Gated'
  BY <1>1, <1>2, <1>3 DEF Gated
<1>5. ASSUME quiet' PROVE OneCall' /\ OneChain' /\ OneMigration'
  <2>0. OneCall /\ OneChain /\ OneMigration
    BY <1>0, <1>5 DEF Quietly
  <2>1. OneCall' /\ OneChain'
    BY <1>0, <1>2, <2>0 DEF OneCall, OneChain, LastHash, HashBefore
  <2>2. CASE Unhashed = {}
    <3>1. \A m \in Loggers : logger'[m].pc = "migrating" => m # l /\ logger[m].pc = "migrating"
      BY <1>1, <2>2
    <3>2. \A m \in Loggers : logger[m].pc # "migrating"
      BY <2>0, <2>2 DEF OneMigration
    <3> QED BY <1>2, <2>1, <2>2, <3>1, <3>2 DEF OneMigration
  <2>3. CASE Unhashed # {}
    <3>1. \A m \in Loggers : logger[m].pc # "migrating"
      BY <1>0, <1>5, <2>3
    <3>2. Unhashed = DOMAIN log
      BY <2>0, <2>3, <3>1 DEF OneMigration
    <3>3. logger'[l].pc = "migrating" /\ logger'[l].todo = Unhashed /\ logger'[l].prev = Genesis
      BY <1>1, <2>3
    <3>4. \A m \in Loggers : logger'[m].pc = "migrating" <=> m = l
      BY <1>1, <3>1, <3>3
    <3>5. ASSUME NEW i \in Unhashed, \A j \in Unhashed : i <= j
          PROVE  Genesis = HashBefore(log, i)
      <4>0. DOMAIN log = 1..Len(log) /\ Len(log) \in Nat
        BY StatesOf
      <4>1. i = 1
        BY <3>2, <3>5, <4>0
      <4> QED BY <4>1 DEF HashBefore
    <3>6. OneMigration'
      BY <1>0, <1>2, <2>3, <3>3, <3>4, <3>5 DEF OneMigration, HashBefore
    <3> QED BY <2>1, <3>6
  <2> QED BY <2>2, <2>3
<1> QED BY <1>4, <1>5 DEF Quietly

\* One UPDATE gives the first row without a hash its place in the chain.
LEMMA QuietMigrate ==
    ASSUME TypeOK, Gated, Quietly, NEW l \in Loggers, MigrateOne(l)
    PROVE  Gated' /\ Quietly'
<1>0. UNCHANGED <<clock, writer, quiet>> /\ logger[l].pc = "migrating"
  BY DEF MigrateOne
<1>1. PICK i \in logger[l].todo :
        /\ i \in DOMAIN log
        /\ \A j \in logger[l].todo : i <= j
        /\ DOMAIN log' = DOMAIN log
        /\ \A j \in DOMAIN log \ {i} : log'[j] = log[j]
        /\ log'[i].entry = log[i].entry
        /\ log'[i].ts = log[i].ts
        /\ log'[i].prev = logger[l].prev
        /\ log'[i].hash = EntryHash(log[i].entry, logger[l].prev)
        /\ log[i].entry \in Entries /\ logger[l].prev \in Seq(Entries)
        /\ logger' = [logger EXCEPT ![l] =
              [pc |-> IF logger[l].todo \ {i} = {} THEN "ready" ELSE "migrating",
               todo |-> logger[l].todo \ {i},
               prev |-> EntryHash(log[i].entry, logger[l].prev)]]
  BY MigrateOneStep
<1> DEFINE h == EntryHash(log[i].entry, logger[l].prev)
<1>2. h # Genesis
  BY <1>1, HashEndsInEntry
<1>3. Unhashed' = Unhashed \ {i}
  BY <1>1, <1>2 DEF Unhashed
<1>4. /\ logger'[l].pc = IF logger[l].todo \ {i} = {} THEN "ready" ELSE "migrating"
      /\ logger'[l].todo = logger[l].todo \ {i} /\ logger'[l].prev = h
      /\ \A m \in Loggers \ {l} : logger'[m] = logger[m]
  BY <1>1, StatesOf
<1>5. \A c \in Calls : Active(c)' = Active(c)
  BY <1>0 DEF Active
<1>6. Gated'
  <2>1. \A c \in Calls : Active(c)' => logger'[Owner[c]].pc = "ready"
    BY <1>0, <1>4, <1>5, StatesOf DEF Gated
  <2>2. Unhashed \subseteq logger[l].todo
    BY <1>0 DEF Gated
  <2>3. ASSUME NEW m \in Loggers
        PROVE  /\ logger'[m].pc = "ready" => Unhashed' = {}
               /\ logger'[m].pc = "migrating" => Unhashed' \subseteq logger'[m].todo
    <3>1. CASE m = l
      BY <1>3, <1>4, <2>2, <3>1
    <3>2. CASE m # l
      BY <1>3, <1>4, <3>2 DEF Gated
    <3> QED BY <3>1, <3>2
  <2> QED BY <2>1, <2>3 DEF Gated
<1>7. ASSUME quiet PROVE OneCall' /\ OneChain' /\ OneMigration'
  <2>0. OneCall /\ OneChain /\ OneMigration
    BY <1>7 DEF Quietly
  <2>1. /\ logger[l].todo = Unhashed /\ i \in Unhashed
        /\ logger[l].prev = HashBefore(log, i)
        /\ \A m \in Loggers \ {l} : logger[m].pc # "migrating"
    BY <1>0, <1>1, <2>0 DEF OneMigration
  <2>2. \A j \in DOMAIN log \ Unhashed : j < i
    <3>1. ASSUME NEW j \in DOMAIN log \ Unhashed, i <= j PROVE FALSE
      BY <1>1, <2>0, <2>1, <3>1 DEF OneChain
    <3> QED BY <1>1, <3>1, StatesOf
  <2>3. \A j \in DOMAIN log : j < i => j \notin Unhashed
    BY <1>1, <2>1, StatesOf
  <2>4. \A c \in Calls : ~ Active(c)
    BY <2>1, StatesOf DEF Gated
  <2>5. OneCall'
    BY <1>5, <2>4 DEF OneCall
  <2>6. \A j \in DOMAIN log : log'[j].ts = log[j].ts
    BY <1>1
  <2>7. HashBefore(log', i) = HashBefore(log, i)
    <3>1. i # 1 => i - 1 \in DOMAIN log \ {i}
      BY <1>1, StatesOf
    <3> QED BY <1>1, <3>1 DEF HashBefore
  <2>8. ASSUME NEW k \in DOMAIN log' \ Unhashed'
        PROVE  /\ log'[k].prev = HashBefore(log', k)
               /\ log'[k].hash = EntryHash(log'[k].entry, log'[k].prev)
               /\ \A j \in DOMAIN log' : j <= k => j \notin Unhashed'
    <3>1. CASE k = i
      <4>1. \A j \in DOMAIN log : j <= i => j \notin Unhashed'
        BY <1>1, <1>3, <2>3, StatesOf
      <4> QED BY <1>1, <2>1, <2>7, <3>1, <4>1
    <3>2. CASE k # i
      <4>1. k \in DOMAIN log \ Unhashed /\ log'[k] = log[k] /\ k < i
        BY <1>1, <1>3, <2>2, <3>2
      <4>2. k # 1 => k - 1 \in DOMAIN log \ {i}
        BY <1>1, <4>1, StatesOf
      <4>3. HashBefore(log', k) = HashBefore(log, k)
        BY <1>1, <4>2 DEF HashBefore
      <4>4. /\ log[k].prev = HashBefore(log, k)
            /\ log[k].hash = EntryHash(log[k].entry, log[k].prev)
            /\ \A j \in DOMAIN log : j <= k => j \notin Unhashed
        BY <2>0, <4>1 DEF OneChain
      <4> QED BY <1>1, <1>3, <4>1, <4>3, <4>4
    <3> QED BY <3>1, <3>2
  <2>9. OneChain'
    <3>1. ASSUME NEW k \in DOMAIN log'
          PROVE  /\ log'[k].ts <= clock'
                 /\ \A j \in DOMAIN log' : j <= k => log'[j].ts <= log'[k].ts
      BY <1>0, <1>1, <2>0, <2>6 DEF OneChain
    <3> QED BY <2>8, <3>1 DEF OneChain
  <2>10. ASSUME NEW k \in Unhashed', \A j \in Unhashed' : k <= j
         PROVE  h = HashBefore(log', k)
    <3>1. k \in DOMAIN log /\ k \in Unhashed /\ k # i /\ i < k
      BY <1>1, <1>3, <2>1, StatesOf DEF Unhashed
    <3>2. i + 1 \in DOMAIN log
      BY <1>1, <3>1, StatesOf
    <3>3. i + 1 \in Unhashed'
      BY <1>1, <1>3, <2>2, <3>2, StatesOf
    <3>4. k = i + 1 /\ k # 1 /\ k - 1 = i
      BY <1>1, <2>10, <3>1, <3>3, StatesOf
    <3> QED BY <1>1, <3>4 DEF HashBefore
  <2>11. OneMigration'
    BY <1>3, <1>4, <2>1, <2>10 DEF OneMigration
  <2> QED BY <2>5, <2>9, <2>11
<1> QED BY <1>0, <1>6, <1>7 DEF Quietly

\* A crash ends the calls of a logger, and the quiet if it cuts a migration short.
LEMMA QuietCrash ==
    ASSUME TypeOK, Gated, Quietly, NEW l \in Loggers, Crash(l)
    PROVE  Gated' /\ Quietly'
<1>0. UNCHANGED <<clock, log>> /\ quiet' = (quiet /\ logger[l].pc # "migrating")
  BY DEF Crash
<1>1. logger'[l].pc = "off" /\ \A m \in Loggers \ {l} : logger'[m] = logger[m]
  BY StatesOf DEF Crash, Off
<1>2. UNCHANGED Unhashed
  BY <1>0 DEF Unhashed
<1>3. \A c \in Calls : Active(c)' => Active(c) /\ Owner[c] # l /\ writer'[c] = writer[c]
  BY DEF Crash, Active, Closed
<1>4. Gated'
  BY <1>1, <1>2, <1>3, StatesOf DEF Gated
<1>5. ASSUME quiet' PROVE OneCall' /\ OneChain' /\ OneMigration'
  <2>0. OneCall /\ OneChain /\ OneMigration /\ logger[l].pc # "migrating"
    BY <1>0, <1>5 DEF Quietly
  <2>1. OneCall'
    BY <1>0, <1>3, <2>0 DEF OneCall, LastHash
  <2>2. OneChain'
    BY <1>0, <1>2, <2>0 DEF OneChain, HashBefore
  <2>3. \A m \in Loggers :
            logger'[m].pc = "migrating" <=> m # l /\ logger[m].pc = "migrating"
    BY <1>1
  <2>4. OneMigration'
    BY <1>0, <1>1, <1>2, <2>0, <2>3 DEF OneMigration, HashBefore
  <2> QED BY <2>1, <2>2, <2>4
<1> QED BY <1>4, <1>5 DEF Quietly

QuietInv == TypeOK /\ Gated /\ Quietly

\* At first no row has a hash, no logger migrates, and no call runs.
LEMMA InitQuiet == Init => QuietInv
<1> SUFFICES ASSUME Init PROVE QuietInv
  OBVIOUS
<1>0. TypeOK
  BY InitTypeOK
<1>a. PICK old \in Legacies :
        /\ log = [i \in DOMAIN old |-> LegacyRow(old[i])]
        /\ logger \in [Loggers -> {Off} \cup IF old = <<>> THEN {Ready} ELSE {}]
        /\ quiet = InOrder(old)
  BY DEF Init
<1>1. /\ DOMAIN log = DOMAIN old
      /\ \A i \in DOMAIN log : log[i].ts = old[i].ts /\ log[i].hash = Genesis
  BY <1>a DEF LegacyRow
<1>2. Unhashed = DOMAIN log
  BY <1>1 DEF Unhashed
<1>3. \A l \in Loggers : logger[l].pc # "migrating" /\ (logger[l].pc = "ready" => old = <<>>)
  BY <1>a DEF Off, Ready
<1>4. \A c \in Calls : ~ Active(c)
  BY DEF Init, Active, Closed
<1>5. old = <<>> => Unhashed = {}
  BY <1>1, <1>2
<1>6. Gated
  BY <1>3, <1>4, <1>5 DEF Gated
<1>7. OneCall /\ OneMigration
  BY <1>2, <1>3, <1>4 DEF OneCall, OneMigration
<1>8. quiet => OneChain
  <2>1. \A i \in DOMAIN log : log[i].ts <= clock
    BY <1>1, AuditTrailAssumption DEF Init
  <2> QED BY <1>a, <1>1, <1>2, <2>1 DEF OneChain, InOrder
<1> QED BY <1>0, <1>6, <1>7, <1>8 DEF QuietInv, Quietly

\* Every step keeps the quiet trail one chain.
LEMMA NextQuiet == QuietInv /\ [Next]_vars => QuietInv'
<1> SUFFICES ASSUME QuietInv, [Next]_vars PROVE QuietInv'
  OBVIOUS
<1>0. TypeOK /\ Gated /\ Quietly
  BY DEF QuietInv
<1>1. ASSUME Tick PROVE Gated' /\ Quietly'
  BY <1>0, <1>1, QuietTick
<1>2. ASSUME NEW c \in Calls, Record(c) PROVE Gated' /\ Quietly'
  BY <1>0, <1>2, QuietStart, QuietInsert DEF Record
<1>3. ASSUME NEW l \in Loggers, Migrate(l) \/ Crash(l) PROVE Gated' /\ Quietly'
  BY <1>0, <1>3, QuietOpen, QuietMigrate, QuietCrash DEF Migrate
<1>4. ASSUME UNCHANGED vars PROVE Gated' /\ Quietly'
  <2>1. UNCHANGED <<clock, log, writer, logger, quiet>>
    BY <1>4 DEF vars
  <2>2. UNCHANGED Unhashed /\ \A c \in Calls : Active(c)' = Active(c)
    BY <2>1 DEF Unhashed, Active
  <2>3. Gated' /\ (OneMigration => OneMigration')
    BY <1>0, <2>1, <2>2 DEF Gated, OneMigration, HashBefore
  <2>4. (OneCall => OneCall') /\ (OneChain => OneChain')
    BY <2>1, <2>2 DEF OneCall, OneChain, HashBefore, LastHash
  <2> QED BY <1>0, <2>1, <2>3, <2>4 DEF Quietly
<1>5. Gated' /\ Quietly'
  BY <1>1, <1>2, <1>3, <1>4 DEF Next
<1> QED BY <1>0, <1>5, NextTypeOK DEF QuietInv

\* A trail written by one call at a time and one uninterrupted backfill verifies exactly
\* when every hash in it can be recomputed (record_event, _migrate_legacy_entries, verify).
THEOREM QuietTrailsVerify == Spec => []QuietTrailVerifies
<1>1. QuietInv => QuietTrailVerifies
  BY QuietVerifies DEF QuietInv, Quietly, QuietTrailVerifies
<1> QED BY <1>1, InitQuiet, NextQuiet, PTL DEF Spec
=============================================================================
