----------------------------- MODULE AuditTrail -----------------------------
(***************************************************************************)
(* The audit trail (capfence/core/audit.py) and its verifier               *)
(* (capfence/core/chain.py): a table of rows, each holding the hash of its *)
(* own fields and of the row before it.                                    *)
(*                                                                         *)
(* record_event reads the last row's hash and inserts the new row in two   *)
(* statements with no lock around them, and the constructor backfills rows *)
(* an older version wrote without hashes, one UPDATE per row.              *)
(*                                                                         *)
(* A SHA-256 hash is represented by what it commits to: the sequence of    *)
(* entries the chain runs through.  The empty string, which is both the    *)
(* genesis value and the default of a row without a hash, is <<>>.         *)
(***************************************************************************)
EXTENDS Integers, Sequences

CONSTANTS
    Calls,      \* calls of ActionRuntime.execute; each records one event
    Verdicts,   \* what a call may record: records [authorized, decision, approval]
    Loggers,    \* AuditLogger instances open on the same database file
    Owner,      \* Owner[c] is the logger call c records with
    Legacies,   \* what an older version may have left without hashes: sequences of
                \* records [entry, ts], in the order of their ids
    NonAscii,   \* calls whose required capability has characters beyond ASCII
    Unrounded,  \* legacy entries whose timestamp has more than six decimals
    MaxTime, MaxCrashes   \* bounds of the model

LegacyEntries == UNION {{old[i].entry : i \in DOMAIN old} : old \in Legacies}
Entries == Calls \cup LegacyEntries

ASSUME AuditTrailAssumption ==
    /\ \A old \in Legacies :
        /\ old \in Seq([entry : LegacyEntries, ts : Int])
        /\ \A i \in DOMAIN old : old[i].ts <= 0
    /\ LegacyEntries \cap Calls = {}
    /\ Owner \in [Calls -> Loggers]
    /\ NonAscii \subseteq Calls
    /\ Unrounded \subseteq LegacyEntries
    /\ MaxTime \in Nat /\ MaxCrashes \in Nat

VARIABLES
    clock,    \* time.time(), the same for every process
    log,      \* table audit_events in id order
    writer,   \* where each call is between taking its start time and its row
    logger,   \* where each logger is: off, migrating or ready
    crashes,  \* how many loggers crashed so far
    quiet     \* history: legacy rows were written in the order of their times, no two
              \* calls and no two migrations ever overlapped, and no migration was cut short

vars == <<clock, log, writer, logger, crashes, quiet>>

Genesis == <<>>

\* compute_entry_hash
EntryHash(entry, prev) == Append(prev, entry)

-----------------------------------------------------------------------------
(* What verify reports *)

\* get_events_chronological: ORDER BY timestamp ASC, id ASC.
Before(t, i, j) == t[i].ts < t[j].ts \/ (t[i].ts = t[j].ts /\ i < j)

\* The hash verify_chain recomputes for a row.  It differs from the stored one if the
\* row's metadata is not read back as "extended" (_uses_extended_hash_fields compares
\* escaped with unescaped JSON) or if the backfill hashed a rounded timestamp.
HashVerifies(row) ==
    /\ row.hash = EntryHash(row.entry, row.prev)
    /\ row.entry \notin NonAscii \cup Unrounded

\* verify and verify_chain: in chronological order, each row links to the one before.
Verified(t) ==
    \A i \in DOMAIN t :
        /\ HashVerifies(t[i])
        /\ (\A j \in DOMAIN t : ~ Before(t, j, i)) => t[i].prev = Genesis
        /\ \A j \in DOMAIN t :
              /\ Before(t, j, i)
              /\ \A k \in DOMAIN t : ~ (Before(t, j, k) /\ Before(t, k, i))
              => t[i].prev = t[j].hash

-----------------------------------------------------------------------------
(* record_event *)

\* Mutation of LastHash: the wrong sort direction.
FirstHash(t) == IF t = <<>> THEN Genesis ELSE t[1].hash

\* SELECT entry_hash ... ORDER BY id DESC LIMIT 1
LastHash(t) == IF t = <<>> THEN Genesis ELSE t[Len(t)].hash

\* The columns record_event derives from a verdict.
Recorded(v) ==
    [result   |-> IF v.authorized THEN "authorized" ELSE "blocked",
     decision |-> v.decision,
     approval |-> IF v.authorized /\ v.approval THEN "approved"
                  ELSE IF v.decision = "require_approval" THEN "pending"
                  ELSE "none"]

\* Mutation of EventRow: prev_hash is assigned after the hash was advanced.
EventRowAdvanced(c, ts, prev, v) ==
    [entry |-> c, ts |-> ts, prev |-> EntryHash(c, prev), hash |-> EntryHash(c, prev),
     verdict |-> Recorded(v)]

EventRow(c, ts, prev, v) ==
    [entry |-> c, ts |-> ts, prev |-> prev, hash |-> EntryHash(c, prev),
     verdict |-> Recorded(v)]

Active(c) == writer[c].pc \in {"started", "read"}

\* The call is over and its local variables are gone.
Closed(pc) == [pc |-> pc, start |-> 0, head |-> Genesis]

\* execute takes its start time, which becomes the row's timestamp.
Start(c) ==
    /\ writer[c].pc = "idle"
    /\ logger[Owner[c]].pc = "ready"
    /\ writer' = [writer EXCEPT ![c].pc = "started", ![c].start = clock]
    /\ quiet' = (quiet /\ \A d \in Calls : ~ Active(d))
    /\ UNCHANGED <<clock, log, logger, crashes>>

ReadHead(c) ==
    /\ writer[c].pc = "started"
    /\ writer' = [writer EXCEPT ![c].pc = "read", ![c].head = LastHash(log)]
    /\ UNCHANGED <<clock, log, logger, crashes, quiet>>

Insert(c, v) ==
    /\ writer[c].pc = "read"
    /\ log' = Append(log, EventRow(c, writer[c].start, writer[c].head, v))
    /\ writer' = [writer EXCEPT ![c] = Closed("done")]
    /\ UNCHANGED <<clock, logger, crashes, quiet>>

\* A statement raises, or the thread dies: the event is not recorded.
Fail(c) ==
    /\ Active(c)
    /\ writer' = [writer EXCEPT ![c] = Closed("failed")]
    /\ UNCHANGED <<clock, log, logger, crashes, quiet>>

-----------------------------------------------------------------------------
(* The constructor's backfill, _migrate_legacy_entries *)

\* Mutations of Unhashed: the WHERE clause is lost; positions counted from zero.
AnyRow == DOMAIN log
UnhashedFromZero == {i - 1 : i \in {j \in DOMAIN log : log[j].hash = Genesis}}

Unhashed == {i \in DOMAIN log : log[i].hash = Genesis}

\* Mutation of Open: only the first row is looked at.
OpenByFirstRow(l) ==
    /\ logger[l].pc = "off"
    /\ logger' = [logger EXCEPT ![l] =
            [pc |-> IF 1 \notin Unhashed THEN "ready" ELSE "migrating",
             todo |-> IF 1 \notin Unhashed THEN {} ELSE Unhashed, prev |-> Genesis]]
    /\ quiet' = (quiet /\ (Unhashed = {} \/ \A m \in Loggers : logger[m].pc # "migrating"))
    /\ UNCHANGED <<clock, log, writer, crashes>>

Off == [pc |-> "off", todo |-> {}, prev |-> Genesis]
Ready == [pc |-> "ready", todo |-> {}, prev |-> Genesis]

\* The constructor lists the rows without a hash; prev_hash starts empty.
Open(l) ==
    /\ logger[l].pc = "off"
    /\ logger' = [logger EXCEPT ![l] =
            [pc |-> IF Unhashed = {} THEN "ready" ELSE "migrating",
             todo |-> Unhashed, prev |-> Genesis]]
    /\ quiet' = (quiet /\ (Unhashed = {} \/ \A m \in Loggers : logger[m].pc # "migrating"))
    /\ UNCHANGED <<clock, log, writer, crashes>>

\* One UPDATE, lowest id first.
MigrateOne(l) ==
    /\ logger[l].pc = "migrating"
    /\ \E i \in logger[l].todo :
        LET h == EntryHash(log[i].entry, logger[l].prev)
            rest == logger[l].todo \ {i}
        IN  /\ \A j \in logger[l].todo : i <= j
            /\ log' = [log EXCEPT ![i].prev = logger[l].prev, ![i].hash = h]
            /\ logger' = [logger EXCEPT ![l] =
                    [pc |-> IF rest = {} THEN "ready" ELSE "migrating",
                     todo |-> rest, prev |-> h]]
    /\ UNCHANGED <<clock, writer, crashes, quiet>>

\* The process dies, in its constructor or later, and may be started again.
Crash(l) ==
    /\ crashes < MaxCrashes
    /\ logger[l].pc # "off"
    /\ crashes' = crashes + 1
    /\ logger' = [logger EXCEPT ![l] = Off]
    /\ writer' = [c \in Calls |->
            IF Owner[c] = l /\ Active(c) THEN Closed("failed") ELSE writer[c]]
    /\ quiet' = (quiet /\ logger[l].pc # "migrating")
    /\ UNCHANGED <<clock, log>>

-----------------------------------------------------------------------------

Tick ==
    /\ clock < MaxTime
    /\ clock' = clock + 1
    /\ UNCHANGED <<log, writer, logger, crashes, quiet>>

LegacyVerdict == [result |-> "legacy", decision |-> "legacy", approval |-> "legacy"]
LegacyRow(old) ==
    [entry |-> old.entry, ts |-> old.ts, prev |-> Genesis, hash |-> Genesis,
     verdict |-> LegacyVerdict]

InOrder(rows) == \A i, j \in DOMAIN rows : i <= j => rows[i].ts <= rows[j].ts

Init ==
    /\ clock = 0
    /\ \E old \in Legacies :
        /\ log = [i \in DOMAIN old |-> LegacyRow(old[i])]
        /\ logger \in [Loggers -> {Off} \cup IF old = <<>> THEN {Ready} ELSE {}]
        /\ quiet = InOrder(old)
    /\ writer = [c \in Calls |-> Closed("idle")]
    /\ crashes = 0

Record(c) == Start(c) \/ ReadHead(c) \/ (\E v \in Verdicts : Insert(c, v)) \/ Fail(c)
Migrate(l) == Open(l) \/ MigrateOne(l)

Next ==
    \/ Tick
    \/ \E c \in Calls : Record(c)
    \/ \E l \in Loggers : Migrate(l) \/ Crash(l)

Spec == Init /\ [][Next]_vars

\* A constructor that has begun runs to its end unless the process crashes.  Nothing
\* makes a process start.
FairSpec == Spec /\ \A l \in Loggers : WF_vars(MigrateOne(l))

-----------------------------------------------------------------------------
(* Properties *)

EventVerdicts == {Recorded(v) : v \in Verdicts}

Row ==
    [entry : Entries, ts : Int, prev : Seq(Entries), hash : Seq(Entries),
     verdict : EventVerdicts \cup {LegacyVerdict}]

\* Type invariant; a migration only lists rows that exist.
TypeOK ==
    /\ clock \in Nat
    /\ log \in Seq(Row)
    /\ writer \in [Calls -> [pc : {"idle", "started", "read", "done", "failed"},
                             start : Nat, head : Seq(Entries)]]
    /\ logger \in [Loggers -> [pc : {"off", "migrating", "ready"},
                               todo : SUBSET DOMAIN log, prev : Seq(Entries)]]
    /\ crashes \in Nat
    /\ quiet \in BOOLEAN

IsEvent(row) == row.entry \in Calls

\* Whatever calls and crashes interleave, the chain is a forest that points backward:
\* a row of record_event either starts a chain or names the entry of an earlier row,
\* with that row's stored hash if it too is an event (record_event's SELECT precedes
\* its INSERT; no row is deleted).
LinksBackward ==
    \A i \in DOMAIN log : IsEvent(log[i]) =>
        \/ log[i].prev = Genesis
        \/ \E j \in 1..(i - 1) :
              /\ log[j].entry = log[i].prev[Len(log[i].prev)]
              /\ IsEvent(log[j]) => log[j].hash = log[i].prev

\* A recorded event's row never changes, and a legacy row changes only while a
\* constructor that listed it is running ("append-only", audit.py:3).
RecordedRowsAreImmutable ==
    [][\A i \in DOMAIN log :
          \/ i \in DOMAIN log' /\ log'[i] = log[i]
          \/ ~ IsEvent(log[i]) /\ \E l \in Loggers : i \in logger[l].todo]_vars

Reproducible == \A i \in DOMAIN log : log[i].entry \notin NonAscii \cup Unrounded

\* When calls are made one at a time, legacy rows lie in the order of their times and the
\* backfill ran once without interruption, the trail verifies, crashes and failed calls
\* included, as long as every row's hash can be recomputed from what is read back; one
\* that cannot spoils it for good, though nobody altered it (record_event,
\* _uses_extended_hash_fields, verify).
QuietTrailVerifies == quiet /\ Unhashed = {} => (Verified(log) <=> Reproducible)

\* A logger that is opened leaves no legacy row without a hash unless its process
\* dies first, whatever an earlier process that died left half done and whoever
\* migrates at the same time (_migrate_legacy_entries).
MigrationCompletes ==
    \A l \in Loggers : logger[l].pc # "off" ~> (logger[l].pc = "off" \/ Unhashed = {})

\* What the docs promise without a proviso: between calls, the trail verifies
\* (docs/concepts/audit-chain.md).  Overlapping calls refute it.
TrailVerifies == (\A c \in Calls : ~ Active(c)) /\ Unhashed = {} => Verified(log)

=============================================================================
