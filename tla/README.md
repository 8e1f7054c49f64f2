# CapFence in TLA+

A specification of the enforcement core of CapFence (`src/capfence`): what
happens between an agent asking for a tool call and the tool running, what is
stored on the way, and what operators, other processes, crashes and the clock
can do in the meantime. The modules are written from the code; where the
documents say something else, a run shows the difference.

## The system

| Part | Code | State it keeps | Operations | Talks to |
|---|---|---|---|---|
| Action runtime | `core/runtime.py` | none of its own; local variables of each call of `execute` | `execute` | policy, approval store, audit trail |
| Adapters | `framework/*.py`, `mcp/adapter.py` | none; local variables of a batch | build an event, call `execute`, run the tool, fall back on another entry point, or raise | runtime, host framework |
| Approval store | `core/approvals.py`, `core/db.py` | SQLite tables `approved_grants`, `approvals` | grant, check, request, list and expire, approve, reject | shared by runtimes, CLI and programs, in several processes |
| Operator commands | `cli.py` | none | `pending-approvals`, `approve`, `reject`, `grant` | approval store |
| Audit trail | `core/audit.py`, `core/chain.py` | SQLite table `audit_events`, a hash chain | record, backfill legacy rows, verify | keys |
| Signing keys | `core/keys.py` | two files | load, ensure, generate | file system, other processes |
| Policies | `core/policy.py`, `core/capabilities.py` | the loader's cache, the merged policy | load, merge, evaluate | file system |
| Replay | `core/replay.py` | a sandbox copy of the store, results | replay an incident, simulate a policy | runtime, live approval store |
| MCP gateway | `mcp/gateway.py` | the upstream process, a lock, a drainer thread | the proxy loop | MCP client, upstream server, runtime |
| Agent state | `core/state.py` | SQLite table `agent_decisions`, one lock per store object | record a decision or a batch, six queries over a window of time | threads and processes that use it; not used by `execute` |
| Scoring | `core/scorer.py`, `core/taxonomy.py` | a class-level cache of the taxonomy | score arguments | agent state; not used by `execute` |
| Backends, plugins, test and check tools | `core/policy_backends.py`, `core/plugins.py`, `core/policy_testing.py`, `check.py`, the other commands of `cli.py` | none | ask a verdict elsewhere; report | policies |

Everything that is shared is shared through SQLite, one committed statement at
a time (`db.py`), or through files. There are no transactions over several
statements. So nearly all that is hard here comes from two statements with
something else in between:

- `record_event` reads the last hash, then inserts; the row carries the time
  at which `execute` started, and `verify` sorts by that time.
- `execute` looks at policy, grants, requests, and then writes a request and
  an audit row, in that order, each of which can fail.
- `pending-approvals` selects, then updates row by row; `approve` and `reject`
  read, test and then update.
- the audit constructor backfills legacy rows one UPDATE at a time.
- key files are truncated and written one after the other.
- a replay copies two tables one after the other.
- the gateway assumes one line of answer for each line it forwards, and a lock
  is held while it waits.
- a batch of tool calls is gated and run one call at a time, so a refusal in
  the middle comes after some tools have run; the host may invoke it again.
- agent state takes timestamps and cutoffs before it waits for its lock, and
  never rolls a failed batch back.

What makes each part correct is stated with its module below. `PROJECT.json`
lists these behaviours at their lines under "hazards", with the properties
that would catch them going wrong.

## The modules

| Module | What it is |
|---|---|
| `Capabilities` | parsing and matching of `resource.action.scope` |
| `ActionEvents` | which events can be built, and what `execute` derives from one |
| `Approvals` | the approval store and the operator commands |
| `AuditTrail` | the audit table, its backfill and its verifier |
| `Gate` | abstract: what CapFence promises of a tool call |
| `Runtime` | `execute` and the adapter around it, over `Approvals` and `AuditTrail`; implements `Gate` |
| `Adapters` | what the adapters' thirteen entry points do around `execute`: batches, turns, retries, fallbacks |
| `Policy`, `PolicyLoader` | what a policy decides; loading, caching and layering |
| `Gateway` | the MCP proxy loop between a client and an upstream server |
| `Keys` | the two key files |
| `Replay` | the replay engine; extends `Approvals`, whose state is the live store, with a sandbox instance of it |
| `AgentState` | the store of recent decisions, in memory and on a shared file |
| `StoreProofs` (of `Approvals` and `Replay`), `AuditTrailProofs`, `RuntimeProofs`, `PolicyLoaderProofs`, `GatewayProofs`, `KeysProofs`, `AdaptersProofs`, `AgentStateProofs` | theorems |
| `MC*` | instances for TLC |

### Approvals

`grants` and `requests` are the two tables in insertion order, and a row's
index stands for its UUID. `clock` is `time.time()`, which all processes share
and which does not step back. `ops[o]` is what the operator process `o` has in
hand between two statements: the request it read as pending and is about to
decide (`ReadRequest`, `WriteDecision`), or the overdue rows its listing found
and has not updated yet (`SelectPending`, `ExpireOne`, `EndList`). `Interrupt`
kills it in between. `Resolve` is a program calling `approve` or `reject`
directly. An operation that takes the time before its statement (`grant`,
`request_approval`, `get_pending`) may be held up in between, so its `now` is any
time up to the statement's; an `expires_in` may be negative, as the code accepts
it. A request may therefore be overdue when it is stored. A signature is
represented by the secret it was made with, or `None` for a row without one:
`check_approval` recomputes it with its own process's secret, if it is there.

What should hold: a request expires only past its own deadline, however stale
the listing; a listing misses no overdue request among those that were there at
its SELECT (`seen`); what is decided stays
decided once no command that read it earlier is still in flight; nothing
becomes pending again; a grant that stopped covering an ask never covers it
again.

### AuditTrail

`log` is the table in id order. A hash is represented by the sequence of
entries it commits to, so two hashes are equal exactly when their chains are
(SHA-256 is taken to be injective). `writer[c]` is a call between its start
time, the read of the head and its insert. `logger[l]` is a process' logger,
with the rows its backfill has yet to update and the hash it carries along.
`Verified` is `verify`: rows by start time and then id, each linked to the one
before, each hash recomputed. Two quirks of the recomputation are constants:
`NonAscii` (rows whose metadata is not recognized when read back) and
`Unrounded` (legacy rows whose stored timestamp has more decimals than the
hashed one). `Legacies` lists the tables an older version may have left, whose
rows need not lie in the order of their times: the backfill links them by id and
the verifier walks them by time. `quiet` is a history variable: legacy rows were
in the order of their times, no two calls and no two backfills overlapped, and
no backfill was cut short.

What should hold: links point backward; recorded rows never change; a quiet
trail verifies if and only if every hash in it can be recomputed (one row that
cannot spoils it for good, though nobody altered it); a backfill that has begun
completes.

### Runtime and Gate

`call[c]` holds the local variables of one call of `execute` and its adapter:
`evaluate`, `grants`, `requests`, `enqueue`, `audit`, `insert`, `deliver`, and
then `invoked`, `blocked`, `failed` or `abandoned`. Each SQL statement is a
step. Each call goes through a runtime of its own mode (`ModeOf`), so that
enforcing and observing runtimes share one store and one trail. The policy's
answer is the constant function `PolicyVerdict`; how it comes about is `Policy`.

The components are composed by `INSTANCE` and share their variables: a call's
steps on the approval store are operators of `Approvals` (`Store`), and its
start, its read of the head, its insert and its failure are actions of
`AuditTrail` (`Trail`), whose `writer` and `quiet` are variables of `Runtime`
too. Operators appear by their effects, `Resolve` and `Expire`; the interleaving
of their own statements is in `Approvals`. `check_approval` takes its time first
and reads after, so `LookupGrant` uses any time since the call began. `Fail` is
an exception in any statement, or the death of the thread; the audit trail's
insert is inside `execute`, so a failure there means that no verdict is
returned. `NonAsciiEvents` are the events whose required capability has
characters beyond ASCII: calls that carry them are the trail's `NonAscii`, and the
lookup of a grant raises for them. The trail of `Runtime` starts empty, without
legacy rows.

What should hold: a tool runs only after its call's own authorization is
recorded, once; in enforce mode only with a cause, and never against a denial;
a call told to wait has a request of its own in the queue that lets its retry
through; the recorded decision is the true one, also in observe mode.

`Gate` is the promise: a call is recorded once, a tool runs once and only
after "authorized" was recorded for it, and in enforce mode "authorized" is
recorded only for a call that something cleared. `Runtime` implements it with
the refinement mapping `Promise`; `ImplementsGate` is checked and proved.

### Adapters

An entry point is a record of what the code does in it: the methods of the tool
it tries in order, the entry point it leaves the call to when the tool has none
of them, whether it guesses a category of risk from the tool's name, whether it
is a node that runs batches, and the one capability the MCP session uses for
all. The thirteen of them are the public entry points of `framework/*.py` and
`mcp/adapter.py`. `task[t]` is one agent's conversation: `NextTurn` and `Retry`
are the host framework, which may go on with the agent's next message or repeat
the last invocation after a refusal or an exception; `Check`, `CheckFails`, `Run`, `RunFails`, `FallBack` and
`GiveUp` are the code. `Script` lists a conversation's calls and `Turns` how many
each of its messages makes; `Batch` is what a LangGraph node collects from the
conversation, which includes the calls of earlier turns. `execute` appears by
its effect on the trail and the queue, in one step: what can happen inside it is
`Runtime`. Approvals come and go between any two steps.

What should hold: calls go one by one, each tool right after its own
authorization in this invocation and through the entry point that runs it, and
nothing follows a refusal; the results that are returned are those of this
invocation's calls; every invocation ends.

### Policy and PolicyLoader

A name is the sequence of the pieces between its dots. A rule is a capability
pattern, an action and the set of conditions it needs;
an event holds a set of conditions. Where one of two capabilities does not parse
(`IllFormed` pieces), `Rule.matches` compares the texts instead, a pattern that ends
in `.*` by its beginning (`BeginsWith`, for which `Begins` says which piece's text
begins with which). `Verdict` is `Policy.explain`: denials,
approvals, the level of risk, then allowing and warning rules.
`PolicyLoader` makes the recursion of `load` a stack of frames. Files may
extend each other in cycles, which ends in Python's recursion error
(`MaxDepth`). `DecidesByLayers` compares the merged policy with a reference
definition that consults the layers directly, written with recursive
functions (`Layers`).

### Gateway

Pipes are the sequences ever written and counters of what was read. The loop
reads a client's message, gates it if it is a tool call, forwards it, and then
reads one line from the server, holding the lock. `Undisturbed` says when one
line per message is right: the server lives, says nothing of its own, all
messages are requests, and stderr is filled only while the drainer runs: it has
to fetch the process first, and ends at a line that is not text (`EndDrain`).
Such a line on the server's stdout, or a client that is gone when it should be
answered, ends the loop (`RespondFails`, `Crash`). Client and server are external. That the client closes
its end is `ReadEof`, at any time.

### Keys

A key is the number of the pair it belongs to; two halves fit if the numbers
agree. `open` with `O_TRUNC` and `write` are separate steps. `quiet` says that
no two generations overlapped and that none replaced a pair.

### Replay

The state of `Approvals`, which `Replay` extends, is the live store that goes
on changing; `Sandbox` is the copy. Copying stops at any row when an exception
is swallowed. A replay of an incident uses the live runtime's mode and policy; a
simulation enforces a policy of its own; and an engine that was given no runtime
(`"fallback"`) has no policy and copies the approval store it opens by default,
the user's. A record that no event can be built from, an `execute` that raises,
and a recorded outcome that is not text end the replay (`ParseFails`,
`ExecuteFails`). That no step of a replay writes the live store is how
`replay.py` is written, not something checked: it only executes in the sandbox.
A result keeps what the live store was when it was made (`was`), which is what
the properties compare it with: a replay authorizes nothing that the live store
gave no reason for since it began, and a repeated record only loses.

### AgentState

`table` is `agent_decisions`, `lock[s]` the lock of store object `s`, and
`thread[t]` a call: it waits for the lock, holds it, inserts row by row and
commits, or reads. A deployment is drawn in `Init`: one connection in memory
that all threads share, a file with a connection per call, or that file with
another process (a store object of its own) on it. `Reject` is a value SQLite
cannot bind, `Fail` anything SQLite raises. A query's answer is any that its
rows allow (rows of one instant come in any order).

What should hold: although cutoffs and a batch's timestamp are taken before the
lock, an answer is right for some set of decisions between those of calls that
had returned and those stored when it read; a batch is seen whole or not at
all, unless it failed on the shared connection, where its first rows stay;
every call returns or raises.

## The runs

Nine runs pass and three find a disagreement between a document and the code.
TLC's bounds are named constants (`MaxTime`, `MaxGrants`, `MaxRequests`,
`MaxCrashes`, `MaxSent`, `MaxChatter`, `MaxBursts`, `MaxPairs`, `MaxDeaths`,
`MaxDepth`, `MaxAttempts`, `MaxCalls`) in the guards of the actions they bound.

| Run | Bounds | Why they are enough |
|---|---|---|
| `approvals` | 2 operators, 2 asks that only the session tells apart, 2 requests, 1 grant of 3 kinds, times 0..2, deadlines of 1, -1 (overdue when stored) or none | every race is between two commands on one row; the second request lets a listing hold one row while another is decided; time 2 is past a deadline of 1 |
| `audit_trail` | 3 calls over 2 loggers, one of them with a row beyond ASCII, legacy tables: none, two rows in the order of their times, two that are not, one with a time that is rounded; 1 crash, times 0..2 | a fork needs two calls and shows in a third; an interrupted backfill needs two rows; a second logger resumes it |
| `runtime` | 2 calls, one enforced and one observed, over 6 events reaching every branch, 2 requests, 1 grant, times 0..2 | interference between calls goes through one row of either table; a third call adds no new pair of statements; capabilities beyond ASCII only matter to the trail, and the run of `audit_trail` has them |
| `policy_loader` | 3 files extending each other in all ways (at most 1, 1 and 2 parents), depth 5, events that parse and one that does not | diamonds need three files, cycles one or more; 5 is above the longest chain without a cycle |
| `gateway` | 3 client messages, 1 message of the server's own, 1 burst on stderr | being out of step shows with the second message, and stays with the third |
| `keys` | 3 processes, 3 generations, 2 deaths | a reader against two generators, one of which may have died; the processes are symmetric and nothing distinguishes them |
| `replay` | a trace of 4 records and two of 2 that end early, 3 runtimes, 1 grant, 1 live request, times 0..2 | the same event before, at and after a grant's expiry |
| `adapters` | a node with 2 turns of 2 and 1 calls, an entry point that falls back with a tool it cannot call, an adapter without a gate; 2 attempts | a refusal needs a batch of two; calls that are run again need two turns; the second turn may follow a refusal in the first; results that are kept by mistake show in a second attempt |
| `agent_state` | 3 threads, one call each: a batch (perhaps one that fails), a record, any query; 3 deployments, times 0..2, window 1 | a query against a writer that is half way and another that is through; a stamp older than the window while its row is not stored yet |

Deadlock is checked where the system can always go on (`approvals`,
`policy_loader`). Elsewhere behaviours end when all calls, generations or
messages that the bounds allow are over, and the configuration says so.

Disagreements (each is a finding in `PROJECT.json`):

- `audit_fork`: overlapping calls break the chain that the docs promise.
- `approval_scope`: an approved request clears calls for other capabilities.
- `overdue_approved`: a request past its deadline can still be approved.

### Fairness

Only what a scheduler and the code's own loops give, and only where a liveness
property needs it:

- `AuditTrail`: a constructor that has begun goes on (`WF` on `MigrateOne`).
  Nothing makes a process start, and a crash is not prevented.
- `Runtime`: none. No call ever waits for another, for an operator or for time,
  and what it promises is safety; that invocations end is `Adapters`' question.
- `Adapters`: an invocation goes on, and a tool that is called returns or raises
  (`WF` on each task's `Proceed`). Nothing makes an agent send its next message
  or a host retry, and no approval is assumed to come.
- `AgentState`: a thread that can go on does (`WF` on each thread's `Proceed`).
  Python's lock is not fair; `CallsReturn` holds because each thread makes
  finitely many calls (`MaxCalls`).
- `Gateway`: the loop and the drainer thread run, and the external server
  reads and answers. The lock is not fair and need not be: the drainer takes
  it once, and the fairness is weak, so a drainer whose lock is taken and
  released again and again may wait for ever.

## What is proved

TLAPS checks these for every value of the constants that satisfies the
modules' named assumptions (`ApprovalsAssumption`, `AuditTrailAssumption`,
`TraceAssumption`, ...), which only give types to parameters and bounds. TLC
evaluates each of them on the instances it checks.

**StoreProofs**, of the approval store. `TypeCorrect` is inductive as it stands.
`ExpiredOnlyPastDeadline` is not: a listing in flight might hold a row that is
not overdue. `ExpiryInv` adds `ListedAreOverdue` (everything on a list was
overdue at its cutoff, and cutoffs are not in the future).
`SweepIsComplete` is inductive beside `TypeOK` (`SweepInv`): the rows that a
listing read keep their places and their deadlines, and only it strikes them off
its list, by making them expired. The three action properties follow from lemmas on what one step can
do to a row (`RequestStep`, `NewRequest`).

**StoreProofs**, of the replay. Every step of a replay, of the operators and of
the runtime beside it is a step of the live store or leaves it alone
(`LiveStoreIsStore`: `Replay` implements `Approvals`), so all that is proved of
the store holds of it. What a step may do to it is summed up in `StoreSteps`:
time passes, grants are added, requests are added or change their status.
`Typed` adds to `TypeOK` the order in which the sandbox is filled.
`RepeatsOnlyLose` follows from `PermittedWasAuthorized`: what would be permitted
now was authorized whenever it came, as grants only lapse and what the sandbox
queues is pending (`PermittedShrinks`). `AuthorizesNothingNew` follows from
`CopyIsPast`, that every copied grant is a live row still and every copied
approval one that was approved since the replay began, and `HasCause`, that a
result's reason, once there, stays in the live store. `TraceAssumption` says
that a trace is a sequence and that the live runtime's agents may have asked for
what its records ask for.

**AuditTrailProofs.** `LinksBackward` needs that the head a call holds between
its two statements goes on naming a row, although a backfill may rewrite
legacy rows in between (`HeadsName`), that a hash ends in its own entry
(`HashesNameEntries`), and that no backfill lists an event's row
(`ListsAreLegacy`). Together they are `LinkInv`, which also yields
`RecordedRowsAreImmutable`. `QuietTrailVerifies` rests on `QuietInv`: a call
runs only when no row lacks a hash (`Gated`), and, while it is quiet, one call
at a time holds the last hash and a start no row is later than (`OneCall`), the
rows with a hash come first and make one chain in the order of their times
(`OneChain`), and one backfill at a time has exactly the others to do and
carries the hash before them (`OneMigration`). That legacy rows lie in the order of
their times (`InOrder`) is a part of being quiet, as the code gives no reason for it. Then the order of times is the
order of rows, and the verifier walks the chain as it was linked.

**RuntimeProofs.** `Typed` adds to `TypeOK` that a call
under way has its event and a decided one its verdict and reason. `CallSteps`
classifies every branch of `execute` by what it does to a call and the trail
(it advances, settles, reads, inserts, delivers or ends), so that each invariant
is shown for six kinds of step instead of twelve actions. `Ledger` says that a
call has exactly one row from its insert on, and what that row says; it yields
`AuditedBeforeInvoked`, `TrueDecisionIsRecorded` and, with the mapping `Promise`,
that `Runtime` implements `Gate` (`KeepsThePromise`). `Warrants` says that every
permitted call was entitled to it at its start or later, and that entitlement is
never lost as history goes on (`EntitledStays`); it yields `InvokedOnlyWithCause`.
Every step of the runtime is a step of `AuditTrail` or leaves the trail alone
(`StepsOfTrail`), so `Runtime` implements it as well (`RuntimeKeepsTheTrail`).
`Facts` is that instance of `AuditTrailProofs`: its assumption is proved of the
runtime's constants (`TrailAssumption`), and its theorems then hold of the trail
that calls of `execute` leave (`RuntimeTrailPointsBackward`, and
`QuietCallsVerify`: as long as no two of them overlapped, it verifies if and only
if no recorded call needed a capability beyond ASCII).
`Queue` says that the request a call was told to wait for is there, asks for its
event, and is no other call's; it yields `BlockedAskIsQueued`.

**PolicyLoaderProofs.** `LoadInv`: nobody has cached a file that is being
loaded, each call but the innermost is loading the first file it has left, and
what a file extends is cached or left to load. Completeness is then that a call
that returns has nothing left, and that its file extends none that is waiting.
`DecidesByLayers` compares with the recursive function `Layers`. `LayerInv` says
that some assignment of sequences of layers to the cached files exists under
which every cached policy, and every policy half merged on the stack, decides
as its layers do (`ByLayers`), and that this assignment satisfies the equation of
the recursion. Merging puts layers in front of layers (`Joined`, `MoreLayers`: the
rule a merged policy matches first and the level it gives a risk are those of the
first of its layers that has one). `Layers` is by its definition some solution of the
equation (`LayersDef`), and any two solutions agree on the cached files: take a
cached file on which they differ that extends none on which they do, which is
there because what is cached does not extend itself (`LayersAre`). Where others would use induction over numbers
this module takes the least counterexample, which the library's theorem on
well-founded relations provides (`LeastNumber`, `AllNumbers`).

**GatewayProofs.** `InHand` (the loop's message is the last it has read) and
`Sorted` (messages leave in the order they came, one at a time) give
`OnlyPassedCallsReachServer`; `Served` and `Handled` (the server answers what it
read once, the client gets each line once) give `AnsweredOnce`; `Synced`
(nothing but the message in hand is under way, and `Undisturbed` can only be
lost) gives `InStep`.

**AdaptersProofs.** `Tracked`: a call under way is one of its batch and the
results are those of the calls before it. `Ordered`: the rows of a task are in
order and the call at hand may be noted next. A batch is a part of its task's
script (`BatchIsList`).

**KeysProofs.** `PairInv`: in quiet behaviours there is at most one generator,
the files show how far it is, and the public file, which is written last,
appears only when the private key is there to stay. So a reader that found
both files reads one pair, or raises.

**AgentStateProofs.** `LocalInv` says what each call holds at each point,
`LockInv` that a lock is held by the one call past its `Acquire`, and `OpenInv`
that rows wait for a commit on a file only, and for one call at a time. Together they are
`BaseInv`, which is inductive. `AnswersAreBracketed` needs that the table only
grows (`TableOnlyGrows`), so that the rows an answer was read from stay a choice
between the rows due and the rows there (`BetweenKept`), and that counts, latest
rows and totals of a fixed set of rows do not change when others are added
(`AnswersKept`; totals by `TotalKept`). A total is a recursive function over row
numbers; that it is the sum it should be is shown with the least counterexample
(`SumExists`, `SumsAgree`). `SeesWholeBatches` follows from `BatchInv`: on the
shared connection, a batch's rows in the table and its records left to insert
make up the batch; on a file, the rows open on its own connection and the records
left do, and its rows are in the table all together or not at all (`RowWhole`). The assumption on the constants says that a
batch is a sequence and that an amount SQLite can bind is none or a number.

Only model-checked: liveness (`MigrationCompletes`, `RequestsAreAnswered`,
`InvocationsEnd`, `CallsReturn`), since TLAPS has neither fairness nor `ENABLED`
here. Every invariant and every action property of a passing run is a theorem.

## What else the code does

Seen while modelling, and not made a run of their own:

- A policy's `risk_levels` may say `warn`, which lets an event through that no
  rule matches (`policy.py:349`), while the docs say that what no rule matches
  is denied. `Verdict` follows the code.
- A document says that policies have no inheritance; `extends` is there.
- `keys.py` calls `_atomic_write` atomic. A process that dies after the
  truncation leaves an empty file, and every later `ensure_keypair` raises.
  Replacing a pair can also leave halves of two.
- The gateway waits for a line after forwarding a notification, and stops on
  a line that is not JSON as on end of file. Before the drainer thread has
  fetched the process, a server that fills its stderr deadlocks with the loop;
  after the drainer has met bytes that are not text, nobody reads stderr any more.
  If the server dies, requests it had accepted are not answered.
- A replay uses the present clock, so the same trace need not give the same
  decisions although a document says so; and a trace that holds the key
  `original_decision`, which the engine reads, is refused by `ActionEvent`, which
  ends the replay without a summary.
- The fallback runtime of the replay engine is called in-memory and opens the
  user's approval database, so the user's grants decide what it authorizes.
- A grant or an approval that ends between the lookup and the tool's invocation
  is not noticed; `InvokedOnlyWithCause` asks for a cause since the call started.
- An event's own capability may not parse: a grant's lookup then raises and the
  call fails, while a policy's rules go on to compare the texts.
- A batch that fails half way on the shared in-memory connection is not undone:
  its first rows stay and the next call commits them (`state.py:94`).
- In observe mode a pending request is recorded with approval state
  "approved" (`audit.py:130`); the decision column tells the truth, and
  `TrueDecisionIsRecorded` is about that one.
- `grant` with a duration and a session ignores the session.
- An inline `require_approval` is ignored when policy allows, though a guide
  says it applies regardless of policy.
- A row whose required capability has a character beyond ASCII never verifies,
  as the verifier compares escaped with unescaped JSON (`chain.py:183`). Nor
  does a legacy row whose timestamp has more than six decimals (`audit.py:99`).
- A LangGraph node runs the calls of earlier turns again (`langgraph.py:62`), as
  `Batch` says. A tool is looked up after its call was authorized, so an unknown
  tool leaves an authorization in the trail for a call that never runs.
- Where an asynchronous entry point falls back on the synchronous one, the same
  call is gated and recorded twice. Two tools called with the same arguments
  share one approved request if their actions have the same name.
- `detect_velocity_spike` compares with `>=` where its docstring says that the
  count must exceed the threshold. A query that waits for the lock looks at a
  window wider than it was asked for.
- The taxonomy's class-level cache is tested, then copied, without a lock, so a
  `reset_cache` in between makes a load fail or return nothing.
- `docs/concepts/policy-model.md:17` says that the first matching rule wins.
  `explain` consults denials, then approvals, then the level of risk, then the
  rules that allow or warn, wherever they stand.
- A fixture suite resolves `extends` against its own directory and then the
  working directory, the runtime's loader against the working directory only:
  the offline verdict may be about other files.
- `policy diff` "highlights newly allowed side effects" (`docs/reference/cli.md:80`),
  but a denial that becomes `warn`, which authorizes, is not one of them.
- The OPA backend catches time-outs, URL errors and bad JSON. Other failures of
  the connection and bytes that are not UTF-8 raise, while
  `external-policy-backends.md:44` says that all of these are `deny`.

## What is not modelled

Text, JSON and YAML syntax, formatting and logging; conditions of rules beyond
which of them hold; SHA-256, HMAC and Ed25519, whose strength is assumed; a
clock that steps back or differs between processes; more than one audit row
per call; rows beyond `verify`'s limit of a million; the getters' filters.

Of the parts, each with its reason in `PROJECT.json`: scoring and the taxonomy
(arithmetic over keyword matches and a JSON file, used by nothing here);
external policy backends and plugins (they keep no state, and the runtime does
not call them); policy tests, diffs and the source scan of `check.py` (offline,
and without state; what they evaluate is `Policy` and `PolicyLoader`); the
commands of `cli.py` that only print; errors and hashing helpers; demos and
examples, one of which imports a `Gate` the package no longer exports.

## Plan

Done, in the order in which behaviour matters: approval store; audit trail;
runtime over both, and its gate; policies; gateway; keys; replay; adapters;
agent state; theorems for the safety of every component.

Next:

1. Proofs: what a step of `Runtime` and of `Replay` does to the approval store is
   proved twice (`StoreStep`). An abstract store, in which time passes and rows are
   granted, requested, decided and expired, would be implemented by `Approvals`
   and by `Runtime`, and its lemmas shared. `Adapters`' one-step `execute` could be
   shown to be what `Runtime` promises (`Gate`).
2. Models: `verify` with signed rows over `AuditTrail` and `Keys` together;
   the offline verdicts of `policy_testing.py` against `PolicyLoader`'s.
