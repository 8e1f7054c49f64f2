------------------------------ MODULE Adapters ------------------------------
(***************************************************************************)
(* The framework adapters (capfence/framework/, capfence/mcp/adapter.py):  *)
(* what stands between an agent's tool calls and the gate.  A wrapped tool *)
(* handles one call at a time.  LangGraph's node handles all the calls of  *)
(* a conversation in turn: it is called again whenever the agent has added *)
(* a message, and after a failure if the host retries.  ActionRuntime's    *)
(* execute is one step here; Runtime is its inside.                        *)
(***************************************************************************)
EXTENDS Integers, Sequences

CONSTANTS
    Tasks,      \* conversations with an agent, each with a node or a wrapped tool
    Adapter,    \* Adapter[t]: the entry point that t's framework calls, see below
    Configured, \* tasks whose adapter was given a gate or a policy
    Tools,      \* what agents may name: records, see ToolsAssumption
    Script,     \* Script[t]: the calls [id, tool, args] the agent makes, in order
    Turns,      \* Turns[t]: how many of them it has made with its first, second, ... message
    Policy,     \* the configured Policy[capability, risk]: allow, deny or ask
    Grantable,  \* capabilities an administrator may grant
    None,       \* Python's None
    MaxAttempts \* bound of the model: MaxAttempts[t] invocations of t's entry point

VARIABLES
    granted,    \* capabilities that a grant covers now
    asked, approved,     \* keys of requests that were queued, and that are approved now
    task,       \* each task's progress
    history     \* history: per task, the audit rows it caused and the tools it ran, in order

vars == <<granted, asked, approved, task, history>>

-----------------------------------------------------------------------------
(* The entry points *)

\* An entry point tries methods of the tool in order.  Only adapters of many tools guess a
\* category of risk from the name (`many`), and only a node runs batches.
Direct(name, methods) ==
    [name |-> name, methods |-> methods, fallback |-> None, many |-> FALSE, node |-> FALSE,
     capability |-> None]

LangGraphCall ==
    [Direct("langgraph", <<"invoke">>) EXCEPT !.many = TRUE, !.node = TRUE]
LangGraphAinvoke ==
    [Direct("langgraph_async", <<"ainvoke", "invoke">>) EXCEPT !.many = TRUE, !.node = TRUE]
LangChainRun == Direct("langchain", <<"run">>)
LangChainArun == Direct("langchain_async", <<"arun", "run">>)
LangChainGuard == Direct("guard", <<"callable">>)
OpenAIInvoke == Direct("openai", <<"on_invoke_tool", "invoke">>)
AutoGenCall == Direct("autogen", <<"callable">>)
PydanticCall == [AutoGenCall EXCEPT !.name = "pydanticai"]
LlamaIndexCall == Direct("llamaindex", <<"call", "callable">>)
CrewRun == Direct("crewai", <<"run", "callable">>)

\* Without the method they leave the call to the other entry point, which gates it again.
LlamaIndexAcall == [Direct("llamaindex_async", <<"acall">>) EXCEPT !.fallback = LlamaIndexCall]
CrewArun == [Direct("crewai_async", <<"arun">>) EXCEPT !.fallback = CrewRun]

\* The MCP session has one capability for all tools.
McpCallTool ==
    [Direct("mcp", <<"call_tool">>) EXCEPT
        !.many = TRUE, !.capability = [resource |-> "mcp", action |-> "tool.execute"]]

EntryPoints ==
    {LangGraphCall, LangGraphAinvoke, LangChainRun, LangChainArun, LangChainGuard,
     OpenAIInvoke, AutoGenCall, PydanticCall, LlamaIndexCall, LlamaIndexAcall, CrewRun,
     CrewArun, McpCallTool}

\* A tool no node has registered has no methods.
Usable(entry, tool) == \E i \in DOMAIN entry.methods : entry.methods[i] \in tool.methods

-----------------------------------------------------------------------------
(* The event an adapter builds *)

Categories == <<"command_execution", "payment_initiation", "delete", "write", "read_only">>

\* guess_risk_category: the first category one of whose keywords is in the tool's name.
GuessRisk(tool) ==
    LET hits == {i \in DOMAIN Categories : Categories[i] \in tool.keywords}
    IN  IF hits = {} THEN None ELSE Categories[CHOOSE i \in hits : \A j \in hits : i <= j]

\* A category that is configured comes first.
Risk(entry, tool) ==
    LET category == IF tool.risk # None \/ ~ entry.many THEN tool.risk ELSE GuessRisk(tool)
    IN  IF category = None THEN "medium" ELSE category

\* The configured capability, split at its first dot, or "<tool>.execute".
Capability(entry, tool) ==
    CASE entry.capability # None -> entry.capability
      [] entry.capability = None /\ tool.capability # None -> tool.capability
      [] OTHER -> [resource |-> tool.name, action |-> "execute"]

\* What has_approved_request goes by, the agent aside: calls of two tools with the same
\* arguments may share it; without arguments it is the whole metadata, the tool included.
Key(entry, call) ==
    <<Capability(entry, call.tool).action,
      IF call.args # None THEN call.args ELSE call.tool.name>>

ASSUME ToolsAssumption ==
    /\ \A tool \in Tools :
        /\ tool.keywords \subseteq {Categories[i] : i \in DOMAIN Categories}
        /\ DOMAIN tool = {"name", "methods", "keywords", "risk", "capability"}
    /\ Adapter \in [Tasks -> EntryPoints] /\ None \notin EntryPoints
    /\ Configured \subseteq Tasks
    /\ \A t \in Tasks :
        /\ Script[t] \in Seq({Script[t][i] : i \in DOMAIN Script[t]})
        /\ \A i \in DOMAIN Script[t] : Script[t][i].tool \in Tools
        /\ Turns[t] \in Seq(0..Len(Script[t]))
        /\ ~ Adapter[t].node => \A turn \in DOMAIN Turns[t] : Turns[t][turn] = turn
    /\ MaxAttempts \in [Tasks -> Nat]

-----------------------------------------------------------------------------
(* One task *)

\* The calls of one invocation: the message's one call, or for a node those of every
\* message in the conversation (_extract_calls), so also those it ran in an earlier turn.
Batch ==
    [t \in Tasks |-> [turn \in DOMAIN Turns[t] |->
        SubSeq(Script[t], IF Adapter[t].node THEN 1 ELSE turn, Turns[t][turn])]]

Pos(t) == Len(task[t].results) + 1
Call(t) == Batch[t][task[t].turn][Pos(t)]

Busy(t) == task[t].pc \in {"check", "run"}

\* "authorized" and "refused" are audit rows, "ran" is a run of the tool.
Note(t, what) ==
    history' = [history EXCEPT ![t] =
        Append(@, [what |-> what, attempt |-> task[t].attempt, pos |-> Pos(t),
                   entry |-> task[t].entry.name])]

\* An exception ends the invocation, and the results so far are lost.
Raise(t, pc) == task' = [task EXCEPT ![t].pc = pc, ![t].results = <<>>]

\* Mutation of Enter: the results of an earlier invocation are kept.
EnterKeeping(t, turn) ==
    /\ task[t].attempt < MaxAttempts[t]
    /\ task' = [task EXCEPT ![t] =
            [pc |-> IF Len(Batch[t][turn]) = Len(@.results) THEN "done" ELSE "check",
             entry |-> Adapter[t], turn |-> turn, attempt |-> @.attempt + 1,
             results |-> @.results]]
    /\ UNCHANGED <<granted, asked, approved, history>>

Enter(t, turn) ==
    /\ task[t].attempt < MaxAttempts[t]
    /\ task' = [task EXCEPT ![t] =
            [pc |-> IF Batch[t][turn] = <<>> THEN "done" ELSE "check", entry |-> Adapter[t],
             turn |-> turn, attempt |-> @.attempt + 1, results |-> <<>>]]
    /\ UNCHANGED <<granted, asked, approved, history>>

\* The agent sends its next message, whatever became of the one before it ...
NextTurn(t) ==
    /\ ~ Busy(t)
    /\ task[t].turn < Len(Turns[t])
    /\ Enter(t, task[t].turn + 1)

\* ... or, after an exception, the host tries the same conversation again.
Retry(t) ==
    /\ task[t].pc \in {"refused", "raised"}
    /\ Enter(t, task[t].turn)

\* An adapter with neither gate nor policy makes a runtime of its own that has no rules.
Verdict(t) ==
    IF t \notin Configured THEN "deny"
    ELSE Policy[Capability(task[t].entry, Call(t).tool), Risk(task[t].entry, Call(t).tool)]

\* execute in enforce mode authorizes the call now.
Cleared(t) ==
    \/ Verdict(t) = "allow"
    \/ /\ Verdict(t) = "ask"
       /\ \/ Capability(task[t].entry, Call(t).tool) \in granted
          \/ Key(task[t].entry, Call(t)) \in approved

\* Mutations of Check: one authorization opens the whole batch; a call that policy leaves to
\* an approval waits for it.
CheckFirst(t) ==
    /\ task[t].pc = "check"
    /\ UNCHANGED <<granted, approved>>
    /\ IF Cleared(t) \/ Pos(t) > 1
       THEN /\ task' = [task EXCEPT ![t].pc = "run"]
            /\ IF Pos(t) > 1 THEN UNCHANGED history ELSE Note(t, "authorized")
            /\ UNCHANGED asked
       ELSE /\ Raise(t, "refused")
            /\ Note(t, "refused")
            /\ asked' = asked \cup {Key(task[t].entry, Call(t))}

CheckWaits(t) ==
    /\ task[t].pc = "check"
    /\ Cleared(t)
    /\ task' = [task EXCEPT ![t].pc = "run"]
    /\ Note(t, "authorized")
    /\ UNCHANGED <<granted, asked, approved>>

\* Build the event, execute it, and raise unless it is authorized; a refused call that
\* policy leaves to an approval is queued.
Check(t) ==
    /\ task[t].pc = "check"
    /\ IF Cleared(t)
       THEN /\ task' = [task EXCEPT ![t].pc = "run"]
            /\ Note(t, "authorized")
            /\ UNCHANGED asked
       ELSE /\ Raise(t, "refused")
            /\ Note(t, "refused")
            /\ asked' = IF Verdict(t) = "ask" THEN asked \cup {Key(task[t].entry, Call(t))}
                        ELSE asked
    /\ UNCHANGED <<granted, approved>>

\* The event cannot be built, or execute raises: nothing is recorded, although a request
\* may be queued by then.
CheckFails(t) ==
    /\ task[t].pc = "check"
    /\ Raise(t, "raised")
    /\ \/ UNCHANGED asked
       \/ /\ Verdict(t) = "ask" /\ ~ Cleared(t)
          /\ asked' = asked \cup {Key(task[t].entry, Call(t))}
    /\ UNCHANGED <<granted, approved, history>>

\* Mutation of Run: the end of the batch is missed by one.
RunPastEnd(t) ==
    /\ task[t].pc = "run"
    /\ Usable(task[t].entry, Call(t).tool)
    /\ task' = [task EXCEPT
            ![t].pc = IF Pos(t) > Len(Batch[t][task[t].turn]) THEN "done" ELSE "check",
            ![t].results = Append(@, [id |-> Call(t).id, attempt |-> task[t].attempt])]
    /\ Note(t, "ran")
    /\ UNCHANGED <<granted, asked, approved>>

\* The tool runs and returns; its result is appended, and the next call's turn comes.
Run(t) ==
    /\ task[t].pc = "run"
    /\ Usable(task[t].entry, Call(t).tool)
    /\ task' = [task EXCEPT
            ![t].pc = IF Pos(t) = Len(Batch[t][task[t].turn]) THEN "done" ELSE "check",
            ![t].results = Append(@, [id |-> Call(t).id, attempt |-> task[t].attempt])]
    /\ Note(t, "ran")
    /\ UNCHANGED <<granted, asked, approved>>

\* The tool runs and raises.
RunFails(t) ==
    /\ task[t].pc = "run"
    /\ Usable(task[t].entry, Call(t).tool)
    /\ Raise(t, "raised")
    /\ Note(t, "ran")
    /\ UNCHANGED <<granted, asked, approved>>

\* The tool has none of the methods: the call is left to another entry point ...
FallBack(t) ==
    /\ task[t].pc = "run"
    /\ ~ Usable(task[t].entry, Call(t).tool)
    /\ task[t].entry.fallback # None
    /\ task' = [task EXCEPT ![t].pc = "check", ![t].entry = @.fallback]
    /\ UNCHANGED <<granted, asked, approved, history>>

\* ... or it fails, authorized as it is.
GiveUp(t) ==
    /\ task[t].pc = "run"
    /\ ~ Usable(task[t].entry, Call(t).tool)
    /\ task[t].entry.fallback = None
    /\ Raise(t, "raised")
    /\ UNCHANGED <<granted, asked, approved, history>>

-----------------------------------------------------------------------------
(* Administrators, operators and time *)

Grant(cap) == granted' = granted \cup {cap} /\ UNCHANGED <<asked, approved, task, history>>
Lapse(cap) == granted' = granted \ {cap} /\ UNCHANGED <<asked, approved, task, history>>

\* A request with this key is approved; the decision is reversed, or it expires.
Approve(key) == approved' = approved \cup {key} /\ UNCHANGED <<granted, asked, task, history>>
Withdraw(key) == approved' = approved \ {key} /\ UNCHANGED <<granted, asked, task, history>>

Init ==
    /\ granted = {} /\ asked = {} /\ approved = {}
    /\ task = [t \in Tasks |->
            [pc |-> "done", entry |-> Adapter[t], turn |-> 0, attempt |-> 0, results |-> <<>>]]
    /\ history = [t \in Tasks |-> <<>>]

Proceed(t) == Check(t) \/ Run(t) \/ FallBack(t) \/ GiveUp(t)

Next ==
    \/ \E t \in Tasks : NextTurn(t) \/ Retry(t) \/ Proceed(t) \/ CheckFails(t) \/ RunFails(t)
    \/ \E cap \in Grantable : Grant(cap) \/ Lapse(cap)
    \/ \E key \in asked : Approve(key) \/ Withdraw(key)

Spec == Init /\ [][Next]_vars

\* An invocation keeps running, and tools return.
FairSpec == Spec /\ \A t \in Tasks : WF_vars(Proceed(t))

-----------------------------------------------------------------------------
(* Properties *)

EntriesOf(t) == {Adapter[t], Adapter[t].fallback} \ {None}

\* Type invariant; the task at hand is one of the calls the agent has made so far.
TypeOK ==
    /\ granted \subseteq Grantable
    /\ approved \subseteq asked
    /\ \A t \in Tasks :
        /\ task[t].pc \in {"check", "run", "done", "refused", "raised"}
        /\ task[t].turn \in 0..Len(Turns[t])
        /\ task[t].attempt \in 0..MaxAttempts[t]
        /\ task[t].entry \in EntriesOf(t)
        /\ Busy(t) => Pos(t) \in DOMAIN Batch[t][task[t].turn]
        /\ history[t] \in Seq([what : {"authorized", "refused", "ran"},
                               attempt : 1..MaxAttempts[t], pos : Nat \ {0},
                               entry : {e.name : e \in EntriesOf(t)}])

Same(h, g) == h.attempt = g.attempt /\ h.pos = g.pos /\ h.entry = g.entry

\* Calls are gated and run one at a time and in order: a tool runs right after its own
\* call was authorized, in this invocation and through the entry point that runs it; a
\* call is only looked at after the one before it has run; and nothing follows a refusal.
\* So of a batch that is refused half way exactly the calls before the refusal have run,
\* and no retry, second entry point or later turn runs on an earlier authorization.
OneByOne ==
    \A t \in Tasks : \A i \in DOMAIN history[t] :
        LET h == history[t][i]
            earlier == {j \in 1..(i - 1) : history[t][j].attempt = h.attempt}
        IN  /\ h.what = "ran" =>
                /\ i > 1
                /\ history[t][i - 1].what = "authorized"
                /\ Same(history[t][i - 1], h)
            /\ h.what # "ran" /\ h.pos > 1 =>
                \E j \in earlier : history[t][j].what = "ran" /\ history[t][j].pos = h.pos - 1
            /\ \A j \in earlier : history[t][j].what # "refused"

\* The results an invocation returns are those of the calls it was given, each of them
\* once and in their order, and all from this invocation, whatever was lost before.
ResultsMatchCalls ==
    \A t \in Tasks : task[t].pc = "done" /\ task[t].turn > 0 =>
        LET batch == Batch[t][task[t].turn]
        IN  task[t].results =
                [i \in DOMAIN batch |-> [id |-> batch[i].id, attempt |-> task[t].attempt]]

\* Every invocation ends, with results or an exception, whatever its tools can do.
InvocationsEnd == \A t \in Tasks : Busy(t) ~> ~ Busy(t)
=============================================================================
