--------------------------- MODULE AdaptersProofs ---------------------------
(***************************************************************************)
(* Proofs about the framework adapters, for any number of conversations,   *)
(* any entry points, tools, scripts and policy.                            *)
(***************************************************************************)
EXTENDS Adapters, TLAPS

-----------------------------------------------------------------------------
(* Types *)

Pcs == {"check", "run", "done", "refused", "raised"}
Ids == {Batch[t][turn][i].id : t \in Tasks, turn \in Nat, i \in Nat}
Result == [id : Ids, attempt : Nat]
TaskState ==
    [pc : Pcs, entry : EntryPoints, turn : Nat, attempt : Nat, results : Seq(Result)]
Row(t) == [what : {"authorized", "refused", "ran"}, attempt : 1..MaxAttempts[t],
           pos : Nat \ {0}, entry : {e.name : e \in EntriesOf(t)}]

\* A batch is a list.
LEMMA BatchIsList ==
    ASSUME NEW t \in Tasks, NEW turn \in 1..Len(Turns[t])
    PROVE  LET batch == Batch[t][turn] IN batch \in Seq({batch[i] : i \in DOMAIN batch})
<1> DEFINE S == {Script[t][i] : i \in DOMAIN Script[t]}
           first == IF Adapter[t].node THEN 1 ELSE turn
           last == Turns[t][turn]
           batch == SubSeq(Script[t], first, last)
<1>1. Script[t] \in Seq(S) /\ Turns[t] \in Seq(0..Len(Script[t]))
  BY ToolsAssumption
<1>2. turn \in DOMAIN Turns[t] /\ turn \in Nat \ {0}
  BY <1>1
<1>3. first \in Nat \ {0} /\ last \in 0..Len(Script[t])
  BY <1>1, <1>2
<1>4. batch \in Seq(S)
  <2> HIDE DEF S, first, last
  <2> QED BY <1>1, <1>3
<1>5. batch \in Seq({batch[i] : i \in DOMAIN batch})
  <2> HIDE DEF batch, S
  <2> QED BY <1>4
<1>6. Batch[t][turn] = batch
  BY <1>2 DEF Batch
<1> QED BY <1>5, <1>6

\* A call that is under way is one of its batch, and its results are those of the calls
\* before it.
OnTrack(t) ==
    /\ task[t].turn \in 0..Len(Turns[t])
    /\ task[t].attempt \in 0..MaxAttempts[t]
    /\ task[t].entry \in EntriesOf(t)
    /\ task[t].pc # "done" => task[t].turn > 0
    /\ Busy(t) => task[t].attempt > 0 /\ Pos(t) <= Len(Batch[t][task[t].turn])
    /\ task[t].pc = "done" /\ task[t].turn > 0 =>
            Len(task[t].results) = Len(Batch[t][task[t].turn])
    /\ \A i \in DOMAIN task[t].results :
            task[t].results[i] = [id |-> Batch[t][task[t].turn][i].id, attempt |-> task[t].attempt]
    /\ history[t] \in Seq(Row(t))

Tracked ==
    /\ task \in [Tasks -> TaskState] /\ DOMAIN history = Tasks
    /\ \A t \in Tasks : OnTrack(t)
    /\ granted \subseteq Grantable /\ approved \subseteq asked

\* An entry point that another one leaves its calls to has none to leave them to.
LEMMA FallbackIsLast ==
    ASSUME NEW t \in Tasks, NEW e \in EntriesOf(t), e.fallback # None
    PROVE  e.fallback \in EntriesOf(t) /\ e.fallback \in EntryPoints
<1>1. Adapter[t] \in EntryPoints
  BY ToolsAssumption
<1>2. \A x \in EntryPoints :
        x.fallback \in {None, LlamaIndexCall, CrewRun}
  <2>1. /\ LangChainRun.fallback = None /\ LangChainArun.fallback = None
        /\ LangChainGuard.fallback = None /\ OpenAIInvoke.fallback = None
        /\ AutoGenCall.fallback = None /\ LlamaIndexCall.fallback = None
        /\ CrewRun.fallback = None
    BY DEF LangChainRun, LangChainArun, LangChainGuard, OpenAIInvoke, AutoGenCall, LlamaIndexCall,
           CrewRun, Direct
  <2>2. LangGraphCall.fallback = None /\ LangGraphAinvoke.fallback = None
    BY DEF LangGraphCall, LangGraphAinvoke, Direct
  <2>3. PydanticCall.fallback = None /\ McpCallTool.fallback = None
    BY DEF PydanticCall, AutoGenCall, McpCallTool, Direct
  <2>4. LlamaIndexAcall.fallback = LlamaIndexCall /\ CrewArun.fallback = CrewRun
    <3>1. ASSUME NEW name, NEW methods, NEW f
          PROVE  [Direct(name, methods) EXCEPT !.fallback = f].fallback = f
      BY DEF Direct
    <3> QED BY <3>1, Zenon DEF LlamaIndexAcall, CrewArun
  <2> QED BY <2>1, <2>2, <2>3, <2>4, Zenon DEF EntryPoints
<1>3. LlamaIndexCall.fallback = None /\ CrewRun.fallback = None
  BY DEF LlamaIndexCall, CrewRun, Direct
<1>4. e = Adapter[t]
  BY <1>1, <1>2, <1>3 DEF EntriesOf
<1> QED BY <1>1, <1>2, <1>4 DEF EntriesOf, EntryPoints

\* The entry points that a call can go through are all known.
LEMMA EntriesKnown ==
    ASSUME NEW t \in Tasks
    PROVE  EntriesOf(t) \subseteq EntryPoints /\ Adapter[t] \in EntriesOf(t)
<1>1. Adapter[t] \in EntryPoints /\ None \notin EntryPoints
  BY ToolsAssumption
<1>2. Adapter[t] \in EntriesOf(t)
  BY <1>1 DEF EntriesOf
<1>3. Adapter[t].fallback # None => Adapter[t].fallback \in EntryPoints
  BY <1>2, FallbackIsLast
<1> QED BY <1>1, <1>2, <1>3 DEF EntriesOf

\* What a step of one task does to the others: nothing.
Alone(t) ==
    \A u \in Tasks \ {t} : task'[u] = task[u] /\ history'[u] = history[u]

\* What steps of a task have in common ...
LEMMA OneTask ==
    ASSUME Tracked, NEW t \in Tasks, NEW x \in TaskState, task' = [task EXCEPT ![t] = x],
           history' \in {history, [history EXCEPT ![t] = history'[t]]},
           OnTrack(t)', granted' \subseteq Grantable, approved' \subseteq asked'
    PROVE  Tracked' /\ Alone(t) /\ task'[t] = x
<1>1. task' \in [Tasks -> TaskState] /\ task'[t] = x /\ DOMAIN history' = Tasks /\ Alone(t)
  BY DEF Tracked, Alone
<1>2. ASSUME NEW u \in Tasks \ {t} PROVE OnTrack(u)'
  BY <1>1, <1>2 DEF Alone, Tracked, OnTrack, Busy, Pos
<1> QED BY <1>1, <1>2 DEF Tracked

\* What a row of the audit trail, or of the host's log, says of the call at hand.
Noted(t, what) ==
    [what |-> what, attempt |-> task[t].attempt, pos |-> Pos(t), entry |-> task[t].entry.name]

\* The call at hand may be noted.
LEMMA NotedIsRow ==
    ASSUME Tracked, NEW t \in Tasks, Busy(t), NEW what \in {"authorized", "refused", "ran"}
    PROVE  /\ Noted(t, what) \in Row(t)
           /\ history[t] \in Seq(Row(t)) /\ Append(history[t], Noted(t, what)) \in Seq(Row(t))
<1>1. OnTrack(t) /\ task[t] \in TaskState /\ MaxAttempts[t] \in Nat
  BY ToolsAssumption DEF Tracked
<1>2. Pos(t) \in Nat \ {0}
  BY <1>1 DEF TaskState, Pos
<1>3. task[t].attempt \in 1..MaxAttempts[t] /\ task[t].entry \in EntriesOf(t)
  BY <1>1 DEF OnTrack
<1>4. Noted(t, what) \in Row(t)
  BY <1>2, <1>3 DEF Noted, Row
<1> QED BY <1>1, <1>4 DEF OnTrack

\* An invocation starts.
Entered(t) ==
    /\ ~ Busy(t) /\ UNCHANGED history
    /\ task'[t].pc \in {"check", "done"}
    /\ task'[t].attempt = task[t].attempt + 1 /\ task'[t].results = <<>>

\* It goes on, or ends in an exception, as it is or with a row that is added.
Stayed(t, what) ==
    /\ task'[t].attempt = task[t].attempt
    /\ history' = IF what = "nothing" THEN history
                  ELSE [history EXCEPT ![t] = Append(@, Noted(t, what))]

Allowed(t) == task[t].pc = "check" /\ Stayed(t, "authorized")
               /\ task'[t].pc = "run" /\ task'[t].entry = task[t].entry
               /\ task'[t].results = task[t].results
Refused(t) == task[t].pc = "check" /\ Stayed(t, "refused") /\ task'[t].pc = "refused"
Raised(t) == /\ Busy(t) /\ task'[t].pc = "raised"
             /\ Stayed(t, "nothing") \/ (task[t].pc = "run" /\ Stayed(t, "ran"))
Ran(t) == /\ task[t].pc = "run" /\ Stayed(t, "ran") /\ task'[t].pc \in {"check", "done"}
          /\ Len(task'[t].results) = Len(task[t].results) + 1
FellBack(t) == task[t].pc = "run" /\ Stayed(t, "nothing") /\ task'[t].pc = "check"
               /\ task'[t].results = task[t].results

\* The agent's next message, or a retry.
LEMMA EnterSteps ==
    ASSUME Tracked, NEW t \in Tasks, NextTurn(t) \/ Retry(t)
    PROVE  Tracked' /\ Alone(t) /\ Entered(t)
<1>1. PICK turn \in {task[t].turn, task[t].turn + 1} :
        Enter(t, turn) /\ turn \in 1..Len(Turns[t]) /\ ~ Busy(t)
  <2>1. task[t].turn \in 0..Len(Turns[t]) /\ Len(Turns[t]) \in Nat
    BY ToolsAssumption DEF Tracked, OnTrack
  <2>2. CASE NextTurn(t)
    <3>1. task[t].turn + 1 \in 1..Len(Turns[t])
      BY <2>1, <2>2 DEF NextTurn
    <3> QED BY <2>2, <3>1 DEF NextTurn, Busy
  <2>3. CASE Retry(t)
    <3>1. task[t].turn # 0
      BY <2>3 DEF Retry, Tracked, OnTrack
    <3> QED BY <2>1, <2>3, <3>1 DEF Retry, Busy
  <2> QED BY <2>2, <2>3
<1> DEFINE batch == Batch[t][turn]
           x == [pc |-> IF batch = <<>> THEN "done" ELSE "check", entry |-> Adapter[t],
                 turn |-> turn, attempt |-> task[t].attempt + 1, results |-> <<>>]
<1>2. /\ task' = [task EXCEPT ![t] = x] /\ UNCHANGED <<granted, asked, approved, history>>
      /\ task[t].attempt < MaxAttempts[t]
  BY <1>1 DEF Enter
<1>3. /\ task[t] \in TaskState /\ task[t].attempt \in 0..MaxAttempts[t] /\ MaxAttempts[t] \in Nat
      /\ turn \in Nat /\ history[t] \in Seq(Row(t)) /\ Adapter[t] \in EntryPoints
      /\ Adapter[t] \in EntriesOf(t)
  BY <1>1, EntriesKnown, ToolsAssumption DEF Tracked, OnTrack, TaskState
<1>4. x \in TaskState
  BY <1>2, <1>3 DEF TaskState, Pcs
<1>5. /\ Len(batch) \in Nat
      /\ IF batch = <<>> THEN Len(batch) = 0 ELSE 1 <= Len(batch)
  <2>1. batch \in Seq({batch[i] : i \in DOMAIN batch})
    BY <1>1, BatchIsList
  <2> DEFINE S == {batch[i] : i \in DOMAIN batch}
  <2> HIDE DEF S
  <2>2. batch \in Seq(S)
    BY <2>1 DEF S
  <2> HIDE DEF batch
  <2> QED BY <2>2
<1>6. task'[t] = x
  BY <1>2 DEF Tracked
<1>7. OnTrack(t)'
  <2>1. /\ task'[t].pc \in {"done", "check"} /\ task'[t].entry = Adapter[t]
        /\ task'[t].turn = turn /\ task'[t].attempt = task[t].attempt + 1
        /\ task'[t].results = <<>> /\ (task'[t].pc = "done" <=> batch = <<>>)
    BY <1>6
  <2> QED BY <1>1, <1>2, <1>3, <1>5, <2>1 DEF OnTrack, Busy, Pos
<1>8. Tracked' /\ Alone(t)
  <2>1. granted' \subseteq Grantable /\ approved' \subseteq asked'
    BY <1>2 DEF Tracked
  <2> HIDE DEF x
  <2> QED BY <1>2, <1>4, <1>7, <2>1, OneTask
<1> QED BY <1>1, <1>2, <1>6, <1>8 DEF Entered

\* Noting a call leaves a list of rows.
LEMMA NoteEffect ==
    ASSUME Tracked, NEW t \in Tasks,
           \/ Stayed(t, "nothing")
           \/ Busy(t) /\ \E what \in {"authorized", "refused", "ran"} : Stayed(t, what)
    PROVE  /\ history' \in {history, [history EXCEPT ![t] = history'[t]]}
           /\ history'[t] \in Seq(Row(t))
<1>1. CASE Stayed(t, "nothing")
  BY <1>1 DEF Stayed, Tracked, OnTrack
<1>2. ASSUME Busy(t), NEW what \in {"authorized", "refused", "ran"}, Stayed(t, what)
      PROVE  /\ history' = [history EXCEPT ![t] = history'[t]]
             /\ history'[t] \in Seq(Row(t))
  <2>1. history' = [history EXCEPT ![t] = Append(history[t], Noted(t, what))]
    BY <1>2 DEF Stayed
  <2>2. history'[t] = Append(history[t], Noted(t, what))
    BY <2>1 DEF Tracked
  <2> QED BY <1>2, <2>1, <2>2, NotedIsRow
<1> QED BY <1>1, <1>2

\* An exception: the call is no longer at hand.
LEMMA RaiseEffect ==
    ASSUME Tracked, NEW t \in Tasks, Busy(t), NEW pc \in {"refused", "raised"}, Raise(t, pc),
           \/ Stayed(t, "nothing")
           \/ \E what \in {"authorized", "refused", "ran"} : Stayed(t, what),
           UNCHANGED <<granted, approved>>, asked \subseteq asked'
    PROVE  Tracked' /\ Alone(t) /\ task'[t].pc = pc
<1> DEFINE x == [task[t] EXCEPT !.pc = pc, !.results = <<>>]
<1>1. task[t] \in TaskState /\ OnTrack(t)
  BY DEF Tracked
<1>2. x \in TaskState /\ task' = [task EXCEPT ![t] = x]
  <2>1. <<>> \in Seq(Result) /\ pc \in Pcs
    BY DEF Pcs
  <2>2. x \in TaskState
    BY <1>1, <2>1 DEF TaskState
  <2>3. task' = [task EXCEPT ![t].pc = pc, ![t].results = <<>>] /\ task \in [Tasks -> TaskState]
    BY DEF Raise, Tracked
  <2>4. task' = [task EXCEPT ![t] = x]
    BY <2>3 DEF TaskState
  <2> QED BY <2>2, <2>4
<1>3. task'[t] = x
  BY <1>2 DEF Tracked
<1>4. /\ task'[t].pc = pc /\ task'[t].results = <<>> /\ task'[t].turn = task[t].turn
      /\ task'[t].attempt = task[t].attempt /\ task'[t].entry = task[t].entry
  BY <1>1, <1>3 DEF TaskState
<1>5. OnTrack(t)'
  BY <1>1, <1>4, NoteEffect DEF OnTrack, Busy, Pos
<1>6. granted' \subseteq Grantable /\ approved' \subseteq asked'
  BY DEF Tracked
<1> HIDE DEF x
<1> QED BY <1>2, <1>4, <1>5, <1>6, NoteEffect, OneTask

\* The gate's answer, or an exception before there is one.
LEMMA CheckSteps ==
    ASSUME Tracked, NEW t \in Tasks, Check(t) \/ CheckFails(t)
    PROVE  Tracked' /\ Alone(t) /\ (Allowed(t) \/ Refused(t) \/ Raised(t))
<1>1. /\ task[t].pc = "check" /\ Busy(t) /\ task[t] \in TaskState /\ OnTrack(t)
      /\ UNCHANGED <<granted, approved>> /\ asked \subseteq asked'
  BY DEF Check, CheckFails, Busy, Tracked
<1>2. CASE Check(t) /\ Cleared(t)
  <2> DEFINE x == [task[t] EXCEPT !.pc = "run"]
  <2>1. x \in TaskState /\ task' = [task EXCEPT ![t] = x]
    BY <1>1, <1>2 DEF Check, TaskState, Pcs
  <2>2. task'[t] = x
    BY <2>1 DEF Tracked
  <2>3. /\ task'[t].pc = "run" /\ task'[t].results = task[t].results
        /\ task'[t].turn = task[t].turn /\ task'[t].attempt = task[t].attempt
        /\ task'[t].entry = task[t].entry
    BY <1>1, <2>2 DEF TaskState
  <2>4. Stayed(t, "authorized")
    BY <1>2, <2>3 DEF Check, Note, Noted, Stayed
  <2>5. OnTrack(t)'
    BY <1>1, <2>3, <2>4, NoteEffect DEF OnTrack, Busy, Pos
  <2>6. granted' \subseteq Grantable /\ approved' \subseteq asked'
    BY <1>1 DEF Tracked
  <2> HIDE DEF x
  <2> QED BY <1>1, <2>1, <2>3, <2>4, <2>5, <2>6, NoteEffect, OneTask DEF Allowed
<1>3. CASE Check(t) /\ ~ Cleared(t)
  <2>1. Raise(t, "refused") /\ Note(t, "refused")
    BY <1>3 DEF Check
  <2>2. Stayed(t, "refused")
    <3>1. task'[t].attempt = task[t].attempt
      BY <1>1, <2>1 DEF Raise, Tracked, TaskState
    <3> QED BY <2>1, <3>1 DEF Note, Noted, Stayed
  <2> QED BY <1>1, <2>1, <2>2, RaiseEffect DEF Refused
<1>4. CASE CheckFails(t)
  <2>1. Raise(t, "raised") /\ UNCHANGED history
    BY <1>4 DEF CheckFails
  <2>2. Stayed(t, "nothing")
    <3>1. task'[t].attempt = task[t].attempt
      BY <1>1, <2>1 DEF Raise, Tracked, TaskState
    <3> QED BY <2>1, <3>1 DEF Stayed
  <2>3. Tracked' /\ Alone(t) /\ task'[t].pc = "raised"
    BY <1>1, <2>1, <2>2, RaiseEffect
  <2> QED BY <1>1, <2>2, <2>3 DEF Raised
<1> QED BY <1>2, <1>3, <1>4

\* The tool's return, its exception, or the lack of a way to call it.
LEMMA RunSteps ==
    ASSUME Tracked, NEW t \in Tasks, Run(t) \/ RunFails(t) \/ FallBack(t) \/ GiveUp(t)
    PROVE  Tracked' /\ Alone(t) /\ (Ran(t) \/ Raised(t) \/ FellBack(t))
<1>1. /\ task[t].pc = "run" /\ Busy(t) /\ task[t] \in TaskState /\ OnTrack(t)
      /\ UNCHANGED <<granted, asked, approved>>
      /\ granted' \subseteq Grantable /\ approved' \subseteq asked'
  BY DEF Run, RunFails, FallBack, GiveUp, Busy, Tracked
<1>2. CASE Run(t)
  <2> DEFINE batch == Batch[t][task[t].turn]
             result == [id |-> Call(t).id, attempt |-> task[t].attempt]
             x == [task[t] EXCEPT !.pc = IF Pos(t) = Len(batch) THEN "done" ELSE "check",
                                  !.results = Append(task[t].results, result)]
  <2>1. task' = [task EXCEPT ![t] = x] /\ Note(t, "ran")
    BY <1>1, <1>2 DEF Run, TaskState
  <2>2. /\ task[t].results \in Seq(Result) /\ task[t].turn \in Nat /\ task[t].attempt \in Nat
        /\ Pos(t) \in Nat
    BY <1>1 DEF TaskState, Pos
  <2>3. result \in Result /\ result = [id |-> batch[Pos(t)].id, attempt |-> task[t].attempt]
    BY <2>2 DEF Call, Result, Ids
  <2>4. /\ Append(task[t].results, result) \in Seq(Result)
        /\ Len(Append(task[t].results, result)) = Pos(t)
        /\ DOMAIN Append(task[t].results, result) = 1..Pos(t)
        /\ \A i \in DOMAIN Append(task[t].results, result) :
            Append(task[t].results, result)[i] = [id |-> batch[i].id, attempt |-> task[t].attempt]
    <3> HIDE DEF result
    <3>1. \A i \in DOMAIN task[t].results :
            task[t].results[i] = [id |-> batch[i].id, attempt |-> task[t].attempt]
      BY <1>1 DEF OnTrack
    <3> DEFINE r == task[t].results
    <3>2. /\ r \in Seq(Result) /\ Len(r) \in Nat /\ DOMAIN r = 1..Len(r) /\ Pos(t) = Len(r) + 1
      BY <2>2 DEF Pos
    <3> HIDE DEF r
    <3>3. /\ Append(r, result) \in Seq(Result) /\ Len(Append(r, result)) = Len(r) + 1
          /\ DOMAIN Append(r, result) = 1..(Len(r) + 1)
          /\ Append(r, result)[Len(r) + 1] = result
          /\ \A i \in 1..Len(r) : Append(r, result)[i] = r[i]
      BY <2>3, <3>2
    <3>4. ASSUME NEW i \in 1..(Len(r) + 1)
          PROVE  Append(r, result)[i] = [id |-> batch[i].id, attempt |-> task[t].attempt]
      <4>1. CASE i = Len(r) + 1
        BY <2>3, <3>2, <3>3, <4>1
      <4>2. CASE i \in 1..Len(r)
        BY <3>1, <3>2, <3>3, <4>2 DEF r
      <4> QED BY <3>2, <4>1, <4>2
    <3> QED BY <3>2, <3>3, <3>4 DEF r
  <2>5. x \in TaskState /\ task'[t] = x
    BY <1>1, <2>1, <2>4 DEF Tracked, TaskState, Pcs
  <2>6. /\ task'[t].pc = IF Pos(t) = Len(batch) THEN "done" ELSE "check"
        /\ task'[t].results = Append(task[t].results, result)
        /\ task'[t].turn = task[t].turn /\ task'[t].attempt = task[t].attempt
        /\ task'[t].entry = task[t].entry
    BY <1>1, <2>5 DEF TaskState
  <2>7. Stayed(t, "ran")
    BY <2>1, <2>6 DEF Note, Noted, Stayed
  <2>8. Len(batch) \in Nat
    <3>1. task[t].turn \in 1..Len(Turns[t])
      BY <1>1, <2>2, ToolsAssumption DEF OnTrack
    <3>2. batch \in Seq({batch[i] : i \in DOMAIN batch})
      BY <3>1, BatchIsList
    <3> DEFINE S == {batch[i] : i \in DOMAIN batch}
    <3> HIDE DEF S
    <3>3. batch \in Seq(S)
      BY <3>2 DEF S
    <3> HIDE DEF batch
    <3> QED BY <3>3
  <2> HIDE DEF batch, result
  <2>9. OnTrack(t)'
    <3>1. history'[t] \in Seq(Row(t))
      BY <1>1, <2>7, NoteEffect
    <3>2. Pos(t) <= Len(batch) /\ task[t].turn > 0 /\ task[t].attempt > 0
      BY <1>1 DEF OnTrack, batch
    <3>3. /\ Len(task'[t].results) = Pos(t) /\ DOMAIN task'[t].results = 1..Pos(t)
          /\ Batch[t][task'[t].turn] = batch
      BY <2>4, <2>6 DEF batch
    <3>4. \A i \in DOMAIN task'[t].results :
            task'[t].results[i] = [id |-> Batch[t][task'[t].turn][i].id, attempt |-> task'[t].attempt]
      BY <2>4, <2>6, <3>3
    <3>5. Busy(t)' => Pos(t)' <= Len(batch)
      BY <2>2, <2>6, <2>8, <3>2, <3>3 DEF Busy, Pos
    <3> QED BY <1>1, <2>6, <3>1, <3>2, <3>3, <3>4, <3>5 DEF OnTrack, Busy
  <2>10. Len(task'[t].results) = Len(task[t].results) + 1
    BY <2>4, <2>6 DEF Pos
  <2> HIDE DEF x
  <2> QED BY <1>1, <2>1, <2>5, <2>6, <2>7, <2>9, <2>10, NoteEffect, OneTask DEF Ran
<1>3. CASE RunFails(t) \/ GiveUp(t)
  <2>1. Raise(t, "raised") /\ (Note(t, "ran") \/ UNCHANGED history)
    BY <1>3 DEF RunFails, GiveUp
  <2>2. Stayed(t, "nothing") \/ Stayed(t, "ran")
    <3>1. task'[t].attempt = task[t].attempt
      BY <1>1, <2>1 DEF Raise, Tracked, TaskState
    <3> QED BY <2>1, <3>1 DEF Note, Noted, Stayed
  <2>3. \E what \in {"authorized", "refused", "ran"} : Stayed(t, what) \/ Stayed(t, "nothing")
    BY <2>2
  <2>4. Tracked' /\ Alone(t) /\ task'[t].pc = "raised"
    BY <1>1, <2>1, <2>2, <2>3, RaiseEffect
  <2> QED BY <1>1, <2>2, <2>4 DEF Raised
<1>4. CASE FallBack(t)
  <2> DEFINE x == [task[t] EXCEPT !.pc = "check", !.entry = task[t].entry.fallback]
  <2>1. /\ task' = [task EXCEPT ![t] = x] /\ UNCHANGED history
        /\ task[t].entry.fallback # None
    BY <1>1, <1>4 DEF FallBack, TaskState
  <2>2. task[t].entry.fallback \in EntriesOf(t) /\ task[t].entry.fallback \in EntryPoints
    BY <1>1, <2>1, FallbackIsLast DEF OnTrack
  <2>3. x \in TaskState /\ task'[t] = x
    BY <1>1, <2>1, <2>2 DEF TaskState, Pcs, Tracked
  <2>4. /\ task'[t].pc = "check" /\ task'[t].results = task[t].results
        /\ task'[t].turn = task[t].turn /\ task'[t].attempt = task[t].attempt
        /\ task'[t].entry = task[t].entry.fallback
    BY <1>1, <2>3 DEF TaskState
  <2>5. Stayed(t, "nothing")
    BY <2>1, <2>4 DEF Stayed
  <2>6. OnTrack(t)'
    BY <1>1, <2>1, <2>2, <2>4 DEF OnTrack, Busy, Pos
  <2> HIDE DEF x
  <2> QED BY <1>1, <2>1, <2>3, <2>4, <2>5, <2>6, OneTask DEF FellBack
<1> QED BY <1>2, <1>3, <1>4

\* How a task moves on.
Moved(t) == Entered(t) \/ Allowed(t) \/ Refused(t) \/ Raised(t) \/ Ran(t) \/ FellBack(t)

\* The invariant holds at first ...
LEMMA InitTracked == Init => Tracked
<1> SUFFICES ASSUME Init PROVE Tracked
  OBVIOUS
<1>1. ASSUME NEW t \in Tasks PROVE OnTrack(t) /\ task[t] \in TaskState
  <2>1. /\ task[t] = [pc |-> "done", entry |-> Adapter[t], turn |-> 0, attempt |-> 0, results |-> <<>>]
        /\ history[t] = <<>>
    BY DEF Init
  <2>2. /\ Len(Turns[t]) \in Nat /\ MaxAttempts[t] \in Nat
        /\ Adapter[t] \in EntriesOf(t) /\ Adapter[t] \in EntryPoints
    BY EntriesKnown, ToolsAssumption
  <2>3. task[t] \in TaskState
    BY <2>1, <2>2 DEF TaskState, Pcs
  <2> QED BY <2>1, <2>2, <2>3 DEF OnTrack, Busy
<1>2. task \in [Tasks -> TaskState] /\ DOMAIN history = Tasks
  BY <1>1 DEF Init
<1> QED BY <1>1, <1>2 DEF Init, Tracked

\* ... and after every step, which moves one task on at most.
LEMMA NextTracked ==
    ASSUME Tracked, [Next]_vars
    PROVE  /\ Tracked'
           /\ UNCHANGED <<task, history>> \/ \E t \in Tasks : Alone(t) /\ Moved(t)
<1>1. CASE UNCHANGED <<task, history>> /\ granted' \subseteq Grantable /\ approved' \subseteq asked'
  BY <1>1 DEF Tracked, OnTrack, Busy, Pos
<1>2. ASSUME NEW cap \in Grantable, Grant(cap) \/ Lapse(cap)
      PROVE  UNCHANGED <<task, history>> /\ granted' \subseteq Grantable /\ approved' \subseteq asked'
  BY <1>2 DEF Grant, Lapse, Tracked
<1>3. ASSUME NEW key \in asked, Approve(key) \/ Withdraw(key)
      PROVE  UNCHANGED <<task, history>> /\ granted' \subseteq Grantable /\ approved' \subseteq asked'
  BY <1>3 DEF Approve, Withdraw, Tracked
<1>4. CASE UNCHANGED vars
  BY <1>1, <1>4 DEF vars, Tracked
<1>5. ASSUME NEW t \in Tasks, NextTurn(t) \/ Retry(t) \/ Proceed(t) \/ CheckFails(t) \/ RunFails(t)
      PROVE  Tracked' /\ Alone(t) /\ Moved(t)
  BY <1>5, EnterSteps, CheckSteps, RunSteps DEF Proceed, Moved
<1> QED BY <1>1, <1>2, <1>3, <1>4, <1>5 DEF Next

\* The task at hand is always one of the calls that the agent has made so far, and goes
\* through an entry point of its framework.
THEOREM TypeCorrect == Spec => []TypeOK
<1>1. ASSUME Tracked PROVE TypeOK
  <2>1. ASSUME NEW t \in Tasks, Busy(t) PROVE Pos(t) \in DOMAIN Batch[t][task[t].turn]
    <3> DEFINE batch == Batch[t][task[t].turn]
               S == {batch[i] : i \in DOMAIN batch}
    <3>1. task[t].turn \in 1..Len(Turns[t]) /\ Pos(t) \in Nat \ {0} /\ Pos(t) <= Len(batch)
      <4>1. task[t] \in TaskState /\ OnTrack(t) /\ Len(Turns[t]) \in Nat
        BY <1>1, ToolsAssumption DEF Tracked
      <4>2. Pos(t) \in Nat \ {0} /\ task[t].turn \in Nat
        BY <4>1 DEF TaskState, Pos
      <4> QED BY <2>1, <4>1, <4>2 DEF OnTrack, Busy
    <3>2. batch \in Seq(S)
      BY <3>1, BatchIsList
    <3> HIDE DEF S, batch
    <3>3. Len(batch) \in Nat /\ DOMAIN batch = 1..Len(batch)
      BY <3>2
    <3> QED BY <3>1, <3>3 DEF batch
  <2>2. ASSUME NEW t \in Tasks
        PROVE  /\ task[t].pc \in {"check", "run", "done", "refused", "raised"}
               /\ task[t].turn \in 0..Len(Turns[t])
               /\ task[t].attempt \in 0..MaxAttempts[t]
               /\ task[t].entry \in EntriesOf(t)
               /\ history[t] \in Seq(Row(t))
    BY <1>1 DEF Tracked, OnTrack, TaskState, Pcs
  <2> QED BY <1>1, <2>1, <2>2 DEF Tracked, TypeOK, Row
<1>2. Tracked /\ [Next]_vars => Tracked'
  BY NextTracked
<1> QED BY <1>1, <1>2, InitTracked, PTL DEF Spec

\* An invocation that returns has a result for each of its calls, in their order, and none
\* from an earlier invocation.
THEOREM ResultsAreOfThisInvocation == Spec => []ResultsMatchCalls
<1>1. ASSUME Tracked PROVE ResultsMatchCalls
  <2> SUFFICES ASSUME NEW t \in Tasks, task[t].pc = "done", task[t].turn > 0
               PROVE  task[t].results =
                        [i \in DOMAIN Batch[t][task[t].turn] |->
                            [id |-> Batch[t][task[t].turn][i].id, attempt |-> task[t].attempt]]
    BY DEF ResultsMatchCalls
  <2> DEFINE batch == Batch[t][task[t].turn]
             S == {batch[i] : i \in DOMAIN batch}
             r == task[t].results
  <2>1. /\ task[t].turn \in 1..Len(Turns[t]) /\ r \in Seq(Result) /\ Len(r) = Len(batch)
        /\ \A i \in DOMAIN r : r[i] = [id |-> batch[i].id, attempt |-> task[t].attempt]
    BY <1>1, ToolsAssumption DEF Tracked, OnTrack, TaskState
  <2>2. batch \in Seq(S)
    BY <2>1, BatchIsList
  <2> HIDE DEF S, batch, r
  <2>3. DOMAIN r = 1..Len(r) /\ DOMAIN batch = 1..Len(batch) /\ r = [i \in DOMAIN r |-> r[i]]
    BY <2>1, <2>2
  <2>4. r = [i \in DOMAIN batch |-> [id |-> batch[i].id, attempt |-> task[t].attempt]]
    BY <2>1, <2>3
  <2> QED BY <2>4 DEF r, batch
<1>2. Tracked /\ [Next]_vars => Tracked'
  BY NextTracked
<1> QED BY <1>1, <1>2, InitTracked, PTL DEF Spec

-----------------------------------------------------------------------------
(* One by one *)

\* What OneByOne asks of a row: it follows from the rows before it.
InOrder(rows, i) ==
    LET h == rows[i]
        earlier == {j \in 1..(i - 1) : rows[j].attempt = h.attempt}
    IN  /\ h.what = "ran" =>
            i > 1 /\ rows[i - 1].what = "authorized" /\ Same(rows[i - 1], h)
        /\ h.what # "ran" /\ h.pos > 1 =>
            \E j \in earlier : rows[j].what = "ran" /\ rows[j].pos = h.pos - 1
        /\ \A j \in earlier : rows[j].what # "refused"

\* The rows are in order, and the call at hand may be next: its invocation has had no
\* refusal, the call before it has run, and if it is about to run it was authorized last.
Ordered(t) ==
    /\ \A i \in DOMAIN history[t] : InOrder(history[t], i)
    /\ \A i \in DOMAIN history[t] : history[t][i].attempt <= task[t].attempt
    /\ Busy(t) =>
        /\ \A j \in DOMAIN history[t] :
            history[t][j].attempt = task[t].attempt => history[t][j].what # "refused"
        /\ Pos(t) > 1 =>
            \E j \in DOMAIN history[t] :
                /\ history[t][j].attempt = task[t].attempt
                /\ history[t][j].what = "ran" /\ history[t][j].pos = Pos(t) - 1
    /\ task[t].pc = "run" =>
        Len(history[t]) > 0 /\ history[t][Len(history[t])] = Noted(t, "authorized")

\* The call at hand may be noted: authorized or refused before it runs, and run after it
\* was authorized.
LEMMA NotedInOrder ==
    ASSUME Tracked, NEW t \in Tasks, Ordered(t), Busy(t),
           NEW what \in {"authorized", "refused", "ran"},
           what = "ran" => task[t].pc = "run", Stayed(t, what)
    PROVE  LET n == Len(history[t])
           IN  /\ n \in Nat /\ DOMAIN history[t] = 1..n /\ DOMAIN history'[t] = 1..(n + 1)
               /\ Len(history'[t]) = n + 1
               /\ \A i \in 1..n : history'[t][i] = history[t][i]
               /\ history'[t][n + 1] = Noted(t, what)
               /\ \A i \in DOMAIN history'[t] : InOrder(history'[t], i)
               /\ \A i \in DOMAIN history'[t] : history'[t][i].attempt <= task'[t].attempt
<1> DEFINE h == history[t]
           g == history'[t]
           new == Noted(t, what)
           n == Len(history[t])
<1>1. /\ h \in Seq(Row(t)) /\ new \in Row(t) /\ task[t].attempt \in Nat /\ Pos(t) \in Nat \ {0}
      /\ task'[t].attempt = task[t].attempt
  BY NotedIsRow DEF Tracked, TaskState, Pos, Stayed
<1>2. g = Append(h, new)
  BY DEF Stayed, Tracked
<1>3. new.what = what /\ new.attempt = task[t].attempt /\ new.pos = Pos(t)
  BY DEF Noted
<1> HIDE DEF new, h, g
<1>4. /\ Len(h) \in Nat /\ DOMAIN h = 1..Len(h) /\ DOMAIN g = 1..(Len(h) + 1)
      /\ Len(g) = Len(h) + 1
      /\ \A i \in 1..Len(h) : g[i] = h[i]
      /\ g[Len(h) + 1] = new
  BY <1>1, <1>2
<1>5. \A i \in DOMAIN h : InOrder(h, i) /\ h[i].attempt <= task[t].attempt
  BY DEF Ordered, h
<1>6. ASSUME NEW i \in 1..Len(h) PROVE InOrder(g, i)
  <2>1. InOrder(h, i) /\ g[i] = h[i] /\ \A j \in 1..(i - 1) : g[j] = h[j]
    BY <1>4, <1>5
  <2>2. i > 1 => i - 1 \in 1..(i - 1)
    OBVIOUS
  <2> QED BY <2>1, <2>2 DEF InOrder, Same
<1>7. ASSUME NEW i \in {Len(h) + 1} PROVE InOrder(g, i)
  <2>1. /\ \A j \in 1..Len(h) : h[j].attempt = task[t].attempt => h[j].what # "refused"
        /\ Pos(t) > 1 => \E j \in 1..Len(h) :
                /\ h[j].attempt = task[t].attempt /\ h[j].what = "ran" /\ h[j].pos = Pos(t) - 1
    BY <1>4 DEF Ordered, h
  <2>2. what = "ran" => Len(h) > 0 /\ h[Len(h)] = Noted(t, "authorized")
    BY DEF Ordered, h
  <2>3. what = "ran" =>
            /\ i > 1 /\ g[i - 1] = h[Len(h)] /\ h[Len(h)].what = "authorized"
            /\ Same(h[Len(h)], new)
    BY <1>4, <2>2 DEF Noted, Same, new
  <2>4. g[i] = new /\ \A j \in 1..(i - 1) : j \in 1..Len(h) /\ g[j] = h[j]
    BY <1>4
  <2>5. \A j \in 1..Len(h) : j \in 1..(i - 1)
    BY <1>4
  <2> QED BY <1>3, <2>1, <2>3, <2>4, <2>5 DEF InOrder
<1>8. \A i \in DOMAIN g : InOrder(g, i) /\ g[i].attempt <= task'[t].attempt
  BY <1>1, <1>3, <1>4, <1>5, <1>6, <1>7
<1> QED BY <1>4, <1>8 DEF h, g, new

\* A task that moves on keeps its rows in order.
LEMMA MovedInOrder ==
    ASSUME Tracked, Tracked', NEW t \in Tasks, Ordered(t), Moved(t)
    PROVE  Ordered(t)'
<1>0. /\ task[t] \in TaskState /\ task'[t] \in TaskState /\ DOMAIN history[t] = 1..Len(history[t])
      /\ Len(history[t]) \in Nat /\ task[t].attempt \in Nat /\ Pos(t) \in Nat \ {0}
      /\ \A i \in DOMAIN history[t] : history[t][i] \in Row(t)
  <2>1. task[t] \in TaskState /\ task'[t] \in TaskState /\ history[t] \in Seq(Row(t))
    BY DEF Tracked, OnTrack
  <2>2. task[t].attempt \in Nat /\ Pos(t) \in Nat \ {0}
    BY <2>1 DEF TaskState, Pos
  <2> QED BY <2>1, <2>2
<1>1. CASE Entered(t)
  <2>1. /\ history'[t] = history[t] /\ task'[t].pc \in {"check", "done"}
        /\ task'[t].attempt = task[t].attempt + 1 /\ Pos(t)' = 1
    BY <1>1 DEF Entered, Pos
  <2>2. \A i \in DOMAIN history[t] :
            history[t][i].attempt \in Nat /\ history[t][i].attempt < task'[t].attempt
    BY <1>0, <2>1, ToolsAssumption DEF Ordered, Row
  <2>3. \A i \in DOMAIN history[t] :
            /\ history[t][i].attempt <= task'[t].attempt
            /\ history[t][i].attempt # task'[t].attempt
    BY <1>0, <2>1, <2>2
  <2> QED BY <2>1, <2>3 DEF Ordered
<1>2. CASE Allowed(t)
  <2>1. /\ task[t].pc = "check" /\ Busy(t) /\ Stayed(t, "authorized") /\ task'[t].pc = "run"
        /\ task'[t].attempt = task[t].attempt
        /\ Pos(t)' = Pos(t) /\ Noted(t, "authorized")' = Noted(t, "authorized")
    BY <1>2 DEF Allowed, Stayed, Busy, Noted, Pos
  <2> DEFINE n == Len(history[t])
  <2>2. /\ DOMAIN history'[t] = 1..(n + 1) /\ Len(history'[t]) = n + 1
        /\ \A i \in 1..n : history'[t][i] = history[t][i]
        /\ history'[t][n + 1] = Noted(t, "authorized")
        /\ \A i \in DOMAIN history'[t] : InOrder(history'[t], i)
        /\ \A i \in DOMAIN history'[t] : history'[t][i].attempt <= task'[t].attempt
    BY <2>1, NotedInOrder
  <2>3. Noted(t, "authorized").what # "refused"
    BY DEF Noted
  <2>4. \A j \in DOMAIN history'[t] :
            history'[t][j].attempt = task[t].attempt => history'[t][j].what # "refused"
    BY <1>0, <2>1, <2>2, <2>3 DEF Ordered
  <2>5. Pos(t) > 1 =>
            \E j \in DOMAIN history'[t] :
                /\ history'[t][j].attempt = task[t].attempt
                /\ history'[t][j].what = "ran" /\ history'[t][j].pos = Pos(t) - 1
    <3> SUFFICES ASSUME Pos(t) > 1
                 PROVE  \E j \in DOMAIN history'[t] :
                            /\ history'[t][j].attempt = task[t].attempt
                            /\ history'[t][j].what = "ran" /\ history'[t][j].pos = Pos(t) - 1
      OBVIOUS
    <3>1. PICK j \in DOMAIN history[t] :
            /\ history[t][j].attempt = task[t].attempt
            /\ history[t][j].what = "ran" /\ history[t][j].pos = Pos(t) - 1
      BY <2>1 DEF Ordered
    <3> QED BY <1>0, <2>2, <3>1
  <2>6. Len(history'[t]) > 0 /\ history'[t][Len(history'[t])] = Noted(t, "authorized")
    BY <1>0, <2>2
  <2> QED BY <2>1, <2>2, <2>4, <2>5, <2>6 DEF Ordered
<1>3. CASE Refused(t)
  <2>1. Busy(t) /\ Stayed(t, "refused") /\ task'[t].pc = "refused"
    BY <1>3 DEF Refused, Busy
  <2>2. /\ \A i \in DOMAIN history'[t] : InOrder(history'[t], i)
        /\ \A i \in DOMAIN history'[t] : history'[t][i].attempt <= task'[t].attempt
    BY <2>1, NotedInOrder
  <2> QED BY <2>1, <2>2 DEF Ordered, Busy
<1>4. CASE Raised(t)
  <2>1. Busy(t) /\ task'[t].pc = "raised" /\ task'[t].attempt = task[t].attempt
    BY <1>4 DEF Raised, Stayed
  <2>2. /\ \A i \in DOMAIN history'[t] : InOrder(history'[t], i)
        /\ \A i \in DOMAIN history'[t] : history'[t][i].attempt <= task'[t].attempt
    <3>1. CASE Stayed(t, "nothing")
      BY <2>1, <3>1 DEF Stayed, Ordered
    <3>2. CASE task[t].pc = "run" /\ Stayed(t, "ran")
      BY <2>1, <3>2, NotedInOrder
    <3> QED BY <1>4, <3>1, <3>2 DEF Raised
  <2> QED BY <2>1, <2>2 DEF Ordered, Busy
<1>5. CASE Ran(t)
  <2>1. /\ Busy(t) /\ task[t].pc = "run" /\ Stayed(t, "ran") /\ task'[t].pc \in {"check", "done"}
        /\ task'[t].attempt = task[t].attempt /\ Pos(t)' = Pos(t) + 1
    BY <1>5 DEF Ran, Busy, Stayed, Pos
  <2> DEFINE n == Len(history[t])
  <2>2. /\ DOMAIN history'[t] = 1..(n + 1)
        /\ \A i \in 1..n : history'[t][i] = history[t][i]
        /\ history'[t][n + 1] = Noted(t, "ran")
        /\ \A i \in DOMAIN history'[t] : InOrder(history'[t], i)
        /\ \A i \in DOMAIN history'[t] : history'[t][i].attempt <= task'[t].attempt
    BY <2>1, NotedInOrder
  <2>3. /\ Noted(t, "ran").what = "ran" /\ Noted(t, "ran").pos = Pos(t)
        /\ Noted(t, "ran").attempt = task[t].attempt
    BY DEF Noted
  <2>4. \A j \in DOMAIN history'[t] :
            history'[t][j].attempt = task[t].attempt => history'[t][j].what # "refused"
    <3>1. \A j \in 1..n :
            history[t][j].attempt = task[t].attempt => history[t][j].what # "refused"
      BY <1>0, <2>1 DEF Ordered
    <3>2. Noted(t, "ran").what # "refused"
      BY <2>3
    <3> QED BY <1>0, <2>2, <3>1, <3>2
  <2>5. \E j \in DOMAIN history'[t] :
            /\ history'[t][j].attempt = task[t].attempt
            /\ history'[t][j].what = "ran" /\ history'[t][j].pos = Pos(t)
    BY <1>0, <2>2, <2>3
  <2>6. Pos(t)' - 1 = Pos(t)
    BY <1>0, <2>1
  <2> QED BY <2>1, <2>2, <2>4, <2>5, <2>6 DEF Ordered
<1>6. CASE FellBack(t)
  <2>1. /\ Busy(t) /\ history'[t] = history[t] /\ task'[t].pc = "check"
        /\ task'[t].attempt = task[t].attempt /\ Pos(t)' = Pos(t)
    BY <1>6 DEF FellBack, Stayed, Busy, Pos
  <2> QED BY <2>1 DEF Ordered
<1> QED BY <1>1, <1>2, <1>3, <1>4, <1>5, <1>6 DEF Moved

\* Whatever is refused, raises, is retried or falls back to another entry point, a tool runs
\* right after its own call was authorized, and no call of a batch after a refusal.
THEOREM CallsGoOneByOne == Spec => []OneByOne
<1> DEFINE AllOrdered == \A t \in Tasks : Ordered(t)
<1>1. ASSUME Init PROVE AllOrdered
  <2>1. \A t \in Tasks : history[t] = <<>> /\ task[t].pc = "done"
    BY <1>1 DEF Init
  <2>2. DOMAIN <<>> = {}
    OBVIOUS
  <2> QED BY <2>1, <2>2, Zenon DEF Ordered, Busy
<1>2. AllOrdered => OneByOne
  BY DEF Ordered, InOrder, OneByOne
<1>3. ASSUME Tracked, AllOrdered, [Next]_vars PROVE Tracked' /\ AllOrdered'
  <2>1. Tracked'
    BY <1>3, NextTracked
  <2>2. CASE UNCHANGED <<task, history>>
    BY <1>3, <2>1, <2>2 DEF Ordered, Busy, Pos, Noted
  <2>3. ASSUME NEW t \in Tasks, Alone(t), Moved(t) PROVE AllOrdered'
    <3>1. Ordered(t)'
      BY <1>3, <2>1, <2>3, MovedInOrder
    <3>2. ASSUME NEW u \in Tasks \ {t} PROVE Ordered(u)'
      <4>1. task'[u] = task[u] /\ history'[u] = history[u] /\ Ordered(u)
        BY <1>3, <2>3 DEF Alone
      <4> QED BY <4>1 DEF Ordered, Busy, Pos, Noted
    <3> QED BY <3>1, <3>2
  <2> QED BY <1>3, <2>1, <2>2, <2>3, NextTracked
<1> QED BY <1>1, <1>2, <1>3, InitTracked, PTL DEF Spec
=============================================================================
