------------------------------- MODULE Replay -------------------------------
(***************************************************************************)
(* The replay engine (capfence/core/replay.py): it copies the approval     *)
(* store of a live runtime into a sandbox in memory, table by table, and   *)
(* runs the events of a trace through a runtime of the sandbox, one after  *)
(* the other, while the live store (the state of Approvals) keeps changing *)
(* and time passes.  No step of the replay writes the live store: replay.py *)
(* only ever executes in the sandbox.                                      *)
(***************************************************************************)
EXTENDS Approvals

CONSTANTS
    Traces,  \* what trace files hold: sequences of records [event, original, risk, keys,
             \* typed], `original` being the recorded outcome, "pass", "fail", None or
             \* something else that is not a string, `keys` the metadata keys the record
             \* brings along, and `typed` whether its values have the right types
    Mode,    \* the mode of the live runtime
    PolicyVerdict,     \* the verdicts of the live runtime's policy
    SimulatedVerdict,  \* the verdicts of the policy that simulate_policy loads
    DefaultTtl   \* request_approval's default expires_in

VARIABLES
    sandbox,   \* the copy: its tables approved_grants and approvals
    replay,    \* the replay: its progress, its trace, the runtime it clones, and the
               \* results so far
    approved   \* history: the live requests that were approved since the replay began

replayVars == <<vars, sandbox, replay, approved>>

ASSUME ReplayAssumption ==
    /\ \A t \in Traces : \A i \in DOMAIN t :
        /\ PolicyVerdict[t[i].event] \in PolicyVerdicts
        /\ SimulatedVerdict[t[i].event] \in PolicyVerdicts
        /\ t[i].original \in {"pass", "fail", None, "not_text"}
    /\ Mode \in {"enforce", "observe"}
    /\ DefaultTtl \in Nat \ {0}

\* The runtime of the engine, one with the policy of simulate_policy, or the one that an
\* engine makes for itself, which has no policy and the live approval store.
Runtimes == {"live", "simulated", "fallback"}

\* The same tables in the sandbox.
Sandbox == INSTANCE Approvals WITH grants <- sandbox.grants, requests <- sandbox.requests

ApprovedNow == {i \in DOMAIN requests : requests[i].status = "approved"}

\* _parse_event keeps every other key of the record as metadata.
ReplayAsk(item) ==
    LET ask == AskOf(item.event)
    IN  IF item.event.payload # None THEN ask ELSE [ask EXCEPT !.key = Append(@, item.keys)]

\* A record asks for what the agent may have asked for.
ASSUME TraceAssumption ==
    \A t \in Traces :
        /\ t \in Seq({t[i] : i \in DOMAIN t})
        /\ \A i \in DOMAIN t : ReplayAsk(t[i]) \in Asks

-----------------------------------------------------------------------------
(* _build_sandbox_runtime *)

\* load_trace: the file is not JSON, or its version or checksum is not accepted.
Reject ==
    /\ replay.pc = "idle"
    /\ replay' = [replay EXCEPT !.pc = "raised"]
    /\ UNCHANGED <<vars, sandbox, approved>>

\* replay_incident, which simulate_policy calls with a runtime of another policy.
Begin ==
    /\ replay.pc = "idle"
    /\ \E t \in Traces, r \in Runtimes :
        replay' = [replay EXCEPT !.pc = "grants", !.trace = t, !.runtime = r]
    /\ approved' = ApprovedNow
    /\ UNCHANGED <<vars, sandbox>>

\* Mutation of CopyGrants: the copy forgets when grants expire.
CopyGrantsForever ==
    /\ replay.pc = "grants"
    /\ sandbox' = [sandbox EXCEPT !.grants =
            [i \in DOMAIN grants |-> [grants[i] EXCEPT !.expires = None]]]
    /\ replay' = [replay EXCEPT !.pc = "approvals"]
    /\ UNCHANGED <<vars, approved>>

\* One SELECT of the live table, one INSERT per row.  An exception on the way is
\* swallowed: the rows inserted so far stay, and the rest is not copied.
CopyGrants ==
    /\ replay.pc = "grants"
    /\ \/ /\ sandbox' = [sandbox EXCEPT !.grants = grants]
          /\ replay' = [replay EXCEPT !.pc = "approvals"]
       \/ /\ \E n \in 0..Len(grants) :
                sandbox' = [sandbox EXCEPT !.grants = SubSeq(grants, 1, n)]
          /\ replay' = [replay EXCEPT !.pc = "events"]
    /\ UNCHANGED <<vars, approved>>

\* Mutation of CopyApprovals: the status column is left out of the copy.
CopyApprovalsBare ==
    /\ replay.pc = "approvals"
    /\ sandbox' = [sandbox EXCEPT !.requests =
            [i \in DOMAIN requests |-> [requests[i] EXCEPT !.status = None]]]
    /\ replay' = [replay EXCEPT !.pc = "events"]
    /\ UNCHANGED <<vars, approved>>

\* The requests are copied by a SELECT of their own, later.
CopyApprovals ==
    /\ replay.pc = "approvals"
    /\ \E n \in 0..Len(requests) :
            sandbox' = [sandbox EXCEPT !.requests = SubSeq(requests, 1, n)]
    /\ replay' = [replay EXCEPT !.pc = "events"]
    /\ UNCHANGED <<vars, approved>>

-----------------------------------------------------------------------------
(* replay_incident *)

\* The other runtimes enforce whatever the live one does; without a policy nothing is
\* allowed, and nothing denied.
Enforces == replay.runtime # "live" \/ Mode = "enforce"
Verdict(e) ==
    CASE replay.runtime = "live" -> PolicyVerdict[e]
      [] replay.runtime = "simulated" -> SimulatedVerdict[e]
      [] OTHER -> "default_deny"

\* execute against the sandbox, which nobody else writes: the verdict at this time.
Approved(item) ==
    \/ Sandbox!CheckApproval(ReplayAsk(item), clock) # {}
    \/ Sandbox!ApprovedRequests(ReplayAsk(item)) # {}
Permitted(item) ==
    \/ Verdict(item.event) \in {"allow", "warn"}
    \/ NeedsApproval(Verdict(item.event), item.event) /\ Approved(item)
Queues(item) == NeedsApproval(Verdict(item.event), item.event) /\ ~ Approved(item)

Decision(item) ==
    IF Permitted(item) THEN "allow" ELSE IF Queues(item) THEN "require_approval" ELSE "deny"

\* An outcome that was recorded is compared with the one of the replay.
Differs(item, authorized) ==
    item.original # None /\ item.original # (IF authorized THEN "pass" ELSE "fail")

\* A result; `was` is history, the live store at this moment.
Result(item) ==
    LET authorized == Permitted(item) \/ ~ Enforces
    IN  [item |-> item, authorized |-> authorized, decision |-> Decision(item),
         differs |-> Differs(item, authorized),
         was |-> [clock |-> clock, grants |-> Len(grants), approved |-> approved]]

Advance(item) == replay' = [replay EXCEPT !.results = Append(@, Result(item))]

Current == replay.trace[Len(replay.results) + 1]
Pending == replay.pc = "events" /\ Len(replay.results) < Len(replay.trace)
Readable(item) == Constructible(item.risk, item.keys, item.typed)

\* An exception ends the replay without a summary, and the sandbox with it: the next
\* record is not one that an ActionEvent can be built from ...
ParseFails ==
    /\ Pending /\ ~ Readable(Current)
    /\ replay' = [replay EXCEPT !.pc = "raised"]
    /\ UNCHANGED <<vars, sandbox, approved>>

\* ... or execute raises for it, or its outcome is not a text that can be compared.
ExecuteFails ==
    /\ Pending /\ Readable(Current)
    /\ replay' = [replay EXCEPT !.pc = "raised"]
    /\ UNCHANGED <<vars, sandbox, approved>>

\* Mutation of ReplayEvent: a dry run approves what it asks for.
ReplayEventApproving ==
    /\ Pending /\ Readable(Current)
    /\ LET item == Current
           row == [Sandbox!RequestRow(ReplayAsk(item), DefaultTtl, clock)
                    EXCEPT !.status = "approved"]
       IN  /\ Advance(item)
           /\ sandbox' = [sandbox EXCEPT !.requests =
                    IF Queues(item) THEN Append(@, row) ELSE @]
    /\ UNCHANGED <<vars, approved>>

ReplayEvent ==
    /\ Pending /\ Readable(Current) /\ Current.original # "not_text"
    /\ LET item == Current
           row == Sandbox!RequestRow(ReplayAsk(item), DefaultTtl, clock)
       IN  /\ Advance(item)
           /\ sandbox' = [sandbox EXCEPT !.requests =
                    IF Queues(item) THEN Append(@, row) ELSE @]
    /\ UNCHANGED <<vars, approved>>

\* The evidence: no difference means compliance.
Finish ==
    /\ replay.pc = "events" /\ Len(replay.results) = Len(replay.trace)
    /\ replay' = [replay EXCEPT !.pc =
            IF \E i \in DOMAIN replay.results : replay.results[i].differs
            THEN "drift" ELSE "compliant"]
    /\ UNCHANGED <<vars, sandbox, approved>>

-----------------------------------------------------------------------------

ReplayInit ==
    /\ Init
    /\ sandbox = [grants |-> <<>>, requests |-> <<>>]
    /\ replay = [pc |-> "idle", trace |-> <<>>, runtime |-> "live", results |-> <<>>]
    /\ approved = {}

ReplayStep ==
    \/ Reject \/ Begin \/ CopyGrants \/ CopyApprovals
    \/ ParseFails \/ ExecuteFails \/ ReplayEvent \/ Finish
LiveStep ==
    /\ Next
    /\ approved' = approved \cup {i \in DOMAIN requests' : requests'[i].status = "approved"}
    /\ UNCHANGED <<sandbox, replay>>

ReplayNext == ReplayStep \/ LiveStep

ReplaySpec == ReplayInit /\ [][ReplayNext]_replayVars

-----------------------------------------------------------------------------
(* Properties *)

ReplayTypeOK ==
    /\ TypeOK
    /\ sandbox.grants \in Seq(GrantRecord)
    /\ sandbox.requests \in Seq(Request)
    /\ replay.pc \in {"idle", "grants", "approvals", "events", "drift", "compliant", "raised"}
    /\ replay.trace \in Traces \cup {<<>>}
    /\ Len(replay.results) <= Len(replay.trace)
    /\ replay.runtime \in Runtimes
    /\ approved \subseteq DOMAIN requests

\* Although the two tables are copied at different times, perhaps not to the end, and the
\* live store moves on, the replay never authorizes in enforce mode what a live runtime
\* with the replayed policy, or with none, would have refused all the time since the
\* replay began (_build_sandbox_runtime).
AuthorizesNothingNew ==
    Enforces =>
    \A i \in DOMAIN replay.results : replay.results[i].authorized =>
        LET item == replay.results[i].item
            ask == ReplayAsk(item)
            was == replay.results[i].was
        IN  \/ Verdict(item.event) \in {"allow", "warn"}
            \/ /\ Verdict(item.event) # "deny"
               /\ \/ \E g \in 1..was.grants : GrantCovers(grants[g], ask, was.clock)
                  \/ \E r \in was.approved :
                        /\ requests[r].actor = ask.actor
                        /\ requests[r].tool = ask.tool
                        /\ requests[r].key = ask.key

\* Within one replay, the same record only ever loses its authorization, because a grant
\* expires: what the sandbox queues is never taken for an approval (replay_incident).
RepeatsOnlyLose ==
    \A i, j \in DOMAIN replay.results :
        /\ i < j /\ replay.results[i].item.event = replay.results[j].item.event
        /\ ReplayAsk(replay.results[i].item) = ReplayAsk(replay.results[j].item)
        /\ replay.results[j].authorized
        => replay.results[i].authorized
=============================================================================
