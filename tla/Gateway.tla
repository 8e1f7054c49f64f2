------------------------------- MODULE Gateway -------------------------------
(***************************************************************************)
(* The MCP gateway (capfence/mcp/gateway.py): one loop that reads a line   *)
(* from the client, passes tool calls to the runtime, forwards what may    *)
(* pass to the upstream server and then reads exactly one line from it,    *)
(* and a thread that drains the server's stderr.  The upstream server is   *)
(* external: it may answer late or in another order, send messages of its  *)
(* own, fill its stderr, and die.                                          *)
(*                                                                         *)
(* A pipe is the sequence of everything ever written to it and the number  *)
(* of messages already read.                                               *)
(***************************************************************************)
EXTENDS Integers, Sequences, FiniteSets

CONSTANTS
    Methods,                        \* the methods the client uses
    MaxSent, MaxChatter, MaxBursts  \* bounds of the model

ASSUME GatewayAssumption == MaxSent \in Nat /\ MaxChatter \in Nat /\ MaxBursts \in Nat

VARIABLES
    sent,       \* the gateway's stdin: what the client wrote
    taken,      \* how much of it the gateway has read
    gate,       \* the gateway's loop: where it is, and the message it handles
    forwarded,  \* the upstream server's stdin
    replies,    \* the upstream server's stdout
    consumed,   \* how much of it the gateway has read
    received,   \* the gateway's stdout: what the client gets
    upstream,   \* the upstream server
    drainer,    \* the thread that reads stderr
    passed,     \* history: the tool calls the runtime authorized
    bursts      \* history: how often the server filled its stderr

clientVars == <<sent, received>>
gatewayVars == <<taken, gate, consumed, passed>>
vars == <<sent, taken, gate, forwarded, replies, consumed, received, upstream, drainer,
          passed, bursts>>

ToolCallMethods == {"tools/call", "tool/call", "call_tool"}
NoMessage == [method |-> "none", request |-> FALSE, pos |-> 0]

\* What the client can get: an answer to the message at `re`, a message the server sends
\* of its own (re = 0), or the gateway's own error; a line that is not JSON is dropped.
Answer(p) == [kind |-> "answer", re |-> p]
Chatter == [kind |-> "chatter", re |-> 0]
Garbage == [kind |-> "garbage", re |-> 0]
BlockedResponse(m) == [kind |-> "blocked", re |-> m.pos]

-----------------------------------------------------------------------------
(* The client, and the server: external *)

\* The client writes a request, or a message that expects no answer (a notification, or
\* its own answer to the server), or a line that is not a JSON object.
Send ==
    /\ gate.pc # "down" /\ Len(sent) < MaxSent
    /\ \E m \in Methods, r \in BOOLEAN :
        sent' = Append(sent, [method |-> m, request |-> r, pos |-> Len(sent) + 1])
    /\ UNCHANGED <<gatewayVars, forwarded, replies, received, upstream, drainer, bursts>>

\* The server makes progress only while its stderr is not full.
Working == upstream.alive /\ ~ upstream.stuck

Accept ==
    /\ Working /\ upstream.read < Len(forwarded)
    /\ LET m == forwarded[upstream.read + 1]
       IN  upstream' = [upstream EXCEPT !.read = @ + 1,
                                        !.open = IF m.request THEN @ \cup {m.pos} ELSE @]
    /\ UNCHANGED <<clientVars, gatewayVars, forwarded, replies, drainer, bursts>>

Reply ==
    /\ Working
    /\ \E p \in upstream.open :
        /\ replies' = Append(replies, Answer(p))
        /\ upstream' = [upstream EXCEPT !.open = @ \ {p}]
    /\ UNCHANGED <<clientVars, gatewayVars, forwarded, drainer, bursts>>

Chat ==
    /\ Working
    /\ Cardinality({i \in DOMAIN replies : replies[i].re = 0}) < MaxChatter
    /\ \E line \in {Chatter, Garbage} : replies' = Append(replies, line)
    /\ UNCHANGED <<clientVars, gatewayVars, forwarded, upstream, drainer, bursts>>

\* More on stderr than the pipe holds: the server is stuck until somebody reads it.
Burst ==
    /\ Working /\ bursts < MaxBursts
    /\ upstream' = [upstream EXCEPT !.stuck = TRUE]
    /\ bursts' = bursts + 1
    /\ UNCHANGED <<clientVars, gatewayVars, forwarded, replies, drainer>>

Die ==
    /\ upstream.alive
    /\ upstream' = [upstream EXCEPT !.alive = FALSE]
    /\ UNCHANGED <<clientVars, gatewayVars, forwarded, replies, drainer, bursts>>

-----------------------------------------------------------------------------
(* The gateway's loop *)

\* Mutation of IsToolCall: a spelling of the method is forgotten.
IsToolsCall(m) == m.method \in {"tools/call", "tool/call"}

IsToolCall(m) == m.method \in ToolCallMethods

\* The loop ends: the server is terminated.
Stop ==
    /\ gate' = [pc |-> "down", msg |-> NoMessage]
    /\ upstream' = [upstream EXCEPT !.alive = FALSE]

\* The next line from the client; a malformed one ends the loop like end of file.
ReadClient ==
    /\ gate.pc = "reading" /\ taken < Len(sent)
    /\ taken' = taken + 1
    /\ LET m == sent[taken + 1]
       IN  IF m.method = "malformed" THEN Stop
           ELSE /\ gate' = [pc |-> IF IsToolCall(m) THEN "gating" ELSE "forwarding", msg |-> m]
                /\ UNCHANGED upstream
    /\ UNCHANGED <<clientVars, forwarded, replies, consumed, drainer, passed, bursts>>

ReadEof ==
    /\ gate.pc = "reading" /\ taken = Len(sent)
    /\ Stop
    /\ UNCHANGED <<clientVars, taken, forwarded, replies, consumed, drainer, passed, bursts>>

\* Mutation of Block: the answer to the call is awaited all the same.
BlockAndWait ==
    /\ gate.pc = "gating"
    /\ received' = Append(received, BlockedResponse(gate.msg))
    /\ gate' = [gate EXCEPT !.pc = "waiting"]
    /\ UNCHANGED <<sent, taken, forwarded, replies, consumed, upstream, drainer, passed, bursts>>

\* The runtime's verdict on a tool call: blocked, ...
Block ==
    /\ gate.pc = "gating"
    /\ received' = Append(received, BlockedResponse(gate.msg))
    /\ gate' = [pc |-> "reading", msg |-> NoMessage]
    /\ UNCHANGED <<sent, taken, forwarded, replies, consumed, upstream, drainer, passed, bursts>>

\* ... authorized, ...
Pass ==
    /\ gate.pc = "gating"
    /\ passed' = passed \cup {gate.msg.pos}
    /\ gate' = [gate EXCEPT !.pc = "forwarding"]
    /\ UNCHANGED <<clientVars, taken, forwarded, replies, consumed, upstream, drainer, bursts>>

\* ... or execute raises, which nothing in the loop handles; or the client is gone when it
\* is to be told that its call is blocked.
Crash ==
    /\ gate.pc = "gating"
    /\ Stop
    /\ UNCHANGED <<clientVars, taken, forwarded, replies, consumed, drainer, passed, bursts>>

\* _forward_and_respond takes the lock and writes; the write fails if the server is dead.
Forward ==
    /\ gate.pc = "forwarding"
    /\ IF upstream.alive
       THEN /\ forwarded' = Append(forwarded, gate.msg)
            /\ gate' = [gate EXCEPT !.pc = "waiting"]
            /\ UNCHANGED upstream
       ELSE Stop /\ UNCHANGED forwarded
    /\ UNCHANGED <<clientVars, taken, replies, consumed, drainer, passed, bursts>>

Handed(line) == IF line = Garbage THEN received ELSE Append(received, line)

\* Mutations of Respond: the line stays in the pipe; it gives up before there is one.
RespondTwice ==
    /\ gate.pc = "waiting" /\ consumed < Len(replies)
    /\ received' = Handed(replies[consumed + 1])
    /\ gate' = [pc |-> "reading", msg |-> NoMessage]
    /\ UNCHANGED <<consumed, sent, taken, forwarded, replies, upstream, drainer, passed, bursts>>

RespondOrGiveUp ==
    /\ gate.pc = "waiting"
    /\ IF consumed < Len(replies)
       THEN received' = Handed(replies[consumed + 1]) /\ consumed' = consumed + 1
       ELSE UNCHANGED <<received, consumed>>
    /\ gate' = [pc |-> "reading", msg |-> NoMessage]
    /\ UNCHANGED <<sent, taken, forwarded, replies, upstream, drainer, passed, bursts>>

\* It reads one line, whatever the server's next one is, and hands it to the client ...
Respond ==
    /\ gate.pc = "waiting" /\ consumed < Len(replies)
    /\ received' = Handed(replies[consumed + 1])
    /\ consumed' = consumed + 1
    /\ gate' = [pc |-> "reading", msg |-> NoMessage]
    /\ UNCHANGED <<sent, taken, forwarded, replies, upstream, drainer, passed, bursts>>

\* Mutation of RespondEof: the end of file counts as a line.
RespondEofCounted ==
    /\ gate.pc = "waiting" /\ consumed = Len(replies) /\ ~ upstream.alive
    /\ gate' = [pc |-> "reading", msg |-> NoMessage]
    /\ consumed' = consumed + 1
    /\ UNCHANGED <<clientVars, taken, forwarded, replies, upstream, drainer, passed, bursts>>

\* ... or finds the end of file, and the client gets nothing.
RespondEof ==
    /\ gate.pc = "waiting" /\ consumed = Len(replies) /\ ~ upstream.alive
    /\ gate' = [pc |-> "reading", msg |-> NoMessage]
    /\ UNCHANGED <<clientVars, taken, forwarded, replies, consumed, upstream, drainer, passed,
                   bursts>>

\* ... or the line is not text, or the client is gone: the loop ends.
RespondFails ==
    /\ gate.pc = "waiting" /\ consumed < Len(replies)
    /\ consumed' = consumed + 1
    /\ Stop
    /\ UNCHANGED <<clientVars, taken, forwarded, replies, drainer, passed, bursts>>

\* The drainer needs the lock once, to fetch the process.
StartDrain ==
    /\ drainer = "starting" /\ gate.pc # "waiting"
    /\ drainer' = "running"
    /\ UNCHANGED <<clientVars, gatewayVars, forwarded, replies, upstream, bursts>>

Drain ==
    /\ drainer = "running" /\ upstream.stuck
    /\ upstream' = [upstream EXCEPT !.stuck = FALSE]
    /\ UNCHANGED <<clientVars, gatewayVars, forwarded, replies, drainer, bursts>>

\* A line on stderr is not text, or there are no more: the thread ends, and nobody reads
\* stderr any longer.
EndDrain ==
    /\ drainer = "running"
    /\ drainer' = "ended"
    /\ UNCHANGED <<clientVars, gatewayVars, forwarded, replies, upstream, bursts>>

-----------------------------------------------------------------------------

Init ==
    /\ sent = <<>> /\ received = <<>>
    /\ forwarded = <<>> /\ replies = <<>>
    /\ taken = 0 /\ consumed = 0 /\ bursts = 0
    /\ gate = [pc |-> "reading", msg |-> NoMessage]
    /\ upstream = [alive |-> TRUE, read |-> 0, open |-> {}, stuck |-> FALSE]
    /\ drainer = "starting"
    /\ passed = {}

Loop == ReadClient \/ Block \/ Pass \/ Forward \/ Respond \/ RespondEof
Server == Accept \/ Reply
Next ==
    \/ Send \/ Chat \/ Burst \/ Die
    \/ Loop \/ ReadEof \/ Crash \/ RespondFails \/ Server
    \/ StartDrain \/ Drain \/ EndDrain

Spec == Init /\ [][Next]_vars

\* The gateway's threads run, and the server answers what it is asked.
FairSpec ==
    Spec /\ WF_vars(Loop) /\ WF_vars(Server) /\ WF_vars(StartDrain) /\ WF_vars(Drain)

-----------------------------------------------------------------------------
(* Properties *)

Message == [method : Methods, request : BOOLEAN, pos : Nat]
Line == [kind : {"answer", "chatter", "garbage", "blocked"}, re : Nat]

TypeOK ==
    /\ sent \in Seq(Message) /\ forwarded \in Seq(Message)
    /\ replies \in Seq(Line) /\ received \in Seq(Line)
    /\ taken \in 0..Len(sent) /\ consumed \in 0..Len(replies)
    /\ gate \in [pc : {"reading", "gating", "forwarding", "waiting", "down"},
                 msg : Message \cup {NoMessage}]
    /\ upstream \in [alive : BOOLEAN, read : 0..Len(forwarded), open : SUBSET Nat,
                     stuck : BOOLEAN]
    /\ drainer \in {"starting", "running", "ended"}
    /\ passed \subseteq DOMAIN sent
    /\ bursts \in Nat

\* "Every tool/call request is evaluated by the Gate before forwarding" (gateway.py):
\* a tool call reaches the server only if the runtime authorized that very message, and
\* a blocked one never does, however far the pipes have fallen behind each other.
OnlyPassedCallsReachServer ==
    \A i \in DOMAIN forwarded : forwarded[i].method \in ToolCallMethods =>
        /\ forwarded[i].pos \in passed
        /\ \A j \in DOMAIN received :
            received[j].kind = "blocked" => received[j].re # forwarded[i].pos

\* No message is answered twice, and an answer from the server is for a request that the
\* client made and the gateway forwarded, whatever else the server sends in between.
AnsweredOnce ==
    \A i \in DOMAIN received : received[i].re # 0 =>
        /\ \A j \in DOMAIN received : received[j].re = received[i].re => j = i
        /\ received[i].kind = "answer" =>
            \E k \in DOMAIN forwarded : forwarded[k].request /\ forwarded[k].pos = received[i].re

\* Nothing has happened that one-line-per-line proxying cannot cope with.  A server that
\* fills its stderr is in order while the drainer runs: before that, the loop may hold the
\* lock that the drainer waits for, and after that nobody empties the pipe.
Undisturbed ==
    /\ upstream.alive
    /\ bursts = 0 \/ drainer = "running"
    /\ \A i \in DOMAIN sent : sent[i].request /\ sent[i].method # "malformed"
    /\ \A i \in DOMAIN replies : replies[i].re # 0

Answered(p) == \E i \in DOMAIN received : received[i].re = p

\* As long as both sides only exchange requests and answers, the gateway is in step: when
\* it reads its next message, every one before it has been answered, in order.
InStep ==
    Undisturbed /\ gate.pc = "reading" =>
        /\ Len(received) = taken
        /\ \A i \in DOMAIN received : received[i].re = i

\* ... and every request the client makes is answered, or the gateway has stopped.
RequestsAreAnswered ==
    \A p \in 1..MaxSent :
        (p \in DOMAIN sent /\ Undisturbed) ~> (Answered(p) \/ gate.pc = "down" \/ ~ Undisturbed)
=============================================================================
