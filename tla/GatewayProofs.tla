---------------------------- MODULE GatewayProofs ----------------------------
(***************************************************************************)
(* Proofs about the MCP gateway, for any number of messages, any methods   *)
(* and any behaviour of the server, its death and its stderr included.     *)
(***************************************************************************)
EXTENDS Gateway, TLAPS

-----------------------------------------------------------------------------
(* Types *)

\* The state of the loop and of the server.
Gates == [pc : {"reading", "gating", "forwarding", "waiting", "down"}, msg : Message \cup {NoMessage}]
Servers(n) == [alive : BOOLEAN, read : 0..n, open : SUBSET Nat, stuck : BOOLEAN]

\* The message that the loop handles is the last one it has read; a message knows its
\* place among all the client sent.
InHand ==
    /\ \A i \in DOMAIN sent : sent[i].pos = i
    /\ gate.pc \in {"gating", "forwarding", "waiting"} => taken > 0 /\ gate.msg = sent[taken]
    /\ gate.pc = "down" => ~ upstream.alive

\* A loop that ends leaves the server terminated.
LEMMA StopEffect ==
    ASSUME TypeOK, Stop
    PROVE  /\ gate' \in Gates /\ gate'.pc = "down"
           /\ upstream' \in Servers(Len(forwarded)) /\ ~ upstream'.alive
           /\ upstream'.read = upstream.read /\ upstream'.open = upstream.open
<1>1. gate' = [pc |-> "down", msg |-> NoMessage] /\ upstream' = [upstream EXCEPT !.alive = FALSE]
  BY DEF Stop
<1>2. upstream \in Servers(Len(forwarded))
  BY DEF TypeOK, Servers
<1>3. gate' \in Gates /\ gate'.pc = "down"
  BY <1>1 DEF Gates
<1>4. /\ upstream' \in Servers(Len(forwarded)) /\ ~ upstream'.alive
      /\ upstream'.read = upstream.read /\ upstream'.open = upstream.open
  BY <1>1, <1>2 DEF Servers
<1> QED BY <1>3, <1>4

\* The invariant holds at first ...
LEMMA InitTyped == Init => TypeOK /\ InHand
  BY DEF Init, TypeOK, InHand, NoMessage

\* ... and after every step.
LEMMA NextTyped == TypeOK /\ InHand /\ [Next]_vars => (TypeOK /\ InHand)'
<1> SUFFICES ASSUME TypeOK, InHand, [Next]_vars PROVE (TypeOK /\ InHand)'
  OBVIOUS
<1> USE GatewayAssumption DEF TypeOK, InHand, clientVars, gatewayVars
<1>0. gate \in Gates /\ upstream \in Servers(Len(forwarded)) /\ Len(forwarded) \in Nat
  BY DEF Gates, Servers
<1>1. CASE Send
  <2>1. PICK m \in Methods, r \in BOOLEAN :
            sent' = Append(sent, [method |-> m, request |-> r, pos |-> Len(sent) + 1])
    BY <1>1 DEF Send
  <2>2. [method |-> m, request |-> r, pos |-> Len(sent) + 1] \in Message
    BY DEF Message
  <2>3. /\ sent' \in Seq(Message) /\ Len(sent') = Len(sent) + 1 /\ DOMAIN sent' = 1..(Len(sent) + 1)
        /\ \A i \in DOMAIN sent : sent'[i] = sent[i] /\ i \in DOMAIN sent'
        /\ sent'[Len(sent) + 1].pos = Len(sent) + 1
    BY <2>1, <2>2
  <2>4. InHand'
    BY <1>1, <2>3 DEF Send
  <2> QED BY <1>1, <2>3, <2>4 DEF Send
<1>2. CASE Chat
  <2>1. Chatter \in Line /\ Garbage \in Line
    BY DEF Chatter, Garbage, Line
  <2>2. PICK line \in Line : replies' = Append(replies, line)
    BY <1>2, <2>1 DEF Chat
  <2>3. replies' \in Seq(Line) /\ Len(replies') = Len(replies) + 1
    BY <2>2
  <2> QED BY <1>2, <2>3 DEF Chat
<1>3. CASE Burst \/ Die \/ Drain
  <2>1. /\ upstream' \in Servers(Len(forwarded)) /\ (upstream'.alive => upstream.alive)
        /\ bursts' \in Nat /\ drainer' \in {"starting", "running", "ended"}
    <3>1. CASE Burst
      <4>1. upstream' = [upstream EXCEPT !.stuck = TRUE] /\ bursts' = bursts + 1 /\ UNCHANGED drainer
        BY <3>1 DEF Burst
      <4>2. upstream' \in Servers(Len(forwarded)) /\ upstream'.alive = upstream.alive
        BY <1>0, <4>1 DEF Servers
      <4> QED BY <4>1, <4>2
    <3>2. CASE Die
      BY <1>0, <3>2 DEF Die, Servers
    <3>3. CASE Drain
      BY <1>0, <3>3 DEF Drain, Servers
    <3> QED BY <1>3, <3>1, <3>2, <3>3
  <2>2. UNCHANGED <<sent, received, taken, gate, consumed, passed, forwarded, replies>>
    BY <1>3 DEF Burst, Die, Drain
  <2> QED BY <2>1, <2>2 DEF Servers
<1>4. CASE StartDrain \/ EndDrain
  BY <1>4 DEF StartDrain, EndDrain
<1>5. CASE Accept
  <2>1. upstream.read + 1 \in 0..Len(forwarded) /\ forwarded[upstream.read + 1] \in Message
    BY <1>5 DEF Accept
  <2>2. upstream' \in Servers(Len(forwarded)) /\ upstream'.alive = upstream.alive
    BY <1>0, <1>5, <2>1 DEF Accept, Message, Servers
  <2> QED BY <1>5, <2>2 DEF Accept, Servers
<1>6. CASE Reply
  <2>1. PICK p \in upstream.open :
            /\ replies' = Append(replies, Answer(p))
            /\ upstream' = [upstream EXCEPT !.open = @ \ {p}]
    BY <1>6 DEF Reply
  <2>2. Answer(p) \in Line
    BY <1>0 DEF Answer, Line, Servers
  <2>3. replies' \in Seq(Line) /\ Len(replies') = Len(replies) + 1
    BY <2>1, <2>2
  <2>4. upstream' \in Servers(Len(forwarded)) /\ upstream'.alive = upstream.alive
    <3>1. upstream.open \ {p} \in SUBSET Nat
      BY <1>0 DEF Servers
    <3> QED BY <1>0, <2>1, <3>1 DEF Servers
  <2>5. UNCHANGED <<sent, received, taken, gate, consumed, passed, forwarded, bursts, drainer>>
    BY <1>6 DEF Reply
  <2> QED BY <2>3, <2>4, <2>5 DEF Servers
<1>7. CASE ReadClient
  <2>1. taken' = taken + 1 /\ taken' \in 0..Len(sent) /\ taken' > 0 /\ sent[taken'] \in Message
    BY <1>7 DEF ReadClient
  <2>2. CASE Stop
    BY <1>7, <2>1, <2>2, StopEffect DEF ReadClient, Gates, Servers
  <2>3. CASE /\ gate' = [pc |-> IF IsToolCall(sent[taken']) THEN "gating" ELSE "forwarding",
                         msg |-> sent[taken']]
             /\ UNCHANGED upstream
    <3>1. /\ gate' \in Gates /\ gate'.pc # "down"
          /\ gate'.msg = sent[taken']
      BY <2>1, <2>3 DEF Gates
    <3> QED BY <1>7, <2>1, <2>3, <3>1 DEF ReadClient, Gates
  <2> QED BY <1>7, <2>1, <2>2, <2>3 DEF ReadClient
<1>8. CASE ReadEof \/ Crash
  <2>1. /\ Stop
        /\ UNCHANGED <<sent, received, taken, consumed, passed, forwarded, replies, bursts, drainer>>
    BY <1>8 DEF ReadEof, Crash
  <2> QED BY <2>1, StopEffect DEF Gates, Servers
<1>15. CASE RespondFails
  <2>1. /\ Stop /\ consumed' \in 0..Len(replies)
        /\ UNCHANGED <<sent, received, taken, passed, forwarded, replies, bursts, drainer>>
    BY <1>15 DEF RespondFails
  <2> QED BY <2>1, StopEffect DEF Gates, Servers
<1>9. CASE Block
  <2>1. BlockedResponse(gate.msg) \in Line
    BY DEF BlockedResponse, Line, Message, NoMessage
  <2>2. received' \in Seq(Line) /\ gate' \in Gates /\ gate'.pc = "reading"
    BY <1>9, <2>1 DEF Block, Gates
  <2> QED BY <1>9, <2>2 DEF Block, Gates
<1>10. CASE Pass
  <2>1. gate.msg.pos \in DOMAIN sent
    BY <1>10 DEF Pass
  <2>2. gate' \in Gates /\ gate'.pc = "forwarding" /\ gate'.msg = gate.msg
    BY <1>0, <1>10 DEF Pass, Gates
  <2> QED BY <1>10, <2>1, <2>2 DEF Pass, Gates
<1>11. CASE Forward
  <2>1. CASE upstream.alive
    <3>1. gate.msg \in Message
      BY <1>11 DEF Forward
    <3>2. forwarded' = Append(forwarded, gate.msg)
      BY <1>11, <2>1 DEF Forward
    <3>3. forwarded' \in Seq(Message) /\ Len(forwarded') = Len(forwarded) + 1
      BY <3>1, <3>2
    <3>4. gate' \in Gates /\ gate'.pc = "waiting" /\ gate'.msg = gate.msg
      BY <1>0, <1>11, <2>1 DEF Forward, Gates
    <3>5. upstream' = upstream /\ upstream' \in Servers(Len(forwarded'))
      BY <1>0, <1>11, <2>1, <3>3 DEF Forward, Servers
    <3> QED BY <1>11, <3>3, <3>4, <3>5 DEF Forward, Gates, Servers
  <2>2. CASE ~ upstream.alive
    BY <1>11, <2>2, StopEffect DEF Forward, Gates, Servers
  <2> QED BY <2>1, <2>2
<1>12. CASE Respond
  <2>1. replies[consumed + 1] \in Line
    BY <1>12 DEF Respond
  <2>2. /\ received' \in Seq(Line) /\ gate' \in Gates /\ gate'.pc = "reading"
        /\ consumed' \in 0..Len(replies)
    BY <1>12, <2>1 DEF Respond, Handed, Gates
  <2> QED BY <1>12, <2>2 DEF Respond, Gates
<1>13. CASE RespondEof
  <2>1. gate' \in Gates /\ gate'.pc = "reading"
    BY <1>13 DEF RespondEof, Gates
  <2> QED BY <1>13, <2>1 DEF RespondEof, Gates
<1>14. CASE UNCHANGED vars
  BY <1>14 DEF vars
<1> QED BY <1>1, <1>2, <1>3, <1>4, <1>5, <1>6, <1>7, <1>8, <1>9, <1>10, <1>11, <1>12, <1>13, <1>14,
           <1>15 DEF Next, Loop, Server

\* Whatever the client and the server do, the loop's and the server's state stay in range.
THEOREM TypeCorrect == Spec => []TypeOK
  BY InitTyped, NextTyped, PTL DEF Spec

-----------------------------------------------------------------------------
(* Who gets past the gate *)

\* t is s with x at its end.
Grows(s, t, x) ==
    /\ Len(t) = Len(s) + 1 /\ DOMAIN t = 1..(Len(s) + 1)
    /\ t[Len(s) + 1] = x /\ \A i \in DOMAIN s : t[i] = s[i]

\* What is appended comes last, and all else stays in its place.
LEMMA AppendGrows ==
    ASSUME NEW S, NEW s \in Seq(S), NEW x
    PROVE  Grows(s, Append(s, x), x) /\ DOMAIN s = 1..Len(s) /\ Len(s) \in Nat
  BY DEF Grows

\* Messages leave the gateway, forwarded or blocked, in the order they came in and one at
\* a time; so until its verdict a message is neither passed nor forwarded nor blocked.
Sorted ==
    /\ passed \subseteq 1..taken
    /\ gate.pc = "gating" => taken \notin passed
    /\ gate.pc = "forwarding" /\ IsToolCall(gate.msg) => taken \in passed
    /\ \A i \in DOMAIN forwarded :
        /\ forwarded[i].pos \in 1..taken
        /\ gate.pc \in {"gating", "forwarding"} => forwarded[i].pos < taken
        /\ IsToolCall(forwarded[i]) => forwarded[i].pos \in passed
        /\ \A k \in DOMAIN forwarded : forwarded[k].pos = forwarded[i].pos => k = i
    /\ \A j \in DOMAIN received : received[j].kind = "blocked" =>
        /\ received[j].re \in (1..taken) \ passed
        /\ gate.pc \in {"gating", "forwarding", "waiting"} => received[j].re < taken
        /\ \A i \in DOMAIN forwarded : forwarded[i].pos # received[j].re

\* The server never says that a message was blocked.
NoneBlocked == \A i \in DOMAIN replies : replies[i].kind # "blocked"

\* The order is kept by every step.
LEMMA NextSorted ==
    ASSUME TypeOK, InHand, NoneBlocked, Sorted, [Next]_vars
    PROVE  Sorted'
<1> USE DEF Sorted
<1>0. /\ taken \in Nat /\ \A i \in DOMAIN sent : sent[i].pos = i /\ taken \in 0..Len(sent)
      /\ DOMAIN sent = 1..Len(sent) /\ Len(sent) \in Nat
      /\ gate.pc \in {"gating", "forwarding", "waiting"} => taken > 0 /\ gate.msg.pos = taken
      /\ gate \in Gates
  BY DEF TypeOK, InHand, Gates
<1>1. CASE ReadClient
  <2>1. taken' = taken + 1 /\ UNCHANGED <<passed, forwarded, received>>
    BY <1>1 DEF ReadClient, clientVars
  <2>2. gate'.pc \in {"gating", "forwarding", "down"}
    BY <1>1 DEF ReadClient, Stop
  <2>3. gate'.pc = "forwarding" => ~ IsToolCall(gate'.msg)
    BY <1>1 DEF ReadClient, Stop
  <2> QED BY <1>0, <2>1, <2>2, <2>3
<1>2. CASE ReadEof \/ Crash \/ RespondFails
  <2>1. gate'.pc = "down" /\ UNCHANGED <<taken, passed, forwarded, received>>
    BY <1>2 DEF ReadEof, Crash, RespondFails, Stop, clientVars
  <2> QED BY <2>1
<1>3. CASE Block
  <2>1. /\ gate'.pc = "reading" /\ UNCHANGED <<taken, passed, forwarded>> /\ gate.pc = "gating"
        /\ received' = Append(received, BlockedResponse(gate.msg))
    BY <1>3 DEF Block
  <2>2. Grows(received, received', BlockedResponse(gate.msg)) /\ DOMAIN received = 1..Len(received)
    BY <2>1, AppendGrows DEF TypeOK
  <2>3. BlockedResponse(gate.msg).re = taken
    BY <1>0, <2>1 DEF BlockedResponse
  <2>4. ASSUME NEW j \in DOMAIN received', received'[j].kind = "blocked"
        PROVE  /\ received'[j].re \in (1..taken) \ passed
               /\ \A i \in DOMAIN forwarded : forwarded[i].pos # received'[j].re
    <3>1. CASE j \in DOMAIN received
      BY <2>2, <2>4, <3>1 DEF Grows
    <3>2. CASE j = Len(received) + 1
      BY <1>0, <2>1, <2>2, <2>3, <3>2 DEF Grows
    <3> QED BY <2>2, <2>4, <3>1, <3>2 DEF Grows
  <2> QED BY <2>1, <2>4
<1>4. CASE Pass
  <2>1. /\ gate'.pc = "forwarding" /\ gate.pc = "gating" /\ passed' = passed \cup {taken}
        /\ UNCHANGED <<taken, forwarded, received>>
    BY <1>0, <1>4 DEF Pass, Gates, clientVars
  <2> QED BY <1>0, <2>1
<1>5. CASE Forward
  <2>1. CASE upstream.alive
    <3>1. /\ gate.pc = "forwarding" /\ gate'.pc = "waiting" /\ UNCHANGED <<taken, passed, received>>
          /\ forwarded' = Append(forwarded, gate.msg)
      BY <1>0, <1>5, <2>1 DEF Forward, Gates, clientVars
    <3>2. Grows(forwarded, forwarded', gate.msg) /\ DOMAIN forwarded = 1..Len(forwarded)
      BY <3>1, AppendGrows DEF TypeOK
    <3>3. gate.msg.pos = taken /\ taken \in 1..taken
      BY <1>0, <3>1
    <3>4. ASSUME NEW i \in DOMAIN forwarded'
          PROVE  /\ forwarded'[i].pos \in 1..taken
                 /\ IsToolCall(forwarded'[i]) => forwarded'[i].pos \in passed
                 /\ i \in DOMAIN forwarded => forwarded'[i].pos < taken
                 /\ i \notin DOMAIN forwarded => i = Len(forwarded) + 1 /\ forwarded'[i].pos = taken
      <4>1. CASE i \in DOMAIN forwarded
        BY <1>0, <3>1, <3>2, <4>1 DEF Grows
      <4>2. CASE i = Len(forwarded) + 1
        BY <1>0, <3>1, <3>2, <3>3, <4>2 DEF Grows
      <4> QED BY <3>2, <4>1, <4>2 DEF Grows
    <3>5. ASSUME NEW i \in DOMAIN forwarded', NEW k \in DOMAIN forwarded',
                 forwarded'[k].pos = forwarded'[i].pos
          PROVE  k = i
      <4>1. (i \in DOMAIN forwarded) <=> (k \in DOMAIN forwarded)
        BY <1>0, <3>4, <3>5
      <4> QED BY <3>2, <3>4, <3>5, <4>1 DEF Grows
    <3>6. ASSUME NEW j \in DOMAIN received, received[j].kind = "blocked",
                 NEW i \in DOMAIN forwarded'
          PROVE  forwarded'[i].pos # received[j].re
      <4>1. received[j].re < taken /\ \A k \in DOMAIN forwarded : forwarded[k].pos # received[j].re
        BY <3>1, <3>6
      <4> QED BY <1>0, <3>2, <3>4, <4>1 DEF Grows
    <3> QED BY <3>1, <3>4, <3>5, <3>6
  <2>2. CASE ~ upstream.alive
    <3>1. gate'.pc = "down" /\ UNCHANGED <<taken, passed, forwarded, received>>
      BY <1>5, <2>2 DEF Forward, Stop, clientVars
    <3> QED BY <3>1
  <2> QED BY <2>1, <2>2
<1>6. CASE Respond
  <2>1. /\ gate'.pc = "reading" /\ UNCHANGED <<taken, passed, forwarded>>
        /\ received' = Handed(replies[consumed + 1])
        /\ replies[consumed + 1].kind # "blocked"
    BY <1>6 DEF Respond, TypeOK, NoneBlocked
  <2>2. ASSUME NEW j \in DOMAIN received', received'[j].kind = "blocked"
        PROVE  j \in DOMAIN received /\ received'[j] = received[j]
    <3>1. CASE received' = received
      BY <2>2, <3>1
    <3>2. CASE received' = Append(received, replies[consumed + 1])
      <4>1. Grows(received, received', replies[consumed + 1]) /\ DOMAIN received = 1..Len(received)
        BY <3>2, AppendGrows DEF TypeOK
      <4> QED BY <2>1, <2>2, <4>1 DEF Grows
    <3> QED BY <2>1, <3>1, <3>2 DEF Handed
  <2> QED BY <2>1, <2>2
<1>7. CASE RespondEof
  <2>1. gate'.pc = "reading" /\ UNCHANGED <<taken, passed, forwarded, received>>
    BY <1>7 DEF RespondEof, clientVars
  <2> QED BY <2>1
<1>8. CASE Send \/ Chat \/ Burst \/ Die \/ Accept \/ Reply \/ StartDrain \/ EndDrain \/ Drain \/ UNCHANGED vars
  <2>1. UNCHANGED <<taken, gate, passed, forwarded, received>>
    BY <1>8 DEF Send, Chat, Burst, Die, Accept, Reply, StartDrain, EndDrain, Drain, vars, clientVars, gatewayVars
  <2> QED BY <2>1
<1> QED BY <1>1, <1>2, <1>3, <1>4, <1>5, <1>6, <1>7, <1>8 DEF Next, Loop, Server

\* The server's lines come from nobody else.
LEMMA NextNoneBlocked == TypeOK /\ NoneBlocked /\ [Next]_vars => NoneBlocked'
<1> SUFFICES ASSUME TypeOK, NoneBlocked, [Next]_vars PROVE NoneBlocked'
  OBVIOUS
<1>1. ASSUME NEW line, replies' = Append(replies, line), line.kind # "blocked"
      PROVE  NoneBlocked'
  <2>1. Grows(replies, replies', line) /\ DOMAIN replies = 1..Len(replies) /\ Len(replies) \in Nat
    BY <1>1, AppendGrows DEF TypeOK
  <2> QED BY <1>1, <2>1 DEF NoneBlocked, Grows
<1>2. CASE Chat
  <2>1. PICK line \in {Chatter, Garbage} : replies' = Append(replies, line)
    BY <1>2 DEF Chat
  <2> QED BY <1>1, <2>1 DEF Chatter, Garbage
<1>3. CASE Reply
  <2>1. PICK p \in upstream.open : replies' = Append(replies, Answer(p))
    BY <1>3 DEF Reply
  <2> QED BY <1>1, <2>1 DEF Answer
<1>4. CASE UNCHANGED replies
  BY <1>4 DEF NoneBlocked
<1> QED BY <1>2, <1>3, <1>4 DEF Next, Loop, Server, Send, Burst, Die, ReadClient, Block, Pass,
             Forward, Respond, RespondEof, RespondFails, ReadEof, Crash, Accept, StartDrain, EndDrain,
             Drain, vars

\* A blocked message is not forwarded, and a tool call that is forwarded was authorized:
\* every tool call is evaluated before it is forwarded.
THEOREM GatedBeforeForwarded == Spec => []OnlyPassedCallsReachServer
<1>1. Init => Sorted /\ NoneBlocked
  BY DEF Init, Sorted, NoneBlocked
<1>2. Sorted => OnlyPassedCallsReachServer
  BY DEF Sorted, OnlyPassedCallsReachServer, IsToolCall
<1> QED BY <1>1, <1>2, InitTyped, NextTyped, NextSorted, NextNoneBlocked, PTL DEF Spec

-----------------------------------------------------------------------------
(* Who is answered *)

\* p is a request among the first n messages that were forwarded.
Among(p, messages, n) == \E k \in 1..n : messages[k].request /\ messages[k].pos = p

\* A request that the server has read.
Requested(p) == Among(p, forwarded, upstream.read)

\* ... and one it will have read after the step.
StillRequested(p) == Among(p, forwarded', upstream'.read)

\* The server answers what it was asked, once.
Served ==
    /\ \A p \in upstream.open : Requested(p) /\ \A i \in DOMAIN replies : replies[i].re # p
    /\ \A i \in DOMAIN replies : replies[i].re # 0 =>
        /\ Requested(replies[i].re)
        /\ \A k \in DOMAIN replies : replies[k].re = replies[i].re => k = i

\* What the client gets is what the server sent, each line once, or the gateway's error.
Handled ==
    /\ \A j \in DOMAIN received : received[j].re # 0 /\ received[j].kind # "blocked" =>
        \E k \in 1..consumed : replies[k].re = received[j].re
    /\ \A j, k \in DOMAIN received :
        received[j].re # 0 /\ received[k].re = received[j].re => k = j

\* A request that the server has read stays so.
LEMMA RequestedStays ==
    ASSUME TypeOK, [Next]_vars, NEW p, Requested(p)
    PROVE  StillRequested(p)
<1> DEFINE n == upstream.read
<1>0. n \in 0..Len(forwarded) /\ Len(forwarded) \in Nat /\ DOMAIN forwarded = 1..Len(forwarded)
      /\ upstream \in Servers(Len(forwarded))
  BY DEF TypeOK, Servers
<1>1. PICK k \in 1..n : forwarded[k].request /\ forwarded[k].pos = p
  BY DEF Requested, StillRequested, Among
<1>2. CASE Forward
  <2>1. UNCHANGED forwarded \/ forwarded' = Append(forwarded, gate.msg)
    BY <1>2 DEF Forward
  <2>2. forwarded'[k] = forwarded[k]
    <3>1. k \in DOMAIN forwarded /\ Grows(forwarded, Append(forwarded, gate.msg), gate.msg)
      BY <1>0, <1>1, AppendGrows DEF TypeOK
    <3> QED BY <2>1, <3>1 DEF Grows
  <2>3. upstream'.read = n
    BY <1>2, StopEffect DEF Forward
  <2> QED BY <1>1, <2>2, <2>3 DEF Requested, StillRequested, Among
<1>3. CASE Accept
  <2>1. upstream'.read = n + 1 /\ UNCHANGED forwarded
    BY <1>0, <1>3 DEF Accept, Servers
  <2> QED BY <1>0, <1>1, <2>1 DEF Requested, StillRequested, Among
<1>4. CASE ReadClient \/ ReadEof \/ Crash \/ RespondFails
  <2>1. UNCHANGED upstream \/ Stop
    BY <1>4 DEF ReadClient, ReadEof, Crash, RespondFails
  <2>2. upstream'.read = n /\ UNCHANGED forwarded
    BY <1>4, <2>1, StopEffect DEF ReadClient, ReadEof, Crash, RespondFails
  <2> QED BY <1>1, <2>2 DEF Requested, StillRequested, Among
<1>5. CASE Burst \/ Die \/ Drain \/ Reply
  <2>1. upstream'.read = n /\ UNCHANGED forwarded
    <3>1. CASE Burst
      BY <1>0, <3>1 DEF Burst, Servers
    <3>2. CASE Die \/ Drain
      BY <1>0, <3>2 DEF Die, Drain, Servers
    <3>3. CASE Reply
      <4>1. PICK q : upstream' = [upstream EXCEPT !.open = @ \ {q}]
        BY <3>3 DEF Reply
      <4>2. UNCHANGED forwarded
        BY <3>3 DEF Reply
      <4> QED BY <1>0, <4>1, <4>2 DEF Servers
    <3> QED BY <1>5, <3>1, <3>2, <3>3
  <2> QED BY <1>1, <2>1 DEF Requested, StillRequested, Among
<1>6. CASE UNCHANGED <<upstream, forwarded>>
  BY <1>1, <1>6 DEF Requested, StillRequested, Among
<1> QED BY <1>2, <1>3, <1>4, <1>5, <1>6 DEF Next, Loop, Server, Send, Chat, Block, Pass, Respond,
             RespondEof, StartDrain, EndDrain, vars

\* A server that answers keeps to what it read, and to one answer each.
LEMMA NextServed ==
    ASSUME TypeOK, InHand, Sorted, Served, [Next]_vars
    PROVE  Served'
<1> DEFINE n == upstream.read
<1>0. /\ upstream \in Servers(Len(forwarded)) /\ DOMAIN forwarded = 1..Len(forwarded)
      /\ DOMAIN replies = 1..Len(replies) /\ Len(replies) \in Nat /\ Len(forwarded) \in Nat
  BY DEF TypeOK, Servers
<1>1. CASE Accept
  <2>1. /\ n < Len(forwarded) /\ UNCHANGED <<forwarded, replies>> /\ upstream'.read = n + 1
        /\ upstream'.open \subseteq upstream.open \cup {forwarded[n + 1].pos}
        /\ ~ forwarded[n + 1].request => upstream'.open = upstream.open
    BY <1>0, <1>1 DEF Accept, Servers
  <2>2. n + 1 \in DOMAIN forwarded /\ n \in Nat
    BY <1>0, <2>1 DEF Servers
  <2>3. ASSUME forwarded[n + 1].request
        PROVE  /\ StillRequested(forwarded[n + 1].pos)
               /\ ~ Requested(forwarded[n + 1].pos)
    <3>1. StillRequested(forwarded[n + 1].pos)
      BY <2>1, <2>2, <2>3 DEF Requested, StillRequested, Among
    <3>2. ASSUME NEW k \in 1..n PROVE forwarded[k].pos # forwarded[n + 1].pos
      BY <1>0, <2>2, <3>2 DEF Sorted, Servers
    <3> QED BY <3>1, <3>2 DEF Requested, StillRequested, Among
  <2>4. ASSUME NEW p \in upstream'.open
        PROVE  StillRequested(p) /\ \A i \in DOMAIN replies : replies[i].re # p
    <3>1. CASE p \in upstream.open
      BY <3>1, RequestedStays DEF Served
    <3>2. CASE p \notin upstream.open
      <4>1. p = forwarded[n + 1].pos /\ forwarded[n + 1].request
        BY <2>1, <2>4, <3>2
      <4>2. p \in Nat \ {0}
        BY <2>2, <4>1 DEF Sorted
      <4> QED BY <2>1, <2>3, <4>1, <4>2 DEF Served
    <3> QED BY <3>1, <3>2
  <2>5. ASSUME NEW i \in DOMAIN replies, replies[i].re # 0 PROVE StillRequested(replies[i].re)
    BY <2>5, RequestedStays DEF Served
  <2> QED BY <2>1, <2>4, <2>5 DEF Served, Requested, StillRequested
<1>2. CASE Reply
  <2>1. PICK p \in upstream.open :
            /\ replies' = Append(replies, Answer(p))
            /\ upstream' = [upstream EXCEPT !.open = @ \ {p}]
    BY <1>2 DEF Reply
  <2>2. Grows(replies, replies', Answer(p)) /\ Answer(p).re = p
    BY <2>1, AppendGrows DEF TypeOK, Answer
  <2>3. upstream'.open = upstream.open \ {p}
    BY <1>0, <2>1 DEF Servers
  <2>4. StillRequested(p) /\ \A i \in DOMAIN replies : replies[i].re # p
    BY RequestedStays DEF Served
  <2>5. ASSUME NEW q \in upstream'.open
        PROVE  StillRequested(q) /\ \A i \in DOMAIN replies' : replies'[i].re # q
    <3>1. StillRequested(q) /\ \A i \in DOMAIN replies : replies[i].re # q
      BY <2>3, RequestedStays DEF Served
    <3> QED BY <1>0, <2>2, <2>3, <3>1 DEF Grows
  <2>6. ASSUME NEW i \in DOMAIN replies', replies'[i].re # 0
        PROVE  /\ StillRequested(replies'[i].re)
               /\ \A k \in DOMAIN replies' : replies'[k].re = replies'[i].re => k = i
    <3>1. CASE i = Len(replies) + 1
      <4>1. replies'[i].re = p
        BY <2>2, <3>1 DEF Grows
      <4>2. ASSUME NEW k \in DOMAIN replies', k # i PROVE replies'[k].re # p
        BY <1>0, <2>2, <2>4, <3>1, <4>2 DEF Grows
      <4> QED BY <2>4, <4>1, <4>2
    <3>2. CASE i \in DOMAIN replies
      <4>1. replies'[i] = replies[i] /\ replies[i].re # p
        BY <2>2, <2>4, <3>2 DEF Grows
      <4>2. StillRequested(replies[i].re)
        BY <2>6, <3>2, <4>1, RequestedStays DEF Served
      <4>3. \A k \in DOMAIN replies : replies[k].re = replies[i].re => k = i
        BY <2>6, <3>2, <4>1 DEF Served
      <4> QED BY <1>0, <2>2, <4>1, <4>2, <4>3 DEF Grows
    <3> QED BY <1>0, <2>2, <3>1, <3>2 DEF Grows
  <2> QED BY <2>5, <2>6 DEF Served, Requested, StillRequested
<1>3. CASE Chat
  <2>1. PICK line \in {Chatter, Garbage} : replies' = Append(replies, line)
    BY <1>3 DEF Chat
  <2>2. Grows(replies, replies', line) /\ line.re = 0 /\ UNCHANGED upstream
    BY <1>3, <2>1, AppendGrows DEF TypeOK, Chatter, Garbage, Chat
  <2>3. ASSUME NEW q \in upstream.open
        PROVE  StillRequested(q) /\ q # 0 /\ \A i \in DOMAIN replies : replies[i].re # q
    <3>1. PICK k \in 1..n : forwarded[k].pos = q
      BY DEF Served, Requested, Among
    <3>2. q # 0
      BY <1>0, <3>1 DEF Sorted, Servers
    <3> QED BY <3>2, RequestedStays DEF Served
  <2>4. ASSUME NEW i \in DOMAIN replies', replies'[i].re # 0
        PROVE  i \in DOMAIN replies /\ replies'[i] = replies[i] /\ StillRequested(replies'[i].re)
    <3>1. i \in DOMAIN replies /\ replies'[i] = replies[i]
      BY <1>0, <2>2, <2>4 DEF Grows
    <3> QED BY <2>4, <3>1, RequestedStays DEF Served
  <2>5. \A q \in upstream'.open : \A i \in DOMAIN replies' : replies'[i].re # q
    BY <1>0, <2>2, <2>3 DEF Grows
  <2>6. \A i \in DOMAIN replies' : replies'[i].re # 0 =>
            \A k \in DOMAIN replies' : replies'[k].re = replies'[i].re => k = i
    BY <2>4 DEF Served
  <2> QED BY <2>2, <2>3, <2>4, <2>5, <2>6 DEF Served, Requested, StillRequested
<1>4. CASE UNCHANGED replies /\ upstream'.open = upstream.open
  BY <1>4, RequestedStays DEF Served, Requested, StillRequested
<1>5. ASSUME ReadClient \/ ReadEof \/ Crash \/ RespondFails \/ Forward \/ Burst \/ Die \/ Drain
      PROVE  UNCHANGED replies /\ upstream'.open = upstream.open
  <2>1. UNCHANGED replies
    BY <1>5 DEF ReadClient, ReadEof, Crash, RespondFails, Forward, Burst, Die, Drain
  <2>2. CASE ReadClient \/ ReadEof \/ Crash \/ RespondFails \/ Forward
    <3>1. UNCHANGED upstream \/ Stop
      BY <2>2 DEF ReadClient, ReadEof, Crash, RespondFails, Forward
    <3> QED BY <2>1, <3>1, StopEffect
  <2>3. CASE Burst
    BY <1>0, <2>1, <2>3 DEF Burst, Servers
  <2>4. CASE Die \/ Drain
    BY <1>0, <2>1, <2>4 DEF Die, Drain, Servers
  <2> QED BY <1>5, <2>2, <2>3, <2>4
<1>6. ASSUME Send \/ Block \/ Pass \/ Respond \/ RespondEof \/ StartDrain \/ EndDrain \/ UNCHANGED vars
      PROVE  UNCHANGED replies /\ upstream'.open = upstream.open
  BY <1>6 DEF Send, Block, Pass, Respond, RespondEof, StartDrain, EndDrain, vars
<1> QED BY <1>1, <1>2, <1>3, <1>4, <1>5, <1>6 DEF Next, Loop, Server

\* The client gets no line twice, whether the server's or the gateway's own.
LEMMA NextHandled ==
    ASSUME TypeOK, InHand, Sorted, NoneBlocked, Served, Handled, [Next]_vars
    PROVE  Handled'
<1>0. /\ DOMAIN replies = 1..Len(replies) /\ Len(replies) \in Nat /\ consumed \in 0..Len(replies)
      /\ DOMAIN received = 1..Len(received) /\ Len(received) \in Nat
      /\ upstream \in Servers(Len(forwarded)) /\ DOMAIN forwarded = 1..Len(forwarded)
      /\ Len(forwarded) \in Nat
  BY DEF TypeOK, Servers
<1>1. ASSUME NEW i \in DOMAIN replies, replies[i].re # 0
      PROVE  \E k \in DOMAIN forwarded : forwarded[k].pos = replies[i].re
  BY <1>0, <1>1 DEF Served, Requested, Among, Servers
<1>2. CASE Block
  <2>1. /\ received' = Append(received, BlockedResponse(gate.msg)) /\ gate.pc = "gating"
        /\ UNCHANGED <<replies, consumed>>
    BY <1>2 DEF Block
  <2>2. Grows(received, received', BlockedResponse(gate.msg))
    BY <2>1, AppendGrows DEF TypeOK
  <2>3. BlockedResponse(gate.msg).re = taken /\ BlockedResponse(gate.msg).kind = "blocked"
    BY <2>1 DEF BlockedResponse, InHand, TypeOK
  <2>4. ASSUME NEW j \in DOMAIN received PROVE received[j].re # taken
    <3>1. CASE received[j].kind = "blocked"
      BY <2>1, <3>1 DEF Sorted, TypeOK
    <3>2. CASE received[j].kind # "blocked" /\ received[j].re # 0
      <4>1. PICK k \in DOMAIN forwarded : forwarded[k].pos = received[j].re
        BY <1>0, <1>1, <3>2 DEF Handled
      <4> QED BY <2>1, <4>1 DEF Sorted, TypeOK
    <3> QED BY <2>1, <3>1, <3>2 DEF InHand
  <2>5. /\ \A j \in DOMAIN received : received'[j] = received[j]
        /\ received'[Len(received) + 1].re = taken
        /\ received'[Len(received) + 1].kind = "blocked"
        /\ DOMAIN received' = 1..(Len(received) + 1)
    BY <2>2, <2>3 DEF Grows
  <2>6. \A j, k \in DOMAIN received' :
            received'[j].re # 0 /\ received'[k].re = received'[j].re => k = j
    BY <1>0, <2>4, <2>5 DEF Handled
  <2>7. \A j \in DOMAIN received' : received'[j].re # 0 /\ received'[j].kind # "blocked" =>
            \E k \in 1..consumed : replies[k].re = received'[j].re
    BY <1>0, <2>5 DEF Handled
  <2> QED BY <2>1, <2>6, <2>7 DEF Handled
<1>3. CASE Respond
  <2> DEFINE line == replies[consumed + 1]
  <2>1. /\ received' = Handed(line) /\ consumed' = consumed + 1
        /\ consumed + 1 \in DOMAIN replies /\ UNCHANGED replies
    BY <1>0, <1>3 DEF Respond
  <2>2. CASE received' = received
    <3>1. \A k \in 1..consumed : k \in 1..consumed'
      BY <1>0, <2>1
    <3> QED BY <2>1, <2>2, <3>1 DEF Handled
  <2>3. CASE received' = Append(received, line)
    <3>1. Grows(received, received', line) /\ line.kind # "blocked"
      BY <2>1, <2>3, AppendGrows DEF TypeOK, NoneBlocked
    <3>2. ASSUME NEW j \in DOMAIN received, line.re # 0 PROVE received[j].re # line.re
      <4>1. CASE received[j].kind = "blocked"
        BY <1>1, <2>1, <3>2, <4>1 DEF Sorted
      <4>2. CASE received[j].kind # "blocked"
        <5> SUFFICES ASSUME received[j].re = line.re PROVE FALSE
          OBVIOUS
        <5>1. PICK k \in 1..consumed : replies[k].re = line.re
          BY <3>2, <4>2 DEF Handled
        <5>2. k \in DOMAIN replies /\ k # consumed + 1
          BY <1>0
        <5> QED BY <2>1, <3>2, <5>1, <5>2 DEF Served
      <4> QED BY <4>1, <4>2
    <3> HIDE DEF line
    <3>3. /\ \A j \in DOMAIN received : received'[j] = received[j]
          /\ received'[Len(received) + 1] = line
          /\ DOMAIN received' = 1..(Len(received) + 1)
      BY <3>1 DEF Grows
    <3>4. \A j, k \in DOMAIN received' :
              received'[j].re # 0 /\ received'[k].re = received'[j].re => k = j
      BY <1>0, <3>2, <3>3 DEF Handled
    <3>5. ASSUME NEW j \in DOMAIN received', received'[j].re # 0, received'[j].kind # "blocked"
          PROVE  \E k \in 1..consumed' : replies[k].re = received'[j].re
      <4>1. CASE j = Len(received) + 1
        <5>1. consumed + 1 \in 1..consumed' /\ replies[consumed + 1].re = received'[j].re
          BY <1>0, <2>1, <3>3, <4>1 DEF line
        <5> QED BY <5>1
      <4>2. CASE j \in DOMAIN received
        <5>1. PICK k \in 1..consumed : replies[k].re = received'[j].re
          BY <3>3, <3>5, <4>2 DEF Handled
        <5> QED BY <1>0, <2>1, <5>1
      <4> QED BY <1>0, <3>3, <4>1, <4>2
    <3> QED BY <2>1, <3>4, <3>5 DEF Handled
  <2> QED BY <2>1, <2>2, <2>3 DEF Handed
<1>4. CASE UNCHANGED <<received, consumed>> /\ (Chat \/ Reply)
  <2>1. PICK line : replies' = Append(replies, line)
    BY <1>4 DEF Chat, Reply
  <2>2. Grows(replies, replies', line)
    BY <2>1, AppendGrows DEF TypeOK
  <2>3. \A k \in 1..consumed : replies'[k] = replies[k]
    BY <1>0, <2>2 DEF Grows
  <2> QED BY <1>4, <2>3 DEF Handled
<1>5. CASE UNCHANGED <<received, consumed, replies>>
  BY <1>5 DEF Handled
<1>6. CASE RespondFails
  <2>1. UNCHANGED <<received, replies>> /\ \A k \in 1..consumed : k \in 1..consumed'
    BY <1>0, <1>6 DEF RespondFails, clientVars
  <2> QED BY <2>1 DEF Handled
<1> QED BY <1>2, <1>3, <1>4, <1>5, <1>6
        DEF Next, Loop, Server, Send, Chat, Reply, Burst, Die, ReadClient, ReadEof, Crash, Pass,
            Forward, RespondEof, Accept, StartDrain, EndDrain, Drain, vars, clientVars, gatewayVars

\* Whatever the server sends in between, the client gets at most one answer to each of its
\* messages, and from the server only to a request that was forwarded.
THEOREM AnswersComeOnce == Spec => []AnsweredOnce
<1>1. Init => Sorted /\ NoneBlocked /\ Served /\ Handled
  BY DEF Init, Sorted, NoneBlocked, Served, Handled
<1>2. TypeOK /\ Served /\ Handled => AnsweredOnce
  <2> SUFFICES ASSUME TypeOK, Served, Handled,
                      NEW i \in DOMAIN received, received[i].re # 0
               PROVE  /\ \A j \in DOMAIN received : received[j].re = received[i].re => j = i
                      /\ received[i].kind = "answer" =>
                            \E k \in DOMAIN forwarded :
                                forwarded[k].request /\ forwarded[k].pos = received[i].re
    BY DEF AnsweredOnce
  <2>1. \A j \in DOMAIN received : received[j].re = received[i].re => j = i
    BY DEF Handled
  <2>2. ASSUME received[i].kind = "answer" PROVE Requested(received[i].re)
    <3>1. PICK k \in 1..consumed : replies[k].re = received[i].re
      BY <2>2 DEF Handled
    <3>2. k \in DOMAIN replies
      BY DEF TypeOK
    <3> QED BY <3>1, <3>2 DEF Served
  <2>3. 1..upstream.read \subseteq DOMAIN forwarded
    BY DEF TypeOK
  <2> QED BY <2>1, <2>2, <2>3 DEF Requested, Among
<1> QED BY <1>1, <1>2, InitTyped, NextTyped, NextSorted, NextNoneBlocked, NextServed, NextHandled,
           PTL DEF Spec

-----------------------------------------------------------------------------
(* When the gateway is in step *)

\* What InStep asks of the two sides, the drainer aside.
Quiet ==
    /\ upstream.alive
    /\ \A i \in DOMAIN sent : sent[i].request /\ sent[i].method # "malformed"
    /\ \A i \in DOMAIN replies : replies[i].re # 0

\* The server has read all it was sent and answered it, and the gateway has passed it on.
AllServed ==
    /\ upstream.read = Len(forwarded) /\ upstream.open = {} /\ consumed = Len(replies)

\* The message in hand is on its way to the server, with it, or on its way back.
UnderWay ==
    /\ Len(forwarded) > 0 /\ forwarded[Len(forwarded)] = gate.msg
    /\ \/ /\ upstream.read = Len(forwarded) - 1 /\ upstream.open = {}
          /\ consumed = Len(replies)
       \/ /\ upstream.read = Len(forwarded) /\ upstream.open = {taken}
          /\ consumed = Len(replies)
       \/ /\ upstream.read = Len(forwarded) /\ upstream.open = {}
          /\ Len(replies) = consumed + 1 /\ replies[consumed + 1] = Answer(taken)

\* Messages are answered in order, and nothing but the one in hand is under way.
Synced ==
    Quiet =>
        /\ \A i \in DOMAIN received : received[i].re = i
        /\ Len(received) = IF gate.pc = "reading" THEN taken ELSE taken - 1
        /\ IF gate.pc = "waiting" THEN UnderWay ELSE AllServed

\* Once there was a disturbance there will always have been one.
LEMMA QuietBefore ==
    ASSUME TypeOK, [Next]_vars, Quiet'
    PROVE  Quiet
<1>0. upstream \in Servers(Len(forwarded))
  BY DEF TypeOK, Servers
<1>1. upstream.alive
  <2>1. CASE Stop
    BY <2>1, StopEffect DEF Quiet
  <2>2. CASE Accept \/ Die \/ Drain
    BY <1>0, <2>2 DEF Accept, Die, Drain, Working, Quiet, Servers
  <2>3. CASE Reply \/ Burst
    BY <2>3 DEF Reply, Burst, Working
  <2>4. CASE UNCHANGED upstream
    BY <2>4 DEF Quiet
  <2> QED BY <2>1, <2>2, <2>3, <2>4
          DEF Next, Loop, Server, Send, Chat, ReadClient, ReadEof, Crash, Block, Pass, Forward,
              Respond, RespondEof, RespondFails, StartDrain, EndDrain, vars
<1>2. ASSUME NEW i \in DOMAIN sent PROVE sent[i].request /\ sent[i].method # "malformed"
  <2>1. UNCHANGED sent \/ \E m : sent' = Append(sent, m)
    BY DEF Next, Loop, Server, Send, Chat, Burst, Die, ReadClient, ReadEof, Crash, Block, Pass,
           Forward, Respond, RespondEof, RespondFails, StartDrain, EndDrain, Drain, Accept, Reply, vars, clientVars
  <2>2. i \in DOMAIN sent' /\ sent'[i] = sent[i]
    <3>1. ASSUME NEW m, sent' = Append(sent, m) PROVE i \in DOMAIN sent' /\ sent'[i] = sent[i]
      <4>1. Grows(sent, sent', m) /\ DOMAIN sent = 1..Len(sent) /\ Len(sent) \in Nat
        BY <3>1, AppendGrows DEF TypeOK
      <4> QED BY <4>1 DEF Grows
    <3> QED BY <2>1, <3>1
  <2> QED BY <2>2 DEF Quiet
<1>3. ASSUME NEW i \in DOMAIN replies PROVE replies[i].re # 0
  <2>1. UNCHANGED replies \/ \E m : replies' = Append(replies, m)
    BY DEF Next, Loop, Server, Send, Chat, Burst, Die, ReadClient, ReadEof, Crash, Block, Pass,
           Forward, Respond, RespondEof, RespondFails, StartDrain, EndDrain, Drain, Accept, Reply, vars
  <2>2. i \in DOMAIN replies' /\ replies'[i] = replies[i]
    <3>1. ASSUME NEW m, replies' = Append(replies, m)
          PROVE  i \in DOMAIN replies' /\ replies'[i] = replies[i]
      <4>1. Grows(replies, replies', m) /\ DOMAIN replies = 1..Len(replies) /\ Len(replies) \in Nat
        BY <3>1, AppendGrows DEF TypeOK
      <4> QED BY <4>1 DEF Grows
    <3> QED BY <2>1, <3>1
  <2> QED BY <2>2 DEF Quiet
<1> QED BY <1>1, <1>2, <1>3 DEF Quiet

\* As long as nothing disturbs them, every step keeps the gateway in step.
LEMMA NextSynced ==
    ASSUME TypeOK, InHand, (TypeOK /\ InHand)', Synced, [Next]_vars
    PROVE  Synced'
<1> SUFFICES ASSUME Quiet'
             PROVE  (/\ \A i \in DOMAIN received : received[i].re = i
                     /\ Len(received) = IF gate.pc = "reading" THEN taken ELSE taken - 1
                     /\ IF gate.pc = "waiting" THEN UnderWay ELSE AllServed)'
  BY DEF Synced
<1>1. Quiet /\ upstream.alive /\ upstream'.alive
  BY QuietBefore DEF Quiet
<1>2. /\ upstream \in Servers(Len(forwarded)) /\ gate \in Gates
      /\ upstream.alive /\ upstream'.alive
      /\ DOMAIN replies = 1..Len(replies) /\ Len(replies) \in Nat
      /\ DOMAIN received = 1..Len(received) /\ Len(received) \in Nat
      /\ DOMAIN forwarded = 1..Len(forwarded) /\ Len(forwarded) \in Nat
      /\ DOMAIN sent = 1..Len(sent) /\ Len(sent) \in Nat /\ taken \in 0..Len(sent)
  BY <1>1 DEF TypeOK, Servers, Gates
<1>3. /\ \A i \in DOMAIN received : received[i].re = i
      /\ Len(received) = IF gate.pc = "reading" THEN taken ELSE taken - 1
      /\ IF gate.pc = "waiting" THEN UnderWay ELSE AllServed
  BY <1>1 DEF Synced
<1>4. gate.pc \in {"gating", "forwarding", "waiting"} =>
        gate.msg.pos = taken /\ gate.msg.request /\ taken \in Nat \ {0}
  <2>1. gate.pc \in {"gating", "forwarding", "waiting"} =>
            taken \in DOMAIN sent /\ gate.msg = sent[taken] /\ sent[taken].pos = taken
    BY <1>2 DEF InHand
  <2>2. \A i \in DOMAIN sent : sent[i].request
    BY <1>1 DEF Quiet
  <2> QED BY <1>2, <2>1, <2>2
<1>5. CASE Accept
  <2>1. /\ UNCHANGED <<taken, gate, received, replies, consumed, forwarded>>
        /\ upstream.read < Len(forwarded)
        /\ upstream' = [upstream EXCEPT !.read = @ + 1,
                            !.open = IF forwarded[upstream.read + 1].request
                                     THEN @ \cup {forwarded[upstream.read + 1].pos} ELSE @]
    BY <1>5 DEF Accept, clientVars, gatewayVars
  <2>2. gate.pc = "waiting" /\ UnderWay /\ upstream.read = Len(forwarded) - 1 /\ upstream.open = {}
        /\ consumed = Len(replies)
    BY <1>2, <1>3, <2>1 DEF AllServed, UnderWay
  <2>3. upstream.read + 1 = Len(forwarded) /\ forwarded[upstream.read + 1] = gate.msg
    BY <1>2, <1>3, <2>2 DEF UnderWay
  <2>4. upstream'.read = Len(forwarded) /\ upstream'.open = {taken}
    BY <1>2, <1>3, <1>4, <2>1, <2>2, <2>3 DEF Servers
  <2> QED BY <1>2, <1>3, <2>1, <2>2, <2>4 DEF UnderWay
<1>6. CASE Reply
  <2>1. PICK p \in upstream.open :
            /\ replies' = Append(replies, Answer(p))
            /\ upstream' = [upstream EXCEPT !.open = @ \ {p}]
    BY <1>6 DEF Reply
  <2>2. UNCHANGED <<taken, gate, received, consumed, forwarded>>
    BY <1>6 DEF Reply, clientVars, gatewayVars
  <2>3. /\ gate.pc = "waiting" /\ UnderWay /\ p = taken
        /\ upstream.read = Len(forwarded) /\ upstream.open = {taken} /\ consumed = Len(replies)
    BY <1>3, <2>1 DEF AllServed, UnderWay
  <2>4. Grows(replies, replies', Answer(taken))
    BY <2>1, <2>3, AppendGrows DEF TypeOK
  <2>5. upstream'.read = upstream.read /\ upstream'.open = {}
    BY <1>2, <2>1, <2>3 DEF Servers
  <2> QED BY <1>3, <2>2, <2>3, <2>4, <2>5 DEF UnderWay, Grows
<1>7. CASE ReadClient
  <2>1. /\ taken' = taken + 1 /\ gate.pc = "reading"
        /\ UNCHANGED <<received, replies, consumed, forwarded, upstream>>
        /\ gate'.pc \in {"gating", "forwarding"}
    <3>1. ~ Stop
      BY <1>2, StopEffect
    <3>2. gate' = [pc |-> IF IsToolCall(sent[taken + 1]) THEN "gating" ELSE "forwarding",
                   msg |-> sent[taken + 1]] /\ UNCHANGED upstream
      BY <1>7, <3>1 DEF ReadClient
    <3> QED BY <1>7, <3>2 DEF ReadClient, clientVars
  <2> QED BY <1>2, <1>3, <2>1 DEF AllServed
<1>8. CASE Block
  <2>1. /\ received' = Append(received, BlockedResponse(gate.msg)) /\ gate.pc = "gating"
        /\ gate'.pc = "reading" /\ UNCHANGED <<taken, replies, consumed, forwarded, upstream>>
    BY <1>8 DEF Block
  <2>2. Grows(received, received', BlockedResponse(gate.msg))
    BY <2>1, AppendGrows DEF TypeOK
  <2>3. BlockedResponse(gate.msg).re = taken /\ Len(received) = taken - 1
    BY <1>3, <1>4, <2>1 DEF BlockedResponse
  <2>4. \A i \in DOMAIN received' : received'[i].re = i
    BY <1>2, <1>3, <1>4, <2>1, <2>2, <2>3 DEF Grows
  <2>5. Len(received') = taken
    BY <1>2, <1>3, <1>4, <2>1, <2>2, <2>3 DEF Grows
  <2> QED BY <1>3, <2>1, <2>4, <2>5 DEF AllServed
<1>9. CASE Pass
  <2>1. /\ gate'.pc = "forwarding" /\ gate.pc = "gating"
        /\ UNCHANGED <<taken, received, replies, consumed, forwarded, upstream>>
    BY <1>2, <1>9 DEF Pass, Gates, clientVars
  <2> QED BY <1>3, <2>1 DEF AllServed
<1>10. CASE Forward
  <2>1. /\ forwarded' = Append(forwarded, gate.msg) /\ gate.pc = "forwarding"
        /\ gate' = [gate EXCEPT !.pc = "waiting"]
        /\ UNCHANGED <<taken, received, replies, consumed, upstream>>
    BY <1>2, <1>10 DEF Forward, clientVars
  <2>2. gate'.pc = "waiting" /\ gate'.msg = gate.msg
    BY <1>2, <2>1 DEF Gates
  <2>3. Grows(forwarded, forwarded', gate.msg)
    BY <2>1, AppendGrows DEF TypeOK
  <2>4. UnderWay'
    BY <1>2, <1>3, <2>1, <2>2, <2>3 DEF UnderWay, AllServed, Grows
  <2> QED BY <1>3, <2>1, <2>2, <2>4
<1>11. CASE Respond
  <2>1. /\ received' = Handed(replies[consumed + 1]) /\ consumed' = consumed + 1
        /\ gate.pc = "waiting" /\ gate'.pc = "reading" /\ consumed < Len(replies)
        /\ UNCHANGED <<taken, replies, forwarded, upstream>>
    BY <1>11 DEF Respond
  <2>2. /\ upstream.read = Len(forwarded) /\ upstream.open = {}
        /\ Len(replies) = consumed + 1 /\ replies[consumed + 1] = Answer(taken)
    BY <1>2, <1>3, <2>1 DEF UnderWay
  <2>3. Answer(taken) # Garbage /\ Answer(taken).re = taken
    BY DEF Answer, Garbage
  <2>4. Grows(received, received', Answer(taken))
    BY <2>1, <2>2, <2>3, AppendGrows DEF TypeOK, Handed
  <2>5. Len(received) = taken - 1
    BY <1>3, <2>1
  <2>6. (\A i \in DOMAIN received' : received'[i].re = i) /\ Len(received') = taken
    BY <1>2, <1>3, <1>4, <2>1, <2>3, <2>4, <2>5 DEF Grows
  <2> QED BY <1>3, <2>1, <2>2, <2>6 DEF AllServed
<1>12. CASE Burst \/ Drain
  <2>1. UNCHANGED <<taken, gate, received, replies, consumed, forwarded>>
    BY <1>12 DEF Burst, Drain, clientVars, gatewayVars
  <2>2. upstream'.read = upstream.read /\ upstream'.open = upstream.open
    <3>1. CASE Burst
      BY <1>2, <3>1 DEF Burst, Servers
    <3>2. CASE Drain
      BY <1>2, <3>2 DEF Drain, Servers
    <3> QED BY <1>12, <3>1, <3>2
  <2> QED BY <1>3, <2>1, <2>2 DEF AllServed, UnderWay
<1>13. ~ (Stop \/ Die \/ Chat \/ RespondEof)
  <2>1. ~ Stop
    BY <1>2, StopEffect
  <2>2. ~ Die
    BY <1>2 DEF Die, Servers
  <2>3. ~ Chat
    <3> SUFFICES ASSUME Chat PROVE FALSE
      OBVIOUS
    <3>1. PICK line \in {Chatter, Garbage} : replies' = Append(replies, line)
      BY DEF Chat
    <3>2. Grows(replies, replies', line) /\ line.re = 0
      BY <3>1, AppendGrows DEF TypeOK, Chatter, Garbage
    <3>3. Len(replies) + 1 \in DOMAIN replies'
      BY <1>2, <3>2 DEF Grows
    <3> QED BY <3>2, <3>3 DEF Quiet, Grows
  <2>4. ~ RespondEof
    BY <1>2 DEF RespondEof
  <2> QED BY <2>1, <2>2, <2>3, <2>4
<1>14. CASE UNCHANGED <<taken, gate, received, replies, consumed, forwarded, upstream>>
  BY <1>3, <1>14 DEF AllServed, UnderWay
<1> QED BY <1>5, <1>6, <1>7, <1>8, <1>9, <1>10, <1>11, <1>12, <1>13, <1>14
        DEF Next, Loop, Server, Send, ReadEof, Crash, RespondFails, StartDrain, EndDrain, vars, clientVars, gatewayVars

\* As long as both sides only exchange requests and answers, the client gets the answers in
\* the order of its requests, each before the gateway reads the next one.
THEOREM StaysInStep == Spec => []InStep
<1>1. Init => Synced
  BY DEF Init, Synced, AllServed
<1>2. Synced => InStep
  BY DEF Synced, InStep, Undisturbed, Quiet
<1> QED BY <1>1, <1>2, InitTyped, NextTyped, NextSynced, PTL DEF Spec
=============================================================================
