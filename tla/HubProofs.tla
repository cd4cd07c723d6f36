------------------------------ MODULE HubProofs ------------------------------
(***************************************************************************)
(* Proofs about NodeHub: for any nodes, agents, connections and calls, with *)
(* restarts of the panel unless said otherwise.                             *)
(***************************************************************************)
EXTENDS NodeHub, SequenceTheorems, TLAPS

\* What is taken from a queue and put into one is of the queue's type.
LEMMA QueueTypes ==
    ASSUME NEW S, NEW s \in Seq(S)
    PROVE  /\ \A e \in S : Append(s, e) \in Seq(S)
           /\ s # <<>> => Head(s) \in S /\ Tail(s) \in Seq(S)
           /\ <<>> \in Seq(S)
BY AppendProperties, HeadTailProperties, EmptySeq

\* A request or answer is a number and a call; the pings are neither None nor one.
LEMMA ReqFacts ==
    /\ \A m \in Reqs : m[1] \in Ids /\ m[2] \in Calls /\ m = <<m[1], m[2]>>
    /\ \A m \in Reqs : m \in Msgs
    /\ <<"ping">> \in Msgs /\ <<"pong">> \in Msgs
    /\ \A i \in Ids : i \in Nat /\ i # 0 /\ i <= MaxReq
BY CapAssumption DEF Reqs, Msgs, Ids

\* A step that changes one connection to a well-typed one.
LEMMA TunStep ==
    ASSUME TypeOK, NEW c \in Conns, NEW r \in Tunnel, tun' = [tun EXCEPT ![c] = r]
    PROVE  tun' \in [Conns -> Tunnel]
BY DEF TypeOK

\* A step that changes the locals of one call to well-typed ones.
LEMMA CallStep ==
    ASSUME TypeOK, NEW k \in Calls, NEW r \in Call, call' = [call EXCEPT ![k] = r]
    PROVE  call' \in [Calls -> Call]
BY DEF TypeOK

\* The fields of a well-typed connection.
LEMMA TunFields ==
    ASSUME NEW t \in Tunnel
    PROVE  /\ t.agent \in Agents \cup {None} /\ t.up \in BOOLEAN /\ t.writer \in BOOLEAN
           /\ t.stage \in {"unused", "upgraded", "open", "left", "gone"}
           /\ t.send \in Seq(Reqs) /\ t.closed \in BOOLEAN /\ t.ticks \in 0..2
           /\ t.held \in Reqs \cup {None} /\ t.drop \in Ids \cup {0}
           /\ t.toNode \in Seq(Msgs) /\ t.toHub \in Seq(Msgs)
BY DEF Tunnel

LEMMA FreshType ==
    ASSUME NEW a \in Agents \cup {None}
    PROVE  Fresh(a) \in Tunnel /\ Unused \in Tunnel
<1>1. \A S : <<>> \in Seq(S)
    BY EmptySeq
<1>2. Fresh(a) \in Tunnel
    BY <1>1 DEF Fresh, Tunnel
<1>3. \A t \in Tunnel : [t EXCEPT !.stage = "unused", !.up = FALSE] \in Tunnel
    BY DEF Tunnel
<1>4. Unused \in Tunnel
    <2>1. Fresh(None) \in Tunnel
        BY <1>1 DEF Fresh, Tunnel
    <2> QED
        BY <2>1, <1>3 DEF Unused
<1> QED
    BY <1>2, <1>4

\* What an agent writes leaves every connection well typed.
LEMMA AgentWriteType ==
    ASSUME NEW t \in [Conns -> Tunnel], NEW a \in Agents, NEW m \in Msgs,
           agentConn \in [Agents -> Conns \cup {None}]
    PROVE  AgentWrite(a, m, t) \in [Conns -> Tunnel]
<1> DEFINE c == agentConn[a]
<1>1. CASE c # None /\ t[c].up
    <2>1. c \in Conns /\ t[c] \in Tunnel
        BY <1>1
    <2>2. Append(t[c].toHub, m) \in Seq(Msgs)
        BY <2>1, TunFields, QueueTypes
    <2>3. [t[c] EXCEPT !.toHub = Append(@, m)] \in Tunnel
        BY <2>1, <2>2 DEF Tunnel
    <2>4. AgentWrite(a, m, t) = [t EXCEPT ![c] = [t[c] EXCEPT !.toHub = Append(@, m)]]
        BY <1>1, <2>1 DEF AgentWrite
    <2> QED
        BY <2>1, <2>3, <2>4
<1>2. CASE ~(c # None /\ t[c].up)
    BY <1>2 DEF AgentWrite
<1> QED
    BY <1>1, <1>2

\* The node a connection in use belongs to.
LEMMA NodeType ==
    ASSUME TypeOK, ReaderInv, NEW c \in Conns, tun[c].stage # "unused"
    PROVE  Node(c) \in Nodes /\ tun[c].agent \in Agents
BY NodeOfAssumption DEF Node, ReaderInv

---------------------------------------------------------------------------
(* Type correctness.                                                       *)

\* What the actions of the hub's side of a connection leave well typed.
LEMMA ServeType ==
    ASSUME TypeOK, ReaderInv, NEW c \in Conns, Break(c) \/ Serve(c)
    PROVE  TypeOK'
<1> USE DEF TypeOK
<1>0. tun[c] \in Tunnel /\ c # None
    BY NoneAssumption
<1>1. CASE Break(c)
    <2>1. [tun[c] EXCEPT !.up = FALSE] \in Tunnel
        BY <1>0 DEF Tunnel
    <2>2. tun' \in [Conns -> Tunnel]
        BY <1>1, <2>1 DEF Break
    <2> QED
        BY <1>1, <2>2, CapAssumption DEF Break, hub
<1>2. CASE register(c)
    <2>1. \A d \in Conns : tun[d] \in Tunnel
        BY DEF TypeOK
    <2>2. \A r \in Tunnel : /\ [r EXCEPT !.up = FALSE] \in Tunnel
                            /\ [r EXCEPT !.stage = "open", !.writer = TRUE] \in Tunnel
        BY DEF Tunnel
    <2>3. tun' \in [Conns -> Tunnel]
        BY <1>2, <2>1, <2>2 DEF register
    <2>4. Node(c) \in Nodes
        BY <1>2, NodeType DEF register
    <2> QED
        BY <1>2, <2>3, <2>4 DEF register, Report
<1>3. CASE ReadFail(c)
    <2>1. [tun[c] EXCEPT !.stage = "left", !.toHub = <<>>] \in Tunnel
        <3> HIDE DEF TypeOK
        <3>1. <<>> \in Seq(Msgs)
            OBVIOUS
        <3> QED
            BY <1>0, <3>1 DEF Tunnel
    <2>2. tun' \in [Conns -> Tunnel]
        BY <1>3, <2>1 DEF ReadFail
    <2> QED
        BY <1>3, <2>2 DEF ReadFail, hub
<1>4. CASE unregister(c)
    <2>1. [tun[c] EXCEPT !.stage = "gone", !.closed = TRUE] \in Tunnel
        BY <1>0 DEF Tunnel
    <2>2. tun' = [tun EXCEPT ![c] = [tun[c] EXCEPT !.stage = "gone", !.closed = TRUE]]
        BY <1>4 DEF unregister
    <2>3. tun' \in [Conns -> Tunnel]
        BY <2>1, <2>2, TunStep
    <2>4. Node(c) \in Nodes
        BY <1>4, NodeType DEF unregister
    <2>5. CASE conns[Node(c)] = c
        BY <1>4, <2>3, <2>4, <2>5 DEF unregister, Report
    <2>6. CASE conns[Node(c)] # c
        BY <1>4, <2>3, <2>6 DEF unregister
    <2> QED
        BY <2>5, <2>6
<1> QED
    BY <1>1, <1>2, <1>3, <1>4 DEF Serve

LEMMA TrafficType ==
    ASSUME TypeOK, NEW c \in Conns, Traffic(c) \/ Beat(c)
    PROVE  TypeOK'
<1> USE DEF TypeOK
<1>0. tun[c] \in Tunnel
    OBVIOUS
<1> DEFINE t == tun[c]
<1>f. /\ t.send \in Seq(Reqs) /\ t.toNode \in Seq(Msgs) /\ t.toHub \in Seq(Msgs)
      /\ t.up \in BOOLEAN /\ t.ticks \in 0..2 /\ t.held \in Reqs \cup {None}
      /\ t.drop \in Ids \cup {0}
    BY <1>0, TunFields
<1>1. CASE Read(c)
    <2>1. t.toHub # <<>> /\ Tail(t.toHub) \in Seq(Msgs) /\ Head(t.toHub) \in Msgs
        BY <1>1, <1>f, QueueTypes DEF Read
    <2>2. Append(t.toNode, <<"pong">>) \in Seq(Msgs)
        BY <1>f, QueueTypes, ReqFacts
    <2> DEFINE u == [t EXCEPT !.toHub = Tail(@)]
    <2>3. u \in Tunnel /\ u.toNode = t.toNode
        BY <1>0, <2>1 DEF Tunnel
    <2> HIDE DEF u
    <2>4. [u EXCEPT !.toNode = Append(@, <<"pong">>)] \in Tunnel
        BY <2>2, <2>3 DEF Tunnel
    <2>5. \A m \in Reqs : [u EXCEPT !.held = m] \in Tunnel
        BY <2>3 DEF Tunnel
    <2>6. \E r \in Tunnel : tun' = [tun EXCEPT ![c] = r]
        BY <1>1, <2>3, <2>4, <2>5 DEF Read, u
    <2> QED
        BY <1>1, <2>6, TunStep DEF Read, hub
<1>2. CASE Deliver(c)
    <2>1. t.held \in Reqs /\ t.held[1] \in Ids /\ t.held[2] \in Calls
        BY <1>2, <1>f, ReqFacts DEF Deliver
    <2>2. [t EXCEPT !.held = None, !.drop = t.held[1]] \in Tunnel
        BY <1>0, <2>1 DEF Tunnel
    <2>3. tun' = [tun EXCEPT ![c] = [t EXCEPT !.held = None, !.drop = t.held[1]]]
        BY <1>2 DEF Deliver
    <2>4. tun' \in [Conns -> Tunnel]
        BY <2>2, <2>3, TunStep
    <2>5. PICK k \in Calls :
             call' = IF call[k].ch = None THEN [call EXCEPT ![k].ch = t.held[2]] ELSE call
        BY <1>2 DEF Deliver
    <2>6. [call[k] EXCEPT !.ch = t.held[2]] \in Call
        BY <2>1 DEF Call
    <2>7. call' \in [Calls -> Call]
        BY <2>5, <2>6
    <2> QED
        BY <1>2, <2>4, <2>7 DEF Deliver, hub
<1>3. CASE Drop(c)
    <2>1. [t EXCEPT !.drop = 0] \in Tunnel
        BY <1>0 DEF Tunnel
    <2>2. tun' \in [Conns -> Tunnel]
        BY <1>3, <2>1 DEF Drop
    <2>3. pending' \in [Ids -> Calls \cup {None}]
        BY <1>3, <1>f DEF Drop
    <2> QED
        BY <1>3, <2>2, <2>3 DEF Drop
<1>4. CASE Write(c)
    <2>1. Tail(t.send) \in Seq(Reqs) /\ Head(t.send) \in Msgs
        BY <1>4, <1>f, QueueTypes, ReqFacts DEF Write
    <2>2. Append(t.toNode, Head(t.send)) \in Seq(Msgs)
        BY <2>1, <1>f, QueueTypes
    <2>3. /\ \A q \in Seq(Msgs) : [t EXCEPT !.send = Tail(t.send), !.toNode = q] \in Tunnel
          /\ [t EXCEPT !.send = Tail(t.send), !.writer = FALSE] \in Tunnel
        BY <1>0, <2>1 DEF Tunnel
    <2>4. \/ \E q \in Seq(Msgs) : tun' = [tun EXCEPT ![c] = [t EXCEPT !.send = Tail(t.send), !.toNode = q]]
          \/ tun' = [tun EXCEPT ![c] = [t EXCEPT !.send = Tail(t.send), !.writer = FALSE]]
        BY <1>4, <1>f, <2>2 DEF Write
    <2>5. tun' \in [Conns -> Tunnel]
        BY <2>3, <2>4, TunStep
    <2> QED
        BY <1>4, <2>5 DEF Write, hub
<1>5. CASE WriteEnd(c)
    <2>1. [t EXCEPT !.writer = FALSE] \in Tunnel
        BY <1>0 DEF Tunnel
    <2>2. tun' \in [Conns -> Tunnel]
        BY <1>5, <2>1 DEF WriteEnd
    <2> QED
        BY <1>5, <2>2 DEF WriteEnd, hub
<1>6. CASE Beat(c)
    <2>1. Append(t.toNode, <<"ping">>) \in Seq(Msgs)
        BY <1>f, QueueTypes, ReqFacts
    <2>n. 1 \in 0..2 /\ 2 \in 0..2
        OBVIOUS
    <2>2. \A r \in Tunnel, q \in Seq(Msgs) : [r EXCEPT !.ticks = 1, !.toNode = q] \in Tunnel
        BY <2>n, ZenonT(30) DEF Tunnel
    <2>3. \A r \in Tunnel : [r EXCEPT !.ticks = 2, !.writer = FALSE] \in Tunnel
        BY <2>n, ZenonT(30) DEF Tunnel
    <2>4. CASE t.ticks = 1
        <3>1. tun' = [tun EXCEPT ![c] = [t EXCEPT !.ticks = 2, !.writer = FALSE]]
            BY <1>6, <2>4 DEF Beat
        <3> QED
            BY <3>1, <1>0, <2>3, TunStep, <1>6 DEF Beat, hub
    <2>5. CASE t.ticks # 1
        <3> DEFINE q == IF t.up THEN Append(t.toNode, <<"ping">>) ELSE t.toNode
        <3>1. tun' = [tun EXCEPT ![c] = [t EXCEPT !.ticks = 1, !.toNode = q]]
            BY <1>6, <2>5 DEF Beat
        <3>2. q \in Seq(Msgs)
            BY <1>f, <2>1
        <3> QED
            BY <3>1, <3>2, <1>0, <2>2, TunStep, <1>6 DEF Beat, hub
    <2> QED
        BY <2>4, <2>5
<1> QED
    BY <1>1, <1>2, <1>3, <1>4, <1>5, <1>6 DEF Traffic

LEMMA AgentType ==
    ASSUME TypeOK, NEW a \in Agents,
           Agent(a) \/ \E c \in Conns : Dial(a, c)
    PROVE  TypeOK'
<1> USE DEF TypeOK
<1> DEFINE c == agentConn[a]
<1>1. CASE AgentRead(a)
    <2> DEFINE m == Head(tun[c].toNode)
               t == [tun EXCEPT ![c].toNode = Tail(@)]
    <2>1. c \in Conns /\ tun[c] \in Tunnel /\ tun[c].toNode # <<>>
        BY <1>1 DEF AgentRead
    <2>2. Tail(tun[c].toNode) \in Seq(Msgs) /\ m \in Msgs
        BY <2>1, TunFields, QueueTypes
    <2>3. [tun[c] EXCEPT !.toNode = Tail(@)] \in Tunnel
        BY <2>1, <2>2 DEF Tunnel
    <2>4. t \in [Conns -> Tunnel]
        BY <2>1, <2>3
    <2>5. AgentWrite(a, <<"pong">>, t) \in [Conns -> Tunnel]
        BY <2>4, AgentWriteType, ReqFacts
    <2>6. tun' \in [Conns -> Tunnel]
        BY <1>1, <2>4, <2>5 DEF AgentRead
    <2>7. work' \in [Agents -> SUBSET Reqs]
        BY <1>1 DEF AgentRead
    <2> QED
        BY <1>1, <2>6, <2>7 DEF AgentRead, hub
<1>2. CASE AgentPing(a)
    <2>1. tun' \in [Conns -> Tunnel]
        BY <1>2, AgentWriteType, ReqFacts DEF AgentPing
    <2> QED
        BY <1>2, <2>1 DEF AgentPing, hub
<1>3. CASE setDisconnected(a)
    <2>1. c \in Conns /\ tun[c] \in Tunnel
        BY <1>3 DEF setDisconnected
    <2>2. <<>> \in Seq(Msgs)
        BY EmptySeq
    <2>3. [tun[c] EXCEPT !.toNode = <<>>] \in Tunnel
        BY <2>1, <2>2 DEF Tunnel
    <2>4. tun' \in [Conns -> Tunnel]
        BY <1>3, <2>1, <2>3 DEF setDisconnected
    <2> QED
        BY <1>3, <2>4 DEF setDisconnected, hub
<1>4. ASSUME NEW m \in Reqs, handleRequest(a, m)
      PROVE  TypeOK'
    <2>1. tun' \in [Conns -> Tunnel]
        BY <1>4, AgentWriteType, ReqFacts DEF handleRequest
    <2>2. m[2] \in Calls
        BY ReqFacts
    <2>3. executed' \in [Calls -> Nat]
        BY <1>4, <2>2 DEF handleRequest
    <2> QED
        BY <1>4, <2>1, <2>3 DEF handleRequest, hub
<1>5. ASSUME NEW d \in Conns, Dial(a, d)
      PROVE  TypeOK'
    <2>1. tun' \in [Conns -> Tunnel]
        BY <1>5, FreshType DEF Dial
    <2> QED
        BY <1>5, <2>1 DEF Dial, hub
<1> QED
    BY <1>1, <1>2, <1>3, <1>4, <1>5 DEF Agent

LEMMA RequestType ==
    ASSUME TypeOK, NumbersInv, NEW k \in Calls,
           Request(k) \/ \E n \in Nodes : Lookup(k, n)
    PROVE  TypeOK'
<1> USE DEF TypeOK
<1>0. call[k] \in Call
    OBVIOUS
<1>p. \A r \in Call, q \in {"idle"} \cup Waiting \cup Outcomes :
          /\ [r EXCEPT !.pc = q] \in Call
          /\ \A i \in Ids : [r EXCEPT !.pc = q, !.id = i] \in Call
          /\ \A c \in Conns \cup {None} : [r EXCEPT !.pc = q, !.cs = c] \in Call
    BY DEF Call
<1>q. /\ {"found", "sending", "waiting"} \subseteq Waiting
      /\ {"ok", "offline", "send timeout", "timeout", "panic"} \subseteq Outcomes
    BY DEF Waiting, Outcomes
<1>f. pending' \in [Ids -> Calls \cup {None}] \/ ~Forget(k)
    BY <1>0 DEF Forget, Call
<1>1. ASSUME NEW n \in Nodes, Lookup(k, n)
      PROVE  TypeOK'
    <2>1. call' \in [Calls -> Call]
        BY <1>1, <1>0, <1>p, <1>q DEF Lookup
    <2> QED
        BY <1>1, <2>1 DEF Lookup, hub
<1>2. CASE Number(k)
    <2>1. NextId \in Ids /\ nextReqID' \in 0..MaxReq
        BY <1>2, CapAssumption DEF Number, NextId, Ids
    <2>2. call' \in [Calls -> Call]
        BY <1>2, <1>0, <1>p, <1>q, <2>1 DEF Number
    <2>3. pending' \in [Ids -> Calls \cup {None}]
        BY <1>2, <2>1 DEF Number
    <2> QED
        BY <1>2, <2>1, <2>2, <2>3 DEF Number
<1>3. CASE Send(k)
    <2> DEFINE c == call[k].cs
    <2>0. PICK q \in {"panic", "waiting"} : call' = [call EXCEPT ![k] = [call[k] EXCEPT !.pc = q]]
        BY <1>3 DEF Send
    <2>p. [call[k] EXCEPT !.pc = q] \in Call
        BY <1>0, <1>p, <1>q
    <2>1. call' \in [Calls -> Call]
        BY <2>0, <2>p, CallStep
    <2>2. tun' \in [Conns -> Tunnel]
        <3>1. CASE tun[c].closed
            BY <1>3, <3>1 DEF Send
        <3>2. CASE ~tun[c].closed
            <4>1. c \in Conns /\ call[k].id \in Ids
                BY <1>0, <1>3 DEF Send, NumbersInv, Call
            <4>2. tun[c] \in Tunnel /\ tun[c].send \in Seq(Reqs)
                BY <4>1, TunFields
            <4>3. <<call[k].id, k>> \in Reqs
                BY <4>1 DEF Reqs
            <4>4. Append(tun[c].send, <<call[k].id, k>>) \in Seq(Reqs)
                BY <4>2, <4>3, QueueTypes
            <4>5. [tun[c] EXCEPT !.send = Append(@, <<call[k].id, k>>)] \in Tunnel
                BY <4>2, <4>4 DEF Tunnel
            <4> QED
                BY <1>3, <3>2, <4>1, <4>5 DEF Send
        <3> QED
            BY <3>1, <3>2
    <2> QED
        BY <1>3, <2>1, <2>2 DEF Send, hub
<1>4. CASE SendTimeout(k)
    <2>1. call' \in [Calls -> Call]
        BY <1>4, <1>0, <1>p, <1>q DEF SendTimeout
    <2> QED
        BY <1>4, <1>f, <2>1 DEF SendTimeout
<1>5. CASE Receive(k)
    <2>1. call' \in [Calls -> Call]
        BY <1>5, <1>0, <1>p, <1>q DEF Receive
    <2> QED
        BY <1>5, <2>1 DEF Receive, hub
<1>6. CASE Timeout(k)
    <2>1. call' \in [Calls -> Call]
        BY <1>6, <1>0, <1>p, <1>q DEF Timeout
    <2> QED
        BY <1>6, <1>f, <2>1 DEF Timeout
<1> QED
    BY <1>1, <1>2, <1>3, <1>4, <1>5, <1>6 DEF Request

LEMMA RestartType ==
    ASSUME TypeOK, Restart
    PROVE  TypeOK'
<1> USE DEF TypeOK
<1>1. \A r \in Tunnel : [r EXCEPT !.stage = "gone", !.up = FALSE, !.writer = FALSE,
                                 !.held = None, !.drop = 0] \in Tunnel
    BY DEF Tunnel
<1>2. tun' \in [Conns -> Tunnel]
    BY <1>1 DEF Restart
<1>3. \A r \in Call : /\ [r EXCEPT !.pc = "lost", !.id = 0] \in Call
                      /\ [r EXCEPT !.id = 0] \in Call
    BY DEF Call, Outcomes
<1>4. call' \in [Calls -> Call]
    BY <1>3 DEF Restart
<1>5. /\ conns' \in [Nodes -> Conns \cup {None}] /\ stale' \subseteq Nodes
      /\ pending' \in [Ids -> Calls \cup {None}]
    BY DEF Restart
<1>6. nextReqID' \in 0..MaxReq
    <2>1. nextReqID' = 0
        BY DEF Restart
    <2>2. 0 \in 0..MaxReq
        BY CapAssumption
    <2> QED
        BY <2>1, <2>2
<1>7. UNCHANGED <<reported, agentConn, work, executed, breaks>>
    BY DEF Restart
<1> QED
    BY <1>2, <1>4, <1>5, <1>6, <1>7

---------------------------------------------------------------------------
(* What each action does to the connections.                               *)

\* Only c changes; and which of its fields a step leaves alone.
Only(c) == \A d \in Conns \ {c} : tun'[d] = tun[d]
KeepsReader(c) ==
    /\ tun'[c].agent = tun[c].agent /\ tun'[c].stage = tun[c].stage
    /\ tun'[c].held = tun[c].held /\ tun'[c].drop = tun[c].drop
KeepsRequests(c) == tun'[c].send = tun[c].send /\ tun'[c].toNode = tun[c].toNode
KeepsUp(c) == tun'[c].up = tun[c].up
KeepsAnswers(c) == tun'[c].toHub = tun[c].toHub

LEMMA Changed ==
    ASSUME TypeOK, NEW c \in Conns, NEW r, tun' = [tun EXCEPT ![c] = r]
    PROVE  Only(c) /\ tun'[c] = r
BY DEF TypeOK, Only

LEMMA DialEffect ==
    ASSUME TypeOK, NEW a \in Agents, NEW c \in Conns, Dial(a, c)
    PROVE  /\ Only(c) /\ tun'[c].agent = a /\ tun'[c].stage = "upgraded"
           /\ tun'[c].held = None /\ tun'[c].drop = 0
           /\ tun'[c].send = <<>> /\ tun'[c].toNode = <<>> /\ tun'[c].toHub = <<>>
<1>1. Only(c) /\ tun'[c] = Fresh(a)
    BY Changed DEF Dial
<1> QED
    BY <1>1 DEF Fresh

LEMMA BreakEffect ==
    ASSUME TypeOK, NEW c \in Conns, Break(c)
    PROVE  /\ Only(c) /\ KeepsReader(c) /\ KeepsRequests(c) /\ KeepsAnswers(c)
           /\ tun'[c].up = FALSE
<1>1. tun[c] \in Tunnel
    BY DEF TypeOK
<1>2. tun' = [tun EXCEPT ![c] = [tun[c] EXCEPT !.up = FALSE]]
    BY DEF Break
<1>3. Only(c) /\ tun'[c] = [tun[c] EXCEPT !.up = FALSE]
    BY <1>2, Changed
<1> QED
    BY <1>1, <1>3 DEF KeepsReader, KeepsRequests, KeepsAnswers, Tunnel

LEMMA RegisterEffect ==
    ASSUME TypeOK, NEW c \in Conns, register(c)
    PROVE  /\ \A d \in Conns : /\ tun'[d].agent = tun[d].agent
                               /\ tun'[d].held = tun[d].held /\ tun'[d].drop = tun[d].drop
                               /\ KeepsRequests(d) /\ KeepsAnswers(d)
           /\ tun'[c].stage = "open"
           /\ \A d \in Conns \ {c} :
                 /\ tun'[d].stage = tun[d].stage
                 /\ tun'[d].up = (IF d = conns[Node(c)] THEN FALSE ELSE tun[d].up)
<1>1. \A d \in Conns : tun[d] \in Tunnel
    BY DEF TypeOK
<1>2. \A r \in Tunnel : \A s \in {[r EXCEPT !.stage = "open", !.writer = TRUE], [r EXCEPT !.up = FALSE], r} :
          /\ s.agent = r.agent /\ s.held = r.held /\ s.drop = r.drop
          /\ s.send = r.send /\ s.toNode = r.toNode /\ s.toHub = r.toHub
    BY DEF Tunnel
<1>3. \A r \in Tunnel : /\ [r EXCEPT !.stage = "open", !.writer = TRUE].stage = "open"
                        /\ [r EXCEPT !.up = FALSE].stage = r.stage
                        /\ [r EXCEPT !.up = FALSE].up = FALSE
    BY DEF Tunnel
<1>4. \A d \in Conns : tun'[d] =
         IF d = c THEN [tun[d] EXCEPT !.stage = "open", !.writer = TRUE]
         ELSE IF d = conns[Node(c)] THEN [tun[d] EXCEPT !.up = FALSE]
         ELSE tun[d]
    BY DEF register
<1>5. ASSUME NEW d \in Conns
      PROVE  /\ tun'[d].agent = tun[d].agent
             /\ tun'[d].held = tun[d].held /\ tun'[d].drop = tun[d].drop
             /\ KeepsRequests(d) /\ KeepsAnswers(d)
    <2>1. tun'[d] \in {[tun[d] EXCEPT !.stage = "open", !.writer = TRUE],
                       [tun[d] EXCEPT !.up = FALSE], tun[d]}
        BY <1>4
    <2> QED
        BY <1>1, <1>2, <2>1 DEF KeepsRequests, KeepsAnswers
<1>6. tun'[c].stage = "open"
    <2>1. tun[c] \in Tunnel /\ tun'[c] = [tun[c] EXCEPT !.stage = "open", !.writer = TRUE]
        BY <1>1, <1>4
    <2> QED
        BY <2>1, <1>3
<1>7. \A d \in Conns \ {c} :
          /\ tun'[d].stage = tun[d].stage
          /\ tun'[d].up = (IF d = conns[Node(c)] THEN FALSE ELSE tun[d].up)
    <2> TAKE d \in Conns \ {c}
    <2>1. CASE d = conns[Node(c)]
        <3>1. tun[d] \in Tunnel /\ tun'[d] = [tun[d] EXCEPT !.up = FALSE]
            BY <1>1, <1>4, <2>1
        <3> QED
            BY <3>1, <1>3, <2>1
    <2>2. CASE d # conns[Node(c)]
        BY <1>4, <2>2
    <2> QED
        BY <2>1, <2>2
<1> QED
    BY <1>5, <1>6, <1>7

LEMMA ReadFailEffect ==
    ASSUME TypeOK, NEW c \in Conns, ReadFail(c)
    PROVE  /\ Only(c) /\ KeepsRequests(c) /\ tun'[c].toHub = <<>>
           /\ tun'[c].stage = "left" /\ tun'[c].agent = tun[c].agent
           /\ tun'[c].held = None /\ tun'[c].drop = 0
<1>1. tun[c] \in Tunnel
    BY DEF TypeOK
<1>2. tun' = [tun EXCEPT ![c] = [tun[c] EXCEPT !.stage = "left", !.toHub = <<>>]]
    BY DEF ReadFail
<1>3. Only(c) /\ tun'[c] = [tun[c] EXCEPT !.stage = "left", !.toHub = <<>>]
    BY <1>2, Changed
<1>4. \A r \in Tunnel : LET s == [r EXCEPT !.stage = "left", !.toHub = <<>>] IN
          /\ s.stage = "left" /\ s.toHub = <<>> /\ s.send = r.send /\ s.toNode = r.toNode
          /\ s.agent = r.agent /\ s.held = r.held /\ s.drop = r.drop
    BY DEF Tunnel
<1>5. tun[c].held = None /\ tun[c].drop = 0
    BY DEF ReadFail, Reading
<1> QED
    BY <1>1, <1>3, <1>4, <1>5 DEF KeepsRequests

LEMMA UnregisterEffect ==
    ASSUME TypeOK, NEW c \in Conns, unregister(c)
    PROVE  /\ Only(c) /\ KeepsRequests(c) /\ KeepsAnswers(c)
           /\ tun'[c].stage = "gone" /\ tun'[c].agent = tun[c].agent
           /\ tun'[c].held = tun[c].held /\ tun'[c].drop = tun[c].drop
<1>1. tun[c] \in Tunnel
    BY DEF TypeOK
<1>2. tun' = [tun EXCEPT ![c] = [tun[c] EXCEPT !.stage = "gone", !.closed = TRUE]]
    BY DEF unregister
<1>3. Only(c) /\ tun'[c] = [tun[c] EXCEPT !.stage = "gone", !.closed = TRUE]
    BY <1>2, Changed
<1> QED
    BY <1>1, <1>3 DEF KeepsRequests, KeepsAnswers, Tunnel

LEMMA ReadEffect ==
    ASSUME TypeOK, NEW c \in Conns, Read(c)
    PROVE  /\ Only(c) /\ KeepsUp(c)
           /\ tun'[c].agent = tun[c].agent /\ tun'[c].stage = tun[c].stage
           /\ tun'[c].drop = tun[c].drop /\ tun'[c].send = tun[c].send
           /\ tun'[c].toHub = Tail(tun[c].toHub) /\ tun[c].toHub # <<>>
           /\ \/ tun'[c].held = tun[c].held
              \/ /\ tun'[c].held = Head(tun[c].toHub) /\ Head(tun[c].toHub) \in Reqs
                 /\ pending[Head(tun[c].toHub)[1]] # None
           /\ tun'[c].toNode \in {tun[c].toNode, Append(tun[c].toNode, <<"pong">>)}
<1> DEFINE m == Head(tun[c].toHub)
           t == [tun[c] EXCEPT !.toHub = Tail(@)]
<1>1. tun[c] \in Tunnel
    BY DEF TypeOK
<1>2. /\ t.agent = tun[c].agent /\ t.stage = tun[c].stage /\ t.up = tun[c].up
      /\ t.held = tun[c].held /\ t.drop = tun[c].drop /\ t.send = tun[c].send
      /\ t.toNode = tun[c].toNode /\ t.toHub = Tail(tun[c].toHub)
      /\ DOMAIN t = DOMAIN tun[c]
    BY <1>1 DEF Tunnel
<1>d. /\ DOMAIN t = {"agent", "stage", "up", "writer", "send", "closed", "ticks", "held", "drop", "toNode", "toHub"}
    BY <1>1 DEF Tunnel
<1> HIDE DEF t
<1>3. Only(c) /\ tun'[c] = IF m = <<"ping">> /\ t.up
         THEN [t EXCEPT !.toNode = Append(@, <<"pong">>)]
         ELSE IF m \in Reqs /\ pending[m[1]] # None
         THEN [t EXCEPT !.held = m]
         ELSE t
    BY Changed DEF Read, t
<1>4. tun[c].toHub # <<>>
    BY DEF Read
<1>5. CASE tun'[c] = t
    BY <1>2, <1>3, <1>4, <1>5 DEF KeepsUp
<1>6. CASE tun'[c] = [t EXCEPT !.held = m] /\ m \in Reqs /\ pending[m[1]] # None
    BY <1>2, <1>d, <1>3, <1>4, <1>6 DEF KeepsUp
<1>7. CASE tun'[c] = [t EXCEPT !.toNode = Append(@, <<"pong">>)]
    BY <1>2, <1>d, <1>3, <1>4, <1>7 DEF KeepsUp
<1> QED
    BY <1>3, <1>5, <1>6, <1>7

LEMMA DeliverEffect ==
    ASSUME TypeOK, NEW c \in Conns, Deliver(c)
    PROVE  /\ Only(c) /\ KeepsUp(c) /\ KeepsRequests(c) /\ KeepsAnswers(c)
           /\ tun'[c].agent = tun[c].agent /\ tun'[c].stage = tun[c].stage
           /\ tun'[c].held = None /\ tun'[c].drop = tun[c].held[1]
           /\ tun[c].held \in Reqs
<1>1. tun[c] \in Tunnel
    BY DEF TypeOK
<1> DEFINE i == tun[c].held[1]
<1>2. tun' = [tun EXCEPT ![c] = [tun[c] EXCEPT !.held = None, !.drop = i]]
    BY DEF Deliver
<1>3. tun[c].held \in Reqs
    BY <1>1, TunFields DEF Deliver
<1> HIDE DEF i
<1>4. Only(c) /\ tun'[c] = [tun[c] EXCEPT !.held = None, !.drop = i]
    BY <1>2, Changed
<1>5. /\ KeepsUp(c) /\ KeepsRequests(c) /\ KeepsAnswers(c)
      /\ tun'[c].agent = tun[c].agent /\ tun'[c].stage = tun[c].stage
      /\ tun'[c].held = None /\ tun'[c].drop = i
    BY <1>1, <1>4 DEF KeepsUp, KeepsRequests, KeepsAnswers, Tunnel
<1> QED
    BY <1>3, <1>4, <1>5 DEF i

LEMMA DropEffect ==
    ASSUME TypeOK, NEW c \in Conns, Drop(c)
    PROVE  /\ Only(c) /\ KeepsUp(c) /\ KeepsRequests(c) /\ KeepsAnswers(c)
           /\ tun'[c].agent = tun[c].agent /\ tun'[c].stage = tun[c].stage
           /\ tun'[c].held = tun[c].held /\ tun'[c].drop = 0
<1>1. tun[c] \in Tunnel
    BY DEF TypeOK
<1>2. tun' = [tun EXCEPT ![c] = [tun[c] EXCEPT !.drop = 0]]
    BY DEF Drop
<1>3. Only(c) /\ tun'[c] = [tun[c] EXCEPT !.drop = 0]
    BY <1>2, Changed
<1> QED
    BY <1>1, <1>3 DEF KeepsUp, KeepsRequests, KeepsAnswers, Tunnel

LEMMA WriteEffect ==
    ASSUME TypeOK, NEW c \in Conns, Write(c)
    PROVE  /\ Only(c) /\ KeepsUp(c) /\ KeepsReader(c) /\ KeepsAnswers(c)
           /\ tun[c].send # <<>> /\ tun'[c].send = Tail(tun[c].send)
           /\ tun'[c].toNode \in {tun[c].toNode, Append(tun[c].toNode, Head(tun[c].send))}
<1>1. tun[c] \in Tunnel
    BY DEF TypeOK
<1> DEFINE s == Tail(tun[c].send)
           l == Append(tun[c].toNode, Head(tun[c].send))
<1>2. \/ \E q \in {tun[c].toNode, l} : tun' = [tun EXCEPT ![c] = [tun[c] EXCEPT !.send = s, !.toNode = q]]
      \/ tun' = [tun EXCEPT ![c] = [tun[c] EXCEPT !.send = s, !.writer = FALSE]]
    BY DEF Write
<1> HIDE DEF s, l
<1>3. CASE \E q \in {tun[c].toNode, l} : tun' = [tun EXCEPT ![c] = [tun[c] EXCEPT !.send = s, !.toNode = q]]
    <2>1. PICK q \in {tun[c].toNode, l} : tun' = [tun EXCEPT ![c] = [tun[c] EXCEPT !.send = s, !.toNode = q]]
        BY <1>3
    <2>2. Only(c) /\ tun'[c] = [tun[c] EXCEPT !.send = s, !.toNode = q]
        BY <2>1, Changed
    <2>3. /\ KeepsUp(c) /\ KeepsReader(c) /\ KeepsAnswers(c)
          /\ tun'[c].send = s /\ tun'[c].toNode = q
        BY <1>1, <2>2 DEF KeepsUp, KeepsReader, KeepsAnswers, Tunnel
    <2> QED
        BY <2>2, <2>3 DEF Write, s, l
<1>4. CASE tun' = [tun EXCEPT ![c] = [tun[c] EXCEPT !.send = s, !.writer = FALSE]]
    <2>2. Only(c) /\ tun'[c] = [tun[c] EXCEPT !.send = s, !.writer = FALSE]
        BY <1>4, Changed
    <2>3. /\ KeepsUp(c) /\ KeepsReader(c) /\ KeepsAnswers(c)
          /\ tun'[c].send = s /\ tun'[c].toNode = tun[c].toNode
        BY <1>1, <2>2 DEF KeepsUp, KeepsReader, KeepsAnswers, Tunnel
    <2> QED
        BY <2>2, <2>3 DEF Write, s
<1> QED
    BY <1>2, <1>3, <1>4

LEMMA WriteEndEffect ==
    ASSUME TypeOK, NEW c \in Conns, WriteEnd(c)
    PROVE  Only(c) /\ KeepsUp(c) /\ KeepsReader(c) /\ KeepsRequests(c) /\ KeepsAnswers(c)
<1>1. tun[c] \in Tunnel
    BY DEF TypeOK
<1>2. tun' = [tun EXCEPT ![c] = [tun[c] EXCEPT !.writer = FALSE]]
    BY DEF WriteEnd
<1>3. Only(c) /\ tun'[c] = [tun[c] EXCEPT !.writer = FALSE]
    BY <1>2, Changed
<1> QED
    BY <1>1, <1>3 DEF KeepsUp, KeepsReader, KeepsRequests, KeepsAnswers, Tunnel

LEMMA BeatEffect ==
    ASSUME TypeOK, NEW c \in Conns, Beat(c)
    PROVE  /\ Only(c) /\ KeepsUp(c) /\ KeepsReader(c) /\ KeepsAnswers(c)
           /\ tun'[c].send = tun[c].send
           /\ tun'[c].toNode \in {tun[c].toNode, Append(tun[c].toNode, <<"ping">>)}
<1> DEFINE t == tun[c]
           p == Append(t.toNode, <<"ping">>)
<1>1. t \in Tunnel
    BY DEF TypeOK
<1>2. \/ tun' = [tun EXCEPT ![c] = [t EXCEPT !.ticks = 2, !.writer = FALSE]]
      \/ tun' = [tun EXCEPT ![c] = [t EXCEPT !.ticks = 1, !.toNode = p]]
      \/ tun' = [tun EXCEPT ![c] = [t EXCEPT !.ticks = 1, !.toNode = t.toNode]]
    BY DEF Beat
<1> HIDE DEF p
<1>3. \A q, x : /\ [t EXCEPT !.ticks = x, !.toNode = q].agent = t.agent
                /\ [t EXCEPT !.ticks = x, !.toNode = q].stage = t.stage
                /\ [t EXCEPT !.ticks = x, !.toNode = q].up = t.up
                /\ [t EXCEPT !.ticks = x, !.toNode = q].held = t.held
                /\ [t EXCEPT !.ticks = x, !.toNode = q].drop = t.drop
                /\ [t EXCEPT !.ticks = x, !.toNode = q].send = t.send
                /\ [t EXCEPT !.ticks = x, !.toNode = q].toNode = q
                /\ [t EXCEPT !.ticks = x, !.toNode = q].toHub = t.toHub
    BY <1>1 DEF Tunnel
<1>4. CASE tun' = [tun EXCEPT ![c] = [t EXCEPT !.ticks = 2, !.writer = FALSE]]
    <2>1. Only(c) /\ tun'[c] = [t EXCEPT !.ticks = 2, !.writer = FALSE]
        BY <1>4, Changed
    <2> QED
        BY <1>1, <2>1 DEF KeepsUp, KeepsReader, KeepsAnswers, Tunnel
<1>5. ASSUME NEW q \in {t.toNode, p}, tun' = [tun EXCEPT ![c] = [t EXCEPT !.ticks = 1, !.toNode = q]]
      PROVE  /\ Only(c) /\ KeepsUp(c) /\ KeepsReader(c) /\ KeepsAnswers(c)
             /\ tun'[c].send = tun[c].send /\ tun'[c].toNode = q
    <2>1. Only(c) /\ tun'[c] = [t EXCEPT !.ticks = 1, !.toNode = q]
        BY <1>5, Changed
    <2> QED
        BY <1>3, <2>1 DEF KeepsUp, KeepsReader, KeepsAnswers
<1> QED
    BY <1>2, <1>4, <1>5 DEF p

\* An agent's write only adds to what is in flight to the hub.
LEMMA AgentWriteEffect ==
    ASSUME NEW t \in [Conns -> Tunnel], NEW a \in Agents, NEW m, NEW d \in Conns,
           NEW u, u = AgentWrite(a, m, t)
    PROVE  /\ u[d].agent = t[d].agent /\ u[d].stage = t[d].stage /\ u[d].up = t[d].up
           /\ u[d].held = t[d].held /\ u[d].drop = t[d].drop
           /\ u[d].send = t[d].send /\ u[d].toNode = t[d].toNode
           /\ u[d].toHub = t[d].toHub \/ u[d].toHub = Append(t[d].toHub, m)
<1>1. t[d] \in Tunnel
    OBVIOUS
<1>2. u[d] = t[d] \/ u[d] = [t[d] EXCEPT !.toHub = Append(t[d].toHub, m)]
    BY DEF AgentWrite
<1>3. CASE u[d] = t[d]
    BY <1>3
<1>4. CASE u[d] = [t[d] EXCEPT !.toHub = Append(t[d].toHub, m)]
    BY <1>1, <1>4 DEF Tunnel
<1> QED
    BY <1>2, <1>3, <1>4

LEMMA AgentReadEffect ==
    ASSUME TypeOK, NEW a \in Agents, AgentRead(a)
    PROVE  LET c == agentConn[a] IN
           /\ c \in Conns /\ tun[c].toNode # <<>>
           /\ \A d \in Conns : /\ KeepsReader(d) /\ KeepsUp(d) /\ tun'[d].send = tun[d].send
                               /\ \/ tun'[d].toHub = tun[d].toHub
                                  \/ tun'[d].toHub = Append(tun[d].toHub, <<"pong">>)
           /\ \A d \in Conns \ {c} : tun'[d].toNode = tun[d].toNode
           /\ tun'[c].toNode = Tail(tun[c].toNode)
           /\ work' = IF Head(tun[c].toNode) \in Reqs
                      THEN [work EXCEPT ![a] = @ \cup {Head(tun[c].toNode)}] ELSE work
<1> DEFINE c == agentConn[a]
           t == [tun EXCEPT ![c].toNode = Tail(@)]
<1>1. c \in Conns /\ tun[c].toNode # <<>>
    BY DEF AgentRead, TypeOK
<1>t. \A d \in Conns : tun[d] \in Tunnel
    BY DEF TypeOK
<1>2. Tail(tun[c].toNode) \in Seq(Msgs)
    BY <1>1, <1>t, TunFields, QueueTypes
<1>3. \A r \in Tunnel, q \in Seq(Msgs) : [r EXCEPT !.toNode = q] \in Tunnel
    BY DEF Tunnel
<1>4. t = [tun EXCEPT ![c] = [tun[c] EXCEPT !.toNode = Tail(tun[c].toNode)]]
    OBVIOUS
<1>5. t \in [Conns -> Tunnel]
    BY <1>1, <1>2, <1>3, <1>4, <1>t DEF TypeOK
<1>6. \A d \in Conns : t[d] = IF d = c THEN [tun[d] EXCEPT !.toNode = Tail(tun[c].toNode)] ELSE tun[d]
    BY <1>1, <1>4 DEF TypeOK
<1>7. \A r \in Tunnel : \A q : LET u == [r EXCEPT !.toNode = q] IN
         /\ u.agent = r.agent /\ u.stage = r.stage /\ u.up = r.up /\ u.held = r.held
         /\ u.drop = r.drop /\ u.send = r.send /\ u.toHub = r.toHub /\ u.toNode = q
    BY DEF Tunnel
<1>8. \A d \in Conns : /\ t[d].agent = tun[d].agent /\ t[d].stage = tun[d].stage
                       /\ t[d].up = tun[d].up /\ t[d].held = tun[d].held
                       /\ t[d].drop = tun[d].drop /\ t[d].send = tun[d].send
                       /\ t[d].toHub = tun[d].toHub
                       /\ t[d].toNode = IF d = c THEN Tail(tun[c].toNode) ELSE tun[d].toNode
    <2> TAKE d \in Conns
    <2>1. CASE d = c
        <3>1. tun[d] \in Tunnel /\ t[d] = [tun[d] EXCEPT !.toNode = Tail(tun[c].toNode)]
            BY <1>6, <1>t, <2>1
        <3> HIDE DEF t
        <3> QED
            BY <3>1, <1>7, <2>1
    <2>2. CASE d # c
        BY <1>6, <2>2
    <2> QED
        BY <2>1, <2>2
<1>9. tun' = t \/ tun' = AgentWrite(a, <<"pong">>, t)
    BY DEF AgentRead
<1> HIDE DEF t
<1>10. \A d \in Conns :
           /\ tun'[d].agent = t[d].agent /\ tun'[d].stage = t[d].stage /\ tun'[d].up = t[d].up
           /\ tun'[d].held = t[d].held /\ tun'[d].drop = t[d].drop
           /\ tun'[d].send = t[d].send /\ tun'[d].toNode = t[d].toNode
           /\ tun'[d].toHub = t[d].toHub \/ tun'[d].toHub = Append(t[d].toHub, <<"pong">>)
    BY <1>5, <1>9, AgentWriteEffect
<1>11. \A d \in Conns : /\ KeepsReader(d) /\ KeepsUp(d) /\ tun'[d].send = tun[d].send
                         /\ \/ tun'[d].toHub = tun[d].toHub
                            \/ tun'[d].toHub = Append(tun[d].toHub, <<"pong">>)
                         /\ tun'[d].toNode = t[d].toNode
    BY <1>8, <1>10 DEF KeepsReader, KeepsUp
<1>12. work' = IF Head(tun[c].toNode) \in Reqs
               THEN [work EXCEPT ![a] = @ \cup {Head(tun[c].toNode)}] ELSE work
    BY DEF AgentRead
<1> QED
    BY <1>1, <1>8, <1>11, <1>12

LEMMA AgentSendEffect ==
    ASSUME TypeOK, NEW a \in Agents, NEW m, tun' = AgentWrite(a, m, tun), NEW d \in Conns
    PROVE  /\ KeepsReader(d) /\ KeepsUp(d) /\ KeepsRequests(d)
           /\ tun'[d].toHub = tun[d].toHub \/ tun'[d].toHub = Append(tun[d].toHub, m)
BY AgentWriteEffect DEF TypeOK, KeepsReader, KeepsUp, KeepsRequests

LEMMA DisconnectEffect ==
    ASSUME TypeOK, NEW a \in Agents, setDisconnected(a)
    PROVE  LET c == agentConn[a] IN
           /\ c \in Conns /\ Only(c) /\ KeepsReader(c) /\ KeepsUp(c) /\ KeepsAnswers(c)
           /\ tun'[c].send = tun[c].send /\ tun'[c].toNode = <<>>
<1> DEFINE c == agentConn[a]
<1>1. c \in Conns /\ tun[c] \in Tunnel
    BY DEF setDisconnected, TypeOK
<1>2. tun' = [tun EXCEPT ![c] = [tun[c] EXCEPT !.toNode = <<>>]]
    BY DEF setDisconnected
<1> HIDE DEF c
<1>3. Only(c) /\ tun'[c] = [tun[c] EXCEPT !.toNode = <<>>]
    BY <1>1, <1>2, Changed
<1>4. /\ KeepsReader(c) /\ KeepsUp(c) /\ KeepsAnswers(c)
      /\ tun'[c].send = tun[c].send /\ tun'[c].toNode = <<>>
    BY <1>1, <1>3 DEF KeepsReader, KeepsUp, KeepsAnswers, Tunnel
<1> QED
    BY <1>1, <1>3, <1>4 DEF c

LEMMA SendEffect ==
    ASSUME TypeOK, NumbersInv, NEW k \in Calls, Send(k)
    PROVE  LET c == call[k].cs IN
           \/ call' = [call EXCEPT ![k].pc = "panic"] /\ tun' = tun
           \/ /\ call' = [call EXCEPT ![k].pc = "waiting"]
              /\ c \in Conns /\ call[k].id \in Ids
              /\ Only(c) /\ KeepsReader(c) /\ KeepsUp(c) /\ KeepsAnswers(c)
              /\ tun'[c].toNode = tun[c].toNode
              /\ tun'[c].send = Append(tun[c].send, <<call[k].id, k>>)
<1> DEFINE c == call[k].cs
           s == Append(tun[c].send, <<call[k].id, k>>)
<1>1. CASE tun[c].closed
    BY <1>1 DEF Send
<1>2. CASE ~tun[c].closed
    <2>1. call[k].pc = "sending" /\ call[k] \in Call
        BY DEF Send, TypeOK
    <2>2. c \in Conns /\ call[k].id # 0
        BY <2>1 DEF NumbersInv
    <2>3. call[k].id \in Ids /\ tun[c] \in Tunnel
        BY <2>1, <2>2 DEF Call, TypeOK
    <2>4. call' = [call EXCEPT ![k].pc = "waiting"]
        BY <1>2 DEF Send
    <2>5. tun' = [tun EXCEPT ![c] = [tun[c] EXCEPT !.send = s]]
        BY <1>2 DEF Send
    <2> HIDE DEF s, c
    <2>6. Only(c) /\ tun'[c] = [tun[c] EXCEPT !.send = s]
        BY <2>2, <2>5, Changed
    <2>7. /\ KeepsReader(c) /\ KeepsUp(c) /\ KeepsAnswers(c)
          /\ tun'[c].toNode = tun[c].toNode /\ tun'[c].send = s
        BY <2>3, <2>6 DEF KeepsReader, KeepsUp, KeepsAnswers, Tunnel
    <2> QED
        BY <2>2, <2>3, <2>4, <2>6, <2>7 DEF c, s
<1> QED
    BY <1>1, <1>2

LEMMA RestartEffect ==
    ASSUME TypeOK, Restart, NEW d \in Conns
    PROVE  /\ KeepsRequests(d) /\ KeepsAnswers(d) /\ tun'[d].agent = tun[d].agent
           /\ tun[d].stage = "unused" => tun'[d] = tun[d]
           /\ tun[d].stage # "unused" => /\ tun'[d].stage = "gone" /\ tun'[d].held = None
                                         /\ tun'[d].drop = 0
<1>1. tun[d] \in Tunnel
    BY DEF TypeOK
<1>2. CASE tun[d].stage = "unused"
    BY <1>2 DEF Restart, KeepsRequests, KeepsAnswers
<1>3. CASE tun[d].stage # "unused"
    <2>1. tun'[d] = [tun[d] EXCEPT !.stage = "gone", !.up = FALSE, !.writer = FALSE,
                                   !.held = None, !.drop = 0]
        BY <1>3 DEF Restart
    <2> QED
        BY <1>1, <1>3, <2>1 DEF KeepsRequests, KeepsAnswers, Tunnel
<1> QED
    BY <1>2, <1>3

---------------------------------------------------------------------------
(* What each action does to the calls.                                     *)

OthersKept(k) == \A j \in Calls \ {k} : call'[j] = call[j]

LEMMA PcEffect ==
    ASSUME TypeOK, NEW k \in Calls, NEW q, call' = [call EXCEPT ![k].pc = q]
    PROVE  /\ OthersKept(k) /\ call'[k].pc = q
           /\ call'[k].cs = call[k].cs /\ call'[k].id = call[k].id /\ call'[k].ch = call[k].ch
<1>1. call[k] \in Call
    BY DEF TypeOK
<1>2. OthersKept(k) /\ call'[k] = [call[k] EXCEPT !.pc = q]
    BY DEF TypeOK, OthersKept
<1> QED
    BY <1>1, <1>2 DEF Call

LEMMA LookupEffect ==
    ASSUME TypeOK, NEW k \in Calls, NEW n \in Nodes, Lookup(k, n)
    PROVE  /\ OthersKept(k) /\ call[k].pc = "idle"
           /\ call'[k].pc = (IF conns[n] = None THEN "offline" ELSE "found")
           /\ call'[k].cs = conns[n] /\ call'[k].id = call[k].id /\ call'[k].ch = call[k].ch
<1>1. call[k] \in Call
    BY DEF TypeOK
<1> DEFINE q == IF conns[n] = None THEN "offline" ELSE "found"
<1>2. call[k].pc = "idle" /\ call' = [call EXCEPT ![k] = [call[k] EXCEPT !.pc = q, !.cs = conns[n]]]
    BY DEF Lookup
<1> HIDE DEF q
<1>3. OthersKept(k) /\ call'[k] = [call[k] EXCEPT !.pc = q, !.cs = conns[n]]
    BY <1>2 DEF TypeOK, OthersKept
<1>4. call'[k].pc = q /\ call'[k].cs = conns[n] /\ call'[k].id = call[k].id /\ call'[k].ch = call[k].ch
    BY <1>1, <1>3 DEF Call
<1> QED
    BY <1>2, <1>3, <1>4 DEF q

LEMMA NumberEffect ==
    ASSUME TypeOK, NEW k \in Calls, Number(k)
    PROVE  /\ OthersKept(k) /\ call[k].pc = "found" /\ call'[k].pc = "sending"
           /\ call'[k].cs = call[k].cs /\ call'[k].id = nextReqID + 1 /\ call'[k].ch = call[k].ch
           /\ nextReqID' = nextReqID + 1 /\ nextReqID + 1 \in Ids
           /\ pending' = [pending EXCEPT ![nextReqID + 1] = k]
<1>1. call[k] \in Call
    BY DEF TypeOK
<1>2. call' = [call EXCEPT ![k] = [call[k] EXCEPT !.pc = "sending", !.id = NextId]]
    BY DEF Number
<1>3. OthersKept(k) /\ call'[k] = [call[k] EXCEPT !.pc = "sending", !.id = NextId]
    BY <1>2 DEF TypeOK, OthersKept
<1>4. /\ call'[k].pc = "sending" /\ call'[k].cs = call[k].cs /\ call'[k].id = NextId
      /\ call'[k].ch = call[k].ch
    BY <1>1, <1>3 DEF Call
<1>5. nextReqID + 1 \in Ids
    BY CapAssumption DEF Number, TypeOK, Ids
<1> QED
    BY <1>3, <1>4, <1>5 DEF Number, NextId

LEMMA ChannelEffect ==
    ASSUME TypeOK, NEW c \in Conns, Deliver(c)
    PROVE  \E k \in Calls :
             /\ call[k].id = tun[c].held[1]
             /\ OthersKept(k)
             /\ call'[k].pc = call[k].pc /\ call'[k].cs = call[k].cs
             /\ call'[k].id = call[k].id
             /\ call'[k].ch = (IF call[k].ch = None THEN tun[c].held[2] ELSE call[k].ch)
<1> DEFINE v == tun[c].held[2]
<1>1. PICK k \in Calls :
         /\ call[k].id = tun[c].held[1]
         /\ call' = IF call[k].ch = None THEN [call EXCEPT ![k].ch = v] ELSE call
    BY DEF Deliver
<1>2. call[k] \in Call
    BY DEF TypeOK
<1> HIDE DEF v
<1>3. CASE call[k].ch = None
    <2>1. OthersKept(k) /\ call'[k] = [call[k] EXCEPT !.ch = v]
        BY <1>1, <1>3 DEF TypeOK, OthersKept
    <2>2. /\ call'[k].pc = call[k].pc /\ call'[k].cs = call[k].cs
          /\ call'[k].id = call[k].id /\ call'[k].ch = v
        BY <1>2, <2>1 DEF Call
    <2> QED
        BY <1>1, <1>3, <2>1, <2>2 DEF v
<1>4. CASE call[k].ch # None
    BY <1>1, <1>4 DEF OthersKept
<1> QED
    BY <1>3, <1>4

LEMMA RestartCalls ==
    ASSUME TypeOK, Restart, NEW k \in Calls
    PROVE  /\ call'[k].id = 0 /\ call'[k].ch = call[k].ch
           /\ call'[k].pc = (IF call[k].pc \in Waiting THEN "lost" ELSE call[k].pc)
<1>1. call[k] \in Call
    BY DEF TypeOK
<1>2. CASE call[k].pc \in Waiting
    <2>1. call'[k] = [call[k] EXCEPT !.pc = "lost", !.id = 0]
        BY <1>2 DEF Restart
    <2> QED
        BY <1>1, <1>2, <2>1 DEF Call
<1>3. CASE call[k].pc \notin Waiting
    <2>1. call'[k] = [call[k] EXCEPT !.id = 0]
        BY <1>3 DEF Restart
    <2> QED
        BY <1>1, <1>3, <2>1 DEF Call
<1> QED
    BY <1>2, <1>3

\* A step of Request after the lookup that is not Number: the call moves on,
\* and a timer deletes its entry.
LEMMA RequestEffect ==
    ASSUME TypeOK, NumbersInv, NEW k \in Calls, Request(k), ~Number(k)
    PROVE  /\ nextReqID' = nextReqID
           /\ call[k].pc \in {"sending", "waiting"}
           /\ call'[k].pc \in {"waiting", "panic", "send timeout", "ok", "timeout"}
           /\ call'[k].pc = "waiting" => call[k].pc = "sending"
           /\ call'[k].pc = "panic" => pending' = pending
           /\ OthersKept(k) /\ call'[k].cs = call[k].cs /\ call'[k].id = call[k].id
           /\ call'[k].ch = call[k].ch /\ call[k].id \in Ids
           /\ call'[k].pc = "ok" => call[k].ch # None
           /\ call'[k].pc \in {"send timeout", "timeout"} =>
                 pending' = [pending EXCEPT ![call[k].id] = None]
           /\ call'[k].pc \in {"waiting", "panic", "ok"} => pending' = pending
           /\ \A d \in Conns : KeepsReader(d)
<1>0. call[k] \in Call
    BY DEF TypeOK
<1>i. ASSUME call[k].pc \in {"sending", "waiting"} PROVE call[k].id \in Ids
    BY <1>0, <1>i DEF NumbersInv, Call
<1>u. ASSUME tun' = tun PROVE \A d \in Conns : KeepsReader(d)
    BY <1>u DEF KeepsReader
<1>1. CASE Send(k)
    <2>1. call[k].pc = "sending" /\ UNCHANGED <<nextReqID, pending>>
        BY <1>1 DEF Send, hub
    <2>2. PICK q \in {"panic", "waiting"} : call' = [call EXCEPT ![k].pc = q]
        BY <1>1 DEF Send
    <2>3. \A d \in Conns : KeepsReader(d)
        BY <1>1, <1>u, SendEffect DEF Only, KeepsReader
    <2> QED
        BY <1>i, <2>1, <2>2, <2>3, PcEffect
<1>2. CASE SendTimeout(k)
    <2>1. call[k].pc = "sending" /\ call' = [call EXCEPT ![k].pc = "send timeout"]
        BY <1>2 DEF SendTimeout
    <2>2. /\ UNCHANGED <<nextReqID, tun>> /\ pending' = [pending EXCEPT ![call[k].id] = None]
        BY <1>2 DEF SendTimeout, Forget
    <2>3. /\ OthersKept(k) /\ call'[k].pc = "send timeout"
          /\ call'[k].cs = call[k].cs /\ call'[k].id = call[k].id /\ call'[k].ch = call[k].ch
        BY <2>1, PcEffect
    <2>4. (\A d \in Conns : KeepsReader(d)) /\ call[k].id \in Ids
        BY <1>i, <1>u, <2>1, <2>2
    <2> QED
        BY <2>1, <2>2, <2>3, <2>4
<1>3. CASE Receive(k)
    <2>1. call[k].pc = "waiting" /\ call[k].ch # None /\ call' = [call EXCEPT ![k].pc = "ok"]
        BY <1>3 DEF Receive
    <2>2. UNCHANGED <<nextReqID, tun, pending>>
        BY <1>3 DEF Receive, hub
    <2>3. /\ OthersKept(k) /\ call'[k].pc = "ok"
          /\ call'[k].cs = call[k].cs /\ call'[k].id = call[k].id /\ call'[k].ch = call[k].ch
        BY <2>1, PcEffect
    <2>4. (\A d \in Conns : KeepsReader(d)) /\ call[k].id \in Ids
        BY <1>i, <1>u, <2>1, <2>2
    <2> QED
        BY <2>1, <2>2, <2>3, <2>4
<1>4. CASE Timeout(k)
    <2>1. call[k].pc = "waiting" /\ call' = [call EXCEPT ![k].pc = "timeout"]
        BY <1>4 DEF Timeout
    <2>2. /\ UNCHANGED <<nextReqID, tun>> /\ pending' = [pending EXCEPT ![call[k].id] = None]
        BY <1>4 DEF Timeout, Forget
    <2>3. /\ OthersKept(k) /\ call'[k].pc = "timeout"
          /\ call'[k].cs = call[k].cs /\ call'[k].id = call[k].id /\ call'[k].ch = call[k].ch
        BY <2>1, PcEffect
    <2>4. (\A d \in Conns : KeepsReader(d)) /\ call[k].id \in Ids
        BY <1>i, <1>u, <2>1, <2>2
    <2> QED
        BY <2>1, <2>2, <2>3, <2>4
<1> QED
    BY <1>1, <1>2, <1>3, <1>4 DEF Request

---------------------------------------------------------------------------
(* The inductive steps.                                                    *)

LEMMA ReaderStep ==
    ASSUME TypeOK, ReaderInv, NumbersInv, Next
    PROVE  ReaderInv'
<1>k. ASSUME \A d \in Conns : KeepsReader(d) PROVE ReaderInv'
    BY <1>k DEF ReaderInv, KeepsReader
<1>o. ASSUME NEW c \in Conns, Only(c), KeepsReader(c) PROVE \A d \in Conns : KeepsReader(d)
    BY <1>o DEF Only, KeepsReader
<1>1. ASSUME NEW a \in Agents, NEW c \in Conns, Dial(a, c) PROVE ReaderInv'
    BY <1>1, DialEffect DEF ReaderInv, Only
<1>2. ASSUME NEW c \in Conns, Break(c) PROVE ReaderInv'
    BY <1>2, <1>k, <1>o, BreakEffect
<1>3. ASSUME NEW c \in Conns, register(c) PROVE ReaderInv'
    <2>1. tun[c].stage = "upgraded"
        BY <1>3 DEF register
    <2> QED
        BY <1>3, <2>1, RegisterEffect DEF ReaderInv
<1>4. ASSUME NEW c \in Conns, ReadFail(c) PROVE ReaderInv'
    <2>1. tun[c].stage = "open"
        BY <1>4 DEF ReadFail, Reading
    <2> QED
        BY <1>4, <2>1, ReadFailEffect DEF ReaderInv, Only
<1>5. ASSUME NEW c \in Conns, unregister(c) PROVE ReaderInv'
    <2>1. tun[c].stage = "left"
        BY <1>5 DEF unregister
    <2> QED
        BY <1>5, <2>1, UnregisterEffect DEF ReaderInv, Only
<1>6. ASSUME NEW c \in Conns, Read(c) PROVE ReaderInv'
    <2>1. tun[c].stage = "open" /\ tun[c].drop = 0
        BY <1>6 DEF Read, Reading
    <2> QED
        BY <1>6, <2>1, ReadEffect DEF ReaderInv, Only
<1>7. ASSUME NEW c \in Conns, Deliver(c) PROVE ReaderInv'
    <2>1. tun[c].held # None
        BY <1>7 DEF Deliver
    <2> QED
        BY <1>7, <2>1, DeliverEffect DEF ReaderInv, Only
<1>8. ASSUME NEW c \in Conns, Drop(c) PROVE ReaderInv'
    BY <1>8, DropEffect DEF ReaderInv, Only
<1>9. ASSUME NEW c \in Conns, Write(c) \/ WriteEnd(c) \/ Beat(c) PROVE ReaderInv'
    BY <1>9, <1>k, <1>o, WriteEffect, WriteEndEffect, BeatEffect
<1>10. ASSUME NEW a \in Agents, Agent(a) PROVE ReaderInv'
    <2>1. CASE AgentRead(a)
        BY <2>1, <1>k, AgentReadEffect
    <2>2. CASE AgentPing(a)
        BY <2>2, <1>k, AgentSendEffect DEF AgentPing
    <2>3. CASE setDisconnected(a)
        BY <2>3, <1>k, <1>o, DisconnectEffect
    <2>4. ASSUME NEW m \in Reqs, handleRequest(a, m) PROVE ReaderInv'
        BY <2>4, <1>k, AgentSendEffect DEF handleRequest
    <2> QED
        BY <1>10, <2>1, <2>2, <2>3, <2>4 DEF Agent
<1>11. CASE tun' = tun
    BY <1>11 DEF ReaderInv
<1>12. ASSUME NEW k \in Calls, Request(k) PROVE ReaderInv'
    <2>1. CASE Number(k)
        BY <2>1, <1>11 DEF Number
    <2> QED
        BY <1>12, <2>1, <1>k, RequestEffect
<1>13. ASSUME NEW k \in Calls, NEW n \in Nodes, Lookup(k, n) PROVE ReaderInv'
    BY <1>13, <1>11 DEF Lookup
<1>14. CASE Restart
    BY <1>14, RestartEffect DEF ReaderInv
<1> QED
    BY <1>1, <1>2, <1>3, <1>4, <1>5, <1>6, <1>7, <1>8, <1>9, <1>10, <1>12, <1>13, <1>14
       DEF Next, Serve, Traffic

\* Steps that concern neither a call nor an entry of pending.
Quiet == /\ UNCHANGED <<call, pending, nextReqID>>
         /\ \A d \in Conns : tun'[d].drop = tun[d].drop

LEMMA CallCases ==
    ASSUME TypeOK, ReaderInv, Next
    PROVE  \/ Quiet
           \/ \E c \in Conns : Deliver(c) \/ Drop(c)
           \/ \E k \in Calls : Request(k) \/ \E n \in Nodes : Lookup(k, n)
           \/ Restart
<1>1. ASSUME NEW a \in Agents, NEW c \in Conns, Dial(a, c) PROVE Quiet
    <2>1. tun[c].drop = 0
        BY <1>1 DEF Dial, Recyclable, ReaderInv
    <2>2. UNCHANGED <<call, pending, nextReqID>>
        BY <1>1 DEF Dial, hub
    <2> QED
        BY <1>1, <2>1, <2>2, DialEffect DEF Quiet, Only
<1>2. ASSUME NEW c \in Conns, Break(c) PROVE Quiet
    <2>1. UNCHANGED <<call, pending, nextReqID>>
        BY <1>2 DEF Break, hub
    <2> QED
        BY <1>2, <2>1, BreakEffect DEF Quiet, Only, KeepsReader
<1>3. ASSUME NEW c \in Conns, register(c) PROVE Quiet
    <2>1. UNCHANGED <<call, pending, nextReqID>>
        BY <1>3 DEF register
    <2> QED
        BY <1>3, <2>1, RegisterEffect DEF Quiet
<1>4. ASSUME NEW c \in Conns, ReadFail(c) PROVE Quiet
    <2>1. UNCHANGED <<call, pending, nextReqID>> /\ tun[c].drop = 0
        BY <1>4 DEF ReadFail, Reading, hub
    <2> QED
        BY <1>4, <2>1, ReadFailEffect DEF Quiet, Only
<1>5. ASSUME NEW c \in Conns, unregister(c) PROVE Quiet
    <2>1. UNCHANGED <<call, pending, nextReqID>>
        BY <1>5 DEF unregister
    <2> QED
        BY <1>5, <2>1, UnregisterEffect DEF Quiet, Only
<1>6. ASSUME NEW c \in Conns, Read(c) PROVE Quiet
    <2>1. UNCHANGED <<call, pending, nextReqID>>
        BY <1>6 DEF Read, hub
    <2> QED
        BY <1>6, <2>1, ReadEffect DEF Quiet, Only
<1>7. ASSUME NEW c \in Conns, Write(c) PROVE Quiet
    <2>1. UNCHANGED <<call, pending, nextReqID>>
        BY <1>7 DEF Write, hub
    <2> QED
        BY <1>7, <2>1, WriteEffect DEF Quiet, Only, KeepsReader
<1>8. ASSUME NEW c \in Conns, WriteEnd(c) PROVE Quiet
    <2>1. UNCHANGED <<call, pending, nextReqID>>
        BY <1>8 DEF WriteEnd, hub
    <2> QED
        BY <1>8, <2>1, WriteEndEffect DEF Quiet, Only, KeepsReader
<1>9. ASSUME NEW c \in Conns, Beat(c) PROVE Quiet
    <2>1. UNCHANGED <<call, pending, nextReqID>>
        BY <1>9 DEF Beat, hub
    <2> QED
        BY <1>9, <2>1, BeatEffect DEF Quiet, Only, KeepsReader
<1>10. ASSUME NEW a \in Agents, Agent(a) PROVE Quiet
    <2>1. UNCHANGED <<call, pending, nextReqID>>
        BY <1>10 DEF Agent, AgentRead, AgentPing, setDisconnected, handleRequest, hub
    <2>2. CASE AgentRead(a)
        BY <2>1, <2>2, AgentReadEffect DEF Quiet, KeepsReader
    <2>3. CASE AgentPing(a)
        BY <2>1, <2>3, AgentSendEffect DEF Quiet, KeepsReader, AgentPing
    <2>4. CASE setDisconnected(a)
        BY <2>1, <2>4, DisconnectEffect DEF Quiet, KeepsReader, Only
    <2>5. ASSUME NEW m \in Reqs, handleRequest(a, m) PROVE Quiet
        BY <2>1, <2>5, AgentSendEffect DEF Quiet, KeepsReader, handleRequest
    <2> QED
        BY <1>10, <2>2, <2>3, <2>4, <2>5 DEF Agent
<1> QED
    BY <1>1, <1>2, <1>3, <1>4, <1>5, <1>6, <1>7, <1>8, <1>9, <1>10 DEF Next, Serve, Traffic

LEMMA NumbersStep ==
    ASSUME TypeOK, ReaderInv, NumbersInv, Next
    PROVE  NumbersInv'
<1>t. \A k \in Calls : /\ call[k].id \in Nat /\ call[k].cs \in Conns \cup {None}
                       /\ call[k].pc \in {"idle"} \cup Waiting \cup Outcomes
    BY CapAssumption DEF TypeOK, Call, Ids
<1>n. nextReqID \in Nat
    BY CapAssumption DEF TypeOK
<1>1. CASE Quiet
    BY <1>1 DEF Quiet, NumbersInv
<1>2. ASSUME NEW c \in Conns, Deliver(c) PROVE NumbersInv'
    <2>1. PICK k \in Calls :
             /\ call[k].id = tun[c].held[1]
             /\ OthersKept(k)
             /\ call'[k].pc = call[k].pc /\ call'[k].cs = call[k].cs
             /\ call'[k].id = call[k].id
        BY <1>2, ChannelEffect
    <2>2. call[k].id # 0 /\ call[k].pc \notin {"idle", "found", "offline"}
        BY <1>2, <2>1, DeliverEffect, ReqFacts DEF NumbersInv
    <2>3. nextReqID' = nextReqID
        BY <1>2 DEF Deliver, hub
    <2> QED
        BY <2>1, <2>2, <2>3 DEF NumbersInv, OthersKept
<1>3. ASSUME NEW c \in Conns, Drop(c) PROVE NumbersInv'
    BY <1>3 DEF Drop, NumbersInv
<1>4. ASSUME NEW k \in Calls, NEW n \in Nodes, Lookup(k, n) PROVE NumbersInv'
    <2>1. nextReqID' = nextReqID /\ conns[n] \in Conns \cup {None}
        BY <1>4 DEF Lookup, hub, TypeOK
    <2> QED
        BY <1>4, <2>1, LookupEffect DEF NumbersInv, OthersKept
<1>5. ASSUME NEW k \in Calls, Number(k) PROVE NumbersInv'
    <2>1. /\ OthersKept(k) /\ call[k].pc = "found" /\ call'[k].pc = "sending"
          /\ call'[k].cs = call[k].cs /\ call'[k].id = nextReqID + 1
          /\ nextReqID' = nextReqID + 1
        BY <1>5, NumberEffect
    <2>2. \A j \in Calls \ {k} : call'[j].id <= nextReqID /\ call'[j] = call[j]
        BY <2>1 DEF NumbersInv, OthersKept
    <2>3. \A j \in Calls : call'[j].id <= nextReqID'
        BY <1>n, <1>t, <2>1, <2>2 DEF OthersKept
    <2>4. \A j \in Calls \ {k} : call'[j].id # call'[k].id
        BY <1>n, <1>t, <2>1, <2>2
    <2>5. call'[k].id # 0 /\ call'[k].cs \in Conns
        BY <1>n, <2>1 DEF NumbersInv
    <2>6. \A i, j \in Calls : call'[i].id = call'[j].id /\ call'[i].id # 0 => i = j
        BY <2>2, <2>4 DEF NumbersInv
    <2> QED
        BY <2>1, <2>2, <2>3, <2>5, <2>6 DEF NumbersInv
<1>6. ASSUME NEW k \in Calls, Request(k), ~Number(k) PROVE NumbersInv'
    <2>1. /\ nextReqID' = nextReqID /\ OthersKept(k)
          /\ call[k].pc \in {"sending", "waiting"}
          /\ call'[k].pc \in {"waiting", "panic", "send timeout", "ok", "timeout"}
          /\ call'[k].cs = call[k].cs /\ call'[k].id = call[k].id
        BY <1>6, RequestEffect
    <2>2. \A j \in Calls : /\ call'[j].id = call[j].id /\ call'[j].cs = call[j].cs
                           /\ j # k => call'[j] = call[j]
        BY <2>1 DEF OthersKept
    <2>3. /\ call[k].id # 0 /\ call[k].cs \in Conns
          /\ call'[k].pc \notin {"idle", "found", "offline"}
        BY <2>1 DEF NumbersInv
    <2>4. \A j \in Calls : call'[j].id <= nextReqID'
        BY <2>1, <2>2 DEF NumbersInv
    <2>5. \A j \in Calls : call'[j].pc \in {"idle", "found", "offline"} =>
              call'[j].id = 0 /\ call'[j].ch = None
        BY <2>2, <2>3 DEF NumbersInv
    <2>6. \A j \in Calls : call'[j].pc \in {"sending", "waiting"} =>
              call'[j].id # 0 /\ call'[j].cs \in Conns
        BY <2>2, <2>3 DEF NumbersInv
    <2>7. \A j \in Calls : call'[j].pc = "found" => call'[j].cs \in Conns
        BY <2>2, <2>3 DEF NumbersInv
    <2>8. \A i, j \in Calls : call'[i].id = call'[j].id /\ call'[i].id # 0 => i = j
        BY <2>2 DEF NumbersInv
    <2> QED
        BY <2>4, <2>5, <2>6, <2>7, <2>8 DEF NumbersInv
<1>7. CASE Restart
    <2>1. nextReqID' = 0
        BY <1>7 DEF Restart
    <2>2. \A k \in Calls : /\ call'[k].id = 0 /\ call'[k].ch = call[k].ch
                           /\ call'[k].pc = (IF call[k].pc \in Waiting THEN "lost" ELSE call[k].pc)
        BY <1>7, RestartCalls
    <2>3. \A k \in Calls : /\ call'[k].pc \notin Waiting
                           /\ call'[k].pc \in {"idle", "offline"} => call[k].pc = call'[k].pc
        BY <2>2 DEF Waiting
    <2> QED
        BY <2>1, <2>2, <2>3 DEF NumbersInv, Waiting
<1> QED
    BY <1>1, <1>2, <1>3, <1>4, <1>5, <1>6, <1>7, CallCases

LEMMA EntriesStep ==
    ASSUME HubInv, Next
    PROVE  EntriesInv'
<1> USE DEF HubInv
<1>p. /\ pending \in [Ids -> Calls \cup {None}] /\ None \notin Calls
      /\ \A i \in Ids : i # 0
    BY NoneAssumption, ReqFacts DEF TypeOK
<1>1. CASE Quiet
    BY <1>1 DEF Quiet, EntriesInv
<1>2. ASSUME NEW c \in Conns, Deliver(c) PROVE EntriesInv'
    <2>1. PICK k \in Calls :
             /\ call[k].id = tun[c].held[1] /\ OthersKept(k) /\ call'[k].id = call[k].id
        BY <1>2, ChannelEffect
    <2>2. pending' = pending
        BY <1>2 DEF Deliver, hub
    <2>3. Only(c) /\ tun'[c].drop = tun[c].held[1] /\ tun[c].drop = 0
        BY <1>2, DeliverEffect DEF ReaderInv, Deliver
    <2>4. \A i \in Ids : pending[i] = k => tun'[c].drop = i
        BY <1>p, <2>1, <2>3 DEF EntriesInv
    <2>5. \A i \in Ids, d \in Conns : tun[d].drop = i => tun'[d].drop = i
        BY <1>p, <2>3 DEF Only
    <2>6. \A j \in Calls : call'[j].id = call[j].id /\ (j # k => call'[j].ch = call[j].ch)
        BY <2>1 DEF OthersKept
    <2> QED
        BY <1>p, <2>2, <2>4, <2>5, <2>6 DEF EntriesInv
<1>3. ASSUME NEW c \in Conns, Drop(c) PROVE EntriesInv'
    <2>1. /\ Only(c) /\ tun'[c].drop = 0 /\ call' = call
          /\ tun[c].drop \in Ids /\ pending' = [pending EXCEPT ![tun[c].drop] = None]
        BY <1>3, DropEffect, TunFields DEF Drop, TypeOK
    <2>2. \A i \in Ids : pending'[i] # None => pending'[i] = pending[i] /\ tun[c].drop # i
        BY <1>p, <2>1
    <2>3. \A i \in Ids, d \in Conns : tun[d].drop = i /\ tun[c].drop # i => tun'[d].drop = i
        BY <2>1 DEF Only
    <2> QED
        BY <2>1, <2>2, <2>3 DEF EntriesInv
<1>4. ASSUME NEW k \in Calls, NEW n \in Nodes, Lookup(k, n) PROVE EntriesInv'
    <2>1. UNCHANGED <<pending, tun>>
        BY <1>4 DEF Lookup, hub
    <2>2. \A j \in Calls : call'[j].id = call[j].id /\ call'[j].ch = call[j].ch
        BY <1>4, LookupEffect DEF OthersKept
    <2> QED
        BY <1>p, <2>1, <2>2 DEF EntriesInv
<1>5. ASSUME NEW k \in Calls, Number(k) PROVE EntriesInv'
    <2>1. /\ OthersKept(k) /\ call'[k].id = nextReqID + 1 /\ call'[k].ch = call[k].ch
          /\ nextReqID + 1 \in Ids /\ pending' = [pending EXCEPT ![nextReqID + 1] = k]
          /\ call[k].pc = "found"
        BY <1>5, NumberEffect
    <2>2. call[k].id = 0 /\ call[k].ch = None /\ tun' = tun
        BY <2>1, <1>5 DEF NumbersInv, Number
    <2>3. \A i \in Ids : pending[i] # k
        BY <1>p, <2>2 DEF EntriesInv
    <2>4. \A i \in Ids : pending'[i] # None =>
             \/ i = nextReqID + 1 /\ pending'[i] = k
             \/ pending'[i] = pending[i] /\ pending[i] \in Calls \ {k}
        BY <1>p, <2>1, <2>3
    <2> QED
        BY <2>1, <2>2, <2>4 DEF EntriesInv, OthersKept
<1>6. ASSUME NEW k \in Calls, Request(k), ~Number(k) PROVE EntriesInv'
    <2>1. /\ OthersKept(k) /\ call'[k].id = call[k].id /\ call'[k].ch = call[k].ch
          /\ call[k].id \in Ids
          /\ pending' = pending \/ pending' = [pending EXCEPT ![call[k].id] = None]
          /\ \A d \in Conns : KeepsReader(d)
        BY <1>6, RequestEffect
    <2>2. \A j \in Calls : call'[j].id = call[j].id /\ call'[j].ch = call[j].ch
        BY <2>1 DEF OthersKept
    <2>3. \A i \in Ids : pending'[i] # None => pending'[i] = pending[i]
        BY <1>p, <2>1
    <2> QED
        BY <1>p, <2>1, <2>2, <2>3 DEF EntriesInv, KeepsReader
<1>7. CASE Restart
    BY <1>7 DEF Restart, EntriesInv
<1> QED
    BY <1>1, <1>2, <1>3, <1>4, <1>5, <1>6, <1>7, CallCases

LEMMA PendingStep ==
    ASSUME HubInv, PendingOwned, Next
    PROVE  PendingOwned'
<1> USE DEF HubInv
<1>p. /\ pending \in [Ids -> Calls \cup {None}] /\ None \notin Calls
      /\ \A i \in Ids : i # 0
    BY NoneAssumption, ReqFacts DEF TypeOK
<1>1. CASE Quiet
    BY <1>1 DEF Quiet, PendingOwned
<1>2. ASSUME NEW c \in Conns, Deliver(c) PROVE PendingOwned'
    <2>1. PICK k \in Calls : OthersKept(k) /\ call'[k].pc = call[k].pc
        BY <1>2, ChannelEffect
    <2>2. pending' = pending
        BY <1>2 DEF Deliver, hub
    <2>3. Only(c) /\ tun[c].drop = 0
        BY <1>2, DeliverEffect DEF ReaderInv, Deliver
    <2>4. \A i \in Ids, d \in Conns : tun[d].drop = i => tun'[d].drop = i
        BY <1>p, <2>3 DEF Only
    <2>5. \A j \in Calls : call'[j].pc = call[j].pc
        BY <2>1 DEF OthersKept
    <2> QED
        BY <1>p, <2>2, <2>4, <2>5 DEF PendingOwned
<1>3. ASSUME NEW c \in Conns, Drop(c) PROVE PendingOwned'
    <2>1. /\ Only(c) /\ tun'[c].drop = 0 /\ call' = call
          /\ tun[c].drop \in Ids /\ pending' = [pending EXCEPT ![tun[c].drop] = None]
        BY <1>3, DropEffect, TunFields DEF Drop, TypeOK
    <2>2. \A i \in Ids : pending'[i] # None => pending'[i] = pending[i] /\ tun[c].drop # i
        BY <1>p, <2>1
    <2>3. \A i \in Ids, d \in Conns : tun[d].drop = i /\ tun[c].drop # i => tun'[d].drop = i
        BY <2>1 DEF Only
    <2> QED
        BY <2>1, <2>2, <2>3 DEF PendingOwned
<1>4. ASSUME NEW k \in Calls, NEW n \in Nodes, Lookup(k, n) PROVE PendingOwned'
    <2>1. UNCHANGED <<pending, tun>> /\ OthersKept(k) /\ call[k].pc = "idle"
        BY <1>4, LookupEffect DEF Lookup, hub
    <2>2. \A i \in Ids : pending[i] # k
        BY <1>p, <2>1 DEF EntriesInv, NumbersInv
    <2> QED
        BY <1>p, <2>1, <2>2 DEF PendingOwned, OthersKept
<1>5. ASSUME NEW k \in Calls, Number(k) PROVE PendingOwned'
    <2>1. /\ OthersKept(k) /\ call'[k].pc = "sending"
          /\ nextReqID + 1 \in Ids /\ pending' = [pending EXCEPT ![nextReqID + 1] = k]
        BY <1>5, NumberEffect
    <2>2. tun' = tun
        BY <1>5 DEF Number
    <2>4. \A i \in Ids : pending'[i] = k \/ pending'[i] = pending[i]
        BY <1>p, <2>1
    <2> QED
        BY <1>p, <2>1, <2>2, <2>4 DEF PendingOwned, OthersKept
<1>6. ASSUME NEW k \in Calls, Request(k), ~Number(k) PROVE PendingOwned'
    <2>1. /\ OthersKept(k) /\ call[k].id \in Ids
          /\ call'[k].pc \in {"waiting", "panic", "send timeout", "ok", "timeout"}
          /\ call'[k].pc = "ok" => call[k].ch # None /\ pending' = pending
          /\ call'[k].pc \in {"send timeout", "timeout"} =>
                 pending' = [pending EXCEPT ![call[k].id] = None]
          /\ call'[k].pc \in {"waiting", "panic"} => pending' = pending
        BY <1>6, RequestEffect
    <2>2. \A d \in Conns : tun'[d].drop = tun[d].drop
        BY <1>6, RequestEffect DEF KeepsReader
    <2>3. \A i \in Ids : pending'[i] # None => pending'[i] = pending[i]
        BY <1>p, <2>1
    <2>4. ASSUME NEW i \in Ids, pending'[i] # None
          PROVE  \/ call'[pending'[i]].pc \in {"sending", "waiting", "panic"}
                 \/ \E c \in Conns : tun'[c].drop = i
        <3>1. pending'[i] = pending[i] /\ pending[i] \in Calls
            BY <1>p, <2>3, <2>4
        <3>2. CASE pending[i] # k
            BY <2>1, <2>2, <3>1, <3>2, <2>4 DEF PendingOwned, OthersKept
        <3>3. CASE pending[i] = k
            <4>1. call[k].id = i
                BY <1>p, <3>3 DEF EntriesInv
            <4>2. CASE call'[k].pc \in {"waiting", "panic"}
                BY <3>1, <3>3, <4>2
            <4>3. CASE call'[k].pc = "ok"
                BY <2>1, <2>2, <3>1, <3>3, <4>3, <2>4 DEF EntriesInv
            <4>4. CASE call'[k].pc \in {"send timeout", "timeout"}
                BY <1>p, <2>1, <4>1, <4>4, <2>4
            <4> QED
                BY <2>1, <4>2, <4>3, <4>4
        <3> QED
            BY <3>2, <3>3
    <2> QED
        BY <2>4 DEF PendingOwned
<1>7. CASE Restart
    BY <1>7 DEF Restart, PendingOwned
<1> QED
    BY <1>1, <1>2, <1>3, <1>4, <1>5, <1>6, <1>7, CallCases

\* Steps that register no connection and unregister none.
Routed == /\ UNCHANGED <<conns, reported, stale>>
          /\ \A d \in Conns : tun'[d].stage = "open" /\ tun'[d].up =>
                /\ tun[d].stage = "open" /\ tun[d].up /\ tun'[d].agent = tun[d].agent

LEMMA RouteCases ==
    ASSUME TypeOK, ReaderInv, NumbersInv, Next
    PROVE  \/ Routed
           \/ \E c \in Conns : register(c) \/ unregister(c)
           \/ Restart
<1>k. ASSUME UNCHANGED <<conns, reported, stale>>,
             \A d \in Conns : KeepsReader(d) /\ KeepsUp(d)
      PROVE  Routed
    BY <1>k DEF Routed, KeepsReader, KeepsUp
<1>o. ASSUME NEW c \in Conns, Only(c), KeepsReader(c), KeepsUp(c)
      PROVE  \A d \in Conns : KeepsReader(d) /\ KeepsUp(d)
    BY <1>o DEF Only, KeepsReader, KeepsUp
<1>u. ASSUME tun' = tun PROVE \A d \in Conns : KeepsReader(d) /\ KeepsUp(d)
    BY <1>u DEF KeepsReader, KeepsUp
<1>1. ASSUME NEW a \in Agents, NEW c \in Conns, Dial(a, c) PROVE Routed
    <2>1. UNCHANGED <<conns, reported, stale>>
        BY <1>1 DEF Dial, hub
    <2> QED
        BY <1>1, <2>1, DialEffect DEF Routed, Only
<1>2. ASSUME NEW c \in Conns, Break(c) PROVE Routed
    <2>1. UNCHANGED <<conns, reported, stale>>
        BY <1>2 DEF Break, hub
    <2> QED
        BY <1>2, <2>1, BreakEffect DEF Routed, Only, KeepsReader
<1>3. ASSUME NEW c \in Conns, ReadFail(c) PROVE Routed
    <2>1. UNCHANGED <<conns, reported, stale>>
        BY <1>3 DEF ReadFail, hub
    <2> QED
        BY <1>3, <2>1, ReadFailEffect DEF Routed, Only
<1>4. ASSUME NEW c \in Conns, Traffic(c) \/ Beat(c) PROVE Routed
    <2>1. UNCHANGED <<conns, reported, stale>>
        BY <1>4 DEF Traffic, Read, Deliver, Drop, Write, WriteEnd, Beat, hub
    <2>2. CASE Read(c)
        BY <2>1, <2>2, ReadEffect DEF Routed, Only, KeepsUp
    <2>3. CASE Deliver(c)
        BY <2>1, <2>3, DeliverEffect DEF Routed, Only, KeepsUp
    <2>4. CASE Drop(c)
        BY <2>1, <2>4, DropEffect DEF Routed, Only, KeepsUp
    <2>5. CASE Write(c) \/ WriteEnd(c) \/ Beat(c)
        BY <1>k, <1>o, <2>1, <2>5, WriteEffect, WriteEndEffect, BeatEffect
    <2> QED
        BY <1>4, <2>2, <2>3, <2>4, <2>5 DEF Traffic
<1>5. ASSUME NEW a \in Agents, Agent(a) PROVE Routed
    <2>1. UNCHANGED <<conns, reported, stale>>
        BY <1>5 DEF Agent, AgentRead, AgentPing, setDisconnected, handleRequest, hub
    <2>2. CASE AgentRead(a)
        BY <1>k, <2>1, <2>2, AgentReadEffect
    <2>3. CASE AgentPing(a)
        BY <1>k, <2>1, <2>3, AgentSendEffect DEF AgentPing
    <2>4. CASE setDisconnected(a)
        BY <1>k, <1>o, <2>1, <2>4, DisconnectEffect
    <2>5. ASSUME NEW m \in Reqs, handleRequest(a, m) PROVE Routed
        BY <1>k, <2>1, <2>5, AgentSendEffect DEF handleRequest
    <2> QED
        BY <1>5, <2>2, <2>3, <2>4, <2>5 DEF Agent
<1>6. ASSUME NEW k \in Calls, NEW n \in Nodes, Lookup(k, n) PROVE Routed
    BY <1>6, <1>k, <1>u DEF Lookup, hub
<1>7. ASSUME NEW k \in Calls, Request(k) PROVE Routed
    <2>1. UNCHANGED <<conns, reported, stale>>
        BY <1>7 DEF Request, Number, Send, SendTimeout, Receive, Timeout, hub
    <2>2. CASE Send(k)
        BY <1>k, <1>o, <1>u, <2>1, <2>2, SendEffect
    <2>3. CASE ~Send(k)
        <3>1. tun' = tun
            BY <1>7, <2>3 DEF Request, Number, SendTimeout, Receive, Timeout
        <3> QED
            BY <1>k, <1>u, <2>1, <3>1
    <2> QED
        BY <2>2, <2>3
<1> QED
    BY <1>1, <1>2, <1>3, <1>4, <1>5, <1>6, <1>7 DEF Next, Serve

LEMMA ReportedStep ==
    ASSUME HubInv, ReportedMatches, Next
    PROVE  ReportedMatches'
<1> USE DEF HubInv
<1>t. /\ conns \in [Nodes -> Conns \cup {None}] /\ None \notin Conns
      /\ reported \in [Nodes -> {"online", "offline"}]
    BY NoneAssumption DEF TypeOK
<1>1. CASE Routed
    BY <1>1 DEF Routed, ReportedMatches
<1>2. ASSUME NEW c \in Conns, register(c) PROVE ReportedMatches'
    <2>1. Node(c) \in Nodes
        BY <1>2, NodeType DEF register
    <2> DEFINE n == Node(c)
    <2>2. /\ conns' = [conns EXCEPT ![n] = c] /\ reported' = [reported EXCEPT ![n] = "online"]
          /\ stale' = stale \ {n}
        BY <1>2 DEF register, Report
    <2> HIDE DEF n
    <2>3. n \in Nodes
        BY <2>1 DEF n
    <2> QED
        BY <1>t, <2>2, <2>3 DEF ReportedMatches
<1>3. ASSUME NEW c \in Conns, unregister(c) PROVE ReportedMatches'
    <2>1. Node(c) \in Nodes
        BY <1>3, NodeType DEF unregister
    <2> DEFINE n == Node(c)
    <2>2. \/ /\ conns' = [conns EXCEPT ![n] = None] /\ reported' = [reported EXCEPT ![n] = "offline"]
             /\ stale' = stale \ {n}
          \/ UNCHANGED <<conns, reported, stale>>
        BY <1>3 DEF unregister, Report
    <2> HIDE DEF n
    <2>3. n \in Nodes
        BY <2>1 DEF n
    <2> QED
        BY <1>t, <2>2, <2>3 DEF ReportedMatches
<1>4. CASE Restart
    BY <1>4 DEF Restart, ReportedMatches
<1> QED
    BY <1>1, <1>2, <1>3, <1>4, RouteCases

LEMMA RegisteredStep ==
    ASSUME HubInv, OnlyRegisteredUp, Next
    PROVE  OnlyRegisteredUp'
<1> USE DEF HubInv
<1>t. conns \in [Nodes -> Conns \cup {None}] /\ None \notin Conns
    BY NoneAssumption DEF TypeOK
<1>1. CASE Routed
    BY <1>1 DEF Routed, OnlyRegisteredUp, Node
<1>2. ASSUME NEW c \in Conns, register(c) PROVE OnlyRegisteredUp'
    <2>1. Node(c) \in Nodes /\ conns' = [conns EXCEPT ![Node(c)] = c]
        BY <1>2, NodeType DEF register
    <2>2. \A d \in Conns : tun'[d].agent = tun[d].agent
        BY <1>2, RegisterEffect
    <2>3. \A d \in Conns : Node(d)' = Node(d)
        BY <2>2 DEF Node
    <2>4. ASSUME NEW d \in Conns \ {c}, tun'[d].stage = "open", tun'[d].up
          PROVE  conns'[Node(d)] = d
        <3>1. d # conns[Node(c)] /\ tun[d].stage = "open" /\ tun[d].up
            BY <1>2, <2>4, RegisterEffect
        <3>2. conns[Node(d)] = d
            BY <3>1 DEF OnlyRegisteredUp
        <3>3. Node(d) \in Nodes
            BY <3>1, NodeType
        <3> QED
            BY <1>t, <2>1, <3>1, <3>2, <3>3
    <2>5. conns'[Node(c)] = c
        BY <1>t, <2>1
    <2> QED
        BY <2>3, <2>4, <2>5 DEF OnlyRegisteredUp
<1>3. ASSUME NEW c \in Conns, unregister(c) PROVE OnlyRegisteredUp'
    <2>1. Node(c) \in Nodes /\ conns' \in {conns, [conns EXCEPT ![Node(c)] = None]}
        BY <1>3, NodeType DEF unregister
    <2>2. Only(c) /\ tun'[c].stage = "gone"
        BY <1>3, UnregisterEffect
    <2>3. ASSUME NEW d \in Conns \ {c}, tun'[d].stage = "open", tun'[d].up
          PROVE  conns'[Node(d)] = d /\ Node(d)' = Node(d)
        <3>1. tun'[d] = tun[d]
            BY <2>2 DEF Only
        <3>2. conns[Node(d)] = d
            BY <2>3, <3>1 DEF OnlyRegisteredUp
        <3>3. \/ conns[Node(c)] = c /\ conns' = [conns EXCEPT ![Node(c)] = None]
              \/ conns' = conns
            BY <1>3 DEF unregister
        <3>n. Node(d) \in Nodes
            BY <2>3, <3>1, NodeType
        <3>4. conns'[Node(d)] = d
            BY <1>t, <2>1, <3>n, <3>2, <3>3
        <3> QED
            BY <3>1, <3>4 DEF Node
    <2> QED
        BY <2>2, <2>3 DEF OnlyRegisteredUp
<1>4. CASE Restart
    BY <1>4, RestartEffect DEF OnlyRegisteredUp
<1> QED
    BY <1>1, <1>2, <1>3, <1>4, RouteCases

---------------------------------------------------------------------------
(* The invariants of the hub.                                              *)

LEMMA UnusedFields ==
    /\ Unused.stage = "unused" /\ Unused.up = FALSE /\ Unused.held = None /\ Unused.drop = 0
    /\ Unused.send = <<>> /\ Unused.toNode = <<>> /\ Unused.toHub = <<>>
BY DEF Unused, Fresh

LEMMA InitCalls ==
    ASSUME Init, NEW k \in Calls
    PROVE  /\ call[k].pc = "idle" /\ call[k].cs = None /\ call[k].id = 0 /\ call[k].ch = None
           /\ call[k] \in Call
BY DEF Init, Call

LEMMA InitHub ==
    ASSUME Init
    PROVE  HubInv /\ PendingOwned /\ ReportedMatches /\ OnlyRegisteredUp
<1>1. tun = [c \in Conns |-> Unused] /\ Unused \in Tunnel
    BY FreshType DEF Init
<1>2. TypeOK
    <2>1. tun \in [Conns -> Tunnel]
        BY <1>1
    <2>2. call \in [Calls -> Call]
        <3>1. DOMAIN call = Calls /\ call = [k \in Calls |-> call[k]]
            BY DEF Init
        <3> QED
            BY <3>1, InitCalls
    <2>3. /\ conns \in [Nodes -> Conns \cup {None}] /\ reported \in [Nodes -> {"online", "offline"}]
          /\ agentConn \in [Agents -> Conns \cup {None}] /\ work \in [Agents -> SUBSET Reqs]
          /\ pending \in [Ids -> Calls \cup {None}] /\ executed \in [Calls -> Nat]
          /\ stale \subseteq Nodes
        BY DEF Init
    <2>4. nextReqID = 0 /\ breaks = 0
        BY DEF Init
    <2>5. 0 \in 0..MaxReq /\ 0 \in 0..MaxBreaks
        BY CapAssumption
    <2> QED
        BY <2>1, <2>2, <2>3, <2>4, <2>5 DEF TypeOK
<1>3. \A c \in Conns : tun[c] = Unused
    BY <1>1
<1>4. ReaderInv /\ OnlyRegisteredUp
    BY <1>3, UnusedFields DEF ReaderInv, OnlyRegisteredUp
<1>5. nextReqID = 0 /\ \A i \in Ids : pending[i] = None
    BY DEF Init
<1>6. NumbersInv /\ EntriesInv /\ PendingOwned
    BY <1>5, InitCalls DEF NumbersInv, EntriesInv, PendingOwned
<1>7. ReportedMatches
    BY DEF Init, ReportedMatches
<1> QED
    BY <1>2, <1>4, <1>6, <1>7 DEF HubInv

LEMMA TypeStep ==
    ASSUME TypeOK, ReaderInv, NumbersInv, Next
    PROVE  TypeOK'
BY ServeType, TrafficType, AgentType, RequestType, RestartType DEF Next

LEMMA HubStep ==
    ASSUME HubInv, [Next]_vars
    PROVE  HubInv'
<1>1. CASE Next
    BY <1>1, TypeStep, ReaderStep, NumbersStep, EntriesStep DEF HubInv
<1>2. CASE UNCHANGED vars
    BY <1>2 DEF HubInv, vars, hub, TypeOK, ReaderInv, NumbersInv, EntriesInv
<1> QED
    BY <1>1, <1>2

LEMMA HubInvariant == Spec => []HubInv
<1>1. Init => HubInv
    BY InitHub
<1> QED
    BY <1>1, HubStep, PTL DEF Spec

\* Every variable of the hub and its agents keeps its type: in particular the
\* numbers given stay within the bound and a call that has been told to send
\* has a connection to send on.
THEOREM HubTypeCorrect == Spec => []TypeOK
<1>1. HubInv => TypeOK
    BY DEF HubInv
<1> QED
    BY <1>1, HubInvariant, PTL

\* What onStateChange last said of a node is whether the hub has a connection
\* for it, however register and unregister of new and evicted connections
\* interleave, for any number of nodes, agents and connections.
THEOREM ReportsTrue == Spec => []ReportedMatches
<1>1. Init => ReportedMatches
    BY InitHub
<1>2. HubInv /\ ReportedMatches /\ [Next]_vars => ReportedMatches'
    <2>1. CASE UNCHANGED vars
        BY <2>1 DEF vars, hub, ReportedMatches
    <2> QED
        BY <2>1, ReportedStep
<1> QED
    BY <1>1, <1>2, HubInvariant, PTL DEF Spec

\* An evicted tunnel cannot stay open beside its successor: a connection that
\* is being read and is up is the one registered for its node.
THEOREM EvictedClosed == Spec => []OnlyRegisteredUp
<1>1. Init => OnlyRegisteredUp
    BY InitHub
<1>2. HubInv /\ OnlyRegisteredUp /\ [Next]_vars => OnlyRegisteredUp'
    <2>1. CASE UNCHANGED vars
        BY <2>1 DEF vars, hub, OnlyRegisteredUp, Node
    <2> QED
        BY <2>1, RegisteredStep
<1> QED
    BY <1>1, <1>2, HubInvariant, PTL DEF Spec

\* Hub.pending does not fill up: an entry belongs to a call that still waits
\* or panicked, or a reader is about to delete it.
THEOREM PendingBounded == Spec => []PendingOwned
<1>1. Init => PendingOwned
    BY InitHub
<1>2. HubInv /\ PendingOwned /\ [Next]_vars => PendingOwned'
    <2>1. CASE UNCHANGED vars
        BY <2>1 DEF vars, hub, PendingOwned
    <2> QED
        BY <2>1, PendingStep
<1> QED
    BY <1>1, <1>2, HubInvariant, PTL DEF Spec

---------------------------------------------------------------------------
(* A call gets its own answer.                                             *)

\* Every element of a queue belongs to its call.
QOwned(s) == \A i \in DOMAIN s : Owned(s[i])

LEMMA QueueElements ==
    ASSUME NEW S, NEW s \in Seq(S)
    PROVE  /\ \A e \in S : \A i \in DOMAIN Append(s, e) :
                 \/ i = Len(s) + 1 /\ Append(s, e)[i] = e
                 \/ i \in DOMAIN s /\ Append(s, e)[i] = s[i]
           /\ s # <<>> => /\ 1 \in DOMAIN s /\ Head(s) = s[1]
                          /\ \A i \in DOMAIN Tail(s) :
                                i + 1 \in DOMAIN s /\ Tail(s)[i] = s[i + 1]
<1>1. ASSUME NEW e \in S, NEW i \in DOMAIN Append(s, e)
      PROVE  \/ i = Len(s) + 1 /\ Append(s, e)[i] = e
             \/ i \in DOMAIN s /\ Append(s, e)[i] = s[i]
    <2>1. DOMAIN Append(s, e) = 1..(Len(s) + 1) /\ DOMAIN s = 1..Len(s) /\ Len(s) \in Nat
        BY AppendProperties, LenProperties
    <2> QED
        BY <2>1, AppendProperties
<1>2. ASSUME s # <<>>
      PROVE  /\ 1 \in DOMAIN s /\ Head(s) = s[1]
             /\ \A i \in DOMAIN Tail(s) : i + 1 \in DOMAIN s /\ Tail(s)[i] = s[i + 1]
    <2>1. Len(s) \in Nat \ {0} /\ DOMAIN s = 1..Len(s) /\ Len(Tail(s)) = Len(s) - 1
        BY <1>2, LenProperties, EmptySeq, HeadTailProperties
    <2>2. DOMAIN Tail(s) = 1..(Len(s) - 1)
        BY <1>2, <2>1, HeadTailProperties, LenProperties
    <2>3. \A i \in 1..Len(Tail(s)) : Tail(s)[i] = s[i + 1]
        BY <1>2, HeadTailProperties
    <2>4. Head(s) = s[1]
        BY <1>2, HeadTailProperties
    <2> QED
        BY <2>1, <2>2, <2>3, <2>4
<1> QED
    BY <1>1, <1>2

LEMMA QueueOwned ==
    ASSUME NEW S, NEW s \in Seq(S), QOwned(s)
    PROVE  /\ \A e \in S : Owned(e) => QOwned(Append(s, e))
           /\ s # <<>> => Owned(Head(s)) /\ QOwned(Tail(s))
<1>1. ASSUME NEW e \in S, Owned(e) PROVE QOwned(Append(s, e))
    BY <1>1, QueueElements DEF QOwned
<1>2. ASSUME s # <<>> PROVE Owned(Head(s)) /\ QOwned(Tail(s))
    BY <1>2, QueueElements DEF QOwned
<1> QED
    BY <1>1, <1>2

\* The elements of an empty queue, and the pings.
LEMMA NothingOwned ==
    QOwned(<<>>) /\ Owned(<<"ping">>) /\ Owned(<<"pong">>)
<1>1. \A i \in DOMAIN <<>> : FALSE
    BY EmptySeq
<1>2. <<"ping">> \notin Reqs /\ <<"pong">> \notin Reqs
    BY DEF Reqs
<1> QED
    BY <1>1, <1>2 DEF QOwned, Owned

\* The messages of a connection, after a step, by the numbers before it.
Carried(d) == /\ QOwned(tun[d].send) /\ QOwned(tun[d].toNode) /\ QOwned(tun[d].toHub)
              /\ tun[d].held # None => Owned(tun[d].held)
Conveyed(d) == /\ QOwned(tun'[d].send) /\ QOwned(tun'[d].toNode) /\ QOwned(tun'[d].toHub)
               /\ tun'[d].held # None => Owned(tun'[d].held)
Served == \A a \in Agents : \A m \in work'[a] : Owned(m)

LEMMA ConveyStep ==
    ASSUME HubInv, MessagesInv, Next
    PROVE  (\A d \in Conns : Conveyed(d)) /\ Served
<1> USE DEF HubInv
<1>c. \A d \in Conns : Carried(d)
    BY DEF MessagesInv, Carried, QOwned
<1>s. \A d \in Conns : /\ tun[d] \in Tunnel /\ tun[d].send \in Seq(Reqs) /\ tun[d].send \in Seq(Msgs)
                       /\ tun[d].toNode \in Seq(Msgs) /\ tun[d].toHub \in Seq(Msgs)
    <2> TAKE d \in Conns
    <2>1. tun[d] \in Tunnel
        BY DEF TypeOK
    <2>2. \A x : x \in Seq(Reqs) => x \in Seq(Msgs)
        BY ReqFacts
    <2> QED
        BY <2>1, <2>2, TunFields
<1>w. ASSUME work' = work PROVE Served
    BY <1>w DEF Served, MessagesInv
<1>u. ASSUME NEW d \in Conns, tun'[d] = tun[d] PROVE Conveyed(d)
    BY <1>u, <1>c DEF Carried, Conveyed
<1>o. ASSUME NEW c \in Conns, Only(c), Conveyed(c) PROVE \A d \in Conns : Conveyed(d)
    BY <1>o, <1>u DEF Only
<1>1. ASSUME NEW a \in Agents, NEW c \in Conns, Dial(a, c)
      PROVE  (\A d \in Conns : Conveyed(d)) /\ Served
    <2>1. Conveyed(c) /\ Only(c)
        BY <1>1, DialEffect, NothingOwned DEF Conveyed
    <2> QED
        BY <1>1, <2>1, <1>o, <1>w DEF Dial
<1>2. ASSUME NEW c \in Conns, Break(c)
      PROVE  (\A d \in Conns : Conveyed(d)) /\ Served
    <2>1. Conveyed(c) /\ Only(c)
        BY <1>2, <1>c, BreakEffect DEF Conveyed, Carried, KeepsReader, KeepsRequests, KeepsAnswers
    <2> QED
        BY <1>2, <2>1, <1>o, <1>w DEF Break
<1>3. ASSUME NEW c \in Conns, register(c)
      PROVE  (\A d \in Conns : Conveyed(d)) /\ Served
    <2>1. \A d \in Conns : Conveyed(d)
        BY <1>3, <1>c, RegisterEffect DEF Conveyed, Carried, KeepsRequests, KeepsAnswers
    <2> QED
        BY <1>3, <2>1, <1>w DEF register
<1>4. ASSUME NEW c \in Conns, ReadFail(c)
      PROVE  (\A d \in Conns : Conveyed(d)) /\ Served
    <2>1. Conveyed(c) /\ Only(c)
        BY <1>4, <1>c, ReadFailEffect, NothingOwned DEF Conveyed, Carried, KeepsRequests
    <2> QED
        BY <1>4, <2>1, <1>o, <1>w DEF ReadFail
<1>5. ASSUME NEW c \in Conns, unregister(c)
      PROVE  (\A d \in Conns : Conveyed(d)) /\ Served
    <2>1. Conveyed(c) /\ Only(c)
        BY <1>5, <1>c, UnregisterEffect DEF Conveyed, Carried, KeepsRequests, KeepsAnswers
    <2> QED
        BY <1>5, <2>1, <1>o, <1>w DEF unregister
<1>6. ASSUME NEW c \in Conns, Read(c)
      PROVE  (\A d \in Conns : Conveyed(d)) /\ Served
    <2>1. /\ Only(c) /\ tun'[c].send = tun[c].send
          /\ tun'[c].toHub = Tail(tun[c].toHub) /\ tun[c].toHub # <<>>
          /\ tun'[c].held = tun[c].held \/ tun'[c].held = Head(tun[c].toHub)
          /\ tun'[c].toNode = tun[c].toNode \/ tun'[c].toNode = Append(tun[c].toNode, <<"pong">>)
        BY <1>6, ReadEffect
    <2>2. Owned(Head(tun[c].toHub)) /\ QOwned(Tail(tun[c].toHub))
        BY <2>1, <1>c, <1>s, QueueOwned DEF Carried
    <2>3. QOwned(Append(tun[c].toNode, <<"pong">>))
        BY <1>c, <1>s, QueueOwned, NothingOwned, ReqFacts DEF Carried
    <2>4. Conveyed(c)
        BY <2>1, <2>2, <2>3, <1>c DEF Conveyed, Carried
    <2> QED
        BY <1>6, <2>1, <2>4, <1>o, <1>w DEF Read
<1>7. ASSUME NEW c \in Conns, Deliver(c) \/ Drop(c) \/ WriteEnd(c)
      PROVE  (\A d \in Conns : Conveyed(d)) /\ Served
    <2>1. Only(c) /\ KeepsRequests(c) /\ KeepsAnswers(c) /\ tun'[c].held \in {None, tun[c].held}
        BY <1>7, DeliverEffect, DropEffect, WriteEndEffect DEF KeepsReader
    <2>2. Conveyed(c)
        BY <2>1, <1>c DEF Conveyed, Carried, KeepsRequests, KeepsAnswers
    <2> QED
        BY <1>7, <2>1, <2>2, <1>o, <1>w DEF Deliver, Drop, WriteEnd
<1>8. ASSUME NEW c \in Conns, Write(c)
      PROVE  (\A d \in Conns : Conveyed(d)) /\ Served
    <2>1. /\ Only(c) /\ tun'[c].held = tun[c].held /\ tun'[c].toHub = tun[c].toHub
          /\ tun[c].send # <<>> /\ tun'[c].send = Tail(tun[c].send)
          /\ \/ tun'[c].toNode = tun[c].toNode
             \/ tun'[c].toNode = Append(tun[c].toNode, Head(tun[c].send))
        BY <1>8, WriteEffect DEF KeepsReader, KeepsAnswers
    <2>2. Owned(Head(tun[c].send)) /\ QOwned(Tail(tun[c].send))
        BY <2>1, <1>c, <1>s, QueueOwned DEF Carried
    <2>3. Head(tun[c].send) \in Msgs
        BY <2>1, <1>s, QueueTypes
    <2>4. QOwned(Append(tun[c].toNode, Head(tun[c].send)))
        BY <1>c, <1>s, <2>2, <2>3, QueueOwned DEF Carried
    <2>5. Conveyed(c)
        BY <2>1, <2>2, <2>4, <1>c DEF Conveyed, Carried
    <2> QED
        BY <1>8, <2>1, <2>5, <1>o, <1>w DEF Write
<1>9. ASSUME NEW c \in Conns, Beat(c)
      PROVE  (\A d \in Conns : Conveyed(d)) /\ Served
    <2>1. /\ Only(c) /\ tun'[c].held = tun[c].held /\ tun'[c].toHub = tun[c].toHub
          /\ tun'[c].send = tun[c].send
          /\ \/ tun'[c].toNode = tun[c].toNode
             \/ tun'[c].toNode = Append(tun[c].toNode, <<"ping">>)
        BY <1>9, BeatEffect DEF KeepsReader, KeepsAnswers
    <2>2. QOwned(Append(tun[c].toNode, <<"ping">>))
        BY <1>c, <1>s, QueueOwned, NothingOwned, ReqFacts DEF Carried
    <2>3. Conveyed(c)
        BY <2>1, <2>2, <1>c DEF Conveyed, Carried
    <2> QED
        BY <1>9, <2>1, <2>3, <1>o, <1>w DEF Beat
<1>10. ASSUME NEW a \in Agents, AgentRead(a)
       PROVE  (\A d \in Conns : Conveyed(d)) /\ Served
    <2> DEFINE c == agentConn[a]
               m == Head(tun[c].toNode)
    <2>1. /\ c \in Conns /\ tun[c].toNode # <<>> /\ tun'[c].toNode = Tail(tun[c].toNode)
          /\ work' = IF m \in Reqs THEN [work EXCEPT ![a] = @ \cup {m}] ELSE work
        BY <1>10, AgentReadEffect
    <2>2. Owned(m) /\ QOwned(Tail(tun[c].toNode))
        BY <2>1, <1>c, <1>s, QueueOwned DEF Carried
    <2>3. \A d \in Conns : QOwned(Append(tun[d].toHub, <<"pong">>))
        BY <1>c, <1>s, QueueOwned, NothingOwned, ReqFacts DEF Carried
    <2>4. ASSUME NEW d \in Conns PROVE Conveyed(d)
        <3>1. /\ tun'[d].send = tun[d].send /\ tun'[d].held = tun[d].held
              /\ tun'[d].toHub = tun[d].toHub \/ tun'[d].toHub = Append(tun[d].toHub, <<"pong">>)
              /\ d # c => tun'[d].toNode = tun[d].toNode
            BY <1>10, AgentReadEffect DEF KeepsReader
        <3>2. QOwned(tun'[d].toNode)
            BY <1>c, <2>1, <2>2, <3>1 DEF Carried
        <3> HIDE DEF c
        <3> QED
            BY <1>c, <2>3, <3>1, <3>2 DEF Conveyed, Carried
    <2>5. Served
        <3> HIDE DEF m
        <3>1. work \in [Agents -> SUBSET Reqs]
            BY DEF TypeOK
        <3> QED
            BY <2>1, <2>2, <3>1 DEF Served, MessagesInv
    <2> QED
        BY <2>4, <2>5
<1>11. ASSUME NEW a \in Agents, NEW m \in Msgs, Owned(m), tun' = AgentWrite(a, m, tun)
       PROVE  \A d \in Conns : Conveyed(d)
    <2> TAKE d \in Conns
    <2>1. /\ KeepsReader(d) /\ KeepsRequests(d)
          /\ tun'[d].toHub = tun[d].toHub \/ tun'[d].toHub = Append(tun[d].toHub, m)
        BY <1>11, AgentSendEffect
    <2>2. QOwned(Append(tun[d].toHub, m))
        BY <1>11, <1>c, <1>s, QueueOwned DEF Carried
    <2> QED
        BY <2>1, <2>2, <1>c DEF Conveyed, Carried, KeepsReader, KeepsRequests
<1>12. ASSUME NEW a \in Agents, AgentPing(a)
       PROVE  (\A d \in Conns : Conveyed(d)) /\ Served
    BY <1>12, <1>11, <1>w, NothingOwned, ReqFacts DEF AgentPing
<1>13. ASSUME NEW a \in Agents, setDisconnected(a)
       PROVE  (\A d \in Conns : Conveyed(d)) /\ Served
    <2> DEFINE c == agentConn[a]
    <2>1. /\ c \in Conns /\ Only(c) /\ KeepsReader(c) /\ KeepsAnswers(c)
          /\ tun'[c].send = tun[c].send /\ tun'[c].toNode = <<>>
        BY <1>13, DisconnectEffect
    <2> HIDE DEF c
    <2>2. Conveyed(c)
        BY <2>1, <1>c, NothingOwned DEF Conveyed, Carried, KeepsReader, KeepsAnswers
    <2> QED
        BY <1>13, <2>1, <2>2, <1>o, <1>w DEF setDisconnected
<1>14. ASSUME NEW a \in Agents, NEW m \in Reqs, handleRequest(a, m)
       PROVE  (\A d \in Conns : Conveyed(d)) /\ Served
    <2>1. Owned(m) /\ m \in Msgs
        BY <1>14, ReqFacts DEF handleRequest, MessagesInv
    <2>2. \A d \in Conns : Conveyed(d)
        BY <1>14, <1>11, <2>1 DEF handleRequest
    <2>3. \A b \in Agents : work'[b] \subseteq work[b]
        BY <1>14 DEF handleRequest, TypeOK
    <2> QED
        BY <2>2, <2>3 DEF Served, MessagesInv
<1>15. ASSUME NEW k \in Calls, Send(k)
       PROVE  (\A d \in Conns : Conveyed(d)) /\ Served
    <2>1. CASE tun' = tun
        BY <2>1, <1>15, <1>u, <1>w DEF Send
    <2>2. CASE tun' # tun
        <3> DEFINE c == call[k].cs
                   m == <<call[k].id, k>>
        <3>1. /\ c \in Conns /\ call[k].id \in Ids
              /\ Only(c) /\ KeepsReader(c) /\ KeepsAnswers(c)
              /\ tun'[c].toNode = tun[c].toNode /\ tun'[c].send = Append(tun[c].send, m)
            BY <1>15, <2>2, SendEffect
        <3>2. m \in Reqs /\ Owned(m)
            BY <3>1 DEF Reqs, Owned
        <3> HIDE DEF c, m
        <3>3. QOwned(Append(tun[c].send, m))
            BY <3>1, <3>2, <1>c, <1>s, QueueOwned DEF Carried
        <3>4. Conveyed(c)
            BY <3>1, <3>3, <1>c DEF Conveyed, Carried, KeepsReader, KeepsAnswers
        <3> QED
            BY <1>15, <3>1, <3>4, <1>o, <1>w DEF Send
    <2> QED
        BY <2>1, <2>2
<1>16. ASSUME NEW k \in Calls, Number(k) \/ SendTimeout(k) \/ Receive(k) \/ Timeout(k)
       PROVE  (\A d \in Conns : Conveyed(d)) /\ Served
    <2>1. tun' = tun /\ work' = work
        BY <1>16 DEF Number, SendTimeout, Receive, Timeout
    <2> QED
        BY <2>1, <1>u, <1>w
<1>17. ASSUME NEW k \in Calls, NEW n \in Nodes, Lookup(k, n)
       PROVE  (\A d \in Conns : Conveyed(d)) /\ Served
    BY <1>17, <1>u, <1>w DEF Lookup
<1>18. ASSUME Restart
       PROVE  (\A d \in Conns : Conveyed(d)) /\ Served
    <2>1. ASSUME NEW d \in Conns PROVE Conveyed(d)
        <3>1. /\ KeepsRequests(d) /\ KeepsAnswers(d)
              /\ tun'[d] = tun[d] \/ tun'[d].held = None
            BY <1>18, RestartEffect
        <3> QED
            BY <3>1, <1>c DEF Conveyed, Carried, KeepsRequests, KeepsAnswers
    <2> QED
        BY <1>18, <2>1, <1>w DEF Restart
<1> QED
    BY <1>1, <1>2, <1>3, <1>4, <1>5, <1>6, <1>7, <1>8, <1>9, <1>10, <1>12, <1>13, <1>14,
       <1>15, <1>16, <1>17, <1>18 DEF Next, Serve, Traffic, Agent, Request

\* Without a restart a number, once given, stays the number of its call.
LEMMA OwnedKept ==
    ASSUME HubInv, Next, ~Restarts, NEW m, Owned(m)
    PROVE  Owned(m)'
<1> USE DEF HubInv
<1>1. SUFFICES ASSUME m \in Reqs, call[m[2]].id = m[1]
               PROVE  call'[m[2]].id = m[1]
    BY DEF Owned
<1>2. m[1] \in Ids /\ m[2] \in Calls /\ m[1] # 0
    BY <1>1, ReqFacts
<1>3. CASE Quiet
    BY <1>1, <1>3 DEF Quiet
<1>4. ASSUME NEW c \in Conns, Deliver(c) \/ Drop(c) PROVE call'[m[2]].id = m[1]
    <2>1. CASE Deliver(c)
        BY <1>1, <1>2, <2>1, ChannelEffect DEF OthersKept
    <2>2. CASE Drop(c)
        BY <1>1, <2>2 DEF Drop
    <2> QED
        BY <1>4, <2>1, <2>2
<1>5. ASSUME NEW k \in Calls, NEW n \in Nodes, Lookup(k, n) PROVE call'[m[2]].id = m[1]
    BY <1>1, <1>2, <1>5, LookupEffect DEF OthersKept
<1>6. ASSUME NEW k \in Calls, Number(k) PROVE call'[m[2]].id = m[1]
    <2>1. OthersKept(k) /\ call[k].pc = "found"
        BY <1>6, NumberEffect
    <2>2. call[k].id = 0
        BY <2>1 DEF NumbersInv
    <2> QED
        BY <1>1, <1>2, <2>1, <2>2 DEF OthersKept
<1>7. ASSUME NEW k \in Calls, Request(k), ~Number(k) PROVE call'[m[2]].id = m[1]
    BY <1>1, <1>2, <1>7, RequestEffect DEF OthersKept
<1>8. ~Restart
    BY DEF Restart
<1> QED
    BY <1>3, <1>4, <1>5, <1>6, <1>7, <1>8, CallCases

\* What a call has received, after a step.
LEMMA AnswerStep ==
    ASSUME HubInv, MessagesInv, OwnAnswers, AnswersOwnRequest, Next
    PROVE  OwnAnswers' /\ AnswersOwnRequest'
<1> USE DEF HubInv
<1>k. ASSUME NEW k \in Calls, OthersKept(k), call'[k].ch \in {None, k},
             call'[k].pc = "ok" => call'[k].ch = k
      PROVE  OwnAnswers' /\ AnswersOwnRequest'
    BY <1>k DEF OthersKept, OwnAnswers, AnswersOwnRequest
<1>1. CASE call' = call
    BY <1>1 DEF OwnAnswers, AnswersOwnRequest
<1>2. ASSUME NEW c \in Conns, Deliver(c) PROVE OwnAnswers' /\ AnswersOwnRequest'
    <2>1. PICK k \in Calls :
             /\ call[k].id = tun[c].held[1]
             /\ OthersKept(k)
             /\ call'[k].pc = call[k].pc
             /\ call'[k].ch = (IF call[k].ch = None THEN tun[c].held[2] ELSE call[k].ch)
        BY <1>2, ChannelEffect
    <2>2. tun[c].held \in Reqs /\ tun[c].held # None
        BY <1>2, DeliverEffect DEF Deliver
    <2>3. call[tun[c].held[2]].id = tun[c].held[1] /\ tun[c].held[1] # 0 /\ tun[c].held[2] \in Calls
        BY <2>2, ReqFacts DEF MessagesInv, Owned
    <2>4. k = tun[c].held[2]
        BY <2>1, <2>3 DEF NumbersInv
    <2>5. call[k].ch \in {None, k} /\ (call[k].pc = "ok" => call[k].ch = k)
        BY DEF OwnAnswers, AnswersOwnRequest
    <2> QED
        BY <2>1, <2>4, <2>5, <1>k
<1>3. ASSUME NEW k \in Calls, NEW n \in Nodes, Lookup(k, n)
      PROVE  OwnAnswers' /\ AnswersOwnRequest'
    <2>1. OthersKept(k) /\ call'[k].pc # "ok" /\ call'[k].ch = call[k].ch
        BY <1>3, LookupEffect
    <2> QED
        BY <2>1, <1>k DEF OwnAnswers
<1>4. ASSUME NEW k \in Calls, Number(k) PROVE OwnAnswers' /\ AnswersOwnRequest'
    <2>1. OthersKept(k) /\ call'[k].pc # "ok" /\ call'[k].ch = call[k].ch
        BY <1>4, NumberEffect
    <2> QED
        BY <2>1, <1>k DEF OwnAnswers
<1>5. ASSUME NEW k \in Calls, Request(k), ~Number(k) PROVE OwnAnswers' /\ AnswersOwnRequest'
    <2>1. OthersKept(k) /\ call'[k].ch = call[k].ch /\ (call'[k].pc = "ok" => call[k].ch # None)
        BY <1>5, RequestEffect
    <2> QED
        BY <2>1, <1>k DEF OwnAnswers
<1>6. CASE Restart
    <2>1. \A k \in Calls : /\ call'[k].ch = call[k].ch
                           /\ call'[k].pc = "ok" => call[k].pc = "ok"
        BY <1>6, RestartCalls DEF Waiting
    <2> QED
        BY <2>1 DEF OwnAnswers, AnswersOwnRequest
<1>7. ASSUME NEW c \in Conns, Drop(c) PROVE OwnAnswers' /\ AnswersOwnRequest'
    BY <1>1, <1>7 DEF Drop
<1>8. CASE Quiet
    BY <1>1, <1>8 DEF Quiet
<1> QED
    BY <1>2, <1>3, <1>4, <1>5, <1>6, <1>7, <1>8, CallCases

\* While the panel does not restart, a call returns the answer to its own
\* request: Deliver finds the channel by a number that no other call was given,
\* and every message carries the number of its call, whatever was delayed,
\* dropped or timed out.  (After a restart the numbers begin again while old
\* requests are still with the agents.)
THEOREM AnswersMatch == ~Restarts /\ Spec => []AnswersOwnRequest
<1> DEFINE AInv == MessagesInv /\ OwnAnswers /\ AnswersOwnRequest
<1>1. ASSUME Init PROVE AInv
    <2>1. \A c \in Conns : tun[c] = Unused
        BY <1>1 DEF Init
    <2>2. \A c \in Conns : Carried(c)
        BY <2>1, UnusedFields, NothingOwned DEF Carried
    <2>3. MessagesInv
        BY <1>1, <2>2 DEF MessagesInv, Carried, QOwned, Init
    <2> QED
        BY <1>1, <2>3, InitCalls DEF OwnAnswers, AnswersOwnRequest
<1>2. ASSUME ~Restarts, HubInv, AInv, [Next]_vars PROVE AInv'
    <2>1. CASE UNCHANGED vars
        BY <1>2, <2>1 DEF vars, hub, MessagesInv, OwnAnswers, AnswersOwnRequest, Owned
    <2>2. CASE Next
        <3>1. (\A d \in Conns : Conveyed(d)) /\ Served
            BY <1>2, <2>2, ConveyStep
        <3>2. \A m : Owned(m) => Owned(m)'
            BY <1>2, <2>2, OwnedKept
        <3>3. MessagesInv'
            <4>1. ASSUME NEW d \in Conns
                  PROVE  /\ \A i \in DOMAIN tun'[d].send : Owned(tun[d].send[i])'
                         /\ \A i \in DOMAIN tun'[d].toNode : Owned(tun[d].toNode[i])'
                         /\ \A i \in DOMAIN tun'[d].toHub : Owned(tun[d].toHub[i])'
                         /\ tun'[d].held # None => Owned(tun[d].held)'
                <5>1. Conveyed(d)
                    BY <3>1
                <5> QED
                    BY <5>1, <3>2 DEF Conveyed, QOwned, Owned
            <4>2. \A a \in Agents : \A m \in work'[a] : Owned(m)'
                BY <3>1, <3>2 DEF Served
            <4> QED
                BY <4>1, <4>2 DEF MessagesInv
        <3> QED
            BY <1>2, <2>2, <3>3, AnswerStep
    <2> QED
        BY <1>2, <2>1, <2>2
<1>3. AInv => AnswersOwnRequest
    OBVIOUS
<1> HIDE DEF AInv
<1>4. SUFFICES ASSUME ~Restarts PROVE Spec => []AnswersOwnRequest
    OBVIOUS
<1>5. Init => AInv
    BY <1>1
<1>6. HubInv /\ AInv /\ [Next]_vars => AInv'
    BY <1>2, <1>4
<1> QED
    BY <1>3, <1>5, <1>6, HubInvariant, PTL DEF Spec

---------------------------------------------------------------------------
(* A request is served at most once.                                       *)

\* No request enters a queue or a goroutine.
QuietQueues ==
    /\ UNCHANGED <<work, executed>>
    /\ \A d \in Conns :
         /\ tun'[d].send = tun[d].send \/ tun'[d].send = <<>>
         /\ \/ tun'[d].toNode = tun[d].toNode \/ tun'[d].toNode = <<>>
            \/ \E p \in Msgs \ Reqs : tun'[d].toNode = Append(tun[d].toNode, p)

LEMMA QueueCases ==
    ASSUME HubInv, Next
    PROVE  \/ QuietQueues
           \/ \E c \in Conns : Write(c)
           \/ \E a \in Agents : AgentRead(a) \/ \E m \in Reqs : handleRequest(a, m)
           \/ \E k \in Calls : Send(k) /\ tun' # tun
<1> USE DEF HubInv
<1>p. <<"ping">> \in Msgs \ Reqs /\ <<"pong">> \in Msgs \ Reqs
    BY DEF Reqs, Msgs
<1>o. ASSUME NEW c \in Conns, Only(c), KeepsRequests(c), UNCHANGED <<work, executed>>
      PROVE  QuietQueues
    BY <1>o DEF Only, KeepsRequests, QuietQueues
<1>u. ASSUME UNCHANGED <<tun, work, executed>> PROVE QuietQueues
    BY <1>u DEF QuietQueues
<1>1. ASSUME NEW a \in Agents, NEW c \in Conns, Dial(a, c) PROVE QuietQueues
    <2>1. UNCHANGED <<work, executed>>
        BY <1>1 DEF Dial
    <2> QED
        BY <1>1, <2>1, DialEffect DEF Only, QuietQueues
<1>2. ASSUME NEW c \in Conns, Break(c) \/ ReadFail(c) \/ unregister(c) PROVE QuietQueues
    <2>1. UNCHANGED <<work, executed>>
        BY <1>2 DEF Break, ReadFail, unregister
    <2> QED
        BY <1>2, <2>1, <1>o, BreakEffect, ReadFailEffect, UnregisterEffect
<1>3. ASSUME NEW c \in Conns, register(c) PROVE QuietQueues
    <2>1. UNCHANGED <<work, executed>>
        BY <1>3 DEF register
    <2> QED
        BY <1>3, <2>1, RegisterEffect DEF QuietQueues, KeepsRequests
<1>4. ASSUME NEW c \in Conns, Deliver(c) \/ Drop(c) \/ WriteEnd(c) PROVE QuietQueues
    <2>1. UNCHANGED <<work, executed>>
        BY <1>4 DEF Deliver, Drop, WriteEnd
    <2> QED
        BY <1>4, <2>1, <1>o, DeliverEffect, DropEffect, WriteEndEffect
<1>5. ASSUME NEW c \in Conns, Read(c) \/ Beat(c) PROVE QuietQueues
    <2>1. UNCHANGED <<work, executed>>
        BY <1>5 DEF Read, Beat
    <2>2. /\ Only(c) /\ tun'[c].send = tun[c].send
          /\ \/ tun'[c].toNode = tun[c].toNode
             \/ \E p \in Msgs \ Reqs : tun'[c].toNode = Append(tun[c].toNode, p)
        BY <1>5, <1>p, ReadEffect, BeatEffect
    <2> QED
        BY <2>1, <2>2 DEF Only, QuietQueues
<1>6. ASSUME NEW a \in Agents, AgentPing(a) PROVE QuietQueues
    <2>1. UNCHANGED <<work, executed>> /\ tun' = AgentWrite(a, <<"ping">>, tun)
        BY <1>6 DEF AgentPing
    <2> QED
        BY <2>1, AgentSendEffect DEF QuietQueues, KeepsRequests
<1>7. ASSUME NEW a \in Agents, setDisconnected(a) PROVE QuietQueues
    <2>1. UNCHANGED <<work, executed>>
        BY <1>7 DEF setDisconnected
    <2> QED
        BY <1>7, <2>1, DisconnectEffect DEF QuietQueues, Only
<1>8. ASSUME NEW k \in Calls, Request(k), ~(Send(k) /\ tun' # tun) PROVE QuietQueues
    <2>1. UNCHANGED <<tun, work, executed>>
        BY <1>8 DEF Request, Number, Send, SendTimeout, Receive, Timeout
    <2> QED
        BY <2>1, <1>u
<1>9. ASSUME NEW k \in Calls, NEW n \in Nodes, Lookup(k, n) PROVE QuietQueues
    BY <1>9, <1>u DEF Lookup
<1>10. ASSUME Restart PROVE QuietQueues
    <2>1. UNCHANGED <<work, executed>>
        BY <1>10 DEF Restart
    <2> QED
        BY <1>10, <2>1, RestartEffect DEF QuietQueues, KeepsRequests
<1> QED
    BY <1>1, <1>2, <1>3, <1>4, <1>5, <1>6, <1>7, <1>8, <1>9, <1>10
       DEF Next, Serve, Traffic, Agent

\* A call whose request has not been sent stays so, or is sent by Send.
LEMMA UnsentStep ==
    ASSUME HubInv, Next, NEW k \in Calls, call'[k].pc \in Unsent
    PROVE  call[k].pc \in Unsent
<1> USE DEF HubInv
<1>1. CASE Quiet
    BY <1>1 DEF Quiet
<1>2. ASSUME NEW c \in Conns, Deliver(c) PROVE call[k].pc \in Unsent
    BY <1>2, ChannelEffect DEF OthersKept
<1>3. ASSUME NEW c \in Conns, Drop(c) PROVE call[k].pc \in Unsent
    BY <1>3 DEF Drop
<1>4. ASSUME NEW j \in Calls, NEW n \in Nodes, Lookup(j, n) PROVE call[k].pc \in Unsent
    BY <1>4, LookupEffect DEF OthersKept, Unsent
<1>5. ASSUME NEW j \in Calls, Number(j) PROVE call[k].pc \in Unsent
    BY <1>5, NumberEffect DEF OthersKept, Unsent
<1>6. ASSUME NEW j \in Calls, Request(j), ~Number(j) PROVE call[k].pc \in Unsent
    <2>1. CASE j # k
        BY <1>6, <2>1, RequestEffect DEF OthersKept
    <2>2. CASE j = k /\ call[k].pc = "sending"
        BY <2>2 DEF Unsent
    <2>3. CASE j = k /\ call[k].pc = "waiting"
        <3>1. Receive(k) \/ Timeout(k)
            BY <1>6, <2>3 DEF Request, Send, SendTimeout
        <3>2. call'[k].pc \in {"ok", "timeout"}
            BY <3>1, PcEffect DEF Receive, Timeout
        <3> QED
            BY <3>2 DEF Unsent
    <2> QED
        BY <1>6, <2>1, <2>2, <2>3, RequestEffect
<1>7. CASE Restart
    BY <1>7, RestartCalls DEF Unsent
<1> QED
    BY <1>1, <1>2, <1>3, <1>4, <1>5, <1>6, <1>7, CallCases

\* A step after which the request of k is nowhere it was not before.
LEMMA Fewer ==
    ASSUME NEW k \in Calls,
           \A c \in Conns : \A i : Queued(k, c, i)' => Queued(k, c, i),
           \A c \in Conns : \A i : Travelling(k, c, i)' => Travelling(k, c, i),
           \A a \in Agents : \A m : Working(k, a, m)' => Working(k, a, m)
    PROVE  /\ OnePlace(k) => OnePlace(k)'
           /\ Nowhere(k) => Nowhere(k)'
<1>1. /\ \A c \in Conns : \A i : Queued(k, c, i) => i \in DOMAIN tun[c].send
      /\ \A c \in Conns : \A i : Travelling(k, c, i) => i \in DOMAIN tun[c].toNode
      /\ \A a \in Agents : \A m : Working(k, a, m) => m \in work[a]
    BY DEF Queued, Travelling, Working
<1>2. ASSUME OnePlace(k) PROVE OnePlace(k)'
    BY <1>1, <1>2 DEF OnePlace
<1>3. ASSUME Nowhere(k) PROVE Nowhere(k)'
    BY <1>1, <1>3 DEF Nowhere
<1> QED
    BY <1>2, <1>3

\* How the places of the requests move, for each kind of step.
LEMMA QuietMoves ==
    ASSUME HubInv, QuietQueues, NEW k \in Calls
    PROVE  /\ \A c \in Conns : \A i : Queued(k, c, i)' => Queued(k, c, i)
           /\ \A c \in Conns : \A i : Travelling(k, c, i)' => Travelling(k, c, i)
           /\ \A a \in Agents : \A m : Working(k, a, m)' => Working(k, a, m)
<1>e. \A i \in DOMAIN <<>> : FALSE
    BY EmptySeq
<1>1. ASSUME NEW c \in Conns, NEW i, Queued(k, c, i)' PROVE Queued(k, c, i)
    BY <1>1, <1>e DEF QuietQueues, Queued
<1>2. ASSUME NEW c \in Conns, NEW i, Travelling(k, c, i)' PROVE Travelling(k, c, i)
    <2>1. tun[c] \in Tunnel
        BY DEF HubInv, TypeOK
    <2>2. tun[c].toNode \in Seq(Msgs)
        BY <2>1, TunFields
    <2>3. i \in DOMAIN tun'[c].toNode /\ tun'[c].toNode[i] \in Reqs /\ tun'[c].toNode[i][2] = k
        BY <1>2 DEF Travelling
    <2>4. CASE tun'[c].toNode = tun[c].toNode
        BY <2>3, <2>4 DEF Travelling
    <2>5. CASE tun'[c].toNode = <<>>
        BY <2>3, <2>5, <1>e
    <2>6. ASSUME NEW p \in Msgs \ Reqs, tun'[c].toNode = Append(tun[c].toNode, p)
          PROVE  Travelling(k, c, i)
        BY <2>2, <2>3, <2>6, QueueElements DEF Travelling
    <2> QED
        BY <2>4, <2>5, <2>6 DEF QuietQueues
<1>3. ASSUME NEW a \in Agents, NEW m, Working(k, a, m)' PROVE Working(k, a, m)
    BY <1>3 DEF QuietQueues, Working
<1> QED
    BY <1>1, <1>2, <1>3

LEMMA WriteMoves ==
    ASSUME HubInv, NEW c \in Conns, Write(c), NEW k \in Calls
    PROVE  /\ \A d \in Conns : \A i : Queued(k, d, i)' =>
                 IF d = c THEN i \in Nat /\ i # 0 /\ Queued(k, c, i + 1) ELSE Queued(k, d, i)
           /\ \A d \in Conns : \A i : Travelling(k, d, i)' =>
                 \/ Travelling(k, d, i)
                 \/ d = c /\ i = Len(tun[c].toNode) + 1 /\ Queued(k, c, 1)
           /\ \A a \in Agents : \A m : Working(k, a, m)' => Working(k, a, m)
<1>1. /\ Only(c) /\ tun[c].send # <<>> /\ tun'[c].send = Tail(tun[c].send)
      /\ \/ tun'[c].toNode = tun[c].toNode
         \/ tun'[c].toNode = Append(tun[c].toNode, Head(tun[c].send))
    BY WriteEffect DEF HubInv
<1>2. tun[c].send \in Seq(Reqs) /\ tun[c].toNode \in Seq(Msgs)
    BY TunFields DEF HubInv, TypeOK
<1>3. Head(tun[c].send) \in Msgs /\ Tail(tun[c].send) \in Seq(Reqs)
    BY <1>1, <1>2, QueueTypes, ReqFacts
<1>4. ASSUME NEW d \in Conns, NEW i, Queued(k, d, i)'
      PROVE  IF d = c THEN i \in Nat /\ i # 0 /\ Queued(k, c, i + 1) ELSE Queued(k, d, i)
    <2>1. CASE d = c
        <3>1. i \in DOMAIN Tail(tun[c].send) /\ Tail(tun[c].send)[i][2] = k
            BY <1>1, <1>4, <2>1 DEF Queued
        <3>2. i \in Nat /\ i # 0
            BY <1>3, <3>1, LenProperties
        <3>3. Queued(k, c, i + 1)
            BY <1>1, <1>2, <3>1, QueueElements DEF Queued
        <3> QED
            BY <2>1, <3>2, <3>3
    <2>2. CASE d # c
        BY <1>1, <1>4, <2>2 DEF Queued, Only
    <2> QED
        BY <2>1, <2>2
<1>5. ASSUME NEW d \in Conns, NEW i, Travelling(k, d, i)'
      PROVE  \/ Travelling(k, d, i)
             \/ d = c /\ i = Len(tun[c].toNode) + 1 /\ Queued(k, c, 1)
    <2>1. CASE tun'[d].toNode = tun[d].toNode
        BY <1>5, <2>1 DEF Travelling
    <2>2. CASE d = c /\ tun'[d].toNode = Append(tun[c].toNode, Head(tun[c].send))
        <3>1. /\ i \in DOMAIN Append(tun[c].toNode, Head(tun[c].send))
              /\ Append(tun[c].toNode, Head(tun[c].send))[i] \in Reqs
              /\ Append(tun[c].toNode, Head(tun[c].send))[i][2] = k
            BY <1>5, <2>2 DEF Travelling
        <3>2. 1 \in DOMAIN tun[c].send /\ Head(tun[c].send) = tun[c].send[1]
            BY <1>1, <1>2, QueueElements
        <3>3. \/ i = Len(tun[c].toNode) + 1 /\ Head(tun[c].send)[2] = k
              \/ Travelling(k, c, i)
            BY <1>2, <1>3, <3>1, QueueElements DEF Travelling
        <3> QED
            BY <2>2, <3>2, <3>3 DEF Queued
    <2> QED
        BY <1>1, <2>1, <2>2 DEF Only
<1>6. ASSUME NEW a \in Agents, NEW m, Working(k, a, m)' PROVE Working(k, a, m)
    BY <1>6 DEF Working, Write
<1> QED
    BY <1>4, <1>5, <1>6

LEMMA AgentReadMoves ==
    ASSUME HubInv, NEW a \in Agents, AgentRead(a), NEW k \in Calls
    PROVE  LET c == agentConn[a] IN
           /\ c \in Conns
           /\ \A d \in Conns : \A i : Queued(k, d, i)' => Queued(k, d, i)
           /\ \A d \in Conns : \A i : Travelling(k, d, i)' =>
                 IF d = c THEN i \in Nat /\ i # 0 /\ Travelling(k, c, i + 1)
                          ELSE Travelling(k, d, i)
           /\ \A b \in Agents : \A m : Working(k, b, m)' =>
                 \/ Working(k, b, m)
                 \/ b = a /\ m = Head(tun[c].toNode) /\ Travelling(k, c, 1)
<1> DEFINE c == agentConn[a]
           h == Head(tun[c].toNode)
<1>1. /\ c \in Conns /\ tun[c].toNode # <<>> /\ tun'[c].toNode = Tail(tun[c].toNode)
      /\ \A d \in Conns : tun'[d].send = tun[d].send
      /\ \A d \in Conns \ {c} : tun'[d].toNode = tun[d].toNode
      /\ work' = IF h \in Reqs THEN [work EXCEPT ![a] = @ \cup {h}] ELSE work
    BY AgentReadEffect DEF HubInv
<1>w. work \in [Agents -> SUBSET Reqs]
    BY DEF HubInv, TypeOK
<1>2. tun[c].toNode \in Seq(Msgs)
    BY <1>1, TunFields DEF HubInv, TypeOK
<1>3. Tail(tun[c].toNode) \in Seq(Msgs) /\ 1 \in DOMAIN tun[c].toNode /\ h = tun[c].toNode[1]
    BY <1>1, <1>2, QueueTypes, QueueElements
<1> HIDE DEF h, c
<1>4. ASSUME NEW d \in Conns, NEW i, Queued(k, d, i)' PROVE Queued(k, d, i)
    BY <1>1, <1>4 DEF Queued
<1>5. ASSUME NEW d \in Conns, NEW i, Travelling(k, d, i)'
      PROVE  IF d = c THEN i \in Nat /\ i # 0 /\ Travelling(k, c, i + 1) ELSE Travelling(k, d, i)
    <2>1. CASE d = c
        <3>1. /\ i \in DOMAIN Tail(tun[c].toNode) /\ Tail(tun[c].toNode)[i] \in Reqs
              /\ Tail(tun[c].toNode)[i][2] = k
            BY <1>1, <1>5, <2>1 DEF Travelling
        <3>2. i \in Nat /\ i # 0
            BY <1>3, <3>1, LenProperties
        <3>3. Travelling(k, c, i + 1)
            BY <1>1, <1>2, <3>1, QueueElements DEF Travelling
        <3> QED
            BY <2>1, <3>2, <3>3
    <2>2. CASE d # c
        BY <1>1, <1>5, <2>2 DEF Travelling
    <2> QED
        BY <2>1, <2>2
<1>6. ASSUME NEW b \in Agents, NEW m, Working(k, b, m)'
      PROVE  Working(k, b, m) \/ (b = a /\ m = h /\ Travelling(k, c, 1))
    <2>1. m \in work'[b] /\ m[2] = k
        BY <1>6 DEF Working
    <2>2. m \in work[b] \/ (b = a /\ m = h /\ h \in Reqs)
        BY <1>1, <1>w, <2>1
    <2> QED
        BY <1>3, <2>1, <2>2 DEF Working, Travelling
<1> QED
    BY <1>1, <1>4, <1>5, <1>6 DEF c, h

LEMMA ServeMoves ==
    ASSUME HubInv, NEW a \in Agents, NEW n \in Reqs, handleRequest(a, n), NEW k \in Calls
    PROVE  /\ \A c \in Conns : \A i : Queued(k, c, i)' => Queued(k, c, i)
           /\ \A c \in Conns : \A i : Travelling(k, c, i)' => Travelling(k, c, i)
           /\ \A b \in Agents : \A m : Working(k, b, m)' => Working(k, b, m) /\ ~(b = a /\ m = n)
<1>1. \A d \in Conns : KeepsRequests(d)
    BY AgentSendEffect DEF handleRequest, HubInv
<1>2. work' = [work EXCEPT ![a] = @ \ {n}] /\ work \in [Agents -> SUBSET Reqs]
    BY DEF handleRequest, HubInv, TypeOK
<1>3. \A b \in Agents : \A m \in work'[b] : m \in work[b] /\ ~(b = a /\ m = n)
    BY <1>2
<1> QED
    BY <1>1, <1>3 DEF Queued, Travelling, Working, KeepsRequests

LEMMA SendMoves ==
    ASSUME HubInv, NEW j \in Calls, Send(j), tun' # tun, NEW k \in Calls
    PROVE  LET c == call[j].cs IN
           /\ c \in Conns
           /\ \A d \in Conns : \A i : Queued(k, d, i)' =>
                 \/ Queued(k, d, i)
                 \/ k = j /\ d = c /\ i = Len(tun[c].send) + 1
           /\ \A d \in Conns : \A i : Travelling(k, d, i)' => Travelling(k, d, i)
           /\ \A a \in Agents : \A m : Working(k, a, m)' => Working(k, a, m)
<1> DEFINE c == call[j].cs
           m == <<call[j].id, j>>
<1>1. /\ c \in Conns /\ Only(c) /\ call[j].id \in Ids
      /\ tun'[c].toNode = tun[c].toNode /\ tun'[c].send = Append(tun[c].send, m)
    BY SendEffect DEF HubInv
<1>2. m \in Reqs /\ m[2] = j
    BY <1>1 DEF Reqs
<1> HIDE DEF m, c
<1>3. tun[c].send \in Seq(Reqs)
    BY <1>1, TunFields DEF HubInv, TypeOK
<1>4. ASSUME NEW d \in Conns, NEW i, Queued(k, d, i)'
      PROVE  Queued(k, d, i) \/ (k = j /\ d = c /\ i = Len(tun[c].send) + 1)
    <2>1. CASE d = c
        <3>1. i \in DOMAIN Append(tun[c].send, m) /\ Append(tun[c].send, m)[i][2] = k
            BY <1>1, <1>4, <2>1 DEF Queued
        <3> QED
            BY <1>2, <1>3, <2>1, <3>1, QueueElements DEF Queued
    <2>2. CASE d # c
        BY <1>1, <1>4, <2>2 DEF Queued, Only
    <2> QED
        BY <2>1, <2>2
<1>5. ASSUME NEW d \in Conns, NEW i, Travelling(k, d, i)' PROVE Travelling(k, d, i)
    BY <1>1, <1>5 DEF Travelling, Only
<1>6. ASSUME NEW a \in Agents, NEW n, Working(k, a, n)' PROVE Working(k, a, n)
    BY <1>6 DEF Working, Send
<1> QED
    BY <1>1, <1>4, <1>5, <1>6 DEF c

\* OnePlace and Nowhere without the bounds on the positions.
LEMMA PlacesOpen ==
    ASSUME NEW k \in Calls
    PROVE  /\ OnePlace(k) <=>
                /\ \A c, d \in Conns : \A i, j : Queued(k, c, i) /\ Queued(k, d, j) => c = d /\ i = j
                /\ \A c, d \in Conns : \A i, j :
                      Travelling(k, c, i) /\ Travelling(k, d, j) => c = d /\ i = j
                /\ \A a, b \in Agents : \A m, n :
                      Working(k, a, m) /\ Working(k, b, n) => a = b /\ m = n
                /\ \A c, d \in Conns : \A i, j : ~(Queued(k, c, i) /\ Travelling(k, d, j))
                /\ \A c \in Conns, a \in Agents : \A i, m : ~(Queued(k, c, i) /\ Working(k, a, m))
                /\ \A c \in Conns, a \in Agents : \A i, m :
                      ~(Travelling(k, c, i) /\ Working(k, a, m))
           /\ Nowhere(k) <=>
                /\ \A c \in Conns : \A i : ~Queued(k, c, i)
                /\ \A c \in Conns : \A i : ~Travelling(k, c, i)
                /\ \A a \in Agents : \A m : ~Working(k, a, m)
<1>1. /\ \A c \in Conns : \A i : Queued(k, c, i) => i \in DOMAIN tun[c].send
      /\ \A c \in Conns : \A i : Travelling(k, c, i) => i \in DOMAIN tun[c].toNode
      /\ \A a \in Agents : \A m : Working(k, a, m) => m \in work[a]
    BY DEF Queued, Travelling, Working
<1> QED
    BY <1>1 DEF OnePlace, Nowhere

LEMMA PlacesOpenNext ==
    ASSUME NEW k \in Calls
    PROVE  /\ (/\ \A c, d \in Conns : \A i, j : Queued(k, c, i)' /\ Queued(k, d, j)' => c = d /\ i = j
               /\ \A c, d \in Conns : \A i, j :
                     Travelling(k, c, i)' /\ Travelling(k, d, j)' => c = d /\ i = j
               /\ \A a, b \in Agents : \A m, n :
                     Working(k, a, m)' /\ Working(k, b, n)' => a = b /\ m = n
               /\ \A c, d \in Conns : \A i, j : ~(Queued(k, c, i)' /\ Travelling(k, d, j)')
               /\ \A c \in Conns, a \in Agents : \A i, m : ~(Queued(k, c, i)' /\ Working(k, a, m)')
               /\ \A c \in Conns, a \in Agents : \A i, m :
                     ~(Travelling(k, c, i)' /\ Working(k, a, m)')) => OnePlace(k)'
           /\ (/\ \A c \in Conns : \A i : ~Queued(k, c, i)'
               /\ \A c \in Conns : \A i : ~Travelling(k, c, i)'
               /\ \A a \in Agents : \A m : ~Working(k, a, m)') => Nowhere(k)'
BY DEF OnePlace, Nowhere

LEMMA WritePlaces ==
    ASSUME HubInv, NEW c \in Conns, Write(c), NEW k \in Calls, OnePlace(k)
    PROVE  OnePlace(k)' /\ (Nowhere(k) => Nowhere(k)')
<1> DEFINE t == Len(tun[c].toNode) + 1
<1>1. \A d \in Conns : \A i : Queued(k, d, i)' =>
          IF d = c THEN i \in Nat /\ i # 0 /\ Queued(k, c, i + 1) ELSE Queued(k, d, i)
    BY WriteMoves
<1>2. \A d \in Conns : \A i : Travelling(k, d, i)' =>
          Travelling(k, d, i) \/ (d = c /\ i = t /\ Queued(k, c, 1))
    BY WriteMoves
<1>3. \A a \in Agents : \A m : Working(k, a, m)' => Working(k, a, m)
    BY WriteMoves
<1> HIDE DEF t
<1>4. \A d, e \in Conns : \A i, j : Queued(k, d, i)' /\ Queued(k, e, j)' => d = e /\ i = j
    <2> SUFFICES ASSUME NEW d \in Conns, NEW e \in Conns, NEW i, NEW j,
                        Queued(k, d, i)', Queued(k, e, j)'
                 PROVE  d = e /\ i = j
        OBVIOUS
    <2>1. d = e
        BY <1>1, PlacesOpen
    <2>2. CASE d = c
        <3>1. i \in Nat /\ j \in Nat /\ i + 1 = j + 1
            BY <1>1, <2>1, <2>2, PlacesOpen
        <3> QED
            BY <2>1, <3>1
    <2>3. CASE d # c
        BY <1>1, <2>1, <2>3, PlacesOpen
    <2> QED
        BY <2>2, <2>3
<1>5. \A d, e \in Conns : \A i, j : Travelling(k, d, i)' /\ Travelling(k, e, j)' => d = e /\ i = j
    BY <1>2, PlacesOpen
<1>6. \A a, b \in Agents : \A m, n : Working(k, a, m)' /\ Working(k, b, n)' => a = b /\ m = n
    BY <1>3, PlacesOpen
<1>7. \A d, e \in Conns : \A i, j : ~(Queued(k, d, i)' /\ Travelling(k, e, j)')
    <2> SUFFICES ASSUME NEW d \in Conns, NEW e \in Conns, NEW i, NEW j,
                        Queued(k, d, i)', Travelling(k, e, j)'
                 PROVE  FALSE
        OBVIOUS
    <2>1. Queued(k, c, 1)
        BY <1>1, <1>2, PlacesOpen
    <2>2. d = c /\ i \in Nat /\ i # 0 /\ Queued(k, c, i + 1)
        BY <1>1, <2>1, PlacesOpen
    <2>3. i + 1 = 1
        BY <2>1, <2>2, PlacesOpen
    <2> QED
        BY <2>2, <2>3
<1>8. \A d \in Conns, a \in Agents : \A i, m : ~(Queued(k, d, i)' /\ Working(k, a, m)')
    BY <1>1, <1>3, PlacesOpen
<1>9. \A d \in Conns, a \in Agents : \A i, m : ~(Travelling(k, d, i)' /\ Working(k, a, m)')
    BY <1>2, <1>3, PlacesOpen
<1>10. OnePlace(k)'
    BY <1>4, <1>5, <1>6, <1>7, <1>8, <1>9, PlacesOpenNext
<1>11. ASSUME Nowhere(k) PROVE Nowhere(k)'
    BY <1>1, <1>2, <1>3, <1>11, PlacesOpen, PlacesOpenNext
<1> QED
    BY <1>10, <1>11

LEMMA AgentReadPlaces ==
    ASSUME HubInv, NEW a \in Agents, AgentRead(a), NEW k \in Calls, OnePlace(k)
    PROVE  OnePlace(k)' /\ (Nowhere(k) => Nowhere(k)')
<1> DEFINE c == agentConn[a]
           h == Head(tun[c].toNode)
<1>0. c \in Conns
    BY AgentReadMoves
<1>1. \A d \in Conns : \A i : Queued(k, d, i)' => Queued(k, d, i)
    BY AgentReadMoves
<1>2. \A d \in Conns : \A i : Travelling(k, d, i)' =>
          IF d = c THEN i \in Nat /\ i # 0 /\ Travelling(k, c, i + 1) ELSE Travelling(k, d, i)
    BY AgentReadMoves
<1>3. \A b \in Agents : \A m : Working(k, b, m)' =>
          Working(k, b, m) \/ (b = a /\ m = h /\ Travelling(k, c, 1))
    BY AgentReadMoves
<1> HIDE DEF c, h
<1>4. \A d, e \in Conns : \A i, j : Queued(k, d, i)' /\ Queued(k, e, j)' => d = e /\ i = j
    BY <1>1, PlacesOpen
<1>5. \A d, e \in Conns : \A i, j : Travelling(k, d, i)' /\ Travelling(k, e, j)' => d = e /\ i = j
    <2> SUFFICES ASSUME NEW d \in Conns, NEW e \in Conns, NEW i, NEW j,
                        Travelling(k, d, i)', Travelling(k, e, j)'
                 PROVE  d = e /\ i = j
        OBVIOUS
    <2>1. d = e
        BY <1>0, <1>2, PlacesOpen
    <2>2. CASE d = c
        <3>1. i \in Nat /\ j \in Nat /\ i + 1 = j + 1
            BY <1>0, <1>2, <2>1, <2>2, PlacesOpen
        <3> QED
            BY <2>1, <3>1
    <2>3. CASE d # c
        BY <1>2, <2>1, <2>3, PlacesOpen
    <2> QED
        BY <2>2, <2>3
<1>6. \A b, e \in Agents : \A m, n : Working(k, b, m)' /\ Working(k, e, n)' => b = e /\ m = n
    BY <1>0, <1>3, PlacesOpen
<1>7. \A d, e \in Conns : \A i, j : ~(Queued(k, d, i)' /\ Travelling(k, e, j)')
    BY <1>0, <1>1, <1>2, PlacesOpen
<1>8. \A d \in Conns, b \in Agents : \A i, m : ~(Queued(k, d, i)' /\ Working(k, b, m)')
    BY <1>0, <1>1, <1>3, PlacesOpen
<1>9. \A d \in Conns, b \in Agents : \A i, m : ~(Travelling(k, d, i)' /\ Working(k, b, m)')
    <2> SUFFICES ASSUME NEW d \in Conns, NEW b \in Agents, NEW i, NEW m,
                        Travelling(k, d, i)', Working(k, b, m)'
                 PROVE  FALSE
        OBVIOUS
    <2>1. Travelling(k, c, 1)
        BY <1>0, <1>2, <1>3, PlacesOpen
    <2>2. d = c /\ i \in Nat /\ i # 0 /\ Travelling(k, c, i + 1)
        BY <1>0, <1>2, <2>1, PlacesOpen
    <2>3. i + 1 = 1
        BY <1>0, <2>1, <2>2, PlacesOpen
    <2> QED
        BY <2>2, <2>3
<1>10. OnePlace(k)'
    BY <1>4, <1>5, <1>6, <1>7, <1>8, <1>9, PlacesOpenNext
<1>11. ASSUME Nowhere(k) PROVE Nowhere(k)'
    BY <1>0, <1>1, <1>2, <1>3, <1>11, PlacesOpen, PlacesOpenNext
<1> QED
    BY <1>10, <1>11

\* The part of ServedInv about one call.
ServedPart(k) ==
    /\ OnePlace(k)
    /\ executed[k] <= 1
    /\ executed[k] = 1 \/ call[k].pc \in Unsent => Nowhere(k)
    /\ call[k].pc \in Unsent => executed[k] = 0

LEMMA ServedStep ==
    ASSUME HubInv, ServedInv, Next
    PROVE  ServedInv'
<1> SUFFICES ASSUME NEW k \in Calls PROVE ServedPart(k)'
    BY DEF ServedInv, ServedPart
<1>p. ServedPart(k)
    BY DEF ServedInv, ServedPart
<1>u. call'[k].pc \in Unsent => call[k].pc \in Unsent
    BY UnsentStep
<1>e. executed \in [Calls -> Nat]
    BY DEF HubInv, TypeOK
<1>k. ASSUME OnePlace(k)', Nowhere(k) => Nowhere(k)', executed' = executed
      PROVE  ServedPart(k)'
    BY <1>k, <1>p, <1>u DEF ServedPart
<1>1. CASE QuietQueues
    <2>1. OnePlace(k)' /\ (Nowhere(k) => Nowhere(k)')
        BY <1>1, <1>p, QuietMoves, Fewer DEF ServedPart
    <2> QED
        BY <1>1, <2>1, <1>k DEF QuietQueues
<1>2. ASSUME NEW c \in Conns, Write(c) PROVE ServedPart(k)'
    <2>1. OnePlace(k)' /\ (Nowhere(k) => Nowhere(k)')
        BY <1>2, <1>p, WritePlaces DEF ServedPart
    <2> QED
        BY <1>2, <2>1, <1>k DEF Write
<1>3. ASSUME NEW a \in Agents, AgentRead(a) PROVE ServedPart(k)'
    <2>1. OnePlace(k)' /\ (Nowhere(k) => Nowhere(k)')
        BY <1>3, <1>p, AgentReadPlaces DEF ServedPart
    <2> QED
        BY <1>3, <2>1, <1>k DEF AgentRead
<1>4. ASSUME NEW a \in Agents, NEW n \in Reqs, handleRequest(a, n) PROVE ServedPart(k)'
    <2>1. \A c \in Conns : \A i : Queued(k, c, i)' => Queued(k, c, i)
        BY <1>4, ServeMoves
    <2>2. \A c \in Conns : \A i : Travelling(k, c, i)' => Travelling(k, c, i)
        BY <1>4, ServeMoves
    <2>3. \A b \in Agents : \A m : Working(k, b, m)' => Working(k, b, m) /\ ~(b = a /\ m = n)
        BY <1>4, ServeMoves
    <2>4. OnePlace(k)' /\ (Nowhere(k) => Nowhere(k)')
        BY <1>p, <2>1, <2>2, <2>3, Fewer DEF ServedPart
    <2>5. n \in work[a] /\ executed' = [executed EXCEPT ![n[2]] = @ + 1] /\ call' = call
        BY <1>4 DEF handleRequest
    <2>6. n[2] \in Calls
        BY ReqFacts
    <2>7. CASE n[2] # k
        <3>1. executed'[k] = executed[k]
            BY <1>e, <2>5, <2>6, <2>7
        <3> QED
            BY <3>1, <2>4, <2>5, <1>p DEF ServedPart
    <2>8. CASE n[2] = k
        <3>1. Working(k, a, n)
            BY <2>5, <2>8 DEF Working
        <3>2. ~Nowhere(k)
            BY <3>1, PlacesOpen
        <3>3. executed[k] = 0 /\ call[k].pc \notin Unsent
            BY <1>e, <1>p, <3>2 DEF ServedPart
        <3>4. executed'[k] = 1
            BY <1>e, <2>5, <2>8, <3>3
        <3>5. Nowhere(k)'
            BY <1>p, <2>1, <2>2, <2>3, <3>1, PlacesOpen, PlacesOpenNext DEF ServedPart
        <3> QED
            BY <2>4, <2>5, <3>3, <3>4, <3>5 DEF ServedPart
    <2> QED
        BY <2>7, <2>8
<1>5. ASSUME NEW j \in Calls, Send(j), tun' # tun PROVE ServedPart(k)'
    <2> DEFINE c == call[j].cs
    <2>1. c \in Conns
        BY <1>5, SendMoves
    <2>2. \A d \in Conns : \A i : Queued(k, d, i)' =>
              Queued(k, d, i) \/ (k = j /\ d = c /\ i = Len(tun[c].send) + 1)
        BY <1>5, SendMoves
    <2>3. \A d \in Conns : \A i : Travelling(k, d, i)' => Travelling(k, d, i)
        BY <1>5, SendMoves
    <2>4. \A a \in Agents : \A m : Working(k, a, m)' => Working(k, a, m)
        BY <1>5, SendMoves
    <2>5. executed' = executed /\ call[j].pc = "sending"
        BY <1>5 DEF Send
    <2> HIDE DEF c
    <2>6. CASE k # j
        <3>1. \A d \in Conns : \A i : Queued(k, d, i)' => Queued(k, d, i)
            BY <2>2, <2>6
        <3>2. OnePlace(k)' /\ (Nowhere(k) => Nowhere(k)')
            BY <1>p, <3>1, <2>3, <2>4, Fewer DEF ServedPart
        <3> QED
            BY <3>2, <2>5, <1>k
    <2>7. CASE k = j
        <3>1. Nowhere(k) /\ executed[k] = 0
            BY <1>p, <2>5, <2>7 DEF ServedPart, Unsent
        <3>2. OnePlace(k)'
            BY <3>1, <2>2, <2>3, <2>4, PlacesOpen, PlacesOpenNext
        <3>3. call'[k].pc = "waiting"
            BY <1>5, <2>7, SendEffect, PcEffect DEF HubInv
        <3> QED
            BY <2>5, <3>1, <3>2, <3>3 DEF ServedPart, Unsent
    <2> QED
        BY <2>6, <2>7
<1> QED
    BY <1>1, <1>2, <1>3, <1>4, <1>5, QueueCases

\* However tunnels are lost, evicted and dialled again, and through restarts of
\* the panel, a node serves a request at most once, and never one whose caller
\* was told that it was not sent.
THEOREM ServesOnce == Spec => []ServedOnce
<1>1. ASSUME Init PROVE ServedInv
    <2>e. \A i \in DOMAIN <<>> : FALSE
        BY EmptySeq
    <2>1. \A c \in Conns : tun[c].send = <<>> /\ tun[c].toNode = <<>>
        BY <1>1, UnusedFields DEF Init
    <2>2. \A a \in Agents : work[a] = {}
        BY <1>1 DEF Init
    <2>3. \A k \in Calls : executed[k] = 0
        BY <1>1 DEF Init
    <2> SUFFICES ASSUME NEW k \in Calls PROVE ServedPart(k)
        BY DEF ServedInv, ServedPart
    <2>4. Nowhere(k)
        BY <2>e, <2>1, <2>2 DEF Nowhere
    <2>5. OnePlace(k)
        BY <2>4, PlacesOpen
    <2> QED
        BY <2>3, <2>4, <2>5 DEF ServedPart
<1>2. ASSUME HubInv, ServedInv, [Next]_vars PROVE ServedInv'
    <2>1. CASE UNCHANGED vars
        BY <1>2, <2>1 DEF vars, hub, ServedInv, OnePlace, Nowhere, Queued, Travelling, Working
    <2> QED
        BY <1>2, <2>1, ServedStep
<1>3. ServedInv => ServedOnce
    BY DEF ServedInv, ServedOnce, Unsent
<1> QED
    BY <1>1, <1>2, <1>3, HubInvariant, PTL DEF Spec
=============================================================================
