------------------------------- MODULE NodeHub -------------------------------
(***************************************************************************)
(* The reverse tunnel between the master and its nodes: the hub            *)
(* (internal/nodehub/hub.go) and the agents that dial it                   *)
(* (internal/nodeagent/agent.go).                                          *)
(*                                                                         *)
(* An agent dials the master; the hub registers the connection under the   *)
(* node its token belongs to, closing the one registered before, and runs  *)
(* a writer (the send channel and the pings) and a reader (responses) for  *)
(* it.  Request looks the connection up, registers a numbered reply        *)
(* channel, puts the request on the send channel and waits for the reply   *)
(* or a timer.  The agent serves each request in a goroutine of its own    *)
(* and answers over whatever connection it has by then.                    *)
(*                                                                         *)
(* Data abstraction: a call of Request stands for its method, path and     *)
(* body, and the answer to it is the call itself.                          *)
(***************************************************************************)
EXTENDS Naturals, Sequences

CONSTANTS
    Nodes,          \* rows of server_nodes
    Agents,         \* agent processes
    NodeOf,         \* hubResolve: the node an agent's token belongs to
    Conns,          \* WebSocket connections
    Calls,          \* calls of Hub.Request
    None,
    SendCap,        \* capacity of connState.send (16 in the code)
    MaxReq,         \* bound on nextReqID
    MaxBreaks,      \* bound on connections lost to the network
    Beats,          \* whether tickers fire: hub pings, agent pings
    Restarts        \* whether the panel may restart

VARIABLES
    conns,          \* Hub.conns
    reported,       \* what onStateChange last said of a node
    tun,            \* both ends of every connection
    agentConn,      \* Agent.conn
    work,           \* requests in handleRequest goroutines, by agent
    call,           \* the locals of every Request
    pending,        \* Hub.pending
    nextReqID,      \* Hub.nextReqID
    executed,       \* history: how often the node served a call
    breaks,         \* history: connections broken so far
    stale           \* history: nodes not reported on since a restart

hub  == <<conns, reported, pending, nextReqID, stale>>
vars == <<hub, tun, agentConn, work, call, executed, breaks>>

ASSUME NodeOfAssumption == NodeOf \in [Agents -> Nodes]
ASSUME NoneAssumption == None \notin Conns \cup Calls \cup Agents
ASSUME CapAssumption ==
    SendCap \in Nat \ {0} /\ MaxReq \in Nat /\ MaxBreaks \in Nat

Ids  == 1..MaxReq
Reqs == Ids \X Calls                        \* a request or its answer
Msgs == Reqs \cup {<<"ping">>, <<"pong">>}

Tunnel == [agent  : Agents \cup {None},     \* who dialled
           \* stage of ServeWS: before register, in readLoop, before
           \* unregister, returned
           stage  : {"unused", "upgraded", "open", "left", "gone"},
           up     : BOOLEAN,                \* neither end closed it
           writer : BOOLEAN,                \* writeLoop is running
           send   : Seq(Reqs),              \* connState.send
           closed : BOOLEAN,                \* close(cs.send) has happened
           ticks  : 0..2,                   \* ticks since lastPong
           held   : Reqs \cup {None},       \* answer whose channel was found
           drop   : Ids \cup {0},           \* entry of pending to delete
           toNode : Seq(Msgs),              \* in flight to the agent
           toHub  : Seq(Msgs)]              \* in flight to the hub

Fresh(a) == [agent |-> a, stage |-> "upgraded", up |-> TRUE, writer |-> FALSE,
             send |-> <<>>, closed |-> FALSE, ticks |-> 0, held |-> None,
             drop |-> 0, toNode |-> <<>>, toHub |-> <<>>]

Unused == [Fresh(None) EXCEPT !.stage = "unused", !.up = FALSE]

Waiting == {"found", "sending", "waiting"}
Outcomes == {"ok", "offline", "send timeout", "timeout", "panic", "lost"}

Call == [pc : {"idle"} \cup Waiting \cup Outcomes,
         cs : Conns \cup {None},            \* the connection looked up
         id : Ids \cup {0},                 \* reqID
         ch : Calls \cup {None}]            \* respCh: the buffered answer

Init ==
    /\ conns = [n \in Nodes |-> None]
    /\ reported = [n \in Nodes |-> "offline"]
    /\ tun = [c \in Conns |-> Unused]
    /\ agentConn = [a \in Agents |-> None]
    /\ work = [a \in Agents |-> {}]
    /\ call = [k \in Calls |-> [pc |-> "idle", cs |-> None, id |-> 0,
                                ch |-> None]]
    /\ pending = [i \in Ids |-> None]
    /\ nextReqID = 0
    /\ executed = [k \in Calls |-> 0]
    /\ breaks = 0
    /\ stale = {}

Node(c) == NodeOf[tun[c].agent]

(***************************************************************************)
(* The connection.  A write on a connection that is gone fails or is lost. *)
(***************************************************************************)

\* A connection the program has no reference to any more.
Recyclable(c) ==
    /\ tun[c].stage \in {"unused", "gone"}
    /\ ~tun[c].writer
    /\ \A a \in Agents : agentConn[a] # c
    /\ \A k \in Calls : ~(call[k].pc \in Waiting /\ call[k].cs = c)

\* Agent.connect and the hub's Upgrade; a failed dial is retried later.
Dial(a, c) ==
    /\ agentConn[a] = None
    /\ Recyclable(c)
    /\ agentConn' = [agentConn EXCEPT ![a] = c]
    /\ tun' = [tun EXCEPT ![c] = Fresh(a)]
    /\ UNCHANGED <<hub, work, call, executed, breaks>>

\* The network loses a connection.
Break(c) ==
    /\ breaks < MaxBreaks
    /\ tun[c].up
    /\ breaks' = breaks + 1
    /\ tun' = [tun EXCEPT ![c].up = FALSE]
    /\ UNCHANGED <<hub, agentConn, work, call, executed>>

(***************************************************************************)
(* The hub's side: ServeWS and its two loops.                              *)
(***************************************************************************)

\* onStateChange, called with Hub.mu held.
Report(n, state) ==
    /\ reported' = [reported EXCEPT ![n] = state]
    /\ stale' = stale \ {n}

\* Mutant: the connection registered before is not closed.
registerKeepOld(c) ==
    /\ tun[c].stage = "upgraded"
    /\ conns' = [conns EXCEPT ![Node(c)] = c]
    /\ Report(Node(c), "online")
    /\ tun' = [tun EXCEPT ![c].stage = "open", ![c].writer = TRUE]
    /\ UNCHANGED <<pending, nextReqID, agentConn, work, call, executed, breaks>>

\* register, then the start of writeLoop and readLoop.
register(c) ==
    /\ tun[c].stage = "upgraded"
    /\ conns' = [conns EXCEPT ![Node(c)] = c]
    /\ Report(Node(c), "online")
    /\ tun' = [d \in Conns |->
         IF d = c THEN [tun[d] EXCEPT !.stage = "open", !.writer = TRUE]
         ELSE IF d = conns[Node(c)] THEN [tun[d] EXCEPT !.up = FALSE]
         ELSE tun[d]]
    /\ UNCHANGED <<pending, nextReqID, agentConn, work, call, executed, breaks>>

\* The reader is in ReadMessage.
Reading(c) ==
    /\ tun[c].stage = "open"
    /\ tun[c].held = None
    /\ tun[c].drop = 0

\* ReadMessage fails; readLoop returns and closes the connection, and what is
\* still in flight to it is lost.
ReadFail(c) ==
    /\ Reading(c)
    /\ ~tun[c].up
    /\ tun' = [tun EXCEPT ![c].stage = "left", ![c].toHub = <<>>]
    /\ UNCHANGED <<hub, agentConn, work, call, executed, breaks>>

\* Mutant: whatever connection is registered for the node is removed.
unregisterAny(c) ==
    /\ tun[c].stage = "left"
    /\ conns' = [conns EXCEPT ![Node(c)] = None]
    /\ IF conns[Node(c)] = c THEN Report(Node(c), "offline")
                             ELSE UNCHANGED <<reported, stale>>
    /\ tun' = [tun EXCEPT ![c].stage = "gone", ![c].closed = TRUE]
    /\ UNCHANGED <<pending, nextReqID, agentConn, work, call, executed, breaks>>

\* Mutant: the send channel of an evicted connection is left open.
unregisterLeak(c) ==
    /\ tun[c].stage = "left"
    /\ IF conns[Node(c)] = c
       THEN /\ conns' = [conns EXCEPT ![Node(c)] = None]
            /\ Report(Node(c), "offline")
       ELSE UNCHANGED <<conns, reported, stale>>
    /\ tun' = [tun EXCEPT ![c].stage = "gone", ![c].closed = conns[Node(c)] = c]
    /\ UNCHANGED <<pending, nextReqID, agentConn, work, call, executed, breaks>>

unregister(c) ==
    /\ tun[c].stage = "left"
    /\ IF conns[Node(c)] = c
       THEN /\ conns' = [conns EXCEPT ![Node(c)] = None]
            /\ Report(Node(c), "offline")
       ELSE UNCHANGED <<conns, reported, stale>>
    /\ tun' = [tun EXCEPT ![c].stage = "gone", ![c].closed = TRUE]
    /\ UNCHANGED <<pending, nextReqID, agentConn, work, call, executed, breaks>>

\* readLoop: a ping is answered, a pong falls through the switch (the pong
\* handler that sets lastPong sees WebSocket pongs only), an answer is looked
\* up in pending and dropped when nobody waits for it.
Read(c) ==
    LET m == Head(tun[c].toHub)
        t == [tun[c] EXCEPT !.toHub = Tail(@)] IN
    /\ Reading(c)
    /\ tun[c].toHub # <<>>
    /\ tun' = [tun EXCEPT ![c] =
         IF m = <<"ping">> /\ t.up
         THEN [t EXCEPT !.toNode = Append(@, <<"pong">>)]
         ELSE IF m \in Reqs /\ pending[m[1]] # None
         THEN [t EXCEPT !.held = m]
         ELSE t]
    /\ UNCHANGED <<hub, agentConn, work, call, executed, breaks>>

\* The answer goes into the channel, unless that is full.  The channel was
\* found earlier: its owner may have timed out since.
Deliver(c) ==
    LET m == tun[c].held IN
    /\ m # None
    /\ \E k \in Calls :
         /\ call[k].id = m[1]
         /\ call' = IF call[k].ch = None THEN [call EXCEPT ![k].ch = m[2]]
                                         ELSE call
    /\ tun' = [tun EXCEPT ![c].held = None, ![c].drop = m[1]]
    /\ UNCHANGED <<hub, agentConn, work, executed, breaks>>

\* The reader deletes the entry of the answer it delivered.
Drop(c) ==
    /\ tun[c].drop # 0
    /\ pending' = [pending EXCEPT ![tun[c].drop] = None]
    /\ tun' = [tun EXCEPT ![c].drop = 0]
    /\ UNCHANGED <<conns, reported, nextReqID, stale, agentConn, work, call,
                   executed, breaks>>

\* Mutant: a request whose write failed is kept for another try.
WriteAgain(c) ==
    LET m == Head(tun[c].send) IN
    /\ tun[c].writer
    /\ tun[c].send # <<>>
    /\ \/ tun' = [tun EXCEPT ![c].send = Tail(@),
                             ![c].toNode = IF tun[c].up THEN Append(@, m)
                                                        ELSE @]
       \/ /\ tun[c].up
          /\ tun' = [tun EXCEPT ![c].toNode = Append(@, m)]
    /\ UNCHANGED <<hub, agentConn, work, call, executed, breaks>>

\* writeLoop takes a request from the channel; a failed write ends the loop.
Write(c) ==
    LET m == Head(tun[c].send) IN
    /\ tun[c].writer
    /\ tun[c].send # <<>>
    /\ \/ tun' = [tun EXCEPT ![c].send = Tail(@),
                             ![c].toNode = IF tun[c].up THEN Append(@, m)
                                                        ELSE @]
       \/ /\ ~tun[c].up
          /\ tun' = [tun EXCEPT ![c].send = Tail(@), ![c].writer = FALSE]
    /\ UNCHANGED <<hub, agentConn, work, call, executed, breaks>>

\* The channel is closed and drained: writeLoop ends.
WriteEnd(c) ==
    /\ tun[c].writer
    /\ tun[c].closed
    /\ tun[c].send = <<>>
    /\ tun' = [tun EXCEPT ![c].writer = FALSE]
    /\ UNCHANGED <<hub, agentConn, work, call, executed, breaks>>

\* The ping ticker.  At its second tick more than 2*pingInterval has passed
\* since lastPong was set, and writeLoop returns.
Beat(c) ==
    /\ Beats
    /\ tun[c].writer
    /\ tun[c].ticks < 2
    /\ LET t == tun[c] IN
       tun' = [tun EXCEPT ![c] =
         IF t.ticks = 1
         THEN [t EXCEPT !.ticks = 2, !.writer = FALSE]
         ELSE [t EXCEPT !.ticks = 1,
                        !.toNode = IF t.up THEN Append(@, <<"ping">>) ELSE @]]
    /\ UNCHANGED <<hub, agentConn, work, call, executed, breaks>>

(***************************************************************************)
(* The agent.                                                              *)
(***************************************************************************)

\* writeMessage: over the connection the agent has now, if any.
AgentWrite(a, m, t) ==
    LET c == agentConn[a] IN
    IF c # None /\ t[c].up THEN [t EXCEPT ![c].toHub = Append(@, m)] ELSE t

\* readLoop: a request gets a goroutine, a ping is answered.
AgentRead(a) ==
    LET c == agentConn[a]
        m == Head(tun[c].toNode)
        t == [tun EXCEPT ![c].toNode = Tail(@)] IN
    /\ c # None
    /\ tun[c].toNode # <<>>
    /\ tun' = IF m = <<"ping">> THEN AgentWrite(a, <<"pong">>, t) ELSE t
    /\ work' = IF m \in Reqs THEN [work EXCEPT ![a] = @ \cup {m}] ELSE work
    /\ UNCHANGED <<hub, agentConn, call, executed, breaks>>

\* handleRequest: serve the request, answer over the current connection.
handleRequest(a, m) ==
    /\ m \in work[a]
    /\ work' = [work EXCEPT ![a] = @ \ {m}]
    /\ executed' = [executed EXCEPT ![m[2]] = @ + 1]
    /\ tun' = AgentWrite(a, m, tun)
    /\ UNCHANGED <<hub, agentConn, call, breaks>>

\* writeLoop's ticker: ping the hub while connected.  Bound: the 30 seconds
\* between two pings are enough for what is in flight to arrive.
AgentPing(a) ==
    LET c == agentConn[a] IN
    /\ Beats
    /\ c # None
    /\ tun[c].toHub = <<>> /\ tun[c].toNode = <<>>
    /\ tun' = AgentWrite(a, <<"ping">>, tun)
    /\ UNCHANGED <<hub, agentConn, work, call, executed, breaks>>

\* ReadMessage fails; connect returns and runLoop dials again.
setDisconnected(a) ==
    LET c == agentConn[a] IN
    /\ c # None
    /\ ~tun[c].up
    /\ agentConn' = [agentConn EXCEPT ![a] = None]
    /\ tun' = [tun EXCEPT ![c].toNode = <<>>]
    /\ UNCHANGED <<hub, work, call, executed, breaks>>

(***************************************************************************)
(* Hub.Request, step by step.                                              *)
(***************************************************************************)

Lookup(k, n) ==
    /\ call[k].pc = "idle"
    /\ call' = [call EXCEPT ![k].pc = IF conns[n] = None THEN "offline"
                                                         ELSE "found",
                            ![k].cs = conns[n]]
    /\ UNCHANGED <<hub, tun, agentConn, work, executed, breaks>>

\* Mutant: the lowest number that is free.
NextIdLowest == CHOOSE i \in Ids : /\ pending[i] = None
                                   /\ \A j \in 1..(i - 1) : pending[j] # None

\* Mutant: a number is skipped.
NextIdSkip == nextReqID + 2

NextId == nextReqID + 1

Number(k) ==
    /\ call[k].pc = "found"
    /\ nextReqID < MaxReq
    /\ nextReqID' = nextReqID + 1
    /\ pending' = [pending EXCEPT ![NextId] = k]
    /\ call' = [call EXCEPT ![k].pc = "sending", ![k].id = NextId]
    /\ UNCHANGED <<conns, reported, stale, tun, agentConn, work, executed,
                   breaks>>

\* The send channel takes the request; on a closed channel Go panics.
Send(k) ==
    LET c == call[k].cs IN
    /\ call[k].pc = "sending"
    /\ tun[c].closed \/ Len(tun[c].send) < SendCap
    /\ IF tun[c].closed
       THEN /\ call' = [call EXCEPT ![k].pc = "panic"]
            /\ UNCHANGED tun
       ELSE /\ call' = [call EXCEPT ![k].pc = "waiting"]
            /\ tun' = [tun EXCEPT ![c].send = Append(@, <<call[k].id, k>>)]
    /\ UNCHANGED <<hub, agentConn, work, executed, breaks>>

\* delete(h.pending, reqID)
Forget(k) == pending' = [pending EXCEPT ![call[k].id] = None]

\* Two seconds pass with the channel full.
SendTimeout(k) ==
    LET c == call[k].cs IN
    /\ call[k].pc = "sending"
    /\ ~tun[c].closed /\ Len(tun[c].send) = SendCap
    /\ call' = [call EXCEPT ![k].pc = "send timeout"]
    /\ Forget(k)
    /\ UNCHANGED <<conns, reported, nextReqID, stale, tun, agentConn, work,
                   executed, breaks>>

Receive(k) ==
    /\ call[k].pc = "waiting"
    /\ call[k].ch # None
    /\ call' = [call EXCEPT ![k].pc = "ok"]
    /\ UNCHANGED <<hub, tun, agentConn, work, executed, breaks>>

\* Mutant: the timer leaves the entry in pending.
TimeoutKeep(k) ==
    /\ call[k].pc = "waiting"
    /\ call' = [call EXCEPT ![k].pc = "timeout"]
    /\ UNCHANGED <<hub, tun, agentConn, work, executed, breaks>>

\* The timer may win even when the answer has just arrived.
Timeout(k) ==
    /\ call[k].pc = "waiting"
    /\ call' = [call EXCEPT ![k].pc = "timeout"]
    /\ Forget(k)
    /\ UNCHANGED <<conns, reported, nextReqID, stale, tun, agentConn, work,
                   executed, breaks>>

(***************************************************************************)
(* The panel restarts: the hub starts empty and counts from 0 again; the   *)
(* database keeps what was last reported, the agents keep their requests.  *)
(***************************************************************************)
Restart ==
    /\ Restarts
    /\ nextReqID > 0
    /\ conns' = [n \in Nodes |-> None]
    /\ pending' = [i \in Ids |-> None]
    /\ nextReqID' = 0
    /\ stale' = Nodes
    /\ tun' = [c \in Conns |->
         IF tun[c].stage = "unused" THEN tun[c]
         ELSE [tun[c] EXCEPT !.stage = "gone", !.up = FALSE, !.writer = FALSE,
                             !.held = None, !.drop = 0]]
    /\ call' = [k \in Calls |->
         IF call[k].pc \in Waiting
         THEN [call[k] EXCEPT !.pc = "lost", !.id = 0]
         ELSE [call[k] EXCEPT !.id = 0]]
    /\ UNCHANGED <<reported, agentConn, work, executed, breaks>>

(***************************************************************************)
(* The specification.                                                      *)
(***************************************************************************)

Serve(c) == register(c) \/ ReadFail(c) \/ unregister(c)

Traffic(c) ==
    \/ Read(c) \/ Deliver(c) \/ Drop(c)
    \/ Write(c) \/ WriteEnd(c)

Agent(a) ==
    \/ AgentRead(a) \/ AgentPing(a) \/ setDisconnected(a)
    \/ \E m \in Reqs : handleRequest(a, m)

Request(k) ==
    Number(k) \/ Send(k) \/ SendTimeout(k) \/ Receive(k) \/ Timeout(k)

Next ==
    \/ \E a \in Agents, c \in Conns : Dial(a, c)
    \/ \E c \in Conns : Break(c) \/ Serve(c) \/ Traffic(c) \/ Beat(c)
    \/ \E a \in Agents : Agent(a)
    \/ \E k \in Calls, n \in Nodes : Lookup(k, n)
    \/ \E k \in Calls : Request(k)
    \/ Restart

Spec == Init /\ [][Next]_vars

(***************************************************************************)
(* Go runs every goroutine that can run; both ends notice a dead peer by   *)
(* TCP keep-alive; runLoop dials for as long as it has no connection; the  *)
(* timers of Request fire.                                                 *)
(***************************************************************************)
Fairness ==
    /\ \A c \in Conns : WF_vars(Serve(c)) /\ WF_vars(Traffic(c))
    /\ \A a \in Agents : /\ WF_vars(\E c \in Conns : Dial(a, c))
                         /\ WF_vars(setDisconnected(a))
    /\ \A k \in Calls : WF_vars(Request(k))

FairSpec == Spec /\ Fairness

(***************************************************************************)
(* Properties.                                                             *)
(***************************************************************************)

\* Every variable has its type.
TypeOK ==
    /\ conns \in [Nodes -> Conns \cup {None}]
    /\ reported \in [Nodes -> {"online", "offline"}]
    /\ tun \in [Conns -> Tunnel]
    /\ agentConn \in [Agents -> Conns \cup {None}]
    /\ work \in [Agents -> SUBSET Reqs]
    /\ call \in [Calls -> Call]
    /\ pending \in [Ids -> Calls \cup {None}]
    /\ nextReqID \in 0..MaxReq
    /\ executed \in [Calls -> Nat]
    /\ breaks \in 0..MaxBreaks
    /\ stale \subseteq Nodes

\* "Tunnel up/down state shows live": what the hub last reported of a node is
\* whether it has a connection for it, however registrations of new and
\* evicted connections interleave.
ReportedMatches ==
    \A n \in Nodes \ stale : reported[n] = "online" <=> conns[n] # None

\* A connection that is being read and is not registered has been closed: an
\* evicted tunnel cannot stay open beside its successor.
OnlyRegisteredUp ==
    \A c \in Conns : tun[c].stage = "open" /\ tun[c].up => conns[Node(c)] = c

\* A call returns the answer to its own request, never the late answer to a
\* call that timed out.
AnswersOwnRequest == \A k \in Calls : call[k].pc = "ok" => call[k].ch = k

\* A node serves a request at most once, and never one whose caller was told
\* that it was not sent.
ServedOnce ==
    \A k \in Calls :
        /\ executed[k] <= 1
        /\ call[k].pc \in {"offline", "send timeout", "panic"}
             => executed[k] = 0

\* Hub.pending does not fill up: an entry belongs to a call that still waits,
\* or the reader is about to delete it.  (A call that panics on a closed send
\* channel leaves its entry behind.)
PendingOwned ==
    \A i \in Ids : pending[i] # None =>
        \/ call[pending[i]].pc \in {"sending", "waiting", "panic"}
        \/ \E c \in Conns : tun[c].drop = i

\* runLoop and register: when the network stops losing connections, an agent
\* ends up connected and registered for good.
Reconnects ==
    <>[](\A a \in Agents : /\ agentConn[a] # None
                           /\ conns[NodeOf[a]] = agentConn[a])

\* ServeWS, writeLoop, connect and Request: a connection that is lost, evicted
\* or cut by a restart is let go in the end by everybody: its reader and writer
\* end, the agent forgets it, and no call waits on it any more.
Released ==
    \A c \in Conns :
        (tun[c].stage # "unused" /\ ~tun[c].up) ~> Recyclable(c)

(***************************************************************************)
(* The inductive invariants behind the safety properties.                  *)
(***************************************************************************)

\* A connection in use was dialled by an agent; only the reader of an open
\* one holds an answer, and it deletes an entry before it reads on.
ReaderInv ==
    \A c \in Conns :
        /\ tun[c].stage # "unused" => tun[c].agent \in Agents
        /\ tun[c].stage # "open" => tun[c].held = None /\ tun[c].drop = 0
        /\ tun[c].held # None => tun[c].drop = 0

\* Numbers are given once, in order; a call without one has no answer.
NumbersInv ==
    /\ \A k \in Calls : call[k].id <= nextReqID
    /\ \A k \in Calls : call[k].pc \in {"idle", "found", "offline"} =>
           call[k].id = 0 /\ call[k].ch = None
    /\ \A k \in Calls : call[k].pc \in {"sending", "waiting"} =>
           call[k].id # 0 /\ call[k].cs \in Conns
    /\ \A k \in Calls : call[k].pc = "found" => call[k].cs \in Conns
    /\ \A j, k \in Calls : call[j].id = call[k].id /\ call[j].id # 0 => j = k

\* An entry of pending is the number of its call; once the answer is in the
\* channel a reader is about to delete the entry.
EntriesInv ==
    /\ \A i \in Ids : pending[i] # None => call[pending[i]].id = i
    /\ \A i \in Ids : pending[i] # None /\ call[pending[i]].ch # None =>
           \E c \in Conns : tun[c].drop = i

\* A request or answer, wherever it is, has the number of its call.
Owned(m) == m \in Reqs => call[m[2]].id = m[1]
MessagesInv ==
    /\ \A c \in Conns :
           /\ \A i \in DOMAIN tun[c].send : Owned(tun[c].send[i])
           /\ \A i \in DOMAIN tun[c].toNode : Owned(tun[c].toNode[i])
           /\ \A i \in DOMAIN tun[c].toHub : Owned(tun[c].toHub[i])
           /\ tun[c].held # None => Owned(tun[c].held)
    /\ \A a \in Agents : \A m \in work[a] : Owned(m)

\* The channel of a call has only ever received its own answer.
OwnAnswers == \A k \in Calls : call[k].ch \in {None, k}

\* Where the request of a call is on its way to be served.
Queued(k, c, i) == i \in DOMAIN tun[c].send /\ tun[c].send[i][2] = k
Travelling(k, c, i) ==
    /\ i \in DOMAIN tun[c].toNode
    /\ tun[c].toNode[i] \in Reqs /\ tun[c].toNode[i][2] = k
Working(k, a, m) == m \in work[a] /\ m[2] = k

Nowhere(k) ==
    /\ \A c \in Conns : \A i \in DOMAIN tun[c].send : ~Queued(k, c, i)
    /\ \A c \in Conns : \A i \in DOMAIN tun[c].toNode : ~Travelling(k, c, i)
    /\ \A a \in Agents : \A m \in work[a] : ~Working(k, a, m)

\* It is in one place at most.
OnePlace(k) ==
    /\ \A c, d \in Conns : \A i \in DOMAIN tun[c].send, j \in DOMAIN tun[d].send :
           Queued(k, c, i) /\ Queued(k, d, j) => c = d /\ i = j
    /\ \A c, d \in Conns : \A i \in DOMAIN tun[c].toNode, j \in DOMAIN tun[d].toNode :
           Travelling(k, c, i) /\ Travelling(k, d, j) => c = d /\ i = j
    /\ \A a, b \in Agents : \A m \in work[a], n \in work[b] :
           Working(k, a, m) /\ Working(k, b, n) => a = b /\ m = n
    /\ \A c, d \in Conns : \A i \in DOMAIN tun[c].send, j \in DOMAIN tun[d].toNode :
           ~(Queued(k, c, i) /\ Travelling(k, d, j))
    /\ \A c \in Conns, a \in Agents : \A i \in DOMAIN tun[c].send, m \in work[a] :
           ~(Queued(k, c, i) /\ Working(k, a, m))
    /\ \A c \in Conns, a \in Agents : \A i \in DOMAIN tun[c].toNode, m \in work[a] :
           ~(Travelling(k, c, i) /\ Working(k, a, m))

\* A request is in one place until it is served, and nowhere before it is sent
\* and once it is served.
Unsent == {"idle", "found", "sending", "offline", "send timeout", "panic"}
ServedInv ==
    \A k \in Calls :
        /\ OnePlace(k)
        /\ executed[k] <= 1
        /\ executed[k] = 1 \/ call[k].pc \in Unsent => Nowhere(k)
        /\ call[k].pc \in Unsent => executed[k] = 0

HubInv == TypeOK /\ ReaderInv /\ NumbersInv /\ EntriesInv

(***************************************************************************)
(* What the documentation promises and the code does not keep.             *)
(***************************************************************************)

\* "a persistent WebSocket tunnel ...; every management call travels through
\* it" (README): while a connection is up and everything sent over it, pings
\* and pongs included, has been read, its writer does not stop.
TunnelPersists ==
    [][\A c \in Conns :
         (/\ tun[c].writer /\ tun[c].up
          /\ tun[c].toNode = <<>> /\ tun[c].toHub = <<>>)
           => tun'[c].writer]_vars
=============================================================================
