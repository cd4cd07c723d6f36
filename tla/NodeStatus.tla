----------------------------- MODULE NodeStatus -----------------------------
(***************************************************************************)
(* The server_nodes rows of the master (store/nodes.go) and everyone who   *)
(* writes their status: the hub's callback (App.NewHub), the alerter's     *)
(* checkNodes, the probe of handleNodeAction, and handleUpdateNode, which  *)
(* writes back the status it read.  NodeHub has the connections; here a    *)
(* node answers a ping or not.                                             *)
(***************************************************************************)
EXTENDS Integers, FiniteSets

CONSTANTS
    SNodes,          \* node ids
    ReverseNodes,    \* those connected through the hub
    StatusHandlers,  \* concurrent requests
    MaxNodeEvents    \* bound: requests, settings, and nodes coming and going

VARIABLES
    nodeRow,     \* id -> row or NoNodeRow
    nodeUp,      \* id -> whether the node answers
    alertsOn,    \* the setting alerts_enabled
    owed,        \* id -> the status the hub's callback is about to write
    round,       \* id -> checkNodes' goroutine
    statusReq,   \* what each request does
    nodeEvents

statusVars == <<nodeRow, nodeUp, alertsOn, owed, round, statusReq, nodeEvents>>

NoNodeRow == [status |-> "absent", enabled |-> FALSE]
NoStatusReq == [pc |-> "idle", node |-> CHOOSE n \in SNodes : TRUE, row |-> NoNodeRow, status |-> "unknown"]
NoCheck == [pc |-> "none", prev |-> "absent", status |-> "absent"]

StatusInit ==
    /\ nodeRow = [n \in SNodes |-> NoNodeRow]
    /\ nodeUp \in [SNodes -> BOOLEAN]
    /\ alertsOn \in BOOLEAN
    /\ owed = [n \in SNodes |-> "none"]
    /\ round = [n \in SNodes |-> NoCheck]
    /\ statusReq = [h \in StatusHandlers |-> NoStatusReq]
    /\ nodeEvents = 0

NodeEvent ==
    /\ nodeEvents < MaxNodeEvents
    /\ nodeEvents' = nodeEvents + 1

\* An UPDATE ... WHERE id of a row that is gone changes nothing.
TouchServerNode(n, s) ==
    nodeRow' = IF nodeRow[n] = NoNodeRow THEN nodeRow ELSE [nodeRow EXCEPT ![n].status = s]

Reachable(up) == IF up THEN "online" ELSE "offline"

-----------------------------------------------------------------------------
CreateNode ==
    /\ NodeEvent
    /\ \E n \in SNodes :
          /\ nodeRow[n] = NoNodeRow
          /\ nodeRow' = [nodeRow EXCEPT ![n] = [status |-> "unknown", enabled |-> TRUE]]
    /\ UNCHANGED <<nodeUp, alertsOn, owed, round, statusReq>>

DeleteNode ==
    /\ NodeEvent
    /\ \E n \in SNodes :
          /\ nodeRow[n] # NoNodeRow
          /\ nodeRow' = [nodeRow EXCEPT ![n] = NoNodeRow]
    /\ UNCHANGED <<nodeUp, alertsOn, owed, round, statusReq>>

\* The installer registers again: the row is enabled.  (The INSERT for a new
\* node has fewer values than columns and fails.)
SelfRegister ==
    /\ NodeEvent
    /\ \E n \in SNodes :
          /\ nodeRow[n] # NoNodeRow
          /\ nodeRow' = [nodeRow EXCEPT ![n].enabled = TRUE]
    /\ UNCHANGED <<nodeUp, alertsOn, owed, round, statusReq>>

\* An edit reads the row, keeps what was not sent, and writes all of it; the
\* enabled flag is sent or kept, whichever is true.
UpdateNode(h) ==
    /\ \/ /\ statusReq[h].pc = "idle"
          /\ NodeEvent
          /\ \E n \in SNodes, sent \in BOOLEAN :
                /\ nodeRow[n] # NoNodeRow
                /\ statusReq' = [statusReq EXCEPT ![h] = [NoStatusReq EXCEPT !.pc = "update", !.node = n,
                                    !.row = [nodeRow[n] EXCEPT !.enabled = sent \/ @]]]
          /\ UNCHANGED nodeRow
       \/ /\ statusReq[h].pc = "update"
          /\ nodeRow' = IF nodeRow[statusReq[h].node] = NoNodeRow THEN nodeRow
                        ELSE [nodeRow EXCEPT ![statusReq[h].node] = statusReq[h].row]
          /\ statusReq' = [statusReq EXCEPT ![h] = NoStatusReq]
          /\ UNCHANGED nodeEvents
    /\ UNCHANGED <<nodeUp, alertsOn, owed, round>>

\* probe, summary and tools ping an enabled node and write what they saw.
NodeAction(h) ==
    /\ \/ /\ statusReq[h].pc = "idle"
          /\ NodeEvent
          /\ \E n \in SNodes :
                /\ nodeRow[n].enabled
                /\ statusReq' = [statusReq EXCEPT ![h] = [NoStatusReq EXCEPT !.pc = "touch", !.node = n,
                                    !.status = Reachable(nodeUp[n])]]
          /\ UNCHANGED nodeRow
       \/ /\ statusReq[h].pc = "touch"
          /\ TouchServerNode(statusReq[h].node, statusReq[h].status)
          /\ statusReq' = [statusReq EXCEPT ![h] = NoStatusReq]
          /\ UNCHANGED nodeEvents
    /\ UNCHANGED <<nodeUp, alertsOn, owed, round>>

-----------------------------------------------------------------------------
NodeChange ==
    /\ NodeEvent
    /\ \E n \in SNodes :
          /\ nodeUp' = [nodeUp EXCEPT ![n] = ~@]
          /\ owed' = IF n \in ReverseNodes THEN [owed EXCEPT ![n] = Reachable(~nodeUp[n])] ELSE owed
    /\ UNCHANGED <<nodeRow, alertsOn, round, statusReq>>

\* The callback of NewHub.
HubTouch(n) ==
    /\ owed[n] # "none"
    /\ TouchServerNode(n, owed[n])
    /\ owed' = [owed EXCEPT ![n] = "none"]
    /\ UNCHANGED <<nodeUp, alertsOn, round, statusReq, nodeEvents>>

\* alerts_enabled is changed in the settings.
SetAlerts ==
    /\ NodeEvent
    /\ alertsOn' = ~alertsOn
    /\ UNCHANGED <<nodeRow, nodeUp, owed, round, statusReq>>

\* Round, unless alerts are off: checkNodes lists the rows; every enabled node gets
\* a goroutine.
ListNodes ==
    /\ alertsOn
    /\ \A n \in SNodes : round[n] = NoCheck
    /\ round' = [n \in SNodes |-> IF nodeRow[n].enabled
                                  THEN [NoCheck EXCEPT !.pc = "ping", !.prev = nodeRow[n].status] ELSE NoCheck]
    /\ UNCHANGED <<nodeRow, nodeUp, alertsOn, owed, statusReq, nodeEvents>>

\* Mutant: only a node that was online before can go offline.
CheckNodeOnline(n) ==
    /\ round[n].pc = "ping"
    /\ round' = [round EXCEPT ![n] =
                    IF (nodeUp[n] /\ @.prev = "offline") \/ (~nodeUp[n] /\ @.prev = "online")
                    THEN [@ EXCEPT !.pc = "touch", !.status = Reachable(nodeUp[n])] ELSE NoCheck]
    /\ UNCHANGED <<nodeRow, nodeUp, alertsOn, owed, statusReq, nodeEvents>>

\* The ping is compared with the status that was listed; a change is alerted
\* and then written.
CheckNode(n) ==
    /\ round[n].pc = "ping"
    /\ round' = [round EXCEPT ![n] =
                    IF (nodeUp[n] /\ @.prev = "offline") \/ (~nodeUp[n] /\ @.prev # "offline")
                    THEN [@ EXCEPT !.pc = "touch", !.status = Reachable(nodeUp[n])] ELSE NoCheck]
    /\ UNCHANGED <<nodeRow, nodeUp, alertsOn, owed, statusReq, nodeEvents>>

CheckTouch(n) ==
    /\ round[n].pc = "touch"
    /\ TouchServerNode(n, round[n].status)
    /\ round' = [round EXCEPT ![n] = NoCheck]
    /\ UNCHANGED <<nodeUp, alertsOn, owed, statusReq, nodeEvents>>

StatusNext ==
    \/ CreateNode \/ DeleteNode \/ SelfRegister \/ NodeChange \/ SetAlerts \/ ListNodes
    \/ \E h \in StatusHandlers : UpdateNode(h) \/ NodeAction(h)
    \/ \E n \in SNodes : HubTouch(n) \/ CheckNode(n) \/ CheckTouch(n)

StatusStep(n) == HubTouch(n) \/ CheckNode(n) \/ CheckTouch(n)
ReplyStep(h) == statusReq[h].pc # "idle" /\ (UpdateNode(h) \/ NodeAction(h))

-----------------------------------------------------------------------------
(***************************************************************************)
(* While alerts are on, an enabled node that answers for good is not shown *)
(* offline for good, and one that is silent for good is shown offline from *)
(* some time on, although the alerter, a probe, the hub and an edit all    *)
(* write a status they read or saw earlier, in any order (checkNodes,      *)
(* handleUpdateNode).  With alerts off nobody pings the nodes (Round).     *)
(***************************************************************************)
StatusConverges ==
    <>[]alertsOn =>
        \A n \in SNodes :
            /\ <>[](nodeRow[n].enabled /\ nodeUp[n]) => <>[](nodeRow[n].status # "offline")
            /\ <>[](nodeRow[n].enabled /\ ~nodeUp[n]) => <>[](nodeRow[n].status = "offline")
=============================================================================
