---------------------------- MODULE MCBackground ----------------------------
(***************************************************************************)
(* Loops of the panel for TLC: the push of bandwidth plans, the health     *)
(* checker, and the status of the nodes.  They share no variable, so a     *)
(* behaviour runs one of them: the part is chosen initially, the others    *)
(* stay in one initial state.                                              *)
(***************************************************************************)
EXTENDS RatePush, HealthAlerts, NodeStatus

VARIABLE part

allVars == <<rateVars, healthVars, statusVars, part>>

Init ==
    /\ part \in {"push", "health", "status"}
    /\ /\ RateInit /\ HealthInit /\ StatusInit
    /\ part # "push" => limiting /\ \A n \in RNodes : nodeOn[n]
    /\ part # "health" => \A k \in HKeys : target[k] = NoHost
    /\ part # "status" => alertsOn /\ \A n \in SNodes : nodeUp[n]

PushOnly(A) == part = "push" /\ A /\ UNCHANGED <<healthVars, statusVars, part>>
HealthOnly(A) == part = "health" /\ A /\ UNCHANGED <<rateVars, statusVars, part>>
StatusOnly(A) == part = "status" /\ A /\ UNCHANGED <<rateVars, healthVars, part>>

Next ==
    \/ PushOnly(RateNext)
    \/ HealthOnly(HealthNext)
    \/ StatusOnly(StatusNext)

\* Timers of the loops fire and a goroutine that can go on does.
Fairness ==
    /\ WF_allVars(PushOnly(Tick))
    /\ WF_allVars(PushOnly(LoopRound))
    /\ \A p \in Pushers : WF_allVars(PushOnly(PushStep(p)))
    /\ WF_allVars(HealthOnly(CheckerStep))
    /\ WF_allVars(StatusOnly(ListNodes))
    /\ \A n \in SNodes : WF_allVars(StatusOnly(StatusStep(n)))
    /\ \A h \in StatusHandlers : WF_allVars(StatusOnly(ReplyStep(h)))

Spec == Init /\ [][Next]_allVars /\ Fairness
=============================================================================
