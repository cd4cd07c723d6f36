---------------------------- MODULE HealthAlerts ----------------------------
(***************************************************************************)
(* The health checker (health/health.go) and the alerter's view of it      *)
(* (alerter/alerter.go).  The checker lists the mappings and the rows of   *)
(* its last round, probes every target concurrently, prunes rows without a *)
(* target and stores the results; mappings are edited and deleted while it *)
(* probes.  The alerter reads the rows on a timer of its own.              *)
(*                                                                         *)
(* A row is kept per mapping and target index, here one key.               *)
(***************************************************************************)
EXTENDS Integers, FiniteSets

CONSTANTS
    HKeys,           \* mapping:index
    Hosts, NoHost,   \* target addresses
    MaxHealthEvents  \* bound: edits of mappings and changes of hosts

VARIABLES
    target,    \* key -> the host of an enabled mapping's target, or NoHost
    hostUp,    \* host -> whether it answers
    health,    \* key -> row of target_health or NoHealth
    checker,   \* the round under way: what it listed, what it found
    cooling,   \* keys whose last alert is younger than the cooldown
    alerted,   \* keys with a "Backend down" alert
    healthEvents

healthVars == <<target, hostUp, health, checker, cooling, alerted, healthEvents>>

FailThreshold == 3
FailCap == FailThreshold + 1   \* bound: counts above the threshold are one
NoHealth == [host |-> NoHost, status |-> "unknown", fails |-> 0]
NoneOf == [k \in HKeys |-> NoHealth]
IdleChecker == [pc |-> "idle", targets |-> [k \in HKeys |-> NoHost], prev |-> NoneOf, results |-> NoneOf]

HealthInit ==
    /\ target \in [HKeys -> Hosts \cup {NoHost}]
    /\ hostUp = [h \in Hosts |-> TRUE]
    /\ health = NoneOf
    /\ checker = IdleChecker
    /\ cooling = {} /\ alerted = {}
    /\ healthEvents = 0

HealthEvent ==
    /\ healthEvents < MaxHealthEvents
    /\ healthEvents' = healthEvents + 1

-----------------------------------------------------------------------------
HostChange ==
    /\ HealthEvent
    /\ \E h \in Hosts : hostUp' = [hostUp EXCEPT ![h] = ~@]
    /\ UNCHANGED <<target, health, checker, cooling, alerted>>

\* A saved mapping has another target at the index, or none, or is disabled.
EditTarget ==
    /\ HealthEvent
    /\ \E k \in HKeys, h \in Hosts \cup {NoHost} : target' = [target EXCEPT ![k] = h]
    /\ UNCHANGED <<hostUp, health, checker, cooling, alerted>>

\* A deleted mapping takes its rows along.
DeleteMappingHealth ==
    /\ HealthEvent
    /\ \E k \in HKeys :
          /\ target' = [target EXCEPT ![k] = NoHost]
          /\ health' = [health EXCEPT ![k] = NoHealth]
    /\ UNCHANGED <<hostUp, checker, cooling, alerted>>

-----------------------------------------------------------------------------
\* Round.
ListRound ==
    /\ checker.pc = "idle"
    /\ checker' = [IdleChecker EXCEPT !.pc = "probe", !.targets = target, !.prev = health]
    /\ UNCHANGED <<target, hostUp, health, cooling, alerted, healthEvents>>

\* A first failure counts only when the target was known before the round.
CheckTarget(h, prev) ==
    [host |-> h,
     status |-> IF hostUp[h] THEN "up" ELSE "down",
     fails |-> IF hostUp[h] \/ prev = NoHealth THEN 0
               ELSE IF prev.fails < FailCap THEN prev.fails + 1 ELSE FailCap]

Unprobed(k) == checker.targets[k] # NoHost /\ checker.results[k] = NoHealth

ProbeTarget(k) ==
    /\ checker.pc = "probe" /\ Unprobed(k)
    /\ checker' = [checker EXCEPT !.results[k] = CheckTarget(checker.targets[k], checker.prev[k])]
    /\ UNCHANGED <<target, hostUp, health, cooling, alerted, healthEvents>>

\* Mutant: the rows are kept.
KeepHealth ==
    /\ checker.pc = "probe"
    /\ \A k \in HKeys : ~Unprobed(k)
    /\ checker' = [checker EXCEPT !.pc = "store"]
    /\ UNCHANGED <<target, hostUp, health, cooling, alerted, healthEvents>>

\* Rows the round listed and found no target for are deleted.
PruneHealth ==
    /\ checker.pc = "probe"
    /\ \A k \in HKeys : ~Unprobed(k)
    /\ checker' = [checker EXCEPT !.pc = "store"]
    /\ health' = [k \in HKeys |-> IF checker.prev[k] # NoHealth /\ checker.targets[k] = NoHost
                                  THEN NoHealth ELSE health[k]]
    /\ UNCHANGED <<target, hostUp, cooling, alerted, healthEvents>>

UpsertHealth ==
    /\ checker.pc = "store"
    /\ health' = [k \in HKeys |-> IF checker.targets[k] # NoHost THEN checker.results[k] ELSE health[k]]
    /\ checker' = IdleChecker
    /\ UNCHANGED <<target, hostUp, cooling, alerted, healthEvents>>

-----------------------------------------------------------------------------
\* fire: nothing while the key's last alert is younger than the cooldown.
Fire(keys) ==
    /\ cooling' = cooling \cup keys
    /\ alerted' = alerted \cup (keys \ cooling)

\* Rows that are down are alerted at the threshold, and only there.
CheckBackends ==
    /\ Fire({k \in HKeys : health[k].status = "down" /\ health[k].fails = FailThreshold})
    /\ UNCHANGED <<target, hostUp, health, checker, healthEvents>>

CoolDown ==
    /\ \E k \in cooling : cooling' = cooling \ {k}
    /\ UNCHANGED <<target, hostUp, health, checker, alerted, healthEvents>>

CheckerStep == ListRound \/ (\E k \in HKeys : ProbeTarget(k)) \/ PruneHealth \/ UpsertHealth

HealthNext == HostChange \/ EditTarget \/ DeleteMappingHealth \/ CheckerStep \/ CheckBackends \/ CoolDown

-----------------------------------------------------------------------------
(***************************************************************************)
(* Once a target stays as it is and its host answers, or not, for good,    *)
(* its row says so from some time on; and a target that is gone for good   *)
(* has no row from some time on: no edit or delete during a round leaves a *)
(* stale or phantom row behind ("so dashboards don't count phantom         *)
(* backends", Checker.Round).                                              *)
(***************************************************************************)
HealthFollows ==
    \A k \in HKeys :
        /\ <>[](target[k] = NoHost) => <>[](health[k] = NoHealth)
        /\ \A h \in Hosts :
              /\ <>[](target[k] = h /\ hostUp[h]) => <>[](health[k].host = h /\ health[k].status = "up")
              /\ <>[](target[k] = h /\ ~hostUp[h]) => <>[](health[k].host = h /\ health[k].status = "down")

(***************************************************************************)
(* What alerter.go:174 says: "alert only when a target has been down for   *)
(* multiple rounds (fail_count >= 3)", one alert per outage.  A target     *)
(* that stays down for good is alerted.  The code compares with = 3, and   *)
(* the two loops have timers of their own.                                 *)
(***************************************************************************)
OutageAlerted ==
    \A k \in HKeys, h \in Hosts : <>[](target[k] = h /\ ~hostUp[h]) => <>(k \in alerted)
=============================================================================
