------------------------------ MODULE RatePush ------------------------------
(***************************************************************************)
(* The master's side of bandwidth limits: the policies of the database     *)
(* (internal/store/ratelimit.go), PushRateLimitPlans and                   *)
(* handleRateLimitPush (internal/api/ratelimit.go), and the loop of        *)
(* cmd/server/main.go that pushes when MAX(updated_at) of the policies     *)
(* differs from the value it read before the last push, while              *)
(* rate_limiting_enabled is set.                                           *)
(*                                                                         *)
(* An agent keeps the rules it has applied in a state file beside tc.      *)
(* RateApplier models its commands one by one; here a request to it is one *)
(* step, with the outcomes those commands can leave.                       *)
(*                                                                         *)
(* A policy is its limit: 0 for one that gives no rule (disabled,          *)
(* unlimited, or its user has no last_ip), another number for a rule.      *)
(* Times are seconds.  Only their order matters, so a tick of the clock    *)
(* renumbers the times in use, and a behaviour may go on for ever.         *)
(***************************************************************************)
EXTENDS Integers, FiniteSets, FiniteSetsExt

CONSTANTS
    PolUuids,    \* Xray UUIDs with policies
    RNodes,      \* nodes
    Limits,      \* limits, 0 among them
    MaxEdits,    \* bound: edits of policies, nodes and the setting
    MaxLost,     \* bound: pushes and reads that fail
    MaxReboots   \* bound: restarts of the hosts of nodes

ASSUME PushAssumption == Limits \subseteq Nat /\ 0 \in Limits

VARIABLES
    policies,   \* rate_limit_policies: <<uuid, node>> -> row or NoPolicy
    nodeOn,     \* server_nodes.enabled
    limiting,   \* the setting rate_limiting_enabled
    enforced,   \* the rules of tc on the node: node -> uuid -> limit
    stateFile,  \* ratelimit-state.json of the node: node -> uuid -> limit
    now,        \* the clock
    lastPlan,   \* the loop's lastPlan, -1 before its first push
    rested,     \* whether the loop has waited since its last round
    push,       \* the push each process runs
    job,        \* the goroutine of each push and node
    raced,      \* history: nodes whose rules a push may have changed
                \*   without marking the policies accordingly
    hidden,     \* history: failed policies whose mark left the version as the
                \*   loop has seen it
    torn,       \* history: policies whose rule in tc may not be the one of the
                \*   state file: an apply changed it and did not save, a delete
                \*   failed, requests overlapped or the host restarted
    crossed,    \* history: requests under way that another has overlapped
    edits, lost, reboots \* bounds

agentVars == <<enforced, stateFile, torn>>
boundVars == <<edits, lost, reboots>>
rateVars == <<policies, nodeOn, limiting, enforced, stateFile, now, lastPlan, rested, push,
              job, raced, hidden, torn, crossed, edits, lost, reboots>>

Pushers == {"loop", "manual"}
Pairs == PolUuids \X RNodes
NoPolicy == [limit |-> -1, status |-> "none", at |-> 0]
NoRules == [u \in PolUuids |-> 0]
NoPush == [pc |-> "idle", plan |-> -1]
NoPushJob == [pc |-> "none", listed |-> {}, plan |-> NoRules, failed |-> FALSE]

\* PolicyPlanVersion: COALESCE(MAX(updated_at), 0).
PlanVersion == Max({policies[x].at : x \in Pairs} \cup {0})

\* The rules buildNodePlan makes of the policies of a node.
NodeRules(n) == [u \in PolUuids |-> Max({policies[<<u, n>>].limit, 0})]

WithPolicy(n) == {u \in PolUuids : policies[<<u, n>>] # NoPolicy}

\* The versions the loop will not push for once its round ends.
SeenVersions == {lastPlan, push["loop"].plan}

InFlight(n) == {p \in Pushers : job[<<p, n>>].pc \in {"post", "mark"}}

RateInit ==
    /\ policies = [x \in Pairs |-> NoPolicy]
    /\ nodeOn \in [RNodes -> BOOLEAN]
    /\ limiting \in BOOLEAN
    /\ enforced = [n \in RNodes |-> NoRules]
    /\ stateFile = [n \in RNodes |-> NoRules]
    /\ now = 1
    /\ lastPlan = -1
    /\ rested = TRUE
    /\ push = [p \in Pushers |-> NoPush]
    /\ job = [x \in Pushers \X RNodes |-> NoPushJob]
    /\ raced = {}
    /\ hidden = {}
    /\ torn = {}
    /\ crossed = {}
    /\ edits = 0
    /\ lost = 0
    /\ reboots = 0

\* The times in use, and their renumbering from 1 on.
Times == ({policies[x].at : x \in Pairs} \cup {lastPlan, push["loop"].plan, now}) \ {-1, 0}
Renumber(t) == IF t <= 0 THEN t ELSE Cardinality({s \in Times : s <= t})

\* A second passes.
Tick ==
    /\ policies' = [x \in Pairs |-> [policies[x] EXCEPT !.at = Renumber(@)]]
    /\ lastPlan' = Renumber(lastPlan)
    /\ push' = [p \in Pushers |-> [push[p] EXCEPT !.plan = Renumber(@)]]
    /\ now' = IF now \in {policies[x].at : x \in Pairs} \cup {lastPlan, push["loop"].plan}
              THEN Renumber(now) + 1 ELSE Renumber(now)
    /\ rested' = TRUE
    /\ UNCHANGED <<nodeOn, limiting, agentVars, job, raced, hidden, crossed, boundVars>>

Edit ==
    /\ edits < MaxEdits
    /\ edits' = edits + 1
    /\ UNCHANGED <<agentVars, now, lastPlan, rested, push, job, crossed, lost, reboots>>

\* UpsertRatePolicy: the row is pending, whatever it was.
PendingRow(l) == [limit |-> l, status |-> "pending", at |-> now]

\* Mutant: an update of the limits leaves the status of the row.
UpsertKeepsStatus(u, n) ==
    /\ Edit
    /\ nodeOn[n]
    /\ \E l \in Limits :
          policies' = [policies EXCEPT ![<<u, n>>] =
                         IF @ = NoPolicy THEN PendingRow(l) ELSE [@ EXCEPT !.limit = l, !.at = now]]
    /\ raced' = IF InFlight(n) = {} THEN raced ELSE raced \cup {n}
    /\ hidden' = hidden \ {<<u, n>>}
    /\ UNCHANGED <<nodeOn, limiting>>

\* handleUpsertRatePolicy: the row of an enabled node is pending again.
UpsertPolicy(u, n) ==
    /\ Edit
    /\ nodeOn[n]
    /\ \E l \in Limits :
          policies' = [policies EXCEPT ![<<u, n>>] = PendingRow(l)]
    /\ raced' = IF InFlight(n) = {} THEN raced ELSE raced \cup {n}
    /\ hidden' = hidden \ {<<u, n>>}
    /\ UNCHANGED <<nodeOn, limiting>>

\* handleDeleteRatePolicy.
DeletePolicy(u, n) ==
    /\ Edit
    /\ policies[<<u, n>>] # NoPolicy
    /\ policies' = [policies EXCEPT ![<<u, n>>] = NoPolicy]
    /\ hidden' = hidden \ {<<u, n>>}
    /\ UNCHANGED <<nodeOn, limiting, raced>>

\* DeleteRateProfile detaches the policies of the profile: their limits and
\* status stay, their time changes.
DetachProfile(u, n) ==
    /\ Edit
    /\ policies[<<u, n>>] # NoPolicy
    /\ policies' = [policies EXCEPT ![<<u, n>>].at = now]
    /\ UNCHANGED <<nodeOn, limiting, raced, hidden>>

\* A node is disabled or enabled, which no policy records.
ToggleNode(n) ==
    /\ Edit
    /\ nodeOn' = [nodeOn EXCEPT ![n] = ~@]
    /\ hidden' = hidden \cup {x \in PolUuids \X {n} :
                                policies[x].status = "failed" /\ PlanVersion \in SeenVersions}
    /\ UNCHANGED <<policies, limiting, raced>>

\* The setting is changed, and nothing else: the rules of the nodes stay.
SetLimiting ==
    /\ Edit
    /\ limiting' = ~limiting
    /\ UNCHANGED <<policies, nodeOn, raced, hidden>>

\* The host of a node restarts: its tc is empty and its state file is not.
HostRestart(n) ==
    /\ reboots < MaxReboots
    /\ reboots' = reboots + 1
    /\ enforced' = [enforced EXCEPT ![n] = NoRules]
    /\ torn' = torn \cup {x \in PolUuids \X {n} : stateFile[n][x[1]] # 0}
    /\ UNCHANGED <<policies, nodeOn, limiting, stateFile, now, lastPlan, rested, push, job,
                   raced, hidden, crossed, edits, lost>>

-----------------------------------------------------------------------------
\* One round of the loop: when limiting is on the version is read, and a push
\* starts when it has changed.
LoopRound ==
    /\ push["loop"].pc = "idle"
    /\ rested
    /\ rested' = FALSE
    /\ push' = [push EXCEPT !["loop"] = IF limiting /\ PlanVersion # lastPlan
                                        THEN [pc |-> "list", plan |-> PlanVersion] ELSE NoPush]
    /\ UNCHANGED <<policies, nodeOn, limiting, agentVars, now, lastPlan, job, raced, hidden,
                   crossed, boundVars>>

\* POST /ratelimit/push.
CallPush ==
    /\ push["manual"].pc = "idle"
    /\ edits < MaxEdits
    /\ edits' = edits + 1
    /\ push' = [push EXCEPT !["manual"].pc = "list"]
    /\ UNCHANGED <<policies, nodeOn, limiting, agentVars, now, lastPlan, rested, job, raced,
                   hidden, crossed, lost, reboots>>

\* The nodes and the policies are listed and a goroutine starts for each
\* enabled node.
List(p) ==
    /\ push[p].pc = "list"
    /\ push' = [push EXCEPT ![p].pc = "wait"]
    /\ job' = [x \in Pushers \X RNodes |->
                 IF x[1] = p /\ nodeOn[x[2]]
                 THEN [NoPushJob EXCEPT !.pc = "build",
                                    !.listed = WithPolicy(x[2])]
                 ELSE job[x]]
    /\ UNCHANGED <<policies, nodeOn, limiting, agentVars, now, lastPlan, rested, raced, hidden,
                   crossed, boundVars>>

\* The requests to the agent that run with one of p that begins.
Crossing(p, n) ==
    {x \in (Pushers \ {p}) \X {n} : job[x].pc = "post"}
Crossed(p, n) ==
    IF Crossing(p, n) = {} THEN crossed \ {<<p, n>>} ELSE crossed \cup Crossing(p, n) \cup {<<p, n>>}

\* pushNodePlan: validNode, then the plan.  A failed read of the policies is
\* an empty plan.
Build(p, n) ==
    /\ job[<<p, n>>].pc = "build"
    /\ \/ /\ ~nodeOn[n]
          /\ job' = [job EXCEPT ![<<p, n>>].pc = "mark", ![<<p, n>>].failed = TRUE]
          /\ UNCHANGED <<raced, crossed, lost>>
       \/ /\ nodeOn[n]
          /\ job' = [job EXCEPT ![<<p, n>>].pc = "post", ![<<p, n>>].plan = NodeRules(n)]
          /\ raced' = IF InFlight(n) # {} THEN raced \cup {n}
                      ELSE IF job[<<p, n>>].listed = WithPolicy(n) THEN raced \ {n} ELSE raced
          /\ crossed' = Crossed(p, n)
          /\ UNCHANGED lost
       \/ /\ nodeOn[n]
          /\ lost < MaxLost
          /\ lost' = lost + 1
          /\ job' = [job EXCEPT ![<<p, n>>].pc = "post"]
          /\ raced' = raced \cup {n}
          /\ crossed' = Crossed(p, n)
    /\ UNCHANGED <<policies, nodeOn, limiting, agentVars, now, lastPlan, rested, push, hidden,
                   edits, reboots>>

\* The rules ApplyPlan changes: those that differ from the state file.
ToChange(plan, n) == {u \in PolUuids : plan[u] # stateFile[n][u]}

\* The rules of us are those of the plan now, the file holds the rules of file.
AgentHas(n, plan, us, file) ==
    /\ enforced' = [enforced EXCEPT ![n] = [u \in PolUuids |-> IF u \in us THEN plan[u]
                                                              ELSE enforced[n][u]]]
    /\ stateFile' = [stateFile EXCEPT ![n] = file]

\* ApplyPlan answers ok: what differs from the state file is changed, and saved.
\* A rule may be saved as removed whose removal in tc failed (runIgnore).
Applied(n, plan) ==
    \E kept \in SUBSET {u \in ToChange(plan, n) : plan[u] = 0} :
        /\ AgentHas(n, plan, ToChange(plan, n) \ kept, plan)
        /\ torn' = (torn \ (ToChange(plan, n) \X {n})) \cup (kept \X {n})
        /\ kept # {} => lost < MaxLost
        /\ lost' = IF kept = {} THEN lost ELSE lost + 1

\* The request fails: some of the changes are made, and nothing is saved, or the
\* write leaves an empty file, which LoadState takes for no rules, or only the
\* answer is lost.
ApplyFails(n, plan) ==
    /\ lost < MaxLost
    /\ lost' = lost + 1
    /\ \E us \in SUBSET ToChange(plan, n) :
          \/ /\ AgentHas(n, plan, us, stateFile[n])
             /\ torn' = torn \cup (us \X {n})
          \/ /\ us = ToChange(plan, n)
             /\ AgentHas(n, plan, us, NoRules)
             /\ torn' = torn \cup (PolUuids \X {n})
          \/ /\ us = ToChange(plan, n)
             /\ AgentHas(n, plan, us, plan)
             /\ torn' = torn \ (us \X {n})

\* Requests that overlap have no lock: each command of either may come last, and
\* the file is the one saved last.
Overlapped(n, plan, file) ==
    /\ \E us \in SUBSET PolUuids : AgentHas(n, plan, us, file)
    /\ torn' = torn \cup (PolUuids \X {n})

\* POST /ratelimit/apply.
Post(p, n) ==
    LET plan == job[<<p, n>>].plan
        answered == [job EXCEPT ![<<p, n>>].pc = "mark"]
        failed == [job EXCEPT ![<<p, n>>].pc = "mark", ![<<p, n>>].failed = TRUE] IN
    /\ job[<<p, n>>].pc = "post"
    /\ \/ <<p, n>> \notin crossed /\ Applied(n, plan) /\ job' = answered
       \/ <<p, n>> \notin crossed /\ ApplyFails(n, plan) /\ job' = failed
       \/ /\ <<p, n>> \in crossed
          /\ Overlapped(n, plan, plan)
          /\ job' = answered
          /\ UNCHANGED lost
       \/ /\ <<p, n>> \in crossed
          /\ \E file \in {plan, stateFile[n], NoRules} : Overlapped(n, plan, file)
          /\ job' = failed
          /\ lost < MaxLost
          /\ lost' = lost + 1
    /\ UNCHANGED <<policies, nodeOn, limiting, now, lastPlan, rested, push, raced, hidden,
                   crossed, edits, reboots>>

\* What SetPolicyStatus makes of a row.
Marked(row, failed) ==
    [row EXCEPT !.status = IF failed THEN "failed" ELSE "synced", !.at = now]

\* SetPolicyStatus for one of the policies listed before the push; a policy
\* deleted since then is not there to update.
Mark(p, n) ==
    LET j == job[<<p, n>>] IN
    /\ j.pc = "mark"
    /\ \E u \in j.listed :
          LET x == <<u, n>>
              there == policies[x] # NoPolicy IN
          /\ job' = [job EXCEPT ![<<p, n>>].listed = @ \ {u}]
          /\ policies' = IF there THEN [policies EXCEPT ![x] = Marked(policies[x], j.failed)]
                         ELSE policies
          /\ hidden' = IF there /\ j.failed /\ now \in SeenVersions
                       THEN hidden \cup {x} ELSE hidden \ {x}
    /\ UNCHANGED <<nodeOn, limiting, agentVars, now, lastPlan, rested, push, raced, crossed,
                   boundVars>>

\* The goroutine ends after the last policy.
EndJob(p, n) ==
    /\ job[<<p, n>>].pc = "mark"
    /\ job[<<p, n>>].listed = {}
    /\ job' = [job EXCEPT ![<<p, n>>] = NoPushJob]
    /\ UNCHANGED <<policies, nodeOn, limiting, agentVars, now, lastPlan, rested, push, raced,
                   hidden, crossed, boundVars>>

\* Mutant: the marks made during the push are taken for seen as well.
EndPushAfter(p) ==
    /\ push[p].pc = "wait"
    /\ \A n \in RNodes : job[<<p, n>>] = NoPushJob
    /\ lastPlan' = IF p = "loop" THEN PlanVersion ELSE lastPlan
    /\ push' = [push EXCEPT ![p] = NoPush]
    /\ UNCHANGED <<policies, nodeOn, limiting, agentVars, now, rested, job, raced, hidden,
                   crossed, boundVars>>

\* wg.Wait returns; the loop remembers the version it read before the push.
EndPush(p) ==
    /\ push[p].pc = "wait"
    /\ \A n \in RNodes : job[<<p, n>>] = NoPushJob
    /\ lastPlan' = IF p = "loop" THEN push[p].plan ELSE lastPlan
    /\ push' = [push EXCEPT ![p] = NoPush]
    /\ UNCHANGED <<policies, nodeOn, limiting, agentVars, now, rested, job, raced, hidden,
                   crossed, boundVars>>

PushStep(p) ==
    \/ List(p)
    \/ \E n \in RNodes : Build(p, n) \/ Post(p, n) \/ Mark(p, n) \/ EndJob(p, n)
    \/ EndPush(p)

RateNext ==
    \/ Tick \/ LoopRound \/ CallPush
    \/ \E p \in Pushers : PushStep(p)
    \/ SetLimiting
    \/ \E n \in RNodes : ToggleNode(n) \/ HostRestart(n)
    \/ \E u \in PolUuids, n \in RNodes :
          UpsertPolicy(u, n) \/ DeletePolicy(u, n) \/ DetachProfile(u, n)

\* The clock goes on, the loop's timer fires, and a push that has begun goes on
\* (a request has a timeout).
RateFairness ==
    /\ WF_rateVars(Tick)
    /\ WF_rateVars(LoopRound)
    /\ \A p \in Pushers : WF_rateVars(PushStep(p))

RateSpec == RateInit /\ [][RateNext]_rateVars /\ RateFairness

-----------------------------------------------------------------------------
RateTypeOK ==
    /\ policies \in [Pairs -> [limit : Limits \cup {-1}, status : {"none", "pending", "synced", "failed"},
                               at : Nat]]
    /\ nodeOn \in [RNodes -> BOOLEAN]
    /\ limiting \in BOOLEAN
    /\ enforced \in [RNodes -> [PolUuids -> Limits]]
    /\ stateFile \in [RNodes -> [PolUuids -> Limits]]
    /\ now \in Nat \ {0} /\ lastPlan \in Nat \cup {-1} /\ rested \in BOOLEAN
    /\ push \in [Pushers -> [pc : {"idle", "list", "wait"}, plan : Nat \cup {-1}]]
    /\ job \in [Pushers \X RNodes -> [pc : {"none", "build", "post", "mark"}, listed : SUBSET PolUuids,
                                      plan : [PolUuids -> Limits], failed : BOOLEAN]]
    /\ raced \subseteq RNodes /\ hidden \subseteq Pairs /\ torn \subseteq Pairs
    /\ crossed \subseteq Pushers \X RNodes

(***************************************************************************)
(* A policy shown as "synced" is the rule its node enforces, however the   *)
(* loop's and the manual push interleave with edits, failures and disabled *)
(* nodes.  The exceptions are a node in "raced": a policy of it was set    *)
(* while a push of it was between buildNodePlan and SetPolicyStatus, two   *)
(* pushes of it overlapped, or the policies could not be read, and no push *)
(* that marks all its policies has begun since; and a policy in "torn":    *)
(* tc and the state file of the node disagree about its rule, so ApplyPlan *)
(* may skip it.                                                            *)
(***************************************************************************)
SyncedEnforced ==
    \A u \in PolUuids, n \in RNodes :
        /\ policies[<<u, n>>].status = "synced" /\ <<u, n>> \notin torn
        /\ n \notin raced /\ InFlight(n) = {}
        => enforced[n][u] = NodeRules(n)[u]

(***************************************************************************)
(* A policy whose push failed is pushed again by the loop if limiting      *)
(* stays on: it stays failed for ever only when its node is disabled or it *)
(* is hidden, that is its mark was written in the second of the version    *)
(* the loop compares with (main.go:202), or the node came back when that   *)
(* version was current.                                                    *)
(***************************************************************************)
FailedRetried ==
    <>[]limiting =>
        \A x \in Pairs : (policies[x].status = "failed" /\ nodeOn[x[2]])
                            ~> (policies[x].status # "failed" \/ ~nodeOn[x[2]] \/ x \in hidden)

-----------------------------------------------------------------------------
(* What the comments of the code promise and the code does not do.         *)

(***************************************************************************)
(* "ratelimitApply reconciles the node's Linux tc state with the pushed    *)
(* plan" (agent.go:402): if no two requests overlap, a push that is        *)
(* answered ok leaves every policy it lists in tc.  ApplyPlan compares the *)
(* plan with the state file only, which an apply that failed half-way has  *)
(* not written, and drops the errors of its deletes.                       *)
(***************************************************************************)
SyncedReconciled ==
    [](crossed = {}) =>
        [](\A u \in PolUuids, n \in RNodes :
              policies[<<u, n>>].status = "synced" /\ n \notin raced /\ InFlight(n) = {}
                  => enforced[n][u] = NodeRules(n)[u])

(***************************************************************************)
(* "on boot the agent asks the master for its current plan (the master     *)
(* pushes on connect anyway ...)" (main.go:428): a rule that a restart of  *)
(* the host has cleared is set again, while limiting is on.  The agent     *)
(* only logs how many rules its state file has.                            *)
(***************************************************************************)
RulesRecovered ==
    <>[]limiting =>
        \A u \in PolUuids, n \in RNodes :
            (policies[<<u, n>>].status = "synced" /\ nodeOn[n])
                ~> (enforced[n][u] = NodeRules(n)[u] \/ ~nodeOn[n] \/ n \in raced)

(***************************************************************************)
(* "ClearAll removes all bandwidth rules (used when limiting is disabled)" *)
(* (applier.go:238): once limiting is off and stays off, the nodes enforce *)
(* nothing.  No code of the panel calls /ratelimit/clear.                  *)
(***************************************************************************)
DisabledCleared ==
    <>[]~limiting => []<>(\A n \in RNodes : enforced[n] = NoRules)

-----------------------------------------------------------------------------
(* The inductive invariant of SyncedEnforced.                              *)

PushJobs == [pc : {"none", "build", "post", "mark"}, listed : SUBSET PolUuids,
             plan : [PolUuids -> Int], failed : BOOLEAN]

\* The times are left open: the invariant does not depend on them.
RowsAt(t) == [limit : Int, status : {"none", "pending", "synced", "failed"}, at : {t}]
PushesOf(v) == [pc : {"idle", "list", "wait"}, plan : {v}]

PushShape ==
    /\ DOMAIN policies = Pairs /\ \A x \in Pairs : policies[x] \in RowsAt(policies[x].at)
    /\ DOMAIN push = Pushers /\ \A p \in Pushers : push[p] \in PushesOf(push[p].plan)
    /\ DOMAIN enforced = RNodes /\ DOMAIN stateFile = RNodes
    /\ job \in [Pushers \X RNodes -> PushJobs]

\* The goroutines of a push run while it waits for them.
JobsAwaited == \A p \in Pushers, n \in RNodes : push[p].pc # "wait" => job[<<p, n>>].pc = "none"

\* But for the torn ones, tc has the rules of the state file.
FileTrue == \A n \in RNodes, u \in PolUuids : <<u, n>> \notin torn => enforced[n][u] = stateFile[n][u]

Enforces(u, n) == <<u, n>> \in torn \/ enforced[n][u] = NodeRules(n)[u]

\* A synced policy is enforced, or a push is yet to mark it.
SyncedOrListed ==
    \A n \in RNodes \ raced, u \in PolUuids :
        policies[<<u, n>>].status = "synced" =>
            Enforces(u, n) \/ \E p \in InFlight(n) : u \in job[<<p, n>>].listed

\* The plan of a push on its way is what the policies ask for.
PlansCurrent ==
    \A n \in RNodes \ raced, p \in Pushers : job[<<p, n>>].pc = "post" =>
        \A u \in WithPolicy(n) : job[<<p, n>>].plan[u] = NodeRules(n)[u]

\* A push that marks policies as synced has them enforced.
MarksTrue ==
    \A n \in RNodes \ raced, p \in Pushers : job[<<p, n>>].pc = "mark" /\ ~job[<<p, n>>].failed =>
        \A u \in WithPolicy(n) : Enforces(u, n)

PushInv == PushShape /\ JobsAwaited /\ FileTrue /\ SyncedOrListed /\ PlansCurrent /\ MarksTrue
=============================================================================
