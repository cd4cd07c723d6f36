----------------------------- MODULE RateApplier -----------------------------
(***************************************************************************)
(* The agent's side of bandwidth limits (internal/ratelimit/applier.go):   *)
(* ApplyPlan changes the tc classes and filters of the default interface   *)
(* to the rules of a plan, by the difference to the state file of the last *)
(* successful apply.  Every request has an Applier of its own and there is *)
(* no lock.                                                                *)
(*                                                                         *)
(* A rule is a download limit; tc is external.  Deleting the filters of    *)
(* "prio 1" deletes those of every rule, which is what removeRule asks.    *)
(***************************************************************************)
EXTENDS Integers

CONSTANTS
    Ips,          \* source addresses
    Rates,        \* download limits of rules
    Ifaces,       \* network interfaces
    Callers,      \* requests of the master
    NoIface,      \* no interface
    MaxPlans,     \* bound: requests
    MaxFails      \* bound: failures, restarts and changes of the default route

ASSUME ApplierAssumption ==
    Rates \subseteq Nat \ {0} /\ NoIface \notin Ifaces

VARIABLES
    route,      \* the interface of the default route, or NoIface
    saved,      \* ratelimit-state.json
    classes,    \* tc: interface -> address -> limit of its class, or 0
    filters,    \* tc: interface -> addresses with a filter
    call,       \* what each caller does
    dirty,      \* history: the <<interface, address>> an apply changed in tc
                \*   without saving, or may have
    plans, fails   \* bounds

limVars == <<route, saved, classes, filters, call, dirty, plans, fails>>

Unlimited == [ip \in Ips |-> 0]
NoState == [iface |-> NoIface, rules |-> Unlimited]
\* "touched" and "alone" are history: what the call has changed in tc, and
\* whether no other call has run with it.
NoCall == [pc |-> "idle", desired |-> Unlimited, st |-> NoState, old |-> NoIface,
           touched |-> {}, alone |-> TRUE]
Places(i) == {i} \X Ips

LimInit ==
    /\ route \in Ifaces
    /\ saved = NoState
    /\ classes = [i \in Ifaces |-> Unlimited]
    /\ filters = [i \in Ifaces |-> {}]
    /\ call = [c \in Callers |-> NoCall]
    /\ dirty = {}
    /\ plans = 0
    /\ fails = 0

Busy == {c \in Callers : call[c].pc # "idle"}

\* Another call begins: those under way are not alone any more.
Joined == [c \in Callers |-> [call[c] EXCEPT !.alone = (call[c].pc = "idle")]]
Blurred == IF Busy = {} THEN dirty ELSE Ifaces \X Ips

\* A call ends without saving what it has changed.
GiveUp(c, touched) ==
    /\ call' = [call EXCEPT ![c] = NoCall]
    /\ dirty' = dirty \cup touched

\* A call ends and has saved what it has changed.
FinishCall(c) ==
    /\ call' = [call EXCEPT ![c] = NoCall]
    /\ dirty' = IF call[c].alone THEN dirty \ call[c].touched ELSE dirty

\* ApplyPlan: the state is loaded, the interface found, the desired rules are
\* those of the plan with a valid address and a download limit.
ApplyPlan(c) ==
    /\ call[c].pc = "idle"
    /\ plans < MaxPlans
    /\ plans' = plans + 1
    /\ \E desired \in [Ips -> Rates \cup {0}] :
          /\ route # NoIface
          /\ LET moved == saved.iface # NoIface /\ saved.iface # route IN
             call' = [Joined EXCEPT ![c] =
                        [pc |-> IF moved THEN "teardown" ELSE "remove",
                         desired |-> desired,
                         st |-> [iface |-> route,
                                 rules |-> IF moved THEN Unlimited ELSE saved.rules],
                         old |-> saved.iface,
                         touched |-> {},
                         alone |-> Busy = {}]]
    /\ dirty' = Blurred
    /\ UNCHANGED <<route, saved, classes, filters, fails>>

\* Mutant: the old interface is forgotten and its classes stay.
TeardownForgotten(c) ==
    /\ call[c].pc = "teardown"
    /\ call' = [call EXCEPT ![c].pc = "remove"]
    /\ UNCHANGED <<route, saved, classes, filters, dirty, plans, fails>>

\* A delete in tc fails and its error is ignored (runIgnore): what the call was to
\* clear is there still.
Ignored(places) ==
    /\ fails < MaxFails
    /\ fails' = fails + 1
    /\ dirty' = dirty \cup places
    /\ UNCHANGED <<classes, filters>>

\* fullTeardown of the interface used last.
Teardown(c) ==
    LET old == call[c].old IN
    /\ call[c].pc = "teardown"
    /\ \/ /\ classes' = [classes EXCEPT ![old] = Unlimited]
          /\ filters' = [filters EXCEPT ![old] = {}]
          /\ call' = [call EXCEPT ![c].pc = "remove", ![c].touched = Places(old)]
          /\ UNCHANGED <<dirty, fails>>
       \/ /\ Ignored(Places(old))
          /\ call' = [call EXCEPT ![c].pc = "remove"]
    /\ UNCHANGED <<route, saved, plans>>

Vanished(c) == {ip \in Ips : call[c].st.rules[ip] # 0 /\ call[c].desired[ip] = 0}

\* removeRule.
RemoveRule(c, ip) ==
    LET i == call[c].st.iface IN
    /\ call[c].pc = "remove"
    /\ ip \in Vanished(c)
    /\ \/ /\ filters' = [filters EXCEPT ![i] = {}]
          /\ classes' = [classes EXCEPT ![i][ip] = 0]
          /\ call' = [call EXCEPT ![c].st.rules[ip] = 0, ![c].touched = @ \cup {<<i, ip>>}]
          /\ UNCHANGED <<dirty, fails>>
       \/ /\ Ignored({<<i, ip>>})
          /\ call' = [call EXCEPT ![c].st.rules[ip] = 0, ![c].touched = @ \ {<<i, ip>>}]
    /\ UNCHANGED <<route, saved, plans>>

ToAdd(c) == {ip \in Ips : call[c].desired[ip] \notin {0, call[c].st.rules[ip]}}

\* applyRule, once the vanished rules are gone: the class, then the filter.
ApplyRule(c, ip) ==
    LET i == call[c].st.iface
        rate == call[c].desired[ip] IN
    /\ call[c].pc = "remove"
    /\ Vanished(c) = {}
    /\ ip \in ToAdd(c)
    /\ \/ /\ classes' = [classes EXCEPT ![i][ip] = rate]
          /\ filters' = [filters EXCEPT ![i] = @ \cup {ip}]
          /\ call' = [call EXCEPT ![c].st.rules[ip] = rate, ![c].touched = @ \cup {<<i, ip>>}]
          /\ UNCHANGED <<dirty, fails>>
       \/ /\ fails < MaxFails
          /\ fails' = fails + 1
          /\ classes' \in {classes, [classes EXCEPT ![i][ip] = rate]}
          /\ GiveUp(c, call[c].touched \cup {<<i, ip>>})
          /\ UNCHANGED filters
    /\ UNCHANGED <<route, saved, plans>>

\* saveState ends the apply.  A failed write leaves the file as it was or
\* empty, which LoadState takes for no rules.
SaveState(c) ==
    /\ call[c].pc = "remove"
    /\ Vanished(c) = {} /\ ToAdd(c) = {}
    /\ \/ /\ saved' = call[c].st
          /\ FinishCall(c)
          /\ UNCHANGED fails
       \/ /\ fails < MaxFails
          /\ fails' = fails + 1
          /\ \/ saved' = saved /\ GiveUp(c, call[c].touched)
             \/ saved' = NoState /\ GiveUp(c, call[c].touched \cup Places(call[c].st.iface))
    /\ UNCHANGED <<route, classes, filters, plans>>

\* ClearAll: the interface is torn down and an empty state is saved.
ClearAll(c) ==
    LET cleared == [NoCall EXCEPT !.pc = "clear", !.alone = (Busy = {})] IN
    /\ call[c].pc = "idle"
    /\ plans < MaxPlans
    /\ plans' = plans + 1
    /\ \/ /\ IF saved.iface = NoIface THEN UNCHANGED <<classes, filters>>
             ELSE /\ classes' = [classes EXCEPT ![saved.iface] = Unlimited]
                  /\ filters' = [filters EXCEPT ![saved.iface] = {}]
          /\ call' = [Joined EXCEPT ![c] = [cleared EXCEPT !.touched = Places(saved.iface)]]
          /\ dirty' = Blurred
          /\ UNCHANGED fails
       \/ /\ saved.iface # NoIface /\ fails < MaxFails
          /\ fails' = fails + 1
          /\ call' = [Joined EXCEPT ![c] = cleared]
          /\ dirty' = Blurred \cup Places(saved.iface)
          /\ UNCHANGED <<classes, filters>>
    /\ UNCHANGED <<route, saved>>

\* The empty state is saved, or the write fails: the file is as it was, or empty.
SaveCleared(c) ==
    /\ call[c].pc = "clear"
    /\ \/ saved' = NoState /\ FinishCall(c) /\ UNCHANGED fails
       \/ /\ fails < MaxFails
          /\ fails' = fails + 1
          /\ saved' \in {saved, NoState}
          /\ GiveUp(c, call[c].touched)
    /\ UNCHANGED <<route, classes, filters, plans>>

\* The default route moves to another interface or goes away.
RouteChange ==
    /\ fails < MaxFails
    /\ fails' = fails + 1
    /\ \E i \in (Ifaces \cup {NoIface}) \ {route} : route' = i
    /\ UNCHANGED <<saved, classes, filters, call, dirty, plans>>

\* The agent ends and starts again; tc keeps what it has.  When the host is
\* started again tc is empty, and the state file is not.
LimCrash ==
    /\ fails < MaxFails
    /\ fails' = fails + 1
    /\ call' = [c \in Callers |-> NoCall]
    /\ \/ /\ dirty' = dirty \cup UNION {call[c].touched : c \in Callers}
          /\ UNCHANGED <<classes, filters>>
       \/ /\ classes' = [i \in Ifaces |-> Unlimited]
          /\ filters' = [i \in Ifaces |-> {}]
          /\ dirty' = Places(saved.iface)
    /\ UNCHANGED <<route, saved, plans>>

LimNext ==
    \/ RouteChange \/ LimCrash
    \/ \E c \in Callers :
          \/ ApplyPlan(c) \/ Teardown(c) \/ SaveState(c) \/ ClearAll(c) \/ SaveCleared(c)
          \/ \E ip \in Ips : RemoveRule(c, ip) \/ ApplyRule(c, ip)

LimSpec == LimInit /\ [][LimNext]_limVars

-----------------------------------------------------------------------------
LimTypeOK ==
    /\ route \in Ifaces \cup {NoIface}
    /\ saved \in [iface : Ifaces \cup {NoIface}, rules : [Ips -> Rates \cup {0}]]
    /\ classes \in [Ifaces -> [Ips -> Rates \cup {0}]]
    /\ filters \in [Ifaces -> SUBSET Ips]
    /\ call \in [Callers -> [pc : {"idle", "teardown", "remove", "clear"},
                             desired : [Ips -> Rates \cup {0}],
                             st : [iface : Ifaces \cup {NoIface}, rules : [Ips -> Rates \cup {0}]],
                             old : Ifaces \cup {NoIface},
                             touched : SUBSET ((Ifaces \cup {NoIface}) \X Ips), alone : BOOLEAN]]
    /\ dirty \subseteq (Ifaces \cup {NoIface}) \X Ips

(***************************************************************************)
(* Between two requests the classes in tc, on every interface, are the     *)
(* rules of the state file, which the next ApplyPlan takes its difference  *)
(* from: a change of the default interface leaves nothing behind, and a    *)
(* failed or interrupted apply damages only the addresses it changed, or   *)
(* failed to clear ("dirty"), until a later apply changes them again or    *)
(* ClearAll clears the interface.  Overlapping applies may damage every    *)
(* address.                                                                *)
(***************************************************************************)
ClassesTracked ==
    Busy = {} =>
        \A i \in Ifaces, ip \in Ips :
            <<i, ip>> \notin dirty => classes[i][ip] = IF i = saved.iface THEN saved.rules[ip] ELSE 0

(***************************************************************************)
(* "unchanged rules are untouched" (applier.go:135): between two requests, *)
(* and as long as nothing has failed, every rule of the state file still   *)
(* has the filter that sends its traffic to its class.                     *)
(***************************************************************************)
RulesFiltered ==
    Busy = {} /\ fails = 0 /\ dirty = {}
        => \A ip \in Ips : saved.rules[ip] # 0 => ip \in filters[saved.iface]

-----------------------------------------------------------------------------
(* The inductive invariant of ClassesTracked.                              *)

\* The class a state asks for.
Asked(state, i, ip) == IF i = state.iface THEN state.rules[ip] ELSE 0

\* Without an interface no rule is saved; a call that applies has one, a call
\* that clears none.
HasIface ==
    /\ saved.iface = NoIface => saved.rules = Unlimited
    /\ \A c \in Callers : call[c].pc \in {"teardown", "remove"} => call[c].st.iface \in Ifaces
    /\ \A c \in Callers : call[c].pc = "teardown" => call[c].old \in Ifaces
    /\ \A c \in Callers : call[c].pc = "clear" => call[c].st = NoState

\* A call is alone, or every address may be damaged.
AloneOrBlurred ==
    \A c \in Busy : IF call[c].alone THEN Busy = {c} ELSE Ifaces \X Ips \subseteq dirty

\* A call that is alone: what it has not touched is as saved, and everything is
\* as it will save it, once the old interface is torn down.
AloneTracks ==
    \A c \in Busy : call[c].alone =>
        /\ \A i \in Ifaces, ip \in Ips :
              /\ <<i, ip>> \notin dirty \cup call[c].touched => classes[i][ip] = Asked(saved, i, ip)
              /\ call[c].pc # "teardown" /\ <<i, ip>> \notin dirty \ call[c].touched
                    => classes[i][ip] = Asked(call[c].st, i, ip)
        /\ call[c].pc = "teardown" =>
              call[c].touched = {} /\ call[c].old = saved.iface /\ call[c].st.rules = Unlimited

LimInv == LimTypeOK /\ HasIface /\ AloneOrBlurred /\ AloneTracks /\ ClassesTracked
=============================================================================
