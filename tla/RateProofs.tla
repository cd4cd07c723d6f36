----------------------------- MODULE RateProofs -----------------------------
(***************************************************************************)
(* Proofs about bandwidth limits: the agent that applies plans and the     *)
(* panel that pushes them.                                                 *)
(***************************************************************************)
EXTENDS RateApplier, RatePush, TLAPS

Limited == [Ips -> Rates \cup {0}]
Spots == (Ifaces \cup {NoIface}) \X Ips
StateRec == [iface : Ifaces \cup {NoIface}, rules : Limited]
CallRec == [pc : {"idle", "teardown", "remove", "clear"}, desired : Limited, st : StateRec,
            old : Ifaces \cup {NoIface}, touched : SUBSET Spots, alone : BOOLEAN]

LEMMA UnlimitedType == Unlimited \in Limited
BY DEF Unlimited, Limited

LEMMA NoStateType == NoState \in StateRec /\ NoState.iface = NoIface /\ NoState.rules = Unlimited
BY UnlimitedType DEF NoState, StateRec

LEMMA NoCallType == NoCall \in CallRec /\ NoCall.pc = "idle" /\ NoCall.st = NoState
BY UnlimitedType, NoStateType DEF NoCall, CallRec

LEMMA LimTypes ==
  LimTypeOK <=> /\ route \in Ifaces \cup {NoIface}
                /\ saved \in StateRec
                /\ classes \in [Ifaces -> Limited]
                /\ filters \in [Ifaces -> SUBSET Ips]
                /\ call \in [Callers -> CallRec]
                /\ dirty \subseteq Spots
BY DEF LimTypeOK, StateRec, CallRec, Limited, Spots

LEMMA PlacesType ==
  ASSUME NEW i \in Ifaces \cup {NoIface}
  PROVE  Places(i) \subseteq Spots
BY DEF Places, Spots

LEMMA BlurredType ==
  ASSUME dirty \subseteq Spots
  PROVE  Blurred \subseteq Spots
BY DEF Blurred, Spots

\* The other calls, when one begins.
LEMMA JoinedType ==
  ASSUME call \in [Callers -> CallRec]
  PROVE  /\ Joined \in [Callers -> CallRec]
         /\ \A b \in Callers : /\ Joined[b].pc = call[b].pc /\ Joined[b].st = call[b].st
                               /\ Joined[b].old = call[b].old
                               /\ Joined[b].alone = (call[b].pc = "idle")
PROOF
<1>1. ASSUME NEW b \in Callers
      PROVE  LET q == [call[b] EXCEPT !.alone = (call[b].pc = "idle")]
             IN  /\ q \in CallRec /\ q.pc = call[b].pc /\ q.st = call[b].st /\ q.old = call[b].old
                 /\ q.alone = (call[b].pc = "idle")
  <2>1. call[b] \in CallRec /\ (call[b].pc = "idle") \in BOOLEAN
    OBVIOUS
  <2> QED BY <2>1 DEF CallRec
<1> QED BY <1>1 DEF Joined

\* The record of c is replaced by q.
CallMoved(c, q) == q \in CallRec /\ call' = [call EXCEPT ![c] = q]
Begun(c, q) == q \in CallRec /\ call' = [Joined EXCEPT ![c] = q]

LEMMA CallMovedFacts ==
  ASSUME LimTypeOK, NEW c \in Callers, NEW q, CallMoved(c, q)
  PROVE  /\ call' \in [Callers -> CallRec]
         /\ call'[c] = q
         /\ \A b \in Callers : b # c => call'[b] = call[b]
BY LimTypes DEF CallMoved

LEMMA BegunFacts ==
  ASSUME LimTypeOK, NEW c \in Callers, NEW q, Begun(c, q)
  PROVE  /\ call' \in [Callers -> CallRec]
         /\ call'[c] = q
         /\ \A b \in Callers : b # c => /\ call'[b].pc = call[b].pc /\ call'[b].st = call[b].st
                                        /\ call'[b].old = call[b].old
                                        /\ call'[b].alone = (call[b].pc = "idle")
BY LimTypes, JoinedType DEF Begun

-----------------------------------------------------------------------------
(* What each step makes of the record of its call.                         *)

LEMMA ApplyPlanEffect ==
  ASSUME LimTypeOK, NEW c \in Callers, ApplyPlan(c)
  PROVE  \E q : /\ Begun(c, q)
                /\ q.alone = (Busy = {}) /\ q.touched = {} /\ q.old = saved.iface
                /\ q.st.iface = route /\ route \in Ifaces
                /\ \/ /\ q.pc = "teardown" /\ q.st.rules = Unlimited
                      /\ saved.iface # NoIface
                   \/ /\ q.pc = "remove" /\ q.st.rules = saved.rules
                      /\ saved.iface \in {NoIface, route}
PROOF
<1>t. route \in Ifaces \cup {NoIface} /\ saved \in StateRec
  BY LimTypes
<1> DEFINE moved == saved.iface # NoIface /\ saved.iface # route
           s == [iface |-> route, rules |-> IF moved THEN Unlimited ELSE saved.rules]
<1>1. PICK desired \in Limited :
          /\ route # NoIface
          /\ call' = [Joined EXCEPT ![c] =
                        [pc |-> IF moved THEN "teardown" ELSE "remove",
                         desired |-> desired, st |-> s, old |-> saved.iface,
                         touched |-> {}, alone |-> Busy = {}]]
  BY DEF ApplyPlan, Limited
<1> DEFINE q == [pc |-> IF moved THEN "teardown" ELSE "remove",
                 desired |-> desired, st |-> s, old |-> saved.iface,
                 touched |-> {}, alone |-> Busy = {}]
<1>2. s \in StateRec /\ s.iface = route
  BY <1>t, UnlimitedType DEF StateRec
<1>3. s.rules = IF moved THEN Unlimited ELSE saved.rules
  OBVIOUS
<1>a. saved.iface \in Ifaces \cup {NoIface}
  BY <1>t DEF StateRec
<1> HIDE DEF s, moved
<1>4. q \in CallRec
  <2>1. (Busy = {}) \in BOOLEAN /\ {} \in SUBSET Spots
    OBVIOUS
  <2>2. (IF moved THEN "teardown" ELSE "remove") \in {"idle", "teardown", "remove", "clear"}
    OBVIOUS
  <2> QED BY <1>2, <1>a, <2>1, <2>2 DEF CallRec
<1>5. /\ q.pc = (IF moved THEN "teardown" ELSE "remove") /\ q.st = s /\ q.old = saved.iface
      /\ q.touched = {} /\ q.alone = (Busy = {})
  OBVIOUS
<1>6. Begun(c, q)
  BY <1>1, <1>4 DEF Begun
<1> HIDE DEF q
<1>7. route \in Ifaces
  BY <1>1, <1>t
<1>8. CASE moved
  BY <1>2, <1>3, <1>5, <1>6, <1>7, <1>8 DEF moved
<1>9. CASE ~moved
  BY <1>2, <1>3, <1>5, <1>6, <1>7, <1>9 DEF moved
<1> QED BY <1>8, <1>9

LEMMA TeardownEffect ==
  ASSUME LimTypeOK, NEW c \in Callers, NEW p \in SUBSET Spots,
         call' = [call EXCEPT ![c] = [call[c] EXCEPT !.pc = "remove", !.touched = p]]
  PROVE  \E q : /\ CallMoved(c, q)
                /\ q.pc = "remove" /\ q.st = call[c].st /\ q.alone = call[c].alone
                /\ q.touched = p
PROOF
<1>t. call[c] \in CallRec
  BY LimTypes
<1> DEFINE q == [call[c] EXCEPT !.pc = "remove", !.touched = p]
<1>2. call' = [call EXCEPT ![c] = q]
  OBVIOUS
<1>3. /\ q \in CallRec /\ q.pc = "remove" /\ q.touched = p
      /\ q.st = call[c].st /\ q.alone = call[c].alone
  BY <1>t DEF CallRec
<1> HIDE DEF q
<1> QED BY <1>2, <1>3 DEF CallMoved

\* A rule of the call's state is set.
SetRule(c, ip, rate, p) ==
    call' = [call EXCEPT ![c] =
               [call[c] EXCEPT !.st = [call[c].st EXCEPT !.rules = [call[c].st.rules EXCEPT ![ip] = rate]],
                               !.touched = p]]

RuleMade(c, ip, rate, p, q) ==
    /\ CallMoved(c, q)
    /\ q.pc = call[c].pc /\ q.alone = call[c].alone
    /\ q.st.iface = call[c].st.iface
    /\ q.st.rules = [call[c].st.rules EXCEPT ![ip] = rate]
    /\ q.touched = p
    /\ q.old = call[c].old

LEMMA RuleSet ==
  ASSUME LimTypeOK, NEW c \in Callers, NEW ip \in Ips, NEW rate \in Rates \cup {0},
         call[c].st.iface \in Ifaces, NEW p \in SUBSET Spots,
         SetRule(c, ip, rate, p)
  PROVE  \E q : RuleMade(c, ip, rate, p, q)
PROOF
<1>t. call[c] \in CallRec /\ call \in [Callers -> CallRec]
  BY LimTypes
<1>s. call[c].st \in StateRec
  BY <1>t DEF CallRec
<1>l. call[c].st.rules \in Limited
  BY <1>s DEF StateRec
<1> DEFINE l == [call[c].st.rules EXCEPT ![ip] = rate]
           s == [call[c].st EXCEPT !.rules = l]
           q == [call[c] EXCEPT !.st = s, !.touched = p]
<1>1. l \in Limited
  BY <1>l DEF Limited
<1>3. call' = [call EXCEPT ![c] = q]
  BY DEF SetRule
<1> HIDE DEF l
<1>4. s \in StateRec /\ s.iface = call[c].st.iface /\ s.rules = l
  BY <1>s, <1>1 DEF StateRec
<1> HIDE DEF s
<1>5. /\ q \in CallRec /\ q.pc = call[c].pc /\ q.touched = p
      /\ q.st = s /\ q.alone = call[c].alone /\ q.old = call[c].old
  BY <1>t, <1>4 DEF CallRec
<1> HIDE DEF q
<1>6. CallMoved(c, q)
  BY <1>3, <1>5 DEF CallMoved
<1>7. RuleMade(c, ip, rate, p, q)
  BY <1>4, <1>5, <1>6 DEF l, RuleMade
<1> QED BY <1>7

\* A call of ClearAll has torn down what is in p.
Clearing(c, p) ==
    call' = [Joined EXCEPT ![c] = [[NoCall EXCEPT !.pc = "clear", !.alone = (Busy = {})]
                                     EXCEPT !.touched = p]]

LEMMA ClearEffect ==
  ASSUME LimTypeOK, NEW c \in Callers, NEW p \in SUBSET Spots, Clearing(c, p)
  PROVE  \E q : /\ Begun(c, q)
                /\ q.pc = "clear" /\ q.st = NoState /\ q.alone = (Busy = {})
                /\ q.touched = p
PROOF
<1> DEFINE a == (Busy = {})
           q0 == [NoCall EXCEPT !.pc = "clear", !.alone = a]
           q == [q0 EXCEPT !.touched = p]
<1>2. call' = [Joined EXCEPT ![c] = q]
  BY DEF Clearing
<1>3. a \in BOOLEAN
  OBVIOUS
<1> HIDE DEF a
<1>4. q0 \in CallRec /\ q0.pc = "clear" /\ q0.st = NoState /\ q0.alone = a
  BY <1>3, NoCallType DEF CallRec
<1> HIDE DEF q0
<1>5. q \in CallRec /\ q.pc = "clear" /\ q.touched = p /\ q.st = NoState /\ q.alone = a
  BY <1>4 DEF CallRec
<1> HIDE DEF q
<1>6. Begun(c, q)
  BY <1>2, <1>5 DEF Begun
<1> QED BY <1>5, <1>6 DEF a

-----------------------------------------------------------------------------
(* What is left to show of a step.                                         *)

\* After a step without calls under way.
LEMMA LimIdle ==
  ASSUME LimTypeOK', HasIface', \A b \in Callers : call'[b].pc = "idle",
         \A i \in Ifaces, ip \in Ips :
            <<i, ip>> \notin dirty' => classes'[i][ip] = Asked(saved', i, ip)
  PROVE  LimInv'
PROOF
<1>1. Busy' = {}
  BY DEF Busy
<1>2. ClassesTracked'
  BY DEF ClassesTracked, Asked
<1> QED BY <1>1, <1>2 DEF LimInv, AloneOrBlurred, AloneTracks

\* After a step with one call under way, alone.
LEMMA LimOne ==
  ASSUME LimTypeOK', HasIface', NEW c \in Callers,
         \A b \in Callers : b # c => call'[b].pc = "idle",
         call'[c].pc # "idle", call'[c].alone,
         \A i \in Ifaces, ip \in Ips :
            /\ <<i, ip>> \notin dirty' \cup call'[c].touched
                  => classes'[i][ip] = Asked(saved', i, ip)
            /\ call'[c].pc # "teardown" /\ <<i, ip>> \notin dirty' \ call'[c].touched
                  => classes'[i][ip] = Asked(call'[c].st, i, ip),
         call'[c].pc = "teardown" =>
            call'[c].touched = {} /\ call'[c].old = saved'.iface /\ call'[c].st.rules = Unlimited
  PROVE  LimInv'
PROOF
<1>1. Busy' = {c}
  BY DEF Busy
<1>2. ClassesTracked' /\ AloneOrBlurred'
  BY <1>1 DEF ClassesTracked, AloneOrBlurred
<1>3. AloneTracks'
  BY <1>1 DEF AloneTracks, Asked, Unlimited
<1> QED BY <1>2, <1>3 DEF LimInv

\* After a step of calls that have overlapped.
LEMMA LimBlurred ==
  ASSUME LimTypeOK', HasIface', Ifaces \X Ips \subseteq dirty',
         \A b \in Callers : call'[b].pc # "idle" => ~call'[b].alone
  PROVE  LimInv'
PROOF
<1>1. \A i \in Ifaces, ip \in Ips : <<i, ip>> \in dirty'
  OBVIOUS
<1>2. ClassesTracked'
  BY <1>1 DEF ClassesTracked
<1>3. AloneOrBlurred' /\ AloneTracks'
  BY DEF AloneOrBlurred, AloneTracks, Busy
<1> QED BY <1>2, <1>3 DEF LimInv

\* The call of a step: alone, or one of several.
LEMMA LimSplit ==
  ASSUME LimInv, NEW c \in Callers, call[c].pc # "idle"
  PROVE  /\ call[c].alone \in BOOLEAN
         /\ call[c].alone =>
              /\ \A b \in Callers : b # c => call[b].pc = "idle"
              /\ \A i \in Ifaces, ip \in Ips :
                    /\ <<i, ip>> \notin dirty \cup call[c].touched => classes[i][ip] = Asked(saved, i, ip)
                    /\ call[c].pc # "teardown" /\ <<i, ip>> \notin dirty \ call[c].touched
                          => classes[i][ip] = Asked(call[c].st, i, ip)
              /\ call[c].pc = "teardown" =>
                    call[c].touched = {} /\ call[c].old = saved.iface /\ call[c].st.rules = Unlimited
         /\ ~call[c].alone =>
              /\ Ifaces \X Ips \subseteq dirty
              /\ \A b \in Callers : call[b].pc # "idle" => ~call[b].alone
PROOF
<1>1. c \in Busy
  BY DEF Busy
<1>2. call[c].alone \in BOOLEAN
  BY LimTypes DEF LimInv, CallRec
<1>3. CASE call[c].alone
  <2>1. Busy = {c}
    BY <1>1, <1>3 DEF LimInv, AloneOrBlurred
  <2>2. \A b \in Callers : b # c => call[b].pc = "idle"
    BY <2>1 DEF Busy
  <2> QED BY <1>1, <1>2, <1>3, <2>2 DEF LimInv, AloneTracks
<1>4. CASE ~call[c].alone
  <2>1. Ifaces \X Ips \subseteq dirty
    BY <1>1, <1>4 DEF LimInv, AloneOrBlurred
  <2>2. ASSUME NEW b \in Callers, call[b].pc # "idle", call[b].alone
        PROVE  FALSE
    <3>1. b \in Busy
      BY <2>2 DEF Busy
    <3>2. Busy = {b}
      BY <3>1, <2>2 DEF LimInv, AloneOrBlurred
    <3>3. c = b
      BY <1>1, <3>2
    <3> QED BY <3>3, <2>2, <1>4
  <2> QED BY <1>2, <1>4, <2>1, <2>2
<1> QED BY <1>2, <1>3, <1>4

\* A step of a call that is not alone.
LEMMA LimCrowd ==
  ASSUME LimInv, NEW c \in Callers, call[c].pc # "idle", ~call[c].alone,
         NEW q, CallMoved(c, q), q.pc = "idle" \/ ~q.alone,
         dirty \subseteq dirty', LimTypeOK', HasIface'
  PROVE  LimInv'
PROOF
<1>1. /\ Ifaces \X Ips \subseteq dirty
      /\ \A b \in Callers : call[b].pc # "idle" => ~call[b].alone
  BY LimSplit
<1>2. call'[c] = q /\ \A b \in Callers : b # c => call'[b] = call[b]
  BY CallMovedFacts DEF LimInv
<1>3. \A b \in Callers : call'[b].pc # "idle" => ~call'[b].alone
  BY <1>1, <1>2
<1> QED BY <1>1, <1>3, LimBlurred

-----------------------------------------------------------------------------
(* The steps.                                                              *)

LEMMA UnlimitedAsked ==
  ASSUME NEW s, NEW i, NEW ip \in Ips, s.rules = Unlimited
  PROVE  Asked(s, i, ip) = 0
BY DEF Asked, Unlimited

\* Whatever begins while another call runs blurs everything.
LEMMA BeginCrowd ==
  ASSUME LimInv, NEW c \in Callers, NEW q, Begun(c, q), q.alone = (Busy = {}), Busy # {},
         Blurred \subseteq dirty', LimTypeOK', HasIface'
  PROVE  LimInv'
PROOF
<1>1. /\ call'[c] = q
      /\ \A b \in Callers : b # c => call'[b].pc = call[b].pc /\ call'[b].alone = (call[b].pc = "idle")
  BY BegunFacts DEF LimInv
<1>2. \A b \in Callers : call'[b].pc # "idle" => ~call'[b].alone
  BY <1>1
<1>3. Ifaces \X Ips \subseteq dirty'
  BY DEF Blurred
<1> QED BY <1>2, <1>3, LimBlurred

LEMMA ApplyPlanStep ==
  ASSUME LimInv, NEW c \in Callers, ApplyPlan(c)
  PROVE  LimInv'
PROOF
<1>1. PICK q : /\ Begun(c, q)
                /\ q.alone = (Busy = {}) /\ q.touched = {} /\ q.old = saved.iface
                /\ q.st.iface = route /\ route \in Ifaces
                /\ \/ /\ q.pc = "teardown" /\ q.st.rules = Unlimited
                      /\ saved.iface # NoIface
                   \/ /\ q.pc = "remove" /\ q.st.rules = saved.rules
                      /\ saved.iface \in {NoIface, route}
  BY ApplyPlanEffect DEF LimInv
<1>2. /\ call' \in [Callers -> CallRec]
      /\ call'[c] = q
      /\ \A b \in Callers : b # c => /\ call'[b].pc = call[b].pc /\ call'[b].st = call[b].st
                                     /\ call'[b].old = call[b].old
  BY <1>1, BegunFacts DEF LimInv
<1>u. UNCHANGED <<route, saved, classes, filters>> /\ dirty' = Blurred
  BY DEF ApplyPlan
<1>3. LimTypeOK'
  <2>1. dirty' \subseteq Spots
    BY <1>u, BlurredType, LimTypes DEF LimInv
  <2>2. /\ route' \in Ifaces \cup {NoIface} /\ saved' \in StateRec
        /\ classes' \in [Ifaces -> Limited] /\ filters' \in [Ifaces -> SUBSET Ips]
    BY <1>u, LimTypes DEF LimInv
  <2> QED BY <1>2, <2>1, <2>2 DEF LimTypeOK, StateRec, CallRec, Limited, Spots
<1>s. saved.iface \in Ifaces \cup {NoIface}
  BY LimTypes DEF LimInv, StateRec
<1>4. HasIface'
  <2>1. saved'.iface = NoIface => saved'.rules = Unlimited
    BY <1>u DEF LimInv, HasIface
  <2>2. ASSUME NEW b \in Callers
        PROVE  /\ call'[b].pc \in {"teardown", "remove"} => call'[b].st.iface \in Ifaces
               /\ call'[b].pc = "teardown" => call'[b].old \in Ifaces
               /\ call'[b].pc = "clear" => call'[b].st = NoState
    <3>1. CASE b = c
      BY <1>1, <1>2, <1>s, <3>1
    <3>2. CASE b # c
      BY <1>2, <3>2 DEF LimInv, HasIface
    <3> QED BY <3>1, <3>2
  <2> QED BY <2>1, <2>2 DEF HasIface, Unlimited, NoState
<1>5. CASE Busy # {}
  BY <1>1, <1>3, <1>4, <1>5, <1>u, BeginCrowd
<1>6. CASE Busy = {}
  <2>1. dirty' = dirty
    BY <1>6, <1>u DEF Blurred
  <2>2. \A b \in Callers : b # c => call'[b].pc = "idle"
    BY <1>2, <1>6 DEF Busy
  <2>3. call'[c].alone /\ call'[c].pc # "idle" /\ call'[c].touched = {} /\ call'[c].old = saved.iface
    BY <1>1, <1>2, <1>6
  <2>4. ASSUME NEW i \in Ifaces, NEW ip \in Ips, <<i, ip>> \notin dirty
        PROVE  classes[i][ip] = Asked(saved, i, ip)
    BY <2>4, <1>6 DEF LimInv, ClassesTracked, Asked
  <2>5. ASSUME NEW i \in Ifaces, NEW ip \in Ips, q.pc # "teardown"
        PROVE  Asked(q.st, i, ip) = Asked(saved, i, ip)
    <3>1. q.st.rules = saved.rules /\ saved.iface \in {NoIface, route} /\ q.st.iface = route
      BY <1>1, <2>5
    <3>2. CASE saved.iface = NoIface
      <4>1. saved.rules = Unlimited
        BY <3>2 DEF LimInv, HasIface
      <4> QED BY <4>1, <3>1, UnlimitedAsked
    <3>3. CASE saved.iface = route
      BY <3>1, <3>3 DEF Asked
    <3> QED BY <3>1, <3>2, <3>3
  <2>6. call'[c].pc = "teardown" => call'[c].st.rules = Unlimited
    BY <1>1, <1>2
  <2> QED BY <1>2, <1>3, <1>4, <1>u, <2>1, <2>2, <2>3, <2>4, <2>5, <2>6, LimOne
<1> QED BY <1>5, <1>6

\* ClearAll has torn the interface down, or it could not.
LEMMA ClearStart ==
  ASSUME LimInv, NEW c \in Callers, NEW p \in SUBSET Spots, NEW d \in SUBSET Spots,
         Clearing(c, p),
         dirty' = Blurred \cup d, UNCHANGED <<route, saved>>,
         classes' \in [Ifaces -> Limited], filters' \in [Ifaces -> SUBSET Ips],
         Busy = {} => \A i \in Ifaces, ip \in Ips :
            /\ <<i, ip>> \notin dirty \cup d \cup p => classes'[i][ip] = Asked(saved, i, ip)
            /\ <<i, ip>> \notin (dirty \cup d) \ p => classes'[i][ip] = 0
  PROVE  LimInv'
PROOF
<1>1. PICK q : /\ Begun(c, q)
                /\ q.pc = "clear" /\ q.st = NoState /\ q.alone = (Busy = {})
                /\ q.touched = p
  BY ClearEffect DEF LimInv
<1>2. /\ call' \in [Callers -> CallRec]
      /\ call'[c] = q
      /\ \A b \in Callers : b # c => /\ call'[b].pc = call[b].pc /\ call'[b].st = call[b].st
                                     /\ call'[b].old = call[b].old
  BY <1>1, BegunFacts DEF LimInv
<1>t. saved \in StateRec /\ dirty \subseteq Spots /\ route \in Ifaces \cup {NoIface}
  BY LimTypes DEF LimInv
<1>3. LimTypeOK'
  <2>1. dirty' \subseteq Spots
    BY <1>t, BlurredType
  <2> QED BY <1>2, <1>t, <2>1 DEF LimTypeOK, StateRec, CallRec, Limited, Spots
<1>4. HasIface'
  <2>1. saved'.iface = NoIface => saved'.rules = Unlimited
    BY DEF LimInv, HasIface
  <2>2. ASSUME NEW b \in Callers
        PROVE  /\ call'[b].pc \in {"teardown", "remove"} => call'[b].st.iface \in Ifaces
               /\ call'[b].pc = "teardown" => call'[b].old \in Ifaces
               /\ call'[b].pc = "clear" => call'[b].st = NoState
    <3>1. CASE b = c
      BY <1>1, <1>2, <3>1
    <3>2. CASE b # c
      BY <1>2, <3>2 DEF LimInv, HasIface
    <3> QED BY <3>1, <3>2
  <2> QED BY <2>1, <2>2 DEF HasIface, Unlimited, NoState
<1>5. CASE Busy # {}
  BY <1>1, <1>3, <1>4, <1>5, BeginCrowd
<1>6. CASE Busy = {}
  <2>1. dirty' = dirty \cup d
    BY <1>6 DEF Blurred
  <2>2. \A b \in Callers : b # c => call'[b].pc = "idle"
    BY <1>2, <1>6 DEF Busy
  <2>3. call'[c].alone /\ call'[c].pc = "clear" /\ call'[c].touched = p
    BY <1>1, <1>2, <1>6
  <2>4. ASSUME NEW i \in Ifaces, NEW ip \in Ips
        PROVE  Asked(call'[c].st, i, ip) = 0
    <3>1. call'[c].st.rules = Unlimited
      BY <1>1, <1>2, NoStateType
    <3> QED BY <3>1, UnlimitedAsked
  <2>5. ASSUME NEW i \in Ifaces, NEW ip \in Ips
        PROVE  /\ <<i, ip>> \notin dirty' \cup call'[c].touched
                     => classes'[i][ip] = Asked(saved', i, ip)
               /\ call'[c].pc # "teardown" /\ <<i, ip>> \notin dirty' \ call'[c].touched
                     => classes'[i][ip] = Asked(call'[c].st, i, ip)
    BY <1>6, <2>1, <2>3, <2>4
  <2> QED BY <1>3, <1>4, <2>2, <2>3, <2>5, LimOne
<1> QED BY <1>5, <1>6

LEMMA ClearStep ==
  ASSUME LimInv, NEW c \in Callers, ClearAll(c)
  PROVE  LimInv'
PROOF
<1> DEFINE p == Places(saved.iface)
           cleared == [NoCall EXCEPT !.pc = "clear", !.alone = (Busy = {})]
<1>u. UNCHANGED <<route, saved>>
  BY DEF ClearAll
<1>t. /\ saved \in StateRec /\ classes \in [Ifaces -> Limited] /\ filters \in [Ifaces -> SUBSET Ips]
      /\ p \in SUBSET Spots /\ {} \in SUBSET Spots
  BY LimTypes, PlacesType DEF LimInv, StateRec
<1>i. saved.iface \in Ifaces \cup {NoIface}
  BY <1>t DEF StateRec
<1>3. ASSUME Busy = {}, NEW i \in Ifaces, NEW ip \in Ips
      PROVE  /\ <<i, ip>> \notin dirty => classes[i][ip] = Asked(saved, i, ip)
             /\ <<i, ip>> \in p <=> i = saved.iface
             /\ i # saved.iface => Asked(saved, i, ip) = 0
  <2>1. <<i, ip>> \notin dirty => classes[i][ip] = Asked(saved, i, ip)
    BY <1>3 DEF LimInv, ClassesTracked, Asked
  <2> QED BY <2>1 DEF Places, Asked
<1>1. CASE /\ IF saved.iface = NoIface THEN UNCHANGED <<classes, filters>>
              ELSE /\ classes' = [classes EXCEPT ![saved.iface] = Unlimited]
                   /\ filters' = [filters EXCEPT ![saved.iface] = {}]
           /\ call' = [Joined EXCEPT ![c] = [cleared EXCEPT !.touched = p]]
           /\ dirty' = Blurred
  <2>c. /\ classes' \in [Ifaces -> Limited] /\ filters' \in [Ifaces -> SUBSET Ips]
        /\ \A i \in Ifaces : classes'[i] = IF i = saved.iface THEN Unlimited ELSE classes[i]
    <3>1. CASE saved.iface = NoIface
      BY <1>1, <3>1, <1>t, ApplierAssumption
    <3>2. CASE saved.iface # NoIface
      BY <1>1, <3>2, <1>t, <1>i, UnlimitedType
    <3> QED BY <3>1, <3>2
  <2>1. ASSUME Busy = {}, NEW i \in Ifaces, NEW ip \in Ips
        PROVE  /\ <<i, ip>> \notin dirty \cup {} \cup p => classes'[i][ip] = Asked(saved, i, ip)
               /\ <<i, ip>> \notin (dirty \cup {}) \ p => classes'[i][ip] = 0
    <3>1. CASE i = saved.iface
      BY <3>1, <2>1, <2>c, <1>3 DEF Unlimited
    <3>2. CASE i # saved.iface
      BY <3>2, <2>1, <2>c, <1>3
    <3> QED BY <3>1, <3>2
  <2>2. dirty' = Blurred \cup {} /\ Clearing(c, p)
    BY <1>1 DEF Clearing
  <2> HIDE DEF p, cleared
  <2> QED BY <1>t, <1>u, <2>c, <2>1, <2>2, ClearStart
<1>2. CASE /\ call' = [Joined EXCEPT ![c] = cleared]
           /\ dirty' = Blurred \cup p
           /\ UNCHANGED <<classes, filters>>
  <2>1. ASSUME Busy = {}, NEW i \in Ifaces, NEW ip \in Ips
        PROVE  /\ <<i, ip>> \notin dirty \cup p \cup {} => classes'[i][ip] = Asked(saved, i, ip)
               /\ <<i, ip>> \notin (dirty \cup p) \ {} => classes'[i][ip] = 0
    BY <2>1, <1>2, <1>3
  <2>5. \A r \in CallRec : r.touched = {} => r = [r EXCEPT !.touched = {}]
    BY DEF CallRec
  <2>6. cleared \in CallRec /\ cleared.touched = {}
    <3> DEFINE a == (Busy = {})
    <3>1. a \in BOOLEAN /\ NoCall.touched = {}
      BY DEF NoCall
    <3> HIDE DEF a
    <3>2. \A r \in CallRec : LET q == [r EXCEPT !.pc = "clear", !.alone = a]
                             IN  q \in CallRec /\ q.touched = r.touched
      BY <3>1 DEF CallRec
    <3>3. [NoCall EXCEPT !.pc = "clear", !.alone = a] = cleared
      BY DEF a
    <3> QED BY <3>1, <3>2, <3>3, NoCallType
  <2>2. cleared = [cleared EXCEPT !.touched = {}]
    <3> HIDE DEF cleared
    <3> QED BY <2>5, <2>6
  <2>3. Clearing(c, {})
    BY <1>2, <2>2 DEF Clearing
  <2>4. /\ dirty' = Blurred \cup p /\ classes' \in [Ifaces -> Limited]
        /\ filters' \in [Ifaces -> SUBSET Ips]
    BY <1>2, <1>t
  <2> HIDE DEF p, cleared
  <2> QED BY <1>t, <1>u, <2>1, <2>3, <2>4, ClearStart
<1> QED BY <1>1, <1>2 DEF ClearAll

LEMMA MoveTypes ==
  ASSUME LimInv, NEW c \in Callers, NEW q, CallMoved(c, q),
         route' \in Ifaces \cup {NoIface}, saved' \in StateRec, classes' \in [Ifaces -> Limited],
         filters' \in [Ifaces -> SUBSET Ips], dirty' \subseteq Spots,
         saved'.iface = NoIface => saved'.rules = Unlimited,
         q.pc \in {"teardown", "remove"} => q.st.iface \in Ifaces,
         q.pc \in {"idle", "remove"}
  PROVE  LimTypeOK' /\ HasIface'
PROOF
<1>1. /\ call' \in [Callers -> CallRec]
      /\ call'[c] = q
      /\ \A b \in Callers : b # c => call'[b] = call[b]
  BY CallMovedFacts DEF LimInv
<1>2. LimTypeOK'
  BY <1>1 DEF LimTypeOK, StateRec, CallRec, Limited, Spots
<1>3. ASSUME NEW b \in Callers
      PROVE  /\ call'[b].pc \in {"teardown", "remove"} => call'[b].st.iface \in Ifaces
             /\ call'[b].pc = "teardown" => call'[b].old \in Ifaces
             /\ call'[b].pc = "clear" => call'[b].st = NoState
  BY <1>1 DEF LimInv, HasIface
<1>4. HasIface'
  BY <1>3 DEF HasIface, Unlimited, NoState
<1> QED BY <1>2, <1>4

LEMMA LimParts ==
  ASSUME LimInv
  PROVE  /\ route \in Ifaces \cup {NoIface} /\ saved \in StateRec /\ classes \in [Ifaces -> Limited]
         /\ filters \in [Ifaces -> SUBSET Ips] /\ call \in [Callers -> CallRec] /\ dirty \subseteq Spots
         /\ saved.iface = NoIface => saved.rules = Unlimited
         /\ \A c \in Callers : call[c].pc \in {"teardown", "remove"} => call[c].st.iface \in Ifaces
BY LimTypes DEF LimInv, HasIface

\* What a call could not clear is dirty, and not counted as touched.
LEMMA IgnoredStep ==
  ASSUME LimInv, NEW c \in Callers, call[c].pc # "idle", NEW q, CallMoved(c, q),
         q.pc = "remove", q.alone = call[c].alone, q.st.iface \in Ifaces,
         UNCHANGED <<route, saved, classes, filters>>,
         NEW p \in SUBSET Spots, dirty' = dirty \cup p, call[c].touched \subseteq q.touched \cup p,
         call[c].alone => \A i \in Ifaces, ip \in Ips :
            <<i, ip>> \notin dirty' \ q.touched => classes[i][ip] = Asked(q.st, i, ip)
  PROVE  LimInv'
PROOF
<1>1. LimTypeOK' /\ HasIface'
  BY LimParts, MoveTypes
<1>2. call'[c] = q /\ \A b \in Callers : b # c => call'[b] = call[b]
  BY CallMovedFacts DEF LimInv
<1>3. CASE ~call[c].alone
  BY <1>1, <1>3, LimCrowd
<1>4. CASE call[c].alone
  <2>1. /\ \A b \in Callers : b # c => call[b].pc = "idle"
        /\ \A i \in Ifaces, ip \in Ips :
              <<i, ip>> \notin dirty \cup call[c].touched => classes[i][ip] = Asked(saved, i, ip)
    BY <1>4, LimSplit
  <2>2. ASSUME NEW i \in Ifaces, NEW ip \in Ips
        PROVE  /\ <<i, ip>> \notin dirty' \cup call'[c].touched
                     => classes'[i][ip] = Asked(saved', i, ip)
               /\ call'[c].pc # "teardown" /\ <<i, ip>> \notin dirty' \ call'[c].touched
                     => classes'[i][ip] = Asked(call'[c].st, i, ip)
    BY <1>2, <1>4, <2>1
  <2>3. /\ \A b \in Callers : b # c => call'[b].pc = "idle"
        /\ call'[c].alone /\ call'[c].pc = "remove"
    BY <1>2, <1>4, <2>1
  <2> QED BY <1>1, <2>2, <2>3, LimOne
<1> QED BY <1>3, <1>4, LimSplit

LEMMA TeardownStep ==
  ASSUME LimInv, NEW c \in Callers, Teardown(c)
  PROVE  LimInv'
PROOF
<1> DEFINE o == call[c].old
<1>u. UNCHANGED <<route, saved>> /\ call[c].pc = "teardown"
  BY DEF Teardown
<1>t. call[c] \in CallRec /\ call \in [Callers -> CallRec]
  BY LimParts
<1>o. o \in Ifaces /\ Places(o) \in SUBSET Spots /\ call[c].touched \in SUBSET Spots
  BY <1>u, <1>t, PlacesType DEF LimInv, HasIface, CallRec
<1>i. call[c].st.iface \in Ifaces
  BY <1>u, LimParts
<1>a. ASSUME call[c].alone
      PROVE  /\ \A b \in Callers : b # c => call[b].pc = "idle"
             /\ \A i \in Ifaces, ip \in Ips :
                   <<i, ip>> \notin dirty \cup call[c].touched => classes[i][ip] = Asked(saved, i, ip)
             /\ call[c].touched = {} /\ o = saved.iface /\ call[c].st.rules = Unlimited
  BY <1>a, <1>u, LimSplit
<1>1. CASE /\ classes' = [classes EXCEPT ![o] = Unlimited]
           /\ filters' = [filters EXCEPT ![o] = {}]
           /\ call' = [call EXCEPT ![c].pc = "remove", ![c].touched = Places(o)]
           /\ UNCHANGED dirty
  <2>1. call' = [call EXCEPT ![c] = [call[c] EXCEPT !.pc = "remove", !.touched = Places(o)]]
    BY <1>1, <1>t
  <2>2. PICK q : /\ CallMoved(c, q)
                 /\ q.pc = "remove" /\ q.st = call[c].st /\ q.alone = call[c].alone
                 /\ q.touched = Places(o)
    <3> DEFINE p == Places(o)
    <3>1. p \in SUBSET Spots /\ LimTypeOK
               /\ call' = [call EXCEPT ![c] = [call[c] EXCEPT !.pc = "remove", !.touched = p]]
      BY <2>1, <1>o DEF LimInv
    <3> HIDE DEF p
    <3>2. \E q : /\ CallMoved(c, q)
                 /\ q.pc = "remove" /\ q.st = call[c].st /\ q.alone = call[c].alone
                 /\ q.touched = p
      BY <3>1, TeardownEffect
    <3> QED BY <3>2 DEF p
  <2>3. /\ classes' \in [Ifaces -> Limited] /\ filters' \in [Ifaces -> SUBSET Ips]
        /\ classes'[o] = Unlimited
        /\ \A i \in Ifaces : i # o => classes'[i] = classes[i]
    <3> HIDE DEF o
    <3> QED BY <1>1, <1>o, LimParts, UnlimitedType
  <2>4. LimTypeOK' /\ HasIface'
    BY <1>1, <1>i, <2>2, <2>3, <1>u, LimParts, MoveTypes
  <2>5. call'[c] = q /\ \A b \in Callers : b # c => call'[b] = call[b]
    BY <2>2, CallMovedFacts DEF LimInv
  <2>6. CASE ~call[c].alone
    BY <1>1, <2>2, <2>4, <2>6, <1>u, LimCrowd
  <2>7. CASE call[c].alone
    <3>2. ASSUME NEW i \in Ifaces, NEW ip \in Ips
          PROVE  /\ <<i, ip>> \in Places(o) <=> i = o
                 /\ Asked(call[c].st, i, ip) = 0
      BY <2>7, <1>a, UnlimitedAsked DEF Places
    <3>3. ASSUME NEW i \in Ifaces, NEW ip \in Ips, <<i, ip>> \notin dirty \cup Places(o)
          PROVE  classes'[i][ip] = Asked(saved', i, ip)
      <4> HIDE DEF o
      <4> QED BY <2>3, <2>7, <1>u, <1>a, <3>2, <3>3
    <3>4. ASSUME NEW i \in Ifaces, NEW ip \in Ips, <<i, ip>> \notin dirty \ Places(o)
          PROVE  classes'[i][ip] = 0
      <4> HIDE DEF o
      <4>1. CASE i = o
        BY <4>1, <2>3 DEF Unlimited
      <4>2. CASE i # o
        BY <4>2, <2>3, <2>7, <1>a, <3>2, <3>4 DEF Asked
      <4> QED BY <4>1, <4>2
    <3>5. /\ \A b \in Callers : b # c => call'[b].pc = "idle"
          /\ call'[c].alone /\ call'[c].pc = "remove" /\ call'[c].touched = Places(o)
          /\ call'[c].st = call[c].st
      BY <2>2, <2>5, <2>7, <1>a
    <3>6. ASSUME NEW i \in Ifaces, NEW ip \in Ips
          PROVE  /\ <<i, ip>> \notin dirty' \cup call'[c].touched
                       => classes'[i][ip] = Asked(saved', i, ip)
                 /\ call'[c].pc # "teardown" /\ <<i, ip>> \notin dirty' \ call'[c].touched
                       => classes'[i][ip] = Asked(call'[c].st, i, ip)
      <4>1. dirty' = dirty
        BY <1>1
      <4> HIDE DEF o
      <4> QED BY <4>1, <3>2, <3>3, <3>4, <3>5
    <3> HIDE DEF o
    <3> QED BY <2>4, <3>5, <3>6, LimOne
  <2>8. call[c].alone \in BOOLEAN
    BY <1>t DEF CallRec
  <2> HIDE DEF o
  <2> QED BY <2>6, <2>7, <2>8
<1>2. CASE Ignored(Places(o)) /\ call' = [call EXCEPT ![c].pc = "remove"]
  <2>1. UNCHANGED <<classes, filters>> /\ dirty' = dirty \cup Places(o)
    BY <1>2 DEF Ignored
  <2>2. call' = [call EXCEPT ![c] = [call[c] EXCEPT !.pc = "remove", !.touched = call[c].touched]]
    BY <1>2, <1>t DEF CallRec
  <2>3. PICK q : /\ CallMoved(c, q)
                 /\ q.pc = "remove" /\ q.st = call[c].st /\ q.alone = call[c].alone
                 /\ q.touched = call[c].touched
    <3> DEFINE p == call[c].touched
    <3>1. p \in SUBSET Spots /\ LimTypeOK
               /\ call' = [call EXCEPT ![c] = [call[c] EXCEPT !.pc = "remove", !.touched = p]]
      BY <2>2, <1>o DEF LimInv
    <3> HIDE DEF p
    <3>2. \E q : /\ CallMoved(c, q)
                 /\ q.pc = "remove" /\ q.st = call[c].st /\ q.alone = call[c].alone
                 /\ q.touched = p
      BY <3>1, TeardownEffect
    <3> QED BY <3>2 DEF p
  <2>4. ASSUME call[c].alone, NEW i \in Ifaces, NEW ip \in Ips, <<i, ip>> \notin dirty' \ q.touched
        PROVE  classes[i][ip] = Asked(q.st, i, ip)
    <3>1. <<i, ip>> \notin dirty /\ i # o
      BY <2>1, <2>3, <2>4, <1>a DEF Places
    <3>2. Asked(saved, i, ip) = 0
      BY <3>1, <2>4, <1>a DEF Asked
    <3>3. Asked(q.st, i, ip) = 0
      BY <2>3, <2>4, <1>a, UnlimitedAsked
    <3> QED BY <3>1, <3>2, <3>3, <2>4, <1>a
  <2>5. q.st.iface \in Ifaces /\ call[c].touched \subseteq q.touched \cup Places(o) /\ call[c].pc # "idle"
    BY <2>3, <1>i, <1>u
  <2> HIDE DEF o
  <2> QED BY <1>u, <1>o, <2>1, <2>3, <2>4, <2>5, IgnoredStep
<1> QED BY <1>1, <1>2 DEF Teardown

\* A rule set in tc and in the call's state alike.
LEMMA RuleStep ==
  ASSUME LimInv, NEW c \in Callers, NEW ip \in Ips, NEW rate \in Rates \cup {0},
         call[c].pc = "remove",
         call' = [call EXCEPT ![c].st.rules[ip] = rate, ![c].touched = @ \cup {<<call[c].st.iface, ip>>}],
         classes' = [classes EXCEPT ![call[c].st.iface][ip] = rate],
         filters' \in [Ifaces -> SUBSET Ips],
         UNCHANGED <<route, saved, dirty>>
  PROVE  LimInv'
PROOF
<1> DEFINE f == call[c].st.iface
<1>f. f \in Ifaces
  BY LimParts
<1>1. PICK q : /\ CallMoved(c, q)
               /\ q.pc = call[c].pc /\ q.alone = call[c].alone
               /\ q.st.iface = f
               /\ q.st.rules = [call[c].st.rules EXCEPT ![ip] = rate]
               /\ q.touched = call[c].touched \cup {<<f, ip>>}
               /\ q.old = call[c].old
  <2> DEFINE p == call[c].touched \cup {<<f, ip>>}
  <2>1. LimTypeOK /\ call[c].st.iface \in Ifaces /\ p \in SUBSET Spots
    BY <1>f, LimParts DEF LimInv, CallRec, Spots
  <2>2. SetRule(c, ip, rate, p)
    BY LimParts DEF SetRule
  <2> HIDE DEF p
  <2>3. PICK q : RuleMade(c, ip, rate, p, q)
    BY <2>1, <2>2, RuleSet
  <2>4. /\ CallMoved(c, q)
        /\ q.pc = call[c].pc /\ q.alone = call[c].alone
        /\ q.st.iface = f
        /\ q.st.rules = [call[c].st.rules EXCEPT ![ip] = rate]
        /\ q.touched = call[c].touched \cup {<<f, ip>>}
        /\ q.old = call[c].old
    BY <2>3 DEF RuleMade, p
  <2> QED BY <2>4
<1>r. call[c].st.rules \in Limited
  BY LimParts DEF CallRec, StateRec
<1>2. /\ classes' \in [Ifaces -> Limited]
      /\ classes'[f][ip] = rate
      /\ \A i \in Ifaces, j \in Ips : i # f \/ j # ip => classes'[i][j] = classes[i][j]
  <2>1. classes[f] \in Limited /\ classes \in [Ifaces -> Limited]
    BY <1>f, LimParts
  <2> DEFINE l == [classes[f] EXCEPT ![ip] = rate]
  <2>2. l \in Limited /\ l[ip] = rate /\ \A j \in Ips : j # ip => l[j] = classes[f][j]
    BY <2>1 DEF Limited
  <2>3. classes' = [classes EXCEPT ![f] = l]
    OBVIOUS
  <2> HIDE DEF l, f
  <2>4. classes' \in [Ifaces -> Limited] /\ classes'[f] = l
            /\ \A i \in Ifaces : i # f => classes'[i] = classes[i]
    BY <2>1, <2>2, <2>3, <1>f
  <2> QED BY <2>2, <2>4
<1>3. LimTypeOK' /\ HasIface'
  BY <1>1, <1>2, <1>f, LimParts, MoveTypes
<1>4. call'[c] = q /\ \A b \in Callers : b # c => call'[b] = call[b]
  BY <1>1, CallMovedFacts DEF LimInv
<1>5. CASE ~call[c].alone
  BY <1>1, <1>3, <1>5, LimCrowd
<1>6. CASE call[c].alone
  <2>1. /\ \A b \in Callers : b # c => call[b].pc = "idle"
        /\ \A i \in Ifaces, j \in Ips :
              /\ <<i, j>> \notin dirty \cup call[c].touched => classes[i][j] = Asked(saved, i, j)
              /\ <<i, j>> \notin dirty \ call[c].touched => classes[i][j] = Asked(call[c].st, i, j)
    BY <1>6, LimSplit
  <2>2. ASSUME NEW i \in Ifaces, NEW j \in Ips
        PROVE  Asked(q.st, i, j) = IF i = f /\ j = ip THEN rate ELSE Asked(call[c].st, i, j)
    BY <1>1, <1>r DEF Asked, Limited
  <2> HIDE DEF f
  <2>3. ASSUME NEW i \in Ifaces, NEW j \in Ips, <<i, j>> \notin dirty \cup q.touched
        PROVE  classes'[i][j] = Asked(saved', i, j)
    <3>1. <<i, j>> # <<f, ip>> /\ <<i, j>> \notin dirty \cup call[c].touched
      BY <1>1, <2>3
    <3> QED BY <3>1, <1>2, <2>1
  <2>4. ASSUME NEW i \in Ifaces, NEW j \in Ips, <<i, j>> \notin dirty \ q.touched
        PROVE  classes'[i][j] = Asked(q.st, i, j)
    <3>1. CASE i = f /\ j = ip
      BY <3>1, <2>2, <1>2
    <3>2. CASE ~(i = f /\ j = ip)
      <4>1. <<i, j>> # <<f, ip>>
        BY <3>2
      <4>2. <<i, j>> \notin dirty \ call[c].touched
        BY <4>1, <2>4, <1>1
      <4> QED BY <3>2, <4>2, <2>1, <2>2, <1>2
    <3> QED BY <3>1, <3>2
  <2>5. /\ \A b \in Callers : b # c => call'[b].pc = "idle"
        /\ call'[c].alone /\ call'[c].pc = "remove"
    BY <1>1, <1>4, <1>6, <2>1
  <2>6. \A i \in Ifaces, j \in Ips :
            /\ <<i, j>> \notin dirty' \cup call'[c].touched
                  => classes'[i][j] = Asked(saved', i, j)
            /\ call'[c].pc # "teardown" /\ <<i, j>> \notin dirty' \ call'[c].touched
                  => classes'[i][j] = Asked(call'[c].st, i, j)
    <3>1. call'[c] = q /\ dirty' = dirty
      BY <1>4
    <3> QED BY <3>1, <2>3, <2>4
  <2> QED BY <1>3, <2>5, <2>6, LimOne
<1> QED BY <1>5, <1>6

\* A call that ends.
LEMMA EndStep ==
  ASSUME LimInv, NEW c \in Callers, call[c].pc # "idle", call' = [call EXCEPT ![c] = NoCall],
         UNCHANGED <<route, filters>>, saved' \in StateRec, classes' \in [Ifaces -> Limited],
         dirty' \subseteq Spots,
         saved'.iface = NoIface => saved'.rules = Unlimited,
         ~call[c].alone => dirty \subseteq dirty',
         call[c].alone => \A i \in Ifaces, ip \in Ips :
                             <<i, ip>> \notin dirty' => classes'[i][ip] = Asked(saved', i, ip)
  PROVE  LimInv'
PROOF
<1>1. CallMoved(c, NoCall)
  BY NoCallType DEF CallMoved
<1>2. LimTypeOK' /\ HasIface'
  BY <1>1, NoCallType, LimParts, MoveTypes
<1>3. call'[c] = NoCall /\ \A b \in Callers : b # c => call'[b] = call[b]
  BY <1>1, CallMovedFacts DEF LimInv
<1>4. CASE ~call[c].alone
  BY <1>1, <1>2, <1>4, NoCallType, LimCrowd
<1>5. CASE call[c].alone
  <2>1. \A b \in Callers : b # c => call[b].pc = "idle"
    BY <1>5, LimSplit
  <2>2. \A b \in Callers : call'[b].pc = "idle"
    BY <1>3, <2>1, NoCallType
  <2> QED BY <1>2, <1>5, <2>2, LimIdle
<1> QED BY <1>4, <1>5

LEMMA RemoveRuleStep ==
  ASSUME LimInv, NEW c \in Callers, NEW ip \in Ips, RemoveRule(c, ip)
  PROVE  LimInv'
PROOF
<1> DEFINE f == call[c].st.iface
<1>u. call[c].pc = "remove" /\ UNCHANGED <<route, saved>>
  BY DEF RemoveRule
<1>1. CASE /\ filters' = [filters EXCEPT ![f] = {}]
           /\ classes' = [classes EXCEPT ![f][ip] = 0]
           /\ call' = [call EXCEPT ![c].st.rules[ip] = 0, ![c].touched = @ \cup {<<f, ip>>}]
           /\ UNCHANGED dirty
  <2>1. filters' \in [Ifaces -> SUBSET Ips]
    BY <1>1, LimParts
  <2> QED BY <1>1, <1>u, <2>1, RuleStep
<1>2. CASE /\ Ignored({<<f, ip>>})
           /\ call' = [call EXCEPT ![c].st.rules[ip] = 0, ![c].touched = @ \ {<<f, ip>>}]
  <2> DEFINE p == call[c].touched \ {<<f, ip>>}
             s == {<<f, ip>>}
  <2>f. f \in Ifaces /\ LimTypeOK
    BY <1>u, LimParts DEF LimInv
  <2>p. p \in SUBSET Spots /\ s \in SUBSET Spots
    BY <2>f, LimParts DEF CallRec, Spots
  <2>1. UNCHANGED <<classes, filters>> /\ dirty' = dirty \cup s
    BY <1>2 DEF Ignored
  <2>2. SetRule(c, ip, 0, p)
    BY <1>2, LimParts DEF SetRule
  <2>r. call[c].st.rules \in Limited
    BY LimParts DEF CallRec, StateRec
  <2>q. PICK q : RuleMade(c, ip, 0, p, q)
    <3> HIDE DEF p
    <3>1. 0 \in Rates \cup {0}
      OBVIOUS
    <3> QED BY <2>f, <2>p, <2>2, <3>1, RuleSet
  <2>3. /\ CallMoved(c, q)
        /\ q.pc = call[c].pc /\ q.alone = call[c].alone
        /\ q.st.iface = f
        /\ q.st.rules = [call[c].st.rules EXCEPT ![ip] = 0]
        /\ q.touched = p
    BY <2>q DEF RuleMade
  <2>4. ASSUME call[c].alone, NEW i \in Ifaces, NEW j \in Ips, <<i, j>> \notin dirty' \ q.touched
        PROVE  classes[i][j] = Asked(q.st, i, j)
    <3>1. <<i, j>> # <<f, ip>>
      BY <2>1, <2>3, <2>4
    <3>2. <<i, j>> \notin dirty \ call[c].touched
      BY <2>1, <2>3, <2>4, <3>1
    <3>3. classes[i][j] = Asked(call[c].st, i, j)
      BY <2>4, <3>2, <1>u, LimSplit
    <3>4. Asked(q.st, i, j) = Asked(call[c].st, i, j)
      BY <2>3, <2>r, <3>1 DEF Asked, Limited
    <3> QED BY <3>3, <3>4
  <2>5. call[c].touched \subseteq q.touched \cup s /\ call[c].pc # "idle" /\ q.pc = "remove" /\ q.st.iface \in Ifaces
    BY <2>3, <2>f, <1>u
  <2> HIDE DEF s, p, f
  <2> QED BY <1>u, <2>p, <2>1, <2>3, <2>4, <2>5, IgnoredStep
<1> QED BY <1>1, <1>2 DEF RemoveRule

LEMMA ApplyRuleStep ==
  ASSUME LimInv, NEW c \in Callers, NEW ip \in Ips, ApplyRule(c, ip)
  PROVE  LimInv'
PROOF
<1> DEFINE f == call[c].st.iface
           rate == call[c].desired[ip]
           t == call[c].touched
<1>u. UNCHANGED <<route, saved>> /\ call[c].pc = "remove"
  BY DEF ApplyRule
<1>f. f \in Ifaces
  BY <1>u, LimParts
<1>r. rate \in Rates \cup {0}
  BY LimParts DEF CallRec, Limited
<1>1. CASE /\ classes' = [classes EXCEPT ![f][ip] = rate]
           /\ filters' = [filters EXCEPT ![f] = @ \cup {ip}]
           /\ call' = [call EXCEPT ![c].st.rules[ip] = rate, ![c].touched = @ \cup {<<f, ip>>}]
           /\ UNCHANGED <<dirty, fails>>
  <2>1. filters' \in [Ifaces -> SUBSET Ips]
    BY <1>1, <1>f, LimParts
  <2> QED BY <1>1, <1>u, <1>r, <2>1, RuleStep
<1>2. CASE /\ classes' \in {classes, [classes EXCEPT ![f][ip] = rate]}
           /\ GiveUp(c, t \cup {<<f, ip>>})
           /\ UNCHANGED filters
  <2>1. dirty' = dirty \cup (t \cup {<<f, ip>>}) /\ call' = [call EXCEPT ![c] = NoCall]
    BY <1>2 DEF GiveUp
  <2>t. t \in SUBSET Spots
    BY LimParts DEF CallRec
  <2>2. dirty' \subseteq Spots
    BY <2>1, <2>t, <1>f, LimParts DEF Spots
  <2>3. /\ classes' \in [Ifaces -> Limited]
        /\ \A i \in Ifaces, j \in Ips : i # f \/ j # ip => classes'[i][j] = classes[i][j]
    <3>1. classes[f] \in Limited /\ classes \in [Ifaces -> Limited]
      BY <1>f, LimParts
    <3> DEFINE l == [classes[f] EXCEPT ![ip] = rate]
    <3>2. l \in Limited /\ \A j \in Ips : j # ip => l[j] = classes[f][j]
      BY <3>1, <1>r DEF Limited
    <3>3. classes' = classes \/ classes' = [classes EXCEPT ![f] = l]
      BY <1>2
    <3> HIDE DEF l, f
    <3> QED BY <3>1, <3>2, <3>3, <1>f
  <2>4. ASSUME call[c].alone, NEW i \in Ifaces, NEW j \in Ips, <<i, j>> \notin dirty'
        PROVE  classes'[i][j] = Asked(saved', i, j)
    <3>1. <<i, j>> \notin dirty \cup t /\ <<i, j>> # <<f, ip>>
      BY <2>1, <2>4
    <3>2. classes[i][j] = Asked(saved, i, j)
      BY <2>4, <3>1, <1>u, LimSplit
    <3>3. classes'[i][j] = classes[i][j]
      <4> HIDE DEF f
      <4> QED BY <2>3, <3>1
    <3> QED BY <3>2, <3>3, <1>u
  <2> QED BY <1>2, <1>u, <2>1, <2>2, <2>3, <2>4, LimParts, EndStep
<1> QED BY <1>1, <1>2 DEF ApplyRule

LEMMA SaveStateStep ==
  ASSUME LimInv, NEW c \in Callers, SaveState(c)
  PROVE  LimInv'
PROOF
<1> DEFINE s == call[c].st
           t == call[c].touched
<1>u. UNCHANGED <<route, classes, filters>> /\ call[c].pc = "remove"
  BY DEF SaveState
<1>t. call[c] \in CallRec
  BY LimParts
<1>s. s \in StateRec /\ s.iface \in Ifaces /\ t \in SUBSET Spots
  BY <1>t, <1>u, LimParts DEF CallRec
<1>c. classes' \in [Ifaces -> Limited]
  BY <1>u, LimParts
<1>1. CASE saved' = s /\ FinishCall(c)
  <2>1. /\ call' = [call EXCEPT ![c] = NoCall]
        /\ dirty' = IF call[c].alone THEN dirty \ t ELSE dirty
    BY <1>1 DEF FinishCall
  <2>2. dirty' \subseteq Spots /\ (~call[c].alone => dirty \subseteq dirty')
    BY <2>1, LimParts
  <2>3. call[c].alone => \A i \in Ifaces, ip \in Ips :
            <<i, ip>> \notin dirty' => classes'[i][ip] = Asked(saved', i, ip)
    BY <1>1, <1>u, <2>1, LimSplit
  <2>4. saved' \in StateRec /\ (saved'.iface = NoIface => saved'.rules = Unlimited)
    BY <1>1, <1>s, ApplierAssumption
  <2> QED BY <1>u, <1>c, <2>1, <2>2, <2>3, <2>4, EndStep
<1>2. CASE saved' = saved /\ GiveUp(c, t)
  <2>1. call' = [call EXCEPT ![c] = NoCall] /\ dirty' = dirty \cup t
    BY <1>2 DEF GiveUp
  <2>2. dirty' \subseteq Spots /\ dirty \subseteq dirty'
    BY <2>1, <1>s, LimParts
  <2>3. call[c].alone => \A i \in Ifaces, ip \in Ips :
            <<i, ip>> \notin dirty' => classes'[i][ip] = Asked(saved', i, ip)
    BY <1>2, <1>u, <2>1, LimSplit
  <2> QED BY <1>2, <1>u, <1>c, <2>1, <2>2, <2>3, LimParts, EndStep
<1>3. CASE saved' = NoState /\ GiveUp(c, t \cup Places(s.iface))
  <2>1. call' = [call EXCEPT ![c] = NoCall] /\ dirty' = dirty \cup (t \cup Places(s.iface))
    BY <1>3 DEF GiveUp
  <2>p. Places(s.iface) \subseteq Spots
    BY <1>s, PlacesType
  <2>2. dirty' \subseteq Spots /\ dirty \subseteq dirty'
    BY <2>1, <1>s, <2>p, LimParts
  <2>3. ASSUME call[c].alone, NEW i \in Ifaces, NEW ip \in Ips, <<i, ip>> \notin dirty'
        PROVE  classes'[i][ip] = Asked(saved', i, ip)
    <3>1. <<i, ip>> \notin dirty \ t
      BY <2>1, <2>3
    <3>2. classes[i][ip] = Asked(s, i, ip)
      BY <2>3, <3>1, <1>u, LimSplit
    <3>3. i # s.iface
      BY <2>1, <2>3 DEF Places
    <3>4. Asked(s, i, ip) = 0
      BY <3>3 DEF Asked
    <3>5. Asked(saved', i, ip) = 0
      BY <1>3, NoStateType, UnlimitedAsked
    <3> QED BY <3>2, <3>4, <3>5, <1>u
  <2> QED BY <1>3, <1>u, <1>c, <2>1, <2>2, <2>3, NoStateType, EndStep
<1> QED BY <1>1, <1>2, <1>3 DEF SaveState

LEMMA SaveClearedStep ==
  ASSUME LimInv, NEW c \in Callers, SaveCleared(c)
  PROVE  LimInv'
PROOF
<1> DEFINE t == call[c].touched
<1>u. UNCHANGED <<route, classes, filters>> /\ call[c].pc = "clear"
  BY DEF SaveCleared
<1>c. classes' \in [Ifaces -> Limited] /\ t \in SUBSET Spots
  BY <1>u, LimParts DEF CallRec
<1>3. call[c].st = NoState
  BY <1>u DEF LimInv, HasIface
<1>1. CASE saved' = NoState /\ FinishCall(c)
  <2>1. /\ call' = [call EXCEPT ![c] = NoCall]
        /\ dirty' = IF call[c].alone THEN dirty \ t ELSE dirty
    BY <1>1 DEF FinishCall
  <2>2. dirty' \subseteq Spots /\ (~call[c].alone => dirty \subseteq dirty')
    BY <2>1, LimParts
  <2>4. call[c].alone => \A i \in Ifaces, ip \in Ips :
            <<i, ip>> \notin dirty' => classes'[i][ip] = Asked(saved', i, ip)
    BY <1>u, <1>1, <2>1, <1>3, LimSplit
  <2> QED BY <1>u, <1>c, <1>1, <2>1, <2>2, <2>4, NoStateType, EndStep
<1>2. CASE saved' \in {saved, NoState} /\ GiveUp(c, t)
  <2>1. call' = [call EXCEPT ![c] = NoCall] /\ dirty' = dirty \cup t
    BY <1>2 DEF GiveUp
  <2>2. dirty' \subseteq Spots /\ dirty \subseteq dirty'
    BY <2>1, <1>c, LimParts
  <2>3. call[c].alone => \A i \in Ifaces, ip \in Ips :
            <<i, ip>> \notin dirty' => classes'[i][ip] = Asked(saved', i, ip)
    <3>1. CASE saved' = saved
      BY <3>1, <1>u, <2>1, LimSplit
    <3>2. CASE saved' = NoState
      BY <3>2, <1>u, <1>3, <2>1, LimSplit
    <3> QED BY <3>1, <3>2, <1>2
  <2>4. saved' \in StateRec /\ (saved'.iface = NoIface => saved'.rules = Unlimited)
    BY <1>2, LimParts, NoStateType
  <2> QED BY <1>u, <1>c, <2>1, <2>2, <2>3, <2>4, EndStep
<1> QED BY <1>1, <1>2 DEF SaveCleared

\* The default route changes; nothing else does.
LEMMA RouteStep ==
  ASSUME LimInv, RouteChange \/ UNCHANGED limVars
  PROVE  LimInv'
PROOF
<1>1. UNCHANGED <<saved, classes, filters, call, dirty>>
  BY DEF RouteChange, limVars
<1>2. route' \in Ifaces \cup {NoIface}
  BY LimParts DEF RouteChange, limVars
<1>3. LimTypeOK'
  BY <1>1, <1>2 DEF LimInv, LimTypeOK
<1>4. HasIface' /\ AloneOrBlurred' /\ ClassesTracked'
  BY <1>1 DEF LimInv, HasIface, AloneOrBlurred, ClassesTracked, Busy, Unlimited, NoState
<1>5. AloneTracks'
  BY <1>1 DEF LimInv, AloneTracks, Busy, Asked, Unlimited
<1> QED BY <1>3, <1>4, <1>5 DEF LimInv

\* The agent or the host ends: every call is cut off where it is.
LEMMA CrashStep ==
  ASSUME LimInv, LimCrash
  PROVE  LimInv'
PROOF
<1>u. UNCHANGED <<route, saved>> /\ call' = [c \in Callers |-> NoCall]
  BY DEF LimCrash
<1>1. call' \in [Callers -> CallRec] /\ \A b \in Callers : call'[b].pc = "idle"
  BY <1>u, NoCallType
<1>h. HasIface'
  BY <1>u, <1>1 DEF LimInv, HasIface, Unlimited
<1>p. saved.iface \in Ifaces \cup {NoIface}
  BY LimParts DEF StateRec
<1>2. CASE /\ dirty' = dirty \cup UNION {call[c].touched : c \in Callers}
           /\ UNCHANGED <<classes, filters>>
  <2>1. UNION {call[c].touched : c \in Callers} \subseteq Spots
    <3> SUFFICES ASSUME NEW c \in Callers PROVE call[c].touched \subseteq Spots
      OBVIOUS
    <3> QED BY LimParts DEF CallRec
  <2>2. dirty' \subseteq Spots
    BY <1>2, <2>1, LimParts
  <2>3. LimTypeOK'
    BY <1>2, <1>1, <1>u, <2>2, LimParts DEF LimTypeOK, StateRec, CallRec, Limited, Spots
  <2>4. ASSUME NEW i \in Ifaces, NEW ip \in Ips, <<i, ip>> \notin dirty'
        PROVE  classes'[i][ip] = Asked(saved', i, ip)
    <3>1. <<i, ip>> \notin dirty /\ \A c \in Callers : <<i, ip>> \notin call[c].touched
      BY <1>2, <2>4
    <3>2. CASE Busy = {}
      BY <1>2, <1>u, <3>1, <3>2 DEF LimInv, ClassesTracked, Asked
    <3>3. CASE Busy # {}
      <4>1. PICK c \in Callers : call[c].pc # "idle"
        BY <3>3 DEF Busy
      <4>2. call[c].alone
        BY <3>1, <4>1, LimSplit
      <4> QED BY <1>2, <1>u, <3>1, <4>1, <4>2, LimSplit
    <3> QED BY <3>2, <3>3
  <2> QED BY <1>1, <1>h, <2>3, <2>4, LimIdle
<1>3. CASE /\ classes' = [i \in Ifaces |-> Unlimited]
           /\ filters' = [i \in Ifaces |-> {}]
           /\ dirty' = Places(saved.iface)
  <2>1. classes' \in [Ifaces -> Limited] /\ filters' \in [Ifaces -> SUBSET Ips]
    BY <1>3, UnlimitedType
  <2>2. dirty' \subseteq Spots
    BY <1>3, <1>p, PlacesType
  <2>3. LimTypeOK'
    BY <2>1, <2>2, <1>1, <1>u, LimParts DEF LimTypeOK, StateRec, CallRec, Limited, Spots
  <2>4. ASSUME NEW i \in Ifaces, NEW ip \in Ips, <<i, ip>> \notin dirty'
        PROVE  classes'[i][ip] = Asked(saved', i, ip)
    <3>1. i # saved.iface
      BY <1>3, <2>4 DEF Places
    <3> QED BY <1>3, <1>u, <3>1 DEF Asked, Unlimited
  <2> QED BY <1>1, <1>h, <2>3, <2>4, LimIdle
<1> QED BY <1>2, <1>3 DEF LimCrash

LEMMA LimStable ==
  ASSUME LimInv, [LimNext]_limVars
  PROVE  LimInv'
BY RouteStep, CrashStep, ApplyPlanStep, TeardownStep, SaveStateStep, ClearStep, SaveClearedStep,
   RemoveRuleStep, ApplyRuleStep DEF LimNext

(***************************************************************************)
(* For every set of interfaces, addresses, limits and requests: between    *)
(* two requests the classes in tc are the rules of the state file that the *)
(* next ApplyPlan takes its difference from, on every interface and for    *)
(* every address that no failed, interrupted or overlapping apply has      *)
(* changed.                                                                *)
(***************************************************************************)
THEOREM ClassesStayTracked == LimSpec => []ClassesTracked
PROOF
<1>1. LimInit => LimInv
  <2> SUFFICES ASSUME LimInit PROVE LimInv
    OBVIOUS
  <2>1. call \in [Callers -> CallRec] /\ \A c \in Callers : call[c].pc = "idle"
    BY NoCallType DEF LimInit
  <2>2. Busy = {}
    BY <2>1 DEF Busy
  <2>3. /\ saved \in StateRec /\ saved.iface = NoIface /\ saved.rules = Unlimited
        /\ classes \in [Ifaces -> Limited] /\ filters \in [Ifaces -> SUBSET Ips]
        /\ dirty \subseteq Spots /\ route \in Ifaces
    BY NoStateType, UnlimitedType DEF LimInit
  <2>4. LimTypeOK
    BY <2>1, <2>3 DEF LimTypeOK, StateRec, CallRec, Limited, Spots
  <2>5. HasIface
    BY <2>1, <2>3 DEF HasIface
  <2>6. ClassesTracked
    BY <2>3, ApplierAssumption DEF LimInit, ClassesTracked, Unlimited
  <2> QED BY <2>2, <2>4, <2>5, <2>6 DEF LimInv, AloneOrBlurred, AloneTracks
<1>2. LimInv /\ [LimNext]_limVars => LimInv'
  BY LimStable
<1>3. LimInv => ClassesTracked
  BY DEF LimInv
<1> QED BY <1>1, <1>2, <1>3, PTL DEF LimSpec

-----------------------------------------------------------------------------
(* The push of plans, node by node.                                        *)

NodeOk(n) ==
    n \notin raced =>
        /\ \A u \in PolUuids : policies[<<u, n>>].status = "synced" =>
              Enforces(u, n) \/ \E p \in InFlight(n) : u \in job[<<p, n>>].listed
        /\ \A p \in Pushers : job[<<p, n>>].pc = "post" =>
              \A u \in WithPolicy(n) : job[<<p, n>>].plan[u] = NodeRules(n)[u]
        /\ \A p \in Pushers : job[<<p, n>>].pc = "mark" /\ ~job[<<p, n>>].failed =>
              \A u \in WithPolicy(n) : Enforces(u, n)

FileOk(n) == \A u \in PolUuids : <<u, n>> \notin torn => enforced[n][u] = stateFile[n][u]

LEMMA NodesOk ==
  PushInv <=> PushShape /\ JobsAwaited /\ FileTrue /\ \A n \in RNodes : NodeOk(n)
PROOF
<1>1. (\A n \in RNodes : NodeOk(n)) => SyncedOrListed /\ PlansCurrent /\ MarksTrue
  BY DEF NodeOk, SyncedOrListed, PlansCurrent, MarksTrue
<1>2. SyncedOrListed /\ PlansCurrent /\ MarksTrue => \A n \in RNodes : NodeOk(n)
  BY DEF NodeOk, SyncedOrListed, PlansCurrent, MarksTrue
<1> QED BY <1>1, <1>2 DEF PushInv

\* The rule of a policy depends on its limit.
LEMMA RuleOf ==
  ASSUME NEW u \in PolUuids, NEW n
  PROVE  NodeRules(n)[u] = Max({policies[<<u, n>>].limit, 0})
BY DEF NodeRules

LEMMA MaxOfTwo ==
  ASSUME NEW l \in Int
  PROVE  Max({l, 0}) \in Int
PROOF
<1>1. \E x \in {l, 0} : \A y \in {l, 0} : x >= y
  <2>1. CASE l >= 0
    BY <2>1
  <2>2. CASE ~(l >= 0)
    BY <2>2
  <2> QED BY <2>1, <2>2
<1>2. Max({l, 0}) \in {l, 0}
  BY <1>1 DEF Max
<1> QED BY <1>2

LEMMA RulesType ==
  ASSUME PushShape, NEW n \in RNodes
  PROVE  NodeRules(n) \in [PolUuids -> Int]
PROOF
<1>1. ASSUME NEW u \in PolUuids PROVE Max({policies[<<u, n>>].limit, 0}) \in Int
  <2>1. <<u, n>> \in Pairs
    BY DEF Pairs
  <2> QED BY <2>1, MaxOfTwo DEF PushShape, RowsAt
<1> QED BY <1>1 DEF NodeRules

\* A row that is gone or has the limit it had.
RowKept(x) ==
    \/ policies'[x] = NoPolicy
    \/ /\ policies[x] # NoPolicy
       /\ policies'[x].limit = policies[x].limit
       /\ policies'[x].status = "synced" => policies[x].status = "synced"

\* What a node relies on.
NodeFrame(n) ==
    /\ n \in raced => n \in raced'
    /\ \A u \in PolUuids : RowKept(<<u, n>>)
    /\ \A u \in PolUuids : <<u, n>> \notin torn'
          => <<u, n>> \notin torn /\ enforced'[n][u] = enforced[n][u]
    /\ \A p \in Pushers :
          /\ job'[<<p, n>>].pc = "post" => job[<<p, n>>].pc = "post" /\ job'[<<p, n>>].plan = job[<<p, n>>].plan
          /\ job'[<<p, n>>].pc = "mark" /\ ~job'[<<p, n>>].failed
                => job[<<p, n>>].pc = "mark" /\ ~job[<<p, n>>].failed
          /\ \A u \in job[<<p, n>>].listed :
                job[<<p, n>>].pc \in {"post", "mark"} =>
                    job'[<<p, n>>].pc \in {"post", "mark"} /\ u \in job'[<<p, n>>].listed

\* A policy of the next state has the rule it had.
LEMMA RuleKept ==
  ASSUME NEW u \in PolUuids, NEW n, RowKept(<<u, n>>), policies'[<<u, n>>] # NoPolicy
  PROVE  /\ policies[<<u, n>>] # NoPolicy
         /\ NodeRules(n)'[u] = NodeRules(n)[u]
         /\ policies'[<<u, n>>].status = "synced" => policies[<<u, n>>].status = "synced"
PROOF
<1>1. /\ policies[<<u, n>>] # NoPolicy
      /\ policies'[<<u, n>>].limit = policies[<<u, n>>].limit
      /\ policies'[<<u, n>>].status = "synced" => policies[<<u, n>>].status = "synced"
  BY DEF RowKept
<1>2. NodeRules(n)'[u] = Max({policies'[<<u, n>>].limit, 0})
  BY DEF NodeRules
<1> QED BY <1>1, <1>2, RuleOf

LEMMA NodeKept ==
  ASSUME NEW n \in RNodes, NodeOk(n), NodeFrame(n)
  PROVE  NodeOk(n)'
PROOF
<1> SUFFICES ASSUME n \notin raced' PROVE NodeOk(n)'
  BY DEF NodeOk
<1>n. NoPolicy' = NoPolicy /\ NoPolicy.status = "none"
  BY DEF NoPolicy
<1>r. n \notin raced
  BY DEF NodeFrame
<1>w. \A u \in WithPolicy(n)' : u \in WithPolicy(n) /\ NodeRules(n)'[u] = NodeRules(n)[u]
  BY <1>n, RuleKept DEF NodeFrame, WithPolicy
<1>e. \A u \in PolUuids : <<u, n>> \notin torn'
         => <<u, n>> \notin torn /\ enforced'[n][u] = enforced[n][u]
  BY DEF NodeFrame
<1>1. ASSUME NEW u \in PolUuids, policies'[<<u, n>>].status = "synced"
      PROVE  Enforces(u, n)' \/ \E p \in InFlight(n)' : u \in job'[<<p, n>>].listed
  <2>1. policies'[<<u, n>>] # NoPolicy
    BY <1>1, <1>n
  <2>2. policies[<<u, n>>].status = "synced" /\ NodeRules(n)'[u] = NodeRules(n)[u]
    BY <1>1, <2>1, RuleKept DEF NodeFrame
  <2>3. CASE Enforces(u, n)
    BY <2>2, <2>3, <1>e DEF Enforces
  <2>4. CASE \E p \in InFlight(n) : u \in job[<<p, n>>].listed
    BY <2>4 DEF InFlight, NodeFrame
  <2> QED BY <2>2, <2>3, <2>4, <1>r DEF NodeOk
<1>2. ASSUME NEW p \in Pushers, job'[<<p, n>>].pc = "post", NEW u \in WithPolicy(n)'
      PROVE  job'[<<p, n>>].plan[u] = NodeRules(n)'[u]
  BY <1>2, <1>r, <1>w DEF NodeFrame, NodeOk
<1>3. ASSUME NEW p \in Pushers, job'[<<p, n>>].pc = "mark", ~job'[<<p, n>>].failed, NEW u \in WithPolicy(n)'
      PROVE  Enforces(u, n)'
  BY <1>3, <1>r, <1>w, <1>e DEF NodeFrame, NodeOk, Enforces, WithPolicy
<1>4. Pushers' = Pushers
  BY DEF Pushers
<1> QED BY <1>1, <1>2, <1>3, <1>4 DEF NodeOk

-----------------------------------------------------------------------------
(* The shape of the state.                                                 *)

LEMMA RowIs ==
  ASSUME PushShape, NEW x \in Pairs
  PROVE  policies[x] \in RowsAt(policies[x].at) /\ policies[x].limit \in Int
BY DEF PushShape, RowsAt

\* One row is replaced by another.
LEMMA RowReplaced ==
  ASSUME PushShape, NEW x \in Pairs, NEW t, NEW r \in RowsAt(t),
         policies' = [policies EXCEPT ![x] = r]
  PROVE  /\ DOMAIN policies' = Pairs /\ \A y \in Pairs : policies'[y] \in RowsAt(policies'[y].at)
         /\ policies'[x] = r
         /\ \A y \in Pairs : y # x => policies'[y] = policies[y]
PROOF
<1>1. /\ DOMAIN policies' = Pairs /\ policies'[x] = r
      /\ \A y \in Pairs : y # x => policies'[y] = policies[y]
  BY DEF PushShape
<1>2. r.at = t
  BY DEF RowsAt
<1>3. \A y \in Pairs : policies'[y] \in RowsAt(policies'[y].at)
  BY <1>1, <1>2 DEF PushShape
<1> QED BY <1>1, <1>3

\* The record of a pusher is replaced by another.
LEMMA PushReplaced ==
  ASSUME PushShape, NEW p \in Pushers, NEW v, NEW r \in PushesOf(v),
         push' = [push EXCEPT ![p] = r]
  PROVE  /\ DOMAIN push' = Pushers /\ \A q \in Pushers : push'[q] \in PushesOf(push'[q].plan)
         /\ push'[p] = r
         /\ \A q \in Pushers : q # p => push'[q] = push[q]
PROOF
<1>1. /\ DOMAIN push' = Pushers /\ push'[p] = r
      /\ \A q \in Pushers : q # p => push'[q] = push[q]
  BY DEF PushShape
<1>2. r.plan = v
  BY DEF PushesOf
<1>3. \A q \in Pushers : push'[q] \in PushesOf(push'[q].plan)
  BY <1>1, <1>2 DEF PushShape
<1> QED BY <1>1, <1>3

\* What is left when the parts are known.
LEMMA ShapeNext ==
  ASSUME DOMAIN policies' = Pairs, \A x \in Pairs : policies'[x] \in RowsAt(policies'[x].at),
         DOMAIN push' = Pushers, \A p \in Pushers : push'[p] \in PushesOf(push'[p].plan),
         DOMAIN enforced' = RNodes, DOMAIN stateFile' = RNodes,
         job' \in [Pushers \X RNodes -> PushJobs]
  PROVE  PushShape'
BY DEF PushShape, RowsAt, PushesOf, Pairs, Pushers, PushJobs

\* Where only one thing changes, the frame is plain.
LEMMA SameRows ==
  ASSUME policies' = policies, NEW n \in RNodes
  PROVE  \A u \in PolUuids : RowKept(<<u, n>>)
BY DEF RowKept

LEMMA SameNode ==
  ASSUME NEW n \in RNodes, n \in raced => n \in raced', \A u \in PolUuids : RowKept(<<u, n>>),
         enforced'[n] = enforced[n], torn' = torn,
         \A p \in Pushers : job'[<<p, n>>] = job[<<p, n>>]
  PROVE  NodeFrame(n)
BY DEF NodeFrame

LEMMA InvNext ==
  ASSUME PushShape', JobsAwaited', FileTrue', \A n \in RNodes : NodeOk(n)'
  PROVE  PushInv'
BY DEF NodeOk, PushInv, SyncedOrListed, PlansCurrent, MarksTrue

-----------------------------------------------------------------------------
(* The steps of the push.                                                  *)

\* Steps of the pushers themselves.
LEMMA PushesMove ==
  ASSUME PushInv, UNCHANGED <<policies, enforced, stateFile, torn, job, raced>>,
         DOMAIN push' = Pushers, \A p \in Pushers : push'[p] \in PushesOf(push'[p].plan),
         \A p \in Pushers, n \in RNodes : push'[p].pc # "wait" => job[<<p, n>>].pc = "none"
  PROVE  PushInv'
PROOF
<1>1. PushShape'
  BY ShapeNext DEF PushInv, PushShape
<1>2. JobsAwaited'
  BY DEF JobsAwaited, Pushers
<1>3. ASSUME NEW n \in RNodes PROVE NodeOk(n)'
  BY <1>3, SameRows, SameNode, NodeKept, NodesOk
<1>4. FileTrue'
  BY DEF PushInv, FileTrue
<1> QED BY <1>1, <1>2, <1>3, <1>4, InvNext

LEMMA LoopRoundStep ==
  ASSUME PushInv, LoopRound
  PROVE  PushInv'
PROOF
<1> DEFINE r == IF limiting /\ PlanVersion # lastPlan
                THEN [pc |-> "list", plan |-> PlanVersion] ELSE NoPush
<1>1. "loop" \in Pushers
  BY DEF Pushers
<1>2. \E v : r \in PushesOf(v) /\ r.pc # "wait"
  <2>1. CASE ~(limiting /\ PlanVersion # lastPlan)
    BY <2>1 DEF NoPush, PushesOf
  <2>2. CASE limiting /\ PlanVersion # lastPlan
    <3>1. r = [pc |-> "list", plan |-> PlanVersion]
      BY <2>2
    <3> QED BY <3>1 DEF PushesOf
  <2> QED BY <2>1, <2>2
<1>3. /\ push' = [push EXCEPT !["loop"] = r] /\ push["loop"].pc = "idle"
      /\ UNCHANGED <<policies, enforced, stateFile, torn, job, raced>>
  BY DEF LoopRound, agentVars
<1> HIDE DEF r
<1>4. /\ DOMAIN push' = Pushers /\ \A q \in Pushers : push'[q] \in PushesOf(push'[q].plan)
      /\ push'["loop"] = r
      /\ \A q \in Pushers : q # "loop" => push'[q] = push[q]
  BY <1>1, <1>2, <1>3, PushReplaced DEF PushInv
<1>5. \A p \in Pushers, n \in RNodes : push'[p].pc # "wait" => job[<<p, n>>].pc = "none"
  BY <1>3, <1>4 DEF PushInv, JobsAwaited
<1> QED BY <1>3, <1>4, <1>5, PushesMove

LEMMA CallPushStep ==
  ASSUME PushInv, CallPush
  PROVE  PushInv'
PROOF
<1>1. "manual" \in Pushers
  BY DEF Pushers
<1> DEFINE r == [push["manual"] EXCEPT !.pc = "list"]
<1>2. r \in PushesOf(push["manual"].plan)
  BY <1>1 DEF PushInv, PushShape, PushesOf
<1>3. /\ push' = [push EXCEPT !["manual"] = r] /\ push["manual"].pc = "idle"
      /\ UNCHANGED <<policies, enforced, stateFile, torn, job, raced>>
  BY DEF CallPush, agentVars
<1> HIDE DEF r
<1>4. /\ DOMAIN push' = Pushers /\ \A q \in Pushers : push'[q] \in PushesOf(push'[q].plan)
      /\ push'["manual"] = r
      /\ \A q \in Pushers : q # "manual" => push'[q] = push[q]
  BY <1>1, <1>2, <1>3, PushReplaced DEF PushInv
<1>5. \A p \in Pushers, n \in RNodes : push'[p].pc # "wait" => job[<<p, n>>].pc = "none"
  BY <1>3, <1>4 DEF PushInv, JobsAwaited
<1> QED BY <1>3, <1>4, <1>5, PushesMove

LEMMA EndPushStep ==
  ASSUME PushInv, NEW p \in Pushers, EndPush(p)
  PROVE  PushInv'
PROOF
<1>1. NoPush \in PushesOf(NoPush.plan) /\ NoPushJob.pc = "none"
  BY DEF NoPush, PushesOf, NoPushJob
<1>3. /\ push' = [push EXCEPT ![p] = NoPush]
      /\ \A n \in RNodes : job[<<p, n>>] = NoPushJob
      /\ UNCHANGED <<policies, enforced, stateFile, torn, job, raced>>
  BY DEF EndPush, agentVars
<1>4. /\ DOMAIN push' = Pushers /\ \A q \in Pushers : push'[q] \in PushesOf(push'[q].plan)
      /\ \A q \in Pushers : q # p => push'[q] = push[q]
  BY <1>1, <1>3, PushReplaced DEF PushInv
<1>5. \A q \in Pushers, n \in RNodes : push'[q].pc # "wait" => job[<<q, n>>].pc = "none"
  BY <1>1, <1>3, <1>4 DEF PushInv, JobsAwaited
<1> QED BY <1>3, <1>4, <1>5, PushesMove

LEMMA ToggleStep ==
  ASSUME PushInv, UNCHANGED <<policies, enforced, stateFile, torn, job, raced, push>>
  PROVE  PushInv'
BY PushesMove DEF PushInv, PushShape, JobsAwaited

\* The host restarts: the rules that go are torn.
LEMMA RestartStep ==
  ASSUME PushInv, NEW m \in RNodes, HostRestart(m)
  PROVE  PushInv'
PROOF
<1>1. /\ UNCHANGED <<policies, stateFile, push, job, raced>>
      /\ enforced' = [enforced EXCEPT ![m] = NoRules]
      /\ torn' = torn \cup {x \in PolUuids \X {m} : stateFile[m][x[1]] # 0}
  BY DEF HostRestart
<1>2. DOMAIN enforced' = RNodes /\ \A n \in RNodes : enforced'[n] = IF n = m THEN NoRules ELSE enforced[n]
  BY <1>1 DEF PushInv, PushShape
<1>3. PushShape'
  BY <1>1, <1>2, ShapeNext DEF PushInv, PushShape
<1>4. JobsAwaited'
  BY <1>1 DEF PushInv, JobsAwaited, Pushers
<1>5. ASSUME NEW n \in RNodes, NEW u \in PolUuids, <<u, n>> \notin torn'
      PROVE  <<u, n>> \notin torn /\ enforced'[n][u] = enforced[n][u]
  <2>1. <<u, n>> \notin torn /\ enforced[n][u] = stateFile[n][u]
    BY <1>1, <1>5 DEF PushInv, FileTrue
  <2>2. CASE n # m
    BY <1>2, <2>1, <2>2
  <2>3. CASE n = m
    <3>1. stateFile[m][u] = 0
      <4>1. <<u, m>> \in PolUuids \X {m} /\ <<u, m>>[1] = u
        OBVIOUS
      <4> QED BY <4>1, <1>1, <1>5, <2>3
    <3>2. enforced'[n][u] = 0
      BY <1>2, <2>3 DEF NoRules
    <3> QED BY <2>1, <2>3, <3>1, <3>2
  <2> QED BY <2>2, <2>3
<1>6. FileTrue'
  BY <1>1, <1>5 DEF PushInv, FileTrue
<1>7. ASSUME NEW n \in RNodes PROVE NodeOk(n)'
  <2>1. NodeFrame(n)
    BY <1>1, <1>5, SameRows DEF NodeFrame
  <2> QED BY <2>1, NodeKept, NodesOk
<1> QED BY <1>3, <1>4, <1>6, <1>7, InvNext

\* The clock renumbers the times.
LEMMA TickStep ==
  ASSUME PushInv, Tick
  PROVE  PushInv'
PROOF
<1>1. /\ policies' = [x \in Pairs |-> [policies[x] EXCEPT !.at = Renumber(@)]]
      /\ push' = [p \in Pushers |-> [push[p] EXCEPT !.plan = Renumber(@)]]
      /\ UNCHANGED <<enforced, stateFile, torn, job, raced>>
  BY DEF Tick, agentVars
<1>2. ASSUME NEW x \in Pairs
      PROVE  /\ policies'[x] \in RowsAt(policies'[x].at)
             /\ policies'[x].limit = policies[x].limit /\ policies'[x].status = policies[x].status
             /\ policies[x] = NoPolicy => policies'[x] = NoPolicy
  <2> DEFINE v == Renumber(policies[x].at)
             r == [policies[x] EXCEPT !.at = v]
  <2>1. policies'[x] = r
    BY <1>1
  <2>2. policies[x] = NoPolicy => v = policies[x].at
    BY DEF Renumber, NoPolicy
  <2> HIDE DEF v
  <2>3. policies[x] \in RowsAt(policies[x].at)
    BY RowIs DEF PushInv
  <2>4. r \in RowsAt(v) /\ r.at = v /\ r.limit = policies[x].limit /\ r.status = policies[x].status
    BY <2>3 DEF RowsAt
  <2>5. v = policies[x].at => r = policies[x]
    BY <2>3 DEF RowsAt
  <2> HIDE DEF r
  <2> QED BY <2>1, <2>2, <2>4, <2>5
<1>3. ASSUME NEW p \in Pushers
      PROVE  push'[p] \in PushesOf(push'[p].plan) /\ push'[p].pc = push[p].pc
  <2> DEFINE v == Renumber(push[p].plan)
             r == [push[p] EXCEPT !.plan = v]
  <2>1. push'[p] = r
    BY <1>1
  <2> HIDE DEF v
  <2>2. r \in PushesOf(v) /\ r.plan = v /\ r.pc = push[p].pc
    BY DEF PushInv, PushShape, PushesOf
  <2> HIDE DEF r
  <2> QED BY <2>1, <2>2
<1>4. DOMAIN policies' = Pairs /\ DOMAIN push' = Pushers
  BY <1>1
<1>5. PushShape'
  BY <1>1, <1>2, <1>3, <1>4, ShapeNext DEF PushInv, PushShape
<1>6. JobsAwaited'
  BY <1>1, <1>3 DEF PushInv, JobsAwaited, Pushers
<1>7. ASSUME NEW n \in RNodes PROVE NodeOk(n)'
  <2>1. \A u \in PolUuids : RowKept(<<u, n>>)
    BY <1>2 DEF RowKept, Pairs
  <2> QED BY <1>1, <2>1, SameNode, NodeKept, NodesOk
<1>8. FileTrue'
  BY <1>1 DEF PushInv, FileTrue
<1> QED BY <1>5, <1>6, <1>7, <1>8, InvNext

\* One row changes; the other nodes do not notice.
LEMMA EditStep ==
  ASSUME PushInv, NEW v \in PolUuids, NEW m \in RNodes, NEW t, NEW r \in RowsAt(t),
         policies' = [policies EXCEPT ![<<v, m>>] = r],
         UNCHANGED <<enforced, stateFile, torn, push, job>>, raced \subseteq raced', NodeOk(m)'
  PROVE  PushInv'
PROOF
<1>1. <<v, m>> \in Pairs
  BY DEF Pairs
<1>2. /\ DOMAIN policies' = Pairs /\ \A y \in Pairs : policies'[y] \in RowsAt(policies'[y].at)
      /\ \A y \in Pairs : y # <<v, m>> => policies'[y] = policies[y]
  BY <1>1, RowReplaced DEF PushInv
<1>3. PushShape'
  BY <1>2, ShapeNext DEF PushInv, PushShape
<1>4. JobsAwaited'
  BY DEF PushInv, JobsAwaited, Pushers
<1>5. ASSUME NEW n \in RNodes PROVE NodeOk(n)'
  <2>1. CASE n = m
    BY <2>1
  <2>2. CASE n # m
    <3>1. ASSUME NEW u \in PolUuids PROVE RowKept(<<u, n>>)
      <4>1. <<u, n>> \in Pairs /\ <<u, n>> # <<v, m>>
        BY <2>2 DEF Pairs
      <4> QED BY <4>1, <1>2 DEF RowKept
    <3> QED BY <3>1, SameNode, NodeKept, NodesOk
  <2> QED BY <2>1, <2>2
<1>6. FileTrue'
  BY DEF PushInv, FileTrue
<1> QED BY <1>3, <1>4, <1>5, <1>6, InvNext

\* A row that keeps its limit and is not newly synced.
LEMMA RowEdit ==
  ASSUME PushInv, NEW v \in PolUuids, NEW m \in RNodes, NEW t, NEW r \in RowsAt(t),
         policies' = [policies EXCEPT ![<<v, m>>] = r],
         \/ r = NoPolicy
         \/ /\ policies[<<v, m>>] # NoPolicy /\ r.limit = policies[<<v, m>>].limit
            /\ r.status = "synced" => policies[<<v, m>>].status = "synced"
  PROVE  \A u \in PolUuids : RowKept(<<u, m>>)
PROOF
<1>1. <<v, m>> \in Pairs
  BY DEF Pairs
<1>2. policies'[<<v, m>>] = r /\ \A y \in Pairs : y # <<v, m>> => policies'[y] = policies[y]
  BY <1>1, RowReplaced DEF PushInv
<1>3. ASSUME NEW u \in PolUuids PROVE RowKept(<<u, m>>)
  <2>1. CASE u = v
    BY <2>1, <1>2 DEF RowKept
  <2>2. CASE u # v
    <3>1. <<u, m>> \in Pairs /\ <<u, m>> # <<v, m>>
      BY <2>2 DEF Pairs
    <3> QED BY <3>1, <1>2 DEF RowKept
  <2> QED BY <2>1, <2>2
<1> QED BY <1>3

LEMMA UpsertStep ==
  ASSUME PushInv, NEW v \in PolUuids, NEW m \in RNodes, UpsertPolicy(v, m)
  PROVE  PushInv'
PROOF
<1>1. PICK l \in Limits : policies' = [policies EXCEPT ![<<v, m>>] = PendingRow(l)]
  BY DEF UpsertPolicy
<1>2. l \in Int
  BY PushAssumption
<1> DEFINE r == PendingRow(l)
<1>3. r \in RowsAt(now) /\ r.status = "pending"
  BY <1>2 DEF PendingRow, RowsAt
<1>4. policies' = [policies EXCEPT ![<<v, m>>] = r]
  BY <1>1
<1> HIDE DEF r
<1>5. UNCHANGED <<enforced, stateFile, torn, push, job>> /\ raced' = IF InFlight(m) = {} THEN raced ELSE raced \cup {m}
  BY DEF UpsertPolicy, Edit, agentVars
<1>6. <<v, m>> \in Pairs
  BY DEF Pairs
<1>7. policies'[<<v, m>>] = r /\ \A y \in Pairs : y # <<v, m>> => policies'[y] = policies[y]
  BY <1>3, <1>4, <1>6, RowReplaced DEF PushInv
<1>8. CASE InFlight(m) # {}
  BY <1>3, <1>4, <1>5, <1>8, EditStep DEF NodeOk
<1>9. CASE InFlight(m) = {}
  <2>1. raced' = raced /\ \A p \in Pushers : job[<<p, m>>].pc \notin {"post", "mark"}
    BY <1>5, <1>9 DEF InFlight
  <2>2. ASSUME m \notin raced, NEW u \in PolUuids, policies'[<<u, m>>].status = "synced"
        PROVE  Enforces(u, m)'
    <3>1. u # v
      BY <2>2, <1>3, <1>7
    <3>2. <<u, m>> \in Pairs /\ <<u, m>> # <<v, m>>
      BY <3>1 DEF Pairs
    <3>3. policies'[<<u, m>>] = policies[<<u, m>>]
      BY <3>2, <1>7
    <3>4. Enforces(u, m)
      BY <2>2, <3>3, <1>9, NodesOk DEF NodeOk
    <3> QED BY <3>3, <3>4, <1>5 DEF Enforces, NodeRules
  <2>3. NodeOk(m)'
    BY <2>1, <2>2, <1>5 DEF NodeOk, Pushers
  <2> QED BY <1>3, <1>4, <1>5, <2>1, <2>3, EditStep
<1> QED BY <1>8, <1>9

LEMMA DeleteStep ==
  ASSUME PushInv, NEW v \in PolUuids, NEW m \in RNodes, DeletePolicy(v, m) \/ DetachProfile(v, m)
  PROVE  PushInv'
PROOF
<1>u. UNCHANGED <<enforced, stateFile, torn, push, job, raced>>
  BY DEF DeletePolicy, DetachProfile, Edit, agentVars
<1>1. \E t : \E r \in RowsAt(t) :
         /\ policies' = [policies EXCEPT ![<<v, m>>] = r]
         /\ \/ r = NoPolicy
            \/ /\ policies[<<v, m>>] # NoPolicy /\ r.limit = policies[<<v, m>>].limit
               /\ r.status = "synced" => policies[<<v, m>>].status = "synced"
  <2>1. CASE DeletePolicy(v, m)
    <3>1. NoPolicy \in RowsAt(0)
      BY DEF NoPolicy, RowsAt
    <3> QED BY <2>1, <3>1 DEF DeletePolicy
  <2>2. CASE DetachProfile(v, m)
    <3> DEFINE r == [policies[<<v, m>>] EXCEPT !.at = now]
    <3>1. policies[<<v, m>>] \in RowsAt(policies[<<v, m>>].at)
      BY RowIs DEF PushInv, Pairs
    <3>2. r \in RowsAt(now) /\ r.limit = policies[<<v, m>>].limit /\ r.status = policies[<<v, m>>].status
      BY <3>1 DEF RowsAt
    <3>3. policies' = [policies EXCEPT ![<<v, m>>] = r] /\ policies[<<v, m>>] # NoPolicy
      BY <2>2 DEF DetachProfile
    <3> HIDE DEF r
    <3> QED BY <3>2, <3>3
  <2> QED BY <2>1, <2>2
<1>2. PICK t : \E r \in RowsAt(t) :
         /\ policies' = [policies EXCEPT ![<<v, m>>] = r]
         /\ \/ r = NoPolicy
            \/ /\ policies[<<v, m>>] # NoPolicy /\ r.limit = policies[<<v, m>>].limit
               /\ r.status = "synced" => policies[<<v, m>>].status = "synced"
  BY <1>1
<1>3. PICK r \in RowsAt(t) :
         /\ policies' = [policies EXCEPT ![<<v, m>>] = r]
         /\ \/ r = NoPolicy
            \/ /\ policies[<<v, m>>] # NoPolicy /\ r.limit = policies[<<v, m>>].limit
               /\ r.status = "synced" => policies[<<v, m>>].status = "synced"
  BY <1>2
<1>4. \A u \in PolUuids : RowKept(<<u, m>>)
  BY <1>3, RowEdit
<1>5. NodeOk(m)'
  BY <1>4, <1>u, SameNode, NodeKept, NodesOk
<1> QED BY <1>3, <1>5, <1>u, EditStep

-----------------------------------------------------------------------------
(* The steps of a goroutine.                                               *)

LEMMA JobReplaced ==
  ASSUME PushShape, NEW p \in Pushers, NEW m \in RNodes, NEW j \in PushJobs,
         job' = [job EXCEPT ![<<p, m>>] = j]
  PROVE  /\ job' \in [Pushers \X RNodes -> PushJobs] /\ job'[<<p, m>>] = j
         /\ \A q \in Pushers : q # p => job'[<<q, m>>] = job[<<q, m>>]
         /\ \A q \in Pushers, n \in RNodes : n # m => job'[<<q, n>>] = job[<<q, n>>]
BY DEF PushShape

\* The agent of a node does nothing.
NodeSame(n) ==
    /\ enforced'[n] = enforced[n] /\ stateFile'[n] = stateFile[n]
    /\ \A u \in PolUuids : <<u, n>> \in torn' <=> <<u, n>> \in torn

\* The other nodes do not notice.
LEMMA JobStep ==
  ASSUME PushInv, NEW p \in Pushers, NEW m \in RNodes, NEW j \in PushJobs,
         job[<<p, m>>].pc # "none", job' = [job EXCEPT ![<<p, m>>] = j], push' = push,
         DOMAIN policies' = Pairs, \A y \in Pairs : policies'[y] \in RowsAt(policies'[y].at),
         \A u \in PolUuids, n \in RNodes : n # m => policies'[<<u, n>>] = policies[<<u, n>>],
         DOMAIN enforced' = RNodes, DOMAIN stateFile' = RNodes,
         \A n \in RNodes : n # m => NodeSame(n),
         \A n \in RNodes : n # m => (n \in raced => n \in raced'),
         NodeOk(m)', FileOk(m)'
  PROVE  PushInv'
PROOF
<1>1. /\ job' \in [Pushers \X RNodes -> PushJobs] /\ job'[<<p, m>>] = j
      /\ \A q \in Pushers : q # p => job'[<<q, m>>] = job[<<q, m>>]
      /\ \A q \in Pushers, n \in RNodes : n # m => job'[<<q, n>>] = job[<<q, n>>]
  BY JobReplaced DEF PushInv
<1>2. PushShape'
  BY <1>1, ShapeNext DEF PushInv, PushShape
<1>3. \A q \in Pushers, n \in RNodes : push'[q].pc # "wait" => job'[<<q, n>>].pc = "none"
  <2>1. push[p].pc = "wait"
    BY DEF PushInv, JobsAwaited
  <2> SUFFICES ASSUME NEW q \in Pushers, NEW n \in RNodes, push[q].pc # "wait"
               PROVE  job'[<<q, n>>].pc = "none"
    OBVIOUS
  <2>2. q # p
    BY <2>1
  <2>3. job'[<<q, n>>] = job[<<q, n>>]
    BY <2>2, <1>1
  <2> QED BY <2>3 DEF PushInv, JobsAwaited
<1>4. JobsAwaited'
  BY <1>3 DEF JobsAwaited, Pushers
<1>5. ASSUME NEW n \in RNodes PROVE NodeOk(n)'
  <2>1. CASE n = m
    BY <2>1
  <2>2. CASE n # m
    <3>1. \A u \in PolUuids : RowKept(<<u, n>>)
      BY <2>2 DEF RowKept
    <3>2. NodeFrame(n)
      BY <3>1, <2>2, <1>1 DEF NodeFrame, NodeSame
    <3> QED BY <3>2, NodeKept, NodesOk
  <2> QED BY <2>1, <2>2
<1>6. ASSUME NEW n \in RNodes PROVE FileOk(n)'
  <2>1. CASE n = m
    BY <2>1
  <2>2. CASE n # m
    BY <2>2 DEF PushInv, FileTrue, FileOk, NodeSame
  <2> QED BY <2>1, <2>2
<1>7. FileTrue'
  BY <1>6 DEF FileTrue, FileOk
<1> QED BY <1>2, <1>4, <1>5, <1>7, InvNext

\* The agents do nothing.
LEMMA AgentsSame ==
  ASSUME PushInv, UNCHANGED <<enforced, stateFile, torn>>, NEW m \in RNodes
  PROVE  /\ DOMAIN enforced' = RNodes /\ DOMAIN stateFile' = RNodes
         /\ \A n \in RNodes : n # m => NodeSame(n)
         /\ FileOk(m)'
BY DEF PushInv, PushShape, NodeSame, FileTrue, FileOk


LEMMA EndJobStep ==
  ASSUME PushInv, NEW p \in Pushers, NEW m \in RNodes, EndJob(p, m)
  PROVE  PushInv'
PROOF
<1>1. NoPushJob \in PushJobs /\ NoPushJob.pc = "none"
  BY DEF NoPushJob, NoRules, PushJobs
<1>2. /\ job[<<p, m>>].pc = "mark" /\ job[<<p, m>>].listed = {}
      /\ job' = [job EXCEPT ![<<p, m>>] = NoPushJob]
      /\ UNCHANGED <<policies, enforced, stateFile, torn, push, raced>>
  BY DEF EndJob, agentVars
<1>3. /\ job'[<<p, m>>] = NoPushJob
      /\ \A q \in Pushers : q # p => job'[<<q, m>>] = job[<<q, m>>]
  BY <1>1, <1>2, JobReplaced DEF PushInv
<1>4. NodeFrame(m)
  BY <1>1, <1>2, <1>3, SameRows DEF NodeFrame
<1>5. NodeOk(m)'
  BY <1>4, NodeKept, NodesOk
<1> QED BY <1>1, <1>2, <1>5, AgentsSame, JobStep DEF PushInv, PushShape

\* A new goroutine has nothing to answer for.
LEMMA ListStep ==
  ASSUME PushInv, NEW p \in Pushers, List(p)
  PROVE  PushInv'
PROOF
<1> DEFINE new(n) == [NoPushJob EXCEPT !.pc = "build", !.listed = WithPolicy(n)]
           r == [push[p] EXCEPT !.pc = "wait"]
<1>1. ASSUME NEW n \in RNodes PROVE new(n) \in PushJobs /\ new(n).pc = "build"
  <2>1. NoPushJob \in PushJobs
    BY DEF NoPushJob, NoRules, PushJobs
  <2>2. WithPolicy(n) \in SUBSET PolUuids
    BY DEF WithPolicy
  <2> QED BY <2>1, <2>2 DEF PushJobs
<1>2. /\ push[p].pc = "list" /\ push' = [push EXCEPT ![p] = r]
      /\ UNCHANGED <<policies, enforced, stateFile, torn, raced>>
  BY DEF List, agentVars
<1>3. /\ DOMAIN job' = Pushers \X RNodes
      /\ \A q \in Pushers, n \in RNodes :
            job'[<<q, n>>] = IF q = p /\ nodeOn[n] THEN new(n) ELSE job[<<q, n>>]
  BY DEF List, agentVars
<1>4. r \in PushesOf(push[p].plan) /\ r.pc = "wait"
  BY DEF PushInv, PushShape, PushesOf
<1> HIDE DEF new, r
<1>5. /\ DOMAIN push' = Pushers /\ \A q \in Pushers : push'[q] \in PushesOf(push'[q].plan)
      /\ push'[p] = r
      /\ \A q \in Pushers : q # p => push'[q] = push[q]
  BY <1>2, <1>4, PushReplaced DEF PushInv
<1>6. \A q \in Pushers, n \in RNodes : job'[<<q, n>>] \in PushJobs
  BY <1>1, <1>3 DEF PushInv, PushShape
<1>7. \A x \in Pushers \X RNodes : job'[x] \in PushJobs
  <2> SUFFICES ASSUME NEW x \in Pushers \X RNodes PROVE job'[x] \in PushJobs
    OBVIOUS
  <2>1. PICK q \in Pushers, n \in RNodes : x = <<q, n>>
    OBVIOUS
  <2> QED BY <2>1, <1>6
<1>8. job' \in [Pushers \X RNodes -> PushJobs]
  <2>1. job' = [x \in Pushers \X RNodes |->
                 IF x[1] = p /\ nodeOn[x[2]]
                 THEN [NoPushJob EXCEPT !.pc = "build", !.listed = WithPolicy(x[2])]
                 ELSE job[x]]
    BY DEF List, agentVars
  <2> QED BY <2>1, <1>7
<1>9. PushShape'
  BY <1>2, <1>5, <1>8, ShapeNext DEF PushInv, PushShape
<1>10. JobsAwaited'
  BY <1>3, <1>4, <1>5 DEF PushInv, JobsAwaited, Pushers
<1>11. ASSUME NEW n \in RNodes PROVE NodeOk(n)'
  <2>1. job[<<p, n>>].pc = "none"
    BY <1>2 DEF PushInv, JobsAwaited
  <2>2. /\ job'[<<p, n>>].pc \in {"none", "build"}
        /\ \A q \in Pushers : q # p => job'[<<q, n>>] = job[<<q, n>>]
    BY <2>1, <1>1, <1>3
  <2>3. NodeFrame(n)
    BY <2>1, <2>2, <1>2, SameRows DEF NodeFrame
  <2> QED BY <2>3, NodeKept, NodesOk
<1>12. FileTrue'
  BY <1>2 DEF PushInv, FileTrue
<1> QED BY <1>9, <1>10, <1>11, <1>12, InvNext

LEMMA BuildStep ==
  ASSUME PushInv, NEW p \in Pushers, NEW m \in RNodes, Build(p, m)
  PROVE  PushInv'
PROOF
<1>t. job[<<p, m>>] \in PushJobs
  BY DEF PushInv, PushShape
<1>u. job[<<p, m>>].pc = "build" /\ UNCHANGED <<policies, enforced, stateFile, torn, push>>
  BY DEF Build, agentVars
<1>s. /\ DOMAIN policies' = Pairs /\ \A y \in Pairs : policies'[y] \in RowsAt(policies'[y].at)
      /\ \A u \in PolUuids, n \in RNodes : n # m => policies'[<<u, n>>] = policies[<<u, n>>]
      /\ DOMAIN enforced' = RNodes /\ DOMAIN stateFile' = RNodes
      /\ \A n \in RNodes : n # m => NodeSame(n)
      /\ FileOk(m)'
  BY <1>u, AgentsSame DEF PushInv, PushShape
<1>o. NodeOk(m)
  BY NodesOk
<1>1. ASSUME ~nodeOn[m], raced' = raced,
             job' = [job EXCEPT ![<<p, m>>].pc = "mark", ![<<p, m>>].failed = TRUE]
      PROVE  PushInv'
  <2> DEFINE j == [job[<<p, m>>] EXCEPT !.pc = "mark", !.failed = TRUE]
  <2>1. j \in PushJobs /\ j.pc = "mark" /\ j.failed
    BY <1>t DEF PushJobs
  <2>2. job' = [job EXCEPT ![<<p, m>>] = j]
    BY <1>1 DEF PushInv, PushShape
  <2> HIDE DEF j
  <2>3. /\ job'[<<p, m>>] = j
        /\ \A q \in Pushers : q # p => job'[<<q, m>>] = job[<<q, m>>]
    BY <2>1, <2>2, JobReplaced DEF PushInv
  <2>4. NodeFrame(m)
    BY <2>1, <2>3, <1>u, <1>1, SameRows DEF NodeFrame
  <2>5. NodeOk(m)'
    BY <2>4, <1>o, NodeKept
  <2> QED BY <2>1, <2>2, <2>5, <1>u, <1>s, <1>1, JobStep
<1>2. ASSUME job' = [job EXCEPT ![<<p, m>>].pc = "post", ![<<p, m>>].plan = NodeRules(m)],
             raced' = IF InFlight(m) # {} THEN raced \cup {m}
                      ELSE IF job[<<p, m>>].listed = WithPolicy(m) THEN raced \ {m} ELSE raced
      PROVE  PushInv'
  <2> DEFINE j == [job[<<p, m>>] EXCEPT !.pc = "post", !.plan = NodeRules(m)]
  <2>1. j \in PushJobs /\ j.pc = "post" /\ j.plan = NodeRules(m) /\ j.listed = job[<<p, m>>].listed
    BY <1>t, RulesType DEF PushJobs, PushInv
  <2>2. job' = [job EXCEPT ![<<p, m>>] = j]
    BY <1>2 DEF PushInv, PushShape
  <2> HIDE DEF j
  <2>3. /\ job'[<<p, m>>] = j
        /\ \A q \in Pushers : q # p => job'[<<q, m>>] = job[<<q, m>>]
    BY <2>1, <2>2, JobReplaced DEF PushInv
  <2>4. ASSUME m \notin raced' PROVE NodeOk(m)'
    <3>1. InFlight(m) = {} /\ (m \notin raced \/ job[<<p, m>>].listed = WithPolicy(m))
      BY <2>4, <1>2
    <3>2. \A q \in Pushers : q # p => job'[<<q, m>>].pc \notin {"post", "mark"}
      BY <3>1, <2>3 DEF InFlight
    <3>3. NodeRules(m)' = NodeRules(m) /\ WithPolicy(m)' = WithPolicy(m) /\ p \in InFlight(m)'
      BY <1>u, <2>1, <2>3 DEF NodeRules, WithPolicy, InFlight, NoPolicy
    <3>4. ASSUME NEW u \in PolUuids, policies'[<<u, m>>].status = "synced"
          PROVE  Enforces(u, m)' \/ \E q \in InFlight(m)' : u \in job'[<<q, m>>].listed
      <4>1. CASE m \notin raced
        <5>1. Enforces(u, m)
          BY <3>1, <3>4, <4>1, <1>u, <1>o DEF NodeOk
        <5> QED BY <5>1, <1>u, <3>3 DEF Enforces
      <4>2. CASE job[<<p, m>>].listed = WithPolicy(m)
        <5>1. u \in WithPolicy(m)
          BY <3>4, <1>u DEF WithPolicy, NoPolicy
        <5> QED BY <5>1, <4>2, <3>3, <2>1, <2>3
      <4> QED BY <3>1, <4>1, <4>2
    <3>5. ASSUME NEW q \in Pushers, job'[<<q, m>>].pc = "post"
          PROVE  \A u \in WithPolicy(m)' : job'[<<q, m>>].plan[u] = NodeRules(m)'[u]
      BY <3>2, <3>3, <3>5, <2>1, <2>3
    <3>6. ASSUME NEW q \in Pushers PROVE job'[<<q, m>>].pc # "mark"
      BY <3>2, <2>1, <2>3
    <3> QED BY <3>4, <3>5, <3>6 DEF NodeOk, Pushers
  <2>5. NodeOk(m)'
    BY <2>4 DEF NodeOk
  <2>6. \A n \in RNodes : n # m => (n \in raced => n \in raced')
    BY <1>2
  <2> QED BY <2>1, <2>2, <2>5, <2>6, <1>u, <1>s, JobStep
<1>3. ASSUME job' = [job EXCEPT ![<<p, m>>].pc = "post"], raced' = raced \cup {m}
      PROVE  PushInv'
  <2> DEFINE j == [job[<<p, m>>] EXCEPT !.pc = "post"]
  <2>1. j \in PushJobs
    BY <1>t DEF PushJobs
  <2>2. job' = [job EXCEPT ![<<p, m>>] = j]
    BY <1>3 DEF PushInv, PushShape
  <2> HIDE DEF j
  <2>3. NodeOk(m)'
    BY <1>3 DEF NodeOk
  <2>4. \A n \in RNodes : n # m => (n \in raced => n \in raced')
    BY <1>3
  <2> QED BY <2>1, <2>2, <2>3, <2>4, <1>u, <1>s, JobStep
<1> QED BY <1>1, <1>2, <1>3 DEF Build

\* What a request to the agent of a node does, whatever its outcome: but for the
\* torn ones, tc has the rules of the file, and a rule that changes is the one of
\* the plan; if the request is answered ok all are those of the plan.
AgentMoved(m, plan, ok) ==
    /\ DOMAIN enforced' = RNodes /\ DOMAIN stateFile' = RNodes
    /\ \A n \in RNodes : n # m => NodeSame(n)
    /\ \A u \in PolUuids : <<u, m>> \notin torn' =>
          /\ enforced'[m][u] = stateFile'[m][u]
          /\ \/ enforced'[m][u] = plan[u]
             \/ <<u, m>> \notin torn /\ enforced'[m][u] = enforced[m][u]
          /\ ok => enforced'[m][u] = plan[u]

LEMMA AgentHasFacts ==
  ASSUME PushInv, NEW m \in RNodes, NEW plan, NEW us, NEW file, AgentHas(m, plan, us, file)
  PROVE  /\ DOMAIN enforced' = RNodes /\ DOMAIN stateFile' = RNodes
         /\ \A n \in RNodes : n # m => enforced'[n] = enforced[n] /\ stateFile'[n] = stateFile[n]
         /\ stateFile'[m] = file
         /\ \A u \in PolUuids : enforced'[m][u] = IF u \in us THEN plan[u] ELSE enforced[m][u]
PROOF
<1> DEFINE e == [u \in PolUuids |-> IF u \in us THEN plan[u] ELSE enforced[m][u]]
<1>1. enforced' = [enforced EXCEPT ![m] = e] /\ stateFile' = [stateFile EXCEPT ![m] = file]
  BY DEF AgentHas
<1>2. \A u \in PolUuids : e[u] = IF u \in us THEN plan[u] ELSE enforced[m][u]
  OBVIOUS
<1> HIDE DEF e
<1> QED BY <1>1, <1>2 DEF PushInv, PushShape

\* The rules of us are set, those of out become torn, the others stay.
LEMMA AgentSaves ==
  ASSUME PushInv, NEW m \in RNodes, NEW plan, NEW out \in SUBSET PolUuids,
         AgentHas(m, plan, ToChange(plan, m) \ out, plan),
         torn' = (torn \ (ToChange(plan, m) \X {m})) \cup (out \X {m}), NEW ok
  PROVE  AgentMoved(m, plan, ok)
PROOF
<1> DEFINE us == ToChange(plan, m) \ out
<1>1. /\ DOMAIN enforced' = RNodes /\ DOMAIN stateFile' = RNodes
      /\ \A n \in RNodes : n # m => enforced'[n] = enforced[n] /\ stateFile'[n] = stateFile[n]
      /\ stateFile'[m] = plan
      /\ \A u \in PolUuids : enforced'[m][u] = IF u \in us THEN plan[u] ELSE enforced[m][u]
  <2>1. AgentHas(m, plan, us, plan)
    OBVIOUS
  <2> HIDE DEF us
  <2> QED BY <2>1, AgentHasFacts
<1>2. \A n \in RNodes : n # m => NodeSame(n)
  BY <1>1 DEF NodeSame
<1>3. ASSUME NEW u \in PolUuids, <<u, m>> \notin torn'
      PROVE  enforced'[m][u] = plan[u]
  <2>1. u \notin out
    BY <1>3
  <2>2. CASE u \in ToChange(plan, m)
    BY <1>1, <2>1, <2>2
  <2>3. CASE u \notin ToChange(plan, m)
    <3>1. <<u, m>> \notin torn
      BY <1>3, <2>3
    <3>2. enforced[m][u] = stateFile[m][u]
      BY <3>1 DEF PushInv, FileTrue
    <3>3. plan[u] = stateFile[m][u]
      BY <2>3 DEF ToChange
    <3> QED BY <1>1, <2>3, <3>2, <3>3
  <2> QED BY <2>2, <2>3
<1> QED BY <1>1, <1>2, <1>3 DEF AgentMoved

LEMMA AgentFails ==
  ASSUME PushInv, NEW m \in RNodes, NEW plan, ApplyFails(m, plan)
  PROVE  AgentMoved(m, plan, FALSE)
PROOF
<1>1. PICK us \in SUBSET ToChange(plan, m) :
         \/ /\ AgentHas(m, plan, us, stateFile[m])
            /\ torn' = torn \cup (us \X {m})
         \/ /\ us = ToChange(plan, m)
            /\ AgentHas(m, plan, us, NoRules)
            /\ torn' = torn \cup (PolUuids \X {m})
         \/ /\ us = ToChange(plan, m)
            /\ AgentHas(m, plan, us, plan)
            /\ torn' = torn \ (us \X {m})
  BY DEF ApplyFails
<1>2. CASE AgentHas(m, plan, us, stateFile[m]) /\ torn' = torn \cup (us \X {m})
  <2> DEFINE file == stateFile[m]
  <2>1. /\ DOMAIN enforced' = RNodes /\ DOMAIN stateFile' = RNodes
        /\ \A n \in RNodes : n # m => enforced'[n] = enforced[n] /\ stateFile'[n] = stateFile[n]
        /\ stateFile'[m] = file
        /\ \A u \in PolUuids : enforced'[m][u] = IF u \in us THEN plan[u] ELSE enforced[m][u]
    <3>1. AgentHas(m, plan, us, file)
      BY <1>2
    <3> HIDE DEF file
    <3> QED BY <3>1, AgentHasFacts
  <2>2. \A n \in RNodes : n # m => NodeSame(n)
    BY <1>2, <2>1 DEF NodeSame
  <2>3. ASSUME NEW u \in PolUuids, <<u, m>> \notin torn'
        PROVE  /\ <<u, m>> \notin torn /\ enforced'[m][u] = enforced[m][u]
               /\ enforced'[m][u] = stateFile'[m][u]
    <3>1. <<u, m>> \notin torn /\ u \notin us
      BY <1>2, <2>3
    <3>2. enforced[m][u] = stateFile[m][u]
      BY <3>1 DEF PushInv, FileTrue
    <3> QED BY <2>1, <3>1, <3>2
  <2> QED BY <2>1, <2>2, <2>3 DEF AgentMoved
<1>3. CASE AgentHas(m, plan, us, NoRules) /\ torn' = torn \cup (PolUuids \X {m})
  <2>1. /\ DOMAIN enforced' = RNodes /\ DOMAIN stateFile' = RNodes
        /\ \A n \in RNodes : n # m => enforced'[n] = enforced[n] /\ stateFile'[n] = stateFile[n]
    BY <1>3, AgentHasFacts
  <2> QED BY <1>3, <2>1 DEF AgentMoved, NodeSame
<1>4. CASE us = ToChange(plan, m) /\ AgentHas(m, plan, us, plan) /\ torn' = torn \ (us \X {m})
  <2>1. /\ ToChange(plan, m) = ToChange(plan, m) \ {}
        /\ torn' = (torn \ (ToChange(plan, m) \X {m})) \cup ({} \X {m})
        /\ {} \in SUBSET PolUuids
    BY <1>4
  <2>2. AgentHas(m, plan, ToChange(plan, m) \ {}, plan)
    BY <1>4, <2>1
  <2> QED BY <2>1, <2>2, AgentSaves
<1> QED BY <1>1, <1>2, <1>3, <1>4

LEMMA AgentOverlaps ==
  ASSUME PushInv, NEW m \in RNodes, NEW plan, NEW file, Overlapped(m, plan, file), NEW ok
  PROVE  AgentMoved(m, plan, ok)
PROOF
<1>1. PICK us \in SUBSET PolUuids : AgentHas(m, plan, us, file)
  BY DEF Overlapped
<1>2. torn' = torn \cup (PolUuids \X {m})
  BY DEF Overlapped
<1>3. /\ DOMAIN enforced' = RNodes /\ DOMAIN stateFile' = RNodes
      /\ \A n \in RNodes : n # m => enforced'[n] = enforced[n] /\ stateFile'[n] = stateFile[n]
  BY <1>1, AgentHasFacts
<1> QED BY <1>2, <1>3 DEF AgentMoved, NodeSame

\* No rule that was right becomes wrong, and all are right if the request succeeds.
LEMMA PostMoves ==
  ASSUME PushInv, NEW p \in Pushers, NEW m \in RNodes, NEW j \in PushJobs,
         job[<<p, m>>].pc = "post", job' = [job EXCEPT ![<<p, m>>] = j],
         j.pc = "mark", j.listed = job[<<p, m>>].listed, UNCHANGED <<policies, push, raced>>,
         NEW plan, AgentMoved(m, plan, ~j.failed),
         m \notin raced => \A u \in WithPolicy(m) : plan[u] = NodeRules(m)[u]
  PROVE  PushInv'
PROOF
<1>1. /\ job'[<<p, m>>] = j
      /\ \A q \in Pushers : q # p => job'[<<q, m>>] = job[<<q, m>>]
  BY JobReplaced DEF PushInv
<1>2. /\ DOMAIN enforced' = RNodes /\ DOMAIN stateFile' = RNodes
      /\ \A n \in RNodes : n # m => NodeSame(n)
      /\ FileOk(m)'
  BY DEF AgentMoved, FileOk
<1>3. NodeRules(m)' = NodeRules(m) /\ WithPolicy(m)' = WithPolicy(m)
  BY DEF NodeRules, WithPolicy, NoPolicy
<1>4. NodeOk(m)
  BY NodesOk
<1>5. ASSUME m \notin raced' PROVE NodeOk(m)'
  <2>r. m \notin raced
    BY <1>5
  <2>1. ASSUME NEW u \in WithPolicy(m)
        PROVE  /\ Enforces(u, m) => Enforces(u, m)'
               /\ ~j.failed => Enforces(u, m)'
    <3>1. u \in PolUuids /\ plan[u] = NodeRules(m)[u]
      BY <2>r DEF WithPolicy
    <3>2. <<u, m>> \notin torn' =>
             /\ \/ enforced'[m][u] = plan[u]
                \/ <<u, m>> \notin torn /\ enforced'[m][u] = enforced[m][u]
             /\ ~j.failed => enforced'[m][u] = plan[u]
      BY <3>1 DEF AgentMoved
    <3> QED BY <3>1, <3>2, <1>3 DEF Enforces
  <2>2. ASSUME NEW u \in PolUuids, policies'[<<u, m>>].status = "synced"
        PROVE  Enforces(u, m)' \/ \E q \in InFlight(m)' : u \in job'[<<q, m>>].listed
    <3>1. u \in WithPolicy(m)
      BY <2>2 DEF WithPolicy, NoPolicy
    <3>2. CASE Enforces(u, m)
      BY <3>1, <3>2, <2>1
    <3>3. CASE \E q \in InFlight(m) : u \in job[<<q, m>>].listed
      BY <3>3, <1>1 DEF InFlight
    <3> QED BY <2>2, <2>r, <3>2, <3>3, <1>4 DEF NodeOk
  <2>3. ASSUME NEW q \in Pushers, job'[<<q, m>>].pc = "post"
        PROVE  \A u \in WithPolicy(m)' : job'[<<q, m>>].plan[u] = NodeRules(m)'[u]
    <3>1. job'[<<q, m>>] = job[<<q, m>>]
      BY <2>3, <1>1
    <3> QED BY <3>1, <2>3, <2>r, <1>3, <1>4 DEF NodeOk
  <2>4. ASSUME NEW q \in Pushers, job'[<<q, m>>].pc = "mark", ~job'[<<q, m>>].failed,
               NEW u \in WithPolicy(m)'
        PROVE  Enforces(u, m)'
    <3>1. CASE q = p
      BY <3>1, <2>1, <2>4, <1>1, <1>3
    <3>2. CASE q # p
      <4>1. job'[<<q, m>>] = job[<<q, m>>]
        BY <3>2, <1>1
      <4>2. Enforces(u, m)
        BY <4>1, <2>4, <2>r, <1>3, <1>4 DEF NodeOk
      <4> QED BY <4>2, <2>1, <2>4, <1>3
    <3> QED BY <3>1, <3>2
  <2> QED BY <2>2, <2>3, <2>4 DEF NodeOk, Pushers
<1>6. NodeOk(m)'
  BY <1>5 DEF NodeOk
<1> QED BY <1>2, <1>6, JobStep DEF PushInv, PushShape

LEMMA PostStep ==
  ASSUME PushInv, NEW p \in Pushers, NEW m \in RNodes, Post(p, m)
  PROVE  PushInv'
PROOF
<1> DEFINE plan == job[<<p, m>>].plan
<1>1. job[<<p, m>>] \in PushJobs
  BY DEF PushInv, PushShape
<1>2. job[<<p, m>>].pc = "post" /\ UNCHANGED <<policies, push, raced>>
  BY DEF Post
<1>3. m \notin raced => \A u \in WithPolicy(m) : plan[u] = NodeRules(m)[u]
  BY <1>2, NodesOk DEF NodeOk
<1>4. ASSUME AgentMoved(m, plan, TRUE), job' = [job EXCEPT ![<<p, m>>].pc = "mark"]
      PROVE  PushInv'
  <2> DEFINE j == [job[<<p, m>>] EXCEPT !.pc = "mark"]
  <2>1. j \in PushJobs /\ j.pc = "mark" /\ j.listed = job[<<p, m>>].listed
    BY <1>1 DEF PushJobs
  <2>2. job' = [job EXCEPT ![<<p, m>>] = j]
    BY <1>4 DEF PushInv, PushShape
  <2> HIDE DEF j, plan
  <2>3. AgentMoved(m, plan, ~j.failed)
    BY <1>4 DEF AgentMoved
  <2> QED BY <2>1, <2>2, <2>3, <1>2, <1>3, PostMoves
<1>5. ASSUME AgentMoved(m, plan, FALSE),
             job' = [job EXCEPT ![<<p, m>>].pc = "mark", ![<<p, m>>].failed = TRUE]
      PROVE  PushInv'
  <2> DEFINE j == [job[<<p, m>>] EXCEPT !.pc = "mark", !.failed = TRUE]
  <2>1. j \in PushJobs /\ j.pc = "mark" /\ j.listed = job[<<p, m>>].listed /\ j.failed = TRUE
    BY <1>1 DEF PushJobs
  <2>2. job' = [job EXCEPT ![<<p, m>>] = j]
    BY <1>5 DEF PushInv, PushShape
  <2> HIDE DEF j, plan
  <2>3. AgentMoved(m, plan, ~j.failed)
    BY <1>5, <2>1 DEF AgentMoved
  <2> QED BY <2>1, <2>2, <2>3, <1>2, <1>3, PostMoves
<1>6. CASE Applied(m, plan) /\ job' = [job EXCEPT ![<<p, m>>].pc = "mark"]
  <2>1. PICK kept \in SUBSET {u \in ToChange(plan, m) : plan[u] = 0} :
           /\ AgentHas(m, plan, ToChange(plan, m) \ kept, plan)
           /\ torn' = (torn \ (ToChange(plan, m) \X {m})) \cup (kept \X {m})
    BY <1>6 DEF Applied
  <2>2. kept \in SUBSET PolUuids
    BY DEF ToChange
  <2>3. AgentMoved(m, plan, TRUE)
    <3> HIDE DEF plan
    <3> QED BY <2>1, <2>2, AgentSaves
  <2> QED BY <2>3, <1>4, <1>6
<1>7. CASE /\ ApplyFails(m, plan)
           /\ job' = [job EXCEPT ![<<p, m>>].pc = "mark", ![<<p, m>>].failed = TRUE]
  <2>1. AgentMoved(m, plan, FALSE)
    <3> HIDE DEF plan
    <3> QED BY <1>7, AgentFails
  <2> QED BY <2>1, <1>5, <1>7
<1>8. CASE Overlapped(m, plan, plan) /\ job' = [job EXCEPT ![<<p, m>>].pc = "mark"]
  <2>1. AgentMoved(m, plan, TRUE)
    <3> HIDE DEF plan
    <3> QED BY <1>8, AgentOverlaps
  <2> QED BY <2>1, <1>4, <1>8
<1>9. CASE /\ \E file \in {plan, stateFile[m], NoRules} : Overlapped(m, plan, file)
           /\ job' = [job EXCEPT ![<<p, m>>].pc = "mark", ![<<p, m>>].failed = TRUE]
  <2>1. AgentMoved(m, plan, FALSE)
    <3>1. PICK file \in {plan, stateFile[m], NoRules} : Overlapped(m, plan, file)
      BY <1>9
    <3> HIDE DEF plan
    <3> QED BY <3>1, AgentOverlaps
  <2> QED BY <2>1, <1>5, <1>9
<1> QED BY <1>6, <1>7, <1>8, <1>9 DEF Post

\* What SetPolicyStatus does to the row of a policy.
LEMMA MarkedRow ==
  ASSUME PushShape, NEW x \in Pairs, NEW f \in BOOLEAN
  PROVE  /\ Marked(policies[x], f) \in RowsAt(now)
         /\ Marked(policies[x], f).limit = policies[x].limit
         /\ Marked(policies[x], f).status = "synced" => ~f
PROOF
<1> DEFINE s == IF f THEN "failed" ELSE "synced"
<1>1. s \in {"failed", "synced"} /\ (s = "synced" => ~f)
  OBVIOUS
<1>2. Marked(policies[x], f) = [policies[x] EXCEPT !.status = s, !.at = now]
  BY DEF Marked
<1> HIDE DEF s
<1>3. policies[x] \in RowsAt(policies[x].at)
  BY RowIs
<1> DEFINE r == [policies[x] EXCEPT !.status = s, !.at = now]
<1>4. r \in RowsAt(now) /\ r.limit = policies[x].limit /\ r.status = s
  BY <1>1, <1>3 DEF RowsAt
<1> HIDE DEF r
<1>5. Marked(policies[x], f) = r
  BY <1>2 DEF r
<1> QED BY <1>1, <1>4, <1>5

LEMMA MarkStep ==
  ASSUME PushInv, NEW p \in Pushers, NEW m \in RNodes, Mark(p, m)
  PROVE  PushInv'
PROOF
<1>t. job[<<p, m>>] \in PushJobs
  BY DEF PushInv, PushShape
<1>u. job[<<p, m>>].pc = "mark" /\ UNCHANGED <<enforced, stateFile, torn, push, raced>>
  BY DEF Mark, agentVars
<1>1. PICK v \in job[<<p, m>>].listed :
         /\ job' = [job EXCEPT ![<<p, m>>].listed = @ \ {v}]
         /\ policies' = IF policies[<<v, m>>] # NoPolicy
                        THEN [policies EXCEPT ![<<v, m>>] = Marked(policies[<<v, m>>], job[<<p, m>>].failed)]
                        ELSE policies
  BY DEF Mark, agentVars
<1>2. v \in PolUuids /\ job[<<p, m>>].failed \in BOOLEAN
  BY <1>t DEF PushJobs
<1>3. <<v, m>> \in Pairs
  BY <1>2 DEF Pairs
<1> DEFINE j == [job[<<p, m>>] EXCEPT !.listed = @ \ {v}]
<1>4. /\ j \in PushJobs /\ j.pc = "mark" /\ j.listed = job[<<p, m>>].listed \ {v}
      /\ j.failed = job[<<p, m>>].failed
  BY <1>t, <1>u DEF PushJobs
<1>5. job' = [job EXCEPT ![<<p, m>>] = j]
  BY <1>1 DEF PushInv, PushShape
<1> HIDE DEF j
<1>6. /\ job'[<<p, m>>] = j
      /\ \A q \in Pushers : q # p => job'[<<q, m>>] = job[<<q, m>>]
  BY <1>4, <1>5, JobReplaced DEF PushInv
<1>7. /\ DOMAIN policies' = Pairs /\ \A y \in Pairs : policies'[y] \in RowsAt(policies'[y].at)
      /\ \A y \in Pairs : y # <<v, m>> => policies'[y] = policies[y]
      /\ policies'[<<v, m>>].limit = policies[<<v, m>>].limit
      /\ policies[<<v, m>>] = NoPolicy => policies'[<<v, m>>] = NoPolicy
      /\ policies'[<<v, m>>].status = "synced" => ~job[<<p, m>>].failed /\ policies[<<v, m>>] # NoPolicy
  <2>1. CASE policies[<<v, m>>] # NoPolicy
    <3> DEFINE r == Marked(policies[<<v, m>>], job[<<p, m>>].failed)
    <3>1. r \in RowsAt(now) /\ r.limit = policies[<<v, m>>].limit
          /\ (r.status = "synced" => ~job[<<p, m>>].failed)
      BY <1>2, <1>3, MarkedRow DEF PushInv
    <3>2. policies' = [policies EXCEPT ![<<v, m>>] = r]
      BY <1>1, <2>1
    <3> HIDE DEF r
    <3> QED BY <2>1, <3>1, <3>2, <1>3, RowReplaced DEF PushInv
  <2>2. CASE policies[<<v, m>>] = NoPolicy
    <3>1. policies' = policies
      BY <1>1, <2>2
    <3>2. NoPolicy.status # "synced"
      BY DEF NoPolicy
    <3>3. DOMAIN policies' = Pairs /\ \A y \in Pairs : policies'[y] \in RowsAt(policies'[y].at)
      BY <3>1 DEF PushInv, PushShape
    <3> QED BY <2>2, <3>1, <3>2, <3>3
  <2> QED BY <2>1, <2>2
<1>8. ASSUME NEW u \in PolUuids, u # v PROVE policies'[<<u, m>>] = policies[<<u, m>>]
  <2>1. <<u, m>> \in Pairs /\ <<u, m>> # <<v, m>>
    BY <1>8 DEF Pairs
  <2> QED BY <2>1, <1>7
<1>9. \A u \in PolUuids, n \in RNodes : n # m => policies'[<<u, n>>] = policies[<<u, n>>]
  <2> SUFFICES ASSUME NEW u \in PolUuids, NEW n \in RNodes, n # m
               PROVE  policies'[<<u, n>>] = policies[<<u, n>>]
    OBVIOUS
  <2>1. <<u, n>> \in Pairs /\ <<u, n>> # <<v, m>>
    BY DEF Pairs
  <2> QED BY <2>1, <1>7
<1>10. ASSUME NEW u \in PolUuids PROVE NodeRules(m)'[u] = NodeRules(m)[u]
  <2>1. policies'[<<u, m>>].limit = policies[<<u, m>>].limit
    BY <1>7, <1>8
  <2>2. NodeRules(m)'[u] = Max({policies'[<<u, m>>].limit, 0})
    BY DEF NodeRules
  <2> QED BY <2>1, <2>2, RuleOf
<1>11. WithPolicy(m)' \subseteq WithPolicy(m)
  BY <1>7, <1>8 DEF WithPolicy, NoPolicy
<1>12. NodeOk(m)
  BY NodesOk
<1>13. ASSUME m \notin raced' PROVE NodeOk(m)'
  <2>r. m \notin raced
    BY <1>13, <1>u
  <2>e. \A u \in PolUuids : Enforces(u, m) => Enforces(u, m)'
    BY <1>u, <1>10 DEF Enforces
  <2>1. ASSUME NEW u \in PolUuids, policies'[<<u, m>>].status = "synced"
        PROVE  Enforces(u, m)' \/ \E q \in InFlight(m)' : u \in job'[<<q, m>>].listed
    <3>1. CASE u = v
      <4>1. ~job[<<p, m>>].failed /\ u \in WithPolicy(m)
        BY <2>1, <3>1, <1>7 DEF WithPolicy
      <4>2. Enforces(u, m)
        BY <4>1, <2>r, <1>u, <1>12 DEF NodeOk
      <4> QED BY <4>2, <2>e
    <3>2. CASE u # v
      <4>1. policies[<<u, m>>].status = "synced"
        BY <2>1, <3>2, <1>8
      <4>2. CASE Enforces(u, m)
        BY <4>2, <2>e
      <4>3. CASE \E q \in InFlight(m) : u \in job[<<q, m>>].listed
        <5>1. PICK q \in InFlight(m) : u \in job[<<q, m>>].listed
          BY <4>3
        <5>2. q \in Pushers /\ job[<<q, m>>].pc \in {"post", "mark"}
          BY DEF InFlight
        <5>3. job'[<<q, m>>].pc \in {"post", "mark"} /\ u \in job'[<<q, m>>].listed
          BY <5>1, <5>2, <3>2, <1>4, <1>6
        <5>4. q \in InFlight(m)'
          BY <5>2, <5>3 DEF InFlight, Pushers
        <5> QED BY <5>3, <5>4
      <4> QED BY <4>1, <4>2, <4>3, <2>r, <1>12 DEF NodeOk
    <3> QED BY <3>1, <3>2
  <2>2. ASSUME NEW q \in Pushers, job'[<<q, m>>].pc = "post", NEW u \in WithPolicy(m)'
        PROVE  job'[<<q, m>>].plan[u] = NodeRules(m)'[u]
    <3>1. job'[<<q, m>>] = job[<<q, m>>]
      BY <2>2, <1>4, <1>6
    <3>2. u \in WithPolicy(m) /\ u \in PolUuids
      BY <1>11 DEF WithPolicy
    <3> QED BY <3>1, <3>2, <2>2, <2>r, <1>10, <1>12 DEF NodeOk
  <2>3. ASSUME NEW q \in Pushers, job'[<<q, m>>].pc = "mark", ~job'[<<q, m>>].failed,
               NEW u \in WithPolicy(m)'
        PROVE  Enforces(u, m)'
    <3>1. job[<<q, m>>].pc = "mark" /\ ~job[<<q, m>>].failed
      BY <2>3, <1>4, <1>6, <1>u
    <3>2. u \in WithPolicy(m) /\ u \in PolUuids
      BY <1>11 DEF WithPolicy
    <3> QED BY <3>1, <3>2, <2>r, <2>e, <1>12 DEF NodeOk
  <2> QED BY <2>1, <2>2, <2>3 DEF NodeOk, Pushers
<1>14. NodeOk(m)'
  BY <1>13 DEF NodeOk
<1>15. /\ DOMAIN enforced' = RNodes /\ DOMAIN stateFile' = RNodes
       /\ \A n \in RNodes : n # m => NodeSame(n)
       /\ FileOk(m)'
  BY <1>u, AgentsSame
<1> QED BY <1>4, <1>5, <1>7, <1>9, <1>14, <1>15, <1>u, JobStep

-----------------------------------------------------------------------------
LEMMA RateStart ==
  RateInit => PushInv
PROOF
<1> SUFFICES ASSUME RateInit PROVE PushInv
  OBVIOUS
<1>1. policies = [x \in Pairs |-> NoPolicy] /\ enforced = [n \in RNodes |-> NoRules]
      /\ push = [p \in Pushers |-> NoPush] /\ job = [x \in Pushers \X RNodes |-> NoPushJob]
      /\ stateFile = [n \in RNodes |-> NoRules]
  BY DEF RateInit
<1>2. NoPolicy \in RowsAt(NoPolicy.at) /\ NoPolicy.status = "none"
  BY DEF NoPolicy, RowsAt
<1>3. NoPush \in PushesOf(NoPush.plan) /\ NoPushJob \in PushJobs /\ NoPushJob.pc = "none"
  BY DEF NoPush, PushesOf, NoPushJob, NoRules, PushJobs
<1>4. PushShape
  BY <1>1, <1>2, <1>3 DEF PushShape
<1>5. \A u \in PolUuids, n \in RNodes : policies[<<u, n>>].status = "none"
  BY <1>1, <1>2 DEF Pairs
<1>6. \A p \in Pushers, n \in RNodes : job[<<p, n>>].pc = "none"
  BY <1>1, <1>3
<1>7. JobsAwaited /\ \A n \in RNodes : NodeOk(n)
  BY <1>5, <1>6 DEF JobsAwaited, NodeOk
<1>8. FileTrue
  BY <1>1 DEF FileTrue
<1> QED BY <1>4, <1>7, <1>8, NodesOk

LEMMA RateStable ==
  PushInv /\ [RateNext]_rateVars => PushInv'
PROOF
<1> SUFFICES ASSUME PushInv, [RateNext]_rateVars PROVE PushInv'
  OBVIOUS
<1>1. CASE Tick
  BY <1>1, TickStep
<1>2. CASE LoopRound
  BY <1>2, LoopRoundStep
<1>3. CASE CallPush
  BY <1>3, CallPushStep
<1>4. ASSUME NEW p \in Pushers, PushStep(p) PROVE PushInv'
  BY <1>4, ListStep, BuildStep, PostStep, MarkStep, EndJobStep, EndPushStep DEF PushStep
<1>8. CASE SetLimiting
  BY <1>8, ToggleStep DEF SetLimiting, Edit, agentVars
<1>9. ASSUME NEW n \in RNodes, HostRestart(n) PROVE PushInv'
  BY <1>9, RestartStep
<1>5. ASSUME NEW n \in RNodes, ToggleNode(n) PROVE PushInv'
  BY <1>5, ToggleStep DEF ToggleNode, Edit, agentVars
<1>6. ASSUME NEW u \in PolUuids, NEW n \in RNodes,
             UpsertPolicy(u, n) \/ DeletePolicy(u, n) \/ DetachProfile(u, n)
      PROVE  PushInv'
  BY <1>6, UpsertStep, DeleteStep
<1>7. CASE UNCHANGED rateVars
  BY <1>7, ToggleStep DEF rateVars, agentVars
<1> QED BY <1>1, <1>2, <1>3, <1>4, <1>5, <1>6, <1>7, <1>8, <1>9 DEF RateNext

(***************************************************************************)
(* However the loop's push, the push of an operator, edits of policies and *)
(* of the setting, failed and half-made requests, restarts of hosts and    *)
(* nodes being disabled interleave, a policy that SetPolicyStatus shows as *)
(* "synced" is the rule of tc on its node, on every node not in "raced"    *)
(* and with no push between buildNodePlan and the last mark, except where  *)
(* tc and the agent's state file may disagree ("torn"): for every set of   *)
(* users, nodes and limits and any number of edits and failures.           *)
(***************************************************************************)
THEOREM SyncedStayEnforced == RateSpec => []SyncedEnforced
PROOF
<1>1. PushInv => SyncedEnforced
  BY DEF PushInv, SyncedOrListed, SyncedEnforced, Enforces
<1> QED BY <1>1, RateStart, RateStable, PTL DEF RateSpec
=============================================================================
