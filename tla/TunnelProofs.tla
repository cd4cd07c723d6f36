---------------------------- MODULE TunnelProofs ----------------------------
(***************************************************************************)
(* Proofs about the xray services of the panel: between requests a service *)
(* that is up runs the file on disk, and the answers of a rollback and of  *)
(* a purge are true.                                                       *)
(***************************************************************************)
EXTENDS Tunnels, TLAPS

-----------------------------------------------------------------------------
(* The values the state is made of.                                        *)

LEMMA NoBodyType == NoBody \in Relays /\ NoBody.port = 0 /\ NoBody.on = FALSE
BY DEF NoBody, Relays, Names

LEMMA NoFileType == NoFile \in Files /\ NoFile.is = "none" /\ NoFile.inbounds = {}
BY DEF NoFile, File, Files

LEMMA FailedType ==
  /\ Failed \in Files /\ Failed.is = "failed" /\ Failed.inbounds = {}
  /\ Torn \in Files /\ Torn.is = "torn" /\ Torn.inbounds = {}
BY DEF Failed, Torn, File, Files

LEMMA NoReqType ==
  /\ NoReq \in ReqRecord /\ WellFormed(NoReq) /\ KindsOf(NoReq) = {"none"}
  /\ NoReq.pc = "idle" /\ NoReq.kind = "none" /\ NoReq.cfg = NoFile /\ NoReq.prev = NoFile
<1>1. /\ NoReq.pc = "idle" /\ NoReq.kind = "none" /\ NoReq.slot = 0 /\ NoReq.body = NoBody
      /\ NoReq.cfg = NoFile /\ NoReq.prev = NoFile /\ NoReq.listed = {}
  BY DEF NoReq
<1>2. NoReq \in ReqRecord
  BY NoBodyType, NoFileType DEF NoReq, ReqRecord
<1>3. WellFormed(NoReq)
  BY <1>1 DEF WellFormed, PurgePcs
<1>4. KindsOf(NoReq) = {"none"}
  BY <1>1 DEF KindsOf
<1> QED BY <1>1, <1>2, <1>3, <1>4

LEMMA EmptyBindable == ASSUME NEW f, f.inbounds = {} PROVE Bindable(f)
BY DEF Bindable

\* A started service runs the file or has failed.
LEMMA StartedFile ==
  ASSUME NEW f \in Files
  PROVE  Started(f) \in Files /\ (Started(f).is = "config" => Started(f) = f)
BY FailedType DEF Started

LEMMA KindSet == Kinds = {"bridge", "trojan", "ingress"} /\ Suite = {"trojan", "ingress"}
BY DEF Kinds, Suite

\* The inbounds of a table whose ports differ can all be bound.
LEMMA RenderRows ==
  ASSUME rows \in [Kinds -> [Slots -> Relays]], NEW k \in Kinds
  PROVE  /\ Render(k) \in Files
         /\ Apart(rows[k]) => Bindable(Render(k))
<1> DEFINE R == {[tag |-> b.name, port |-> b.port] : b \in Enabled(k)}
<1>1. Render(k) = File("config", R)
  BY DEF Render, Kinds, Suite, BuildBridgeConfig, BuildTrojanBridgeConfig, BuildTrojanIngressConfig
<1>2. rows[k] \in [Slots -> Relays]
  OBVIOUS
<1>3. R \subseteq [tag : Names, port : Nat]
  BY <1>2 DEF Enabled, Relays
<1>4. Render(k) \in Files
  BY <1>1, <1>3 DEF File, Files
<1>5. ASSUME Apart(rows[k]) PROVE Bindable(Render(k))
  <2>1. SUFFICES ASSUME NEW x \in R, NEW y \in R, x.port = y.port PROVE x = y
    BY <1>1 DEF Bindable, File
  <2>2. PICK i \in Slots : rows[k][i].on /\ x = [tag |-> rows[k][i].name, port |-> rows[k][i].port]
    BY DEF Enabled
  <2>3. PICK j \in Slots : rows[k][j].on /\ y = [tag |-> rows[k][j].name, port |-> rows[k][j].port]
    BY DEF Enabled
  <2>4. rows[k][i] # NoBody /\ rows[k][j] # NoBody
    BY <2>2, <2>3, NoBodyType
  <2>5. rows[k][i].port = rows[k][j].port
    BY <2>1, <2>2, <2>3
  <2>6. i = j
    BY <1>5, <2>4, <2>5 DEF Apart
  <2> QED BY <2>2, <2>3, <2>6
<1> QED BY <1>4, <1>5

-----------------------------------------------------------------------------
(* How the parts of the invariant move with a step.                        *)

LEMMA KindsOfWorker ==
  ASSUME TunShape, NEW h \in TunHandlers
  PROVE  /\ treq[h].pc = "idle" => KindsOf(treq[h]) = {"none"}
         /\ treq[h].pc # "idle" => KindsOf(treq[h]) \subseteq Kinds
         /\ KindsOf(treq[h]) \cap Kinds # {} => treq[h].pc # "idle"
<1>1. treq[h] \in ReqRecord /\ WellFormed(treq[h])
  BY DEF TunShape
<1>2. treq[h].pc = "idle" => KindsOf(treq[h]) = {"none"}
  BY <1>1, NoReqType DEF WellFormed
<1>3. treq[h].pc # "idle" => treq[h].kind \in Kinds \/ treq[h].kind = "suite"
  BY <1>1 DEF WellFormed
<1>4. treq[h].pc # "idle" => KindsOf(treq[h]) \subseteq Kinds
  BY <1>3 DEF KindsOf, Kinds, Suite
<1>5. "none" \notin Kinds
  BY DEF Kinds, Suite
<1> QED BY <1>2, <1>4, <1>5

\* A request goes on: it becomes r, on the same services, or is over.
LEMMA Moved ==
  ASSUME TunInv, TunShape', NEW h \in TunHandlers, NEW r,
         treq[h].pc # "idle",
         treq' = [treq EXCEPT ![h] = r],
         \/ r = NoReq
         \/ r.pc # "idle" /\ KindsOf(r) = KindsOf(treq[h]),
         still' \subseteq still,
         \A k \in still' : k \in KindsOf(treq[h]) =>
            (OkFor(k, treq[h], rows[k], conf[k], unit[k], svc[k], loose)
                => OkFor(k, r, rows'[k], conf'[k], unit'[k], svc'[k], loose')),
         \A k \in still' : k \notin KindsOf(treq[h]) =>
            \A q : OkFor(k, q, rows[k], conf[k], unit[k], svc[k], loose)
                     => OkFor(k, q, rows'[k], conf'[k], unit'[k], svc'[k], loose')
  PROVE  TunInv'
<1>0. /\ still \subseteq Kinds /\ treq \in [TunHandlers -> ReqRecord] /\ treq'[h] = r
      /\ \A g \in TunHandlers : g # h => treq'[g] = treq[g]
      /\ TunShape /\ AloneInv /\ OkInv
  BY DEF TunInv, TunShape
<1>1. "none" \notin still /\ "none" \notin still'
  BY <1>0, KindSet DEF TunInv, TunShape
<1>2. r.pc # "idle" => r # NoReq
  BY NoReqType
<1>3. ASSUME NEW k \in still' PROVE k \in KindsOf(r) => k \in KindsOf(treq[h])
  BY <1>1, <1>3, NoReqType
<1>4. AloneInv'
  <2> SUFFICES ASSUME NEW g \in TunHandlers, NEW k \in still', k \in KindsOf(treq'[g])
               PROVE  Others(g)' = {}
    BY DEF AloneInv
  <2>1. k \in KindsOf(treq[g])
    BY <1>0, <1>3
  <2>2. Others(g) = {}
    BY <1>0, <2>1 DEF AloneInv
  <2>3. \A f \in TunHandlers \ {g} : treq[f].pc = "idle"
    BY <2>2 DEF Others
  <2>4. g = h
    BY <2>3
  <2> QED BY <1>0, <2>3, <2>4 DEF Others
<1>5. OkInv'
  <2> SUFFICES ASSUME NEW k \in still'
               PROVE  /\ \A g \in TunHandlers : k \in KindsOf(treq'[g]) =>
                            OkFor(k, treq'[g], rows'[k], conf'[k], unit'[k], svc'[k], loose')
                      /\ Working(k)' = {} => OkFor(k, NoReq, rows'[k], conf'[k], unit'[k], svc'[k], loose')
    BY DEF OkInv, OkFor, Quiet, Midway, Apart, Bindable, Started, Failed, File, NoFile, NoReq, NoBody
  <2>1. /\ \A g \in TunHandlers : k \in KindsOf(treq[g]) =>
               OkFor(k, treq[g], rows[k], conf[k], unit[k], svc[k], loose)
        /\ Working(k) = {} => OkFor(k, NoReq, rows[k], conf[k], unit[k], svc[k], loose)
    BY <1>0 DEF OkInv
  <2>2. CASE k \in KindsOf(treq[h])
    <3>1. OkFor(k, r, rows'[k], conf'[k], unit'[k], svc'[k], loose')
      BY <2>1, <2>2
    <3>2. \A g \in TunHandlers : g # h => treq[g].pc = "idle"
      BY <1>0, <2>2 DEF AloneInv, Others
    <3>3. \A g \in TunHandlers : g # h => k \notin KindsOf(treq[g])
      BY <1>0, <1>1, <3>2, KindsOfWorker
    <3>4. CASE r = NoReq
      BY <1>0, <1>1, <3>1, <3>3, <3>4, NoReqType
    <3>5. CASE r.pc # "idle" /\ KindsOf(r) = KindsOf(treq[h])
      <4>1. h \in Working(k)'
        BY <1>0, <2>2, <3>5 DEF Working
      <4> QED BY <1>0, <3>1, <3>3, <4>1
    <3> QED BY <3>4, <3>5
  <2>3. CASE k \notin KindsOf(treq[h])
    <3>1. k \notin KindsOf(r)
      BY <1>3, <2>3
    <3>2. \A g \in TunHandlers : k \in KindsOf(treq'[g]) => treq'[g] = treq[g]
      BY <1>0, <3>1
    <3>3. Working(k)' = Working(k)
      BY <1>0, <2>3, <3>1 DEF Working
    <3> QED BY <2>1, <2>3, <3>2, <3>3
  <2> QED BY <2>2, <2>3
<1> QED BY <1>4, <1>5 DEF TunInv

\* A request begins; the tables, files and services of other kinds stay.
LEMMA Begun ==
  ASSUME TunInv, TunShape', NEW h \in TunHandlers, NEW r, r.pc # "idle",
         BeginReq(h, r),
         \A k \in still' : k \in KindsOf(r) =>
            (OkFor(k, NoReq, rows[k], conf[k], unit[k], svc[k], loose)
                => OkFor(k, r, rows'[k], conf'[k], unit'[k], svc'[k], loose')),
         \A k \in still' : k \notin KindsOf(r) =>
            \A q : OkFor(k, q, rows[k], conf[k], unit[k], svc[k], loose)
                     => OkFor(k, q, rows'[k], conf'[k], unit'[k], svc'[k], loose')
  PROVE  TunInv'
<1>0. /\ still \subseteq Kinds /\ treq \in [TunHandlers -> ReqRecord] /\ treq'[h] = r
      /\ \A g \in TunHandlers : g # h => treq'[g] = treq[g]
      /\ TunShape /\ AloneInv /\ OkInv /\ treq[h].pc = "idle" /\ still' \subseteq still
  BY DEF TunInv, TunShape, BeginReq
<1>1. KindsOf(treq[h]) = {"none"} /\ "none" \notin still
  BY <1>0, KindSet, KindsOfWorker
<1>2. ASSUME NEW k \in still', k \in KindsOf(r) PROVE Others(h) = {}
  BY <1>2 DEF BeginReq
<1>3. ASSUME NEW k \in still', Others(h) # {}, NEW g \in Others(h)
      PROVE  k \notin KindsOf(treq[g])
  BY <1>3 DEF BeginReq
<1>4. AloneInv'
  <2> SUFFICES ASSUME NEW g \in TunHandlers, NEW k \in still', k \in KindsOf(treq'[g])
               PROVE  Others(g)' = {}
    BY DEF AloneInv
  <2>1. CASE g = h
    <3>1. \A f \in TunHandlers \ {h} : treq[f].pc = "idle"
      BY <1>0, <1>2, <2>1 DEF Others
    <3> QED BY <1>0, <2>1, <3>1 DEF Others
  <2>2. CASE g # h
    <3>1. k \in KindsOf(treq[g]) /\ k \in Kinds
      BY <1>0, <2>2
    <3>2. treq[g].pc # "idle"
      BY <1>0, <3>1, KindsOfWorker
    <3>3. g \in Others(h)
      BY <2>2, <3>2 DEF Others
    <3> QED BY <1>3, <3>1, <3>3
  <2> QED BY <2>1, <2>2
<1>5. OkInv'
  <2> SUFFICES ASSUME NEW k \in still'
               PROVE  /\ \A g \in TunHandlers : k \in KindsOf(treq'[g]) =>
                            OkFor(k, treq'[g], rows'[k], conf'[k], unit'[k], svc'[k], loose')
                      /\ Working(k)' = {} => OkFor(k, NoReq, rows'[k], conf'[k], unit'[k], svc'[k], loose')
    BY DEF OkInv, OkFor, Quiet, Midway, Apart, Bindable, Started, Failed, File, NoFile, NoReq, NoBody
  <2>1. /\ \A g \in TunHandlers : k \in KindsOf(treq[g]) =>
               OkFor(k, treq[g], rows[k], conf[k], unit[k], svc[k], loose)
        /\ Working(k) = {} => OkFor(k, NoReq, rows[k], conf[k], unit[k], svc[k], loose)
    BY <1>0 DEF OkInv
  <2>2. CASE k \in KindsOf(r)
    <3>1. \A g \in TunHandlers : g # h => treq[g].pc = "idle"
      BY <1>2, <2>2 DEF Others
    <3>2. Working(k) = {}
      BY <1>0, <3>1 DEF Working
    <3>3. OkFor(k, r, rows'[k], conf'[k], unit'[k], svc'[k], loose')
      BY <2>1, <2>2, <3>2
    <3>4. \A g \in TunHandlers : g # h => k \notin KindsOf(treq[g])
      BY <1>0, <1>1, <3>1, KindsOfWorker
    <3>5. h \in Working(k)'
      BY <1>0, <2>2 DEF Working
    <3> QED BY <1>0, <3>3, <3>4, <3>5
  <2>3. CASE k \notin KindsOf(r)
    <3>1. \A g \in TunHandlers : k \in KindsOf(treq'[g]) => treq'[g] = treq[g]
      BY <1>0, <2>3
    <3>2. Working(k)' = Working(k)
      BY <1>0, <2>3 DEF Working
    <3> QED BY <2>1, <2>3, <3>1, <3>2
  <2> QED BY <2>2, <2>3
<1> QED BY <1>4, <1>5 DEF TunInv

LEMMA Advance ==
  ASSUME TunInv, NEW h \in TunHandlers, NEW r \in ReqRecord, WellFormed(r),
         treq[h].pc # "idle",
         treq' = [treq EXCEPT ![h] = r],
         r = NoReq \/ (r.pc # "idle" /\ KindsOf(r) = KindsOf(treq[h])),
         still' \subseteq still, loose' \subseteq Kinds,
         rows' \in [Kinds -> [Slots -> Relays]], conf' \in [Kinds -> Files],
         unit' \in [Kinds -> BOOLEAN], svc' \in [Kinds -> Files],
         \A k \in still' : k \in KindsOf(treq[h]) =>
            (OkFor(k, treq[h], rows[k], conf[k], unit[k], svc[k], loose)
                => OkFor(k, r, rows'[k], conf'[k], unit'[k], svc'[k], loose')),
         \A k \in still' : k \notin KindsOf(treq[h]) =>
            \A q : OkFor(k, q, rows[k], conf[k], unit[k], svc[k], loose)
                     => OkFor(k, q, rows'[k], conf'[k], unit'[k], svc'[k], loose')
  PROVE  TunInv'
<1>1. TunShape'
  BY DEF TunInv, TunShape
<1> QED BY <1>1, Moved

\* Of the loose kinds only whether k is one matters.
LEMMA OkLoose ==
  ASSUME NEW k, NEW r, NEW rk, NEW c, NEW u, NEW s, NEW L, NEW M,
         OkFor(k, r, rk, c, u, s, L), k \in L => k \in M
  PROVE  OkFor(k, r, rk, c, u, s, M)
BY DEF OkFor

LEMMA Enter ==
  ASSUME TunInv, NEW h \in TunHandlers, NEW r \in ReqRecord, WellFormed(r),
         r.pc # "idle", BeginReq(h, r),
         rows' \in [Kinds -> [Slots -> Relays]], UNCHANGED <<conf, unit, svc>>,
         loose' \subseteq Kinds,
         \A k \in still' : k \in KindsOf(r) =>
            (OkFor(k, NoReq, rows[k], conf[k], unit[k], svc[k], loose)
                => OkFor(k, r, rows'[k], conf[k], unit[k], svc[k], loose')),
         \A k \in still' : k \notin KindsOf(r) => rows'[k] = rows[k] /\ (k \in loose => k \in loose')
  PROVE  TunInv'
<1>0. /\ treq \in [TunHandlers -> ReqRecord] /\ treq' = [treq EXCEPT ![h] = r]
      /\ still' \subseteq still
  BY DEF TunInv, TunShape, BeginReq
<1>1. TunShape'
  BY <1>0 DEF TunInv, TunShape
<1>2. \A k \in still' : k \notin KindsOf(r) =>
         \A q : OkFor(k, q, rows[k], conf[k], unit[k], svc[k], loose)
                  => OkFor(k, q, rows'[k], conf'[k], unit'[k], svc'[k], loose')
  BY OkLoose
<1> QED BY <1>1, <1>2, Begun

\* At the places that say nothing of their own.
LEMMA OkFrom ==
  ASSUME NEW k, NEW r, NEW rk, NEW c, NEW u, NEW s, NEW L,
         r.pc \in {"idle", "row", "unit", "prev", "write", "end"},
         k # "bridge" => Apart(rk) /\ Bindable(c) /\ Bindable(r.cfg) /\ Bindable(r.prev),
         r.pc = "prev" \/ (r.pc = "write" /\ r.kind # "ingress") => u,
         r.pc = "row" /\ k # "bridge" =>
            \A i \in Slots \ {r.slot} : rk[i] # NoBody => rk[i].port # r.body.port,
         k \notin L => Quiet(c, s) /\ (s.is = "config" => u)
  PROVE  OkFor(k, r, rk, c, u, s, L)
BY DEF OkFor

\* Outside the middle of a request its service is quiet.
LEMMA OkQuiet ==
  ASSUME NEW k, NEW r, NEW rk, NEW c, NEW u, NEW s, NEW L, OkFor(k, r, rk, c, u, s, L)
  PROVE  /\ k # "bridge" => Apart(rk) /\ Bindable(c) /\ Bindable(r.cfg) /\ Bindable(r.prev)
         /\ ~Midway(r) /\ k \notin L => Quiet(c, s) /\ (s.is = "config" => u)
BY DEF OkFor, Midway

LEMMA NoReqEasy == ~Midway(NoReq) /\ Bindable(NoReq.cfg) /\ Bindable(NoReq.prev) /\ Bindable(NoFile)
<1>1. Bindable(NoFile)
  BY NoFileType, EmptyBindable
<1> QED BY <1>1, NoReqType DEF Midway

\* A request may end where its service is quiet.
LEMMA OkEnds ==
  ASSUME NEW k, NEW r, NEW rk, NEW c, NEW u, NEW s, NEW L,
         OkFor(k, r, rk, c, u, s, L), k \notin L => Quiet(c, s) /\ (s.is = "config" => u)
  PROVE  OkFor(k, NoReq, rk, c, u, s, L)
<1>1. k # "bridge" => Apart(rk) /\ Bindable(c)
  BY OkQuiet
<1> QED BY <1>1, NoReqEasy, NoReqType, OkFrom

LEMMA ReplyOk ==
  ASSUME TunInv, NEW h \in TunHandlers, treq[h].pc # "idle", Reply(h),
         UNCHANGED <<rows, conf, unit, svc, still, loose>>,
         \A k \in KindsOf(treq[h]) :
            OkFor(k, treq[h], rows[k], conf[k], unit[k], svc[k], loose) /\ k \notin loose
                => Quiet(conf[k], svc[k]) /\ (svc[k].is = "config" => unit[k])
  PROVE  TunInv'
<1>1. treq' = [treq EXCEPT ![h] = NoReq]
  BY DEF Reply
<1>2. /\ rows' \in [Kinds -> [Slots -> Relays]] /\ conf' \in [Kinds -> Files]
      /\ unit' \in [Kinds -> BOOLEAN] /\ svc' \in [Kinds -> Files] /\ loose' \subseteq Kinds
  BY DEF TunInv, TunShape
<1>3. \A k \in still' : k \in KindsOf(treq[h]) =>
         (OkFor(k, treq[h], rows[k], conf[k], unit[k], svc[k], loose)
             => OkFor(k, NoReq, rows'[k], conf'[k], unit'[k], svc'[k], loose'))
  BY OkEnds
<1>4. \A k \in still' : k \notin KindsOf(treq[h]) =>
         \A q : OkFor(k, q, rows[k], conf[k], unit[k], svc[k], loose)
                  => OkFor(k, q, rows'[k], conf'[k], unit'[k], svc'[k], loose')
  OBVIOUS
<1> QED BY <1>1, <1>2, <1>3, <1>4, NoReqType, Advance

\* What Goto makes of the request.
LEMMA GotoRecord ==
  ASSUME TunShape, NEW h \in TunHandlers, treq[h].kind \in Kinds, treq[h].pc # "idle",
         NEW pc \in {"unit", "prev", "write", "restart", "rollback", "end", "stopped", "undone"}, Goto(h, pc)
  PROVE  \E r \in ReqRecord :
            /\ treq' = [treq EXCEPT ![h] = r]
            /\ WellFormed(r) /\ KindsOf(r) = KindsOf(treq[h]) /\ r.pc = pc
            /\ r.kind = treq[h].kind /\ r.cfg = treq[h].cfg /\ r.prev = treq[h].prev
<1> DEFINE r == [treq[h] EXCEPT !.pc = pc]
<1>1. treq[h] \in ReqRecord
  BY DEF TunShape
<1>2. r \in ReqRecord /\ r.pc = pc /\ r.kind = treq[h].kind /\ r.cfg = treq[h].cfg /\ r.prev = treq[h].prev
  BY <1>1 DEF ReqRecord
<1>3. treq' = [treq EXCEPT ![h] = r]
  BY DEF Goto
<1> HIDE DEF r
<1>4. WellFormed(r)
  BY <1>2 DEF WellFormed, PurgePcs
<1>5. KindsOf(r) = KindsOf(treq[h])
  BY <1>2 DEF KindsOf
<1> QED BY <1>2, <1>3, <1>4, <1>5

LEMMA WorkerShape ==
  ASSUME TunShape, NEW h \in TunHandlers, treq[h].pc \notin PurgePcs \cup {"idle"}
  PROVE  /\ treq[h].kind \in Kinds /\ treq[h] \in ReqRecord
         /\ KindsOf(treq[h]) = {treq[h].kind}
         /\ treq[h].cfg \in Files /\ treq[h].prev \in Files /\ treq[h].body \in Relays
         /\ treq[h].pc = "row" => treq[h].slot \in Slots
<1>1. treq[h] \in ReqRecord /\ WellFormed(treq[h])
  BY DEF TunShape
<1>2. treq[h].kind \in Kinds
  BY <1>1 DEF WellFormed
<1>3. KindsOf(treq[h]) = {treq[h].kind}
  BY <1>2 DEF KindsOf, Kinds, Suite
<1> QED BY <1>1, <1>2, <1>3 DEF ReqRecord, WellFormed

LEMMA PurgeShape ==
  ASSUME TunShape, NEW h \in TunHandlers, treq[h].pc \in PurgePcs
  PROVE  /\ treq[h].kind = "suite" /\ treq[h] \in ReqRecord
         /\ KindsOf(treq[h]) = {"trojan", "ingress"}
         /\ treq[h].listed \subseteq {"trojan", "ingress"} \X Slots
<1>1. treq[h] \in ReqRecord /\ WellFormed(treq[h])
  BY DEF TunShape
<1> QED BY <1>1, KindSet DEF WellFormed, KindsOf, ReqRecord

-----------------------------------------------------------------------------
(* The requests begin.                                                     *)

LEMMA SaveReqType ==
  ASSUME NEW k \in Kinds, NEW i \in Slots, NEW b \in Relays
  PROVE  LET r == SaveReq(k, i, b) IN
         /\ r \in ReqRecord /\ WellFormed(r) /\ KindsOf(r) = {k}
         /\ r.pc = "row" /\ r.kind = k /\ r.slot = i /\ r.body = b
         /\ r.cfg = NoFile /\ r.prev = NoFile
<1> DEFINE r == SaveReq(k, i, b)
<1>1. /\ r \in ReqRecord /\ r.pc = "row" /\ r.kind = k /\ r.slot = i /\ r.body = b
      /\ r.cfg = NoFile /\ r.prev = NoFile
  BY NoReqType DEF SaveReq, ReqRecord
<1> HIDE DEF r
<1>2. WellFormed(r)
  BY <1>1 DEF WellFormed, PurgePcs
<1>3. KindsOf(r) = {k}
  BY <1>1 DEF KindsOf, Kinds, Suite
<1> QED BY <1>1, <1>2, <1>3 DEF r

LEMMA Saved ==
  ASSUME TunInv, NEW h \in TunHandlers, NEW k \in Kinds, NEW i \in Slots, NEW b \in Relays,
         BeginReq(h, SaveReq(k, i, b)), SaveSame,
         k # "bridge" => \A e \in Taken(k, i) : e.port # b.port
  PROVE  TunInv'
<1> DEFINE r == SaveReq(k, i, b)
<1>1. /\ r \in ReqRecord /\ WellFormed(r) /\ KindsOf(r) = {k}
      /\ r.pc = "row" /\ r.kind = k /\ r.slot = i /\ r.body = b
      /\ r.cfg = NoFile /\ r.prev = NoFile
  BY SaveReqType
<1>2. BeginReq(h, r) /\ UNCHANGED <<rows, conf, unit, svc, loose>>
  BY DEF SaveSame
<1> HIDE DEF r
<1>4. k # "bridge" => \A j \in Slots \ {i} : rows[k][j] # NoBody => rows[k][j].port # b.port
  BY DEF Taken
<1>5. OkFor(k, NoReq, rows[k], conf[k], unit[k], svc[k], loose)
         => OkFor(k, r, rows[k], conf[k], unit[k], svc[k], loose)
  <2> SUFFICES ASSUME OkFor(k, NoReq, rows[k], conf[k], unit[k], svc[k], loose)
               PROVE  OkFor(k, r, rows[k], conf[k], unit[k], svc[k], loose)
    OBVIOUS
  <2>1. /\ k # "bridge" => Apart(rows[k]) /\ Bindable(conf[k])
        /\ k \notin loose => Quiet(conf[k], svc[k]) /\ (svc[k].is = "config" => unit[k])
    BY NoReqEasy, OkQuiet
  <2> QED BY <1>1, <1>4, <2>1, NoReqEasy, OkFrom
<1>6. rows' \in [Kinds -> [Slots -> Relays]] /\ loose' \subseteq Kinds
  BY <1>2 DEF TunInv, TunShape
<1> QED BY <1>1, <1>2, <1>5, <1>6, Enter

LEMMA BodyType == ASSUME NEW b \in Bodies PROVE b \in Relays
BY TunAssumption DEF Relays, Names

\* What a create makes of the body it was sent.
LEMMA SentType ==
  ASSUME NEW sent \in Bodies, NEW p, NEW b,
         b = [sent EXCEPT !.on = TRUE, !.port = p], b.port \in 1..MaxPort
  PROVE  b \in Relays
<1>1. sent \in Relays
  BY BodyType
<1>2. p \in Nat
  <2>1. b.port = p
    BY <1>1 DEF Relays
  <2> QED BY <2>1, TunAssumption
<1> QED BY <1>1, <1>2 DEF Relays

LEMMA NoConflict ==
  ASSUME NEW k, NEW b, NEW i, ~TrojanConflict(k, b, i)
  PROVE  \A e \in Taken(k, i) : e.port # b.port
BY DEF TrojanConflict

LEMMA SaveSteps ==
  ASSUME TunInv, NEW h \in TunHandlers,
         \/ CreateRelay(h) \/ UpdateRelay(h) \/ CreateTrojanRelay(h)
         \/ UpdateTrojanRelay(h) \/ CreateTrojanIngress(h) \/ UpdateTrojanIngress(h)
  PROVE  TunInv'
<1>0. "bridge" \in Kinds /\ "trojan" \in Kinds /\ "ingress" \in Kinds
  BY KindSet
<1>1. CASE CreateRelay(h) \/ UpdateRelay(h)
  <2>1. PICK i \in Slots, b \in Bodies : BeginReq(h, SaveReq("bridge", i, b))
    BY <1>1 DEF CreateRelay, UpdateRelay
  <2>2. SaveSame
    BY <1>1 DEF CreateRelay, UpdateRelay
  <2> QED BY <1>0, <2>1, <2>2, BodyType, Saved
<1>2. CASE CreateTrojanRelay(h)
  <2> DEFINE B(sent) == [sent EXCEPT !.on = TRUE,
                           !.port = IF @ = 0 THEN NextTrojanBridgePort(TrojanBridgePortsUsed) ELSE @]
  <2>1. PICK i \in Slots, sent \in Bodies :
            /\ ValidTrojanRelay(B(sent)) /\ ~TrojanConflict("trojan", B(sent), i)
            /\ BeginReq(h, SaveReq("trojan", i, B(sent)))
    BY <1>2 DEF CreateTrojanRelay
  <2> DEFINE p == IF sent.port = 0 THEN NextTrojanBridgePort(TrojanBridgePortsUsed) ELSE sent.port
  <2>2. B(sent) = [sent EXCEPT !.on = TRUE, !.port = p]
    BY BodyType DEF Relays
  <2>3. B(sent).port \in 1..MaxPort
    BY <2>1 DEF ValidTrojanRelay
  <2> HIDE DEF B, p
  <2>4. B(sent) \in Relays
    BY <2>2, <2>3, SentType
  <2>5. \A e \in Taken("trojan", i) : e.port # B(sent).port
    BY <2>1, NoConflict
  <2>6. SaveSame
    BY <1>2 DEF CreateTrojanRelay
  <2> QED BY <1>0, <2>1, <2>4, <2>5, <2>6, Saved
<1>3. CASE CreateTrojanIngress(h)
  <2> DEFINE B(sent) == [sent EXCEPT !.on = TRUE]
  <2>1. PICK i \in Slots, sent \in Bodies :
            /\ ~TrojanConflict("ingress", B(sent), i)
            /\ BeginReq(h, SaveReq("ingress", i, B(sent)))
    BY <1>3 DEF CreateTrojanIngress
  <2>2. B(sent) \in Relays
    BY BodyType DEF Relays
  <2> HIDE DEF B
  <2>3. \A e \in Taken("ingress", i) : e.port # B(sent).port
    BY <2>1, NoConflict
  <2>4. SaveSame
    BY <1>3 DEF CreateTrojanIngress
  <2> QED BY <1>0, <2>1, <2>2, <2>3, <2>4, Saved
<1>4. CASE UpdateTrojanRelay(h)
  <2>1. PICK i \in Slots, b \in Bodies :
            ~TrojanConflict("trojan", b, i) /\ BeginReq(h, SaveReq("trojan", i, b))
    BY <1>4 DEF UpdateTrojanRelay
  <2>2. \A e \in Taken("trojan", i) : e.port # b.port
    BY <2>1, NoConflict
  <2>3. SaveSame
    BY <1>4 DEF UpdateTrojanRelay
  <2> QED BY <1>0, <2>1, <2>2, <2>3, BodyType, Saved
<1>5. CASE UpdateTrojanIngress(h)
  <2>1. PICK i \in Slots, b \in Bodies :
            ~TrojanConflict("ingress", b, i) /\ BeginReq(h, SaveReq("ingress", i, b))
    BY <1>5 DEF UpdateTrojanIngress
  <2>2. \A e \in Taken("ingress", i) : e.port # b.port
    BY <2>1, NoConflict
  <2>3. SaveSame
    BY <1>5 DEF UpdateTrojanIngress
  <2> QED BY <1>0, <2>1, <2>2, <2>3, BodyType, Saved
<1> QED BY <1>1, <1>2, <1>3, <1>4, <1>5

LEMMA DeleteSteps ==
  ASSUME TunInv, NEW h \in TunHandlers, NEW k \in Kinds, DeleteRow(h, k)
  PROVE  TunInv'
<1> DEFINE r == [NoReq EXCEPT !.pc = "end", !.kind = k]
<1>1. PICK i \in Slots : rows' = [rows EXCEPT ![k][i] = NoBody]
  BY DEF DeleteRow
<1>2. BeginReq(h, r) /\ UNCHANGED <<conf, unit, svc, loose>>
  BY DEF DeleteRow
<1>3. /\ r \in ReqRecord /\ r.pc = "end" /\ r.kind = k
      /\ r.cfg = NoFile /\ r.prev = NoFile
  BY NoReqType DEF ReqRecord
<1> HIDE DEF r
<1>4. WellFormed(r) /\ KindsOf(r) = {k}
  BY <1>3 DEF WellFormed, PurgePcs, KindsOf, Kinds, Suite
<1>5. rows \in [Kinds -> [Slots -> Relays]]
  BY DEF TunInv, TunShape
<1>6. rows' \in [Kinds -> [Slots -> Relays]]
  BY <1>1, <1>5, NoBodyType
<1>7. /\ \A m \in Kinds : m # k => rows'[m] = rows[m]
      /\ \A j \in Slots : rows'[k][j] = NoBody \/ rows'[k][j] = rows[k][j]
  BY <1>1, <1>5
<1>8. still' \subseteq Kinds
  BY <1>2 DEF BeginReq, TunInv, TunShape
<1>9. Apart(rows[k]) => Apart(rows'[k])
  BY <1>7 DEF Apart
<1>10. ASSUME OkFor(k, NoReq, rows[k], conf[k], unit[k], svc[k], loose)
       PROVE  OkFor(k, r, rows'[k], conf[k], unit[k], svc[k], loose')
  <2>1. /\ k # "bridge" => Apart(rows'[k]) /\ Bindable(conf[k])
        /\ k \notin loose => Quiet(conf[k], svc[k]) /\ (svc[k].is = "config" => unit[k])
    BY <1>9, <1>10, NoReqEasy, OkQuiet
  <2> QED BY <1>2, <1>3, <2>1, NoReqEasy, OkFrom
<1>11. \A m \in still' : m \in KindsOf(r) =>
          (OkFor(m, NoReq, rows[m], conf[m], unit[m], svc[m], loose)
              => OkFor(m, r, rows'[m], conf[m], unit[m], svc[m], loose'))
  BY <1>4, <1>10
<1>12. \A m \in still' : m \notin KindsOf(r) => rows'[m] = rows[m] /\ (m \in loose => m \in loose')
  BY <1>2, <1>4, <1>7, <1>8
<1>13. r.pc # "idle" /\ loose' \subseteq Kinds
  BY <1>2, <1>3 DEF TunInv, TunShape
<1> QED BY <1>2, <1>3, <1>4, <1>6, <1>11, <1>12, <1>13, Enter

LEMMA ApplySteps ==
  ASSUME TunInv, NEW h \in TunHandlers,
         ApplyBridge(h) \/ ApplyTrojanBridge(h) \/ ApplyTrojanIngress(h)
  PROVE  TunInv'
<1>1. ASSUME NEW k \in Kinds, NEW pc \in {"unit", "write"},
             (k = "ingress") <=> (pc = "write"),
             BeginReq(h, [NoReq EXCEPT !.kind = k, !.cfg = Render(k), !.pc = pc]), SaveSame
      PROVE  TunInv'
  <2> DEFINE f == Render(k)
             r == [NoReq EXCEPT !.kind = k, !.cfg = f, !.pc = pc]
  <2>1. BeginReq(h, r) /\ UNCHANGED <<rows, conf, unit, svc, loose>>
    BY <1>1 DEF SaveSame
  <2>2. f \in Files /\ (Apart(rows[k]) => Bindable(f))
    BY RenderRows DEF TunInv, TunShape
  <2> HIDE DEF f
  <2>3. r \in ReqRecord /\ r.pc = pc /\ r.kind = k /\ r.cfg = f /\ r.prev = NoFile
    BY <2>2, NoReqType DEF ReqRecord
  <2> HIDE DEF r
  <2>4. WellFormed(r) /\ KindsOf(r) = {k}
    BY <2>3 DEF WellFormed, PurgePcs, KindsOf, Kinds, Suite
  <2>5. ASSUME OkFor(k, NoReq, rows[k], conf[k], unit[k], svc[k], loose)
        PROVE  OkFor(k, r, rows[k], conf[k], unit[k], svc[k], loose)
    <3>1. /\ k # "bridge" => Apart(rows[k]) /\ Bindable(conf[k])
          /\ k \notin loose => Quiet(conf[k], svc[k]) /\ (svc[k].is = "config" => unit[k])
      BY <2>5, NoReqEasy, OkQuiet
    <3>2. r.pc \in {"idle", "row", "unit", "prev", "write", "end"} /\ r.pc # "prev" /\ r.pc # "row"
      BY <2>3
    <3>3. r.pc = "write" => r.kind = "ingress"
      BY <1>1, <2>3
    <3>4. k # "bridge" => Apart(rows[k]) /\ Bindable(conf[k]) /\ Bindable(r.cfg) /\ Bindable(r.prev)
      BY <2>2, <2>3, <3>1, NoReqEasy
    <3> QED BY <3>1, <3>2, <3>3, <3>4, OkFrom
  <2>6. rows' \in [Kinds -> [Slots -> Relays]] /\ loose' \subseteq Kinds
    BY <2>1 DEF TunInv, TunShape
  <2>7. r.pc # "idle"
    BY <2>3
  <2> QED BY <2>1, <2>3, <2>4, <2>5, <2>6, <2>7, Enter
<1>2. CASE ApplyBridge(h)
  BY <1>1, <1>2 DEF ApplyBridge, Kinds, Suite
<1>3. CASE ApplyTrojanBridge(h)
  BY <1>1, <1>3 DEF ApplyTrojanBridge, Kinds, Suite
<1>4. CASE ApplyTrojanIngress(h)
  BY <1>1, <1>4 DEF ApplyTrojanIngress, Kinds, Suite
<1> QED BY <1>2, <1>3, <1>4

LEMMA PurgeBegins ==
  ASSUME TunInv, NEW h \in TunHandlers, PurgeList(h)
  PROVE  TunInv'
<1>0. PICK seen \in SUBSET Suite :
          /\ BeginReq(h, [NoReq EXCEPT !.pc = "purge", !.kind = "suite",
                                       !.listed = {r \in seen \X Slots : rows[r[1]][r[2]] # NoBody}])
          /\ loose' = (loose \cup Suite) \ seen
  BY DEF PurgeList
<1> DEFINE L == {r \in seen \X Slots : rows[r[1]][r[2]] # NoBody}
           r == [NoReq EXCEPT !.pc = "purge", !.kind = "suite", !.listed = L]
<1>1. BeginReq(h, r) /\ UNCHANGED <<rows, conf, unit, svc>>
  BY <1>0 DEF PurgeList
<1>2. L \subseteq Suite \X Slots
  OBVIOUS
<1>3. \A k \in seen, i \in Slots : rows[k][i] # NoBody => <<k, i>> \in L
  OBVIOUS
<1> HIDE DEF L
<1>4. /\ r \in ReqRecord /\ r.pc = "purge" /\ r.kind = "suite" /\ r.listed = L
      /\ r.cfg = NoFile /\ r.prev = NoFile
  BY <1>2, NoReqType DEF ReqRecord, PurgePcs
<1> HIDE DEF r
<1>5. WellFormed(r) /\ KindsOf(r) = Suite
  BY <1>4 DEF WellFormed, PurgePcs, KindsOf
<1>6. ASSUME NEW k \in Suite, OkFor(k, NoReq, rows[k], conf[k], unit[k], svc[k], loose)
      PROVE  OkFor(k, r, rows[k], conf[k], unit[k], svc[k], loose')
  <2>1. k # "bridge" => Apart(rows[k]) /\ Bindable(conf[k])
    BY <1>6, OkQuiet
  <2>2. k \notin loose' => k \in seen
    BY <1>0
  <2>3. Midway(r)
    BY <1>4 DEF Midway
  <2>4. k \notin loose' => \A i \in Slots : rows[k][i] # NoBody => <<k, i>> \in r.listed
    BY <1>3, <1>4, <2>2
  <2> QED BY <1>4, <2>1, <2>3, <2>4, NoReqEasy DEF OkFor
<1>7. rows' \in [Kinds -> [Slots -> Relays]] /\ loose' \subseteq Kinds
  BY <1>0, <1>1, KindSet DEF TunInv, TunShape
<1>8. r.pc # "idle"
  BY <1>4
<1>9. \A k \in still' : k \notin KindsOf(r) => rows'[k] = rows[k] /\ (k \in loose => k \in loose')
  BY <1>0, <1>1, <1>5
<1>10. \A k \in still' : k \in KindsOf(r) =>
          (OkFor(k, NoReq, rows[k], conf[k], unit[k], svc[k], loose)
              => OkFor(k, r, rows'[k], conf[k], unit[k], svc[k], loose'))
  BY <1>1, <1>5, <1>6
<1> QED BY <1>1, <1>4, <1>5, <1>7, <1>8, <1>9, <1>10, Enter

-----------------------------------------------------------------------------
(* The requests go on.                                                     *)

LEMMA TunTypes ==
  ASSUME TunInv
  PROVE  /\ TunShape /\ rows \in [Kinds -> [Slots -> Relays]] /\ conf \in [Kinds -> Files]
         /\ unit \in [Kinds -> BOOLEAN] /\ svc \in [Kinds -> Files]
         /\ still \subseteq Kinds /\ loose \subseteq Kinds
BY DEF TunInv, TunShape

LEMMA WriteRowStep ==
  ASSUME TunInv, NEW h \in TunHandlers, WriteRow(h)
  PROVE  TunInv'
<1> DEFINE k == treq[h].kind
           i == treq[h].slot
           b == treq[h].body
<1>1. /\ treq[h].pc = "row" /\ rows' = [rows EXCEPT ![k][i] = b]
      /\ treq' = [treq EXCEPT ![h] = NoReq] /\ UNCHANGED <<conf, unit, svc, still, loose>>
  BY DEF WriteRow, Reply
<1>2. k \in Kinds /\ KindsOf(treq[h]) = {k} /\ b \in Relays /\ i \in Slots
  BY <1>1, TunTypes, WorkerShape DEF PurgePcs
<1>3. rows' \in [Kinds -> [Slots -> Relays]]
  BY <1>1, <1>2, TunTypes
<1>4. /\ \A m \in Kinds : m # k => rows'[m] = rows[m]
      /\ rows'[k][i] = b
      /\ \A j \in Slots : j # i => rows'[k][j] = rows[k][j]
  BY <1>1, <1>2, TunTypes
<1>5. ASSUME OkFor(k, treq[h], rows[k], conf[k], unit[k], svc[k], loose)
      PROVE  OkFor(k, NoReq, rows'[k], conf[k], unit[k], svc[k], loose)
  <2>1. ~Midway(treq[h])
    BY <1>1 DEF Midway
  <2>2. /\ k # "bridge" => Bindable(conf[k])
        /\ k \notin loose => Quiet(conf[k], svc[k]) /\ (svc[k].is = "config" => unit[k])
    BY <1>5, <2>1, OkQuiet
  <2>3. ASSUME k # "bridge" PROVE Apart(rows'[k])
    <3>1. Apart(rows[k])
      BY <1>5, <2>3 DEF OkFor
    <3>2. \A j \in Slots \ {i} : rows[k][j] # NoBody => rows[k][j].port # b.port
      BY <1>1, <1>5, <2>3 DEF OkFor
    <3> HIDE DEF k, i, b
    <3> QED BY <1>2, <1>4, <3>1, <3>2 DEF Apart
  <2> QED BY <2>2, <2>3, NoReqEasy, NoReqType, OkFrom
<1>6. \A m \in still' : m \in KindsOf(treq[h]) =>
         (OkFor(m, treq[h], rows[m], conf[m], unit[m], svc[m], loose)
             => OkFor(m, NoReq, rows'[m], conf'[m], unit'[m], svc'[m], loose'))
  BY <1>1, <1>2, <1>5
<1>7. \A m \in still' : m \notin KindsOf(treq[h]) =>
         \A q : OkFor(m, q, rows[m], conf[m], unit[m], svc[m], loose)
                  => OkFor(m, q, rows'[m], conf'[m], unit'[m], svc'[m], loose')
  BY <1>1, <1>2, <1>4, TunTypes
<1>8. /\ conf' \in [Kinds -> Files] /\ unit' \in [Kinds -> BOOLEAN] /\ loose' \subseteq Kinds
      /\ svc' \in [Kinds -> Files] /\ still' \subseteq still /\ treq[h].pc # "idle"
  BY <1>1, TunTypes
<1> QED BY <1>1, <1>3, <1>6, <1>7, <1>8, NoReqType, Advance

\* A request that goes on to another place changes nothing but its own service.
ServiceTo(k, c, u, s, L) ==
  /\ conf' = [conf EXCEPT ![k] = c] /\ unit' = [unit EXCEPT ![k] = u]
  /\ svc' = [svc EXCEPT ![k] = s] /\ loose' = L /\ UNCHANGED <<rows, still>>
  /\ L \subseteq loose \cup {k} /\ loose \ {k} \subseteq L

Leads(h, k, r, c, u, s, L) ==
  OkFor(k, treq[h], rows[k], conf[k], unit[k], svc[k], loose) => OkFor(k, r, rows[k], c, u, s, L)

LEMMA Went ==
  ASSUME TunInv, NEW h \in TunHandlers, NEW k, k = treq[h].kind,
         treq[h].pc \notin PurgePcs \cup {"idle"},
         NEW r \in ReqRecord, WellFormed(r), r = NoReq \/ (r.pc # "idle" /\ r.kind = k),
         treq' = [treq EXCEPT ![h] = r],
         NEW c \in Files, NEW u \in BOOLEAN, NEW s \in Files, NEW L,
         ServiceTo(k, c, u, s, L),
         Leads(h, k, r, c, u, s, L)
  PROVE  TunInv'
<1>0. /\ conf' = [conf EXCEPT ![k] = c] /\ unit' = [unit EXCEPT ![k] = u]
      /\ svc' = [svc EXCEPT ![k] = s] /\ loose' = L /\ rows' = rows /\ still' = still
      /\ L \subseteq loose \cup {k} /\ loose \ {k} \subseteq L
  BY DEF ServiceTo
<1>1. k \in Kinds /\ KindsOf(treq[h]) = {k}
  BY TunTypes, WorkerShape
<1>2. r = NoReq \/ (r.pc # "idle" /\ KindsOf(r) = KindsOf(treq[h]))
  BY <1>1 DEF KindsOf, Kinds, Suite
<1>3. /\ conf' \in [Kinds -> Files] /\ unit' \in [Kinds -> BOOLEAN]
      /\ svc' \in [Kinds -> Files] /\ rows' \in [Kinds -> [Slots -> Relays]]
      /\ still' \subseteq still /\ treq[h].pc # "idle" /\ loose' \subseteq Kinds
  BY <1>0, <1>1, TunTypes
<1>4. conf'[k] = c /\ unit'[k] = u /\ svc'[k] = s /\ rows'[k] = rows[k]
  BY <1>0, <1>1, TunTypes
<1>5. \A m \in still' : m \in KindsOf(treq[h]) =>
         (OkFor(m, treq[h], rows[m], conf[m], unit[m], svc[m], loose)
             => OkFor(m, r, rows'[m], conf'[m], unit'[m], svc'[m], loose'))
  BY <1>0, <1>1, <1>4 DEF Leads
<1>6. ASSUME NEW m \in still', m \notin KindsOf(treq[h])
      PROVE  \A q : OkFor(m, q, rows[m], conf[m], unit[m], svc[m], loose)
                       => OkFor(m, q, rows'[m], conf'[m], unit'[m], svc'[m], loose')
  <2>1. /\ rows'[m] = rows[m] /\ conf'[m] = conf[m]
        /\ unit'[m] = unit[m] /\ svc'[m] = svc[m]
    BY <1>0, <1>1, <1>3, <1>6, TunTypes
  <2>2. m \in loose => m \in loose'
    BY <1>0, <1>1, <1>6
  <2> QED BY <2>1, <2>2, OkLoose
<1> QED BY <1>1, <1>2, <1>3, <1>5, <1>6, Advance

\* The request ends.
LEMMA WentEnd ==
  ASSUME TunInv, NEW h \in TunHandlers, NEW k, k = treq[h].kind,
         treq[h].pc \notin PurgePcs \cup {"idle"}, Reply(h),
         NEW c \in Files, NEW u \in BOOLEAN, NEW s \in Files, NEW L,
         ServiceTo(k, c, u, s, L),
         Leads(h, k, NoReq, c, u, s, L)
  PROVE  TunInv'
<1> DEFINE r == NoReq
<1>1. r \in ReqRecord /\ WellFormed(r)
  BY NoReqType
<1>2. r = NoReq \/ (r.pc # "idle" /\ r.kind = k)
  OBVIOUS
<1>3. treq' = [treq EXCEPT ![h] = r]
  BY DEF Reply
<1>4. Leads(h, k, r, c, u, s, L)
  OBVIOUS
<1> HIDE DEF r
<1> QED BY <1>1, <1>2, <1>3, <1>4, Went

LEMMA SameAt ==
  ASSUME TunInv, NEW k \in Kinds
  PROVE  /\ conf[k] \in Files /\ svc[k] \in Files /\ unit[k] \in BOOLEAN
         /\ (conf' = conf) => conf' = [conf EXCEPT ![k] = conf[k]]
         /\ (unit' = unit) => unit' = [unit EXCEPT ![k] = unit[k]]
         /\ (svc' = svc) => svc' = [svc EXCEPT ![k] = svc[k]]
BY TunTypes

LEMMA RejectedStep ==
  ASSUME TunInv, NEW h \in TunHandlers, Rejected(h)
  PROVE  TunInv'
<1>1. /\ \/ treq[h].pc = "unit" /\ treq[h].kind # "ingress"
         \/ treq[h].pc = "write" /\ treq[h].kind = "ingress"
      /\ Reply(h) /\ UNCHANGED <<rows, conf, unit, svc, still, loose>>
  BY DEF Rejected
<1>2. treq[h].pc # "idle" /\ ~Midway(treq[h])
  BY <1>1 DEF Midway
<1> QED BY <1>1, <1>2, OkQuiet, ReplyOk

LEMMA EndSteps ==
  ASSUME TunInv, NEW h \in TunHandlers, EndReq(h) \/ EndPurge(h)
  PROVE  TunInv'
<1>1. /\ treq[h].pc \in {"end", "stopped", "undone", "purged"}
      /\ Reply(h) /\ UNCHANGED <<rows, conf, unit, svc, still, loose>>
  BY DEF EndReq, EndPurge
<1>2. treq[h].pc # "idle" /\ ~Midway(treq[h])
  BY <1>1 DEF Midway
<1> QED BY <1>1, <1>2, OkQuiet, ReplyOk

\* In an apply.
LEMMA OkMake ==
  ASSUME NEW k, NEW r, NEW rk, NEW c, NEW u, NEW s, NEW L,
         r.pc \notin PurgePcs \cup {"row"},
         k # "bridge" => Apart(rk) /\ Bindable(c) /\ Bindable(r.cfg) /\ Bindable(r.prev),
         r.pc \in {"prev", "restart", "rollback"} \/ (r.pc = "write" /\ r.kind # "ingress") => u,
         k \notin L => /\ ~Midway(r) => Quiet(c, s)
                       /\ s.is = "config" => u
                       /\ r.pc = "undone" => c = r.prev /\ s = Started(r.prev)
                       /\ r.pc = "stopped" => s = NoFile
  PROVE  OkFor(k, r, rk, c, u, s, L)
BY DEF OkFor, PurgePcs

LEMMA InstallUnitStep ==
  ASSUME TunInv, NEW h \in TunHandlers, InstallUnit(h)
  PROVE  TunInv'
<1> DEFINE k == treq[h].kind
<1>0. treq[h].pc = "unit" /\ UNCHANGED <<rows, conf, svc, still, loose>>
  BY DEF InstallUnit
<1>1. /\ k \in Kinds /\ KindsOf(treq[h]) = {k}
      /\ treq[h].pc # "idle" /\ treq[h].pc \notin PurgePcs \cup {"idle"}
  BY <1>0, TunTypes, WorkerShape DEF PurgePcs
<1>2. CASE /\ unit' = [unit EXCEPT ![k] = TRUE]
           /\ Goto(h, CASE k = "ingress" -> "restart" [] OTHER -> "prev")
  <2> DEFINE pc == CASE k = "ingress" -> "restart" [] OTHER -> "prev"
  <2>1. /\ pc \in {"unit", "prev", "write", "restart", "rollback", "end", "stopped", "undone"}
        /\ (k = "ingress" => pc = "restart") /\ (k # "ingress" => pc = "prev")
    OBVIOUS
  <2>2. Goto(h, pc)
    BY <1>2
  <2> HIDE DEF pc
  <2>3. PICK r \in ReqRecord :
            /\ treq' = [treq EXCEPT ![h] = r]
            /\ WellFormed(r) /\ KindsOf(r) = KindsOf(treq[h]) /\ r.pc = pc
            /\ r.kind = treq[h].kind /\ r.cfg = treq[h].cfg /\ r.prev = treq[h].prev
    BY <1>1, <2>1, <2>2, GotoRecord, TunTypes
  <2>4. ASSUME OkFor(k, treq[h], rows[k], conf[k], unit[k], svc[k], loose)
        PROVE  OkFor(k, r, rows[k], conf[k], TRUE, svc[k], loose)
    <3>1. k # "bridge" => Apart(rows[k]) /\ Bindable(conf[k]) /\ Bindable(r.cfg) /\ Bindable(r.prev)
      BY <2>3, <2>4, OkQuiet
    <3>2. k \notin loose /\ ~Midway(r) => Quiet(conf[k], svc[k])
      <4>1. CASE k = "ingress"
        BY <2>1, <2>3, <4>1 DEF Midway
      <4>2. CASE k # "ingress"
        <5>1. ~Midway(treq[h])
          BY <1>0, <4>2 DEF Midway
        <5> QED BY <2>4, <5>1, OkQuiet
      <4> QED BY <4>1, <4>2
    <3>3. r.pc \in {"restart", "prev"}
      BY <2>1, <2>3
    <3> QED BY <3>1, <3>2, <3>3, OkMake DEF PurgePcs
  <2>5. r.pc # "idle" /\ r.kind = k
    BY <2>1, <2>3
  <2>6. conf' = [conf EXCEPT ![k] = conf[k]] /\ svc' = [svc EXCEPT ![k] = svc[k]]
    BY <1>0, <1>1, SameAt
  <2>7. conf[k] \in Files /\ svc[k] \in Files
    BY <1>1, SameAt
  <2>9. /\ k = treq[h].kind /\ TRUE \in BOOLEAN /\ still' = still /\ UNCHANGED rows
        /\ unit' = [unit EXCEPT ![k] = TRUE] /\ treq' = [treq EXCEPT ![h] = r]
        /\ treq[h].pc \notin PurgePcs \cup {"idle"} /\ WellFormed(r) /\ loose' = loose
    BY <1>0, <1>1, <1>2, <2>3
  <2>10. ServiceTo(k, conf[k], TRUE, svc[k], loose)
    BY <2>6, <2>9 DEF ServiceTo
  <2>11. Leads(h, k, r, conf[k], TRUE, svc[k], loose)
    BY <2>4 DEF Leads
  <2> HIDE DEF k
  <2> QED BY <2>11, <2>5, <2>7, <2>9, <2>10, Went
<1>3. CASE ~unit[k] /\ Reply(h) /\ UNCHANGED unit
  <2>1. ASSUME OkFor(k, treq[h], rows[k], conf[k], unit[k], svc[k], loose), k \notin loose
        PROVE  Quiet(conf[k], svc[k]) /\ (svc[k].is = "config" => unit[k])
    <3>1. svc[k].is # "config"
      BY <1>0, <1>3, <2>1 DEF OkFor
    <3> QED BY <3>1 DEF Quiet
  <2> QED BY <1>0, <1>1, <1>3, <2>1, ReplyOk
<1> QED BY <1>2, <1>3 DEF InstallUnit

LEMMA ReadPrevStep ==
  ASSUME TunInv, NEW h \in TunHandlers, ReadPrev(h)
  PROVE  TunInv'
<1> DEFINE k == treq[h].kind
<1>0. treq[h].pc = "prev" /\ UNCHANGED <<rows, conf, unit, svc, still, loose>>
  BY DEF ReadPrev
<1>1. /\ k \in Kinds /\ KindsOf(treq[h]) = {k} /\ treq[h] \in ReqRecord
      /\ treq[h].pc # "idle" /\ treq[h].pc \notin PurgePcs \cup {"idle"} /\ ~Midway(treq[h])
  BY <1>0, TunTypes, WorkerShape DEF PurgePcs, Midway
<1>2. /\ conf[k] \in Files /\ svc[k] \in Files /\ unit[k] \in BOOLEAN
      /\ conf' = [conf EXCEPT ![k] = conf[k]] /\ svc' = [svc EXCEPT ![k] = svc[k]]
      /\ unit' = [unit EXCEPT ![k] = unit[k]]
  BY <1>0, <1>1, SameAt
<1>3. ASSUME NEW f \in {conf[k], NoFile}, treq' = [treq EXCEPT ![h].prev = f, ![h].pc = "write"]
      PROVE  TunInv'
  <2> DEFINE r == [treq[h] EXCEPT !.prev = f, !.pc = "write"]
  <2>0. f \in Files
    BY <1>2, NoFileType
  <2>1. treq' = [treq EXCEPT ![h] = r]
    BY <1>3, TunTypes DEF TunShape
  <2>2. /\ r \in ReqRecord /\ r.pc = "write" /\ r.kind = k
        /\ r.cfg = treq[h].cfg /\ r.prev = f
    BY <1>1, <2>0 DEF ReqRecord
  <2> HIDE DEF r
  <2>3. WellFormed(r) /\ r.pc # "idle"
    BY <1>1, <2>2 DEF WellFormed, PurgePcs
  <2> DEFINE c == conf[k]
             u == unit[k]
             s == svc[k]
  <2>4. ASSUME OkFor(k, treq[h], rows[k], c, u, s, loose)
        PROVE  OkFor(k, r, rows[k], c, u, s, loose)
    <3>1. /\ k # "bridge" => Apart(rows[k]) /\ Bindable(c) /\ Bindable(r.cfg)
          /\ k \notin loose => Quiet(c, s) /\ (s.is = "config" => u)
      BY <1>1, <2>2, <2>4, OkQuiet
    <3>2. u
      BY <1>0, <2>4 DEF OkFor
    <3>3. k # "bridge" => Bindable(r.prev)
      BY <2>2, <3>1, NoReqEasy
    <3>4. /\ r.pc \in {"idle", "row", "unit", "prev", "write", "end"} /\ r.pc # "row"
          /\ k # "bridge" => Apart(rows[k]) /\ Bindable(c) /\ Bindable(r.cfg) /\ Bindable(r.prev)
      BY <2>2, <3>1, <3>3
    <3> HIDE DEF k, c, u, s
    <3> QED BY <2>2, <3>1, <3>2, <3>4 DEF OkFor
  <2>6. /\ k = treq[h].kind /\ still' = still /\ UNCHANGED rows /\ loose' = loose
        /\ treq[h].pc \notin PurgePcs \cup {"idle"} /\ r.kind = k /\ r \in ReqRecord
    BY <1>0, <1>1, <2>2
  <2>7. /\ c \in Files /\ u \in BOOLEAN /\ s \in Files
        /\ conf' = [conf EXCEPT ![k] = c] /\ unit' = [unit EXCEPT ![k] = u]
        /\ svc' = [svc EXCEPT ![k] = s]
    BY <1>2
  <2>8. Leads(h, k, r, c, u, s, loose)
    BY <2>4 DEF Leads
  <2>9. ServiceTo(k, c, u, s, loose)
    BY <2>6, <2>7 DEF ServiceTo
  <2> HIDE DEF k, c, u, s
  <2> QED BY <2>1, <2>3, <2>6, <2>7, <2>8, <2>9, Went
<1>4. CASE Reply(h)
  BY <1>0, <1>1, <1>4, OkQuiet, ReplyOk
<1> QED BY <1>3, <1>4 DEF ReadPrev

Sound(h, k, pc, c, u, s, L) ==
  OkFor(k, treq[h], rows[k], conf[k], unit[k], svc[k], loose) =>
     /\ k # "bridge" => Bindable(c)
     /\ pc \in {"restart", "rollback"} => u
     /\ k \notin L =>
           /\ pc \in {"end", "stopped", "undone"} => Quiet(c, s)
           /\ pc = "unit" /\ k # "ingress" => Quiet(c, s)
           /\ s.is = "config" => u
           /\ pc = "undone" => c = treq[h].prev /\ s = Started(treq[h].prev)
           /\ pc = "stopped" => s = NoFile

\* An apply goes on to pc with the file c and the service s.
LEMMA ApplyGoes ==
  ASSUME TunInv, NEW h \in TunHandlers, NEW k, k = treq[h].kind,
         treq[h].pc \notin PurgePcs \cup {"idle"},
         NEW pc \in {"unit", "restart", "rollback", "end", "stopped", "undone"}, Goto(h, pc),
         NEW c \in Files, NEW s \in Files, NEW L,
         ServiceTo(k, c, unit[k], s, L),
         Sound(h, k, pc, c, unit[k], s, L)
  PROVE  TunInv'
<1> DEFINE u == unit[k]
<1>1. k \in Kinds /\ treq[h].pc # "idle"
  BY TunTypes, WorkerShape
<1>2. u \in BOOLEAN /\ ServiceTo(k, c, u, s, L)
  BY <1>1, SameAt
<1>3. PICK r \in ReqRecord :
          /\ treq' = [treq EXCEPT ![h] = r]
          /\ WellFormed(r) /\ KindsOf(r) = KindsOf(treq[h]) /\ r.pc = pc
          /\ r.kind = treq[h].kind /\ r.cfg = treq[h].cfg /\ r.prev = treq[h].prev
  BY <1>1, GotoRecord, TunTypes
<1>4. ASSUME OkFor(k, treq[h], rows[k], conf[k], unit[k], svc[k], loose)
      PROVE  OkFor(k, r, rows[k], c, u, s, L)
  <2>0. /\ k # "bridge" => Bindable(c)
        /\ pc \in {"restart", "rollback"} => u
        /\ k \notin L =>
              /\ pc \in {"end", "stopped", "undone"} => Quiet(c, s)
              /\ pc = "unit" /\ k # "ingress" => Quiet(c, s)
              /\ s.is = "config" => u
              /\ pc = "undone" => c = treq[h].prev /\ s = Started(treq[h].prev)
              /\ pc = "stopped" => s = NoFile
    BY <1>4 DEF Sound
  <2>1. k # "bridge" => Apart(rows[k]) /\ Bindable(c) /\ Bindable(r.cfg) /\ Bindable(r.prev)
    BY <1>3, <1>4, <2>0, OkQuiet
  <2>2. r.pc \notin PurgePcs \cup {"row", "prev", "write"}
    BY <1>3 DEF PurgePcs
  <2>3. ~Midway(r) => pc \in {"end", "stopped", "undone"} \/ (pc = "unit" /\ k # "ingress")
    BY <1>3 DEF Midway
  <2>4. k \notin L => /\ ~Midway(r) => Quiet(c, s)
                      /\ s.is = "config" => u
                      /\ r.pc = "undone" => c = r.prev /\ s = Started(r.prev)
                      /\ r.pc = "stopped" => s = NoFile
    BY <1>3, <2>0, <2>3
  <2>5. r.pc \in {"prev", "restart", "rollback"} \/ (r.pc = "write" /\ r.kind # "ingress") => u
    BY <1>3, <2>0, <2>2
  <2> QED BY <2>1, <2>2, <2>4, <2>5, OkMake
<1>5. r.pc # "idle" /\ r.kind = k
  BY <1>3
<1>6. Leads(h, k, r, c, u, s, L)
  BY <1>4 DEF Leads
<1> HIDE DEF u
<1> QED BY <1>2, <1>3, <1>5, <1>6, Went

LEMMA WriteConfStep ==
  ASSUME TunInv, NEW h \in TunHandlers, WriteConf(h)
  PROVE  TunInv'
<1> DEFINE k == treq[h].kind
           u == unit[k]
           s == svc[k]
           f == treq[h].cfg
           pc == IF k = "ingress" THEN "unit" ELSE "restart"
<1>0. treq[h].pc = "write" /\ UNCHANGED <<rows, unit, svc, still>>
  BY DEF WriteConf
<1>1. /\ k \in Kinds /\ KindsOf(treq[h]) = {k} /\ f \in Files /\ k = treq[h].kind
      /\ treq[h].pc # "idle" /\ treq[h].pc \notin PurgePcs \cup {"idle"} /\ ~Midway(treq[h])
  BY <1>0, TunTypes, WorkerShape DEF PurgePcs, Midway
<1>2. /\ conf[k] \in Files /\ s \in Files /\ u \in BOOLEAN
      /\ svc' = [svc EXCEPT ![k] = s] /\ unit' = [unit EXCEPT ![k] = u]
  BY <1>0, <1>1, SameAt
<1>3. CASE conf' = [conf EXCEPT ![k] = f] /\ Goto(h, pc) /\ UNCHANGED loose
  <2>1. /\ pc \in {"unit", "restart", "rollback", "end", "stopped", "undone"}
        /\ (k = "ingress" => pc = "unit") /\ (k # "ingress" => pc = "restart")
    OBVIOUS
  <2>2. OkFor(k, treq[h], rows[k], conf[k], unit[k], svc[k], loose) =>
           /\ k # "bridge" => Bindable(f)
           /\ pc \in {"restart", "rollback"} => u
           /\ k \notin loose => (s.is = "config" => u)
    <3> SUFFICES ASSUME OkFor(k, treq[h], rows[k], conf[k], unit[k], svc[k], loose)
                 PROVE  /\ k # "bridge" => Bindable(f)
                        /\ pc \in {"restart", "rollback"} => u
                        /\ k \notin loose => (s.is = "config" => u)
      OBVIOUS
    <3>1. /\ k # "bridge" => Bindable(f)
          /\ k \notin loose => (s.is = "config" => u)
      BY <1>1, OkQuiet
    <3>2. k # "ingress" => u
      BY <1>0 DEF OkFor
    <3> QED BY <2>1, <3>1, <3>2
  <2>3. ServiceTo(k, f, unit[k], s, loose) /\ Goto(h, pc)
    BY <1>0, <1>2, <1>3, <2>1 DEF ServiceTo
  <2>4. Sound(h, k, pc, f, unit[k], s, loose)
    BY <2>1, <2>2 DEF Sound
  <2> HIDE DEF k, u, s, f, pc
  <2> QED BY <1>1, <1>2, <2>1, <2>3, <2>4, ApplyGoes
<1>4. ASSUME NEW g \in {conf[k], Torn}, conf' = [conf EXCEPT ![k] = g],
             loose' = IF g = conf[k] THEN loose ELSE loose \cup {k}, Reply(h)
      PROVE  TunInv'
  <2> DEFINE L == IF g = conf[k] THEN loose ELSE loose \cup {k}
  <2>1. g \in Files
    BY <1>2, FailedType
  <2>2. treq' = [treq EXCEPT ![h] = NoReq] /\ UNCHANGED rows /\ still' = still
    BY <1>0, <1>4 DEF Reply
  <2>3. ASSUME OkFor(k, treq[h], rows[k], conf[k], unit[k], svc[k], loose)
        PROVE  OkFor(k, NoReq, rows[k], g, u, s, L)
    <3>1. /\ k # "bridge" => Apart(rows[k]) /\ Bindable(conf[k])
          /\ k \notin loose => Quiet(conf[k], s) /\ (s.is = "config" => u)
      BY <1>1, <2>3, OkQuiet
    <3>2. Bindable(Torn)
      BY FailedType, EmptyBindable
    <3>3. k \notin L => Quiet(g, s) /\ (s.is = "config" => u)
      BY <3>1
    <3>4. k # "bridge" => Apart(rows[k]) /\ Bindable(g)
      BY <3>1, <3>2
    <3> HIDE DEF k, u, s, f, L
    <3> QED BY <3>3, <3>4, NoReqEasy, NoReqType, OkFrom
  <2>4. Reply(h)
    BY <1>4
  <2>5. ServiceTo(k, g, u, s, L)
    BY <1>2, <1>4, <2>2 DEF ServiceTo
  <2>6. Leads(h, k, NoReq, g, u, s, L)
    BY <2>3 DEF Leads
  <2> HIDE DEF k, u, s, f, pc, L
  <2>7. s \in Files /\ u \in BOOLEAN
    BY <1>2
  <2>8. k = treq[h].kind /\ treq[h].pc \notin PurgePcs \cup {"idle"}
    BY <1>1
  <2> QED BY ONLY TunInv, h \in TunHandlers, <2>1, <2>4, <2>5, <2>6, <2>7, <2>8, WentEnd
<1> QED BY <1>3, <1>4 DEF WriteConf

LEMMA AtRestart ==
  ASSUME TunInv, NEW h \in TunHandlers, treq[h].pc \in {"restart", "rollback"}
  PROVE  LET k == treq[h].kind IN
         /\ k \in Kinds /\ treq[h].pc \notin PurgePcs \cup {"idle"} /\ treq[h].prev \in Files
         /\ OkFor(k, treq[h], rows[k], conf[k], unit[k], svc[k], loose) =>
               unit[k] /\ (k # "bridge" => Bindable(conf[k]) /\ Bindable(treq[h].prev))
<1>1. treq[h].pc \notin PurgePcs \cup {"idle"}
  BY DEF PurgePcs
<1>2. treq[h].kind \in Kinds /\ treq[h].prev \in Files
  BY <1>1, TunTypes, WorkerShape
<1> QED BY <1>1, <1>2 DEF OkFor

LEMMA StopEmptyStep ==
  ASSUME TunInv, NEW h \in TunHandlers, StopEmpty(h)
  PROVE  TunInv'
<1> DEFINE k == treq[h].kind
           c == conf[k]
<1>0. treq[h].pc = "restart" /\ Goto(h, "stopped") /\ UNCHANGED <<rows, conf, unit, still>>
  BY DEF StopEmpty
<1>1. /\ k \in Kinds /\ k = treq[h].kind /\ treq[h].pc \notin PurgePcs \cup {"idle"}
      /\ OkFor(k, treq[h], rows[k], conf[k], unit[k], svc[k], loose) => (k # "bridge" => Bindable(c))
  BY <1>0, AtRestart
<1>2. /\ c \in Files /\ NoFile \in Files /\ svc[k] \in Files
      /\ conf' = [conf EXCEPT ![k] = c] /\ unit' = [unit EXCEPT ![k] = unit[k]]
  BY <1>0, <1>1, SameAt, NoFileType
<1>3. CASE svc' = [svc EXCEPT ![k] = NoFile] /\ loose' = loose \ {k}
  <2>1. ServiceTo(k, c, unit[k], NoFile, loose \ {k})
    BY <1>0, <1>2, <1>3 DEF ServiceTo
  <2>2. Sound(h, k, "stopped", c, unit[k], NoFile, loose \ {k})
    BY <1>1, NoFileType DEF Sound, Quiet
  <2> HIDE DEF k, c
  <2> QED BY <1>0, <1>1, <1>2, <2>1, <2>2, ApplyGoes
<1>4. CASE UNCHANGED svc /\ loose' = loose \cup {k}
  <2>1. svc' = [svc EXCEPT ![k] = svc[k]]
    BY <1>1, <1>4, SameAt
  <2>2. ServiceTo(k, c, unit[k], svc[k], loose \cup {k})
    BY <1>0, <1>2, <1>4, <2>1 DEF ServiceTo
  <2>3. Sound(h, k, "stopped", c, unit[k], svc[k], loose \cup {k})
    BY <1>1 DEF Sound
  <2> HIDE DEF k, c
  <2> QED BY <1>0, <1>1, <1>2, <2>2, <2>3, ApplyGoes
<1> QED BY <1>3, <1>4 DEF StopEmpty

LEMMA RestartStep ==
  ASSUME TunInv, NEW h \in TunHandlers, Restart(h)
  PROVE  TunInv'
<1> DEFINE k == treq[h].kind
           c == conf[k]
           new == Started(c)
<1>0. treq[h].pc = "restart" /\ UNCHANGED <<rows, conf, unit, still>>
  BY DEF Restart
<1>1. /\ k \in Kinds /\ k = treq[h].kind /\ treq[h].pc \notin PurgePcs \cup {"idle"}
      /\ OkFor(k, treq[h], rows[k], conf[k], unit[k], svc[k], loose) =>
            unit[k] /\ (k # "bridge" => Bindable(c))
  BY <1>0, AtRestart
<1>2. /\ c \in Files /\ svc[k] \in Files
      /\ conf' = [conf EXCEPT ![k] = c] /\ unit' = [unit EXCEPT ![k] = unit[k]]
  BY <1>0, <1>1, SameAt
<1>3. new \in Files /\ (new.is = "config" => new = c)
  BY <1>2, StartedFile
<1>4. ASSUME NEW pc \in {"rollback", "end"}, Goto(h, pc), NEW s \in {new, Failed, svc[k]},
             svc' = [svc EXCEPT ![k] = s],
             loose' = IF s \in {new, Failed} THEN loose \ {k} ELSE loose \cup {k}
      PROVE  TunInv'
  <2> DEFINE L == IF s \in {new, Failed} THEN loose \ {k} ELSE loose \cup {k}
  <2>1. s \in Files
    BY <1>2, <1>3, FailedType
  <2>2. ServiceTo(k, c, unit[k], s, L)
    BY <1>0, <1>2, <1>4 DEF ServiceTo
  <2>3. k \notin L => Quiet(c, s)
    BY <1>3, FailedType DEF Quiet
  <2> HIDE DEF L, new, c, k
  <2>4. Sound(h, k, pc, c, unit[k], s, L)
    BY <1>1, <2>3 DEF Sound
  <2>5. pc \in {"unit", "restart", "rollback", "end", "stopped", "undone"}
    OBVIOUS
  <2> QED BY <1>1, <1>2, <1>4, <2>1, <2>2, <2>4, <2>5, ApplyGoes
<1>5. CASE svc' = [svc EXCEPT ![k] = new] /\ loose' = loose \ {k} /\ Goto(h, "end")
  BY <1>4, <1>5
<1>6. ASSUME NEW s \in {new, Failed, svc[k]}, svc' = [svc EXCEPT ![k] = s],
             loose' = IF s \in {new, Failed} THEN loose \ {k} ELSE loose \cup {k},
             Goto(h, IF k # "ingress" /\ treq[h].prev # NoFile THEN "rollback" ELSE "end")
      PROVE  TunInv'
  <2> DEFINE pc == IF k # "ingress" /\ treq[h].prev # NoFile THEN "rollback" ELSE "end"
  <2>1. pc \in {"rollback", "end"} /\ Goto(h, pc)
    BY <1>6
  <2> HIDE DEF pc
  <2> QED BY <1>4, <1>6, <2>1
<1> QED BY <1>5, <1>6 DEF Restart

LEMMA RollbackStep ==
  ASSUME TunInv, NEW h \in TunHandlers, Rollback(h)
  PROVE  TunInv'
<1> DEFINE k == treq[h].kind
           prev == treq[h].prev
<1>0. treq[h].pc = "rollback" /\ Goto(h, "undone") /\ UNCHANGED <<rows, unit, still>>
  BY DEF Rollback
<1>1. /\ k \in Kinds /\ k = treq[h].kind /\ treq[h].pc \notin PurgePcs \cup {"idle"}
      /\ prev \in Files
      /\ OkFor(k, treq[h], rows[k], conf[k], unit[k], svc[k], loose) =>
            unit[k] /\ (k # "bridge" => Bindable(conf[k]) /\ Bindable(prev))
  BY <1>0, AtRestart
<1>2. /\ conf[k] \in Files /\ svc[k] \in Files /\ unit' = [unit EXCEPT ![k] = unit[k]]
  BY <1>0, <1>1, SameAt
<1>3. PICK c \in {prev, conf[k], Torn} : \E s \in {Started(c), Failed, svc[k]} :
          /\ conf' = [conf EXCEPT ![k] = c]
          /\ svc' = [svc EXCEPT ![k] = s]
          /\ loose' = IF c = prev /\ s = Started(prev) THEN loose \ {k} ELSE loose \cup {k}
  BY DEF Rollback
<1>4. PICK s \in {Started(c), Failed, svc[k]} :
          /\ conf' = [conf EXCEPT ![k] = c]
          /\ svc' = [svc EXCEPT ![k] = s]
          /\ loose' = IF c = prev /\ s = Started(prev) THEN loose \ {k} ELSE loose \cup {k}
  BY <1>3
<1> DEFINE L == IF c = prev /\ s = Started(prev) THEN loose \ {k} ELSE loose \cup {k}
<1>5. c \in Files
  BY <1>1, <1>2, FailedType
<1>6. s \in Files
  BY <1>2, <1>5, StartedFile, FailedType
<1>7. ServiceTo(k, c, unit[k], s, L)
  BY <1>0, <1>2, <1>4 DEF ServiceTo
<1>8. k \notin L => c = prev /\ s = Started(prev) /\ Quiet(c, s)
  BY <1>1, StartedFile DEF Quiet
<1>9. Bindable(Torn)
  BY FailedType, EmptyBindable
<1>10. OkFor(k, treq[h], rows[k], conf[k], unit[k], svc[k], loose) =>
          unit[k] /\ (k # "bridge" => Bindable(c))
  BY <1>1, <1>9
<1>11. prev = treq[h].prev
  OBVIOUS
<1> HIDE DEF L, k, prev
<1>12. Sound(h, k, "undone", c, unit[k], s, L)
  BY <1>8, <1>10, <1>11 DEF Sound
<1> QED BY <1>0, <1>1, <1>5, <1>6, <1>7, <1>12, ApplyGoes

-----------------------------------------------------------------------------
(* The purge.                                                              *)

\* What Goto makes of a purge.
LEMMA PurgeGoto ==
  ASSUME TunShape, NEW h \in TunHandlers, treq[h].pc \in PurgePcs,
         NEW pc \in PurgePcs, Goto(h, pc)
  PROVE  \E r \in ReqRecord :
            /\ treq' = [treq EXCEPT ![h] = r]
            /\ WellFormed(r) /\ KindsOf(r) = KindsOf(treq[h]) /\ r.pc = pc
            /\ r.cfg = treq[h].cfg /\ r.prev = treq[h].prev
<1> DEFINE r == [treq[h] EXCEPT !.pc = pc]
<1>1. treq[h] \in ReqRecord /\ treq[h].kind = "suite"
  BY PurgeShape
<1>2. r \in ReqRecord /\ r.pc = pc /\ r.kind = "suite" /\ r.cfg = treq[h].cfg /\ r.prev = treq[h].prev
  BY <1>1 DEF ReqRecord
<1>3. treq' = [treq EXCEPT ![h] = r]
  BY DEF Goto
<1> HIDE DEF r
<1>4. WellFormed(r)
  BY <1>2 DEF WellFormed, PurgePcs
<1>5. KindsOf(r) = KindsOf(treq[h])
  BY <1>1, <1>2 DEF KindsOf
<1> QED BY <1>2, <1>3, <1>4, <1>5

\* At the places of a purge.
LEMMA OkPurge ==
  ASSUME NEW k, NEW r, NEW rk, NEW c, NEW u, NEW s, NEW L,
         r.pc \in {"units", "files", "purged"},
         k # "bridge" => Apart(rk) /\ Bindable(c) /\ Bindable(r.cfg) /\ Bindable(r.prev),
         k \notin L => /\ \A i \in Slots : rk[i] = NoBody
                       /\ r.pc \in {"files", "purged"} => s = NoFile /\ ~u
                       /\ r.pc = "purged" => c = NoFile
  PROVE  OkFor(k, r, rk, c, u, s, L)
<1>1. r.pc \in {"files", "purged"} => ~Midway(r) \/ r.pc = "units"
  BY DEF Midway
<1>2. s = NoFile => Quiet(c, s) /\ s.is # "config"
  BY NoFileType DEF Quiet
<1>3. r.pc = "units" => Midway(r)
  BY DEF Midway
<1> QED BY <1>1, <1>2, <1>3 DEF OkFor

LEMMA PurgeRowsStep ==
  ASSUME TunInv, NEW h \in TunHandlers, PurgeRows(h)
  PROVE  TunInv'
<1> DEFINE L == treq[h].listed
<1>a. PICK kept \in SUBSET L :
          /\ rows' = [k \in Kinds |-> [i \in Slots |-> IF <<k, i>> \in L \ kept THEN NoBody ELSE rows[k][i]]]
          /\ loose' = loose \cup {x[1] : x \in kept}
  BY DEF PurgeRows
<1>0. treq[h].pc = "purge" /\ Goto(h, "units") /\ UNCHANGED <<conf, unit, svc, still>>
  BY DEF PurgeRows
<1>1. /\ KindsOf(treq[h]) = {"trojan", "ingress"} /\ L \subseteq {"trojan", "ingress"} \X Slots
      /\ treq[h].pc \in PurgePcs /\ treq[h].pc # "idle" /\ "units" \in PurgePcs
  BY <1>0, TunTypes, PurgeShape DEF PurgePcs
<1>2. PICK r \in ReqRecord :
          /\ treq' = [treq EXCEPT ![h] = r]
          /\ WellFormed(r) /\ KindsOf(r) = KindsOf(treq[h]) /\ r.pc = "units"
          /\ r.cfg = treq[h].cfg /\ r.prev = treq[h].prev
  BY <1>0, <1>1, PurgeGoto, TunTypes
<1>3. rows' \in [Kinds -> [Slots -> Relays]]
  BY <1>a, NoBodyType, TunTypes
<1>4. \A m \in Kinds : m \notin {"trojan", "ingress"} => rows'[m] = rows[m]
  <2> SUFFICES ASSUME NEW m \in Kinds, m \notin {"trojan", "ingress"} PROVE rows'[m] = rows[m]
    OBVIOUS
  <2>1. \A i \in Slots : <<m, i>> \notin L
    BY <1>1
  <2>2. rows'[m] = [i \in Slots |-> rows[m][i]]
    BY <1>a, <2>1
  <2> QED BY <2>2, TunTypes
<1>5. ASSUME NEW k \in Kinds, OkFor(k, treq[h], rows[k], conf[k], unit[k], svc[k], loose)
      PROVE  OkFor(k, r, rows'[k], conf[k], unit[k], svc[k], loose')
  <2>1. k # "bridge" => Apart(rows[k]) /\ Bindable(conf[k]) /\ Bindable(r.cfg) /\ Bindable(r.prev)
    BY <1>2, <1>5, OkQuiet
  <2>2. \A i \in Slots : rows'[k][i] = NoBody \/ rows'[k][i] = rows[k][i]
    BY <1>a
  <2>3. Apart(rows[k]) => Apart(rows'[k])
    BY <2>2 DEF Apart
  <2>4. ASSUME k \notin loose', NEW i \in Slots PROVE rows'[k][i] = NoBody
    <3>1. rows[k][i] # NoBody => <<k, i>> \in L
      BY <1>0, <1>a, <1>5, <2>4 DEF OkFor
    <3>2. <<k, i>> \notin kept
      BY <1>a, <2>4
    <3> QED BY <1>a, <3>1, <3>2
  <2>5. r.pc \in {"units", "files", "purged"} /\ r.pc \notin {"files", "purged"} /\ r.pc # "purged"
    BY <1>2
  <2> QED BY <2>1, <2>3, <2>4, <2>5, OkPurge
<1>6. \A k \in still' : k \in KindsOf(treq[h]) =>
         (OkFor(k, treq[h], rows[k], conf[k], unit[k], svc[k], loose)
             => OkFor(k, r, rows'[k], conf'[k], unit'[k], svc'[k], loose'))
  BY <1>0, <1>1, <1>5, TunTypes
<1>7. \A k \in still' : k \notin KindsOf(treq[h]) =>
         \A q : OkFor(k, q, rows[k], conf[k], unit[k], svc[k], loose)
                  => OkFor(k, q, rows'[k], conf'[k], unit'[k], svc'[k], loose')
  BY <1>0, <1>a, <1>1, <1>4, TunTypes, OkLoose
<1>8. /\ conf' \in [Kinds -> Files] /\ unit' \in [Kinds -> BOOLEAN] /\ svc' \in [Kinds -> Files]
      /\ still' \subseteq still /\ r.pc # "idle"
  BY <1>0, <1>2, TunTypes
<1>9. loose' \subseteq Kinds
  BY <1>a, <1>1, TunTypes, KindSet
<1> QED BY <1>1, <1>2, <1>3, <1>6, <1>7, <1>8, <1>9, Advance

LEMMA PurgeUnitsStep ==
  ASSUME TunInv, NEW h \in TunHandlers, PurgeUnits(h)
  PROVE  TunInv'
<1>a. PICK up \in SUBSET Suite, kept \in SUBSET Suite :
          /\ svc' = [k \in Kinds |-> IF k \in Suite \ up THEN NoFile ELSE svc[k]]
          /\ unit' = [k \in Kinds |-> IF k \in Suite \ kept THEN FALSE ELSE unit[k]]
          /\ loose' = loose \cup up \cup kept
  BY DEF PurgeUnits
<1>0. treq[h].pc = "units" /\ Goto(h, "files") /\ UNCHANGED <<rows, conf, still>>
  BY DEF PurgeUnits
<1>1. /\ KindsOf(treq[h]) = Suite
      /\ treq[h].pc \in PurgePcs /\ treq[h].pc # "idle" /\ "files" \in PurgePcs
  BY <1>0, TunTypes, PurgeShape, KindSet DEF PurgePcs
<1>2. PICK r \in ReqRecord :
          /\ treq' = [treq EXCEPT ![h] = r]
          /\ WellFormed(r) /\ KindsOf(r) = KindsOf(treq[h]) /\ r.pc = "files"
          /\ r.cfg = treq[h].cfg /\ r.prev = treq[h].prev
  BY <1>0, <1>1, PurgeGoto, TunTypes
<1>3. ASSUME NEW k \in Suite, OkFor(k, treq[h], rows[k], conf[k], unit[k], svc[k], loose)
      PROVE  OkFor(k, r, rows[k], conf[k], unit'[k], svc'[k], loose')
  <2>1. /\ k # "bridge" => Apart(rows[k]) /\ Bindable(conf[k]) /\ Bindable(r.cfg) /\ Bindable(r.prev)
        /\ k \in Kinds
    BY <1>2, <1>3, OkQuiet, KindSet
  <2>2. ASSUME k \notin loose' PROVE svc'[k] = NoFile /\ ~unit'[k]
    BY <1>a, <2>1, <2>2
  <2>3. ASSUME k \notin loose', NEW i \in Slots PROVE rows[k][i] = NoBody
    BY <1>0, <1>a, <1>3, <2>3 DEF OkFor
  <2>4. r.pc \in {"units", "files", "purged"} /\ r.pc # "purged"
    BY <1>2
  <2> QED BY <2>1, <2>2, <2>3, <2>4, OkPurge
<1>5. \A k \in Kinds : k \notin Suite => svc'[k] = svc[k] /\ unit'[k] = unit[k]
  BY <1>a
<1>6. \A k \in still' : k \in KindsOf(treq[h]) =>
         (OkFor(k, treq[h], rows[k], conf[k], unit[k], svc[k], loose)
             => OkFor(k, r, rows'[k], conf'[k], unit'[k], svc'[k], loose'))
  BY <1>0, <1>1, <1>3
<1>7. \A k \in still' : k \notin KindsOf(treq[h]) =>
         \A q : OkFor(k, q, rows[k], conf[k], unit[k], svc[k], loose)
                  => OkFor(k, q, rows'[k], conf'[k], unit'[k], svc'[k], loose')
  BY <1>0, <1>a, <1>1, <1>5, TunTypes, OkLoose
<1>8. /\ conf' \in [Kinds -> Files] /\ rows' \in [Kinds -> [Slots -> Relays]]
      /\ still' \subseteq still /\ r.pc # "idle"
  BY <1>0, <1>2, TunTypes
<1>9. svc' \in [Kinds -> Files]
  BY <1>a, TunTypes, NoFileType
<1>10. unit' \in [Kinds -> BOOLEAN] /\ loose' \subseteq Kinds
  BY <1>a, TunTypes, KindSet
<1> QED BY <1>1, <1>2, <1>6, <1>7, <1>8, <1>9, <1>10, Advance

LEMMA PurgeFilesStep ==
  ASSUME TunInv, NEW h \in TunHandlers, PurgeFiles(h)
  PROVE  TunInv'
<1>a. PICK kept \in SUBSET Kinds :
          /\ conf' = [k \in Kinds |-> IF k \in kept THEN conf[k] ELSE NoFile]
          /\ loose' = loose \cup (kept \cap Suite)
                           \cup (IF conf["bridge"] = conf'["bridge"] THEN {} ELSE {"bridge"})
  BY DEF PurgeFiles
<1>0. treq[h].pc = "files" /\ Goto(h, "purged") /\ UNCHANGED <<rows, unit, svc, still>>
  BY DEF PurgeFiles
<1>1. /\ KindsOf(treq[h]) = Suite
      /\ treq[h].pc \in PurgePcs /\ treq[h].pc # "idle" /\ "purged" \in PurgePcs
  BY <1>0, TunTypes, PurgeShape, KindSet DEF PurgePcs
<1>2. PICK r \in ReqRecord :
          /\ treq' = [treq EXCEPT ![h] = r]
          /\ WellFormed(r) /\ KindsOf(r) = KindsOf(treq[h]) /\ r.pc = "purged"
          /\ r.cfg = treq[h].cfg /\ r.prev = treq[h].prev
  BY <1>0, <1>1, PurgeGoto, TunTypes
<1>3. ASSUME NEW k \in Suite, OkFor(k, treq[h], rows[k], conf[k], unit[k], svc[k], loose)
      PROVE  OkFor(k, r, rows[k], conf'[k], unit[k], svc[k], loose')
  <2>1. /\ k # "bridge" => Apart(rows[k]) /\ Bindable(conf[k]) /\ Bindable(r.cfg) /\ Bindable(r.prev)
        /\ k \in Kinds
    BY <1>2, <1>3, OkQuiet, KindSet
  <2>2. conf'[k] = conf[k] \/ conf'[k] = NoFile
    BY <1>a, <2>1
  <2>3. k # "bridge" => Apart(rows[k]) /\ Bindable(conf'[k]) /\ Bindable(r.cfg) /\ Bindable(r.prev)
    BY <2>1, <2>2, NoReqEasy
  <2>4. ASSUME k \notin loose' PROVE conf'[k] = NoFile
    BY <1>a, <2>1, <2>4
  <2>5. ASSUME k \notin loose' PROVE svc[k] = NoFile /\ ~unit[k] /\ \A i \in Slots : rows[k][i] = NoBody
    BY <1>0, <1>a, <1>3, <2>5 DEF OkFor
  <2>6. r.pc \in {"units", "files", "purged"}
    BY <1>2
  <2> QED BY <2>3, <2>4, <2>5, <2>6, OkPurge
<1>4. still' \subseteq still /\ still' \subseteq Kinds
  BY <1>0, TunTypes
<1>5. \A k \in still' : k \in KindsOf(treq[h]) =>
         (OkFor(k, treq[h], rows[k], conf[k], unit[k], svc[k], loose)
             => OkFor(k, r, rows'[k], conf'[k], unit'[k], svc'[k], loose'))
  BY <1>0, <1>1, <1>3, <1>4
\* The tunnel bridge keeps its file or is loose.
<1>6. ASSUME NEW k \in still', k \notin KindsOf(treq[h]),
             NEW q, OkFor(k, q, rows[k], conf[k], unit[k], svc[k], loose)
      PROVE  OkFor(k, q, rows'[k], conf'[k], unit'[k], svc'[k], loose')
  <2>1. k = "bridge"
    BY <1>1, <1>4, <1>6, KindSet
  <2>2. CASE conf'[k] = conf[k]
    BY <1>0, <1>a, <1>6, <2>2, OkLoose
  <2>3. CASE conf'[k] # conf[k]
    <3>1. k \in loose'
      BY <1>a, <2>1, <2>3
    <3> QED BY <1>0, <1>6, <2>1, <3>1 DEF OkFor
  <2> QED BY <2>2, <2>3
<1>7. \A k \in still' : k \notin KindsOf(treq[h]) =>
         \A q : OkFor(k, q, rows[k], conf[k], unit[k], svc[k], loose)
                  => OkFor(k, q, rows'[k], conf'[k], unit'[k], svc'[k], loose')
  BY <1>6
<1>8. /\ conf' \in [Kinds -> Files] /\ rows' \in [Kinds -> [Slots -> Relays]]
      /\ unit' \in [Kinds -> BOOLEAN] /\ svc' \in [Kinds -> Files]
  BY <1>0, <1>a, TunTypes, NoFileType
<1>9. r.pc # "idle" /\ loose' \subseteq Kinds
  BY <1>2, <1>a, TunTypes, KindSet
<1> QED BY <1>1, <1>2, <1>4, <1>5, <1>7, <1>8, <1>9, Advance

-----------------------------------------------------------------------------
(* systemd, the end of the panel and the theorems.                         *)

\* A restart by systemd in the middle of a request does no harm.
LEMMA OkRespawn ==
  ASSUME NEW k, NEW r, NEW rk, NEW c \in Files, NEW u, NEW s, NEW L,
         OkFor(k, r, rk, c, u, s, L), u, s # NoFile
  PROVE  OkFor(k, r, rk, c, u, Started(c), L)
<1> DEFINE t == Started(c)
<1>1. t.is = "config" => t = c
  BY StartedFile
<1>2. k \notin L /\ r.pc = "undone" => t = Started(r.prev)
  BY DEF OkFor
<1>3. k \notin L => r.pc \notin {"stopped", "files", "purged"}
  BY DEF OkFor
<1> HIDE DEF t
<1>4. Quiet(c, t)
  BY <1>1 DEF Quiet
<1>5. OkFor(k, r, rk, c, u, t, L)
  BY <1>2, <1>3, <1>4 DEF OkFor
<1> QED BY <1>5 DEF t

LEMMA RespawnStep ==
  ASSUME TunInv, NEW k \in Kinds, Respawn(k)
  PROVE  TunInv'
<1>0. /\ svc[k] # NoFile /\ unit[k] /\ svc' = [svc EXCEPT ![k] = Started(conf[k])]
      /\ UNCHANGED <<rows, conf, unit, treq, still, loose>>
  BY DEF Respawn
<1>1. /\ svc'[k] = Started(conf[k]) /\ svc' \in [Kinds -> Files] /\ conf[k] \in Files
      /\ \A m \in Kinds : m # k => svc'[m] = svc[m]
  BY <1>0, TunTypes, StartedFile
<1>2. TunShape'
  BY <1>0, <1>1 DEF TunInv, TunShape
<1>3. AloneInv'
  BY <1>0 DEF TunInv, AloneInv, Others
<1>4. ASSUME NEW m \in still, NEW r, OkFor(m, r, rows[m], conf[m], unit[m], svc[m], loose)
      PROVE  OkFor(m, r, rows'[m], conf'[m], unit'[m], svc'[m], loose')
  <2>1. CASE m = k
    <3>1. OkFor(m, r, rows[m], conf[m], unit[m], Started(conf[m]), loose)
      BY <1>0, <1>1, <1>4, <2>1, OkRespawn
    <3> QED BY <1>0, <1>1, <2>1, <3>1
  <2>2. CASE m # k
    BY <1>0, <1>1, <1>4, <2>2, TunTypes
  <2> QED BY <2>1, <2>2
<1>5. OkInv'
  <2> SUFFICES ASSUME NEW m \in still'
               PROVE  /\ \A g \in TunHandlers : m \in KindsOf(treq'[g]) =>
                            OkFor(m, treq'[g], rows'[m], conf'[m], unit'[m], svc'[m], loose')
                      /\ Working(m)' = {} => OkFor(m, NoReq, rows'[m], conf'[m], unit'[m], svc'[m], loose')
    BY DEF OkInv, OkFor, Quiet, Midway, Apart, Bindable, Started, Failed, File, NoFile, NoReq, NoBody
  <2>1. m \in still /\ Working(m)' = Working(m)
    BY <1>0 DEF Working
  <2>2. /\ \A g \in TunHandlers : m \in KindsOf(treq[g]) =>
               OkFor(m, treq[g], rows[m], conf[m], unit[m], svc[m], loose)
        /\ Working(m) = {} => OkFor(m, NoReq, rows[m], conf[m], unit[m], svc[m], loose)
    BY <2>1 DEF TunInv, OkInv
  <2> QED BY <1>0, <1>4, <2>1, <2>2
<1> QED BY <1>2, <1>3, <1>5 DEF TunInv

\* What the end of the panel leaves unfinished is loose.
LEMMA CrashStep ==
  ASSUME TunInv, TunCrash
  PROVE  TunInv'
<1>0. /\ loose' = loose \cup UNION {KindsOf(treq[h]) : h \in {g \in TunHandlers : Midway(treq[g])}}
      /\ treq' = [h \in TunHandlers |-> NoReq] /\ UNCHANGED <<rows, conf, unit, svc, still>>
  BY DEF TunCrash
<1>1. loose' \subseteq Kinds
  <2>1. ASSUME NEW h \in TunHandlers, Midway(treq[h]) PROVE KindsOf(treq[h]) \subseteq Kinds
    <3>1. treq[h].pc # "idle"
      BY <2>1 DEF Midway
    <3> QED BY <3>1, TunTypes, KindsOfWorker
  <2> QED BY <1>0, <2>1, TunTypes
<1>2. TunShape'
  BY <1>0, <1>1, NoReqType DEF TunInv, TunShape
<1>3. \A h \in TunHandlers : treq'[h] = NoReq
  BY <1>0
<1>4. AloneInv'
  BY <1>3, NoReqType DEF AloneInv, Others
<1>5. "none" \notin still'
  BY <1>0, TunTypes, KindSet
<1>6. ASSUME NEW k \in still PROVE OkFor(k, NoReq, rows[k], conf[k], unit[k], svc[k], loose')
  <2>1. CASE Working(k) = {}
    <3>1. OkFor(k, NoReq, rows[k], conf[k], unit[k], svc[k], loose)
      BY <2>1 DEF TunInv, OkInv
    <3> QED BY <1>0, <3>1, OkLoose
  <2>2. ASSUME NEW h \in Working(k) PROVE OkFor(k, NoReq, rows[k], conf[k], unit[k], svc[k], loose')
    <3>1. h \in TunHandlers /\ k \in KindsOf(treq[h])
      BY <2>2 DEF Working
    <3>2. OkFor(k, treq[h], rows[k], conf[k], unit[k], svc[k], loose)
      BY <3>1 DEF TunInv, OkInv
    <3>3. OkFor(k, treq[h], rows[k], conf[k], unit[k], svc[k], loose')
      BY <1>0, <3>2, OkLoose
    <3>4. k \notin loose' => ~Midway(treq[h])
      BY <1>0, <3>1
    <3>5. k \notin loose' => Quiet(conf[k], svc[k]) /\ (svc[k].is = "config" => unit[k])
      BY <3>3, <3>4, OkQuiet
    <3> QED BY <3>3, <3>5, OkEnds
  <2> QED BY <2>1, <2>2
<1>7. OkInv'
  <2> SUFFICES ASSUME NEW k \in still'
               PROVE  /\ \A g \in TunHandlers : k \in KindsOf(treq'[g]) =>
                            OkFor(k, treq'[g], rows'[k], conf'[k], unit'[k], svc'[k], loose')
                      /\ Working(k)' = {} => OkFor(k, NoReq, rows'[k], conf'[k], unit'[k], svc'[k], loose')
    BY DEF OkInv, OkFor, Quiet, Midway, Apart, Bindable, Started, Failed, File, NoFile, NoReq, NoBody
  <2>1. OkFor(k, NoReq, rows[k], conf[k], unit[k], svc[k], loose')
    BY <1>0, <1>6
  <2>2. \A g \in TunHandlers : k \notin KindsOf(treq'[g])
    BY <1>3, <1>5, NoReqType
  <2> QED BY <1>0, <2>1, <2>2
<1> QED BY <1>2, <1>4, <1>7 DEF TunInv

LEMMA TunInitial == TunInit => TunInv
<1> SUFFICES ASSUME TunInit PROVE TunInv
  OBVIOUS
<1>0. /\ svc = conf /\ treq = [h \in TunHandlers |-> NoReq] /\ still = Kinds /\ loose = {}
      /\ \A h \in TunHandlers : treq[h] = NoReq
  BY DEF TunInit
<1>1. \/ /\ rows = [k \in Kinds |-> [i \in Slots |-> NoBody]]
         /\ conf = [k \in Kinds |-> NoFile]
         /\ unit = [k \in Kinds |-> FALSE]
      \/ \E b \in Bodies :
            /\ rows = [k \in Kinds |-> [i \in Slots |-> IF i = FirstSlot THEN b ELSE NoBody]]
            /\ conf = [k \in Kinds |-> Render(k)]
            /\ unit = [k \in Kinds |-> TRUE]
  BY DEF TunInit
<1> DEFINE Tables == rows \in [Kinds -> [Slots -> Relays]] /\ \A k \in Kinds : Apart(rows[k])
<1>2. Tables
  <2>1. CASE rows = [k \in Kinds |-> [i \in Slots |-> NoBody]]
    BY <2>1, NoBodyType DEF Apart
  <2>2. ASSUME NEW b \in Bodies,
               rows = [k \in Kinds |-> [i \in Slots |-> IF i = FirstSlot THEN b ELSE NoBody]]
        PROVE  Tables
    <3>1. b \in Relays
      BY BodyType
    <3>2. rows \in [Kinds -> [Slots -> Relays]]
      BY <2>2, <3>1, NoBodyType
    <3>3. \A k \in Kinds, i \in Slots : rows[k][i] # NoBody => i = FirstSlot
      BY <2>2
    <3> QED BY <3>2, <3>3 DEF Apart
  <2> QED BY <1>1, <2>1, <2>2
<1>3. treq \in [TunHandlers -> ReqRecord] /\ (\A h \in TunHandlers : WellFormed(treq[h]))
  BY <1>0, NoReqType
<1>4. rows \in [Kinds -> [Slots -> Relays]] /\ \A k \in Kinds : Apart(rows[k])
  BY <1>2
<1>5. \A k \in Kinds : Render(k) \in Files /\ Bindable(Render(k))
  BY <1>4, RenderRows
<1>6. conf \in [Kinds -> Files] /\ \A k \in Kinds : Bindable(conf[k])
  <2>1. Bindable(NoFile)
    BY NoFileType, EmptyBindable
  <2> QED BY <1>1, <1>5, <2>1, NoFileType
<1>7. unit \in [Kinds -> BOOLEAN]
  BY <1>1
<1>8. \A k \in Kinds : conf[k].is = "config" => unit[k]
  BY <1>1, NoFileType
<1>9. TunShape
  BY <1>0, <1>2, <1>3, <1>6, <1>7 DEF TunShape
<1>10. AloneInv
  BY <1>0, NoReqType DEF AloneInv, Others
<1>11. "none" \notin Kinds
  BY KindSet
<1>12. ASSUME NEW k \in Kinds PROVE OkFor(k, NoReq, rows[k], conf[k], unit[k], svc[k], loose)
  <2>1. Quiet(conf[k], svc[k]) /\ Bindable(conf[k]) /\ Apart(rows[k])
    BY <1>0, <1>2, <1>6 DEF Quiet
  <2>2. svc[k].is = "config" => unit[k]
    BY <1>0, <1>8
  <2> QED BY <2>1, <2>2, NoReqEasy, NoReqType, OkFrom
<1>13. OkInv
  BY <1>0, <1>11, <1>12, NoReqType DEF OkInv
<1> QED BY <1>9, <1>10, <1>13 DEF TunInv

LEMMA TunPreserved == TunInv /\ [TunNext]_tunVars => TunInv'
<1> SUFFICES ASSUME TunInv, [TunNext]_tunVars PROVE TunInv'
  OBVIOUS
<1>1. CASE TunCrash
  BY <1>1, CrashStep
<1>2. CASE \E k \in Kinds : Respawn(k)
  BY <1>2, RespawnStep
<1>3. ASSUME NEW h \in TunHandlers,
             \/ CreateRelay(h) \/ UpdateRelay(h) \/ CreateTrojanRelay(h)
             \/ UpdateTrojanRelay(h) \/ CreateTrojanIngress(h) \/ UpdateTrojanIngress(h)
      PROVE  TunInv'
  BY <1>3, SaveSteps
<1>4. ASSUME NEW h \in TunHandlers,
             DeleteRelay(h) \/ DeleteTrojanRelay(h) \/ DeleteTrojanIngress(h)
      PROVE  TunInv'
  BY <1>4, DeleteSteps, KindSet DEF DeleteRelay, DeleteTrojanRelay, DeleteTrojanIngress
<1>5. ASSUME NEW h \in TunHandlers,
             \/ ApplyBridge(h) \/ ApplyTrojanBridge(h) \/ ApplyTrojanIngress(h)
             \/ WriteRow(h) \/ Rejected(h) \/ InstallUnit(h) \/ ReadPrev(h) \/ WriteConf(h)
             \/ StopEmpty(h) \/ Restart(h) \/ Rollback(h) \/ EndReq(h)
      PROVE  TunInv'
  BY <1>5, ApplySteps, WriteRowStep, RejectedStep, InstallUnitStep, ReadPrevStep,
     WriteConfStep, StopEmptyStep, RestartStep, RollbackStep, EndSteps
<1>6. ASSUME NEW h \in TunHandlers,
             PurgeList(h) \/ PurgeRows(h) \/ PurgeUnits(h) \/ PurgeFiles(h) \/ EndPurge(h)
      PROVE  TunInv'
  BY <1>6, PurgeBegins, PurgeRowsStep, PurgeUnitsStep, PurgeFilesStep, EndSteps
<1>7. CASE UNCHANGED tunVars
  <2>1. TunShape'
    BY <1>7 DEF tunVars, TunInv, TunShape
  <2>2. AloneInv'
    BY <1>7 DEF tunVars, TunInv, AloneInv, Others
  <2>3. OkInv'
    BY <1>7 DEF tunVars, TunInv, OkInv, Working
  <2> QED BY <2>1, <2>2, <2>3 DEF TunInv
<1> QED BY <1>1, <1>2, <1>3, <1>4, <1>5, <1>6, <1>7 DEF TunNext

LEMMA TunAlways == TunSpec => []TunInv
BY TunInitial, TunPreserved, PTL DEF TunSpec

\* ServiceRunsFile holds in every reachable state, for any number of relays, requests
\* and failures: between requests that have not overlapped a service that no failure
\* has come between runs the file on disk, and the trojan files can be bound (Apply of
\* tunnel.go, handleTrojanBridgeApply, handleTrojanIngressApply, handleTrojanPurge).
THEOREM ServicesRunFiles == TunSpec => []ServiceRunsFile
<1>1. TunInv => ServiceRunsFile
  <2> SUFFICES ASSUME TunInv, NEW k \in still, Working(k) = {}
               PROVE  /\ k \notin loose => Quiet(conf[k], svc[k])
                      /\ k # "bridge" => Bindable(conf[k])
    BY DEF ServiceRunsFile, Quiet
  <2>1. OkFor(k, NoReq, rows[k], conf[k], unit[k], svc[k], loose)
    BY DEF TunInv, OkInv
  <2> QED BY <2>1, NoReqEasy, OkQuiet
<1> QED BY <1>1, TunAlways, PTL

\* AnswersTrue holds in every reachable state: where no failure has been dropped,
\* "(rolled back)" means the previous file is back and was started, "stopped" that the
\* service is, and "ok" of a purge that nothing is left, even when systemd restarts
\* services in between (handleTrojanPurge, handleTrojanBridgeApply, Apply of tunnel.go).
THEOREM AnswersAreTrue == TunSpec => []AnswersTrue
<1>1. TunInv => AnswersTrue
  <2> SUFFICES ASSUME TunInv, NEW h \in TunHandlers, NEW k \in still \ loose, k \in KindsOf(treq[h])
               PROVE  /\ treq[h].pc = "undone" => conf[k] = treq[h].prev /\ svc[k] = Started(treq[h].prev)
                      /\ treq[h].pc = "stopped" => svc[k] = NoFile
                      /\ treq[h].pc = "purged" =>
                             /\ conf[k] = NoFile /\ svc[k] = NoFile /\ ~unit[k]
                             /\ \A i \in Slots : rows[k][i] = NoBody
    BY DEF AnswersTrue
  <2>1. OkFor(k, treq[h], rows[k], conf[k], unit[k], svc[k], loose)
    BY DEF TunInv, OkInv
  <2>2. k \notin loose
    OBVIOUS
  <2> QED BY <2>1, <2>2 DEF OkFor
<1> QED BY <1>1, TunAlways, PTL
=============================================================================
