---------------------------- MODULE PanelProofs ----------------------------
(***************************************************************************)
(* Proofs about parts of the panel that share no variable: the             *)
(* synchronisation of PasarGuard users, the cores of the tunnels, the      *)
(* certificates and the jobs with their viewers.                           *)
(***************************************************************************)
EXTENDS PasarGuardSync, TunnelCores, CertIssue, JobEvents, TLAPS

-----------------------------------------------------------------------------
(* The synchronisation.                                                    *)

SyncRec == [pc : {"idle", "get", "compare", "batch", "save", "done"},
            token : {"none", "good", "stale"},
            rows : [Uuids -> UserStates \cup {"none"}]]

\* The record of a syncer is replaced by q; the other syncers stay.
SyncMoved(s, q) ==
    /\ q \in SyncRec
    /\ sync' = [sync EXCEPT ![s] = q]

LEMMA IdleSyncType == Idle \in SyncRec /\ Idle.pc = "idle"
BY DEF Idle, SyncRec, NoRows, UserStates

LEMMA ListedType ==
  ASSUME NEW p \in [Uuids -> UserStates \cup {"none"}]
  PROVE  Listed(p) \in [Uuids -> UserStates \cup {"none"}]
BY DEF Listed

LEMMA UpsertedType ==
  ASSUME users \in [Uuids -> UserStates \cup {"none"}],
         NEW r \in [Uuids -> UserStates \cup {"none"}]
  PROVE  Upserted(r) \in [Uuids -> UserStates \cup {"none"}]
BY DEF Upserted

\* What a step of a syncer makes of its record.
LEMMA SyncEffect ==
  ASSUME SyncTypeOK, NEW s \in Syncers,
         Start(s) \/ Login(s) \/ Get(s) \/ GetFail(s) \/ Compare(s)
            \/ Batch(s) \/ BatchFail(s) \/ SaveHash(s) \/ Done(s)
  PROVE  \E q : SyncMoved(s, q)
PROOF
<1> USE DEF SyncMoved
<1> sync[s] \in SyncRec
  BY DEF SyncTypeOK, SyncRec
<1>1. CASE Start(s)
  <2> DEFINE q == [Idle EXCEPT !.pc = "get", !.token = token]
  <2>1. q \in SyncRec
    BY IdleSyncType DEF SyncRec, SyncTypeOK
  <2> QED BY <1>1, <2>1 DEF Start
<1>2. CASE Login(s)
  <2> DEFINE q == [sync[s] EXCEPT !.token = "good"]
  <2>1. q \in SyncRec
    BY DEF SyncRec
  <2>2. sync' = [sync EXCEPT ![s] = q]
    BY <1>2 DEF Login
  <2> QED BY <2>1, <2>2
<1>3. CASE Get(s)
  <2> DEFINE q == [sync[s] EXCEPT !.pc = "compare", !.rows = Listed(panel)]
  <2>1. Listed(panel) \in [Uuids -> UserStates \cup {"none"}]
    BY ListedType DEF SyncTypeOK
  <2>2. q \in SyncRec
    BY <2>1 DEF SyncRec
  <2>3. sync' = [sync EXCEPT ![s] = q]
    BY <1>3 DEF Get, SyncTypeOK
  <2> QED BY <2>2, <2>3
<1>4. CASE Compare(s)
  <2> DEFINE q == [sync[s] EXCEPT !.pc = IF usersHash = sync[s].rows THEN "done" ELSE "batch"]
  <2>1. q \in SyncRec
    BY DEF SyncRec
  <2>2. sync' = [sync EXCEPT ![s] = q]
    BY <1>4 DEF Compare
  <2> QED BY <2>1, <2>2
<1>5. CASE Batch(s)
  <2> DEFINE q == [sync[s] EXCEPT !.pc = "save"]
  <2>1. q \in SyncRec
    BY DEF SyncRec
  <2>2. sync' = [sync EXCEPT ![s] = q]
    BY <1>5 DEF Batch
  <2> QED BY <2>1, <2>2
<1>6. CASE SaveHash(s)
  <2> DEFINE q == [sync[s] EXCEPT !.pc = "done"]
  <2>1. q \in SyncRec
    BY DEF SyncRec
  <2>2. sync' = [sync EXCEPT ![s] = q]
    BY <1>6 DEF SaveHash
  <2> QED BY <2>1, <2>2
<1>7. CASE GetFail(s) \/ BatchFail(s) \/ Done(s)
  BY <1>7, IdleSyncType DEF GetFail, BatchFail, Done
<1> QED BY <1>1, <1>2, <1>3, <1>4, <1>5, <1>6, <1>7

\* An expired token and a crash leave every record one of a syncer.
LEMMA SyncType ==
  ASSUME SyncTypeOK, [SyncNext]_syncVars
  PROVE  SyncTypeOK'
PROOF
<1> sync \in [Syncers -> SyncRec]
  BY DEF SyncTypeOK, SyncRec
<1>1. ASSUME NEW u \in Uuids, PanelChange(u)
      PROVE  SyncTypeOK'
  BY <1>1 DEF PanelChange, SyncTypeOK, UserStates, NoHash
<1>2. CASE TokenExpire
  <2>1. ASSUME NEW s \in Syncers
        PROVE  [sync[s] EXCEPT !.token = "stale"] \in SyncRec
    BY DEF SyncRec
  <2>2. sync' \in [Syncers -> SyncRec]
    BY <1>2, <2>1 DEF TokenExpire
  <2> QED BY <1>2, <2>2 DEF TokenExpire, SyncTypeOK, SyncRec, NoHash
<1>3. CASE SyncCrash
  <2>1. sync' \in [Syncers -> SyncRec]
    BY <1>3, IdleSyncType DEF SyncCrash
  <2> QED BY <1>3, <2>1 DEF SyncCrash, SyncTypeOK, SyncRec, NoHash
<1>4. ASSUME NEW s \in Syncers,
             Start(s) \/ Login(s) \/ Get(s) \/ GetFail(s) \/ Compare(s)
                \/ Batch(s) \/ BatchFail(s) \/ SaveHash(s) \/ Done(s)
      PROVE  SyncTypeOK'
  <2>1. PICK q : SyncMoved(s, q)
    BY <1>4, SyncEffect
  <2>2. sync' \in [Syncers -> SyncRec]
    BY <2>1 DEF SyncMoved
  <2>3. CASE Batch(s)
    <3>1. users' \in [Uuids -> UserStates \cup {"none"}]
      BY <2>3, UpsertedType DEF Batch, SyncTypeOK, SyncRec
    <3> QED BY <2>3, <2>2, <3>1 DEF Batch, SyncTypeOK, SyncRec, NoHash
  <2>4. CASE SaveHash(s)
    <3>1. usersHash' \in [Uuids -> UserStates \cup {"none"}] \cup {NoHash}
      BY <2>4 DEF SaveHash, SyncTypeOK
    <3> QED BY <2>4, <2>2, <3>1 DEF SaveHash, SyncTypeOK, SyncRec, NoHash
  <2>5. CASE Start(s) \/ Login(s) \/ Get(s)
    BY <2>2, <2>5 DEF Start, Login, Get, SyncTypeOK, SyncRec, NoHash
  <2>6. CASE GetFail(s) \/ Compare(s) \/ BatchFail(s) \/ Done(s)
    BY <2>2, <2>6 DEF GetFail, Compare, BatchFail, Done, SyncTypeOK, SyncRec, NoHash
  <2> QED BY <1>4, <2>3, <2>4, <2>5, <2>6
<1>5. CASE UNCHANGED syncVars
  BY <1>5 DEF syncVars, SyncTypeOK, NoHash
<1> QED BY <1>1, <1>2, <1>3, <1>4, <1>5 DEF SyncNext

\* While no other syncer is busy, the invariants follow from what one syncer,
\* the table and the fingerprint are.
LEMMA SyncAlone ==
  ASSUME NEW s \in Syncers,
         \A t \in Syncers : t # s => sync'[t].pc = "idle",
         sync'[s].pc \in {"save", "done"} => Reflects(sync[s].rows)',
         sync'[s].pc # "save" /\ usersHash' # NoHash => Reflects(usersHash)'
  PROVE  HashReflected' /\ SaveReflected' /\ SyncReflects'
PROOF
<1>1. ASSUME NEW t \in Syncers, sync'[t].pc # "idle"
      PROVE  t = s
  BY <1>1
<1>2. \A t \in Syncers : sync'[t].pc \in {"save", "done"} => Reflects(sync[t].rows)'
  BY <1>1
<1>3. NoHash' = NoHash
  BY DEF NoHash
<1> QED BY <1>1, <1>2, <1>3 DEF HashReflected, SaveReflected, SyncReflects

\* While the syncs are calm, a busy syncer is the only one.
LEMMA SyncOnly ==
  ASSUME SyncInv, calm, NEW s \in Syncers, sync[s].pc # "idle"
  PROVE  /\ \A t \in Syncers : t # s => sync[t].pc = "idle"
         /\ sync[s].pc # "save" /\ usersHash # NoHash => Reflects(usersHash)
         /\ sync[s].pc \in {"save", "done"} => Reflects(sync[s].rows)
BY DEF SyncInv, HashReflected, SaveReflected, SyncReflects

LEMMA SyncStep ==
  ASSUME SyncInv, [SyncNext]_syncVars
  PROVE  SyncInv'
PROOF
<1>0. SyncTypeOK'
  BY SyncType DEF SyncInv
<1> SUFFICES HashReflected' /\ SaveReflected' /\ SyncReflects'
  BY <1>0 DEF SyncInv
<1> SUFFICES ASSUME calm'
             PROVE  HashReflected' /\ SaveReflected' /\ SyncReflects'
  BY DEF HashReflected, SaveReflected, SyncReflects
<1>n. NoHash' = NoHash
  BY DEF NoHash
<1>t. sync \in [Syncers -> SyncRec]
  BY DEF SyncInv, SyncTypeOK, SyncRec
<1>1. ASSUME NEW u \in Uuids, PanelChange(u)
      PROVE  HashReflected' /\ SaveReflected' /\ SyncReflects'
  BY <1>1, <1>n DEF PanelChange, SyncInv, HashReflected, SaveReflected, SyncReflects, Reflects
<1>2. CASE TokenExpire
  <2>1. ASSUME NEW s \in Syncers
        PROVE  sync'[s].pc = sync[s].pc /\ sync'[s].rows = sync[s].rows
    <3>1. sync[s] \in SyncRec
      BY <1>t
    <3> QED BY <1>2, <3>1 DEF TokenExpire, SyncRec
  <2> QED BY <1>2, <2>1, <1>n DEF TokenExpire, SyncInv, HashReflected, SaveReflected, SyncReflects, Reflects
<1>3. CASE SyncCrash
  <2>1. \A s \in Syncers : sync'[s].pc = "idle"
    BY <1>3, IdleSyncType DEF SyncCrash
  <2>2. calm /\ \A s \in Syncers : sync[s].pc # "save"
    BY <1>3 DEF SyncCrash
  <2>3. usersHash' # NoHash => Reflects(usersHash)'
    BY <1>3, <2>2 DEF SyncCrash, SyncInv, HashReflected, Reflects
  <2> QED BY <2>1, <2>3, <1>n DEF HashReflected, SaveReflected, SyncReflects
<1>4. ASSUME NEW s \in Syncers, Start(s)
      PROVE  HashReflected' /\ SaveReflected' /\ SyncReflects'
  <2>1. calm /\ OtherSyncs(s) = {} /\ sync[s].pc = "idle"
    BY <1>4 DEF Start
  <2>2. \A t \in Syncers : t # s => sync[t].pc = "idle"
    BY <2>1 DEF OtherSyncs
  <2>3. \A t \in Syncers : t # s => sync'[t].pc = "idle"
    BY <2>2, <1>4, <1>t DEF Start
  <2>4. sync'[s].pc = "get"
    BY <1>4, <1>t, IdleSyncType DEF Start, SyncRec
  <2>5. usersHash # NoHash => Reflects(usersHash)
    BY <2>1, <2>2 DEF SyncInv, HashReflected
  <2>6. usersHash' # NoHash => Reflects(usersHash)'
    BY <2>5, <1>4 DEF Start, Reflects
  <2> QED BY <2>3, <2>4, <2>6, SyncAlone
<1>5. ASSUME NEW s \in Syncers, sync[s].pc # "idle", calm,
             Login(s) \/ Get(s) \/ GetFail(s) \/ Compare(s)
                \/ Batch(s) \/ BatchFail(s) \/ SaveHash(s) \/ Done(s)
      PROVE  HashReflected' /\ SaveReflected' /\ SyncReflects'
  <2>r. sync[s] \in SyncRec
    BY <1>t
  <2>1. PICK q : SyncMoved(s, q)
    BY <1>5, SyncEffect DEF SyncInv
  <2>2. \A t \in Syncers : t # s => sync'[t].pc = "idle"
    BY <2>1, <1>5, SyncOnly, <1>t DEF SyncMoved
  <2>3. CASE Login(s) \/ Get(s) \/ GetFail(s) \/ BatchFail(s) \/ Done(s)
    <3>1. sync[s].pc # "save" /\ usersHash' = usersHash /\ users' = users
      BY <2>3 DEF Login, Get, GetFail, BatchFail, Done
    <3>2. CASE Login(s)
      <4>1. sync'[s].pc = "get"
        BY <3>2, <2>r, <1>t DEF Login, SyncRec
      <4> QED BY <4>1, <3>1, <2>2, <1>5, SyncOnly, SyncAlone DEF Reflects
    <3>3. CASE Get(s)
      <4>1. sync'[s].pc = "compare"
        BY <3>3, <2>r, <1>t DEF Get, SyncRec
      <4> QED BY <4>1, <3>1, <2>2, <1>5, SyncOnly, SyncAlone DEF Reflects
    <3>4. CASE GetFail(s) \/ BatchFail(s) \/ Done(s)
      <4>1. sync'[s].pc = "idle"
        BY <3>4, <1>t, IdleSyncType DEF GetFail, BatchFail, Done
      <4> QED BY <4>1, <3>1, <2>2, <1>5, SyncOnly, SyncAlone DEF Reflects
    <3> QED BY <2>3, <3>2, <3>3, <3>4
  <2>4. CASE Compare(s)
    <3>1. /\ sync[s].pc = "compare" /\ usersHash' = usersHash /\ users' = users
          /\ sync'[s].rows = sync[s].rows
          /\ sync'[s].pc = IF usersHash = sync[s].rows THEN "done" ELSE "batch"
      BY <2>4, <2>r, <1>t DEF Compare, SyncRec
    <3>2. usersHash # NoHash => Reflects(usersHash)
      BY <3>1, <1>5, SyncOnly
    <3>3. sync[s].rows = NoHash => Reflects(sync[s].rows)
      BY <2>r DEF SyncRec, NoHash, Reflects, UserStates
    <3>4. usersHash = sync[s].rows => Reflects(sync[s].rows)
      BY <3>2, <3>3
    <3>5. sync'[s].pc \in {"save", "done"} => Reflects(sync[s].rows)'
      BY <3>1, <3>4 DEF Reflects
    <3>6. usersHash' # NoHash => Reflects(usersHash)'
      BY <3>1, <3>2 DEF Reflects
    <3> QED BY <3>5, <3>6, <2>2, SyncAlone
  <2>5. CASE Batch(s)
    <3>1. /\ users' = Upserted(sync[s].rows)
          /\ sync'[s].rows = sync[s].rows
          /\ sync'[s].pc = "save"
      BY <2>5, <2>r, <1>t DEF Batch, SyncRec
    <3>2. Reflects(sync[s].rows)'
      BY <3>1 DEF Reflects, Upserted
    <3> QED BY <3>1, <3>2, <2>2, SyncAlone
  <2>6. CASE SaveHash(s)
    <3>1. /\ sync[s].pc = "save" /\ usersHash' = sync[s].rows /\ users' = users
          /\ sync'[s].rows = sync[s].rows
      BY <2>6, <2>r, <1>t DEF SaveHash, SyncRec
    <3>2. Reflects(sync[s].rows)
      BY <3>1, <1>5, SyncOnly
    <3>3. Reflects(sync[s].rows)' /\ Reflects(usersHash)'
      BY <3>1, <3>2 DEF Reflects
    <3> QED BY <3>3, <2>2, SyncAlone
  <2> QED BY <1>5, <2>3, <2>4, <2>5, <2>6
<1>6. CASE UNCHANGED syncVars
  BY <1>6, <1>n DEF syncVars, SyncInv, HashReflected, SaveReflected, SyncReflects, Reflects
<1>7. ASSUME NEW s \in Syncers,
             Login(s) \/ Get(s) \/ GetFail(s) \/ Compare(s)
                \/ Batch(s) \/ BatchFail(s) \/ SaveHash(s) \/ Done(s)
      PROVE  sync[s].pc # "idle" /\ calm
  BY <1>7 DEF Login, Get, GetFail, Compare, Batch, BatchFail, SaveHash, Done
<1> QED BY <1>1, <1>2, <1>3, <1>4, <1>5, <1>6, <1>7 DEF SyncNext

(***************************************************************************)
(* For every number of syncers, users, failures and crashes: a sync that   *)
(* SyncPasarGuardUsers reports as successful has left each listed user in  *)
(* the table, also when the unchanged fingerprint made it skip the write.  *)
(***************************************************************************)
THEOREM SyncsReflect == SyncSpec => []SyncReflects
PROOF
<1>1. SyncInit => SyncInv
  <2> SUFFICES ASSUME SyncInit PROVE SyncInv
    OBVIOUS
  <2>1. \A s \in Syncers : sync[s] = Idle
    BY DEF SyncInit
  <2>2. SyncTypeOK
    <3>1. sync \in [Syncers -> SyncRec]
      BY IdleSyncType DEF SyncInit
    <3> QED BY <3>1 DEF SyncInit, SyncTypeOK, SyncRec, NoRows
  <2> QED BY <2>1, <2>2, IdleSyncType DEF SyncInit, SyncInv, HashReflected, SaveReflected, SyncReflects
<1>2. SyncInv /\ [SyncNext]_syncVars => SyncInv'
  BY SyncStep
<1>3. SyncInv => SyncReflects
  BY DEF SyncInv
<1> QED BY <1>1, <1>2, <1>3, PTL DEF SyncSpec

-----------------------------------------------------------------------------
(* The cores of the tunnels.                                               *)

CorePcs == {"idle", "unit", "enable", "reply", "rmcore", "removed", "uninstall", "setup"}
CoreRec == [pc : CorePcs, unit : PingUnits, role : {"", "iran", "foreign"}, force : BOOLEAN, blind : BOOLEAN]

\* What a request under way has checked, for the state after a step.
ReqHolds(q) ==
    /\ q.pc = "unit" /\ ~q.blind => q.unit \notin IranUnits \cap services
    /\ q.pc = "rmcore" /\ ~q.blind => services = {}
    /\ q.pc = "setup" /\ ~q.force => hedRole \in {"", q.role}

LEMMA NoCoreReqType == NoCoreReq \in CoreRec /\ NoCoreReq.pc = "idle"
BY DEF NoCoreReq, CoreRec, CorePcs, PingUnits

\* A request that begins alone finds every other one idle.
LEMMA BeginFacts ==
  ASSUME coreReq \in [CoreHandlers -> CoreRec], NEW h \in CoreHandlers,
         NEW r \in CoreRec, BeginCore(h, r)
  PROVE  /\ coreReq' \in [CoreHandlers -> CoreRec]
         /\ coreReq'[h] = r
         /\ \A g \in CoreHandlers : g # h => coreReq'[g] = coreReq[g]
         /\ alone' => /\ alone
                      /\ \A g \in CoreHandlers : g # h => coreReq'[g].pc = "idle"
         /\ alone \in BOOLEAN => alone' \in BOOLEAN
BY DEF BeginCore

LEMMA StepFacts ==
  ASSUME coreReq \in [CoreHandlers -> CoreRec], NEW h \in CoreHandlers,
         NEW pc \in CorePcs, CoreStep(h, pc)
  PROVE  /\ coreReq' \in [CoreHandlers -> CoreRec]
         /\ coreReq'[h].pc = pc
         /\ \A g \in CoreHandlers : g # h => coreReq'[g] = coreReq[g]
         /\ alone' = alone
PROOF
<1> DEFINE q == IF pc = "idle" THEN NoCoreReq ELSE [coreReq[h] EXCEPT !.pc = pc]
<1>1. q \in CoreRec /\ q.pc = pc
  <2>1. CASE pc = "idle"
    BY <2>1, NoCoreReqType
  <2>2. CASE pc # "idle"
    BY <2>2 DEF CoreRec
  <2> QED BY <2>1, <2>2
<1>2. coreReq' = [coreReq EXCEPT ![h] = q] /\ alone' = alone
  BY DEF CoreStep
<1> HIDE DEF q
<1> QED BY <1>1, <1>2

\* While they have not overlapped, a request that is under way is the only one.
LEMMA CoreOnly ==
  ASSUME ChecksHold, alone, NEW h \in CoreHandlers, coreReq[h].pc # "idle"
  PROVE  /\ \A g \in CoreHandlers : g # h => coreReq[g].pc = "idle"
         /\ ReqHolds(coreReq[h])
BY DEF ChecksHold, ReqHolds

LEMMA CoreAlone ==
  ASSUME NEW h \in CoreHandlers,
         \A g \in CoreHandlers : g # h => coreReq'[g].pc = "idle",
         ReqHolds(coreReq[h])'
  PROVE  ChecksHold'
PROOF
<1>1. \A g \in CoreHandlers : coreReq'[g].pc # "idle" => g = h
  OBVIOUS
<1>2. \A g \in CoreHandlers : ReqHolds(coreReq[g])'
  <2> SUFFICES ASSUME NEW g \in CoreHandlers, g # h PROVE ReqHolds(coreReq[g])'
    OBVIOUS
  <2>1. coreReq'[g].pc = "idle"
    OBVIOUS
  <2> QED BY <2>1 DEF ReqHolds
<1> QED BY <1>1, <1>2 DEF ChecksHold, ReqHolds

\* Nothing removes the binary.
LEMMA CoreStaysReady ==
  ASSUME CoreReady, NEW h \in CoreHandlers, pingCore => pingCore',
         \A g \in CoreHandlers : g # h => coreReq'[g] = coreReq[g],
         coreReq'[h].pc \in {"unit", "enable"} => pingCore'
  PROVE  CoreReady'
<1> SUFFICES ASSUME NEW g \in CoreHandlers, coreReq'[g].pc \in {"unit", "enable"} PROVE pingCore'
  BY DEF CoreReady
<1>1. CASE g = h
  BY <1>1
<1>2. CASE g # h
  BY <1>2 DEF CoreReady
<1> QED BY <1>1, <1>2

\* The requests that only begin, reading the host.
LEMMA CoreBegins ==
  ASSUME CoreInv, NEW h \in CoreHandlers,
         PingTunnelCreate(h) \/ RemovePingTunnelCore(h) \/ HedCoreUninstall(h)
            \/ SetupForeign(h) \/ SetupIran(h)
  PROVE  CoreInv'
PROOF
<1>t. coreReq \in [CoreHandlers -> CoreRec]
  BY DEF CoreInv, CoreTypeOK, CoreRec, CorePcs
<1>s. UNCHANGED <<pingVars, hedVars>>
  BY DEF PingTunnelCreate, RemovePingTunnelCore, HedCoreUninstall, SetupForeign, SetupIran
<1>1. \E r \in CoreRec : BeginCore(h, r) /\ ReqHolds(r) /\ (r.pc = "unit" => pingCore) /\ r.pc # "enable"
  <2> USE NoCoreReqType DEF ReqHolds
  <2>1. CASE PingTunnelCreate(h)
    <3>1. PICK u \in PingUnits, blind \in BOOLEAN :
             /\ u \in IranUnits /\ ~blind => u \notin services
             /\ BeginCore(h, [NoCoreReq EXCEPT !.pc = "unit", !.unit = u, !.blind = blind])
      BY <2>1 DEF PingTunnelCreate
    <3> DEFINE r == [NoCoreReq EXCEPT !.pc = "unit", !.unit = u, !.blind = blind]
    <3>2. r \in CoreRec /\ r.pc = "unit" /\ r.unit = u /\ r.blind = blind
      BY DEF CoreRec, CorePcs
    <3>3. pingCore
      BY <2>1 DEF PingTunnelCreate
    <3>4. BeginCore(h, r)
      BY <3>1
    <3> HIDE DEF r
    <3> QED BY <3>1, <3>2, <3>3, <3>4
  <2>2. CASE RemovePingTunnelCore(h)
    <3>1. PICK blind \in BOOLEAN :
             /\ ~blind => services = {}
             /\ BeginCore(h, [NoCoreReq EXCEPT !.pc = "rmcore", !.blind = blind])
      BY <2>2 DEF RemovePingTunnelCore
    <3> DEFINE r == [NoCoreReq EXCEPT !.pc = "rmcore", !.blind = blind]
    <3>2. r \in CoreRec /\ r.pc = "rmcore" /\ r.blind = blind
      BY DEF CoreRec, CorePcs
    <3>3. BeginCore(h, r)
      BY <3>1
    <3> HIDE DEF r
    <3> QED BY <3>1, <3>2, <3>3
  <2>3. CASE HedCoreUninstall(h)
    <3> DEFINE r == [NoCoreReq EXCEPT !.pc = "uninstall"]
    <3>2. r \in CoreRec /\ r.pc = "uninstall"
      BY DEF CoreRec, CorePcs
    <3> QED BY <2>3, <3>2 DEF HedCoreUninstall
  <2>4. CASE SetupForeign(h)
    <3>1. PICK force \in BOOLEAN :
             /\ hedRole = "iran" => force
             /\ BeginCore(h, [NoCoreReq EXCEPT !.pc = "setup", !.role = "foreign", !.force = force])
      BY <2>4 DEF SetupForeign
    <3> DEFINE r == [NoCoreReq EXCEPT !.pc = "setup", !.role = "foreign", !.force = force]
    <3>2. r \in CoreRec /\ r.pc = "setup" /\ r.role = "foreign" /\ r.force = force
      BY DEF CoreRec, CorePcs
    <3>3. hedRole \in {"", "iran", "foreign"}
      BY DEF CoreInv, CoreTypeOK
    <3>4. BeginCore(h, r)
      BY <3>1
    <3> HIDE DEF r
    <3> QED BY <3>1, <3>2, <3>3, <3>4
  <2>5. CASE SetupIran(h)
    <3>1. PICK force \in BOOLEAN :
             /\ hedRole = "foreign" => force
             /\ BeginCore(h, [NoCoreReq EXCEPT !.pc = "setup", !.role = "iran", !.force = force])
      BY <2>5 DEF SetupIran
    <3> DEFINE r == [NoCoreReq EXCEPT !.pc = "setup", !.role = "iran", !.force = force]
    <3>2. r \in CoreRec /\ r.pc = "setup" /\ r.role = "iran" /\ r.force = force
      BY DEF CoreRec, CorePcs
    <3>3. hedRole \in {"", "iran", "foreign"}
      BY DEF CoreInv, CoreTypeOK
    <3>4. BeginCore(h, r)
      BY <3>1
    <3> HIDE DEF r
    <3> QED BY <3>1, <3>2, <3>3, <3>4
  <2> QED BY <2>1, <2>2, <2>3, <2>4, <2>5
<1>2. PICK r \in CoreRec : BeginCore(h, r) /\ ReqHolds(r) /\ (r.pc = "unit" => pingCore) /\ r.pc # "enable"
  BY <1>1
<1>3. /\ coreReq' \in [CoreHandlers -> CoreRec] /\ coreReq'[h] = r
      /\ \A g \in CoreHandlers : g # h => coreReq'[g] = coreReq[g]
      /\ alone' => /\ alone
                   /\ \A g \in CoreHandlers : g # h => coreReq'[g].pc = "idle"
      /\ alone \in BOOLEAN => alone' \in BOOLEAN
  BY <1>t, <1>2, BeginFacts
<1>4. CoreTypeOK'
  BY <1>3, <1>s DEF CoreInv, CoreTypeOK, CoreRec, CorePcs, pingVars, hedVars
<1>5. ChecksHold'
  <2>1. ReqHolds(coreReq[h])'
    BY <1>2, <1>3, <1>s DEF ReqHolds, pingVars, hedVars
  <2>2. CASE alone'
    BY <2>1, <2>2, <1>3, CoreAlone
  <2> QED BY <2>2 DEF ChecksHold
<1>6. CoresGuarded'
  BY <1>3, <1>s DEF CoreInv, CoresGuarded, pingVars, hedVars
<1>7. CoreReady'
  <2>1. coreReq'[h].pc \in {"unit", "enable"} => pingCore'
    BY <1>2, <1>3, <1>s DEF pingVars
  <2> QED BY <1>3, <1>s, <2>1, CoreStaysReady DEF CoreInv, pingVars
<1> QED BY <1>4, <1>5, <1>6, <1>7 DEF CoreInv

\* The requests that act in their first step and then only reply.
LEMMA CoreActs ==
  ASSUME CoreInv, NEW h \in CoreHandlers,
         DeletePingTunnelUnit(h) \/ InstallPingTunnelCore(h) \/ InstallHedCore(h)
  PROVE  CoreInv'
PROOF
<1>t. coreReq \in [CoreHandlers -> CoreRec]
  BY DEF CoreInv, CoreTypeOK, CoreRec, CorePcs
<1> DEFINE r == [NoCoreReq EXCEPT !.pc = "reply"]
<1>1. r \in CoreRec /\ r.pc = "reply"
  BY NoCoreReqType DEF CoreRec, CorePcs
<1>2. BeginCore(h, r)
  BY DEF DeletePingTunnelUnit, InstallPingTunnelCore, InstallHedCore
<1> HIDE DEF r
<1>3. /\ coreReq' \in [CoreHandlers -> CoreRec] /\ coreReq'[h] = r
      /\ \A g \in CoreHandlers : g # h => coreReq'[g] = coreReq[g]
      /\ alone' => /\ alone
                   /\ \A g \in CoreHandlers : g # h => coreReq'[g].pc = "idle"
      /\ alone \in BOOLEAN => alone' \in BOOLEAN
  BY <1>t, <1>1, <1>2, BeginFacts
<1>4. /\ hedRole' = hedRole /\ hubLost' = hubLost /\ suiteInUse' = suiteInUse
      /\ services' \subseteq services /\ unitFiles' \subseteq unitFiles
      /\ (pingCore => pingCore')
      /\ pingCore' \in BOOLEAN /\ coreDir' \in BOOLEAN /\ hedCore' \in BOOLEAN /\ overrun' = overrun
  BY DEF CoreInv, CoreTypeOK, DeletePingTunnelUnit, InstallPingTunnelCore, InstallHedCore, pingVars, hedVars
<1>5. CoreTypeOK'
  BY <1>3, <1>4 DEF CoreInv, CoreTypeOK, CoreRec, CorePcs
<1>6. ChecksHold'
  <2>1. ReqHolds(coreReq[h])'
    BY <1>1, <1>3 DEF ReqHolds
  <2>2. CASE alone'
    BY <2>1, <2>2, <1>3, CoreAlone
  <2> QED BY <2>2 DEF ChecksHold
<1>7. CoresGuarded'
  BY <1>3, <1>4 DEF CoreInv, CoresGuarded
<1>8. CoreReady'
  BY <1>1, <1>3, <1>4, CoreStaysReady DEF CoreInv
<1> QED BY <1>5, <1>6, <1>7, <1>8 DEF CoreInv

\* A step of a request under way keeps the checks when the request's own hold.
LEMMA CoreStepHolds ==
  ASSUME CoreInv, NEW h \in CoreHandlers, coreReq[h].pc # "idle",
         NEW pc \in CorePcs, CoreStep(h, pc),
         alone => ReqHolds(coreReq[h])'
  PROVE  ChecksHold'
PROOF
<1>t. coreReq \in [CoreHandlers -> CoreRec]
  BY DEF CoreInv, CoreTypeOK, CoreRec, CorePcs
<1>1. /\ \A g \in CoreHandlers : g # h => coreReq'[g] = coreReq[g]
      /\ alone' = alone
  BY <1>t, StepFacts
<1>2. CASE alone
  <2>1. \A g \in CoreHandlers : g # h => coreReq[g].pc = "idle"
    BY <1>2, CoreOnly DEF CoreInv
  <2> QED BY <1>1, <1>2, <2>1, CoreAlone
<1>3. CASE ~alone
  BY <1>1, <1>3 DEF ChecksHold
<1> QED BY <1>2, <1>3

LEMMA CoreGoesOn ==
  ASSUME CoreInv, NEW h \in CoreHandlers,
         InstallPingTunnelUnit(h) \/ RemovePingTunnelDir(h) \/ RemoveHedCore(h)
            \/ RunSetup(h) \/ CoreReply(h)
  PROVE  CoreInv'
PROOF
<1>t. coreReq \in [CoreHandlers -> CoreRec]
  BY DEF CoreInv, CoreTypeOK, CoreRec, CorePcs
<1>b. coreReq[h].pc # "idle"
  BY DEF InstallPingTunnelUnit, RemovePingTunnelDir, RemoveHedCore, RunSetup, CoreReply
<1>h. alone => ReqHolds(coreReq[h])
  BY <1>b, CoreOnly DEF CoreInv
<1>1. \E pc \in {"idle", "enable", "removed"} :
         CoreStep(h, pc) /\ (pc = "enable" => coreReq[h].pc = "unit")
  BY DEF InstallPingTunnelUnit, RemovePingTunnelDir, RemoveHedCore, RunSetup, CoreReply
<1>2. PICK pc \in {"idle", "enable", "removed"} :
         CoreStep(h, pc) /\ (pc = "enable" => coreReq[h].pc = "unit")
  BY <1>1
<1>p. pingCore' = pingCore
  BY DEF InstallPingTunnelUnit, RemovePingTunnelDir, RemoveHedCore, RunSetup, CoreReply, pingVars
<1>3. /\ coreReq' \in [CoreHandlers -> CoreRec]
      /\ coreReq'[h].pc = pc
      /\ \A g \in CoreHandlers : g # h => coreReq'[g] = coreReq[g]
      /\ alone' = alone
  BY <1>2, <1>t, StepFacts DEF CorePcs
<1>4. ChecksHold'
  <2>1. alone => ReqHolds(coreReq[h])'
    BY <1>2, <1>3 DEF ReqHolds
  <2> QED BY <2>1, <1>2, <1>b, CoreStepHolds DEF CorePcs
<1>r. CoreReady'
  <2>1. coreReq'[h].pc \in {"unit", "enable"} => pingCore'
    BY <1>2, <1>3, <1>p DEF CoreInv, CoreReady
  <2> QED BY <1>3, <1>p, <2>1, CoreStaysReady DEF CoreInv
<1>5. CASE InstallPingTunnelUnit(h)
  <2>1. /\ UNCHANGED <<pingCore, coreDir>> /\ UNCHANGED hedVars
        /\ coreReq[h].pc \in {"unit", "enable"}
    BY <1>5 DEF InstallPingTunnelUnit
  <2>2. coreReq[h].unit \in PingUnits
    BY <1>t DEF CoreRec
  <2>3. services' \subseteq PingUnits /\ unitFiles' \subseteq PingUnits
    BY <1>5, <2>2 DEF InstallPingTunnelUnit, CoreInv, CoreTypeOK
  <2>o. overrun' \in BOOLEAN
    BY <1>5 DEF InstallPingTunnelUnit, CoreInv, CoreTypeOK
  <2>4. CoreTypeOK'
    BY <1>3, <2>1, <2>3, <2>o DEF CoreInv, CoreTypeOK, CoreRec, CorePcs, hedVars
  <2>5. pingCore
    BY <2>1 DEF CoreInv, CoreReady
  <2>6. alone => ~overrun'
    <3> SUFFICES ASSUME alone PROVE ~overrun'
      OBVIOUS
    <3>1. ~overrun
      BY DEF CoreInv, CoresGuarded
    <3>2. coreReq[h].pc = "unit" => ~(coreReq[h].unit \in IranUnits \cap services /\ ~coreReq[h].blind)
      BY <1>h DEF ReqHolds
    <3> QED BY <1>5, <3>1, <3>2 DEF InstallPingTunnelUnit
  <2>7. CoresGuarded'
    BY <1>3, <2>1, <2>5, <2>6 DEF CoreInv, CoresGuarded, hedVars
  <2> QED BY <1>4, <1>r, <2>4, <2>7 DEF CoreInv
<1>6. CASE RemovePingTunnelDir(h)
  <2>1. /\ UNCHANGED <<pingCore, unitFiles, services, hedVars>>
        /\ coreReq[h].pc = "rmcore" /\ coreDir' \in BOOLEAN /\ overrun' \in BOOLEAN
    BY <1>6 DEF RemovePingTunnelDir, CoreInv, CoreTypeOK
  <2>2. CoreTypeOK'
    BY <1>3, <2>1 DEF CoreInv, CoreTypeOK, CoreRec, CorePcs, hedVars
  <2>3. alone => ~overrun'
    <3> SUFFICES ASSUME alone PROVE ~overrun'
      OBVIOUS
    <3>1. ~overrun
      BY DEF CoreInv, CoresGuarded
    <3>2. ~coreReq[h].blind => services = {}
      BY <1>h, <2>1 DEF ReqHolds
    <3> QED BY <1>6, <3>1, <3>2 DEF RemovePingTunnelDir
  <2>4. CoresGuarded'
    BY <1>3, <2>1, <2>3 DEF CoreInv, CoresGuarded, hedVars
  <2> QED BY <1>4, <1>r, <2>2, <2>4 DEF CoreInv
<1>7. CASE RemoveHedCore(h) \/ CoreReply(h)
  <2>1. /\ UNCHANGED <<pingVars, suiteInUse, hubLost>> /\ hedCore' \in BOOLEAN
        /\ hedRole' \in {hedRole, ""}
    BY <1>7 DEF RemoveHedCore, CoreReply, CoreInv, CoreTypeOK, hedVars
  <2>2. CoreTypeOK'
    BY <1>3, <2>1 DEF CoreInv, CoreTypeOK, CoreRec, CorePcs, pingVars
  <2>3. CoresGuarded'
    BY <1>3, <2>1 DEF CoreInv, CoresGuarded, pingVars
  <2> QED BY <1>4, <1>r, <2>2, <2>3 DEF CoreInv
<1>8. CASE RunSetup(h)
  <2>1. /\ UNCHANGED <<pingVars, suiteInUse, hedCore>>
        /\ hedRole' \in {hedRole, coreReq[h].role}
        /\ coreReq[h].pc = "setup"
    BY <1>8 DEF RunSetup
  <2>2. coreReq[h].role \in {"", "iran", "foreign"} /\ coreReq[h].force \in BOOLEAN
    BY <1>t DEF CoreRec
  <2>3. hubLost' \in BOOLEAN
    BY <1>8 DEF RunSetup, CoreInv, CoreTypeOK
  <2>4. CoreTypeOK'
    BY <1>3, <2>1, <2>2, <2>3 DEF CoreInv, CoreTypeOK, CoreRec, CorePcs, pingVars
  <2>5. alone => (coreReq[h].force \/ hedRole \in {"", coreReq[h].role})
    BY <2>1, <1>h DEF ReqHolds
  <2>6. alone => ~hubLost
    BY DEF CoreInv, CoresGuarded
  <2>7. alone => ~hubLost'
    BY <1>8, <2>5, <2>6 DEF RunSetup
  <2>8. CoresGuarded'
    BY <1>3, <2>1, <2>7 DEF CoreInv, CoresGuarded, pingVars
  <2> QED BY <1>4, <1>r, <2>4, <2>8 DEF CoreInv
<1> QED BY <1>5, <1>6, <1>7, <1>8

LEMMA CoreStable ==
  ASSUME CoreInv, [CoreNext]_coreVars
  PROVE  CoreInv'
PROOF
<1>1. CASE SuiteChange
  BY <1>1 DEF SuiteChange, CoreInv, CoreTypeOK, CoreReady, ChecksHold, CoresGuarded, pingVars
<1>2. CASE UNCHANGED coreVars
  BY <1>2 DEF coreVars, CoreInv, CoreTypeOK, CoreReady, ChecksHold, CoresGuarded
<1> QED BY <1>1, <1>2, CoreBegins, CoreActs, CoreGoesOn DEF CoreNext

(***************************************************************************)
(* For every set of units, requests and failures: a pingtunnel unit that   *)
(* systemd runs has its binary, and while requests have not overlapped,    *)
(* one that could list the units has neither written over one nor removed  *)
(* the core's directory under one (RemovePingTunnelCore), and no wizard    *)
(* has turned a hub into an egress or back unforced.                       *)
(***************************************************************************)
THEOREM CoresStayGuarded == CoreSpec => []CoresGuarded
PROOF
<1>1. CoreInit => CoreInv
  <2> SUFFICES ASSUME CoreInit PROVE CoreInv
    OBVIOUS
  <2>1. \A h \in CoreHandlers : coreReq[h].pc = "idle"
    BY NoCoreReqType DEF CoreInit
  <2>2. coreReq \in [CoreHandlers -> CoreRec]
    BY NoCoreReqType DEF CoreInit
  <2>3. CoreTypeOK
    BY <2>2 DEF CoreInit, CoreTypeOK, CoreRec, CorePcs
  <2>4. CoreReady /\ ChecksHold /\ CoresGuarded
    BY <2>1 DEF CoreInit, CoreReady, ChecksHold, CoresGuarded
  <2> QED BY <2>3, <2>4 DEF CoreInv
<1>2. CoreInv /\ [CoreNext]_coreVars => CoreInv'
  BY CoreStable
<1>3. CoreInv => CoresGuarded
  BY DEF CoreInv
<1> QED BY <1>1, <1>2, <1>3, PTL DEF CoreSpec

-----------------------------------------------------------------------------
(* Certificates.                                                           *)

CertPcs == {"idle", "run", "key", "cert", "readCert", "readKey", "store", "profile"}
CertRec == [pc : CertPcs, job : BOOLEAN, renew : BOOLEAN, body : Body, id : Nat, pair : Nat,
            got : CertPair]

LEMMA NoPairType == NoPair \in CertPair
BY DEF NoPair, CertPair

LEMMA NoBodyType == NoBodyYet \in Body
PROOF
<1>1. "" \in Texts
  BY DEF Texts
<1> QED BY <1>1 DEF NoBodyYet, Body

LEMMA IdleCertType == IdleCert \in CertRec /\ IdleCert.pc = "idle" /\ IdleCert.renew = FALSE
BY NoPairType, NoBodyType DEF IdleCert, CertRec, CertPcs

\* A stored profile names the directory it was issued in.
LEMMA DecodedDir ==
  ASSUME NEW p \in Body
  PROVE  DecodedProfile(p) \in Body /\ DirOf(DecodedProfile(p)) = DirOf(p)
PROOF
<1>1. "" \in Texts
  BY DEF Texts
<1>2. DecodedProfile(p) \in Body
  BY <1>1 DEF DecodedProfile, Body
<1> QED BY <1>2 DEF DecodedProfile, Body, DirOf

\* The record of a request is replaced by q and stays one.
LEMMA CertReqType ==
  ASSUME CertTypeOK
  PROVE  certReq \in [CertHandlers -> CertRec]
BY DEF CertTypeOK, CertRec, CertPcs

\* A step of one request that leaves what the others rely on: what is shared
\* stays so, a recorded id keeps its origin, and only the directory the request
\* runs in changes.
CertFrame(h) ==
    /\ shared \subseteq shared'
    /\ \A i \in CertIds : Recorded(i) => Recorded(i)' /\ origin'[i] = origin[i]
    /\ \A d \in Dirs :
          /\ clientDir[d].key # 0 => clientDir'[d].key # 0
          /\ clientDir[d].cert # 0 => clientDir'[d].cert # 0
          /\ clientDir'[d] # clientDir[d] => InClient(certReq[h]) /\ d = DirOf(certReq[h].body)

\* The other requests keep what they have.
LEMMA CertOthers ==
  ASSUME CertInv, NEW h \in CertHandlers, CertFrame(h),
         NEW g \in CertHandlers, g # h, certReq'[g] = certReq[g]
  PROVE  RunHas(g)' /\ RunOf(g)'
PROOF
<1> DEFINE d == DirOf(certReq[g].body)
<1>1. RunHas(g) /\ RunOf(g)
  BY DEF CertInv
<1>2. certReq[g].pc # "idle" => d \in Dirs
  BY <1>1 DEF RunOf
<1>3. InClient(certReq[g]) /\ d \notin shared => clientDir'[d] = clientDir[d]
  BY <1>2 DEF CertInv, OneRun, CertFrame, InClient
<1>4. d \notin shared' => d \notin shared
  BY DEF CertFrame
<1>5. certReq[g].pc # "idle" => /\ clientDir[d].key # 0 => clientDir'[d].key # 0
                                /\ clientDir[d].cert # 0 => clientDir'[d].cert # 0
  BY <1>2 DEF CertFrame
<1>6. DirOf(certReq[g].body)' = d
  BY DEF DirOf
<1>7. RunHas(g)'
  <2> HIDE DEF d
  <2> QED BY <1>1, <1>3, <1>4, <1>5, <1>6 DEF RunHas, InClient, d
<1>8. RunOf(g)'
  <2>1. certReq[g].id \in CertIds /\ Recorded(certReq[g].id) =>
           Recorded(certReq[g].id)' /\ origin'[certReq[g].id] = origin[certReq[g].id]
    BY DEF CertFrame, Recorded
  <2>2. Dirs' = Dirs
    BY DEF Dirs
  <2> QED BY <1>1, <2>1, <2>2 DEF RunOf, DirOf, Recorded
<1> QED BY <1>7, <1>8

\* What is left to show of a step of h: its own part, and the rows.
LEMMA CertMove ==
  ASSUME CertInv, NEW h \in CertHandlers, CertFrame(h), CertTypeOK',
         \A g \in CertHandlers : g # h => certReq'[g] = certReq[g],
         RunHas(h)', RunOf(h)', ProfilesKnown', PairsMatch',
         \A g \in CertHandlers :
            g # h /\ InClient(certReq[g]) /\ InClient(certReq'[h])
               /\ DirOf(certReq[g].body) = DirOf(certReq'[h].body) => DirOf(certReq'[h].body) \in shared'
  PROVE  CertInv'
PROOF
<1>1. \A g \in CertHandlers : RunHas(g)' /\ RunOf(g)'
  BY CertOthers
<1>2. OneRun'
  <2> SUFFICES ASSUME NEW f \in CertHandlers, NEW g \in CertHandlers, f # g,
                      InClient(certReq'[f]), InClient(certReq'[g]),
                      DirOf(certReq'[f].body) = DirOf(certReq'[g].body)
               PROVE  DirOf(certReq'[g].body) \in shared'
    BY DEF OneRun, DirOf, InClient
  <2>1. CASE f = h
    BY <2>1
  <2>2. CASE g = h
    BY <2>2
  <2>3. CASE f # h /\ g # h
    <3>1. DirOf(certReq[g].body) \in shared
      BY <2>3 DEF CertInv, OneRun
    <3> QED BY <2>3, <3>1 DEF CertFrame
  <2> QED BY <2>1, <2>2, <2>3
<1> QED BY <1>1, <1>2 DEF CertInv

\* Rows that do not change match as before.
LEMMA RowsSame ==
  ASSUME CertInv, UNCHANGED <<certRow, profile, origin, gone>>, shared \subseteq shared'
  PROVE  ProfilesKnown' /\ PairsMatch'
PROOF
<1>1. Dirs' = Dirs /\ NoPair' = NoPair /\ NoBodyYet' = NoBodyYet
  BY DEF Dirs, NoPair, NoBodyYet
<1>2. ProfilesKnown'
  BY <1>1 DEF CertInv, ProfilesKnown, Recorded, DirOf
<1>3. PairsMatch'
  BY <1>1 DEF CertInv, PairsMatch, DirOf
<1> QED BY <1>2, <1>3

\* Requests end and nothing else changes.
LEMMA CertDrops ==
  ASSUME CertInv, UNCHANGED <<certRow, profile, origin, gone, clientDir, shared, pairs>>,
         certReq' \in [CertHandlers -> CertRec],
         \A h \in CertHandlers : certReq'[h] = certReq[h] \/ certReq'[h].pc = "idle"
  PROVE  CertInv'
PROOF
<1>1. CertTypeOK'
  BY DEF CertInv, CertTypeOK, CertRec, CertPcs, Dirs
<1>2. ProfilesKnown' /\ PairsMatch'
  BY RowsSame
<1>3. OneRun'
  BY DEF CertInv, OneRun, InClient, DirOf
<1>4. ASSUME NEW h \in CertHandlers
      PROVE  RunHas(h)' /\ RunOf(h)'
  <2>1. CASE certReq'[h] = certReq[h]
    BY <2>1 DEF CertInv, RunHas, RunOf, Recorded, DirOf, Dirs, NoPair
  <2>2. CASE certReq'[h].pc = "idle"
    BY <2>2 DEF RunHas, RunOf
  <2> QED BY <2>1, <2>2
<1> QED BY <1>1, <1>2, <1>3, <1>4 DEF CertInv

CertMoved(h, q) == q \in CertRec /\ certReq' = [certReq EXCEPT ![h] = q]

LEMMA MovedFacts ==
  ASSUME CertInv, NEW h \in CertHandlers, NEW q, CertMoved(h, q)
  PROVE  /\ certReq' \in [CertHandlers -> CertRec]
         /\ certReq'[h] = q
         /\ \A g \in CertHandlers : g # h => certReq'[g] = certReq[g]
BY CertReqType DEF CertInv, CertMoved

\* A step that changes neither rows nor directories.
LEMMA CertQuiet ==
  ASSUME CertInv, NEW h \in CertHandlers, NEW q, CertMoved(h, q),
         UNCHANGED <<certRow, profile, origin, gone, clientDir>>, pairs' \in Nat,
         shared \subseteq shared',
         RunHas(h)', RunOf(h)',
         \A g \in CertHandlers :
            g # h /\ InClient(certReq[g]) /\ InClient(certReq'[h])
               /\ DirOf(certReq[g].body) = DirOf(certReq'[h].body) => DirOf(certReq'[h].body) \in shared'
  PROVE  CertInv'
PROOF
<1>1. /\ certReq' \in [CertHandlers -> CertRec]
      /\ \A g \in CertHandlers : g # h => certReq'[g] = certReq[g]
  BY MovedFacts
<1>2. CertTypeOK'
  BY <1>1 DEF CertInv, CertTypeOK, CertRec, CertPcs, Dirs
<1>3. ProfilesKnown' /\ PairsMatch'
  BY RowsSame
<1>4. CertFrame(h)
  BY DEF CertFrame, Recorded, NoPair
<1> QED BY <1>1, <1>2, <1>3, <1>4, CertMove

LEMMA IssueStep ==
  ASSUME CertInv, NEW h \in CertHandlers, handleIssueCert(h)
  PROVE  CertInv'
PROOF
<1>1. PICK b \in IssueBodies, job \in BOOLEAN :
         certReq' = [certReq EXCEPT ![h] = [IdleCert EXCEPT !.pc = "run", !.job = job, !.body = b]]
  BY DEF handleIssueCert
<1> DEFINE q == [IdleCert EXCEPT !.pc = "run", !.job = job, !.body = b]
<1>2. q \in CertRec
  BY IdleCertType, CertAssumption DEF CertRec, CertPcs
<1>3. q.pc = "run" /\ q.renew = FALSE /\ q.body = b
  BY IdleCertType DEF CertRec
<1>4. CertMoved(h, q)
  BY <1>1, <1>2 DEF CertMoved
<1> HIDE DEF q
<1>5. certReq'[h] = q
  BY <1>4, MovedFacts
<1>6. DirOf(b) \in Dirs
  BY DEF DirOf, Dirs
<1>7. RunHas(h)' /\ RunOf(h)'
  BY <1>3, <1>5, <1>6 DEF RunHas, RunOf, DirOf, Dirs
<1>8. ~InClient(certReq'[h])
  BY <1>3, <1>5 DEF InClient
<1>9. /\ UNCHANGED <<certRow, profile, origin, gone, clientDir>> /\ pairs' \in Nat
      /\ shared \subseteq shared'
  BY DEF handleIssueCert, CertInv, CertTypeOK
<1> QED BY <1>4, <1>7, <1>8, <1>9, CertQuiet

LEMMA RenewStep ==
  ASSUME CertInv, NEW h \in CertHandlers, handleRenewCert(h)
  PROVE  CertInv'
PROOF
<1>1. PICK i \in CertIds, job \in BOOLEAN :
         /\ profile[i] # NoBodyYet
         /\ certReq' = [certReq EXCEPT ![h] =
                [IdleCert EXCEPT !.pc = "run", !.job = job, !.renew = TRUE, !.id = i,
                                 !.body = DecodedProfile(profile[i])]]
  BY DEF handleRenewCert
<1> DEFINE p == DecodedProfile(profile[i])
           q == [IdleCert EXCEPT !.pc = "run", !.job = job, !.renew = TRUE, !.id = i, !.body = p]
<1>p. p \in Body /\ DirOf(p) = DirOf(profile[i])
  BY DecodedDir DEF CertInv, CertTypeOK
<1>a. certReq' = [certReq EXCEPT ![h] = q]
  BY <1>1
<1> HIDE DEF p
<1>2. q \in CertRec
  BY <1>p, IdleCertType, CertAssumption DEF CertRec, CertPcs
<1>3. q.pc = "run" /\ q.id = i /\ q.body = p
  BY IdleCertType DEF CertRec
<1>4. CertMoved(h, q)
  BY <1>a, <1>2 DEF CertMoved
<1> HIDE DEF q
<1>5. certReq'[h] = q
  BY <1>4, MovedFacts
<1>6. Recorded(i) /\ DirOf(profile[i]) \in Dirs /\ DirOf(profile[i]) = DirOf(origin[i])
  BY <1>1 DEF CertInv, ProfilesKnown
<1>9. /\ UNCHANGED <<certRow, profile, origin, gone, clientDir>> /\ pairs' \in Nat
      /\ shared \subseteq shared'
  BY DEF handleRenewCert, CertInv, CertTypeOK
<1>7. RunHas(h)' /\ RunOf(h)'
  <2>1. RunHas(h)'
    BY <1>3, <1>5 DEF RunHas
  <2>2. DirOf(p) \in Dirs /\ DirOf(p) = DirOf(origin[i])
    BY <1>6, <1>p
  <2>3. RunOf(h)'
    BY <1>3, <1>5, <1>6, <1>9, <2>2 DEF RunOf, DirOf, Dirs, Recorded, NoPair
  <2> QED BY <2>1, <2>3
<1>8. ~InClient(certReq'[h])
  BY <1>3, <1>5 DEF InClient
<1> QED BY <1>4, <1>7, <1>8, <1>9, CertQuiet

LEMMA StartStep ==
  ASSUME CertInv, NEW h \in CertHandlers, StartClient(h)
  PROVE  CertInv'
PROOF
<1>t. certReq[h] \in CertRec /\ pairs \in Nat
  BY CertReqType DEF CertInv, CertTypeOK
<1> DEFINE n == pairs + 1
           q == [certReq[h] EXCEPT !.pc = "key", !.pair = n]
           d == DirOf(certReq[h].body)
<1>1. certReq' = [certReq EXCEPT ![h] = q]
  BY CertReqType DEF StartClient, CertInv
<1>n. n \in Nat /\ n # 0
  BY <1>t
<1> HIDE DEF n
<1>2. q \in CertRec /\ q.pc = "key" /\ q.pair # 0
  BY <1>t, <1>n DEF CertRec, CertPcs
<1>3. q.body = certReq[h].body /\ q.renew = certReq[h].renew /\ q.id = certReq[h].id
  BY <1>t DEF CertRec
<1>4. CertMoved(h, q)
  BY <1>1, <1>2 DEF CertMoved
<1> HIDE DEF q
<1>5. certReq'[h] = q
  BY <1>4, MovedFacts
<1>6. /\ UNCHANGED <<certRow, profile, origin, gone, clientDir>> /\ pairs' \in Nat
      /\ certReq[h].pc = "run"
  BY <1>n DEF StartClient, n
<1>7. RunHas(h)'
  BY <1>2, <1>5 DEF RunHas
<1>8. RunOf(h)'
  <2>1. RunOf(h)
    BY DEF CertInv
  <2> QED BY <2>1, <1>2, <1>3, <1>5, <1>6 DEF RunOf, DirOf, Dirs, Recorded, NoPair
<1>9. /\ shared \subseteq shared'
      /\ (\E g \in CertHandlers \ {h} : InClient(certReq[g]) /\ DirOf(certReq[g].body) = d)
            => d \in shared'
  BY DEF StartClient
<1>10. DirOf(certReq'[h].body) = d
  BY <1>3, <1>5
<1> HIDE DEF d
<1>11. \A g \in CertHandlers :
            g # h /\ InClient(certReq[g]) /\ InClient(certReq'[h])
               /\ DirOf(certReq[g].body) = DirOf(certReq'[h].body) => DirOf(certReq'[h].body) \in shared'
  BY <1>9, <1>10
<1> QED BY <1>4, <1>6, <1>7, <1>8, <1>9, <1>11, CertQuiet

LEMMA ReadStep ==
  ASSUME CertInv, NEW h \in CertHandlers, ReadIssued(h)
  PROVE  CertInv'
PROOF
<1>t. certReq[h] \in CertRec /\ clientDir \in [Dirs -> CertPair]
  BY CertReqType DEF CertInv, CertTypeOK
<1>h. RunHas(h) /\ RunOf(h)
  BY DEF CertInv
<1> DEFINE d == DirOf(certReq[h].body)
<1>d. certReq[h].pc \in {"readCert", "readKey"} /\ d \in Dirs
  BY <1>h DEF ReadIssued, RunOf
<1>g. certReq[h].got \in CertPair /\ clientDir[d] \in CertPair
  BY <1>t, <1>d DEF CertRec
<1>u. UNCHANGED <<certRow, profile, origin, gone, clientDir, shared, pairs>> /\ pairs \in Nat
  BY DEF ReadIssued, CertInv, CertTypeOK
<1>c. \A g \in CertHandlers :
         g # h /\ InClient(certReq[g]) /\ DirOf(certReq[g].body) = d => d \in shared
  BY <1>d DEF CertInv, OneRun, InClient
<1>1. CASE certReq[h].pc = "readCert"
  <2> DEFINE p == [certReq[h].got EXCEPT !.cert = clientDir[d].cert]
             q == [certReq[h] EXCEPT !.pc = "readKey", !.got = p]
  <2>1. p \in CertPair /\ p.cert = clientDir[d].cert
    BY <1>g DEF CertPair
  <2>2. certReq' = [certReq EXCEPT ![h] = q]
    BY <1>1, CertReqType DEF ReadIssued, CertInv
  <2> HIDE DEF p
  <2>3. q \in CertRec /\ q.pc = "readKey" /\ q.got = p
    BY <1>t, <2>1 DEF CertRec, CertPcs
  <2>4. q.body = certReq[h].body /\ q.renew = certReq[h].renew /\ q.id = certReq[h].id
           /\ q.pair = certReq[h].pair
    BY <1>t DEF CertRec
  <2>5. CertMoved(h, q)
    BY <2>2, <2>3 DEF CertMoved
  <2> HIDE DEF q
  <2>6. certReq'[h] = q
    BY <2>5, MovedFacts
  <2>7. RunHas(h)'
    BY <1>h, <1>1, <1>u, <2>1, <2>3, <2>4, <2>6 DEF RunHas, DirOf
  <2>8. RunOf(h)'
    BY <1>h, <1>1, <1>u, <2>3, <2>4, <2>6 DEF RunOf, DirOf, Dirs, Recorded, NoPair
  <2>9. DirOf(certReq'[h].body) = d
    BY <2>4, <2>6
  <2>10. \A g \in CertHandlers :
            g # h /\ InClient(certReq[g]) /\ InClient(certReq'[h])
               /\ DirOf(certReq[g].body) = DirOf(certReq'[h].body) => DirOf(certReq'[h].body) \in shared'
    <3> HIDE DEF d
    <3> QED BY <2>9, <1>u, <1>c
  <2> QED BY <2>5, <2>7, <2>8, <2>10, <1>u, CertQuiet
<1>2. CASE certReq[h].pc = "readKey"
  <2> DEFINE p == [certReq[h].got EXCEPT !.key = clientDir[d].key]
             q == [certReq[h] EXCEPT !.pc = "store", !.got = p]
  <2>1. p \in CertPair /\ p.key = clientDir[d].key /\ p.cert = certReq[h].got.cert
    BY <1>g DEF CertPair
  <2>2. certReq' = [certReq EXCEPT ![h] = q]
    BY <1>2, CertReqType DEF ReadIssued, CertInv
  <2> HIDE DEF p
  <2>3. q \in CertRec /\ q.pc = "store" /\ q.got = p
    BY <1>t, <2>1 DEF CertRec, CertPcs
  <2>4. q.body = certReq[h].body /\ q.renew = certReq[h].renew /\ q.id = certReq[h].id
           /\ q.pair = certReq[h].pair
    BY <1>t DEF CertRec
  <2>5. CertMoved(h, q)
    BY <2>2, <2>3 DEF CertMoved
  <2> HIDE DEF q
  <2>6. certReq'[h] = q
    BY <2>5, MovedFacts
  <2>7. RunHas(h)'
    BY <1>h, <1>2, <1>u, <2>1, <2>3, <2>4, <2>6 DEF RunHas, DirOf
  <2>8. RunOf(h)'
    BY <1>h, <1>2, <1>u, <2>3, <2>4, <2>6 DEF RunOf, DirOf, Dirs, Recorded, NoPair
  <2>9. ~InClient(certReq'[h])
    BY <2>3, <2>6 DEF InClient
  <2> QED BY <2>5, <2>7, <2>8, <2>9, <1>u, CertQuiet
<1> QED BY <1>d, <1>1, <1>2

\* A request that ends with an error, and the end of all of them.
LEMMA DropStep ==
  ASSUME CertInv,
         CertCrash \/ \E h \in CertHandlers : ProviderPanic(h) \/ ClientFails(h)
  PROVE  CertInv'
PROOF
<1>t. certReq \in [CertHandlers -> CertRec]
  BY CertReqType DEF CertInv
<1>1. UNCHANGED <<certRow, profile, origin, gone, clientDir, shared, pairs>>
  BY DEF CertCrash, ProviderPanic, ClientFails
<1>2. /\ certReq' \in [CertHandlers -> CertRec]
      /\ \A g \in CertHandlers : certReq'[g] = certReq[g] \/ certReq'[g].pc = "idle"
  <2>1. CASE CertCrash
    BY <2>1, IdleCertType DEF CertCrash
  <2>2. ASSUME NEW h \in CertHandlers, ProviderPanic(h)
        PROVE  <1>2
    BY <2>2, <1>t, IdleCertType DEF ProviderPanic
  <2>3. ASSUME NEW h \in CertHandlers, ClientFails(h)
        PROVE  <1>2
    BY <2>3, <1>t, IdleCertType DEF ClientFails, AnswerCert
  <2> QED BY <2>1, <2>2, <2>3
<1> QED BY <1>1, <1>2, CertDrops

\* The client writes one of the two files of its directory.
LEMMA WriteStep ==
  ASSUME CertInv, NEW h \in CertHandlers, ClientWrites(h)
  PROVE  CertInv'
PROOF
<1>t. certReq[h] \in CertRec /\ clientDir \in [Dirs -> CertPair]
  BY CertReqType DEF CertInv, CertTypeOK
<1>h. RunHas(h) /\ RunOf(h)
  BY DEF CertInv
<1> DEFINE d == DirOf(certReq[h].body)
           n == certReq[h].pair
<1>d. certReq[h].pc \in {"key", "cert"} /\ d \in Dirs
  BY <1>h DEF ClientWrites, RunOf
<1>n. n \in Nat /\ n # 0
  BY <1>h, <1>d, <1>t DEF RunHas, CertRec
<1>g. clientDir[d] \in CertPair
  BY <1>t, <1>d
<1>u. UNCHANGED <<certRow, profile, origin, gone, shared, pairs>>
  BY DEF ClientWrites
<1>c. \A g \in CertHandlers :
         g # h /\ InClient(certReq[g]) /\ DirOf(certReq[g].body) = d => d \in shared
  BY <1>d DEF CertInv, OneRun, InClient
<1>1. \E p \in CertPair, pc \in {"cert", "readCert"} :
         /\ clientDir' = [clientDir EXCEPT ![d] = p]
         /\ CertGoto(h, pc)
         /\ p.key # 0 /\ (d \notin shared => p.key = n)
         /\ pc = "readCert" => p.cert = n
         /\ clientDir[d].cert # 0 => p.cert # 0
  <2>1. CASE certReq[h].pc = "key"
    <3> DEFINE p == [clientDir[d] EXCEPT !.key = n]
    <3>1. p \in CertPair /\ p.key = n /\ p.cert = clientDir[d].cert
      BY <1>g, <1>n DEF CertPair
    <3>2. clientDir' = [clientDir EXCEPT ![d] = p] /\ CertGoto(h, "cert")
      BY <2>1 DEF ClientWrites
    <3> HIDE DEF p, n, d
    <3> QED BY <3>1, <3>2, <1>n
  <2>2. CASE certReq[h].pc = "cert"
    <3> DEFINE p == [clientDir[d] EXCEPT !.cert = n]
    <3>1. p \in CertPair /\ p.cert = n /\ p.key = clientDir[d].key
      BY <1>g, <1>n DEF CertPair
    <3>2. clientDir' = [clientDir EXCEPT ![d] = p] /\ CertGoto(h, "readCert")
      BY <2>2 DEF ClientWrites
    <3>3. clientDir[d].key # 0 /\ (d \notin shared => clientDir[d].key = n)
      BY <2>2, <1>h DEF RunHas
    <3> HIDE DEF p, n, d
    <3> QED BY <3>1, <3>2, <3>3, <1>n
  <2> QED BY <2>1, <2>2, <1>d
<1>2. PICK p \in CertPair, pc \in {"cert", "readCert"} :
         /\ clientDir' = [clientDir EXCEPT ![d] = p]
         /\ CertGoto(h, pc)
         /\ p.key # 0 /\ (d \notin shared => p.key = n)
         /\ pc = "readCert" => p.cert = n
         /\ clientDir[d].cert # 0 => p.cert # 0
  BY <1>1
<1> DEFINE q == [certReq[h] EXCEPT !.pc = pc]
<1>3. q \in CertRec /\ q.pc = pc
  BY <1>t DEF CertRec, CertPcs
<1>4. q.body = certReq[h].body /\ q.renew = certReq[h].renew /\ q.id = certReq[h].id /\ q.pair = n
  BY <1>t DEF CertRec
<1>5. certReq' = [certReq EXCEPT ![h] = q]
  BY <1>2 DEF CertGoto
<1>6. CertMoved(h, q)
  BY <1>3, <1>5 DEF CertMoved
<1> HIDE DEF q
<1>7. /\ certReq' \in [CertHandlers -> CertRec] /\ certReq'[h] = q
      /\ \A g \in CertHandlers : g # h => certReq'[g] = certReq[g]
  BY <1>6, MovedFacts
<1>8. DirOf(certReq'[h].body) = d
  BY <1>4, <1>7
<1>9. /\ clientDir' \in [Dirs -> CertPair] /\ clientDir'[d] = p
      /\ \A e \in Dirs : e # d => clientDir'[e] = clientDir[e]
  BY <1>2, <1>t, <1>d
<1>10. CertTypeOK'
  BY <1>7, <1>9, <1>u DEF CertInv, CertTypeOK, CertRec, CertPcs, Dirs
<1>11. RunOf(h)'
  BY <1>h, <1>d, <1>3, <1>4, <1>7, <1>u DEF RunOf, DirOf, Dirs, Recorded, NoPair
<1>12. RunHas(h)'
  <2>1. DirOf(certReq[h].body)' = d
    BY <1>8 DEF DirOf
  <2> HIDE DEF d, n
  <2> QED BY <1>2, <1>3, <1>4, <1>7, <1>9, <1>n, <1>u, <2>1 DEF RunHas
<1>13. CertFrame(h)
  <2>1. InClient(certReq[h])
    BY <1>d DEF InClient
  <2>2. ASSUME NEW e \in Dirs
        PROVE  /\ clientDir[e].key # 0 => clientDir'[e].key # 0
               /\ clientDir[e].cert # 0 => clientDir'[e].cert # 0
               /\ clientDir'[e] # clientDir[e] => e = d
    BY <1>2, <1>9
  <2>3. \A i \in CertIds : Recorded(i) => Recorded(i)' /\ origin'[i] = origin[i]
    BY <1>u DEF Recorded, NoPair
  <2> QED BY <2>1, <2>2, <2>3, <1>u DEF CertFrame
<1>14. ProfilesKnown' /\ PairsMatch'
  BY <1>u, RowsSame
<1>15. \A g \in CertHandlers :
            g # h /\ InClient(certReq[g]) /\ InClient(certReq'[h])
               /\ DirOf(certReq[g].body) = DirOf(certReq'[h].body) => DirOf(certReq'[h].body) \in shared'
  <2> HIDE DEF d
  <2> QED BY <1>8, <1>u, <1>c
<1> QED BY <1>7, <1>10, <1>11, <1>12, <1>13, <1>14, <1>15, CertMove

\* A fresh id: no profile and no request knows it.
LEMMA CreateStep ==
  ASSUME CertInv, NEW h \in CertHandlers, CreateCert(h)
  PROVE  CertInv'
PROOF
<1>t. certReq[h] \in CertRec /\ certRow \in [CertIds -> CertPair] /\ origin \in [CertIds -> Body]
  BY CertReqType DEF CertInv, CertTypeOK
<1>h. RunHas(h) /\ RunOf(h)
  BY DEF CertInv
<1>1. PICK i \in CertIds :
        /\ Fresh(i)
        /\ certRow' = [certRow EXCEPT ![i] = certReq[h].got]
        /\ origin' = [origin EXCEPT ![i] = certReq[h].body]
        /\ certReq' = [certReq EXCEPT ![h].pc = "profile", ![h].id = i]
  BY DEF CreateCert
<1>u. UNCHANGED <<profile, gone, clientDir, shared, pairs>> /\ certReq[h].pc = "store"
  BY DEF CreateCert
<1> DEFINE q == [certReq[h] EXCEPT !.pc = "profile", !.id = i]
           d == DirOf(certReq[h].body)
<1>2. i \in Nat /\ q \in CertRec /\ q.pc = "profile" /\ q.id = i
  BY <1>t, CertAssumption DEF CertRec, CertPcs
<1>3. q.body = certReq[h].body
  BY <1>t DEF CertRec
<1>4. certReq' = [certReq EXCEPT ![h] = q]
  BY <1>1, CertReqType DEF CertInv
<1>5. CertMoved(h, q)
  BY <1>2, <1>4 DEF CertMoved
<1> HIDE DEF q
<1>6. /\ certReq' \in [CertHandlers -> CertRec] /\ certReq'[h] = q
      /\ \A g \in CertHandlers : g # h => certReq'[g] = certReq[g]
  BY <1>5, MovedFacts
<1>7. certReq[h].got \in CertPair /\ certReq[h].body \in Body
  BY <1>t DEF CertRec
<1>8. certReq[h].got # NoPair
  BY <1>h, <1>u DEF RunHas, NoPair
<1>9. /\ certRow' \in [CertIds -> CertPair] /\ certRow'[i] = certReq[h].got
      /\ origin' \in [CertIds -> Body] /\ origin'[i] = certReq[h].body
      /\ \A j \in CertIds : j # i => certRow'[j] = certRow[j] /\ origin'[j] = origin[j]
  BY <1>1, <1>7, <1>t
<1>10. ~Recorded(i) /\ i \notin gone
  BY <1>1 DEF Fresh, Recorded
<1>11. \A j \in CertIds : Recorded(j) => Recorded(j)' /\ origin'[j] = origin[j]
  BY <1>9, <1>10, <1>u DEF Recorded, NoPair
<1>12. Recorded(i)'
  BY <1>8, <1>9 DEF Recorded, NoPair
<1>13. CertTypeOK'
  BY <1>6, <1>9, <1>u DEF CertInv, CertTypeOK, CertRec, CertPcs, Dirs
<1>14. CertFrame(h)
  BY <1>11, <1>u DEF CertFrame
<1>15. RunHas(h)'
  BY <1>2, <1>6 DEF RunHas
<1>16. RunOf(h)'
  <2>1. d \in Dirs
    BY <1>h, <1>u DEF RunOf
  <2> QED BY <2>1, <1>2, <1>3, <1>6, <1>9, <1>12 DEF RunOf, DirOf, Dirs
<1>17. ProfilesKnown'
  <2> SUFFICES ASSUME NEW j \in CertIds, profile[j] # NoBodyYet
               PROVE  Recorded(j)' /\ DirOf(profile[j]) \in Dirs /\ DirOf(profile[j]) = DirOf(origin'[j])
    BY <1>u DEF ProfilesKnown, NoBodyYet, DirOf, Dirs
  <2>1. Recorded(j) /\ DirOf(profile[j]) \in Dirs /\ DirOf(profile[j]) = DirOf(origin[j])
    BY DEF CertInv, ProfilesKnown
  <2> QED BY <2>1, <1>11
<1>18. PairsMatch'
  <2> SUFFICES ASSUME NEW j \in CertIds, certRow'[j] # NoPair
               PROVE  /\ j \notin gone
                      /\ DirOf(origin'[j]) \notin shared => certRow'[j].cert = certRow'[j].key
    BY <1>u DEF PairsMatch, NoPair, DirOf
  <2>1. CASE j = i
    BY <2>1, <1>9, <1>10, <1>h, <1>u DEF RunHas
  <2>2. CASE j # i
    BY <2>2, <1>9 DEF CertInv, PairsMatch
  <2> QED BY <2>1, <2>2
<1>19. ~InClient(certReq'[h])
  BY <1>2, <1>6 DEF InClient
<1> QED BY <1>6, <1>13, <1>14, <1>15, <1>16, <1>17, <1>18, <1>19, CertMove

\* A request answers: what is left is what it does to the rows.
LEMMA AnswerMove ==
  ASSUME CertInv, NEW h \in CertHandlers, AnswerCert(h), CertFrame(h), ProfilesKnown', PairsMatch',
         certRow' \in [CertIds -> CertPair], profile' \in [CertIds -> Body],
         UNCHANGED <<origin, clientDir, pairs>>
  PROVE  CertInv'
PROOF
<1>1. CertMoved(h, IdleCert)
  BY IdleCertType DEF AnswerCert, CertMoved
<1>2. /\ certReq' \in [CertHandlers -> CertRec] /\ certReq'[h] = IdleCert
      /\ \A g \in CertHandlers : g # h => certReq'[g] = certReq[g]
  BY <1>1, MovedFacts
<1>3. CertTypeOK'
  BY <1>2 DEF CertInv, CertTypeOK, CertRec, CertPcs, Dirs
<1>4. RunHas(h)' /\ RunOf(h)' /\ ~InClient(certReq'[h])
  BY <1>2, IdleCertType DEF RunHas, RunOf, InClient
<1> QED BY <1>2, <1>3, <1>4, CertMove

LEMMA ProfileStep ==
  ASSUME CertInv, NEW h \in CertHandlers, SaveProfile(h)
  PROVE  CertInv'
PROOF
<1>t. certReq[h] \in CertRec /\ profile \in [CertIds -> Body]
  BY CertReqType DEF CertInv, CertTypeOK
<1>u. UNCHANGED <<certRow, origin, gone, clientDir, shared, pairs>> /\ AnswerCert(h)
        /\ certReq[h].pc = "profile"
  BY DEF SaveProfile
<1> DEFINE i == certReq[h].id
           b == certReq[h].body
<1>1. i \in CertIds /\ Recorded(i) /\ DirOf(b) \in Dirs /\ DirOf(b) = DirOf(origin[i])
  BY <1>u DEF CertInv, RunOf
<1>2. b \in Body
  BY <1>t DEF CertRec
<1>3. profile' = [profile EXCEPT ![i] = b] \/ profile' = profile
  BY DEF SaveProfile
<1> HIDE DEF i, b
<1>4. /\ profile' \in [CertIds -> Body]
      /\ \A j \in CertIds : profile'[j] = profile[j] \/ (j = i /\ profile'[j] = b)
  BY <1>1, <1>2, <1>3, <1>t
<1>5. ProfilesKnown'
  <2> SUFFICES ASSUME NEW j \in CertIds, profile'[j] # NoBodyYet
               PROVE  Recorded(j) /\ DirOf(profile'[j]) \in Dirs /\ DirOf(profile'[j]) = DirOf(origin[j])
    BY <1>u DEF ProfilesKnown, NoBodyYet, DirOf, Dirs, Recorded, NoPair
  <2>1. CASE profile'[j] = profile[j]
    BY <2>1 DEF CertInv, ProfilesKnown
  <2>2. CASE j = i /\ profile'[j] = b
    BY <2>2, <1>1
  <2> QED BY <2>1, <2>2, <1>4
<1>6. PairsMatch'
  BY <1>u DEF CertInv, PairsMatch, NoPair, DirOf
<1>7. CertFrame(h)
  BY <1>u DEF CertFrame, Recorded, NoPair
<1> QED BY <1>4, <1>5, <1>6, <1>7, <1>u, AnswerMove DEF CertInv, CertTypeOK

LEMMA UpdateStep ==
  ASSUME CertInv, NEW h \in CertHandlers, UpdateCertPEM(h)
  PROVE  CertInv'
PROOF
<1>t. certReq[h] \in CertRec /\ certRow \in [CertIds -> CertPair]
  BY CertReqType DEF CertInv, CertTypeOK
<1>h. RunHas(h) /\ RunOf(h)
  BY DEF CertInv
<1>u. UNCHANGED <<profile, origin, gone, clientDir, shared, pairs>> /\ AnswerCert(h)
        /\ certReq[h].pc = "store" /\ certReq[h].renew
  BY DEF UpdateCertPEM
<1> DEFINE i == certReq[h].id
           p == certReq[h].got
           q == IF certRow[i] = NoPair THEN NoPair ELSE p
<1>1. i \in CertIds /\ Recorded(i) /\ DirOf(certReq[h].body) = DirOf(origin[i])
  BY <1>u, <1>h DEF RunOf
<1>2. p \in CertPair
  BY <1>t DEF CertRec
<1>3. p # NoPair
  BY <1>h, <1>u DEF RunHas, NoPair
<1>4. DirOf(origin[i]) \notin shared => p.cert = p.key
  BY <1>1, <1>h, <1>u DEF RunHas
<1>5. certRow' = [certRow EXCEPT ![i] = q]
  BY <1>1, <1>t DEF UpdateCertPEM
<1> HIDE DEF i, p
<1>6. q \in CertPair /\ (q = NoPair <=> certRow[i] = NoPair) /\ (q # NoPair => q = p)
  BY <1>2, <1>3, NoPairType
<1> HIDE DEF q
<1>7. /\ certRow' \in [CertIds -> CertPair] /\ certRow'[i] = q
      /\ \A j \in CertIds : j # i => certRow'[j] = certRow[j]
  BY <1>1, <1>5, <1>6, <1>t
<1>8. \A j \in CertIds : certRow'[j] = NoPair <=> certRow[j] = NoPair
  BY <1>6, <1>7
<1>9. \A j \in CertIds : Recorded(j) => Recorded(j)'
  BY <1>8, <1>u DEF Recorded, NoPair
<1>10. ProfilesKnown'
  BY <1>9, <1>u DEF CertInv, ProfilesKnown, NoBodyYet, DirOf, Dirs
<1>11. PairsMatch'
  <2> SUFFICES ASSUME NEW j \in CertIds, certRow'[j] # NoPair
               PROVE  /\ j \notin gone
                      /\ DirOf(origin[j]) \notin shared => certRow'[j].cert = certRow'[j].key
    BY <1>u DEF PairsMatch, NoPair, DirOf
  <2>1. /\ j \notin gone
        /\ DirOf(origin[j]) \notin shared => certRow[j].cert = certRow[j].key
    BY <1>8 DEF CertInv, PairsMatch
  <2> QED BY <2>1, <1>4, <1>6, <1>7
<1>12. CertFrame(h)
  BY <1>9, <1>u DEF CertFrame
<1> QED BY <1>7, <1>10, <1>11, <1>12, <1>u, AnswerMove DEF CertInv, CertTypeOK

LEMMA RemoveStep ==
  ASSUME CertInv, RemoveCert
  PROVE  CertInv'
PROOF
<1>1. PICK i \in CertIds :
        /\ certRow' = [certRow EXCEPT ![i] = NoPair]
        /\ gone' = gone \cup {i}
  BY DEF RemoveCert
<1>u. UNCHANGED <<profile, origin, clientDir, shared, certReq, pairs>>
  BY DEF RemoveCert
<1>2. /\ certRow' \in [CertIds -> CertPair] /\ certRow'[i] = NoPair
      /\ \A j \in CertIds : j # i => certRow'[j] = certRow[j]
  BY <1>1, NoPairType DEF CertInv, CertTypeOK
<1>3. \A j \in CertIds : Recorded(j) => Recorded(j)'
  BY <1>1, <1>2 DEF Recorded, NoPair
<1>4. CertTypeOK'
  BY <1>2, <1>u DEF CertInv, CertTypeOK, Dirs
<1>5. OneRun'
  BY <1>u DEF CertInv, OneRun, InClient, DirOf
<1>6. ProfilesKnown'
  BY <1>3, <1>u DEF CertInv, ProfilesKnown, NoBodyYet, DirOf, Dirs
<1>7. PairsMatch'
  <2> SUFFICES ASSUME NEW j \in CertIds, certRow'[j] # NoPair
               PROVE  /\ j \notin gone'
                      /\ DirOf(origin[j]) \notin shared => certRow'[j].cert = certRow'[j].key
    BY <1>u DEF PairsMatch, NoPair, DirOf
  <2>1. j # i /\ certRow'[j] = certRow[j]
    BY <1>2
  <2> QED BY <2>1, <1>1 DEF CertInv, PairsMatch
<1>8. ASSUME NEW h \in CertHandlers
      PROVE  RunHas(h)' /\ RunOf(h)'
  <2>1. RunHas(h)'
    BY <1>u DEF CertInv, RunHas, DirOf
  <2>2. RunOf(h)'
    BY <1>3, <1>u DEF CertInv, RunOf, DirOf, Dirs
  <2> QED BY <2>1, <2>2
<1> QED BY <1>4, <1>5, <1>6, <1>7, <1>8 DEF CertInv

LEMMA CertStable ==
  ASSUME CertInv, [CertNext]_certVars
  PROVE  CertInv'
PROOF
<1>1. CASE UNCHANGED certVars
  <2>1. certReq \in [CertHandlers -> CertRec]
    BY CertReqType DEF CertInv
  <2> QED BY <1>1, <2>1, CertDrops DEF certVars
<1>2. CASE CertNext
  BY <1>2, IssueStep, RenewStep, StartStep, DropStep, WriteStep, ReadStep, CreateStep, ProfileStep,
     UpdateStep, RemoveStep DEF CertNext
<1> QED BY <1>1, <1>2

(***************************************************************************)
(* For every set of bodies and handlers: a certificate that importIssued   *)
(* or handleRenewCert stored has the key it was issued for, through failed *)
(* runs and crashes, unless two runs used its directory at once; and no    *)
(* renewal brings a deleted row back.                                      *)
(***************************************************************************)
THEOREM PairsAlwaysMatch == CertSpec => []PairsMatch
PROOF
<1>1. CertInit => CertInv
  <2> SUFFICES ASSUME CertInit PROVE CertInv
    OBVIOUS
  <2>1. certReq \in [CertHandlers -> CertRec] /\ \A h \in CertHandlers : certReq[h].pc = "idle"
    BY IdleCertType DEF CertInit
  <2>2. CertTypeOK
    BY <2>1, NoPairType, NoBodyType DEF CertInit, CertTypeOK, CertRec, CertPcs
  <2>3. OneRun /\ \A h \in CertHandlers : RunHas(h) /\ RunOf(h)
    BY <2>1 DEF OneRun, InClient, RunHas, RunOf
  <2>4. ProfilesKnown /\ PairsMatch
    BY DEF CertInit, ProfilesKnown, PairsMatch
  <2> QED BY <2>2, <2>3, <2>4 DEF CertInv
<1>2. CertInv /\ [CertNext]_certVars => CertInv'
  BY CertStable
<1>3. CertInv => PairsMatch
  BY DEF CertInv
<1> QED BY <1>1, <1>2, <1>3, PTL DEF CertSpec

-----------------------------------------------------------------------------
(* A job and its viewers.                                                  *)

\* The viewer has, or has coming, the lines of T it was promised.
Complete(q, T) ==
    q.fetch # "none" /\ ~q.dropped =>
        \A n \in T : n >= q.first =>
            \/ n \in q.output \cup q.seen
            \/ \E i \in DOMAIN q.chan : q.chan[i].line = n

LEMMA CompleteAll == LateJoinerComplete <=> \A v \in Viewers : Complete(viewer[v], told)
BY DEF LateJoinerComplete, Complete

LEMMA CompleteAllNext ==
  LateJoinerComplete' <=> \A v \in Viewers : Complete(viewer'[v], told')
BY DEF LateJoinerComplete, Complete

\* A full transcript gives up its oldest line, so it still ends with the newest.
LEMMA KeptNumbered ==
  ASSUME NEW s \in Seq(Nat), NEW n \in Nat, Numbered(s, n)
  PROVE  /\ Kept(s, n + 1) \in Seq(Nat)
         /\ Numbered(Kept(s, n + 1), n + 1)
<1>1. CASE Len(s) >= maxJobLines
  <2> DEFINE k == Append(Tail(s), n + 1)
  <2>1. s # <<>> /\ Len(s) \in Nat /\ Len(s) >= 1
    BY <1>1, JobAssumption
  <2>2. Tail(s) \in Seq(Nat) /\ Len(Tail(s)) = Len(s) - 1
    BY <2>1
  <2>3. k \in Seq(Nat) /\ Len(k) = Len(s) /\ k # <<>>
    BY <2>1, <2>2
  <2>4. \A i \in 1..Len(s) : k[i] = (n + 1) - Len(s) + i
    <3> SUFFICES ASSUME NEW i \in 1..Len(s) PROVE k[i] = (n + 1) - Len(s) + i
      OBVIOUS
    <3>1. CASE i = Len(s)
      <4>1. k[Len(Tail(s)) + 1] = n + 1 /\ Len(Tail(s)) + 1 = i
        BY <3>1, <2>1, <2>2
      <4> QED BY <3>1, <4>1, <2>1
    <3>2. CASE i # Len(s)
      <4>0. i \in Nat /\ i >= 1 /\ i < Len(s)
        BY <3>2, <2>1
      <4>1. i \in 1..Len(Tail(s)) /\ i + 1 \in 1..Len(s)
        <5> HIDE DEF k
        <5> QED BY <4>0, <2>1, <2>2
      <4>2. k[i] = Tail(s)[i] /\ Tail(s)[i] = s[i + 1]
        BY <4>1, <2>1, <2>2
      <4>3. s[i + 1] = n - Len(s) + (i + 1)
        BY <4>1 DEF Numbered
      <4> QED BY <4>2, <4>3, <2>1
    <3> QED BY <3>1, <3>2
  <2>5. Kept(s, n + 1) = k
    BY <1>1 DEF Kept
  <2>6. Len(k) <= n + 1
    BY <2>1, <2>3 DEF Numbered
  <2> HIDE DEF k
  <2> QED BY <2>3, <2>4, <2>5, <2>6 DEF Numbered
<1>2. CASE ~(Len(s) >= maxJobLines)
  <2> DEFINE k == Append(s, n + 1)
  <2>1. k \in Seq(Nat) /\ Len(k) = Len(s) + 1 /\ k # <<>> /\ Len(s) \in Nat
    OBVIOUS
  <2>2. \A i \in 1..Len(k) : k[i] = (n + 1) - Len(k) + i
    <3> SUFFICES ASSUME NEW i \in 1..Len(k) PROVE k[i] = (n + 1) - Len(k) + i
      OBVIOUS
    <3>1. CASE i = Len(k)
      BY <3>1, <2>1
    <3>2. CASE i # Len(k)
      <4>1. i \in 1..Len(s) /\ k[i] = s[i]
        BY <3>2, <2>1
      <4>2. s[i] = n - Len(s) + i
        BY <4>1 DEF Numbered
      <4> QED BY <4>1, <4>2, <2>1
    <3> QED BY <3>1, <3>2
  <2>3. Kept(s, n + 1) = k
    BY <1>2 DEF Kept
  <2>4. Len(k) <= n + 1
    BY <2>1 DEF Numbered
  <2> HIDE DEF k
  <2> QED BY <2>1, <2>2, <2>3, <2>4 DEF Numbered
<1> QED BY <1>1, <1>2

\* An event reaches every viewer on, or marks it as one that lost an event.
LEMMA OfferedOne ==
  ASSUME NEW q \in ViewerRecord, NEW e \in JobEvent, NEW T, NEW U,
         q.fetch # "none" => q.on, Complete(q, T), U \subseteq T \cup {e.line},
         NEW r, r = IF ~q.on THEN q
                    ELSE IF Len(q.chan) < ChanCap
                         THEN [q EXCEPT !.chan = Append(@, e)]
                         ELSE [q EXCEPT !.dropped = TRUE]
  PROVE  /\ r \in ViewerRecord
         /\ r.fetch # "none" => r.on
         /\ Complete(r, U)
<1>1. CASE ~q.on
  BY <1>1 DEF Complete
<1>2. CASE q.on /\ Len(q.chan) < ChanCap
  <2>1. r = [q EXCEPT !.chan = Append(q.chan, e)]
    BY <1>2
  <2>2. q.chan \in Seq(JobEvent)
    BY DEF ViewerRecord
  <2>3. Append(q.chan, e) \in Seq(JobEvent)
    BY <2>2
  <2>4. r \in ViewerRecord
    BY <2>1, <2>3 DEF ViewerRecord
  <2>5. /\ r.chan = Append(q.chan, e) /\ r.on = q.on /\ r.fetch = q.fetch
        /\ r.dropped = q.dropped /\ r.first = q.first /\ r.output = q.output
        /\ r.seen = q.seen
    BY <2>1 DEF ViewerRecord
  <2>6. \A i \in DOMAIN q.chan : i \in DOMAIN r.chan /\ r.chan[i] = q.chan[i]
    BY <2>2, <2>5
  <2>7. Len(r.chan) \in DOMAIN r.chan /\ r.chan[Len(r.chan)] = e
    BY <2>2, <2>3, <2>5
  <2>8. ASSUME r.fetch # "none", ~r.dropped, NEW n \in U, n >= r.first
        PROVE  \/ n \in r.output \cup r.seen
               \/ \E i \in DOMAIN r.chan : r.chan[i].line = n
    <3>1. CASE n = e.line
      BY <3>1, <2>7
    <3>2. CASE n \in T
      <4>1. \/ n \in q.output \cup q.seen
            \/ \E i \in DOMAIN q.chan : q.chan[i].line = n
        BY <3>2, <2>5, <2>8 DEF Complete
      <4> QED BY <4>1, <2>5, <2>6
    <3> QED BY <3>1, <3>2
  <2> QED BY <1>2, <2>4, <2>5, <2>8 DEF Complete
<1>3. CASE q.on /\ ~(Len(q.chan) < ChanCap)
  <2>1. r = [q EXCEPT !.dropped = TRUE]
    BY <1>3
  <2>2. r \in ViewerRecord /\ r.dropped /\ r.on = q.on
    BY <2>1 DEF ViewerRecord
  <2> QED BY <1>3, <2>2 DEF Complete
<1> QED BY <1>1, <1>2, <1>3

LEMMA OfferedAll ==
  ASSUME JobShape, FetchedOn, LateJoinerComplete, NEW e \in JobEvent, Publish(e),
         told' \subseteq told \cup {e.line}
  PROVE  /\ viewer' \in [Viewers -> ViewerRecord]
         /\ FetchedOn'
         /\ LateJoinerComplete'
<1> DEFINE Offer(q) == IF ~q.on THEN q
                       ELSE IF Len(q.chan) < ChanCap
                            THEN [q EXCEPT !.chan = Append(@, e)]
                            ELSE [q EXCEPT !.dropped = TRUE]
<1>1. viewer' = [v \in Viewers |-> Offer(viewer[v])]
  BY DEF Publish
<1>2. ASSUME NEW v \in Viewers
      PROVE  /\ viewer'[v] \in ViewerRecord
             /\ viewer'[v].fetch # "none" => viewer'[v].on
             /\ Complete(viewer'[v], told')
  <2>1. viewer'[v] = Offer(viewer[v])
    BY <1>1
  <2>2. viewer[v] \in ViewerRecord /\ (viewer[v].fetch # "none" => viewer[v].on)
    BY DEF JobShape, FetchedOn
  <2>3. Complete(viewer[v], told)
    BY CompleteAll
  <2> QED BY <2>1, <2>2, <2>3, OfferedOne
<1> HIDE DEF Offer
<1>3. viewer' \in [Viewers -> ViewerRecord]
  BY <1>1, <1>2
<1>4. FetchedOn'
  BY <1>2 DEF FetchedOn
<1>5. LateJoinerComplete'
  BY <1>2, CompleteAllNext
<1> QED BY <1>3, <1>4, <1>5

\* The record of one viewer is replaced; the job and the other viewers stay.
LEMMA ViewerMoved ==
  ASSUME JobInv, NEW v \in Viewers, NEW r \in ViewerRecord,
         viewer' = [viewer EXCEPT ![v] = r], UNCHANGED <<jobRec, told>>,
         r.fetch # "none" => r.on, Complete(r, told)
  PROVE  JobInv'
<1>1. viewer \in [Viewers -> ViewerRecord] /\ viewer'[v] = r
  BY DEF JobInv, JobShape
<1>2. \A w \in Viewers : w # v => viewer'[w] = viewer[w]
  BY <1>1
<1>3. JobShape'
  BY <1>1 DEF JobInv, JobShape
<1>4. LinesNumbered' /\ NotStarted'
  BY DEF JobInv, LinesNumbered, Numbered, NotStarted
<1>5. FetchedOn'
  BY <1>1, <1>2 DEF JobInv, FetchedOn
<1>6. \A w \in Viewers : Complete(viewer[w], told)
  BY CompleteAll DEF JobInv
<1>7. \A w \in Viewers : Complete(viewer'[w], told')
  BY <1>1, <1>2, <1>6
<1> QED BY <1>3, <1>4, <1>5, <1>7, CompleteAllNext DEF JobInv

LEMMA NoViewerType == NoViewer \in ViewerRecord /\ NoViewer.fetch = "none"
<1>1. <<>> \in Seq(JobEvent)
  OBVIOUS
<1> QED BY <1>1 DEF NoViewer, ViewerRecord, JobStatus

LEMMA JobInitial == JobInit => JobInv
<1> SUFFICES ASSUME JobInit PROVE JobInv
  OBVIOUS
<1>1. NoJob \in JobRecord
  <2>1. <<>> \in Seq(Nat)
    OBVIOUS
  <2> QED BY <2>1 DEF NoJob, JobRecord, JobStatus
<1>2. JobShape
  BY <1>1, NoViewerType DEF JobInit, JobShape
<1>3. LinesNumbered /\ NotStarted
  BY DEF JobInit, LinesNumbered, Numbered, NoJob, NotStarted
<1>4. \A v \in Viewers : viewer[v].fetch = "none"
  BY NoViewerType DEF JobInit
<1> QED BY <1>2, <1>3, <1>4 DEF JobInv, FetchedOn, LateJoinerComplete

\* The steps of the job's goroutine that no viewer notices.
LEMMA JobMoved ==
  ASSUME JobInv, jobRec' \in JobRecord, UNCHANGED <<viewer, told>>,
         Numbered(jobRec'.lines, jobRec'.wrote), jobRec'.wrote >= jobRec.wrote,
         jobRec'.status # "none"
  PROVE  JobInv'
<1>1. told' \subseteq 0..jobRec'.wrote
  <2>1. jobRec.wrote \in Nat /\ jobRec'.wrote \in Nat /\ told \subseteq 0..jobRec.wrote
    BY DEF JobInv, JobShape, JobRecord, LinesNumbered
  <2> QED BY <2>1
<1> QED BY <1>1 DEF JobInv, JobShape, LinesNumbered, NotStarted, FetchedOn, LateJoinerComplete

\* The steps of the job's goroutine that hand an event to the broker.
LEMMA JobTold ==
  ASSUME JobInv, NEW e \in JobEvent, Publish(e), jobRec' \in JobRecord,
         jobRec'.lines = jobRec.lines, jobRec'.wrote = jobRec.wrote,
         jobRec'.status # "none",
         told' \subseteq told \cup {e.line}, told' \subseteq 0..jobRec.wrote
  PROVE  JobInv'
<1>1. viewer' \in [Viewers -> ViewerRecord] /\ FetchedOn' /\ LateJoinerComplete'
  BY OfferedAll DEF JobInv
<1> QED BY <1>1 DEF JobInv, JobShape, LinesNumbered, Numbered, NotStarted

LEMMA JobSteps ==
  ASSUME JobInv, StartJob \/ Write \/ Finish
  PROVE  JobInv'
<1>0. /\ jobRec \in JobRecord /\ jobRec.lines \in Seq(Nat) /\ jobRec.wrote \in Nat
      /\ jobRec.status \in JobStatus /\ Numbered(jobRec.lines, jobRec.wrote)
      /\ told \subseteq 0..jobRec.wrote
  BY DEF JobInv, JobShape, JobRecord, LinesNumbered
<1>1. jobRec.status = "none" => jobRec.wrote = 0 /\ jobRec.pc = "none"
  BY DEF JobInv, NotStarted, NoJob
<1>2. CASE StartJob
  <2>1. jobRec' = [NoJob EXCEPT !.status = "running", !.pc = "run"]
    BY <1>2 DEF StartJob
  <2>2. <<>> \in Seq(Nat)
    OBVIOUS
  <2>3. /\ jobRec' \in JobRecord /\ jobRec'.lines = <<>> /\ jobRec'.wrote = 0
        /\ jobRec'.status # "none"
    BY <2>1, <2>2 DEF NoJob, JobRecord, JobStatus
  <2>4. jobRec.wrote = 0
    BY <1>1, <1>2 DEF StartJob
  <2>5. Numbered(jobRec'.lines, jobRec'.wrote) /\ jobRec'.wrote >= jobRec.wrote
    BY <2>3, <2>4 DEF Numbered
  <2>6. UNCHANGED <<viewer, told>>
    BY <1>2 DEF StartJob
  <2> QED BY <2>3, <2>5, <2>6, JobMoved
<1>3. CASE Write
  <2>1. CASE /\ jobRec.pc = "run"
             /\ jobRec' = [jobRec EXCEPT !.lines = Kept(@, jobRec.wrote + 1),
                                         !.wrote = @ + 1, !.pc = "sink"]
             /\ UNCHANGED <<viewer, told>>
    <3>1. /\ Kept(jobRec.lines, jobRec.wrote + 1) \in Seq(Nat)
          /\ Numbered(Kept(jobRec.lines, jobRec.wrote + 1), jobRec.wrote + 1)
      BY <1>0, KeptNumbered
    <3> DEFINE k == Kept(jobRec.lines, jobRec.wrote + 1)
    <3>a. jobRec' = [jobRec EXCEPT !.lines = k, !.wrote = jobRec.wrote + 1, !.pc = "sink"]
      BY <2>1
    <3>b. k \in Seq(Nat)
      BY <3>1
    <3> HIDE DEF k
    <3>2. /\ jobRec' \in JobRecord /\ jobRec'.lines = k
          /\ jobRec'.wrote = jobRec.wrote + 1 /\ jobRec'.status = jobRec.status
      <4> DEFINE w == jobRec.wrote + 1
      <4>1. w \in Nat
        BY <1>0
      <4>2. jobRec' = [jobRec EXCEPT !.lines = k, !.wrote = w, !.pc = "sink"]
        BY <3>a
      <4>3. jobRec \in JobRecord
        BY <1>0
      <4> HIDE DEF w
      <4>4. /\ jobRec' \in JobRecord /\ jobRec'.lines = k /\ jobRec'.wrote = w
            /\ jobRec'.status = jobRec.status
        BY <4>1, <4>2, <4>3, <3>b DEF JobRecord
      <4> QED BY <4>4 DEF w
    <3>3. Numbered(jobRec'.lines, jobRec'.wrote) /\ jobRec'.wrote >= jobRec.wrote
      BY <3>1, <3>2, <1>0 DEF k
    <3>4. jobRec'.status # "none"
      BY <1>1, <2>1, <3>2
    <3> QED BY <2>1, <3>2, <3>3, <3>4, JobMoved
  <2>2. CASE /\ jobRec.pc = "sink"
             /\ jobRec' = [jobRec EXCEPT !.pc = "run"]
             /\ told' = told \cup {jobRec.wrote}
             /\ Publish([line |-> jobRec.wrote, status |-> jobRec.status])
    <3> DEFINE e == [line |-> jobRec.wrote, status |-> jobRec.status]
    <3>1. e \in JobEvent /\ e.line = jobRec.wrote
      BY <1>0 DEF JobEvent
    <3>2. /\ jobRec' \in JobRecord /\ jobRec'.lines = jobRec.lines
          /\ jobRec'.wrote = jobRec.wrote /\ jobRec'.status = jobRec.status
      BY <2>2, <1>0 DEF JobRecord
    <3>3. Publish(e)
      BY <2>2
    <3> HIDE DEF e
    <3>4. told' \subseteq told \cup {e.line} /\ told' \subseteq 0..jobRec.wrote
      BY <2>2, <3>1, <1>0
    <3>5. jobRec'.status # "none"
      BY <1>1, <2>2, <3>2
    <3> QED BY <3>1, <3>2, <3>3, <3>4, <3>5, JobTold
  <2> QED BY <1>3, <2>1, <2>2 DEF Write
<1>4. CASE Finish
  <2>1. ASSUME NEW s \in {"success", "failed"},
               jobRec' = [jobRec EXCEPT !.status = s, !.pc = "end"],
               UNCHANGED <<viewer, told>>
        PROVE  JobInv'
    <3>1. /\ jobRec' \in JobRecord /\ jobRec'.lines = jobRec.lines
          /\ jobRec'.wrote = jobRec.wrote /\ jobRec'.status # "none"
      BY <2>1, <1>0 DEF JobRecord, JobStatus
    <3>2. Numbered(jobRec'.lines, jobRec'.wrote) /\ jobRec'.wrote >= jobRec.wrote
      BY <3>1, <1>0
    <3> QED BY <2>1, <3>1, <3>2, JobMoved
  <2>2. CASE /\ jobRec.pc = "end"
             /\ jobRec' = [jobRec EXCEPT !.pc = "over"]
             /\ Publish([line |-> 0, status |-> jobRec.status])
             /\ UNCHANGED told
    <3> DEFINE e == [line |-> 0, status |-> jobRec.status]
    <3>1. e \in JobEvent
      BY <1>0 DEF JobEvent
    <3>2. /\ jobRec' \in JobRecord /\ jobRec'.lines = jobRec.lines
          /\ jobRec'.wrote = jobRec.wrote /\ jobRec'.status = jobRec.status
      BY <2>2, <1>0 DEF JobRecord
    <3>3. Publish(e)
      BY <2>2
    <3> HIDE DEF e
    <3>4. told' \subseteq told \cup {e.line} /\ told' \subseteq 0..jobRec.wrote
      BY <2>2, <1>0
    <3>5. jobRec'.status # "none"
      BY <1>1, <2>2, <3>2
    <3> QED BY <3>1, <3>2, <3>3, <3>4, <3>5, JobTold
  <2> QED BY <1>4, <2>1, <2>2 DEF Finish
<1> QED BY <1>2, <1>3, <1>4

\* What is fetched are the last lines written; nothing handed on is above them.
LEMMA FetchedAll ==
  ASSUME NEW s \in Seq(Nat), NEW last \in Nat, Numbered(s, last),
         NEW n \in 0..last, n >= (IF s = <<>> THEN 1 ELSE Head(s))
  PROVE  n \in Elements(s)
<1>1. CASE s = <<>>
  BY <1>1 DEF Numbered
<1>2. CASE s # <<>>
  <2>1. Len(s) \in Nat /\ Len(s) >= 1 /\ Head(s) = s[1]
    BY <1>2
  <2>2. Head(s) = last - Len(s) + 1 /\ Len(s) <= last
    BY <2>1 DEF Numbered
  <2> DEFINE i == n - last + Len(s)
  <2>3. n >= Head(s)
    BY <1>2
  <2>4. i \in 1..Len(s)
    BY <2>1, <2>2, <2>3
  <2>5. s[i] = last - Len(s) + i
    BY <2>4 DEF Numbered
  <2>6. s[i] = n
    BY <2>5, <2>1
  <2> QED BY <2>4, <2>6 DEF Elements
<1> QED BY <1>1, <1>2

LEMMA ViewerSteps ==
  ASSUME JobInv, NEW v \in Viewers,
         Subscribe(v) \/ GetJob(v) \/ Handler(v) \/ Unsubscribe(v)
  PROVE  JobInv'
<1> DEFINE q == viewer[v]
<1>0. /\ viewer \in [Viewers -> ViewerRecord] /\ q \in ViewerRecord
      /\ jobRec \in JobRecord /\ jobRec.lines \in Seq(Nat) /\ jobRec.wrote \in Nat
      /\ jobRec.status \in JobStatus /\ Numbered(jobRec.lines, jobRec.wrote)
      /\ told \subseteq 0..jobRec.wrote
  BY DEF JobInv, JobShape, JobRecord, LinesNumbered
<1>1. (q.fetch # "none" => q.on) /\ Complete(q, told)
  BY CompleteAll DEF JobInv, FetchedOn
<1>2. CASE Subscribe(v)
  <2> DEFINE r == [q EXCEPT !.on = TRUE]
  <2>1. r \in ViewerRecord /\ r.fetch = "none"
    BY <1>0, <1>2, NoViewerType DEF Subscribe, ViewerRecord
  <2>2. viewer' = [viewer EXCEPT ![v] = r] /\ UNCHANGED <<jobRec, told>>
    BY <1>2 DEF Subscribe
  <2> HIDE DEF r
  <2>3. Complete(r, told) /\ (r.fetch # "none" => r.on)
    BY <2>1 DEF Complete
  <2> QED BY <2>1, <2>2, <2>3, ViewerMoved
<1>3. CASE Unsubscribe(v)
  <2>1. Complete(NoViewer, told)
    BY NoViewerType DEF Complete
  <2> QED BY <1>3, <2>1, NoViewerType, ViewerMoved DEF Unsubscribe
<1>4. CASE Handler(v)
  <2> DEFINE r == [q EXCEPT !.seen = @ \cup {Head(q.chan).line}, !.chan = Tail(@)]
  <2>1. q.chan \in Seq(JobEvent) /\ q.chan # <<>> /\ q.seen \subseteq Nat
    BY <1>0, <1>4 DEF Handler, ViewerRecord
  <2>2. /\ Head(q.chan) = q.chan[1] /\ Head(q.chan) \in JobEvent
        /\ Tail(q.chan) \in Seq(JobEvent) /\ Len(q.chan) \in Nat
        /\ Len(Tail(q.chan)) = Len(q.chan) - 1 /\ DOMAIN q.chan = 1..Len(q.chan)
        /\ DOMAIN Tail(q.chan) = 1..Len(Tail(q.chan))
    BY <2>1
  <2>3. Head(q.chan).line \in Nat
    BY <2>2 DEF JobEvent
  <2>4. r \in ViewerRecord
    BY <1>0, <2>1, <2>2, <2>3 DEF ViewerRecord
  <2>5. /\ r.fetch = q.fetch /\ r.on = q.on /\ r.dropped = q.dropped
        /\ r.first = q.first /\ r.output = q.output
        /\ r.seen = q.seen \cup {Head(q.chan).line} /\ r.chan = Tail(q.chan)
    BY <1>0 DEF ViewerRecord
  <2>6. viewer' = [viewer EXCEPT ![v] = r] /\ UNCHANGED <<jobRec, told>>
    BY <1>4 DEF Handler
  <2> HIDE DEF r
  <2>7. ASSUME r.fetch # "none", ~r.dropped, NEW n \in told, n >= r.first
        PROVE  \/ n \in r.output \cup r.seen
               \/ \E i \in DOMAIN r.chan : r.chan[i].line = n
    <3>1. \/ n \in q.output \cup q.seen
          \/ \E i \in DOMAIN q.chan : q.chan[i].line = n
      BY <1>1, <2>5, <2>7 DEF Complete
    <3>2. CASE n \in q.output \cup q.seen
      BY <3>2, <2>5
    <3>3. ASSUME NEW i \in DOMAIN q.chan, q.chan[i].line = n
          PROVE  \/ n \in r.output \cup r.seen
                 \/ \E j \in DOMAIN r.chan : r.chan[j].line = n
      <4>1. CASE i = 1
        BY <4>1, <3>3, <2>2, <2>5
      <4>2. CASE i # 1
        <5>1. i - 1 \in 1..Len(Tail(q.chan))
          BY <4>2, <2>2
        <5>2. Tail(q.chan)[i - 1] = q.chan[i]
          BY <5>1, <2>1, <2>2
        <5> QED BY <5>1, <5>2, <3>3, <2>2, <2>5
      <4> QED BY <4>1, <4>2
    <3> QED BY <3>1, <3>2, <3>3
  <2>8. Complete(r, told)
    BY <2>7 DEF Complete
  <2>9. r.fetch # "none" => r.on
    BY <1>1, <2>5
  <2> QED BY <2>4, <2>6, <2>8, <2>9, ViewerMoved
<1>5. CASE GetJob(v)
  <2> DEFINE r1 == [q EXCEPT !.fetch = "output", !.output = Elements(jobRec.lines),
                             !.first = IF jobRec.lines = <<>> THEN 1 ELSE Head(jobRec.lines)]
             r2 == [q EXCEPT !.fetch = "done", !.status = jobRec.status]
  <2>0. q.on /\ UNCHANGED <<jobRec, told>>
    BY <1>5 DEF GetJob
  <2>1. CASE viewer' = [viewer EXCEPT ![v] = r1]
    <3>1. Elements(jobRec.lines) \subseteq Nat
      BY <1>0 DEF Elements
    <3>2. (IF jobRec.lines = <<>> THEN 1 ELSE Head(jobRec.lines)) \in Nat
      BY <1>0
    <3>3. r1 \in ViewerRecord
      BY <1>0, <3>1, <3>2 DEF ViewerRecord
    <3>4. /\ r1.on = q.on /\ r1.output = Elements(jobRec.lines)
          /\ r1.first = IF jobRec.lines = <<>> THEN 1 ELSE Head(jobRec.lines)
      BY <1>0 DEF ViewerRecord
    <3> HIDE DEF r1
    <3>5. \A n \in told : n >= r1.first => n \in r1.output
      BY <1>0, <3>4, FetchedAll
    <3>6. Complete(r1, told) /\ (r1.fetch # "none" => r1.on)
      BY <3>5, <3>4, <2>0 DEF Complete
    <3> QED BY <2>0, <2>1, <3>3, <3>6, ViewerMoved
  <2>2. CASE q.fetch = "output" /\ viewer' = [viewer EXCEPT ![v] = r2]
    <3>1. r2 \in ViewerRecord
      BY <1>0 DEF ViewerRecord
    <3>2. /\ r2.on = q.on /\ r2.dropped = q.dropped /\ r2.first = q.first
          /\ r2.output = q.output /\ r2.seen = q.seen /\ r2.chan = q.chan
      BY <1>0 DEF ViewerRecord
    <3> HIDE DEF r2
    <3>3. Complete(r2, told) /\ (r2.fetch # "none" => r2.on)
      BY <1>1, <2>0, <2>2, <3>2 DEF Complete
    <3> QED BY <2>0, <2>2, <3>1, <3>3, ViewerMoved
  <2>3. \/ viewer' = [viewer EXCEPT ![v] = r1]
        \/ q.fetch = "output" /\ viewer' = [viewer EXCEPT ![v] = r2]
    BY <1>5, <1>0 DEF GetJob
  <2> QED BY <2>1, <2>2, <2>3
<1> QED BY <1>2, <1>3, <1>4, <1>5

\* LateJoinerComplete holds in every reachable state: a viewer that subscribed before
\* it asked for the transcript misses no line between the two answers, whatever the
\* order in which Job.Write, the broker and handleGetJob run (jobs.go, sse.go).
THEOREM LateJoinersComplete == JobSpec => []LateJoinerComplete
<1>1. JobInit => JobInv
  BY JobInitial
<1>2. JobInv /\ [JobNext]_jobVars => JobInv'
  <2> SUFFICES ASSUME JobInv, [JobNext]_jobVars PROVE JobInv'
    OBVIOUS
  <2>1. CASE StartJob \/ Write \/ Finish
    BY <2>1, JobSteps
  <2>2. CASE \E v \in Viewers : Subscribe(v) \/ GetJob(v) \/ Handler(v) \/ Unsubscribe(v)
    BY <2>2, ViewerSteps
  <2>3. CASE UNCHANGED jobVars
    BY <2>3 DEF jobVars, JobInv, JobShape, LinesNumbered, Numbered, NotStarted,
                FetchedOn, LateJoinerComplete
  <2> QED BY <2>1, <2>2, <2>3 DEF JobNext
<1>3. JobInv => LateJoinerComplete
  BY DEF JobInv
<1> QED BY <1>1, <1>2, <1>3, PTL DEF JobSpec
=============================================================================
