------------------------------ MODULE Tunnels ------------------------------
(***************************************************************************)
(* The xray services of the panel: the tunnel bridge (api/tunnels.go,      *)
(* tunnel/tunnel.go) and the trojan bridge and ingress (api/trojan.go,     *)
(* tunnel/suite.go).  Each has a table of relays, a configuration file, a  *)
(* systemd unit and a service.  A request changes the table or applies it: *)
(* the enabled rows are rendered, tested, written and the service is       *)
(* restarted.  Requests of one service may overlap; nothing locks.         *)
(*                                                                         *)
(* systemd and xray are external.  A unit says Restart=always: a service   *)
(* that ends is started again and reads the file anew.                     *)
(***************************************************************************)
EXTENDS Integers, FiniteSets

CONSTANTS
    Bodies,       \* the relays a request may send: [name, mode, port, on];
                  \*   port 0: left to the panel
    MaxPort,      \* the highest port
    MappedPorts,  \* listen ports of the enabled mappings
    Slots,        \* row ids of a table
    TunHandlers,  \* concurrent requests
    MaxRequests,  \* bound: requests
    MaxTroubles   \* bound: failures of xray, systemd and the file system

ASSUME TunAssumption ==
    /\ MaxPort \in Nat
    /\ Bodies \subseteq [name : {b.name : b \in Bodies}, mode : {b.mode : b \in Bodies},
                         port : Nat, on : BOOLEAN]

Suite == {"trojan", "ingress"}
Kinds == Suite \cup {"bridge"}

VARIABLES
    rows,     \* kind -> row id -> relay or NoBody
    conf,     \* kind -> the configuration file
    unit,     \* kind -> whether the unit file is installed
    svc,      \* kind -> the service: what it runs, or "none" or "failed"
    treq,     \* what each request does
    still,    \* history: kinds whose requests have not overlapped
    loose,    \* history: kinds that a failure, noticed or not, or the end of
              \*   the panel has left with something else than was asked for,
              \*   until their service is started or stopped anew
    requests, troubles   \* bounds

tunVars == <<rows, conf, unit, svc, treq, still, loose, requests, troubles>>

NoBody == [name |-> "none", mode |-> "raw", port |-> 0, on |-> FALSE]
File(what, inbounds) == [is |-> what, inbounds |-> inbounds]
NoFile == File("none", {})
Torn == File("torn", {})
Failed == File("failed", {})
NoReq == [pc |-> "idle", kind |-> "none", slot |-> 0, body |-> NoBody,
          cfg |-> NoFile, prev |-> NoFile, listed |-> {}]

Enabled(k) == {rows[k][i] : i \in {j \in Slots : rows[k][j].on}}

\* One inbound for each enabled relay, with its name as tag.  A tls relay of the
\* tunnel bridge listens on its bridge port, a raw one on its listen port.
BuildBridgeConfig == File("config", {[tag |-> b.name, port |-> b.port] : b \in Enabled("bridge")})
BuildTrojanBridgeConfig == File("config", {[tag |-> b.name, port |-> b.port] : b \in Enabled("trojan")})
BuildTrojanIngressConfig == File("config", {[tag |-> b.name, port |-> b.port] : b \in Enabled("ingress")})

Render(k) == CASE k = "bridge" -> BuildBridgeConfig
               [] k = "trojan" -> BuildTrojanBridgeConfig
               [] OTHER -> BuildTrojanIngressConfig

FirstSlot == CHOOSE i \in Slots : \A j \in Slots : i <= j

\* A host without relays, or one where the first relay has been applied to all
\* three services.
TunInit ==
    /\ \/ /\ rows = [k \in Kinds |-> [i \in Slots |-> NoBody]]
          /\ conf = [k \in Kinds |-> NoFile]
          /\ unit = [k \in Kinds |-> FALSE]
       \/ \E b \in {c \in Bodies : c.on /\ c.port # 0} :
             /\ rows = [k \in Kinds |-> [i \in Slots |-> IF i = FirstSlot THEN b ELSE NoBody]]
             /\ conf = [k \in Kinds |-> Render(k)]
             /\ unit = [k \in Kinds |-> TRUE]
    /\ svc = conf
    /\ treq = [h \in TunHandlers |-> NoReq]
    /\ still = Kinds
    /\ loose = {}
    /\ requests = 0
    /\ troubles = 0

Others(h) == {g \in TunHandlers \ {h} : treq[g].pc # "idle"}
KindsOf(r) == IF r.kind = "suite" THEN Suite ELSE {r.kind}

\* A request begins; what it and the others work on is not still any more.
BeginReq(h, r) ==
    /\ treq[h].pc = "idle"
    /\ requests < MaxRequests
    /\ requests' = requests + 1
    /\ treq' = [treq EXCEPT ![h] = r]
    /\ still' = IF Others(h) = {} THEN still
                ELSE still \ (KindsOf(r) \cup UNION {KindsOf(treq[g]) : g \in Others(h)})

Trouble ==
    /\ troubles < MaxTroubles
    /\ troubles' = troubles + 1
TroubleIf(b) == IF b THEN Trouble ELSE UNCHANGED troubles

Goto(h, pc) == treq' = [treq EXCEPT ![h].pc = pc]
Reply(h) == treq' = [treq EXCEPT ![h] = NoReq]

-----------------------------------------------------------------------------
\* The rows.
\*
\* The checks of a request's fields; those of names, hosts and certificates are
\* left out.
ValidRelay(b) == b.mode \in {"raw", "tls"} /\ b.port \in 1..MaxPort
ValidTrojanRelay(b) == b.port \in 1..MaxPort
ValidTrojanIngress(b) == b.port \in 1..MaxPort

Taken(k, i) == {rows[k][j] : j \in Slots \ {i}} \ {NoBody}

\* The loop over the other rows compares names, and ports of relays of one mode.
RelayConflict(b, i) ==
    \E e \in Taken("bridge", i) : e.name = b.name \/ (e.mode = b.mode /\ e.port = b.port)

\* Mutant: only the name is compared.
TrojanNameConflict(k, b, i) == \E e \in Taken(k, i) : e.name = b.name

\* Names and ports; the https_port is compared like the bridge_port.
TrojanConflict(k, b, i) == \E e \in Taken(k, i) : e.name = b.name \/ e.port = b.port

TrojanBridgePortsUsed == {e.port : e \in Taken("trojan", 0)} \cup MappedPorts

\* The first free port, or 0.
NextTrojanBridgePort(used) ==
    LET free == (1..MaxPort) \ used IN IF free = {} THEN 0 ELSE CHOOSE p \in free : \A q \in free : p <= q

\* A save lists the rows and compares them; WriteRow is a statement of its own.
SaveReq(k, i, b) == [NoReq EXCEPT !.pc = "row", !.kind = k, !.slot = i, !.body = b]
SaveSame == UNCHANGED <<rows, conf, unit, svc, loose, troubles>>

CreateRelay(h) ==
    /\ \E i \in Slots, b \in Bodies :
          /\ rows["bridge"][i] = NoBody
          /\ ValidRelay(b)
          /\ ~RelayConflict(b, i)
          /\ BeginReq(h, SaveReq("bridge", i, b))
    /\ SaveSame

UpdateRelay(h) ==
    /\ \E i \in Slots, b \in Bodies :
          /\ rows["bridge"][i] # NoBody
          /\ ValidRelay(b)
          /\ ~RelayConflict(b, i)
          /\ BeginReq(h, SaveReq("bridge", i, b))
    /\ SaveSame

\* A new relay is enabled whatever the body says and may be given its port.
CreateTrojanRelay(h) ==
    /\ \E i \in Slots, sent \in Bodies :
          LET b == [sent EXCEPT !.on = TRUE,
                                !.port = IF @ = 0 THEN NextTrojanBridgePort(TrojanBridgePortsUsed) ELSE @]
          IN /\ rows["trojan"][i] = NoBody
             /\ ValidTrojanRelay(b)
             /\ ~TrojanConflict("trojan", b, i)
             /\ BeginReq(h, SaveReq("trojan", i, b))
    /\ SaveSame

UpdateTrojanRelay(h) ==
    /\ \E i \in Slots, b \in Bodies :
          /\ rows["trojan"][i] # NoBody
          /\ ValidTrojanRelay(b)
          /\ ~TrojanConflict("trojan", b, i)
          /\ BeginReq(h, SaveReq("trojan", i, b))
    /\ SaveSame

CreateTrojanIngress(h) ==
    /\ \E i \in Slots, sent \in Bodies :
          LET b == [sent EXCEPT !.on = TRUE]
          IN /\ rows["ingress"][i] = NoBody
             /\ ValidTrojanIngress(b)
             /\ ~TrojanConflict("ingress", b, i)
             /\ BeginReq(h, SaveReq("ingress", i, b))
    /\ SaveSame

UpdateTrojanIngress(h) ==
    /\ \E i \in Slots, b \in Bodies :
          /\ rows["ingress"][i] # NoBody
          /\ ValidTrojanIngress(b)
          /\ ~TrojanConflict("ingress", b, i)
          /\ BeginReq(h, SaveReq("ingress", i, b))
    /\ SaveSame

WriteRow(h) ==
    LET q == treq[h] IN
    /\ q.pc = "row"
    /\ rows' = [rows EXCEPT ![q.kind][q.slot] = q.body]
    /\ Reply(h)
    /\ UNCHANGED <<conf, unit, svc, still, loose, requests, troubles>>

\* Deleting a row is one statement.
DeleteRow(h, k) ==
    /\ \E i \in Slots :
          /\ rows[k][i] # NoBody
          /\ rows' = [rows EXCEPT ![k][i] = NoBody]
          /\ BeginReq(h, [NoReq EXCEPT !.pc = "end", !.kind = k])
    /\ UNCHANGED <<conf, unit, svc, loose, troubles>>

DeleteRelay(h) == DeleteRow(h, "bridge")
DeleteTrojanRelay(h) == DeleteRow(h, "trojan")
DeleteTrojanIngress(h) == DeleteRow(h, "ingress")

-----------------------------------------------------------------------------
\* Apply.
\*
\* The rows are read and rendered; the bridges install their unit first, the
\* ingress writes its file first.
ApplyBridge(h) ==
    /\ BeginReq(h, [NoReq EXCEPT !.kind = "bridge", !.cfg = Render("bridge"), !.pc = "unit"])
    /\ SaveSame

ApplyTrojanBridge(h) ==
    /\ BeginReq(h, [NoReq EXCEPT !.kind = "trojan", !.cfg = Render("trojan"), !.pc = "unit"])
    /\ SaveSame

ApplyTrojanIngress(h) ==
    /\ BeginReq(h, [NoReq EXCEPT !.kind = "ingress", !.cfg = Render("ingress"), !.pc = "write"])
    /\ SaveSame

\* xray is missing or rejects the configuration.
Rejected(h) ==
    /\ \/ treq[h].pc = "unit" /\ treq[h].kind # "ingress"
       \/ treq[h].pc = "write" /\ treq[h].kind = "ingress"
    /\ Trouble
    /\ Reply(h)
    /\ UNCHANGED <<rows, conf, unit, svc, still, loose, requests>>

\* The unit is written on first use; without it the request ends.
InstallUnit(h) ==
    LET k == treq[h].kind IN
    /\ treq[h].pc = "unit"
    /\ \/ /\ unit' = [unit EXCEPT ![k] = TRUE]
          /\ Goto(h, CASE k = "ingress" -> "restart" [] OTHER -> "prev")
          /\ UNCHANGED troubles
       \/ /\ ~unit[k]
          /\ Trouble
          /\ Reply(h)
          /\ UNCHANGED unit
    /\ UNCHANGED <<rows, conf, svc, still, loose, requests>>

\* The previous file is read and backed up; one that cannot be read counts as none.
\* A failed backup ends the apply of the tunnel bridge; that of the trojan bridge is
\* not noticed.
ReadPrev(h) ==
    LET k == treq[h].kind IN
    /\ treq[h].pc = "prev"
    /\ \/ \E f \in {conf[k], NoFile} :
              /\ treq' = [treq EXCEPT ![h].prev = f, ![h].pc = "write"]
              /\ TroubleIf(f # conf[k])
       \/ /\ k = "bridge" /\ conf[k] # NoFile
          /\ Trouble
          /\ Reply(h)
    /\ UNCHANGED <<rows, conf, unit, svc, still, loose, requests>>

\* os.WriteFile: a write that fails leaves the file as it was or torn.
WriteConf(h) ==
    LET k == treq[h].kind IN
    /\ treq[h].pc = "write"
    /\ \/ /\ conf' = [conf EXCEPT ![k] = treq[h].cfg]
          /\ Goto(h, IF k = "ingress" THEN "unit" ELSE "restart")
          /\ UNCHANGED <<loose, troubles>>
       \/ /\ Trouble
          /\ \E f \in {conf[k], Torn} :
                /\ conf' = [conf EXCEPT ![k] = f]
                /\ loose' = IF f = conf[k] THEN loose ELSE loose \cup {k}
          /\ Reply(h)
    /\ UNCHANGED <<rows, unit, svc, still, requests>>

\* What a service runs after a start: the file, if it is a configuration whose
\* inbounds can all be bound.
Bindable(f) == \A x, y \in f.inbounds : x.port = y.port => x = y
Started(f) == IF f.is = "config" /\ Bindable(f) THEN f ELSE Failed

\* No relay is left: the trojan services are stopped.  The request answers that
\* they are, also when systemctl has failed.
StopEmpty(h) ==
    LET k == treq[h].kind IN
    /\ treq[h].pc = "restart"
    /\ k # "bridge" /\ treq[h].cfg.inbounds = {}
    /\ \/ /\ svc' = [svc EXCEPT ![k] = NoFile]
          /\ loose' = loose \ {k}
          /\ UNCHANGED troubles
       \/ /\ Trouble
          /\ loose' = loose \cup {k}
          /\ UNCHANGED svc
    /\ Goto(h, "stopped")
    /\ UNCHANGED <<rows, conf, unit, still, requests>>

\* systemctl restart and is-active.  When one of them fails the service may have
\* been started all the same, have failed, or run on; a bridge that had a file
\* before is rolled back.
Restart(h) ==
    LET k == treq[h].kind
        new == Started(conf[k])
    IN
    /\ treq[h].pc = "restart"
    /\ k = "bridge" \/ treq[h].cfg.inbounds # {}
    /\ \/ /\ svc' = [svc EXCEPT ![k] = new]
          /\ loose' = loose \ {k}
          /\ Goto(h, "end")
          /\ UNCHANGED troubles
       \/ /\ \E s \in {new, Failed, svc[k]} :
                /\ svc' = [svc EXCEPT ![k] = s]
                /\ loose' = IF s \in {new, Failed} THEN loose \ {k} ELSE loose \cup {k}
                /\ TroubleIf(~(s = Failed /\ new = Failed))
          /\ Goto(h, IF k # "ingress" /\ treq[h].prev # NoFile THEN "rollback" ELSE "end")
    /\ UNCHANGED <<rows, conf, unit, still, requests>>

\* Mutant: the service is started before the previous file is back.
RollbackSwapped(h) ==
    LET k == treq[h].kind IN
    /\ treq[h].pc = "rollback"
    /\ conf' = [conf EXCEPT ![k] = treq[h].prev]
    /\ svc' = [svc EXCEPT ![k] = Started(conf[k])]
    /\ loose' = loose \ {k}
    /\ Goto(h, "undone")
    /\ UNCHANGED <<rows, unit, still, requests, troubles>>

\* The previous file is written back and the service restarted.  Neither error is
\* looked at: the file may stay or be torn, the service fail or run on.
Rollback(h) ==
    LET k == treq[h].kind
        prev == treq[h].prev
    IN
    /\ treq[h].pc = "rollback"
    /\ \E c \in {prev, conf[k], Torn} : \E s \in {Started(c), Failed, svc[k]} :
          LET done == c = prev /\ s = Started(prev) IN
          /\ conf' = [conf EXCEPT ![k] = c]
          /\ svc' = [svc EXCEPT ![k] = s]
          /\ loose' = IF done THEN loose \ {k} ELSE loose \cup {k}
          /\ TroubleIf(~done)
    /\ Goto(h, "undone")
    /\ UNCHANGED <<rows, unit, still, requests>>

EndReq(h) ==
    /\ treq[h].pc \in {"end", "stopped", "undone"}
    /\ Reply(h)
    /\ UNCHANGED <<rows, conf, unit, svc, still, loose, requests, troubles>>

-----------------------------------------------------------------------------
\* handleTrojanPurge: the rows that are listed are deleted, the services stopped
\* and their units removed, then the files.  No error on the way is looked at: a
\* table that cannot be listed is taken for empty.
PurgeList(h) ==
    /\ \E seen \in SUBSET Suite :
          /\ BeginReq(h, [NoReq EXCEPT !.pc = "purge", !.kind = "suite",
                                       !.listed = {r \in seen \X Slots : rows[r[1]][r[2]] # NoBody}])
          /\ loose' = (loose \cup Suite) \ seen
          /\ TroubleIf(seen # Suite)
    /\ UNCHANGED <<rows, conf, unit, svc>>

PurgeRows(h) ==
    /\ treq[h].pc = "purge"
    /\ \E kept \in SUBSET treq[h].listed :
          /\ rows' = [k \in Kinds |-> [i \in Slots |->
                         IF <<k, i>> \in treq[h].listed \ kept THEN NoBody ELSE rows[k][i]]]
          /\ loose' = loose \cup {r[1] : r \in kept}
          /\ TroubleIf(kept # {})
    /\ Goto(h, "units")
    /\ UNCHANGED <<conf, unit, svc, still, requests>>

\* systemctl disable --now, and os.Remove of the unit.
PurgeUnits(h) ==
    /\ treq[h].pc = "units"
    /\ \E up, kept \in SUBSET Suite :
          /\ svc' = [k \in Kinds |-> IF k \in Suite \ up THEN NoFile ELSE svc[k]]
          /\ unit' = [k \in Kinds |-> IF k \in Suite \ kept THEN FALSE ELSE unit[k]]
          /\ loose' = loose \cup up \cup kept
          /\ TroubleIf(up \cup kept # {})
    /\ Goto(h, "files")
    /\ UNCHANGED <<rows, conf, still, requests>>

\* os.RemoveAll("/etc/hedioum-suite") takes the file of the tunnel bridge along.
PurgeFiles(h) ==
    /\ treq[h].pc = "files"
    /\ \E kept \in SUBSET {k \in Kinds : conf[k] # NoFile} :
          /\ conf' = [k \in Kinds |-> IF k \in kept THEN conf[k] ELSE NoFile]
          /\ loose' = loose \cup (kept \cap Suite)
                           \cup (IF conf["bridge"] = conf'["bridge"] THEN {} ELSE {"bridge"})
          /\ TroubleIf(kept # {})
    /\ Goto(h, "purged")
    /\ UNCHANGED <<rows, unit, svc, still, requests>>

EndPurge(h) ==
    /\ treq[h].pc = "purged"
    /\ Reply(h)
    /\ UNCHANGED <<rows, conf, unit, svc, still, loose, requests, troubles>>

-----------------------------------------------------------------------------
\* systemd starts a service that has ended, or failed, once more.
Respawn(k) ==
    /\ svc[k] # NoFile /\ unit[k]
    /\ svc' = [svc EXCEPT ![k] = Started(conf[k])]
    /\ svc' # svc
    /\ UNCHANGED <<rows, conf, unit, treq, still, loose, requests, troubles>>

\* Places of a request where the service need not run the file.
Midway(r) ==
    \/ r.pc \in {"restart", "rollback", "purge", "units"}
    \/ r.pc = "unit" /\ r.kind = "ingress"

\* The panel ends in the middle of its requests.
TunCrash ==
    /\ Trouble
    /\ \E h \in TunHandlers : treq[h].pc # "idle"
    /\ loose' = loose \cup UNION {KindsOf(treq[h]) : h \in {g \in TunHandlers : Midway(treq[g])}}
    /\ treq' = [h \in TunHandlers |-> NoReq]
    /\ UNCHANGED <<rows, conf, unit, svc, still, requests>>

TunNext ==
    \/ TunCrash
    \/ \E k \in Kinds : Respawn(k)
    \/ \E h \in TunHandlers :
          \/ CreateRelay(h) \/ UpdateRelay(h) \/ DeleteRelay(h)
          \/ CreateTrojanRelay(h) \/ UpdateTrojanRelay(h) \/ DeleteTrojanRelay(h)
          \/ CreateTrojanIngress(h) \/ UpdateTrojanIngress(h) \/ DeleteTrojanIngress(h)
          \/ ApplyBridge(h) \/ ApplyTrojanBridge(h) \/ ApplyTrojanIngress(h)
          \/ WriteRow(h) \/ Rejected(h) \/ InstallUnit(h) \/ ReadPrev(h) \/ WriteConf(h)
          \/ StopEmpty(h) \/ Restart(h) \/ Rollback(h) \/ EndReq(h)
          \/ PurgeList(h) \/ PurgeRows(h) \/ PurgeUnits(h) \/ PurgeFiles(h) \/ EndPurge(h)

TunSpec == TunInit /\ [][TunNext]_tunVars

-----------------------------------------------------------------------------
Working(k) == {h \in TunHandlers : treq[h].pc # "idle" /\ k \in KindsOf(treq[h])}

(***************************************************************************)
(* A service that is up runs the file on disk, so that the restart systemd *)
(* may make at any moment changes nothing, and the files of the trojan     *)
(* services have inbounds that can all be bound: through saves, applies    *)
(* that fail at any step and are rolled back, purges and empty tables.  It *)
(* is stated between requests, for services whose requests have not        *)
(* overlapped.  The first part is not for a service that is loose: a       *)
(* failure of systemctl or of a write, the end of the panel in the middle  *)
(* of a request, or a purge that takes the file of the tunnel bridge along *)
(* (PurgeKeepsBridge), has come between it and its file, and no request    *)
(* has started or stopped it since.                                        *)
(***************************************************************************)
ServiceRunsFile ==
    \A k \in still : Working(k) = {} =>
        /\ k \notin loose /\ svc[k].is = "config" => svc[k] = conf[k]
        /\ k # "bridge" => Bindable(conf[k])

(***************************************************************************)
(* Without an error that nobody has looked at, a request that answers      *)
(* "(rolled back)" after a previous file existed has put that file back    *)
(* and started the service with it (Apply of tunnel.go,                    *)
(* handleTrojanBridgeApply); one that answers "stopped" has stopped it;    *)
(* and a purge that answers "ok" has left no row, file, unit or service of *)
(* the suite, whatever systemd and the failures before it did.             *)
(***************************************************************************)
AnswersTrue ==
    \A h \in TunHandlers, k \in still \ loose : k \in KindsOf(treq[h]) =>
        /\ treq[h].pc = "undone" => conf[k] = treq[h].prev /\ svc[k] = Started(treq[h].prev)
        /\ treq[h].pc = "stopped" => svc[k] = NoFile
        /\ treq[h].pc = "purged" =>
               conf[k] = NoFile /\ svc[k] = NoFile /\ ~unit[k] /\ \A i \in Slots : rows[k][i] = NoBody

(***************************************************************************)
(* "(rolled back)", as the answer of trojan.go:315 and tunnels.go:261 has  *)
(* it: the previous file is back and the service has been started with it. *)
(* The write and the restart of the rollback may fail.                     *)
(***************************************************************************)
RolledBack ==
    \A h \in TunHandlers : treq[h].pc = "undone" =>
        conf[treq[h].kind] = treq[h].prev /\ svc[treq[h].kind] = Started(treq[h].prev)

(***************************************************************************)
(* "no relays left, bridge stopped", the answer of trojan.go:301: the      *)
(* service is not up.  systemctl disable --now may have failed.            *)
(***************************************************************************)
BridgeStopped ==
    \A h \in TunHandlers : treq[h].pc = "stopped" => svc[treq[h].kind] = NoFile

(***************************************************************************)
(* handleTrojanPurge "removes every trojan relay + ingress from the DB and *)
(* wipes the suite's units/configs from this box" (trojan.go:856) when it  *)
(* answers ok.  Its errors are dropped.                                    *)
(***************************************************************************)
PurgeComplete ==
    \A h \in TunHandlers, k \in Suite : treq[h].pc = "purged" =>
        conf[k] = NoFile /\ svc[k] = NoFile /\ ~unit[k] /\ \A i \in Slots : rows[k][i] = NoBody

(***************************************************************************)
(* What suite.go:197 says of PurgeTrojanSuite, "every removal is name-     *)
(* checked against our own naming pattern, nothing else is touched": a     *)
(* purge leaves the file of the tunnel bridge.  The directory it removes   *)
(* holds that file too.                                                    *)
(***************************************************************************)
PurgeKeepsBridge == [][\A h \in TunHandlers : PurgeFiles(h) => conf'["bridge"] = conf["bridge"]]_tunVars

-----------------------------------------------------------------------------
(* The inductive invariant of ServiceRunsFile and AnswersTrue.             *)

Names == {b.name : b \in Bodies} \cup {"none"}
Relays == [name : Names, mode : {b.mode : b \in Bodies} \cup {"raw"}, port : Nat, on : BOOLEAN]
Files == [is : {"none", "config", "torn", "failed"}, inbounds : SUBSET [tag : Names, port : Nat]]
PurgePcs == {"purge", "units", "files", "purged"}
ReqRecord ==
    [pc : PurgePcs \cup {"idle", "row", "unit", "prev", "write", "restart", "rollback", "end", "stopped", "undone"},
     kind : Kinds \cup {"suite", "none"}, slot : Slots \cup {0}, body : Relays,
     cfg : Files, prev : Files, listed : SUBSET (Suite \X Slots)]

\* A request works on one service, a purge on the two of the suite.
WellFormed(r) ==
    /\ r.pc = "idle" => r = NoReq
    /\ r.pc \in PurgePcs => r.kind = "suite"
    /\ r.pc \notin PurgePcs \cup {"idle"} => r.kind \in Kinds
    /\ r.pc = "row" => r.slot \in Slots

TunShape ==
    /\ rows \in [Kinds -> [Slots -> Relays]]
    /\ conf \in [Kinds -> Files]
    /\ unit \in [Kinds -> BOOLEAN]
    /\ svc \in [Kinds -> Files]
    /\ treq \in [TunHandlers -> ReqRecord]
    /\ still \subseteq Kinds /\ loose \subseteq Kinds
    /\ \A h \in TunHandlers : WellFormed(treq[h])

\* Who works on a service that is still works alone.
AloneInv ==
    \A h \in TunHandlers, k \in still : k \in KindsOf(treq[h]) => Others(h) = {}

\* No two rows of a trojan table have the same port.
Apart(rk) ==
    \A i, j \in Slots :
        i # j /\ rk[i] # NoBody /\ rk[j] # NoBody => rk[i].port # rk[j].port

Quiet(c, s) == s.is = "config" => s = c

\* What holds of the table rk, the file c, the unit u and the service s of kind k
\* while the request r works on them (NoReq: nobody does) and the kinds L are loose.
OkFor(k, r, rk, c, u, s, L) ==
    /\ k # "bridge" => Apart(rk) /\ Bindable(c) /\ Bindable(r.cfg) /\ Bindable(r.prev)
    /\ r.pc \in {"prev", "restart", "rollback"} \/ (r.pc = "write" /\ r.kind # "ingress") => u
    /\ r.pc = "row" /\ k # "bridge" =>
           \A i \in Slots \ {r.slot} : rk[i] # NoBody => rk[i].port # r.body.port
    /\ k \notin L =>
        /\ ~Midway(r) => Quiet(c, s)
        /\ r.pc \notin {"purge", "units"} => (s.is = "config" => u)
        /\ r.pc = "undone" => c = r.prev /\ s = Started(r.prev)
        /\ r.pc = "stopped" => s = NoFile
        /\ r.pc = "purge" => \A i \in Slots : rk[i] # NoBody => <<k, i>> \in r.listed
        /\ r.pc \in {"units", "files", "purged"} => \A i \in Slots : rk[i] = NoBody
        /\ r.pc \in {"files", "purged"} => s = NoFile /\ ~u
        /\ r.pc = "purged" => c = NoFile

OkInv ==
    \A k \in still :
        /\ \A h \in TunHandlers : k \in KindsOf(treq[h]) =>
               OkFor(k, treq[h], rows[k], conf[k], unit[k], svc[k], loose)
        /\ Working(k) = {} => OkFor(k, NoReq, rows[k], conf[k], unit[k], svc[k], loose)

TunInv == TunShape /\ AloneInv /\ OkInv
=============================================================================
