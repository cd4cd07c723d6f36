---------------------------- MODULE TunnelCores ----------------------------
(***************************************************************************)
(* The tunnel programs the panel installs and removes: the pingtunnel core *)
(* with one systemd unit per tunnel (tunnel/pingtunnel.go), and the        *)
(* hedioum core (tunnel/hedcore.go) with the wizards that make the host an *)
(* iran hub or a foreign egress (tunnel/hedioum.go).  Every handler reads  *)
(* the host first and acts afterwards; nothing locks.                      *)
(*                                                                         *)
(* systemd, pingtunnel and hedioum-tunnel are external.  DetectPingTunnel  *)
(* lists the units systemd has loaded, not the unit files, and no unit     *)
(* when systemctl fails.                                                   *)
(***************************************************************************)
EXTENDS Integers, FiniteSets

CONSTANTS
    IranUnits,       \* pingtunnel-iran<port>.service, by port
    Kharej,          \* pingtunnel-kharej.service
    CoreHandlers,    \* concurrent requests
    MaxCoreRequests, \* bound: requests
    MaxCoreTroubles  \* bound: failures of downloads, files and systemd

PingUnits == IranUnits \cup {Kharej}

VARIABLES
    pingCore,      \* whether /usr/local/bin/pingtunnel is there
    coreDir,       \* whether /root/pingtunnel-core is there
    unitFiles,     \* unit files on disk
    services,      \* units systemd has loaded
    overrun,       \* history: a request that could list the units wrote one that
                   \*   was taken or removed the core's directory under one
    hedCore,       \* whether the hedioum binary is there
    hedRole,       \* the role in /etc/hedioum: "", "iran" or "foreign"
    suiteInUse,    \* trojan relays or ingresses are stored, or the bridge is active
    coreReq,       \* what each request does
    alone,         \* history: no two requests have been under way at once
    hubLost,       \* history: a wizard replaced the other role without force
    coreRequests, coreTroubles   \* bounds

coreVars == <<pingCore, coreDir, unitFiles, services, overrun, hedCore, hedRole, suiteInUse, coreReq, alone, hubLost,
              coreRequests, coreTroubles>>
hedVars == <<hedCore, hedRole, suiteInUse, hubLost>>
pingVars == <<pingCore, coreDir, unitFiles, services, overrun>>

NoCoreReq == [pc |-> "idle", unit |-> Kharej, role |-> "", force |-> FALSE, blind |-> FALSE]

CoreInit ==
    /\ pingCore \in BOOLEAN /\ coreDir = pingCore
    /\ unitFiles = {} /\ services = {} /\ overrun = FALSE
    /\ hedCore \in BOOLEAN
    /\ hedRole = ""
    /\ suiteInUse = FALSE
    /\ coreReq = [h \in CoreHandlers |-> NoCoreReq]
    /\ alone = TRUE /\ hubLost = FALSE
    /\ coreRequests = 0 /\ coreTroubles = 0

BeginCore(h, r) ==
    /\ coreReq[h].pc = "idle"
    /\ coreRequests < MaxCoreRequests
    /\ coreRequests' = coreRequests + 1
    /\ coreReq' = [coreReq EXCEPT ![h] = r]
    /\ alone' = (alone /\ \A g \in CoreHandlers : coreReq[g].pc = "idle")

CoreStep(h, pc) ==
    /\ coreReq' = [coreReq EXCEPT ![h] = IF pc = "idle" THEN NoCoreReq ELSE [@ EXCEPT !.pc = pc]]
    /\ UNCHANGED <<alone, coreRequests>>

CoreTrouble ==
    /\ coreTroubles < MaxCoreTroubles
    /\ coreTroubles' = coreTroubles + 1
CoreTroubleIf(b) == IF b THEN CoreTrouble ELSE UNCHANGED coreTroubles

-----------------------------------------------------------------------------
\* pingtunnel.
\*
\* A tunnel needs the core and, on the iran side, a port no listed unit has.
PingTunnelCreate(h) ==
    /\ pingCore
    /\ \E u \in PingUnits, blind \in BOOLEAN :
          /\ u \in IranUnits /\ ~blind => u \notin services
          /\ BeginCore(h, [NoCoreReq EXCEPT !.pc = "unit", !.unit = u, !.blind = blind])
          /\ CoreTroubleIf(blind)
    /\ UNCHANGED <<pingVars, hedVars>>

\* The unit file is written; then daemon-reload and enable --now.  A failure
\* leaves the file, and the unit loaded or not.
InstallPingTunnelUnit(h) ==
    LET u == coreReq[h].unit IN
    /\ \/ /\ coreReq[h].pc = "unit"
          /\ unitFiles' = unitFiles \cup {u}
          /\ overrun' = (overrun \/ (u \in IranUnits \cap services /\ ~coreReq[h].blind))
          /\ CoreStep(h, "enable")
          /\ UNCHANGED <<services, coreTroubles>>
       \/ /\ coreReq[h].pc = "enable"
          /\ services' = IF u \in unitFiles THEN services \cup {u} ELSE services
          /\ CoreStep(h, "idle")
          /\ UNCHANGED <<unitFiles, overrun, coreTroubles>>
       \/ /\ coreReq[h].pc \in {"unit", "enable"}
          /\ CoreTrouble
          /\ CoreStep(h, "idle")
          /\ UNCHANGED <<unitFiles, services, overrun>>
    /\ UNCHANGED <<pingCore, coreDir, hedVars>>

\* disable --now, remove, daemon-reload.  A file that cannot be removed stays with its
\* unit; without the reload, or when disable has failed, the unit stays listed.
DeletePingTunnelUnit(h) ==
    /\ \E u \in PingUnits :
          /\ BeginCore(h, [NoCoreReq EXCEPT !.pc = "reply"])
          /\ \/ /\ unitFiles' = unitFiles \ {u}
                /\ services' = services \ {u}
                /\ UNCHANGED coreTroubles
             \/ /\ u \in unitFiles
                /\ unitFiles' \in {unitFiles, unitFiles \ {u}}
                /\ CoreTrouble
                /\ UNCHANGED services
    /\ UNCHANGED <<pingCore, coreDir, overrun, hedVars>>

\* Downloaded, unzipped, the directory made, the binary copied and made executable;
\* a failure leaves what was done before it.
InstallPingTunnelCore(h) ==
    /\ BeginCore(h, [NoCoreReq EXCEPT !.pc = "reply"])
    /\ \/ pingCore' = TRUE /\ coreDir' = TRUE /\ UNCHANGED coreTroubles
       \/ pingCore' \in {pingCore, TRUE} /\ coreDir' = TRUE /\ CoreTrouble
       \/ UNCHANGED <<pingCore, coreDir>> /\ CoreTrouble
    /\ UNCHANGED <<unitFiles, services, overrun, hedVars>>

\* Mutant: the core is removed whatever units there are.
RemoveCoreUnasked(h) ==
    /\ BeginCore(h, [NoCoreReq EXCEPT !.pc = "rmcore"])
    /\ UNCHANGED <<pingVars, hedVars, coreTroubles>>

\* The core may go when no unit is listed; it is removed afterwards.  When systemctl
\* cannot list them there are none.
RemovePingTunnelCore(h) ==
    /\ \E blind \in BOOLEAN :
          /\ ~blind => services = {}
          /\ BeginCore(h, [NoCoreReq EXCEPT !.pc = "rmcore", !.blind = blind])
          /\ CoreTroubleIf(blind)
    /\ UNCHANGED <<pingVars, hedVars>>

\* What is removed is the directory; the binary it was copied to stays.
RemovePingTunnelDir(h) ==
    /\ coreReq[h].pc = "rmcore"
    /\ \/ /\ coreDir' = FALSE
          /\ overrun' = (overrun \/ (services # {} /\ ~coreReq[h].blind))
          /\ CoreStep(h, "removed")
          /\ UNCHANGED coreTroubles
       \/ /\ CoreTrouble
          /\ CoreStep(h, "idle")
          /\ UNCHANGED <<coreDir, overrun>>
    /\ UNCHANGED <<pingCore, unitFiles, services, hedVars>>

-----------------------------------------------------------------------------
\* hedioum.
\*
\* The pinned release is downloaded, its checksum compared where one is
\* published, and its own installer run; any failure leaves what was there.
InstallHedCore(h) ==
    /\ BeginCore(h, [NoCoreReq EXCEPT !.pc = "reply"])
    /\ \/ hedCore' = TRUE /\ UNCHANGED coreTroubles
       \/ CoreTrouble /\ UNCHANGED hedCore
    /\ UNCHANGED <<hedRole, suiteInUse, hubLost, pingVars>>

\* Refused while trojan relays or ingresses are stored or the bridge is active.
HedCoreUninstall(h) ==
    /\ ~suiteInUse
    /\ BeginCore(h, [NoCoreReq EXCEPT !.pc = "uninstall"])
    /\ UNCHANGED <<pingVars, hedVars, coreTroubles>>

\* uninstall --yes, or the same files by hand: binary, unit and configuration.
RemoveHedCore(h) ==
    /\ coreReq[h].pc = "uninstall"
    /\ hedCore' = FALSE /\ hedRole' = ""
    /\ CoreStep(h, "idle")
    /\ UNCHANGED <<suiteInUse, hubLost, pingVars, coreTroubles>>

\* The wizards need the core and refuse the other role unless forced.
SetupForeign(h) ==
    /\ hedCore
    /\ \E force \in BOOLEAN :
          /\ hedRole = "iran" => force
          /\ BeginCore(h, [NoCoreReq EXCEPT !.pc = "setup", !.role = "foreign", !.force = force])
    /\ UNCHANGED <<pingVars, hedVars, coreTroubles>>

SetupIran(h) ==
    /\ hedCore
    /\ \E force \in BOOLEAN :
          /\ hedRole = "foreign" => force
          /\ BeginCore(h, [NoCoreReq EXCEPT !.pc = "setup", !.role = "iran", !.force = force])
    /\ UNCHANGED <<pingVars, hedVars, coreTroubles>>

\* The wizard's own command writes the configuration, or fails.
RunSetup(h) ==
    /\ coreReq[h].pc = "setup"
    /\ \/ /\ hedCore
          /\ hedRole' = coreReq[h].role
          /\ hubLost' = (hubLost \/ (hedRole \notin {"", coreReq[h].role} /\ ~coreReq[h].force))
          /\ UNCHANGED coreTroubles
       \/ ~hedCore /\ UNCHANGED <<hedRole, hubLost, coreTroubles>>
       \/ CoreTrouble /\ UNCHANGED <<hedRole, hubLost>>
    /\ CoreStep(h, "idle")
    /\ UNCHANGED <<hedCore, suiteInUse, pingVars>>

CoreReply(h) ==
    /\ coreReq[h].pc \in {"reply", "removed"}
    /\ CoreStep(h, "idle")
    /\ UNCHANGED <<pingVars, hedVars, coreTroubles>>

\* The trojan suite (Tunnels) gets its first row or loses its last.
SuiteChange ==
    /\ suiteInUse' = ~suiteInUse
    /\ UNCHANGED <<hedCore, hedRole, hubLost, pingVars, coreReq, alone, coreRequests, coreTroubles>>

CoreNext ==
    \/ SuiteChange
    \/ \E h \in CoreHandlers :
          \/ PingTunnelCreate(h) \/ InstallPingTunnelUnit(h) \/ DeletePingTunnelUnit(h)
          \/ InstallPingTunnelCore(h) \/ RemovePingTunnelCore(h) \/ RemovePingTunnelDir(h)
          \/ InstallHedCore(h) \/ HedCoreUninstall(h) \/ RemoveHedCore(h)
          \/ SetupForeign(h) \/ SetupIran(h) \/ RunSetup(h) \/ CoreReply(h)

CoreSpec == CoreInit /\ [][CoreNext]_coreVars

-----------------------------------------------------------------------------
(***************************************************************************)
(* Through failed creates, deletes and removals of the core: a unit that   *)
(* systemd runs has the binary it starts (PingTunnelCreate); no iran unit  *)
(* is written over a loaded one and the core's directory is not removed    *)
(* under a unit (RemovePingTunnelCore); and no wizard has replaced a hub   *)
(* by an egress, or the reverse, unforced (SetupForeign, SetupIran).  What *)
(* is checked before it is acted on is stated for requests that have not   *)
(* overlapped, and for those that could list the units.                    *)
(***************************************************************************)
CoresGuarded ==
    /\ services # {} => pingCore
    /\ alone => ~overrun /\ ~hubLost

(***************************************************************************)
(* "handlePingTunnelCoreRemove deletes the core when no services remain"   *)
(* (tunnels.go:364), and audits "core removed": the binary, by which       *)
(* DetectPingTunnel knows the core, is gone.  Only the directory is.       *)
(***************************************************************************)
CoreRemoved == \A h \in CoreHandlers : coreReq[h].pc = "removed" => ~pingCore

(***************************************************************************)
(* "RemovePingTunnelCore deletes the core directory if no services remain" *)
(* (pingtunnel.go:220), for requests that have not overlapped.  When       *)
(* systemctl cannot list the units none is found.                          *)
(***************************************************************************)
RemovedWhenUnused ==
    [][\A h \in CoreHandlers : RemovePingTunnelDir(h) /\ alone /\ coreDir # coreDir' => services = {}]_coreVars

CoreTypeOK ==
    /\ pingCore \in BOOLEAN /\ coreDir \in BOOLEAN /\ overrun \in BOOLEAN
    /\ hedCore \in BOOLEAN /\ suiteInUse \in BOOLEAN
    /\ unitFiles \subseteq PingUnits /\ services \subseteq PingUnits
    /\ hedRole \in {"", "iran", "foreign"}
    /\ coreReq \in [CoreHandlers ->
                      [pc : {"idle", "unit", "enable", "reply", "rmcore", "removed", "uninstall", "setup"},
                       unit : PingUnits, role : {"", "iran", "foreign"}, force : BOOLEAN, blind : BOOLEAN]]
    /\ alone \in BOOLEAN /\ hubLost \in BOOLEAN

\* A tunnel that is being created has its core.
CoreReady == \A h \in CoreHandlers : coreReq[h].pc \in {"unit", "enable"} => pingCore

\* While it is alone, what a request has checked still holds when it acts.
ChecksHold ==
    alone =>
        /\ \A g, h \in CoreHandlers : coreReq[g].pc # "idle" /\ coreReq[h].pc # "idle" => g = h
        /\ \A h \in CoreHandlers :
              /\ coreReq[h].pc = "unit" /\ ~coreReq[h].blind => coreReq[h].unit \notin IranUnits \cap services
              /\ coreReq[h].pc = "rmcore" /\ ~coreReq[h].blind => services = {}
              /\ coreReq[h].pc = "setup" /\ ~coreReq[h].force => hedRole \in {"", coreReq[h].role}

\* The inductive invariant of CoresGuarded.
CoreInv == CoreTypeOK /\ CoreReady /\ ChecksHold /\ CoresGuarded
=============================================================================
