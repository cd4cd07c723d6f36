------------------------------- MODULE MCPanel -------------------------------
(***************************************************************************)
(* Parts of the panel for TLC: the PasarGuard synchronisation, the push of *)
(* bandwidth plans and the agent that applies them, tunnels and their      *)
(* cores, certificates, jobs, the files of the engines, the imports.  They *)
(* share no variable, so a behaviour runs one of them: the part is chosen  *)
(* initially, the others stay in one initial state.                        *)
(***************************************************************************)
EXTENDS PasarGuardSync, RatePush, RateApplier, Tunnels, TunnelCores, CertIssue, JobEvents,
        HAProxyConfig, NginxConfig, NginxImport

VARIABLE part

Parts == {"sync", "push", "agent", "tunnels", "cores", "certs", "jobs", "haproxy", "nginx", "render"}

PanelInit ==
    /\ part \in Parts
    /\ SyncInit /\ RateInit /\ LimInit /\ TunInit /\ CoreInit /\ CertInit /\ JobInit
    /\ part # "sync" => panel = NoRows /\ ~selfSigned /\ ~creds /\ token = "none"
    /\ part # "push" => limiting /\ \A n \in RNodes : nodeOn[n]
    /\ part # "agent" => route = CHOOSE i \in Ifaces : TRUE
    /\ part # "tunnels" => \A k \in Kinds : ~unit[k]
    /\ part # "cores" => ~pingCore /\ ~hedCore
    /\ IF part = "haproxy" THEN HaInit
       ELSE /\ written = <<>> /\ foreign = NoName /\ taken = {}
            /\ haText = <<>> /\ haCfg = EmptyCfg /\ imported = NotRead
    /\ IF part = "nginx" THEN NginxInit
       ELSE blocks = <<>> /\ ngText = <<>> /\ sites = NotParsed /\ candidates = NoCandidates
    /\ IF part = "render" THEN NxInit
       ELSE nxWritten = <<>> /\ nxFiles = NotRendered /\ nxTest = "none"

ratesVars == <<rateVars, limVars>>

PanelNext ==
    \/ part = "sync" /\ SyncNext
       /\ UNCHANGED <<ratesVars, tunVars, coreVars, certVars, jobVars, haVars, ngVars, nxVars, part>>
    \/ part = "push" /\ RateNext
       /\ UNCHANGED <<syncVars, limVars, tunVars, coreVars, certVars, jobVars, haVars, ngVars, nxVars, part>>
    \/ part = "agent" /\ LimNext
       /\ UNCHANGED <<syncVars, rateVars, tunVars, coreVars, certVars, jobVars, haVars, ngVars, nxVars, part>>
    \/ part = "tunnels" /\ TunNext
       /\ UNCHANGED <<syncVars, ratesVars, coreVars, certVars, jobVars, haVars, ngVars, nxVars, part>>
    \/ part = "cores" /\ CoreNext
       /\ UNCHANGED <<syncVars, ratesVars, tunVars, certVars, jobVars, haVars, ngVars, nxVars, part>>
    \/ part = "certs" /\ CertNext
       /\ UNCHANGED <<syncVars, ratesVars, tunVars, coreVars, jobVars, haVars, ngVars, nxVars, part>>
    \/ part = "jobs" /\ JobNext
       /\ UNCHANGED <<syncVars, ratesVars, tunVars, coreVars, certVars, haVars, ngVars, nxVars, part>>
    \/ part = "haproxy" /\ HaNext
       /\ UNCHANGED <<syncVars, ratesVars, tunVars, coreVars, certVars, jobVars, ngVars, nxVars, part>>
    \/ part = "nginx" /\ NginxNext
       /\ UNCHANGED <<syncVars, ratesVars, tunVars, coreVars, certVars, jobVars, haVars, nxVars, part>>
    \/ part = "render" /\ NxNext
       /\ UNCHANGED <<syncVars, ratesVars, tunVars, coreVars, certVars, jobVars, haVars, ngVars, part>>

panelVars == <<syncVars, ratesVars, tunVars, coreVars, certVars, jobVars, haVars, ngVars, nxVars, part>>
PanelSpec == PanelInit /\ [][PanelNext]_panelVars
\* Certificates alone.
CertPartSpec == PanelInit /\ part = "certs" /\ [][PanelNext]_panelVars

---------------------------------------------------------------------------
(* Values of constants.                                                    *)

\* Bound: a push fails or a host restarts, not both.
OneRateTrouble == lost + reboots <= 1

MCBodies == {[name |-> "a", mode |-> "raw", port |-> 1, on |-> TRUE],
             [name |-> "b", mode |-> "tls", port |-> 1, on |-> TRUE],
             [name |-> "b", mode |-> "raw", port |-> 0, on |-> FALSE]}

Http01 == [tool |-> "acmesh", method |-> "http01", dns |-> "", env |-> FALSE, domain |-> "d",
           wild |-> FALSE, email |-> FALSE]
\* HTTP-01, a wildcard over DNS-01, and a provider certbot does not support.
MCIssueBodies ==
    {Http01, [Http01 EXCEPT !.method = "dns01", !.dns = "cloudflare", !.env = TRUE, !.wild = TRUE],
     [Http01 EXCEPT !.tool = "certbot", !.method = "dns01", !.dns = "hetzner", !.env = TRUE, !.email = TRUE]}

T1 == [host |-> <<"a">>, port |-> 1, weight |-> 1, backup |-> FALSE]
T2 == [host |-> <<"b">>, port |-> 2, weight |-> 3, backup |-> TRUE]
T6 == [host |-> <<"fe80", "1">>, port |-> 2, weight |-> 0, backup |-> FALSE]
Route(i, p, red) == [rid |-> i, path |-> p, on |-> TRUE, redirect |-> red,
                     targets |-> IF red THEN <<>> ELSE <<T2>>]
Proxy == [proto |-> "http", ip |-> AnyIP, port |-> 80, redirect |-> FALSE, routes |-> <<>>,
          prefix |-> <<>>, dyn |-> <<>>, access |-> <<>>, targets |-> <<T1>>, balance |-> ""]
Redirecting == [Proxy EXCEPT !.redirect = TRUE]
Prefixed == [Proxy EXCEPT !.prefix = <<"p">>, !.port = 81]
Routed(red) == [Proxy EXCEPT !.routes = <<Route(1, <<"p">>, red), Route(2, <<"p", "q">>, FALSE)>>]
Dynamic(up) == [Proxy EXCEPT !.dyn = <<[path |-> <<"v">>, upgrade |-> up]>>,
                             !.targets = IF up THEN <<>> ELSE @, !.ip = IF up THEN @ ELSE <<"::">>]
Secure == [Proxy EXCEPT !.proto = "https", !.targets = <<T2, T6>>, !.ip = <<"fe80", "2">>, !.port = 443]
Tcp == [Proxy EXCEPT !.proto = "tcp", !.targets = <<T1, T2>>, !.balance = "leastconn", !.port = 22]
Whitelist == <<[action |-> "deny", src |-> "x"], [action |-> "allow", src |-> "y"]>>
Blacklist == <<[action |-> "deny", src |-> "x"]>>

MCHaMappings ==
    {Proxy, Redirecting, Prefixed, Routed(FALSE), Routed(TRUE), Dynamic(TRUE), Dynamic(FALSE),
     Secure, Tcp}
    \cup {[m EXCEPT !.access = Whitelist] : m \in {Redirecting, Prefixed, Routed(TRUE), Dynamic(TRUE), Tcp}}
    \cup {[Proxy EXCEPT !.access = Blacklist]}
MCHaForeign == {[listen |-> l, name |-> n, ports |-> p, targets |-> <<T2>>] :
                   l \in BOOLEAN, n \in {<<"Web">>, <<"db">>}, p \in {<<90>>, <<90, 91>>}}
MCHaTaken == {{}, {<<<<"db">>, 1>>, <<<<"fe", 1>>, 1>>, <<<<"fe", 1>>, 2>>}}
MCHaRequests == [src : {"x", "y", "z"}, path : {<<>>, <<"p">>, <<"p", "q">>, <<"v", "port">>},
                 upgrade : BOOLEAN]

NxRule(i, p, ts) == [rid |-> i, path |-> p, on |-> TRUE, redirect |-> ts = <<>>, targets |-> ts]
Ws == [prefix |-> "ws", upgrade |-> TRUE, ports |-> {1}]
Xh == [prefix |-> "xh", upgrade |-> FALSE, ports |-> {1, 2}]
Api == <<"/", "api">>
ApiAll == <<"/", "api", "/", "*">>
Site == [proto |-> "http", ip |-> "0.0.0.0", port |-> 80, redirect |-> FALSE, routes |-> <<>>,
         prefix |-> <<>>, dyn |-> <<>>, access |-> <<>>, targets |-> <<"a">>, decoy |-> ""]
Rules == <<NxRule(1, Api, <<>>), NxRule(2, ApiAll, <<"b">>),
           [NxRule(3, <<"/", "off">>, <<"c">>) EXCEPT !.on = FALSE]>>
\* Whole sites, redirects, prefixes, rules, port routes alone and with a target
\* (relay), decoys, an IPv6 wildcard, several targets, streams.
NxShapes ==
    {Site, [Site EXCEPT !.redirect = TRUE, !.targets = <<>>, !.ip = "fe80::1"],
     [Site EXCEPT !.targets = <<"a", "b">>, !.proto = "https"],
     [Site EXCEPT !.prefix = Api, !.targets = <<"a", "b">>],
     [Site EXCEPT !.prefix = Api, !.decoy = "custom", !.routes = <<NxRule(1, ApiAll, <<"b">>)>>],
     [Site EXCEPT !.prefix = Api, !.targets = <<>>, !.dyn = <<Ws>>],
     [Site EXCEPT !.routes = Rules], [Site EXCEPT !.routes = <<NxRule(1, ApiAll, <<"b", "c">>)>>],
     [Site EXCEPT !.routes = <<NxRule(1, ApiAll, <<"b">>), NxRule(2, <<"/", "api", "/">>, <<"c">>)>>],
     [Site EXCEPT !.dyn = <<Ws, Xh>>, !.targets = <<>>, !.decoy = "builtin"],
     [Site EXCEPT !.dyn = <<Ws, Xh>>, !.targets = <<>>, !.routes = Rules],
     [Site EXCEPT !.dyn = <<Ws, Xh>>], [Site EXCEPT !.decoy = "builtin"],
     [Site EXCEPT !.ip = "::"],
     [Site EXCEPT !.proto = "tcp", !.targets = <<"a", "b">>],
     [Site EXCEPT !.proto = "udp", !.ip = "::"]}
MCNxMappings ==
    {[m EXCEPT !.port = p, !.access = acl] :
        m \in NxShapes, p \in {80, 81}, acl \in {<<>>, Whitelist}}
MCNxPaths == {Root, Index, <<"/", "other">>, Api, <<"/", "api", "x">>, <<"/", "api", "/", "v">>, <<"/", "off">>}
MCPortPaths == {<<"/", "ws", "/", "port">>, <<"/", "xh", "/", "port", "/">>}
MCNxRequests ==
    [src : {"x", "y", "z"}, upgrade : BOOLEAN, path : MCNxPaths, port : {0}]
    \cup [src : {"x", "y", "z"}, upgrade : BOOLEAN, path : MCPortPaths, port : {1, 2}]

WithPort == [host |-> "a", port |-> 1]
WithoutPort == [host |-> "a", port |-> 0]
ByName == [host |-> "u", port |-> 0]
NoPass == [host |-> "", port |-> 0]
Loc(p, x, pass, n) == [path |-> p, regex |-> x, pass |-> pass, nested |-> n]
Server == [port |-> 80, ssl |-> FALSE, default |-> FALSE, names |-> {"_"}, redirect |-> FALSE,
           locs |-> <<>>]
MCUpstreams == {[kind |-> "upstream", name |-> "u", hosts |-> <<WithPort, WithoutPort>>]}
MCHttpServers ==
    {[kind |-> "http", server |-> s] : s \in
        {[Server EXCEPT !.default = TRUE],
         [Server EXCEPT !.redirect = TRUE, !.names = {"x"}],
         [Server EXCEPT !.names = {"portguard"}, !.locs = <<Loc("/", FALSE, WithPort, FALSE)>>],
         [Server EXCEPT !.ssl = TRUE, !.port = 443,
                        !.locs = <<Loc("/s", FALSE, NoPass, FALSE), Loc("/p", FALSE, ByName, FALSE)>>],
         [Server EXCEPT !.locs = <<Loc("x", TRUE, WithPort, FALSE)>>],
         [Server EXCEPT !.locs = <<Loc("/", FALSE, WithPort, TRUE)>>]}}
MCStreamBlocks ==
    {[kind |-> "stream", servers |-> ss] : ss \in
        {<<>>, <<[Server EXCEPT !.locs = <<Loc("/", FALSE, ByName, FALSE)>>],
                 [Server EXCEPT !.locs = <<Loc("/", FALSE, WithoutPort, FALSE)>>]>>}}
=============================================================================
