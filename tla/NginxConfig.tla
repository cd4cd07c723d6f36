----------------------------- MODULE NginxConfig -----------------------------
(***************************************************************************)
(* The nginx files the panel writes (internal/proxy/nginx.go): http.conf,   *)
(* stream.conf and the page of the decoy site.                              *)
(*                                                                         *)
(* A file is its blocks; weights, backup flags, balance methods and headers *)
(* are left out, a target is a name.  A path is the sequence of its pieces: "/api/v" is *)
(* <<"/", "api", "/", "v">>, so that a location matches the paths it is a   *)
(* prefix of.  What nginx makes of the files is at the end: `nginx -t`      *)
(* refuses them (NginxLoads), or a request is answered (NginxAnswer): the   *)
(* return directives come before allow and deny, which come before content.*)
(***************************************************************************)
EXTENDS Naturals, Sequences, FiniteSets, SequencesExt

CONSTANTS
    NxMappings,     \* enabled nginx mappings ValidateMapping accepts
    NxRequests,     \* client requests: [src, path, upgrade, port]; a piece "port" of
                    \* the path is the number req.port; no path is a location that
                    \* lacks its last slash (nginx redirects those)
    MaxNxMappings   \* bound: mappings in the files

\* What ValidateMapping lets through: paths start with a slash, a piece "*" of a path
\* follows one, the addresses of access rules are no keyword, the prefixes of port
\* routes differ, and there is a target, a port route or a redirect.  (That no rule is
\* for the page's own file /index.html is an assumption of the model.)
Root == <<"/">>
Index == <<"/", "index.html">>
IsPath(p) == p \in Seq(STRING) /\ p # <<>> /\ p[1] = "/"
NxRoute == [rid : Nat, path : Seq(STRING), on : BOOLEAN, redirect : BOOLEAN, targets : Seq(STRING)]
NxMapping ==
    [proto : {"http", "https", "tcp", "udp"}, ip : STRING, port : Nat, redirect : BOOLEAN,
     routes : Seq(NxRoute), prefix : Seq(STRING),
     dyn : Seq([prefix : STRING, upgrade : BOOLEAN, ports : SUBSET Nat]),
     access : Seq([action : {"allow", "deny"}, src : STRING \ {"all"}]), targets : Seq(STRING),
     decoy : {"", "builtin", "custom"}]
ValidNx(m) ==
    /\ m \in NxMapping
    /\ m.redirect \/ m.targets # <<>> \/ m.dyn # <<>>
    /\ m.prefix # <<>> => IsPath(m.prefix) /\ m.prefix # Index
    /\ \A i, j \in DOMAIN m.dyn : m.dyn[i].prefix = m.dyn[j].prefix => i = j
    /\ \A i \in DOMAIN m.routes :
           LET p == m.routes[i].path
           IN  IsPath(p) /\ p # Index /\ (p[Len(p)] = "*" => p[Len(p) - 1] = "/")

ASSUME NxAssumption ==
    /\ \A m \in NxMappings : ValidNx(m)
    /\ NxRequests \subseteq [src : STRING \ {"all"}, path : Seq(STRING), upgrade : BOOLEAN, port : Nat]
    /\ \A req \in NxRequests : IsPath(req.path)
    /\ MaxNxMappings \in Nat

VARIABLES
    nxWritten,      \* the mappings, in the order of their ids
    nxFiles,        \* the staged files, NotRendered before
    nxTest          \* the answer of Validate: "none", "ok", "refused"

nxVars == <<nxWritten, nxFiles, nxTest>>

Http(m) == m.proto \in {"http", "https"}

---------------------------------------------------------------------------
(* Pieces of a server block.                                               *)

\* IPv6 addresses are bracketed, an empty address is the IPv6 wildcard.
NginxListenAddr(ip, port) ==
    [addr |-> IF ip \in {"", "::"} THEN "[::]" ELSE IF ip = "fe80::1" THEN "[fe80::1]" ELSE ip,
     port |-> port]

\* Every address that is no specific one has the IPv6 wildcard beside it.
Listens(m) ==
    <<NginxListenAddr(m.ip, m.port)>>
    \o IF m.ip \in {"", "0.0.0.0", "::"} THEN <<NginxListenAddr("::", m.port)>> ELSE <<>>

\* One directive per rule, and a final "deny all" when some rule allows.
RenderNginxAccessRules(m) ==
    m.access \o IF \E i \in DOMAIN m.access : m.access[i].action = "allow"
                THEN <<[action |-> "deny", src |-> "all"]>> ELSE <<>>

Prefix(p, act) == [regex |-> FALSE, path |-> p, upgrade |-> FALSE, act |-> act]
Pass(ts) == [do |-> "proxy_pass", to |-> ts, up |-> <<>>]
PassUp(u) == [do |-> "proxy_pass", to |-> <<>>, up |-> u]
Return(code) == [do |-> code, to |-> <<>>, up |-> <<>>]
DecoySite == [do |-> "decoy", to |-> <<>>, up |-> <<>>]

PathRouteHost(m) == IF m.targets = <<>> THEN "127.0.0.1" ELSE m.targets[1]

\* ws and httpupgrade want the Upgrade header, xhttp does not; the regular expression
\* takes any number, whatever the range of the route.
RenderNginxPathRoutes(m) ==
    [i \in DOMAIN m.dyn |->
        [regex |-> TRUE, path |-> <<"/", m.dyn[i].prefix, "/", "port">>,
         upgrade |-> m.dyn[i].upgrade, act |-> Pass(<<PathRouteHost(m)>>)]]

\* Mutant: "/ws/*" as the prefix "/ws".
RulePathTrimmed(p) ==
    IF Len(p) > 1 /\ p[Len(p)] = "*" /\ p[Len(p) - 1] = "/" THEN Front(Front(p)) ELSE p

\* "/ws/*" is the prefix "/ws/".
RouteRulePathForNginx(p) ==
    IF Len(p) > 1 /\ p[Len(p)] = "*" /\ p[Len(p) - 1] = "/" THEN Front(p) ELSE p

\* The insertion sort of the rules: a location goes after the last that is not shorter.
LongestFirst(s, l) ==
    LET k == Max({0} \cup {i \in DOMAIN s : Len(s[i].path) >= Len(l.path)})
    IN  SubSeq(s, 1, k) \o <<l>> \o SubSeq(s, k + 1, Len(s))

RuleUp(id, r) == <<"rule", id, r.rid>>
RuleLocation(id, r) ==
    Prefix(RouteRulePathForNginx(r.path),
           CASE r.redirect -> Return("301")
             [] ~r.redirect /\ Len(r.targets) = 1 -> Pass(r.targets)
             [] OTHER -> PassUp(RuleUp(id, r)))

\* The upstreams of rules with several targets, and the locations of all rules.
RenderNginxRouteRules(m, id) ==
    [ups |-> FlattenSeq([i \in DOMAIN m.routes |->
                LET r == m.routes[i]
                IN  IF r.on /\ ~r.redirect /\ Len(r.targets) # 1
                    THEN <<[name |-> RuleUp(id, r), targets |-> r.targets]>> ELSE <<>>]),
     locs |-> FoldLeft(LongestFirst, <<>>, FlattenSeq([i \in DOMAIN m.routes |->
                IF m.routes[i].on THEN <<RuleLocation(id, m.routes[i])>> ELSE <<>>]))]

MainUp(id) == <<"main", id>>
RenderProxyPass(m, id) == IF Len(m.targets) = 1 THEN Pass(m.targets) ELSE PassUp(MainUp(id))

\* A 404 or the decoy site for what the locations above leave.
RenderNginxFallback(m) ==
    CASE m.decoy # "" -> <<Prefix(Root, DecoySite)>>
      [] m.decoy = "" /\ (m.prefix # <<>> \/ m.dyn # <<>>) -> <<Prefix(Root, Return("404"))>>
      [] OTHER -> <<>>

---------------------------------------------------------------------------
(* Server blocks and files.                                                *)

RenderHTTPServer(m, id) ==
    LET rules == RenderNginxRouteRules(m, id)
        own == IF m.prefix # <<>> THEN <<Prefix(m.prefix, RenderProxyPass(m, id))>>
               ELSE IF m.targets # <<>> THEN <<Prefix(Root, RenderProxyPass(m, id))>> ELSE <<>>
        server == [id |-> id, listens |-> Listens(m), ssl |-> m.proto = "https",
                   access |-> RenderNginxAccessRules(m), redirect |-> m.redirect,
                   ups |-> <<>>, locs |-> <<>>]
    IN  IF m.redirect THEN server
        ELSE [server EXCEPT !.ups = rules.ups,
                            !.locs = RenderNginxPathRoutes(m) \o rules.locs \o own
                                     \o RenderNginxFallback(m)]

\* One target needs no upstream, a redirect none at all.
RenderHTTPUpstream(m, id) ==
    IF m.redirect \/ Len(m.targets) <= 1 THEN <<>>
    ELSE <<[name |-> MainUp(id), targets |-> m.targets]>>

\* No access rule is written.
RenderStreamServer(m, id) ==
    [id |-> id, listens |-> <<NginxListenAddr(m.ip, m.port)>>, udp |-> m.proto = "udp",
     access |-> <<>>, up |-> [name |-> <<"stream", id>>, targets |-> m.targets]]

\* One webroot: the first mapping with a decoy site decides on its page.
DecoyFiles(ms) ==
    LET is == {i \in DOMAIN ms : Http(ms[i]) /\ ms[i].decoy # ""}
    IN  IF is = {} THEN "none" ELSE ms[CHOOSE i \in is : \A j \in is : i <= j].decoy

RenderNginx(ms) ==
    [ups |-> FlattenSeq([i \in DOMAIN ms |->
                IF Http(ms[i]) THEN RenderHTTPUpstream(ms[i], i) ELSE <<>>]),
     servers |-> FlattenSeq([i \in DOMAIN ms |->
                    IF Http(ms[i]) THEN <<RenderHTTPServer(ms[i], i)>> ELSE <<>>]),
     streams |-> FlattenSeq([i \in DOMAIN ms |->
                    IF Http(ms[i]) THEN <<>> ELSE <<RenderStreamServer(ms[i], i)>>]),
     decoy |-> DecoyFiles(ms)]

---------------------------------------------------------------------------
(* nginx (external).                                                       *)

\* `nginx -t`: an upstream block belongs to http, a server has one listen per
\* address and one prefix location per path, what is passed to exists, and an
\* upstream has a server.
ServerLoads(files, s) ==
    /\ s.ups = <<>>
    /\ \A i, j \in DOMAIN s.listens : s.listens[i] = s.listens[j] => i = j
    /\ \A i, j \in DOMAIN s.locs :
           ~s.locs[i].regex /\ ~s.locs[j].regex /\ s.locs[i].path = s.locs[j].path => i = j
    /\ \A i \in DOMAIN s.locs : s.locs[i].act.up # <<>> =>
           \E k \in DOMAIN files.ups : files.ups[k].name = s.locs[i].act.up
NginxLoads(files) ==
    /\ \A k \in DOMAIN files.servers : ServerLoads(files, files.servers[k])
    /\ \A k \in DOMAIN files.streams : files.streams[k].up.targets # <<>>

\* The first regular expression that matches, else the longest prefix.
Chosen(s, path) ==
    LET match == {i \in DOMAIN s.locs : IsPrefix(s.locs[i].path, path)}
        regex == {i \in match : s.locs[i].regex}
    IN  IF regex # {} THEN {CHOOSE i \in regex : \A j \in regex : i <= j}
        ELSE {i \in match : \A j \in match : Len(s.locs[j].path) <= Len(s.locs[i].path)}

NxDenied(s, src) ==
    LET hit == {i \in DOMAIN s.access : s.access[i].src \in {src, "all"}}
    IN  \E i \in hit : s.access[i].action = "deny" /\ \A j \in hit : i <= j

UpTargets(files, a) ==
    IF a.up = <<>> THEN a.to
    ELSE files.ups[CHOOSE k \in DOMAIN files.ups : files.ups[k].name = a.up].targets

\* "try_files $uri $uri/ =404" in a root that holds index.html alone.
Content(files, a, path) ==
    IF a.do # "decoy" THEN <<"targets", UpTargets(files, a)>>
    ELSE IF path \in {Root, Index} THEN <<"page", files.decoy>> ELSE <<"404">>

NginxAnswer(files, s, req) ==
    LET is == Chosen(s, req.path)
        loc == s.locs[CHOOSE i \in is : TRUE]
    IN  CASE s.redirect -> <<"301">>
          [] ~s.redirect /\ is = {} -> IF NxDenied(s, req.src) THEN <<"403">> ELSE <<"default">>
          [] OTHER -> IF loc.act.do \in {"301", "404"} THEN <<loc.act.do>>
                      ELSE IF loc.upgrade /\ ~req.upgrade THEN <<"404">>
                      ELSE IF NxDenied(s, req.src) THEN <<"403">>
                      ELSE Content(files, loc.act, req.path)

StreamAnswer(s, src) == IF NxDenied(s, src) THEN <<"closed">> ELSE <<"targets", s.up.targets>>

---------------------------------------------------------------------------
NotRendered == [ups |-> <<>>, servers |-> <<>>, streams |-> <<>>, decoy |-> "unknown"]

NxInit ==
    /\ nxWritten \in UNION {[1..n -> NxMappings] : n \in 1..MaxNxMappings}
    /\ \A i, j \in DOMAIN nxWritten : nxWritten[i].port = nxWritten[j].port => i = j
    /\ nxFiles = NotRendered /\ nxTest = "none"

NxRender ==
    /\ nxFiles = NotRendered
    /\ nxFiles' = RenderNginx(nxWritten)
    /\ UNCHANGED <<nxWritten, nxTest>>

NxValidate ==
    /\ nxFiles # NotRendered /\ nxTest = "none"
    /\ nxTest' = IF NginxLoads(nxFiles) THEN "ok" ELSE "refused"
    /\ UNCHANGED <<nxWritten, nxFiles>>

NxNext == NxRender \/ NxValidate
NxSpec == NxInit /\ [][NxNext]_nxVars

---------------------------------------------------------------------------
(* Properties.                                                             *)

NxRefused(m, src) ==
    LET hit == {i \in DOMAIN m.access : m.access[i].src = src}
    IN  IF hit # {} THEN \E i \in hit : m.access[i].action = "deny" /\ \A j \in hit : i <= j
        ELSE \E i \in DOMAIN m.access : m.access[i].action = "allow"

\* A rule path ends in "/*" or is a plain prefix; both match what starts like it.
RuleMatches(p, path) ==
    IF Last(p) = "*" THEN IsPrefix(Front(p), path) ELSE IsPrefix(p, path)
RuleLength(p) == IF Last(p) = "*" THEN Len(p) - 1 ELSE Len(p)

\* What a mapping says of a path.
Wanted(ms, m, req) ==
    LET dyn == {i \in DOMAIN m.dyn : IsPrefix(<<"/", m.dyn[i].prefix, "/", "port">>, req.path)}
        on == {i \in DOMAIN m.routes : m.routes[i].on /\ RuleMatches(m.routes[i].path, req.path)}
        best == {i \in on : \A j \in on : RuleLength(m.routes[j].path) <= RuleLength(m.routes[i].path)}
        inPrefix == m.prefix # <<>> /\ IsPrefix(m.prefix, req.path)
        rule == m.routes[CHOOSE i \in best : TRUE]
    IN  CASE dyn # {} -> IF \E i \in dyn : m.dyn[i].upgrade /\ ~req.upgrade THEN <<"404">>
                         ELSE <<"targets", <<PathRouteHost(m)>>>>
          [] dyn = {} /\ best # {} /\ ~(inPrefix /\ Len(m.prefix) > RuleLength(rule.path)) ->
                IF rule.redirect THEN <<"301">> ELSE <<"targets", rule.targets>>
          [] OTHER -> IF inPrefix \/ (m.prefix = <<>> /\ m.targets # <<>>) THEN <<"targets", m.targets>>
                      ELSE IF m.decoy # "" /\ req.path \in {Root, Index} THEN <<"page", DecoyFiles(ms)>>
                      ELSE <<"404">>

\* renderHTTPServer: in files nginx loads, a client the access rules of an http mapping
\* refuse gets neither a target nor the decoy page; any other is answered by the port
\* route it names (whatever the route's range), else by the longest enabled rule or path
\* prefix, else by the mapping's targets, the decoy page (at its own paths) or a 404; a
\* tcp or udp mapping passes every client on to its targets (whatever its access rules).
NginxServes ==
    nxTest = "ok" =>
        /\ \A k \in DOMAIN nxFiles.servers : \A req \in NxRequests :
               LET s == nxFiles.servers[k]
                   m == nxWritten[s.id]
                   answer == NginxAnswer(nxFiles, s, req)
               IN  IF NxRefused(m, req.src) THEN answer \in {<<"403">>, <<"404">>, <<"301">>}
                   ELSE answer = IF m.redirect THEN <<"301">> ELSE Wanted(nxWritten, m, req)
        /\ \A k \in DOMAIN nxFiles.streams : \A req \in NxRequests :
               StreamAnswer(nxFiles.streams[k], req.src)
                   = <<"targets", nxWritten[nxFiles.streams[k].id].targets>>

\* docs/USAGE.md on a mapping's access list: allow and deny by address, first match
\* wins, with an allow all others are refused.  It holds for tcp and udp mappings too.
StreamAccessEnforced ==
    nxTest = "ok" =>
        \A k \in DOMAIN nxFiles.streams : \A req \in NxRequests :
            NxRefused(nxWritten[nxFiles.streams[k].id], req.src) =>
                StreamAnswer(nxFiles.streams[k], req.src) = <<"closed">>

Unmatched(m, path) ==
    /\ \A i \in DOMAIN m.dyn : ~IsPrefix(<<"/", m.dyn[i].prefix, "/", "port">>, path)
    /\ \A i \in DOMAIN m.routes : m.routes[i].on => ~RuleMatches(m.routes[i].path, path)
    /\ m.prefix # <<>> => ~IsPrefix(m.prefix, path)

\* README.en.md: the decoy site is served "on unmatched paths instead of a suspicious
\* 404".  A mapping with a decoy answers with its page what no route takes.
DecoyOnUnmatched ==
    nxTest = "ok" =>
        \A k \in DOMAIN nxFiles.servers : \A req \in NxRequests :
            LET s == nxFiles.servers[k]
                m == nxWritten[s.id]
            IN  m.decoy # "" /\ ~m.redirect /\ ~NxRefused(m, req.src) /\ Unmatched(m, req.path) =>
                    NginxAnswer(nxFiles, s, req) = <<"page", nxFiles.decoy>>

\* docs/USAGE.md: each port route may have a range of allowed ports, "which nginx gets
\* as a regex".  A port outside the range of the route is not passed on.
PortRangeKept ==
    nxTest = "ok" =>
        \A k \in DOMAIN nxFiles.servers : \A req \in NxRequests :
            LET s == nxFiles.servers[k]
                m == nxWritten[s.id]
            IN  \A i \in DOMAIN m.dyn :
                    IsPrefix(<<"/", m.dyn[i].prefix, "/", "port">>, req.path)
                    /\ req.port \notin m.dyn[i].ports =>
                        NginxAnswer(nxFiles, s, req) # <<"targets", <<PathRouteHost(m)>>>>

\* pathRouteHost: "the first regular target when present (relay setups)" is the
\* host of the port routes.  A mapping with port routes and a target is one nginx
\* loads.
RelayLoads ==
    nxTest # "none" /\ Len(nxWritten) = 1 /\ nxWritten[1].dyn # <<>> /\ nxWritten[1].targets # <<>>
    /\ nxWritten[1].ip = "0.0.0.0" => nxTest = "ok"

\* renderNginxRouteRules: "prefix locations with their own upstreams".  A mapping
\* with a rule that has two targets is one nginx loads.
RuleUpstreamsLoad ==
    nxTest # "none" /\ Len(nxWritten) = 1 /\ nxWritten[1].decoy = "" /\ nxWritten[1].ip = "0.0.0.0"
    /\ (\E i \in DOMAIN nxWritten[1].routes : Len(nxWritten[1].routes[i].targets) > 1)
        => nxTest = "ok"
=============================================================================
