---------------------------- MODULE HAProxyConfig ----------------------------
(***************************************************************************)
(* The haproxy.cfg the panel writes and the haproxy.cfg it imports          *)
(* (internal/proxy/haproxy.go, parser.go).                                  *)
(*                                                                         *)
(* A file is a sequence of lines, a line a keyword with one argument; the   *)
(* words are not spelled out.  Render, ParseHAProxyConfig and               *)
(* HAProxyCfgToMappings are three steps over the same text, so that what    *)
(* the import makes of a text the panel wrote can be compared with the      *)
(* mappings the panel wrote it from.  Verdict is HAProxy itself: it runs    *)
(* the http-request rules of a frontend in their order up to the first that *)
(* ends them, and only then looks at the use_backend rules.                 *)
(***************************************************************************)
EXTENDS Naturals, Sequences, FiniteSets, SequencesExt

CONSTANTS
    HaMappings,     \* enabled HAProxy mappings ValidateMapping accepts
    HaForeign,      \* sections of somebody else's file that follow them
    HaTaken,        \* sets of mapping names in use when the import runs
    HaRequests,     \* client requests: [src, path, upgrade]
    MaxHaMappings   \* bound: mappings in one file

\* What ValidateMapping lets through: the address of a listener is an IP, so it is
\* neither empty nor "*"; rules have an id; the names of somebody else's sections
\* are not the ones the panel makes.
HaTarget == [host : Seq(STRING) \ {<<>>}, port : Nat, weight : Nat, backup : BOOLEAN]
HaRoute == [rid : Nat \ {0}, path : Seq(STRING), on : BOOLEAN, redirect : BOOLEAN,
            targets : Seq(HaTarget)]
HaMapping ==
    [proto : {"http", "https", "tcp"}, ip : Seq(STRING) \ {<<>>, <<"*">>}, port : Nat,
     redirect : BOOLEAN, routes : Seq(HaRoute), prefix : Seq(STRING),
     dyn : Seq([path : Seq(STRING), upgrade : BOOLEAN]),
     access : Seq([action : {"allow", "deny"}, src : STRING]),
     targets : Seq(HaTarget), balance : STRING]
HaSection ==
    [listen : BOOLEAN, name : Seq(STRING), ports : Seq(Nat), targets : Seq(HaTarget)]

ASSUME HaAssumption ==
    /\ HaMappings \subseteq HaMapping
    /\ HaForeign \subseteq HaSection
    /\ \A f \in HaForeign : Len(f.name) = 1 /\ f.name # <<"none">>
    /\ \A names \in HaTaken : IsFiniteSet(names)
    /\ HaRequests \subseteq [src : STRING, path : Seq(STRING), upgrade : BOOLEAN]
    /\ MaxHaMappings \in Nat

VARIABLES
    written,        \* the mappings the file was written from
    foreign,        \* the section that follows them
    taken,          \* the names in use
    haText,         \* the lines of the file
    haCfg,          \* the sections ParseHAProxyConfig found
    imported        \* the candidates and the sections reported as issues

haVars == <<written, foreign, taken, haText, haCfg, imported>>

Line(kw, arg) == [kw |-> kw, arg |-> arg]
Cond(on, v, neg) == [on |-> on, v |-> v, neg |-> neg]
Always == Cond("always", <<>>, FALSE)
FeName(id) == <<"fe", id>>
BeName(id) == <<"be", id>>
DynName(id) == <<"be", id, 0>>   \* rule ids start at 1

---------------------------------------------------------------------------
(* Writing the file.                                                       *)

\* Addresses are the sequences of what their colons separate: <<"10.0.0.1">>,
\* <<"fe80", "1">>, <<"*">>; an IPv6 bind is bracketed, an IPv6 server is not.
AnyIP == <<"0.0.0.0">>
BindIP(ip) == IF ip \in {AnyIP, <<"::">>} THEN <<"*">> ELSE ip
BindLine(m) == Line("bind", [brackets |-> Len(m.ip) > 1, addr |-> Append(BindIP(m.ip), m.port),
                             opts |-> IF m.proto = "https" THEN {"ssl", "crt"} ELSE {}])

\* Mutant: the whitelist without the refusal that ends it.
AccessRulesOpen(m) ==
    [i \in DOMAIN m.access |-> Line("http-request", [do |-> m.access[i].action,
                                        cond |-> Cond("src", m.access[i].src, FALSE)])]

\* One rule per entry, in order; a final refusal when some entry allows.
RenderHAAccessRules(m) ==
    [i \in DOMAIN m.access |-> Line("http-request", [do |-> m.access[i].action,
                                        cond |-> Cond("src", m.access[i].src, FALSE)])]
    \o IF \E i \in DOMAIN m.access : m.access[i].action = "allow"
       THEN <<Line("http-request", [do |-> "deny", cond |-> Always])>> ELSE <<>>

\* An enabled rule goes after the last one whose path is not shorter.
InsertRule(s, r) ==
    LET k == Max({0} \cup {i \in DOMAIN s : Len(s[i].path) >= Len(r.path)})
    IN  IF r.on THEN SubSeq(s, 1, k) \o <<r>> \o SubSeq(s, k + 1, Len(s)) ELSE s

\* The enabled rules, longer paths first.
ActiveRules(m) == FoldLeft(InsertRule, <<>>, m.routes)

RenderHARouteRules(m, id) ==
    [i \in DOMAIN ActiveRules(m) |->
        LET r == ActiveRules(m)[i]
            c == Cond("path", r.path, FALSE)
        IN  IF r.redirect THEN Line("http-request", [do |-> "redirect", cond |-> c])
            ELSE Line("use_backend", [be |-> Append(BeName(id), r.rid), cond |-> c])]

\* The routes /<prefix>/<port>: the Upgrade header first, then the rule.
RenderHAPathRoutes(m, id) ==
    FlattenSeq([i \in DOMAIN m.dyn |->
        IF m.dyn[i].upgrade
        THEN <<Line("http-request", [do |-> "404",
                                     cond |-> Cond("noupgrade", m.dyn[i].path, FALSE)])>>
        ELSE <<>>])
    \o (IF m.dyn = <<>> THEN <<>>
        ELSE <<Line("use_backend", [be |-> DynName(id), cond |-> Cond("ports", m.dyn, FALSE)])>>)
    \o IF m.dyn # <<>> /\ m.targets = <<>>
       THEN <<Line("http-request", [do |-> "404", cond |-> Cond("ports", m.dyn, TRUE)])>>
       ELSE <<>>

RenderHAPathACL(m, id) ==
    IF m.prefix = <<>> THEN <<>>
    ELSE <<Line("use_backend", [be |-> BeName(id), cond |-> Cond("path", m.prefix, FALSE)]),
           Line("http-request", [do |-> "404", cond |-> Cond("path", m.prefix, TRUE)])>>

\* host:port and options; a weight of 0 or 1 is not written.
BackendLine(t) ==
    Line("server", [addr |-> Append(t.host, t.port),
                    opts |-> (IF t.weight > 1 THEN <<<<"weight", t.weight>>>> ELSE <<>>)
                             \o (IF t.backup THEN <<<<"backup">>>> ELSE <<>>) \o <<<<"check">>>>])

RenderHABackend(be, m, targets) ==
    <<Line("backend", be)>>
    \o (IF m.proto = "tcp" THEN <<Line("mode", "tcp")>> ELSE <<>>)
    \o <<Line("balance", IF m.balance = "" THEN "roundrobin" ELSE m.balance)>>
    \o [i \in DOMAIN targets |-> BackendLine(targets[i])]

\* Mutant: the rule backends under the name of the mapping's own backend.
RuleBackendsShared(m, id) ==
    FlattenSeq([i \in DOMAIN m.routes |->
        IF m.routes[i].on /\ m.routes[i].targets # <<>>
        THEN RenderHABackend(BeName(id), m, m.routes[i].targets) ELSE <<>>])

RenderHARouteRuleBackends(m, id) ==
    FlattenSeq([i \in DOMAIN m.routes |->
        IF m.routes[i].on /\ m.routes[i].targets # <<>>
        THEN RenderHABackend(Append(BeName(id), m.routes[i].rid), m, m.routes[i].targets)
        ELSE <<>>])

RenderHADynBackend(m, id) ==
    IF m.dyn = <<>> \/ m.redirect \/ m.proto = "tcp" THEN <<>>
    ELSE <<Line("backend", DynName(id)), Line("mode", "http"),
           Line("server", [addr |-> Append(IF m.targets = <<>> THEN <<"127.0.0.1">>
                                           ELSE m.targets[1].host, 1), opts |-> <<>>])>>

\* The rules of a frontend, in the order they are written.
FrontendRules(m, id) ==
    RenderHAAccessRules(m)
    \o CASE m.proto = "tcp" -> <<Line("default_backend", BeName(id))>>
         [] m.proto # "tcp" /\ m.redirect ->
                <<Line("http-request", [do |-> "redirect", cond |-> Always])>>
         [] OTHER -> RenderHARouteRules(m, id) \o RenderHAPathRoutes(m, id)
                     \o RenderHAPathACL(m, id) \o <<Line("default_backend", BeName(id))>>

RenderMapping(m, id) ==
    <<Line("frontend", FeName(id))>>
    \o (IF m.proto = "tcp" THEN <<Line("mode", "tcp")>> ELSE <<>>)
    \o <<BindLine(m)>>
    \o FrontendRules(m, id)
    \o (IF m.proto = "tcp" THEN <<>> ELSE RenderHARouteRuleBackends(m, id))
    \o RenderHABackend(BeName(id), m, m.targets)

\* The file: global and defaults, the mappings by id, the dynamic backends.
RenderHAProxy(ms) ==
    <<Line("global", ""), Line("maxconn", 4096), Line("defaults", ""), Line("mode", "http")>>
    \o FlattenSeq([i \in DOMAIN ms |-> RenderMapping(ms[i], i)])
    \o FlattenSeq([i \in DOMAIN ms |-> RenderHADynBackend(ms[i], i)])

\* A listen section, or a frontend and a backend that have one name.
ForeignLines(f) ==
    LET binds == [i \in DOMAIN f.ports |-> Line("bind", [brackets |-> FALSE, addr |-> <<f.ports[i]>>,
                                                         opts |-> {}])]
        servers == [i \in DOMAIN f.targets |-> BackendLine(f.targets[i])]
    IN  IF f.listen THEN <<Line("listen", f.name)>> \o binds \o <<Line("balance", "leastconn")>> \o servers
        ELSE <<Line("frontend", f.name)>> \o binds \o <<Line("default_backend", f.name),
               Line("backend", f.name), Line("balance", "leastconn")>> \o servers

---------------------------------------------------------------------------
(* Reading a file.                                                         *)

NoName == <<"none">>
EmptyCfg == [cur |-> "none", fes |-> <<>>, bes |-> <<>>, lis |-> <<>>]
UpdateLast(s, e) == [s EXCEPT ![Len(s)] = e]

\* The name of a default_backend is taken from the line in lower case.
FirstTokenLower(name) == IF name = <<"Web">> THEN <<"web">> ELSE name

\* A bare port binds everything; a bracketed or plain address ends at its last colon.
ParseBindLine(a) ==
    [ip |-> IF Len(a.addr) = 1 THEN <<"*">> ELSE Front(a.addr), port |-> Last(a.addr),
     ssl |-> "ssl" \in a.opts]

\* One colon separates host and port; with more, all of it is the host.
ParseServerLine(a) ==
    LET weights == {i \in DOMAIN a.opts : a.opts[i][1] = "weight"}
    IN  [host |-> IF Len(a.addr) = 2 THEN Front(a.addr) ELSE a.addr,
         port |-> IF Len(a.addr) = 2 THEN Last(a.addr) ELSE 80,
         weight |-> IF weights = {} THEN 0 ELSE a.opts[Max(weights)][2],
         backup |-> \E i \in DOMAIN a.opts : a.opts[i][1] = "backup"]

InFrontend(fe, l) ==
    CASE l.kw = "bind" -> [fe EXCEPT !.binds = Append(@, ParseBindLine(l.arg))]
      [] l.kw = "mode" -> [fe EXCEPT !.mode = l.arg]
      [] l.kw = "default_backend" -> [fe EXCEPT !.default = FirstTokenLower(l.arg)]
      [] l.kw = "use_backend" -> [fe EXCEPT !.rules = Append(@, l.arg.be)]
      [] OTHER -> fe

InBackend(be, l) ==
    CASE l.kw = "mode" -> [be EXCEPT !.mode = l.arg]
      [] l.kw = "balance" -> [be EXCEPT !.balance = l.arg]
      [] l.kw = "server" -> [be EXCEPT !.servers = Append(@, ParseServerLine(l.arg))]
      [] OTHER -> be

InListen(li, l) ==
    CASE l.kw = "bind" -> [li EXCEPT !.binds = Append(@, ParseBindLine(l.arg))]
      [] l.kw = "server" -> [li EXCEPT !.servers = Append(@, ParseServerLine(l.arg))]
      [] OTHER -> li

OpenSection(c, l) ==
    CASE l.kw = "frontend" ->
            [c EXCEPT !.cur = "frontend",
                      !.fes = Append(@, [name |-> l.arg, binds |-> <<>>, mode |-> "http",
                                         default |-> NoName, rules |-> <<>>])]
      [] l.kw = "backend" ->
            [c EXCEPT !.cur = "backend",
                      !.bes = Append(@, [name |-> l.arg, mode |-> "http",
                                         balance |-> "roundrobin", servers |-> <<>>])]
      [] l.kw = "listen" ->
            [c EXCEPT !.cur = "listen",
                      !.lis = Append(@, [name |-> l.arg, binds |-> <<>>, servers |-> <<>>])]
      [] OTHER -> [c EXCEPT !.cur = l.kw]

ParseHAProxyLine(c, l) ==
    IF l.kw \in {"global", "defaults", "frontend", "backend", "listen"} THEN OpenSection(c, l)
    ELSE CASE c.cur = "frontend" -> [c EXCEPT !.fes = UpdateLast(@, InFrontend(Last(@), l))]
           [] c.cur = "backend" -> [c EXCEPT !.bes = UpdateLast(@, InBackend(Last(@), l))]
           [] c.cur = "listen" -> [c EXCEPT !.lis = UpdateLast(@, InListen(Last(@), l))]
           [] OTHER -> c

\* The sections after the lines of text, from what the lines before gave.
ParseLines(c, text) == FoldLeft(ParseHAProxyLine, c, text)
ParseHAProxyConfig(text) == ParseLines(EmptyCfg, text)

---------------------------------------------------------------------------
(* From sections to mapping candidates.                                    *)

FindBackend(cfg, name) ==
    LET is == {i \in DOMAIN cfg.bes : cfg.bes[i].name = name}
    IN  IF is = {} THEN [name |-> NoName, mode |-> "", balance |-> "", servers |-> <<>>]
        ELSE cfg.bes[CHOOSE i \in is : \A j \in is : i <= j]

NormalizeBindIP(ip) == IF ip = <<"*">> THEN AnyIP ELSE ip

ServerLinesToTargets(servers) ==
    [i \in DOMAIN servers |-> [servers[i] EXCEPT !.weight = IF @ = 1 THEN 0 ELSE @]]

\* imported-<name>, or the first free imported-<name>-<i> from 2 on.
UniqueMappingName(base, names) ==
    <<base, CHOOSE i \in 1..(Cardinality(names) + 1) :
                /\ <<base, i>> \notin names
                /\ \A j \in 1..(i - 1) : <<base, j>> \in names>>

Report(acc, name) == [acc EXCEPT !.issues = Append(@, name)]
Offer(acc, base, m) ==
    LET name == UniqueMappingName(base, acc.names)
    IN  [acc EXCEPT !.out = Append(@, [m EXCEPT !.name = name]), !.names = @ \cup {name}]

ConvertFrontend(cfg, acc, fe) ==
    LET target == IF fe.default = NoName /\ fe.rules # <<>> THEN fe.rules[1] ELSE fe.default
        be == FindBackend(cfg, target)
    IN  IF Len(fe.binds) # 1 \/ target = NoName \/ be.servers = <<>>
        THEN Report(acc, fe.name)
        ELSE Offer(acc, fe.name,
                [name |-> NoName, ip |-> NormalizeBindIP(fe.binds[1].ip), port |-> fe.binds[1].port,
                 proto |-> IF fe.binds[1].ssl THEN "https" ELSE IF fe.mode = "tcp" THEN "tcp" ELSE "http",
                 balance |-> be.balance, targets |-> ServerLinesToTargets(be.servers)])

ConvertListen(acc, li) ==
    IF Len(li.binds) # 1 \/ li.servers = <<>> THEN Report(acc, li.name)
    ELSE Offer(acc, li.name,
            [name |-> NoName, ip |-> NormalizeBindIP(li.binds[1].ip), port |-> li.binds[1].port,
             proto |-> "tcp", balance |-> "", targets |-> ServerLinesToTargets(li.servers)])

HAProxyCfgToMappings(cfg, names) ==
    FoldLeft(ConvertListen,
             FoldLeft(LAMBDA acc, fe : ConvertFrontend(cfg, acc, fe),
                      [out |-> <<>>, issues |-> <<>>, names |-> names], cfg.fes),
             cfg.lis)

---------------------------------------------------------------------------
NotRead == [out |-> <<>>, issues |-> <<>>, names |-> {}]

HaInit ==
    /\ written \in UNION {[1..n -> HaMappings] : n \in 1..MaxHaMappings}
    /\ foreign \in HaForeign
    /\ taken \in HaTaken
    /\ haText = <<>> /\ haCfg = EmptyCfg /\ imported = NotRead

WriteText ==
    /\ haText = <<>>
    /\ haText' = RenderHAProxy(written) \o ForeignLines(foreign)
    /\ UNCHANGED <<written, foreign, taken, haCfg, imported>>

ParseText ==
    /\ haText # <<>> /\ haCfg = EmptyCfg
    /\ haCfg' = ParseHAProxyConfig(haText)
    /\ UNCHANGED <<written, foreign, taken, haText, imported>>

ImportText ==
    /\ haCfg # EmptyCfg /\ imported = NotRead
    /\ imported' = HAProxyCfgToMappings(haCfg, taken)
    /\ UNCHANGED <<written, foreign, taken, haText, haCfg>>

HaNext == WriteText \/ ParseText \/ ImportText
HaSpec == HaInit /\ [][HaNext]_haVars

---------------------------------------------------------------------------
(* What HAProxy does with a request to a frontend (external).              *)

OnPort(path, p) == Len(path) > Len(p) /\ IsPrefix(p, path) /\ path[Len(p) + 1] = "port"

Matches(c, req) ==
    CASE c.on = "always" -> TRUE
      [] c.on = "src" -> req.src = c.v
      [] c.on = "path" -> IsPrefix(c.v, req.path) # c.neg
      [] c.on = "noupgrade" -> OnPort(req.path, c.v) /\ ~req.upgrade
      [] c.on = "ports" -> (\E i \in DOMAIN c.v : OnPort(req.path, c.v[i].path)) # c.neg

Verdict(rules, req) ==
    LET http == {i \in DOMAIN rules : /\ rules[i].kw = "http-request"
                                      /\ Matches(rules[i].arg.cond, req)}
        use == {i \in DOMAIN rules : /\ rules[i].kw = "use_backend"
                                     /\ Matches(rules[i].arg.cond, req)}
        def == {i \in DOMAIN rules : rules[i].kw = "default_backend"}
        first(is) == rules[CHOOSE i \in is : \A j \in is : i <= j].arg
    IN  IF http # {} /\ first(http).do # "allow" THEN <<first(http).do>>
        ELSE IF use # {} THEN first(use).be
        ELSE IF def # {} THEN first(def) ELSE <<"503">>

---------------------------------------------------------------------------
(* Properties.                                                             *)

FirstRule(m, src) == {i \in DOMAIN m.access : /\ m.access[i].src = src
                                              /\ \A j \in 1..(i - 1) : m.access[j].src # src}
Refused(m, src) ==
    IF FirstRule(m, src) # {} THEN \E i \in FirstRule(m, src) : m.access[i].action = "deny"
    ELSE \E i \in DOMAIN m.access : m.access[i].action = "allow"

\* renderHAAccessRules: whatever else a mapping has (redirects, routes, path
\* prefixes, dynamic ports), HAProxy refuses exactly the clients whose first
\* matching access rule denies them, or that match none when there is a whitelist.
AccessEnforced ==
    haText # <<>> => \A i \in DOMAIN written : \A req \in HaRequests :
        (Verdict(FrontendRules(written[i], i), req) = <<"deny">>) <=> Refused(written[i], req.src)

Importable(m) == m.targets # <<>> /\ (m.redirect => m.proto = "tcp")
Adoptable(f) == Len(f.ports) = 1 /\ f.targets # <<>> /\ (f.listen \/ FirstTokenLower(f.name) = f.name)
HasIPv6(ts) == \E i \in DOMAIN ts : Len(ts[i].host) > 1
Expected(m) ==
    [ip |-> IF m.ip = <<"::">> THEN AnyIP ELSE m.ip, port |-> m.port, proto |-> m.proto,
     balance |-> IF m.balance = "" THEN "roundrobin" ELSE m.balance, targets |-> m.targets]
ExpectedForeign(f) ==
    [ip |-> AnyIP, port |-> f.ports[1], proto |-> IF f.listen THEN "tcp" ELSE "http",
     balance |-> IF f.listen THEN "" ELSE "leastconn", targets |-> f.targets]
Agrees(m, e) ==
    /\ m.ip = e.ip /\ m.port = e.port /\ m.proto = e.proto /\ m.balance = e.balance
    /\ ~HasIPv6(e.targets) => m.targets = ServerLinesToTargets(e.targets)

\* ParseHAProxyConfig and HAProxyCfgToMappings: importing a file the panel wrote,
\* with foreign sections after it, offers for every mapping that has targets and is
\* no redirect a candidate with its listener, its protocol and its targets (IPv6
\* targets aside), under a free name; every other section is reported, none is lost.
RoundTrip ==
    imported # NotRead =>
        LET wanted == FlattenSeq([i \in DOMAIN written |->
                          IF Importable(written[i]) THEN <<Expected(written[i])>> ELSE <<>>])
                      \o (IF Adoptable(foreign) THEN <<ExpectedForeign(foreign)>> ELSE <<>>)
            names == {imported.out[i].name : i \in DOMAIN imported.out}
        IN  /\ Len(imported.out) = Len(wanted)
            /\ \A i \in DOMAIN wanted : Agrees(imported.out[i], wanted[i])
            /\ Len(imported.out) + Len(imported.issues) = Len(written) + 1
            /\ Cardinality(names) = Len(imported.out) /\ names \cap taken = {}

\* renderHARouteRules: "longest prefix first so specific rules win over generic
\* ones".  For a client that is not refused the longest enabled rule that matches
\* decides.
SpecificRuleWins ==
    haText # <<>> => \A i \in DOMAIN written : \A req \in HaRequests :
        LET m == written[i]
            on == {k \in DOMAIN m.routes : m.routes[k].on /\ IsPrefix(m.routes[k].path, req.path)}
            best == {k \in on : \A j \in on : Len(m.routes[j].path) <= Len(m.routes[k].path)}
        IN  best # {} /\ m.proto # "tcp" /\ ~m.redirect /\ m.dyn = <<>> /\ m.prefix = <<>>
            /\ m.access = <<>>
            => \E k \in best : Verdict(FrontendRules(m, i), req)
                  = IF m.routes[k].redirect THEN <<"redirect">>
                    ELSE Append(BeName(i), m.routes[k].rid)
=============================================================================
