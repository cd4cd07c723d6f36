----------------------------- MODULE NginxImport -----------------------------
(***************************************************************************)
(* Importing an existing nginx.conf (internal/proxy/nginxparser.go).        *)
(*                                                                         *)
(* A file is described by its blocks: upstreams, http servers and a stream  *)
(* block with its servers.  NginxText is the file, line by line;            *)
(* ParseNginxConfig runs over the lines with the flags of the code          *)
(* (inUpstream, inStream, curServer, curLoc and the stream depth), and      *)
(* NginxSitesToMappings makes mapping candidates of what it found.          *)
(***************************************************************************)
EXTENDS Naturals, Sequences, FiniteSets, SequencesExt

CONSTANTS
    Upstreams,      \* upstream blocks: [kind, name, hosts]
    HttpServers,    \* http server blocks
    StreamBlocks,   \* stream blocks: [kind, servers]
    MaxBlocks       \* bound: blocks in one file

\* A server listens somewhere; a location without proxy_pass has an empty one; a
\* stream server has its proxy_pass itself, at "/", and no return.
NgHost == [host : STRING, port : Nat]
NgLoc == [path : STRING, regex : BOOLEAN, pass : NgHost, nested : BOOLEAN]
NgServer == [port : Nat \ {0}, ssl : BOOLEAN, default : BOOLEAN, names : SUBSET STRING,
             redirect : BOOLEAN, locs : Seq(NgLoc)]

ASSUME NgAssumption ==
    /\ Upstreams \subseteq [kind : {"upstream"}, name : STRING \ {"none"}, hosts : Seq(NgHost)]
    /\ HttpServers \subseteq [kind : {"http"}, server : NgServer]
    /\ \A b \in HttpServers : \A i \in DOMAIN b.server.locs :
           b.server.locs[i].pass.host = "" => b.server.locs[i].pass.port = 0
    /\ StreamBlocks \subseteq [kind : {"stream"}, servers : Seq(NgServer)]
    /\ \A b \in StreamBlocks : \A k \in DOMAIN b.servers :
           /\ ~b.servers[k].redirect
           /\ \A i \in DOMAIN b.servers[k].locs :
                  b.servers[k].locs[i].path = "/" /\ ~b.servers[k].locs[i].regex
    /\ MaxBlocks \in Nat

VARIABLES blocks, ngText, sites, candidates

ngVars == <<blocks, ngText, sites, candidates>>

---------------------------------------------------------------------------
(* The file.                                                               *)

Ng(kw, arg) == [kw |-> kw, arg |-> arg]
Close == <<Ng("}", 0)>>

\* Some block the parser does not know, opened in a location or a server.
UnknownBlock(yes) == IF yes THEN <<Ng("if {", 0), Ng("return", <<"404">>)>> \o Close ELSE <<>>

LocationLines(l) ==
    <<Ng("location {", [path |-> l.path, regex |-> l.regex])>> \o UnknownBlock(l.nested)
    \o (IF l.pass.host = "" THEN <<>> ELSE <<Ng("proxy_pass", l.pass)>>) \o Close

ServerLines(s, stream) ==
    <<Ng("server {", 0), Ng("listen", [port |-> s.port, ssl |-> s.ssl, default |-> s.default]),
      Ng("server_name", s.names)>>
    \o (IF s.redirect THEN <<Ng("return", <<"301">>)>> ELSE <<>>)
    \o (IF stream THEN [i \in DOMAIN s.locs |-> Ng("proxy_pass", s.locs[i].pass)]
        ELSE FlattenSeq([i \in DOMAIN s.locs |-> LocationLines(s.locs[i])]))
    \o Close

BlockLines(b) ==
    CASE b.kind = "upstream" -> <<Ng("upstream {", b.name)>>
                                \o [i \in DOMAIN b.hosts |-> Ng("server", b.hosts[i])] \o Close
      [] b.kind = "http" -> <<Ng("http {", 0)>> \o ServerLines(b.server, FALSE) \o Close
      [] b.kind = "stream" -> <<Ng("stream {", 0)>>
                              \o FlattenSeq([i \in DOMAIN b.servers |-> ServerLines(b.servers[i], TRUE)])
                              \o Close

NginxText(bs) == FlattenSeq([i \in DOMAIN bs |-> BlockLines(bs[i])])

---------------------------------------------------------------------------
(* ParseNginxConfig.                                                       *)

NoUpstream == "none"
NewServer == [port |-> 0, ssl |-> FALSE, default |-> FALSE, names |-> {}, redirect |-> FALSE,
              locs |-> <<>>]
ParserStart == [up |-> NoUpstream, stream |-> FALSE, depth |-> 0, open |-> FALSE, inLoc |-> FALSE,
                server |-> NewServer, http |-> <<>>, streams |-> <<>>, ups |-> {}]

\* Blocks the panel itself wrote are left out.
IsPortGuardManaged(s) == "portguard" \in s.names

\* Mutant: a brace that ends the server even from inside a location.
CloseBraceServer(c) ==
    IF ~c.open THEN c
    ELSE [c EXCEPT !.open = FALSE, !.inLoc = FALSE, !.server = NewServer,
                   !.depth = IF c.stream /\ @ > 0 THEN @ - 1 ELSE @,
                   !.streams = IF c.stream THEN Append(@, c.server) ELSE @,
                   !.http = IF ~c.stream THEN Append(@, c.server) ELSE @]

\* A closing brace ends the location, else the server, else nothing.
CloseBrace(c) ==
    IF c.inLoc THEN [c EXCEPT !.inLoc = FALSE]
    ELSE IF ~c.open THEN c
    ELSE LET keep == c.server.port > 0 /\ ~IsPortGuardManaged(c.server)
         IN  [c EXCEPT !.open = FALSE, !.server = NewServer,
                       !.depth = IF c.stream /\ @ > 0 THEN @ - 1 ELSE @,
                       !.streams = IF keep /\ c.stream THEN Append(@, c.server) ELSE @,
                       !.http = IF keep /\ ~c.stream THEN Append(@, c.server) ELSE @]

LocationDirective(c, l) ==
    IF l.kw = "proxy_pass" THEN [c EXCEPT !.server.locs[Len(c.server.locs)].pass = l.arg] ELSE c

ServerDirective(c, l) ==
    CASE l.kw = "listen" -> [c EXCEPT !.server.port = l.arg.port, !.server.ssl = @ \/ l.arg.ssl,
                                      !.server.default = @ \/ l.arg.default]
      [] l.kw = "server_name" -> [c EXCEPT !.server.names = @ \cup (l.arg \ {"_"})]
      [] l.kw = "return" /\ l.arg = <<"301">> -> [c EXCEPT !.server.redirect = TRUE]
      [] l.kw = "proxy_pass" /\ c.stream ->
            [c EXCEPT !.server.redirect = FALSE,
                      !.server.locs = Append(@, [path |-> "/", regex |-> FALSE, pass |-> l.arg])]
      [] OTHER -> c

ParseNginxLine(c, l) ==
    CASE c.up = NoUpstream /\ l.kw = "upstream {" -> [c EXCEPT !.up = l.arg]
      [] c.up # NoUpstream /\ l.kw = "}" -> [c EXCEPT !.up = NoUpstream]
      [] c.up # NoUpstream /\ l.kw = "server" -> [c EXCEPT !.ups = @ \cup {<<c.up, l.arg>>}]
      [] c.up # NoUpstream /\ l.kw \notin {"}", "server"} -> c
      [] c.up = NoUpstream /\ l.kw = "stream {" -> [c EXCEPT !.stream = TRUE, !.depth = 0]
      [] c.up = NoUpstream /\ l.kw = "}" /\ c.stream /\ c.depth = 0 -> [c EXCEPT !.stream = FALSE]
      [] c.up = NoUpstream /\ l.kw = "server {" /\ ~c.open ->
            [c EXCEPT !.open = TRUE, !.server = NewServer, !.depth = IF c.stream THEN @ + 1 ELSE @]
      [] c.up = NoUpstream /\ l.kw = "location {" /\ c.open /\ ~c.inLoc ->
            [c EXCEPT !.inLoc = TRUE,
                      !.server.locs = Append(@, [path |-> l.arg.path, regex |-> l.arg.regex,
                                                 pass |-> [host |-> "", port |-> 0]])]
      [] c.up = NoUpstream /\ l.kw = "}" /\ ~(c.stream /\ c.depth = 0) -> CloseBrace(c)
      [] OTHER -> IF c.inLoc THEN LocationDirective(c, l)
                  ELSE IF c.open THEN ServerDirective(c, l) ELSE c

\* The parser after the lines of text, from where the lines before left it.
ReadLines(c, text) == FoldLeft(ParseNginxLine, c, text)
ParseNginxConfig(text) == ReadLines(ParserStart, text)

---------------------------------------------------------------------------
(* NginxSitesToMappings.                                                   *)

HasPort(h) == h.host # "" /\ h.port # 0

\* The hosts of the upstream of that name, or the host itself; a host without a
\* port is no target.
ResolveProxyPass(pass, ups) ==
    LET named == {u \in ups : pass.port = 0 /\ u[1] = pass.host}
    IN  IF named # {} THEN {u[2] : u \in {v \in named : HasPort(v[2])}}
        ELSE IF HasPort(pass) THEN {pass} ELSE {}

\* The first location that leads somewhere.
ConvertHttp(s, ups) ==
    LET useful == {i \in DOMAIN s.locs : ResolveProxyPass(s.locs[i].pass, ups) # {}}
        i == CHOOSE i \in useful : \A j \in useful : i <= j
    IN  [on |-> FALSE, proto |-> IF s.ssl THEN "https" ELSE "http", port |-> s.port,
         names |-> s.names, redirect |-> s.redirect,
         targets |-> IF useful = {} THEN {} ELSE ResolveProxyPass(s.locs[i].pass, ups),
         prefix |-> IF useful = {} \/ s.locs[i].regex THEN "/" ELSE s.locs[i].path]

ConvertStream(s, ups) ==
    [on |-> FALSE, proto |-> "tcp", port |-> s.port, names |-> {}, redirect |-> FALSE,
     targets |-> IF s.locs = <<>> THEN {} ELSE ResolveProxyPass(s.locs[1].pass, ups),
     prefix |-> "/"]

EmptyCatchAll(s) == s.default /\ s.names = {} /\ s.locs = <<>>

NginxSitesToMappings(c) ==
    LET http == FlattenSeq([i \in DOMAIN c.http |->
                    IF EmptyCatchAll(c.http[i]) THEN <<>> ELSE <<c.http[i]>>])
        ms == [i \in DOMAIN http |-> ConvertHttp(http[i], c.ups)]
              \o [i \in DOMAIN c.streams |-> ConvertStream(c.streams[i], c.ups)]
    IN  [out |-> ms,
         issues |-> Len(c.http) - Len(http)
                    + Cardinality({i \in DOMAIN ms : ms[i].targets = {} /\ ~ms[i].redirect})]

---------------------------------------------------------------------------
NotParsed == [ParserStart EXCEPT !.up = "unparsed"]
NoCandidates == [out |-> <<>>, issues |-> 0]

NginxInit ==
    /\ blocks \in UNION {[1..n -> Upstreams \cup HttpServers \cup StreamBlocks] : n \in 1..MaxBlocks}
    /\ ngText = <<>> /\ sites = NotParsed /\ candidates = NoCandidates

\* scanExistingConfigs reads the live file,
ReadNginx ==
    /\ ngText = <<>> /\ ngText' = NginxText(blocks)
    /\ UNCHANGED <<blocks, sites, candidates>>

\* parses it
ParseNginx ==
    /\ ngText # <<>> /\ sites = NotParsed
    /\ sites' = ParseNginxConfig(ngText)
    /\ UNCHANGED <<blocks, ngText, candidates>>

\* and converts what it found.
ConvertNginx ==
    /\ sites # NotParsed /\ candidates = NoCandidates /\ sites.http \o sites.streams # <<>>
    /\ candidates' = NginxSitesToMappings(sites)
    /\ UNCHANGED <<blocks, ngText, sites>>

NginxNext == ReadNginx \/ ParseNginx \/ ConvertNginx
NginxSpec == NginxInit /\ [][NginxNext]_ngVars

---------------------------------------------------------------------------
(* Properties.                                                             *)

Nested(s) == \E i \in DOMAIN s.locs : s.locs[i].nested
Plain == \A i \in DOMAIN blocks : blocks[i].kind = "http" => ~Nested(blocks[i].server)
AsParsed(s) == [port |-> s.port, ssl |-> s.ssl, default |-> s.default, names |-> s.names \ {"_"},
                redirect |-> s.redirect,
                locs |-> [i \in DOMAIN s.locs |-> [path |-> s.locs[i].path, regex |-> s.locs[i].regex,
                                                   pass |-> s.locs[i].pass]]]
\* What is to be found of a server.
SiteOf(s) == IF IsPortGuardManaged(s) THEN <<>> ELSE <<AsParsed(s)>>

\* ParseNginxConfig and NginxSitesToMappings: from a file without blocks the parser
\* does not know, the line parser finds exactly the servers and upstreams of the
\* file, whatever their order and nesting; a candidate that leads nowhere is
\* reported, and none is enabled.
SitesExact ==
    Plain /\ candidates # NoCandidates =>
        /\ sites.http = FlattenSeq([i \in DOMAIN blocks |->
               IF blocks[i].kind = "http" THEN SiteOf(blocks[i].server) ELSE <<>>])
        /\ sites.streams = FlattenSeq([i \in DOMAIN blocks |->
               IF blocks[i].kind = "stream"
               THEN FlattenSeq([j \in DOMAIN blocks[i].servers |-> SiteOf(blocks[i].servers[j])])
               ELSE <<>>])
        /\ sites.ups = UNION {IF blocks[i].kind = "upstream"
                              THEN {<<blocks[i].name, blocks[i].hosts[j]>> : j \in DOMAIN blocks[i].hosts}
                              ELSE {} : i \in DOMAIN blocks}
        /\ \A i \in DOMAIN candidates.out :
               /\ ~candidates.out[i].on
               /\ candidates.out[i].targets = {} /\ ~candidates.out[i].redirect
                      => candidates.issues > 0
=============================================================================
