------------------------------ MODULE CertIssue ------------------------------
(***************************************************************************)
(* Issuing and renewing certificates through acme.sh or certbot             *)
(* (internal/api/acme.go).                                                  *)
(*                                                                         *)
(* A request checks its body, runs the client, which leaves a key and a     *)
(* certificate in a directory named after the domain, reads the two files   *)
(* and stores the pair; an issue also stores its parameters as the profile  *)
(* a renewal starts from.  With stream=1 the same work runs in a job        *)
(* goroutine.  The pairs are numbered in the order the client makes them.   *)
(***************************************************************************)
EXTENDS Naturals, FiniteSets

CONSTANTS
    IssueBodies,    \* bodies of POST /api/certs/issue
    CertIds,        \* 1..n: row ids, handed out in order, never again
    CertHandlers,
    MaxPairs,       \* bound: client runs
    MaxCertFaults   \* bound: failed client runs, failed writes, panel crashes

\* A body has the strings of its JSON, and whether the credentials, a wildcard
\* and an address are there.
Texts == {""} \cup UNION {{b.tool, b.method, b.dns, b.domain} : b \in IssueBodies}
Body == [tool : Texts, method : Texts, dns : Texts, env : BOOLEAN, domain : Texts,
         wild : BOOLEAN, email : BOOLEAN]

ASSUME CertAssumption == IssueBodies \subseteq Body /\ CertIds \subseteq Nat

VARIABLES
    certRow,        \* id -> the stored pair: issue numbers of certificate and key
    profile,        \* id -> the stored parameters
    origin,         \* id -> the body it was issued with (history)
    gone,           \* ids whose row was deleted
    clientDir,      \* directory of the client -> the pair of files in it
    shared,         \* directories two runs have used at once (history)
    certReq,        \* handler -> request or job
    pairs,          \* pairs made so far
    certFaults

certVars == <<certRow, profile, origin, gone, clientDir, shared, certReq, pairs, certFaults>>

NoPair == [cert |-> 0, key |-> 0]
NoBodyYet == [tool |-> "", method |-> "", dns |-> "", env |-> FALSE, domain |-> "", wild |-> FALSE,
              email |-> FALSE]
IdleCert == [pc |-> "idle", job |-> FALSE, renew |-> FALSE, body |-> NoBodyYet, id |-> 0,
             pair |-> 0, got |-> NoPair]

\* The provider registry: the clients that support each provider.
acmeProviders ==
    [cloudflare |-> {"acmesh", "certbot"}, arvancloud |-> {"acmesh"}, hetzner |-> {"acmesh"},
     digitalocean |-> {"acmesh", "certbot"}, route53 |-> {"acmesh", "certbot"},
     ovh |-> {"acmesh", "certbot"}, godaddy |-> {"acmesh"}, vultr |-> {"acmesh"},
     aliyun |-> {"acmesh"}, dnspod |-> {"acmesh"}, duckdns |-> {"acmesh"},
     namesilo |-> {"acmesh"}, gandi |-> {"acmesh"}, desec |-> {"acmesh"}, he |-> {"acmesh"}]

acmeProviderByID(id) == IF id \in DOMAIN acmeProviders THEN {acmeProviders[id]} ELSE {}

\* checkEnvFields: env says whether every required credential is there.
ValidDNS(b) == b.env /\ \E p \in acmeProviderByID(b.dns) : b.tool \in p

ValidIssue(b) ==
    /\ b.tool \in {"acmesh", "certbot"} /\ b.method \in {"http01", "dns01"}
    /\ b.wild => b.method = "dns01"
    /\ b.method = "dns01" => ValidDNS(b)
    /\ b.tool = "certbot" => b.email

\* importIssued stores the parameters under "dns" and "env"; issueRequest decodes
\* "dns_provider" and "dns_env", which are not in the stored profile.
DecodedProfile(p) == [p EXCEPT !.dns = "", !.env = FALSE]

Dirs == {<<b.tool, b.domain>> : b \in IssueBodies}
DirOf(b) == <<b.tool, b.domain>>
InClient(r) == r.pc \in {"key", "cert", "readCert", "readKey"}

CertInit ==
    /\ certRow = [i \in CertIds |-> NoPair]
    /\ profile = [i \in CertIds |-> NoBodyYet]
    /\ origin = [i \in CertIds |-> NoBodyYet]
    /\ gone = {}
    /\ clientDir = [d \in Dirs |-> NoPair]
    /\ shared = {}
    /\ certReq = [h \in CertHandlers |-> IdleCert]
    /\ pairs = 0 /\ certFaults = 0

CertFault ==
    /\ certFaults < MaxCertFaults
    /\ certFaults' = certFaults + 1

AnswerCert(h) == certReq' = [certReq EXCEPT ![h] = IdleCert]
CertGoto(h, pc) == certReq' = [certReq EXCEPT ![h].pc = pc]

---------------------------------------------------------------------------
(* The handlers.                                                           *)

handleIssueCert(h) ==
    /\ certReq[h].pc = "idle"
    /\ \E b \in IssueBodies, job \in BOOLEAN :
        /\ ValidIssue(b)
        /\ certReq' = [certReq EXCEPT ![h] = [IdleCert EXCEPT !.pc = "run", !.job = job, !.body = b]]
    /\ UNCHANGED <<certRow, profile, origin, gone, clientDir, shared, pairs, certFaults>>

handleRenewCert(h) ==
    /\ certReq[h].pc = "idle"
    /\ \E i \in CertIds, job \in BOOLEAN :
        /\ certRow[i] # NoPair /\ profile[i] # NoBodyYet
        /\ certReq' = [certReq EXCEPT ![h] =
                [IdleCert EXCEPT !.pc = "run", !.job = job, !.renew = TRUE, !.id = i,
                                 !.body = DecodedProfile(profile[i])]]
    /\ UNCHANGED <<certRow, profile, origin, gone, clientDir, shared, pairs, certFaults>>

\* A row that no mapping uses is deleted; its profile stays in the settings.
RemoveCert ==
    /\ \E i \in CertIds :
        /\ certRow[i] # NoPair
        /\ certRow' = [certRow EXCEPT ![i] = NoPair]
        /\ gone' = gone \cup {i}
    /\ UNCHANGED <<profile, origin, clientDir, shared, certReq, pairs, certFaults>>

---------------------------------------------------------------------------
(* runAcmeSh and runCertbot.                                               *)

MissingProvider(b) == b.method = "dns01" /\ acmeProviderByID(b.dns) = {}

\* The client is started; it will make the next pair.
StartClient(h) ==
    /\ certReq[h].pc = "run" /\ ~MissingProvider(certReq[h].body)
    /\ pairs < MaxPairs
    /\ pairs' = pairs + 1
    /\ certReq' = [certReq EXCEPT ![h].pc = "key", ![h].pair = pairs + 1]
    /\ LET d == DirOf(certReq[h].body)
       IN  shared' = IF \E g \in CertHandlers \ {h} : InClient(certReq[g]) /\ DirOf(certReq[g].body) = d
                     THEN shared \cup {d} ELSE shared
    /\ UNCHANGED <<certRow, profile, origin, gone, clientDir, certFaults>>

\* A provider that is not found is nil and its fields are read: net/http recovers
\* the panic of a request, nothing recovers the panic of a job.
ProviderPanic(h) ==
    /\ certReq[h].pc = "run" /\ MissingProvider(certReq[h].body)
    /\ certReq' = [g \in CertHandlers |-> IF certReq[h].job \/ g = h THEN IdleCert ELSE certReq[g]]
    /\ UNCHANGED <<certRow, profile, origin, gone, clientDir, shared, pairs, certFaults>>

\* The client (external) writes the key, then the certificate,
ClientWrites(h) ==
    /\ certReq[h].pc \in {"key", "cert"}
    /\ LET d == DirOf(certReq[h].body)
       IN  IF certReq[h].pc = "key"
           THEN /\ clientDir' = [clientDir EXCEPT ![d].key = certReq[h].pair]
                /\ CertGoto(h, "cert")
           ELSE /\ clientDir' = [clientDir EXCEPT ![d].cert = certReq[h].pair]
                /\ CertGoto(h, "readCert")
    /\ UNCHANGED <<certRow, profile, origin, gone, shared, pairs, certFaults>>

\* Mutant: a failed run that the panel takes for a finished one.
ClientFailUnseen(h) ==
    /\ certReq[h].pc \in {"key", "cert"}
    /\ CertFault
    /\ CertGoto(h, "readCert")
    /\ UNCHANGED <<certRow, profile, origin, gone, clientDir, shared, pairs>>

\* or fails half-way, and the request ends with its error.
ClientFails(h) ==
    /\ certReq[h].pc \in {"key", "cert"}
    /\ CertFault
    /\ AnswerCert(h)
    /\ UNCHANGED <<certRow, profile, origin, gone, clientDir, shared, pairs>>

\* The certificate file is read, then the key file.
ReadIssued(h) ==
    /\ certReq[h].pc \in {"readCert", "readKey"}
    /\ LET d == DirOf(certReq[h].body)
       IN  certReq' = IF certReq[h].pc = "readCert"
                      THEN [certReq EXCEPT ![h].pc = "readKey", ![h].got.cert = clientDir[d].cert]
                      ELSE [certReq EXCEPT ![h].pc = "store", ![h].got.key = clientDir[d].key]
    /\ UNCHANGED <<certRow, profile, origin, gone, clientDir, shared, pairs, certFaults>>

---------------------------------------------------------------------------
(* Storing the pair.                                                       *)

Fresh(i) == /\ certRow[i] = NoPair /\ i \notin gone
            /\ \A j \in 1..(i - 1) : certRow[j] # NoPair \/ j \in gone

CreateCert(h) ==
    /\ certReq[h].pc = "store" /\ ~certReq[h].renew
    /\ \E i \in CertIds :
        /\ Fresh(i)
        /\ certRow' = [certRow EXCEPT ![i] = certReq[h].got]
        /\ origin' = [origin EXCEPT ![i] = certReq[h].body]
        /\ certReq' = [certReq EXCEPT ![h].pc = "profile", ![h].id = i]
    /\ UNCHANGED <<profile, gone, clientDir, shared, pairs, certFaults>>

\* The error of this write is dropped.
SaveProfile(h) ==
    /\ certReq[h].pc = "profile"
    /\ \/ /\ profile' = [profile EXCEPT ![certReq[h].id] = certReq[h].body]
          /\ UNCHANGED certFaults
       \/ CertFault /\ UNCHANGED profile
    /\ AnswerCert(h)
    /\ UNCHANGED <<certRow, origin, gone, clientDir, shared, pairs>>

\* The pair replaces the one of the row; a row deleted meanwhile is an error.
UpdateCertPEM(h) ==
    /\ certReq[h].pc = "store" /\ certReq[h].renew
    /\ certRow' = [certRow EXCEPT ![certReq[h].id] = IF @ = NoPair THEN @ ELSE certReq[h].got]
    /\ AnswerCert(h)
    /\ UNCHANGED <<profile, origin, gone, clientDir, shared, pairs, certFaults>>

\* The panel dies with its requests and jobs.
CertCrash ==
    /\ CertFault
    /\ \E h \in CertHandlers : certReq[h].pc # "idle"
    /\ certReq' = [h \in CertHandlers |-> IdleCert]
    /\ UNCHANGED <<certRow, profile, origin, gone, clientDir, shared, pairs>>

CertNext ==
    \/ \E h \in CertHandlers :
        \/ handleIssueCert(h) \/ handleRenewCert(h) \/ StartClient(h) \/ ProviderPanic(h)
        \/ ClientWrites(h) \/ ClientFails(h) \/ ReadIssued(h)
        \/ CreateCert(h) \/ SaveProfile(h) \/ UpdateCertPEM(h)
    \/ RemoveCert \/ CertCrash

CertSpec == CertInit /\ [][CertNext]_certVars

---------------------------------------------------------------------------
(* Properties.                                                             *)

\* importIssued and handleRenewCert ("swaps the stored PEM pair atomically"): a
\* stored certificate has the key it was issued for, through failed client runs
\* and crashes that leave half a pair in the client's directory, as long as no two
\* runs used that directory at once; and a renewal never brings a deleted row back.
PairsMatch ==
    \A i \in CertIds : certRow[i] # NoPair =>
        /\ i \notin gone
        /\ DirOf(origin[i]) \notin shared => certRow[i].cert = certRow[i].key

\* acme.go:326 "persist the issuance parameters so /renew can replay the same
\* flow": a renewal runs with the parameters of the issue.
RenewReplays ==
    \A h \in CertHandlers :
        certReq[h].pc = "run" /\ certReq[h].renew => certReq[h].body = origin[certReq[h].id]

---------------------------------------------------------------------------
(* The inductive invariant of PairsMatch.                                  *)

CertPair == [cert : Nat, key : Nat]

CertTypeOK ==
    /\ certRow \in [CertIds -> CertPair]
    /\ profile \in [CertIds -> Body] /\ origin \in [CertIds -> Body]
    /\ clientDir \in [Dirs -> CertPair]
    /\ certReq \in [CertHandlers ->
                      [pc : {"idle", "run", "key", "cert", "readCert", "readKey", "store", "profile"},
                       job : BOOLEAN, renew : BOOLEAN, body : Body, id : Nat, pair : Nat,
                       got : CertPair]]
    /\ pairs \in Nat

\* Ids that are taken or have been: they are not handed out again.
Recorded(i) == certRow[i] # NoPair \/ i \in gone

\* Two runs in one directory are known as such.
OneRun ==
    \A g, h \in CertHandlers :
        g # h /\ InClient(certReq[g]) /\ InClient(certReq[h])
            /\ DirOf(certReq[g].body) = DirOf(certReq[h].body) => DirOf(certReq[h].body) \in shared

\* What a request has in the client's directory and in hand.
RunHas(h) ==
    LET r == certReq[h]
        d == DirOf(r.body)
    IN  /\ r.pc \in {"key", "cert"} => r.pair # 0
        /\ r.pc \in {"cert", "readCert", "readKey"} =>
              clientDir[d].key # 0 /\ (d \notin shared => clientDir[d].key = r.pair)
        /\ r.pc \in {"readCert", "readKey"} =>
              clientDir[d].cert # 0 /\ (d \notin shared => clientDir[d].cert = r.pair)
        /\ r.pc = "readKey" => r.got.cert # 0 /\ (d \notin shared => r.got.cert = r.pair)
        /\ r.pc = "store" => r.got.cert # 0 /\ (d \notin shared => r.got.cert = r.got.key)

\* Which row a request is about.
RunOf(h) ==
    LET r == certReq[h]
    IN  /\ r.pc # "idle" => DirOf(r.body) \in Dirs
        /\ r.pc # "idle" /\ (r.renew \/ r.pc = "profile") =>
              r.id \in CertIds /\ Recorded(r.id) /\ DirOf(r.body) = DirOf(origin[r.id])

ProfilesKnown ==
    \A i \in CertIds : profile[i] # NoBodyYet =>
        Recorded(i) /\ DirOf(profile[i]) \in Dirs /\ DirOf(profile[i]) = DirOf(origin[i])

CertInv ==
    /\ CertTypeOK /\ OneRun /\ ProfilesKnown /\ PairsMatch
    /\ \A h \in CertHandlers : RunHas(h) /\ RunOf(h)
=============================================================================
