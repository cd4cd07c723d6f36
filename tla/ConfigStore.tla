----------------------------- MODULE ConfigStore -----------------------------
(***************************************************************************)
(* The configuration tables and the handlers that change them: mappings,   *)
(* certificates, relays and version snapshots (internal/store, the         *)
(* handlers of internal/api and the node API that mirrors them).           *)
(*                                                                         *)
(* The database has one connection, so each statement is atomic and the    *)
(* statements of different handlers interleave.  A handler checks what it  *)
(* has read and then writes: every check may be stale by then.             *)
(*                                                                         *)
(* Data abstraction: Bodies are the mapping bodies that pass the checks of *)
(* ValidateMapping on the mapping alone; a relay is its unique name.  Row  *)
(* ids are only compared, so any id that nobody refers to is a new one.    *)
(***************************************************************************)
EXTENDS Naturals, FiniteSets, FiniteSetsExt

CONSTANTS
    Ids,            \* ids of mapping rows
    Bodies,         \* records [name, port, ip, enabled, cert]
    Wildcards,      \* listen addresses that bind every interface
    CertIds,        \* ids of certificates (AUTOINCREMENT: never used again)
    Relays,         \* names of tunnel relays
    Handlers,       \* requests served at the same time
    None,           \* no row, no certificate
    MaxVersion,     \* bound on version numbers
    Keep,           \* versions kept by CreateConfigVersion (50 in the code)
    MaxImport,      \* bound on the mappings of one import
    Faults          \* statements that may fail

VARIABLES
    mappings,       \* the table mappings, by id
    certs,          \* state of each certificate row
    relays,         \* the table tunnel_relays
    versions,       \* the table config_versions
    job,            \* the locals of every handler
    slips           \* history: what has let a conflict past the check

vars == <<mappings, certs, relays, versions, job, slips>>

Table    == [Ids -> Bodies \cup {None}]
Numbers  == 1..MaxVersion
Snapshot == [mappings : Table, relays : SUBSET Relays]
Empty    == [i \in Ids |-> None]
NoSnap   == [mappings |-> Empty, relays |-> {}]

ASSUME BodyAssumption ==
    /\ \A b \in Bodies : /\ b.enabled \in BOOLEAN
                         /\ b.cert \in CertIds \cup {None}
    /\ None \notin Bodies /\ None \notin CertIds /\ None \notin Ids
    /\ None \notin Snapshot
ASSUME VersionAssumption == MaxVersion \in Nat \ {0} /\ Keep \in Nat \ {0}
ASSUME FiniteAssumption == IsFiniteSet(Handlers) /\ IsFiniteSet(Ids)

\* A create with the id of a row, a row that a restore leaves, a failed list.
Slips == {"own id", "left over", "list"}

\* What a dropped error leaves: a mapping or a relay too many, a relay too few.
Losses == {"mapping kept", "relay kept", "relay missing"}

Job == [pc     : {"idle", "list", "store", "import", "scanned", "counted",
                  "listMappings", "listRelays", "max", "insert", "prune",
                  "current", "delete", "add", "relayList", "relayDelete",
                  "relayAdd", "restored"},
        op     : {"none", "create", "update", "import", "scan", "cert",
                  "apply", "restore"},
        id     : Ids \cup CertIds \cup {None},
        todo   : SUBSET Bodies,                 \* bodies to import
        body   : Bodies \cup {None},
        all    : Table,                         \* listed, and imported since
        snap   : Snapshot,                      \* what the version row gets
        ver    : 0..(MaxVersion + 1),           \* its number
        want   : Snapshot,                      \* the version to restore
        before : Snapshot,                      \* history: what a restore replaces
        rows   : SUBSET Ids,                    \* rows to delete or to create
        names  : SUBSET Relays,                 \* relays to delete or to create
        lost   : SUBSET Losses]                 \* history: its dropped errors

Idle == [pc |-> "idle", op |-> "none", id |-> None, todo |-> {}, body |-> None,
         all |-> Empty, snap |-> NoSnap, ver |-> 0, want |-> NoSnap,
         before |-> NoSnap, rows |-> {}, names |-> {}, lost |-> {}]

Init ==
    /\ mappings = Empty
    /\ certs = [c \in CertIds |-> "unused"]
    /\ relays = {}
    /\ versions = [v \in Numbers |-> None]
    /\ job = [h \in Handlers |-> Idle]
    /\ slips = {}

Rows(t) == {i \in Ids : t[i] # None}

\* Ids for new rows: nobody refers to them.  An INSERT fails when there is none,
\* which bounds the table and takes the handlers' error paths.
FreshIds ==
    {i \in Ids : /\ mappings[i] = None
                 /\ \A h \in Handlers :
                      /\ job[h].op = "create" \/ job[h].id # i
                      /\ job[h].all[i] = None
                      /\ job[h].pc = "delete" => i \notin job[h].rows}

Fails(statement) == statement \in Faults

Goto(h, pc) == job' = [job EXCEPT ![h].pc = pc]
Done(h) == job' = [job EXCEPT ![h] = Idle]

(***************************************************************************)
(* Validation.                                                             *)
(***************************************************************************)

\* Mutant: only equal addresses overlap.
listenIPsEqual(a, b) == a = b

listenIPsOverlap(a, b) == a = b \/ a \in Wildcards \/ b \in Wildcards

Conflict(b, c) ==
    /\ b.enabled /\ c.enabled
    /\ b.port = c.port
    /\ listenIPsOverlap(b.ip, c.ip)

\* The conflict check against the other mappings that were listed.
ValidateMapping(b, id, all) ==
    \A i \in Rows(all) \ {id} : ~Conflict(b, all[i])

certExists(b) == b.cert # None => certs[b.cert] = "stored"

(***************************************************************************)
(* Mappings.                                                               *)
(***************************************************************************)

\* handleCreateMapping, handleUpdateMapping and the node API's createMapping
\* and updateMapping, up to certExists.  A create keeps the id of its body.
SaveMapping(h, op, b, id) ==
    /\ job[h].pc = "idle"
    /\ op = "update" => id \in Ids
    /\ certExists(b)
    /\ job' = [job EXCEPT ![h] = [Idle EXCEPT !.pc = "list", !.op = op,
                                              !.body = b, !.id = id]]
    /\ UNCHANGED <<mappings, certs, relays, versions, slips>>

\* ListMappings and the check; a conflict ends the request.  The check skips the
\* row with the id of the body, which a create does not replace.
Validate(h) ==
    LET b == job[h].body  create == job[h].op = "create" IN
    /\ job[h].pc = "list"
    /\ IF ValidateMapping(b, job[h].id, mappings)
       THEN /\ Goto(h, "store")
            /\ slips' = slips \cup {s \in {"own id"} :
                                      create /\ ~ValidateMapping(b, None, mappings)}
       ELSE Done(h) /\ UNCHANGED slips
    /\ UNCHANGED <<mappings, certs, relays, versions>>

CreateMapping(h) ==
    /\ job[h].pc = "store" /\ job[h].op = "create"
    /\ \/ \E i \in FreshIds : mappings' = [mappings EXCEPT ![i] = job[h].body]
       \/ FreshIds = {} /\ UNCHANGED mappings
    /\ Done(h)
    /\ UNCHANGED <<certs, relays, versions, slips>>

\* An UPDATE of a row that is gone changes nothing and is no error.
UpdateMapping(h) ==
    /\ job[h].pc = "store" /\ job[h].op = "update"
    /\ mappings' = IF mappings[job[h].id] = None THEN mappings
                   ELSE [mappings EXCEPT ![job[h].id] = job[h].body]
    /\ Done(h)
    /\ UNCHANGED <<certs, relays, versions, slips>>

DeleteMapping(h, i) ==
    /\ job[h].pc = "idle"
    /\ mappings[i] # None
    /\ mappings' = [mappings EXCEPT ![i] = None]
    /\ UNCHANGED <<certs, relays, versions, job, slips>>

\* handleImport lists the mappings once.
ListForImport(h, bs) ==
    /\ job[h].pc = "idle"
    /\ bs # {} /\ Cardinality(bs) <= MaxImport
    /\ job' = [job EXCEPT ![h] = [Idle EXCEPT !.pc = "import", !.op = "import",
                                              !.todo = bs, !.all = mappings]]
    /\ UNCHANGED <<mappings, certs, relays, versions, slips>>

\* The rows that a list gives whose error the caller drops: those before the error.
ListedRows == IF Fails("list") THEN SUBSET Rows(mappings) ELSE {Rows(mappings)}

\* handleImportConfirm: what scanExistingConfigs reads from the engines' files
\* (nginx sites disabled, haproxy frontends enabled) gets unused names and no
\* certificate, and is dropped when an enabled mapping that was listed has its
\* port ...
ScanConfigs(h, bs) ==
    /\ job[h].pc = "idle"
    /\ bs # {} /\ Cardinality(bs) <= MaxImport
    /\ \A b \in bs : b.cert = None
    /\ \E rows \in ListedRows : \A b \in bs, i \in rows :
         /\ mappings[i].name # b.name
         /\ ~(mappings[i].enabled /\ mappings[i].port = b.port)
    /\ job' = [job EXCEPT ![h] = [Idle EXCEPT !.pc = "scanned", !.op = "scan",
                                              !.todo = bs]]
    /\ UNCHANGED <<mappings, certs, relays, versions, slips>>

\* ... and the handler then lists the mappings again.
ListScanned(h) ==
    /\ job[h].pc = "scanned"
    /\ \E rows \in ListedRows :
         /\ job' = [job EXCEPT ![h].pc = "import",
                               ![h].all = [i \in Ids |-> IF i \in rows THEN mappings[i]
                                                                     ELSE None]]
         /\ slips' = slips \cup {s \in {"list"} : rows # Rows(mappings)}
    /\ UNCHANGED <<mappings, certs, relays, versions>>

\* One mapping of the import: skipped when its name is known (handleImport only),
\* rejected on a conflict with what was listed or imported, else created.  Its
\* certificate is not looked up.
ImportMapping(h, b) ==
    LET all == job[h].all IN
    /\ job[h].pc = "import"
    /\ b \in job[h].todo
    /\ IF \/ job[h].op = "import" /\ \E i \in Rows(all) : all[i].name = b.name
          \/ ~ValidateMapping(b, None, all)
          \/ FreshIds = {}
       THEN /\ job' = [job EXCEPT ![h].todo = @ \ {b}]
            /\ UNCHANGED mappings
       ELSE \E i \in FreshIds :
              /\ mappings' = [mappings EXCEPT ![i] = b]
              /\ job' = [job EXCEPT ![h].todo = @ \ {b}, ![h].all[i] = b]
    /\ UNCHANGED <<certs, relays, versions, slips>>

ImportDone(h) ==
    /\ job[h].pc = "import"
    /\ job[h].todo = {}
    /\ Done(h)
    /\ UNCHANGED <<mappings, certs, relays, versions, slips>>

(***************************************************************************)
(* Certificates and relays.                                                *)
(***************************************************************************)

CreateCert(h, c) ==
    /\ job[h].pc = "idle"
    /\ certs[c] = "unused"
    /\ certs' = [certs EXCEPT ![c] = "stored"]
    /\ UNCHANGED <<mappings, relays, versions, job, slips>>

\* DeleteCert counts the mappings that use the certificate ...
CountUses(h, c) ==
    /\ job[h].pc = "idle"
    /\ certs[c] = "stored"
    /\ \A i \in Rows(mappings) : mappings[i].cert # c
    /\ job' = [job EXCEPT ![h] = [Idle EXCEPT !.pc = "counted", !.op = "cert",
                                              !.id = c]]
    /\ UNCHANGED <<mappings, certs, relays, versions, slips>>

\* ... and deletes it in a second statement.
DeleteCert(h) ==
    /\ job[h].pc = "counted"
    /\ certs' = [certs EXCEPT ![job[h].id] = "deleted"]
    /\ Done(h)
    /\ UNCHANGED <<mappings, relays, versions, slips>>

\* handleCreateRelay; the name is UNIQUE in the table.
CreateRelay(h, r) ==
    /\ job[h].pc = "idle"
    /\ r \notin relays
    /\ relays' = relays \cup {r}
    /\ UNCHANGED <<mappings, certs, versions, job, slips>>

DeleteRelay(h, r) ==
    /\ job[h].pc = "idle"
    /\ r \in relays
    /\ relays' = relays \ {r}
    /\ UNCHANGED <<mappings, certs, versions, job, slips>>

\* handleUpdateRelay: the new name must be free.
UpdateRelay(h, r, s) ==
    /\ job[h].pc = "idle"
    /\ r \in relays
    /\ s \notin relays
    /\ relays' = (relays \ {r}) \cup {s}
    /\ UNCHANGED <<mappings, certs, versions, job, slips>>

(***************************************************************************)
(* Versions.  CreateConfigVersion is five statements: two lists, the next  *)
(* number, the insert and the retention.                                   *)
(***************************************************************************)

Stored == {v \in Numbers : versions[v] # None}
Latest == Max(Stored \cup {0})

\* Bound: a number is left for every snapshot that has none yet.
RoomForVersion ==
    Latest + Cardinality({h \in Handlers : job[h].op \in {"apply", "restore"}})
        < MaxVersion

\* ApplyAll lists the mappings it deploys, under its mutex, and records a
\* version at its end; what it deploys is the matter of ApplyPipeline.
Apply(h) ==
    /\ job[h].pc = "idle"
    /\ \A g \in Handlers : job[g].op # "apply"
    /\ RoomForVersion
    /\ job' = [job EXCEPT ![h] = [Idle EXCEPT !.pc = "listMappings", !.op = "apply"]]
    /\ UNCHANGED <<mappings, certs, relays, versions, slips>>

\* GetConfigVersion of handleRestoreVersion; the safety snapshot is next.
RestoreVersion(h, v) ==
    /\ job[h].pc = "idle"
    /\ versions[v] # None
    /\ RoomForVersion
    /\ job' = [job EXCEPT ![h] = [Idle EXCEPT !.pc = "listMappings",
                                              !.op = "restore",
                                              !.want = versions[v]]]
    /\ UNCHANGED <<mappings, certs, relays, versions, slips>>

SnapMappings(h) ==
    /\ job[h].pc = "listMappings"
    /\ job' = [job EXCEPT ![h].pc = "listRelays", ![h].snap.mappings = mappings]
    /\ UNCHANGED <<mappings, certs, relays, versions, slips>>

SnapRelays(h) ==
    /\ job[h].pc = "listRelays"
    /\ job' = [job EXCEPT ![h].pc = "max", ![h].snap.relays = relays]
    /\ UNCHANGED <<mappings, certs, relays, versions, slips>>

\* Mutant: the number of rows instead of the highest number.
CountVersions(h) ==
    /\ job[h].pc = "max"
    /\ job' = [job EXCEPT ![h].pc = "insert", ![h].ver = Cardinality(Stored) + 1]
    /\ UNCHANGED <<mappings, certs, relays, versions, slips>>

NextVersion(h) ==
    /\ job[h].pc = "max"
    /\ job' = [job EXCEPT ![h].pc = "insert", ![h].ver = Latest + 1]
    /\ UNCHANGED <<mappings, certs, relays, versions, slips>>

\* Where a handler goes when CreateConfigVersion returns, error or not: both
\* callers drop the error.
AfterVersion(h) ==
    IF job[h].op = "restore" THEN Goto(h, "current") ELSE Done(h)

\* The number is UNIQUE: the second of two equal ones is refused.
InsertVersion(h) ==
    /\ job[h].pc = "insert"
    /\ \/ /\ versions[job[h].ver] = None
          /\ versions' = [versions EXCEPT ![job[h].ver] = job[h].snap]
          /\ Goto(h, "prune")
       \/ /\ versions[job[h].ver] # None \/ Fails("version")
          /\ AfterVersion(h)
          /\ UNCHANGED versions
    /\ UNCHANGED <<mappings, certs, relays, slips>>

Prune(h, last) ==
    /\ job[h].pc = "prune"
    /\ versions' = [v \in Numbers |-> IF v <= last THEN None ELSE versions[v]]
    /\ AfterVersion(h)
    /\ UNCHANGED <<mappings, certs, relays, slips>>

\* Mutants: one version too many is kept, one too few.
PruneLate(h) == Prune(h, IF Latest > Keep THEN Latest - Keep - 1 ELSE 0)
PruneEarly(h) == Prune(h, IF Latest > Keep THEN Latest - Keep + 1 ELSE 0)

PruneVersions(h) == Prune(h, IF Latest > Keep THEN Latest - Keep ELSE 0)

(***************************************************************************)
(* The replacement of the tables by handleRestoreVersion, row by row.      *)
(***************************************************************************)

\* The restore drops the errors of every statement but the INSERT of a mapping.
ListCurrent(h) ==
    /\ job[h].pc = "current"
    /\ job' = [job EXCEPT ![h].pc = "delete", ![h].rows = Rows(mappings),
                          ![h].before = [mappings |-> mappings, relays |-> relays]]
    /\ UNCHANGED <<mappings, certs, relays, versions, slips>>

ListCurrentFail(h) ==
    /\ job[h].pc = "current"
    /\ \E rows \in ListedRows \ {Rows(mappings)} :
         job' = [job EXCEPT ![h].pc = "delete", ![h].rows = rows,
                            ![h].before = [mappings |-> mappings, relays |-> relays],
                            ![h].lost = {"mapping kept"}]
    /\ slips' = slips \cup {"left over"}
    /\ UNCHANGED <<mappings, certs, relays, versions>>

RestoreDelete(h) ==
    /\ job[h].pc = "delete"
    /\ IF job[h].rows = {}
       THEN /\ job' = [job EXCEPT ![h].pc = "add",
                                  ![h].rows = Rows(job[h].want.mappings)]
            /\ UNCHANGED mappings
       ELSE \E i \in job[h].rows :
              /\ mappings' = [mappings EXCEPT ![i] = None]
              /\ job' = [job EXCEPT ![h].rows = @ \ {i}]
    /\ UNCHANGED <<certs, relays, versions, slips>>

RestoreDeleteFail(h) ==
    /\ job[h].pc = "delete"
    /\ Fails("delete")
    /\ \E i \in job[h].rows : job' = [job EXCEPT ![h].rows = @ \ {i},
                                                 ![h].lost = @ \cup {"mapping kept"}]
    /\ slips' = slips \cup {"left over"}
    /\ UNCHANGED <<mappings, certs, relays, versions>>

\* Mutant: a mapping that cannot be inserted is skipped.
RestoreCreateSkip(h) ==
    /\ job[h].pc = "add"
    /\ \E i \in job[h].rows :
         /\ \/ \E n \in FreshIds :
                  mappings' = [mappings EXCEPT ![n] = job[h].want.mappings[i]]
            \/ (Fails("insert") \/ FreshIds = {}) /\ UNCHANGED mappings
         /\ job' = [job EXCEPT ![h].rows = @ \ {i}]
    /\ UNCHANGED <<certs, relays, versions, slips>>

\* Rows get new ids.  An insert that fails ends the restore midway.
RestoreCreate(h) ==
    /\ job[h].pc = "add"
    /\ job[h].rows # {}
    /\ \/ \E i \in job[h].rows, n \in FreshIds :
             /\ mappings' = [mappings EXCEPT ![n] = job[h].want.mappings[i]]
             /\ job' = [job EXCEPT ![h].rows = @ \ {i}]
       \/ /\ Fails("insert") \/ FreshIds = {}
          /\ Done(h)
          /\ UNCHANGED mappings
    /\ UNCHANGED <<certs, relays, versions, slips>>

ListCurrentRelays(h) ==
    /\ job[h].pc = "add"
    /\ job[h].rows = {}
    /\ job' = [job EXCEPT ![h].pc = "relayDelete", ![h].names = relays]
    /\ UNCHANGED <<mappings, certs, relays, versions, slips>>

ListRelaysFail(h) ==
    /\ job[h].pc = "add"
    /\ job[h].rows = {}
    /\ Fails("list")
    /\ \E names \in SUBSET relays \ {relays} :
         job' = [job EXCEPT ![h].pc = "relayDelete", ![h].names = names,
                            ![h].lost = @ \cup {"relay kept"}]
    /\ UNCHANGED <<mappings, certs, relays, versions, slips>>

\* The code deletes by row id; a row renamed since the list keeps its id, which a
\* name cannot show, so the runs with several handlers have no relays.
RestoreRelayDelete(h) ==
    /\ job[h].pc = "relayDelete"
    /\ IF job[h].names = {}
       THEN /\ job' = [job EXCEPT ![h].pc = "relayAdd",
                                  ![h].names = job[h].want.relays]
            /\ UNCHANGED relays
       ELSE \E r \in job[h].names :
              /\ relays' = relays \ {r}
              /\ job' = [job EXCEPT ![h].names = @ \ {r}]
    /\ UNCHANGED <<mappings, certs, versions, slips>>

RelayDeleteFail(h) ==
    /\ job[h].pc = "relayDelete"
    /\ Fails("delete")
    /\ \E r \in job[h].names : job' = [job EXCEPT ![h].names = @ \ {r},
                                                  ![h].lost = @ \cup {"relay kept"}]
    /\ UNCHANGED <<mappings, certs, relays, versions, slips>>

\* A relay whose name exists by now is refused, and the error dropped.
RestoreRelayCreate(h) ==
    /\ job[h].pc = "relayAdd"
    /\ IF job[h].names = {}
       THEN /\ Goto(h, "restored")
            /\ UNCHANGED relays
       ELSE \E r \in job[h].names :
              /\ relays' = relays \cup {r}
              /\ job' = [job EXCEPT ![h].names = @ \ {r}]
    /\ UNCHANGED <<mappings, certs, versions, slips>>

RelayCreateFail(h) ==
    /\ job[h].pc = "relayAdd"
    /\ Fails("insert")
    /\ \E r \in job[h].names : job' = [job EXCEPT ![h].names = @ \ {r},
                                                  ![h].lost = @ \cup {"relay missing"}]
    /\ UNCHANGED <<mappings, certs, relays, versions, slips>>

RestoreDone(h) ==
    /\ job[h].pc = "restored"
    /\ Done(h)
    /\ UNCHANGED <<mappings, certs, relays, versions, slips>>

CreateConfigVersion(h) ==
    SnapMappings(h) \/ SnapRelays(h) \/ NextVersion(h) \/ InsertVersion(h)
        \/ PruneVersions(h)

Restore(h) ==
    ListCurrent(h) \/ RestoreDelete(h) \/ RestoreCreate(h) \/ ListCurrentRelays(h)
        \/ RestoreRelayDelete(h) \/ RestoreRelayCreate(h) \/ RestoreDone(h)
        \/ ListCurrentFail(h) \/ RestoreDeleteFail(h) \/ ListRelaysFail(h)
        \/ RelayDeleteFail(h) \/ RelayCreateFail(h)

Next == \E h \in Handlers :
    \/ \E b \in Bodies, id \in Ids \cup {None} :
          SaveMapping(h, "create", b, id) \/ SaveMapping(h, "update", b, id)
    \/ \E b \in Bodies : ImportMapping(h, b)
    \/ Validate(h) \/ CreateMapping(h) \/ UpdateMapping(h)
    \/ \E i \in Ids : DeleteMapping(h, i)
    \/ \E bs \in SUBSET Bodies : ListForImport(h, bs) \/ ScanConfigs(h, bs)
    \/ ListScanned(h) \/ ImportDone(h)
    \/ \E c \in CertIds : CreateCert(h, c) \/ CountUses(h, c)
    \/ DeleteCert(h)
    \/ \E r \in Relays : \/ CreateRelay(h, r) \/ DeleteRelay(h, r)
                          \/ \E s \in Relays : UpdateRelay(h, r, s)
    \/ Apply(h) \/ CreateConfigVersion(h)
    \/ \E v \in Numbers : RestoreVersion(h, v)
    \/ Restore(h)

Spec == Init /\ [][Next]_vars

(***************************************************************************)
(* Properties.                                                             *)
(***************************************************************************)

\* Every table and every local has its type.
TypeOK ==
    /\ mappings \in Table
    /\ certs \in [CertIds -> {"unused", "stored", "deleted"}]
    /\ relays \in SUBSET Relays
    /\ versions \in [Numbers -> Snapshot \cup {None}]
    /\ job \in [Handlers -> Job]
    /\ slips \subseteq Slips

\* No two enabled mappings fight for a socket: a conflict is detected before the
\* mapping is saved (section 5 of the README gives an instance).
SocketsApart ==
    \A i \in Rows(mappings) : \A j \in Rows(mappings) \ {i} :
        ~( /\ mappings[i].enabled /\ mappings[j].enabled
           /\ mappings[i].port = mappings[j].port
           /\ \/ mappings[i].ip = mappings[j].ip
              \/ {mappings[i].ip, mappings[j].ip} \cap Wildcards # {} )

\* No two enabled mappings fight for a socket, whatever was created, updated,
\* imported or restored (the conflict check of ValidateMapping), until a create
\* with the id of a row, a row that a restore could not delete or a failed list
\* has let a conflict past the check.
ConflictFree == slips = {} => SocketsApart

\* The table t holds the mapping b so often.
Times(b, t) == Cardinality({i \in Ids : t[i] = b})

\* Two tables hold the same mappings, each as often, whatever the ids.
SameMappings(t, u) == \A b \in Bodies : Times(b, t) = Times(b, u)

\* A restore that reports success leaves every mapping of the version, each as
\* often as the version holds it, and nothing else unless a list or a delete
\* failed; its relays are the version's but for those whose list, delete or
\* insert failed.
RestoreExact ==
    \A h \in Handlers : job[h].pc = "restored" =>
        LET want == job[h].want IN
        /\ \A b \in Bodies : Times(b, mappings) >= Times(b, want.mappings)
        /\ "mapping kept" \in job[h].lost \/ SameMappings(mappings, want.mappings)
        /\ "relay kept" \in job[h].lost \/ relays \subseteq want.relays
        /\ "relay missing" \in job[h].lost \/ want.relays \subseteq relays

\* While a restore replaces the tables, and when it has, a stored version
\* holds the configuration it replaced (the safety snapshot).
RestoreUndoable ==
    \A h \in Handlers :
        job[h].pc \in {"delete", "add", "relayDelete", "relayAdd", "restored"} =>
            \E v \in Numbers : versions[v] = job[h].before

\* config_versions holds the retained versions and one more for each handler
\* that has inserted and not yet pruned.
RetentionBound ==
    Cardinality(Stored)
        <= Keep + Cardinality({h \in Handlers : job[h].pc = "prune"})

\* Retention never deletes one of the Keep most recent versions.
NewestKept ==
    [][\A v \in Numbers : (versions[v] # None /\ versions'[v] = None) =>
          Cardinality({u \in Numbers : u > v /\ versions'[u] # None}) >= Keep]_vars

(***************************************************************************)
(* The inductive invariant behind RetentionBound and NewestKept, for any   *)
(* number of handlers.                                                     *)
(***************************************************************************)

\* The Keep newest numbers are stored, and a number that was read for an insert
\* is at most one above the newest.
VersionsInv ==
    /\ \A v \in Numbers : v <= Latest /\ v + Keep > Latest => versions[v] # None
    /\ \A h \in Handlers : job[h].pc = "insert" => job[h].ver <= Latest + 1

StoreInv == TypeOK /\ VersionsInv /\ RetentionBound

(***************************************************************************)
(* The inductive invariants behind ConflictFree, RestoreExact and          *)
(* RestoreUndoable, which hold when requests come one at a time.           *)
(***************************************************************************)

OneAtATime == \A g, h \in Handlers : g = h

NoClash(t) == \A i \in Rows(t) : \A j \in Rows(t) \ {i} : ~Conflict(t[i], t[j])

\* Each row of t in T holds the mapping of a row of its own, in u, out of S.
Copied(t, T, u, S) ==
    \E f \in Bijection(T, S) : \A i \in T : t[i] = u[f[i]]

\* What a restore that has copied the rows S of its version knows: the rows of the
\* table are copies, but for those it could not delete.
Restored(j, S) ==
    \E T \in SUBSET Rows(mappings) :
        /\ Copied(mappings, T, j.want.mappings, S)
        /\ "mapping kept" \in j.lost \/ T = Rows(mappings)

\* What a handler knows of the tables that nobody else changes.
KnowsTables(j) ==
    /\ j.pc \in {"list", "store"} => j.op \in {"create", "update"} /\ j.body \in Bodies
    /\ j.pc = "store" =>
         IF j.op = "create" THEN slips = {} => ValidateMapping(j.body, None, mappings)
                            ELSE ValidateMapping(j.body, j.id, mappings)
    /\ j.pc = "import" => (slips = {} => j.all = mappings)
    /\ j.pc = "delete" => "mapping kept" \in j.lost \/ j.rows = Rows(mappings)
    /\ j.pc = "add" =>
         /\ j.rows \subseteq Rows(j.want.mappings)
         /\ Restored(j, Rows(j.want.mappings) \ j.rows)
    /\ j.pc \in {"relayDelete", "relayAdd", "restored"} =>
         Restored(j, Rows(j.want.mappings))
    /\ j.pc = "relayDelete" => "relay kept" \in j.lost \/ relays \subseteq j.names
    /\ j.pc \in {"relayAdd", "restored"} =>
         "relay kept" \in j.lost \/ relays \subseteq j.want.relays
    /\ j.pc = "relayAdd" => j.names \subseteq j.want.relays
    /\ j.pc = "relayAdd" =>
         "relay missing" \in j.lost \/ j.want.relays \subseteq relays \cup j.names
    /\ j.pc = "restored" => "relay missing" \in j.lost \/ j.want.relays \subseteq relays

\* Nothing the tables, the versions or a restore hold conflicts.
Clean ==
    /\ NoClash(mappings)
    /\ \A v \in Numbers : versions[v] # None => NoClash(versions[v].mappings)
    /\ \A h \in Handlers : /\ NoClash(job[h].want.mappings)
                           /\ NoClash(job[h].snap.mappings)
                           /\ "mapping kept" \notin job[h].lost

AloneInv ==
    /\ slips = {} => Clean
    /\ \A h \in Handlers : KnowsTables(job[h])

\* Where the safety snapshot of a restore is.
KnowsSnapshot(j) ==
    /\ j.pc \in {"listMappings", "listRelays", "max"} => Latest < MaxVersion
    /\ j.pc \in {"listRelays", "max", "insert", "prune", "current"} =>
         j.snap.mappings = mappings
    /\ j.pc \in {"max", "insert", "prune", "current"} => j.snap.relays = relays
    /\ j.pc = "insert" => j.ver = Latest + 1 /\ Latest < MaxVersion
    /\ j.pc \in {"prune", "current"} => Latest # 0 /\ versions[Latest] = j.snap
    /\ j.pc \in {"delete", "add", "relayDelete", "relayAdd", "restored"} =>
         \E v \in Numbers : versions[v] = j.before

UndoInv == \A h \in Handlers : KnowsSnapshot(job[h])

(***************************************************************************)
(* What the comments promise and the code does not keep; section 5 of the  *)
(* README gives the instance on which TLC refutes each of them.            *)
(***************************************************************************)

\* An https mapping that is stored names a certificate that is stored
\* (certExists on save, the use count of DeleteCert).
CertRefsExist ==
    \A i \in Rows(mappings) :
        mappings[i].cert # None => certs[mappings[i].cert] = "stored"

\* The mappings imported from the engines' own files start disabled, for review
\* (handleImportConfirm).
ScansStartDisabled ==
    [][\A h \in Handlers, i \in Ids :
          (job[h].op = "scan" /\ job'[h] # job[h]
             /\ mappings[i] = None /\ mappings'[i] # None) =>
              ~mappings'[i].enabled]_vars

\* A restore that reports success has replaced the mappings and the relays
\* (handleRestoreVersion).
RestoreReplaces ==
    \A h \in Handlers : job[h].pc = "restored" =>
        /\ relays = job[h].want.relays
        /\ SameMappings(mappings, job[h].want.mappings)

\* A restore replaces the mappings in one go: an apply that starts during one
\* does not miss a mapping that the replaced and the restored configuration
\* both have.
ApplySeesWhole ==
    [][\A h, g \in Handlers : \A i, j \in Ids :
          (/\ job[h].op # "apply" /\ job'[h].op = "apply"
           /\ job[g].pc \in {"delete", "add"}
           /\ job[g].before.mappings[i] = job[g].want.mappings[j]
           /\ job[g].before.mappings[i] # None) =>
              \E n \in Ids : mappings[n] = job[g].want.mappings[j]]_vars

=============================================================================
