---------------------------- MODULE ApplyPipeline ----------------------------
(***************************************************************************)
(* The configuration deployment pipeline: Service.ApplyAll and the backup  *)
(* manager (internal/service/service.go, internal/service/backups.go).     *)
(*                                                                         *)
(* An apply takes applyMu, renders the mappings, validates every engine's  *)
(* files with the engine's own binary, backs the live files up into a      *)
(* directory named after the current second, replaces the live files one   *)
(* by one, reloads the engines and, when a write or a reload fails, puts   *)
(* the backed-up files back.  Backups.Restore does the same with the files *)
(* of an older backup, but does not take applyMu.                          *)
(*                                                                         *)
(* Data abstraction: a configuration (the mappings and certificates in the *)
(* database) is a value of Configs, and the content of a live file is the  *)
(* configuration it was rendered from.  What an engine's config test says  *)
(* about a set of files is the constant operator Accepts.                  *)
(***************************************************************************)
EXTENDS Naturals, FiniteSets

CONSTANTS
    Engines,        \* nginx, haproxy
    Files,          \* the live files the engines own (ActiveFiles)
    EngineOf,       \* the engine that owns a live file (StagedRel, classify)
    Unchecked,      \* files Validate skips: the decoy page
    Configs,        \* contents the configuration database can have
    Renders,        \* Renders[c]: the files Render produces for c
    Uses,           \* Uses[c]: the engines with an enabled mapping in c
    Accepts(_, _),  \* Accepts(e, fs): e's config test passes on the files fs
    None,           \* no such file
    Torn,           \* a file cut short by a crash during a plain write
    Appliers,       \* concurrent ApplyAll calls
    Restorers,      \* concurrent Backups.Restore calls
    Free,           \* nobody holds applyMu / no version row to stamp
    Down,           \* the engine is not running
    MaxClock,       \* bound on the clock, in seconds
    Keep,           \* backup directories pruneBackups keeps (20 in the code)
    AutoApply,      \* the auto_apply setting
    Faults          \* which external operations may fail

VARIABLES
    db,             \* the configuration stored in the database
    silent,         \* history: the handler that stored it applies nothing
    live,           \* content of each live file
    running,        \* the files each engine loaded at its last reload
    certDisk,       \* the configuration whose certificate files are on disk
    backups,        \* backups[t]: the files in the directory of second t
    clock,          \* the current second
    applyMu,        \* the apply that holds Service.applyMu
    recorded,       \* Service.recordVersionResult: whose version row to stamp
    results,        \* deploy_result of the last version row of each apply
    job,            \* the local variables of each handler
    incidents       \* history: the disturbances that have happened

host == <<live, running, certDisk, backups>>
rest == <<db, silent, clock, results, recorded, incidents>>
vars == <<host, rest, applyMu, job>>

Procs   == Appliers \cup Restorers
Content == Configs \cup {None, Torn}
FileSet == [Files -> Content]
Stamps  == 1..MaxClock
NoFiles == [f \in Files |-> None]

ASSUME EngineOfAssumption == EngineOf \in [Files -> Engines]
ASSUME ConfigAssumption ==
    /\ Renders \in [Configs -> SUBSET Files]
    /\ Uses \in [Configs -> SUBSET Engines]
    \* the main files of an engine are rendered whatever the mappings are
    /\ \A c \in Configs : Files \ Unchecked \subseteq Renders[c]
ASSUME DistinctAssumption ==
    /\ None \notin Configs /\ Torn \notin Configs /\ None # Torn
    /\ Down \notin FileSet
    /\ Appliers \cap Restorers = {} /\ Free \notin Procs
ASSUME BoundAssumption ==
    MaxClock \in Nat \ {0} /\ Keep \in Nat \ {0} /\ AutoApply \in BOOLEAN

Labels == {"idle", "queued", "listed", "stage", "certs", "backup", "write",
           "undoWrite", "undoReload"}

\* The locals of ApplyAll and Restore.
Job == [pc      : Labels,
        snap    : Configs \cup {None},  \* ListMappings, loadCerts
        row     : Configs \cup {None},  \* the mappings in the version row
        staged  : FileSet,              \* files to install
        stamp   : Stamps,               \* names the backup directory
        todo    : SUBSET Files,         \* files still to back up or write
        applied : SUBSET Files,         \* files written so far
        wasNew  : SUBSET Files,         \* files to delete on rollback
        engs    : SUBSET Engines,       \* engines still to reload
        before  : FileSet]              \* history: live when writing began

Idle == [pc |-> "idle", snap |-> None, row |-> None, staged |-> NoFiles,
         stamp |-> 1, todo |-> {}, applied |-> {}, wasNew |-> {},
         engs |-> {}, before |-> NoFiles]

(***************************************************************************)
(* The files of fs that e's config test looks at (Validate writes them to  *)
(* a temporary directory; the nginx one skips decoy/index.html).           *)
(***************************************************************************)
View(e, fs) ==
    [f \in Files |-> IF EngineOf[f] = e /\ f \notin Unchecked THEN fs[f]
                                                              ELSE None]

Validates(e, fs) == Accepts(e, View(e, fs))

\* Render for the engines in es: every file carries the configuration.
Rendered(c, es) ==
    [f \in Files |-> IF f \in Renders[c] /\ EngineOf[f] \in es THEN c
                                                               ELSE None]

Present(fs) == {f \in Files : fs[f] # None}

EnginesOf(fs) == {EngineOf[f] : f \in Present(fs)}

May(fault) == fault \in Faults

\* A handler between its backup and its return: it owns the live files.
Owning == {"backup", "write", "undoWrite", "undoReload"}
InFlight(p) == job[p].pc \in Owning
AtRest == \A p \in Procs : ~InFlight(p)

Init ==
    /\ db \in Configs
    /\ silent = FALSE
    /\ certDisk \in Configs \cup {None}
    /\ live = IF certDisk = None THEN NoFiles ELSE Rendered(certDisk, Engines)
    /\ \A e \in Engines : Validates(e, live)
    /\ running = [e \in Engines |-> View(e, live)]
    /\ backups = [t \in Stamps |-> NoFiles]
    /\ clock = 1
    /\ applyMu = Free
    /\ recorded = Free
    /\ results = [p \in Appliers |-> "none"]
    /\ job = [p \in Procs |-> Idle]
    /\ incidents = {}

(***************************************************************************)
(* Steps that several handlers share.                                      *)
(***************************************************************************)

\* setVersionResult: stamp the row of the apply in flight, then forget it.
setVersionResult(result) ==
    /\ results' = IF recorded = Free THEN results
                                     ELSE [results EXCEPT ![recorded] = result]
    /\ recorded' = Free

\* The handler returns: its locals die and a deferred Unlock runs.
Return(p) ==
    /\ job' = [job EXCEPT ![p] = Idle]
    /\ applyMu' = IF p \in Appliers THEN Free ELSE applyMu

\* Return with an outcome: only an apply has a version row to stamp.
ReturnWith(p, result) ==
    /\ Return(p)
    /\ IF p \in Appliers THEN setVersionResult(result)
                         ELSE UNCHANGED <<results, recorded>>

\* Mutant: the first copy made within a second wins.
SafetyCopyFirst(old, current) == IF old = None THEN current ELSE old

\* backupFiles: a file that does not exist leaves the directory as it is.
SafetyCopy(old, current) == IF current = None THEN old ELSE current

\* Mutant: the rollback forgets to delete the files that are new.
UndoneKeepNew(isNew, saved, current) == IF saved = None THEN current ELSE saved

\* restore(): delete what is new, copy the rest back from the backup; a file
\* the backup does not hold is left alone (the copy fails and is audited).
Undone(isNew, saved, current) ==
    IF isNew THEN None ELSE IF saved = None THEN current ELSE saved

\* pruneBackups: only the most recent Keep directories survive.
Pruned(bs) ==
    [t \in Stamps |->
        IF Cardinality({u \in Stamps : u > t /\ bs[u] # NoFiles}) < Keep
        THEN bs[t] ELSE NoFiles]

(***************************************************************************)
(* The environment: edits, time, crashes, deleted backups.                 *)
(***************************************************************************)

\* The handlers that create, update or delete a mapping, and the restore of a
\* version; with auto_apply set they also spawn an apply (maybeAutoApply).
EditConfig(c) ==
    /\ c # db
    /\ db' = c
    /\ silent' = FALSE
    /\ IF AutoApply
       THEN \E p \in Appliers : /\ job[p].pc = "idle"
                                /\ job' = [job EXCEPT ![p].pc = "queued"]
       ELSE UNCHANGED job
    /\ UNCHANGED <<host, clock, results, recorded, incidents, applyMu>>

\* The handlers that store and leave it at that: both imports, the node API,
\* certificates, a restore that ends midway.
ImportConfig(c) ==
    /\ c # db
    /\ db' = c
    /\ silent' = AutoApply
    /\ UNCHANGED <<host, clock, results, recorded, incidents, applyMu, job>>

\* handleApply, or the master's call of the node API.
CallApply(p) ==
    /\ job[p].pc = "idle"
    /\ job' = [job EXCEPT ![p].pc = "queued"]
    /\ UNCHANGED <<host, rest, applyMu>>

Tick ==
    /\ clock < MaxClock
    /\ clock' = clock + 1
    /\ UNCHANGED <<host, db, silent, results, recorded, incidents, applyMu, job>>

\* The panel process dies and is started again: files and engines stay as
\* they are, and nothing at start-up looks at them.  A copy of the rollback
\* (os.WriteFile, not a rename) may have been cut short.
Crash ==
    /\ May("crash")
    /\ \E p \in Procs : job[p].pc # "idle"
    /\ \/ UNCHANGED live
       \/ \E p \in Procs : \E f \in job[p].applied \ job[p].wasNew :
            /\ job[p].pc \in {"undoWrite", "undoReload"}
            /\ live' = [live EXCEPT ![f] = Torn]
    /\ incidents' = incidents \cup (IF AtRest THEN {} ELSE {"crash"})
    /\ job' = [p \in Procs |-> Idle]
    /\ applyMu' = Free
    /\ recorded' = Free
    /\ UNCHANGED <<running, certDisk, backups, db, silent, clock, results>>

\* Backups.Delete of one directory, whoever may be using it.
DeleteBackup(t) ==
    /\ May("delete")
    /\ backups[t] # NoFiles
    /\ backups' = [backups EXCEPT ![t] = NoFiles]
    /\ incidents' = incidents \cup
         (IF \E p \in Procs : InFlight(p) /\ job[p].stamp = t THEN {"delete"}
                                                             ELSE {})
    /\ UNCHANGED <<live, running, certDisk, db, silent, clock, results, recorded,
                   applyMu, job>>

(***************************************************************************)
(* ApplyAll up to the backup.                                              *)
(***************************************************************************)

\* Mutant: an apply that finds another one at work gives up (TryLock).
TryLockAndList(p) ==
    /\ job[p].pc = "queued"
    /\ IF applyMu = Free
       THEN /\ applyMu' = p
            /\ job' = [job EXCEPT ![p].pc = "listed", ![p].snap = db]
       ELSE /\ job' = [job EXCEPT ![p] = Idle]
            /\ UNCHANGED applyMu
    /\ UNCHANGED <<host, rest>>

\* applyMu.Lock, then ListMappings and loadCerts.
LockAndList(p) ==
    /\ job[p].pc = "queued"
    /\ applyMu = Free
    /\ applyMu' = p
    /\ job' = [job EXCEPT ![p].pc = "listed", ![p].snap = db]
    /\ UNCHANGED <<host, rest>>

\* A query fails: ApplyAll returns before it has recorded anything.
ListFail(p) ==
    /\ job[p].pc = "queued"
    /\ applyMu = Free
    /\ May("list")
    /\ Return(p)
    /\ UNCHANGED <<host, rest>>

\* CreateConfigVersion reads the tables again; its error is dropped and
\* leaves version 0, which setVersionResult ignores.
RecordVersion(p) ==
    /\ job[p].pc = "listed"
    /\ \/ /\ recorded' = p
          /\ job' = [job EXCEPT ![p].pc = "stage", ![p].row = db]
          /\ results' = [results EXCEPT ![p] = ""]
       \/ /\ May("version")
          /\ recorded' = Free
          /\ job' = [job EXCEPT ![p].pc = "stage"]
          /\ results' = [results EXCEPT ![p] = "none"]
    /\ UNCHANGED <<host, db, silent, clock, incidents, applyMu>>

\* The engines whose binary is not installed at this moment.
Missing == IF May("missing") THEN SUBSET Engines ELSE {{}}

\* An engine with enabled mappings is not installed: error, no stamp.
StageMissing(p) ==
    /\ job[p].pc = "stage"
    /\ \E missing \in Missing : missing \cap Uses[job[p].snap] # {}
    /\ Return(p)
    /\ UNCHANGED <<host, rest>>

\* Render or Validate fails for an installed engine.
StageReject(p) ==
    /\ job[p].pc = "stage"
    /\ \E missing \in Missing : \E e \in Engines \ missing :
         ~Validates(e, Rendered(job[p].snap, {e}))
    /\ ReturnWith(p, "error")
    /\ UNCHANGED <<host, db, silent, clock, incidents>>

\* Every installed engine accepts what was rendered for it.
StageAll(p) ==
    /\ job[p].pc = "stage"
    /\ \E missing \in Missing :
         /\ missing \cap Uses[job[p].snap] = {}
         /\ \A e \in Engines \ missing :
              Validates(e, Rendered(job[p].snap, {e}))
         /\ job' = [job EXCEPT
              ![p].pc = "certs",
              ![p].staged = Rendered(job[p].snap, Engines \ missing)]
    /\ UNCHANGED <<host, rest, applyMu>>

\* Mutant: the directory is named after the next second.
OwnNextSecond(p, fs) ==
    /\ job' = [job EXCEPT ![p].pc = "backup", ![p].staged = fs,
                          ![p].todo = Present(fs), ![p].stamp = clock + 1]
    /\ UNCHANGED incidents

\* Begin to own the live files, in the backup directory of this second.
\* Another handler may own them already: Restore does not take applyMu.
Own(p, fs) ==
    /\ job' = [job EXCEPT ![p].pc = "backup", ![p].staged = fs,
                          ![p].todo = Present(fs), ![p].stamp = clock]
    /\ incidents' = incidents \cup
         (IF \E q \in Procs \ {p} : InFlight(q) THEN {"overlap"} ELSE {})

writeCertFiles(p) ==
    /\ job[p].pc = "certs"
    /\ certDisk' = job[p].snap
    /\ Own(p, job[p].staged)
    /\ UNCHANGED <<live, running, backups, db, silent, clock, results, recorded,
                   applyMu>>

\* The certificate files are plain writes: a failure leaves some of them.
writeCertFail(p) ==
    /\ job[p].pc = "certs"
    /\ May("cert")
    /\ certDisk' = Torn
    /\ ReturnWith(p, "error")
    /\ UNCHANGED <<live, running, backups, db, silent, clock, incidents>>

\* Backups.Restore: read one directory, validate its files engine by engine.
\* A rejected or empty directory changes nothing.
ReadBackup(p, t) ==
    /\ job[p].pc = "idle"
    /\ backups[t] # NoFiles
    /\ \A e \in EnginesOf(backups[t]) : Validates(e, backups[t])
    /\ Own(p, backups[t])
    /\ UNCHANGED <<host, db, silent, clock, results, recorded, applyMu>>

(***************************************************************************)
(* Backup, write, reload: ApplyAll steps 3 to 6, Restore steps 2 to 4.     *)
(***************************************************************************)

backupFile(p, f) ==
    /\ job[p].pc = "backup"
    /\ f \in job[p].todo
    /\ backups' = [backups EXCEPT
                     ![job[p].stamp][f] = SafetyCopy(@, live[f])]
    /\ job' = [job EXCEPT ![p].todo = @ \ {f}]
    /\ UNCHANGED <<live, running, certDisk, rest, applyMu>>

\* A copy fails (os.WriteFile may have begun it) and the handler gives up.
backupFail(p) ==
    /\ job[p].pc = "backup"
    /\ job[p].todo # {}
    /\ May("backup")
    /\ \/ UNCHANGED backups
       \/ \E f \in job[p].todo :
            /\ live[f] # None
            /\ backups' = [backups EXCEPT ![job[p].stamp][f] = Torn]
    /\ incidents' = incidents \cup {"backup"}
    /\ ReturnWith(p, "error")
    /\ UNCHANGED <<live, running, certDisk, db, silent, clock>>

\* Mutant: no file counts as new.
NewFilesNone(p) == {}

\* The files to delete on rollback.  Only ApplyAll looks which files are
\* new; the rollback of Restore copies whatever its safety backup holds.
NewFiles(p) ==
    {f \in Present(job[p].staged) : p \in Appliers /\ live[f] = None}

\* Mutant: go on before every file is backed up.
BackedUpEarly(p) == job[p].pc = "backup"

BackedUp(p) == job[p].pc = "backup" /\ job[p].todo = {}

StatLive(p) ==
    /\ BackedUp(p)
    /\ job' = [job EXCEPT ![p].pc = "write",
                          ![p].wasNew = NewFiles(p),
                          ![p].todo = Present(job[p].staged),
                          ![p].engs = EnginesOf(job[p].staged),
                          ![p].before = live]
    /\ UNCHANGED <<host, rest, applyMu>>

\* atomicWrite: a temporary file and a rename.
atomicWrite(p, f) ==
    /\ job[p].pc = "write"
    /\ f \in job[p].todo
    /\ live' = [live EXCEPT ![f] = job[p].staged[f]]
    /\ job' = [job EXCEPT ![p].todo = @ \ {f}, ![p].applied = @ \cup {f}]
    /\ UNCHANGED <<running, certDisk, backups, rest, applyMu>>

\* Mutant: a failed write returns without restore().
writeFailKeep(p) ==
    /\ job[p].pc = "write"
    /\ job[p].todo # {}
    /\ May("write")
    /\ Return(p)
    /\ UNCHANGED <<host, rest>>

writeFail(p) ==
    /\ job[p].pc = "write"
    /\ job[p].todo # {}
    /\ May("write")
    /\ job' = [job EXCEPT ![p].pc = "undoWrite"]
    /\ UNCHANGED <<host, rest, applyMu>>

\* Engine.Reload: systemctl reload, else restart.  It can only succeed on
\* files the engine accepts; when it fails the restart has stopped the engine.
Reloaded(e, now) ==
    IF now = Down THEN May("reload") \/ ~Validates(e, live)
                  ELSE Validates(e, live) /\ now = View(e, live)

Written(p) == job[p].pc = "write" /\ job[p].todo = {}

Reload(p, e) ==
    /\ Written(p)
    /\ e \in job[p].engs
    /\ Reloaded(e, View(e, live))
    /\ running' = [running EXCEPT ![e] = View(e, live)]
    /\ job' = [job EXCEPT ![p].engs = @ \ {e}]
    /\ UNCHANGED <<live, certDisk, backups, rest, applyMu>>

reloadFail(p, e) ==
    /\ Written(p)
    /\ e \in job[p].engs
    /\ Reloaded(e, Down)
    /\ running' = [running EXCEPT ![e] = Down]
    /\ job' = [job EXCEPT ![p].pc = "undoReload", ![p].engs = Engines]
    /\ UNCHANGED <<live, certDisk, backups, rest, applyMu>>

\* Success: an apply prunes old backups and stamps "ok".
Finish(p) ==
    /\ Written(p)
    /\ job[p].engs = {}
    /\ backups' = IF p \in Appliers THEN Pruned(backups) ELSE backups
    /\ ReturnWith(p, "ok")
    /\ UNCHANGED <<live, running, certDisk, db, silent, clock, incidents>>

(***************************************************************************)
(* Rollback.                                                               *)
(***************************************************************************)

Undoing(p) == job[p].pc \in {"undoWrite", "undoReload"}

undoFile(p, f) ==
    /\ Undoing(p)
    /\ f \in job[p].applied
    /\ live' = [live EXCEPT
         ![f] = Undone(f \in job[p].wasNew, backups[job[p].stamp][f], @)]
    /\ job' = [job EXCEPT ![p].applied = @ \ {f}]
    /\ UNCHANGED <<running, certDisk, backups, rest, applyMu>>

\* copyFile fails: the error is audited and the rollback goes on.
undoFail(p, f) ==
    /\ Undoing(p)
    /\ f \in job[p].applied
    /\ May("copy")
    /\ \/ UNCHANGED live
       \/ f \notin job[p].wasNew /\ live' = [live EXCEPT ![f] = Torn]
    /\ job' = [job EXCEPT ![p].applied = @ \ {f}]
    /\ incidents' = incidents \cup {"copy"}
    /\ UNCHANGED <<running, certDisk, backups, db, silent, clock, results, recorded,
                   applyMu>>

\* After a failed write nothing was reloaded: return, without a stamp.
UndoneWrite(p) ==
    /\ job[p].pc = "undoWrite"
    /\ job[p].applied = {}
    /\ Return(p)
    /\ UNCHANGED <<host, rest>>

\* After a failed reload every engine is reloaded; failures are only audited.
ReloadAgain(p, e) ==
    /\ job[p].pc = "undoReload"
    /\ job[p].applied = {}
    /\ e \in job[p].engs
    /\ \E now \in {View(e, live), Down} :
         /\ Reloaded(e, now)
         /\ running' = [running EXCEPT ![e] = now]
         /\ incidents' = incidents \cup (IF now = Down THEN {"reload"} ELSE {})
    /\ job' = [job EXCEPT ![p].engs = @ \ {e}]
    /\ UNCHANGED <<live, certDisk, backups, db, silent, clock, results, recorded,
                   applyMu>>

\* Mutant: return before every engine has been reloaded again.
ReloadedAllEarly(p) == TRUE

ReloadedAll(p) == job[p].engs = {}

RolledBack(p) ==
    /\ job[p].pc = "undoReload"
    /\ job[p].applied = {}
    /\ ReloadedAll(p)
    /\ ReturnWith(p, "rolled back")
    /\ UNCHANGED <<host, db, silent, clock, incidents>>

(***************************************************************************)
(* The specification.                                                      *)
(***************************************************************************)

ApplyStart(p) ==
    \/ LockAndList(p) \/ ListFail(p)
    \/ RecordVersion(p)
    \/ StageMissing(p) \/ StageReject(p) \/ StageAll(p)
    \/ writeCertFiles(p) \/ writeCertFail(p)

Install(p) ==
    \/ \E f \in Files : backupFile(p, f) \/ atomicWrite(p, f)
    \/ backupFail(p) \/ StatLive(p) \/ writeFail(p)
    \/ \E e \in Engines : Reload(p, e) \/ reloadFail(p, e)
    \/ Finish(p)

Rollback(p) ==
    \/ \E f \in Files : undoFile(p, f) \/ undoFail(p, f)
    \/ UndoneWrite(p)
    \/ \E e \in Engines : ReloadAgain(p, e)
    \/ RolledBack(p)

Next ==
    \/ \E c \in Configs : EditConfig(c) \/ ImportConfig(c)
    \/ Tick
    \/ Crash
    \/ \E t \in Stamps : DeleteBackup(t)
    \/ \E p \in Appliers : CallApply(p) \/ ApplyStart(p)
    \/ \E p \in Restorers, t \in Stamps : ReadBackup(p, t)
    \/ \E p \in Procs : Install(p) \/ Rollback(p)

Spec == Init /\ [][Next]_vars

(***************************************************************************)
(* Go runs every handler that can run, and sync.Mutex's starvation mode    *)
(* hands the lock to every waiter in the end.                              *)
(***************************************************************************)
Fairness ==
    /\ \A p \in Appliers : SF_vars(LockAndList(p))
    /\ \A p \in Appliers : WF_vars(ApplyStart(p))
    /\ \A p \in Procs : WF_vars(Install(p) \/ Rollback(p))

FairSpec == Spec /\ Fairness

(***************************************************************************)
(* Properties.                                                             *)
(***************************************************************************)

\* Every variable has its type.
TypeOK ==
    /\ db \in Configs
    /\ silent \in BOOLEAN
    /\ live \in FileSet
    /\ running \in [Engines -> FileSet \cup {Down}]
    /\ certDisk \in Content
    /\ backups \in [Stamps -> FileSet]
    /\ clock \in Stamps
    /\ applyMu \in Appliers \cup {Free}
    /\ recorded \in Appliers \cup {Free}
    /\ results \in [Appliers -> {"none", "", "error", "rolled back", "ok"}]
    /\ job \in [Procs -> Job]
    /\ incidents \subseteq {"overlap", "crash", "delete", "backup", "copy",
                            "reload"}

Calm == incidents \cap {"overlap", "crash", "delete", "copy"} = {}

\* "Invalid configs never reach the live services": whatever fails inside an
\* apply or a restore, once the handler has returned every engine's files on
\* disk pass that engine's config test.
RestDiskAccepted ==
    AtRest /\ Calm => \A e \in Engines : Validates(e, live)

\* "Automatic rollback on failure": when the rollback of an apply or of a
\* restore has gone through its files, the disk is what it was before.
RollbackExact ==
    \A p \in Procs :
        Undoing(p) /\ job[p].applied = {} /\ Calm => live = job[p].before

\* Once no handler is at work every engine runs exactly what is on its disk,
\* unless a reload failed again after a rollback.
RestRunsDisk ==
    AtRest /\ Calm /\ "reload" \notin incidents
        => \A e \in Engines : running[e] = View(e, live)

\* "One-click validated restore": every backup directory holds, for each
\* engine it has files of, files that pass the engine's config test.
BackupsAccepted ==
    AtRest /\ Calm /\ "backup" \notin incidents
        => \A t \in Stamps : \A e \in EnginesOf(backups[t]) :
             Validates(e, backups[t])

\* auto_apply: when the configuration has changed to c by a handler that calls
\* maybeAutoApply, and stays c, the engines end up running c for good, whatever
\* was stored before and by whom.
AutoApplyConverges ==
    \A c \in Configs :
        <>(db # c) /\ <>[](db = c /\ ~silent)
            => <>[](\A e \in Engines : running[e] = View(e, Rendered(c, {e})))

(***************************************************************************)
(* The inductive invariant behind RestDiskAccepted, RollbackExact and      *)
(* RestRunsDisk (proved in ApplyProofs).                                   *)
(***************************************************************************)

Changing == {"write", "undoWrite", "undoReload"}

\* applyMu is held exactly by the apply that is past Lock.
MutexInv ==
    \A p \in Appliers :
        (job[p].pc \notin {"idle", "queued"}) <=> (applyMu = p)

\* Without an overlap one handler owns the live files, and only a handler
\* that writes has written something.
OwnerInv ==
    /\ \A p, q \in Procs : Calm /\ InFlight(p) /\ InFlight(q) => p = q
    /\ \A p \in Procs : job[p].pc \notin Changing => job[p].applied = {}

\* While nobody writes: the disk is accepted and running, and every file in
\* a backup also exists on disk, so Restore never creates a file.
Steady ==
    /\ \A e \in Engines : Validates(e, live)
    /\ "reload" \notin incidents =>
         \A e \in Engines : running[e] = View(e, live)
    /\ \A t \in Stamps, f \in Files : backups[t][f] # None => live[f] # None

SteadyInv ==
    Calm /\ (\A p \in Procs : job[p].pc \notin Changing) => Steady

\* A handler that is backing up has copied every existing file it is done
\* with, and a restore finds a file in place of every one it will write.
Copied(p) ==
    /\ \A f \in Present(job[p].staged) \ job[p].todo :
         live[f] # None => backups[job[p].stamp][f] = live[f]
    /\ p \notin Appliers => \A f \in Present(job[p].staged) : live[f] # None

BackupInv == \A p \in Procs : Calm /\ job[p].pc = "backup" => Copied(p)

\* A handler that writes or undoes can still restore what it found.
Undoable(p) ==
    /\ \A e \in Engines : Validates(e, job[p].before)
    /\ job[p].applied \subseteq Present(job[p].staged)
    /\ \A f \in Files :
         live[f] = IF f \in job[p].applied THEN job[p].staged[f]
                                           ELSE job[p].before[f]
    /\ \A f \in Present(job[p].staged) :
         IF f \in job[p].wasNew
         THEN job[p].before[f] = None
         ELSE /\ job[p].before[f] # None
              /\ backups[job[p].stamp][f] = job[p].before[f]
    /\ \A t \in Stamps, f \in Files :
         backups[t][f] # None => job[p].before[f] # None

UndoInv == \A p \in Procs : Calm /\ job[p].pc \in Changing => Undoable(p)

\* What the engines run while a handler writes: the engines it has reloaded
\* run the new files, the others what they ran before.
RunsWriting(p) ==
    /\ job[p].todo = Present(job[p].staged) \ job[p].applied
    /\ job[p].engs \subseteq EnginesOf(job[p].staged)
    /\ job[p].todo # {} => job[p].engs = EnginesOf(job[p].staged)
    /\ \A e \in EnginesOf(job[p].staged) \ job[p].engs :
         Validates(e, live) /\ running[e] = View(e, live)
    /\ "reload" \notin incidents =>
         \A e \in Engines :
           e \in job[p].engs \/ e \notin EnginesOf(job[p].staged)
             => running[e] = View(e, job[p].before)

\* After a failed write nothing has been reloaded.
RunsUndoWrite(p) ==
    "reload" \notin incidents =>
        \A e \in Engines : running[e] = View(e, job[p].before)

\* After a failed reload the engines reloaded again run what they ran before.
RunsUndoReload(p) ==
    /\ job[p].applied # {} => job[p].engs = Engines
    /\ "reload" \notin incidents =>
         \A e \in Engines \ job[p].engs : running[e] = View(e, job[p].before)

RunInv ==
    \A p \in Procs : Calm =>
        /\ job[p].pc = "write" => RunsWriting(p)
        /\ job[p].pc = "undoWrite" => RunsUndoWrite(p)
        /\ job[p].pc = "undoReload" => RunsUndoReload(p)

IInv == /\ TypeOK
        /\ MutexInv
        /\ OwnerInv
        /\ SteadyInv
        /\ BackupInv
        /\ UndoInv
        /\ RunInv

(***************************************************************************)
(* The inductive invariant behind BackupsAccepted: IInv and how complete   *)
(* sets of files are.                                                      *)
(***************************************************************************)

Sane == Calm /\ "backup" \notin incidents

\* An engine that has a file has all the files its test looks at.
Whole(fs) ==
    \A f \in Files \ Unchecked, g \in Files :
        EngineOf[f] = EngineOf[g] /\ fs[g] # None => fs[f] # None

\* A backup that can be restored on e, or has nothing of it.
Sound(e, fs) ==
    (\E g \in Files : EngineOf[g] = e /\ fs[g] # None) =>
        /\ Validates(e, fs)
        /\ \A f \in Files \ Unchecked : EngineOf[f] = e => fs[f] # None

\* What is to be installed, and what is to be backed up for it.
StagedWhole ==
    \A p \in Procs :
        /\ Sane /\ job[p].pc \in Owning \cup {"certs"} => Whole(job[p].staged)
        /\ job[p].pc = "backup" => job[p].todo \subseteq Present(job[p].staged)

LiveWhole ==
    /\ Sane /\ (\A p \in Procs : job[p].pc \notin Changing) => Whole(live)
    /\ \A p \in Procs : Sane /\ job[p].pc \in Changing => Whole(job[p].before)

\* p is making its backup of e in the directory of t.
Copying(p, t, e) ==
    job[p].pc = "backup" /\ job[p].stamp = t /\ e \in EnginesOf(job[p].staged)

DirsSound ==
    Sane => \A t \in Stamps, e \in Engines :
        Sound(e, backups[t]) \/ \E p \in Procs : Copying(p, t, e)

BackInv == IInv /\ StagedWhole /\ LiveWhole /\ DirsSound

(***************************************************************************)
(* What the documentation promises and the code does not keep: section 5   *)
(* of the README gives the instances on which TLC refutes it.              *)
(***************************************************************************)

\* "Auto-apply configuration after every mapping change" (Settings.tsx): the
\* same for every handler that stores mappings, the imports included.
AutoApplyAlways ==
    \A c \in Configs :
        <>(db # c) /\ <>[](db = c)
            => <>[](\A e \in Engines : running[e] = View(e, Rendered(c, {e})))

\* "Invalid configs never reach the live services" (README), with a restore
\* and an apply at the same time as the only disturbance.
OverlapDiskAccepted ==
    AtRest /\ incidents \subseteq {"overlap", "reload"}
        => \A e \in Engines : Validates(e, live)

\* "atomically applies" (ApplyAll), with a crash of the panel as the only
\* disturbance.
CrashDiskAccepted ==
    AtRest /\ incidents \subseteq {"crash"}
        => \A e \in Engines : Validates(e, live)

\* "every apply records an immutable snapshot (author, time, deploy result)"
\* (README): an apply that has returned has a result in its version row.
OutcomeRecorded == \A p \in Appliers : job[p].pc = "idle" => results[p] # ""

\* "Every apply records a config version snapshot" (ApplyAll): the row an
\* apply is about to stamp "ok" holds the configuration it deployed.
SnapshotIsDeployed ==
    \A p \in Appliers :
        Written(p) /\ job[p].engs = {} => job[p].row \in {None, job[p].snap}

\* "Every apply leaves a timestamped backup" (README): a backed-up file is
\* never replaced by the backup of another apply.
BackupsKept ==
    [][\A t \in Stamps, f \in Files :
         backups[t][f] # None => backups'[t][f] \in {backups[t][f], None}]_vars

\* "On reload failure the previous files are restored" (ApplyAll): at rest
\* the certificate files on disk belong to the live configuration.
RestCertsMatch ==
    AtRest /\ Calm => \A f \in Files \ Unchecked : certDisk = live[f]
=============================================================================
