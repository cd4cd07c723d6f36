----------------------------- MODULE ApplyProofs -----------------------------
(***************************************************************************)
(* Proofs about the deployment pipeline, for any engines, files, number of *)
(* handlers, clock bound and behaviour of the engines' config test.        *)
(***************************************************************************)
EXTENDS ApplyRefines, TLAPS

-----------------------------------------------------------------------------
(***************************************************************************)
(* Type correctness.                                                       *)
(***************************************************************************)

LEMMA ViewType ==
    ASSUME NEW e, NEW fs \in FileSet
    PROVE  View(e, fs) \in FileSet
BY DEF View, FileSet, Content

LEMMA RenderedType ==
    ASSUME NEW c \in Content, NEW es
    PROVE  Rendered(c, es) \in FileSet
BY DEF Rendered, FileSet, Content

LEMMA NoFilesType == NoFiles \in FileSet
BY DEF NoFiles, FileSet, Content

LEMMA IdleType == Idle \in Job
BY NoFilesType, BoundAssumption DEF Idle, Job, Labels, Stamps

\* The engines of a set of files are engines.
LEMMA EnginesOfType ==
    ASSUME NEW fs \in FileSet
    PROVE  EnginesOf(fs) \in SUBSET Engines
BY EngineOfAssumption DEF EnginesOf, Present, FileSet

LEMMA PresentType ==
    ASSUME NEW fs \in FileSet
    PROVE  Present(fs) \in SUBSET Files
BY DEF Present

\* What pruneBackups leaves is still a set of backup directories.
LEMMA PrunedType ==
    ASSUME NEW bs \in [Stamps -> FileSet]
    PROVE  Pruned(bs) \in [Stamps -> FileSet]
BY NoFilesType DEF Pruned

LEMMA UndoneType ==
    ASSUME NEW b \in BOOLEAN, NEW s \in Content, NEW c \in Content
    PROVE  Undone(b, s, c) \in Content
BY DEF Undone, Content

LEMMA TypeInit == Init => TypeOK
<1> SUFFICES ASSUME Init PROVE TypeOK
    OBVIOUS
<1>1. live \in FileSet
    BY NoFilesType, RenderedType DEF Init, Content
<1>2. running \in [Engines -> FileSet \cup {Down}]
    BY <1>1, ViewType DEF Init
<1>3. backups \in [Stamps -> FileSet]
    BY NoFilesType DEF Init
<1>4. job \in [Procs -> Job]
    BY IdleType DEF Init
<1>5. /\ clock \in Stamps
      /\ results \in [Appliers -> {"none", "", "error", "rolled back", "ok"}]
    BY BoundAssumption DEF Init, Stamps
<1>6. QED
    BY <1>1, <1>2, <1>3, <1>4, <1>5 DEF Init, TypeOK, Content

\* The shared steps preserve the types of what they assign.
LEMMA ReturnType ==
    ASSUME TypeOK, NEW p \in Procs, Return(p)
    PROVE  /\ job' \in [Procs -> Job]
           /\ applyMu' \in Appliers \cup {Free}
BY IdleType DEF Return, TypeOK

LEMMA ReturnWithType ==
    ASSUME TypeOK, NEW p \in Procs,
           NEW r \in {"error", "rolled back", "ok"}, ReturnWith(p, r)
    PROVE  /\ job' \in [Procs -> Job]
           /\ applyMu' \in Appliers \cup {Free}
           /\ recorded' \in Appliers \cup {Free}
           /\ results' \in [Appliers -> {"none", "", "error", "rolled back", "ok"}]
<1>1. Return(p)
    BY DEF ReturnWith
<1>2. /\ recorded' \in Appliers \cup {Free}
      /\ results' \in [Appliers -> {"none", "", "error", "rolled back", "ok"}]
    BY DistinctAssumption DEF ReturnWith, setVersionResult, TypeOK
<1>3. QED
    BY <1>1, <1>2, ReturnType

\* A handler's record keeps its type when fields of it are assigned.
LEMMA JobType ==
    ASSUME TypeOK, NEW p \in Procs, NEW r \in Job, job' = [job EXCEPT ![p] = r]
    PROVE  job' \in [Procs -> Job]
BY DEF TypeOK

LEMMA PcType ==
    ASSUME TypeOK, NEW p \in Procs, NEW l \in Labels,
           job' = [job EXCEPT ![p].pc = l]
    PROVE  job' \in [Procs -> Job]
<1> DEFINE r == [job[p] EXCEPT !.pc = l]
<1>1. job \in [Procs -> Job] /\ job[p] \in Job
    BY DEF TypeOK
<1>2. r \in Job
    BY <1>1 DEF Job
<1>3. job' = [job EXCEPT ![p] = r]
    BY <1>1
<1>4. QED
    BY <1>2, <1>3, JobType

LEMMA OwnType ==
    ASSUME TypeOK, NEW p \in Procs, NEW fs \in FileSet, Own(p, fs)
    PROVE  /\ job' \in [Procs -> Job]
           /\ incidents' \subseteq {"overlap", "crash", "delete", "backup",
                                    "copy", "reload"}
<1> DEFINE r == [job[p] EXCEPT !.pc = "backup", !.staged = fs,
                               !.todo = Present(fs), !.stamp = clock]
<1>1. job[p] \in Job /\ clock \in Stamps /\ Present(fs) \in SUBSET Files
    BY PresentType DEF TypeOK
<1>2. r \in Job
    BY <1>1 DEF Job, Labels
<1>3. job' = [job EXCEPT ![p] = r]
    BY <1>1 DEF Own
<1>4. job' \in [Procs -> Job]
    BY <1>2, <1>3, JobType
<1>5. QED
    BY <1>4 DEF Own, TypeOK

LEMMA TypeEnvironment ==
    ASSUME TypeOK,
           \/ \E c \in Configs : EditConfig(c) \/ ImportConfig(c)
           \/ Tick
           \/ Crash
           \/ \E t \in Stamps : DeleteBackup(t)
           \/ \E p \in Appliers : CallApply(p)
    PROVE  TypeOK'
<1>1. ASSUME NEW c \in Configs, EditConfig(c) \/ ImportConfig(c) PROVE TypeOK'
    <2>1. \/ job' = job
          \/ \E p \in Procs : job' = [job EXCEPT ![p].pc = "queued"]
        BY <1>1 DEF EditConfig, ImportConfig, Procs
    <2>4. job' \in [Procs -> Job]
        BY <2>1, PcType DEF TypeOK, Labels
    <2>2. /\ db' = c /\ silent' \in {FALSE, AutoApply}
          /\ UNCHANGED <<host, clock, results, recorded, incidents, applyMu>>
        BY <1>1 DEF EditConfig, ImportConfig
    <2>3. QED
        BY <2>2, <2>4, BoundAssumption DEF TypeOK, host
<1>2. ASSUME Tick PROVE TypeOK'
    <2>1. clock \in 1..MaxClock /\ MaxClock \in Nat
        BY BoundAssumption DEF TypeOK, Stamps
    <2>2. clock' \in Stamps
        BY <1>2, <2>1 DEF Tick, Stamps
    <2>3. QED
        BY <1>2, <2>2 DEF Tick, TypeOK, host
<1>3. ASSUME Crash PROVE TypeOK'
    <2>1. live' \in FileSet
        BY <1>3 DEF Crash, TypeOK, FileSet, Content
    <2>2. job' \in [Procs -> Job]
        BY <1>3, IdleType DEF Crash
    <2>3. QED
        BY <1>3, <2>1, <2>2 DEF Crash, TypeOK
<1>4. ASSUME NEW t \in Stamps, DeleteBackup(t) PROVE TypeOK'
    BY <1>4, NoFilesType DEF DeleteBackup, TypeOK
<1>5. ASSUME NEW p \in Appliers, CallApply(p) PROVE TypeOK'
    <2>1. job' \in [Procs -> Job]
        BY <1>5, PcType DEF CallApply, Labels, Procs
    <2>2. UNCHANGED <<host, rest, applyMu>>
        BY <1>5 DEF CallApply
    <2>3. QED
        BY <2>1, <2>2 DEF TypeOK, host, rest
<1>6. QED
    BY <1>1, <1>2, <1>3, <1>4, <1>5

LEMMA TypeApplyStart ==
    ASSUME TypeOK, NEW p \in Appliers, ApplyStart(p)
    PROVE  TypeOK'
<1> p \in Procs
    BY DEF Procs
<1>0. job[p] \in Job /\ db \in Configs
    BY DEF TypeOK
<1>a. job[p].snap \in Content /\ job[p].staged \in FileSet
    BY <1>0 DEF Job, Content
<1>1. CASE LockAndList(p)
    <2> DEFINE r == [job[p] EXCEPT !.pc = "listed", !.snap = db]
    <2>1. r \in Job
        BY <1>0 DEF Job, Labels
    <2>2. job' = [job EXCEPT ![p] = r]
        BY <1>0, <1>1 DEF LockAndList
    <2>3. QED
        BY <1>1, <2>1, <2>2, JobType DEF LockAndList, TypeOK, host, rest
<1>2. CASE RecordVersion(p)
    <2> DEFINE r == [job[p] EXCEPT !.pc = "stage", !.row = db]
               s == [job[p] EXCEPT !.pc = "stage"]
    <2>1. r \in Job /\ s \in Job
        BY <1>0 DEF Job, Labels
    <2>2. job' = [job EXCEPT ![p] = r] \/ job' = [job EXCEPT ![p] = s]
        BY <1>0, <1>2 DEF RecordVersion
    <2>3. job' \in [Procs -> Job]
        BY <2>1, <2>2, JobType
    <2>4. QED
        BY <1>2, <2>3 DEF RecordVersion, TypeOK, host
<1>b. CASE ListFail(p)
    BY <1>b, ReturnType DEF ListFail, TypeOK, host, rest
<1>3. CASE StageMissing(p)
    BY <1>3, ReturnType DEF StageMissing, TypeOK, host, rest
<1>4. CASE StageReject(p)
    BY <1>4, ReturnWithType DEF StageReject, TypeOK, host
<1>5. CASE StageAll(p)
    <2>1. PICK missing \in Missing :
            job' = [job EXCEPT
              ![p].pc = "certs",
              ![p].staged = Rendered(job[p].snap, Engines \ missing)]
        BY <1>5 DEF StageAll
    <2> DEFINE fs == Rendered(job[p].snap, Engines \ missing)
               r == [job[p] EXCEPT !.pc = "certs", !.staged = fs]
    <2>2. fs \in FileSet
        BY <1>a, RenderedType
    <2> HIDE DEF fs
    <2>3. r \in Job
        BY <1>0, <2>2 DEF Job, Labels
    <2>4. job' = [job EXCEPT ![p] = r]
        BY <1>0, <2>1 DEF fs
    <2>5. job' \in [Procs -> Job]
        BY <2>3, <2>4, JobType
    <2>6. UNCHANGED <<host, rest, applyMu>>
        BY <1>5 DEF StageAll
    <2>7. QED
        BY <2>5, <2>6 DEF TypeOK, host, rest
<1>6. CASE writeCertFiles(p)
    BY <1>a, <1>6, OwnType DEF writeCertFiles, TypeOK
<1>7. CASE writeCertFail(p)
    BY <1>7, ReturnWithType DEF writeCertFail, TypeOK, Content
<1>8. QED
    BY <1>1, <1>b, <1>2, <1>3, <1>4, <1>5, <1>6, <1>7 DEF ApplyStart

LEMMA TypeInstall ==
    ASSUME TypeOK, NEW p \in Procs, Install(p)
    PROVE  TypeOK'
<1>0. job[p] \in Job
    BY DEF TypeOK
<1>a. /\ job[p].todo \in SUBSET Files
      /\ job[p].applied \in SUBSET Files
      /\ job[p].engs \in SUBSET Engines
      /\ job[p].staged \in FileSet
      /\ job[p].stamp \in Stamps
    BY <1>0 DEF Job
<1>1. ASSUME NEW f \in Files, backupFile(p, f) PROVE TypeOK'
    <2> DEFINE r == [job[p] EXCEPT !.todo = @ \ {f}]
    <2>1. r \in Job
        BY <1>0, <1>a DEF Job
    <2>2. job' = [job EXCEPT ![p] = r]
        BY <1>0, <1>1 DEF backupFile
    <2>3. job' \in [Procs -> Job]
        BY <2>1, <2>2, JobType
    <2>4. backups' \in [Stamps -> FileSet]
        BY <1>1, <1>a DEF backupFile, TypeOK, SafetyCopy, FileSet
    <2>5. UNCHANGED <<live, running, certDisk, rest, applyMu>>
        BY <1>1 DEF backupFile
    <2>6. QED
        BY <2>3, <2>4, <2>5 DEF TypeOK, rest
<1>2. ASSUME NEW f \in Files, atomicWrite(p, f) PROVE TypeOK'
    <2> DEFINE r == [job[p] EXCEPT !.todo = @ \ {f}, !.applied = @ \cup {f}]
    <2>1. r \in Job
        BY <1>0, <1>a DEF Job
    <2>2. job' = [job EXCEPT ![p] = r]
        BY <1>0, <1>2 DEF atomicWrite
    <2>3. job' \in [Procs -> Job]
        BY <2>1, <2>2, JobType
    <2>4. live' \in FileSet
        BY <1>2, <1>a DEF atomicWrite, TypeOK, FileSet
    <2>5. UNCHANGED <<running, certDisk, backups, rest, applyMu>>
        BY <1>2 DEF atomicWrite
    <2>6. QED
        BY <2>3, <2>4, <2>5 DEF TypeOK, rest
<1>3. CASE backupFail(p)
    <2>0. \/ backups' = backups
          \/ \E f \in Files : backups' =
               [backups EXCEPT ![job[p].stamp][f] = Torn]
        BY <1>3, <1>a DEF backupFail
    <2>a. backups \in [Stamps -> FileSet] /\ job[p].stamp \in Stamps
        BY <1>a DEF TypeOK
    <2>b. ASSUME NEW f \in Files,
                 backups' = [backups EXCEPT ![job[p].stamp][f] = Torn]
          PROVE  backups' \in [Stamps -> FileSet]
        <3>1. [backups[job[p].stamp] EXCEPT ![f] = Torn] \in FileSet
            BY <2>a DEF FileSet, Content
        <3>2. QED
            BY <2>a, <2>b, <3>1
    <2>1. backups' \in [Stamps -> FileSet]
        BY <2>0, <2>a, <2>b
    <2>2. ReturnWith(p, "error")
        BY <1>3 DEF backupFail
    <2>3. QED
        BY <1>3, <2>1, <2>2, ReturnWithType DEF backupFail, TypeOK
<1>4. CASE StatLive(p)
    <2> DEFINE new == NewFiles(p)
               todo == Present(job[p].staged)
               engs == EnginesOf(job[p].staged)
               r == [job[p] EXCEPT !.pc = "write", !.wasNew = new,
                       !.todo = todo, !.engs = engs, !.before = live]
    <2>1. /\ new \in SUBSET Files /\ todo \in SUBSET Files
          /\ engs \in SUBSET Engines /\ live \in FileSet
        BY <1>a, PresentType, EnginesOfType DEF NewFiles, TypeOK
    <2>2. job' = [job EXCEPT ![p] = r]
        BY <1>0, <1>4 DEF StatLive
    <2> HIDE DEF new, todo, engs
    <2>3. r \in Job
        BY <1>0, <2>1 DEF Job, Labels
    <2>4. job' \in [Procs -> Job]
        BY <2>2, <2>3, JobType
    <2>5. UNCHANGED <<host, rest, applyMu>>
        BY <1>4 DEF StatLive
    <2>6. QED
        BY <2>4, <2>5 DEF TypeOK, host, rest
<1>5. CASE writeFail(p)
    <2>1. job' \in [Procs -> Job]
        BY <1>5, PcType DEF writeFail, Labels
    <2>2. UNCHANGED <<host, rest, applyMu>>
        BY <1>5 DEF writeFail
    <2>3. QED
        BY <2>1, <2>2 DEF TypeOK, host, rest
<1>6. ASSUME NEW e \in Engines, Reload(p, e) PROVE TypeOK'
    <2> DEFINE r == [job[p] EXCEPT !.engs = @ \ {e}]
    <2>1. r \in Job
        BY <1>0, <1>a DEF Job
    <2>2. job' = [job EXCEPT ![p] = r]
        BY <1>0, <1>6 DEF Reload
    <2>3. job' \in [Procs -> Job]
        BY <2>1, <2>2, JobType
    <2>4. running' \in [Engines -> FileSet \cup {Down}]
        BY <1>6, ViewType DEF Reload, TypeOK
    <2>5. UNCHANGED <<live, certDisk, backups, rest, applyMu>>
        BY <1>6 DEF Reload
    <2>6. QED
        BY <2>3, <2>4, <2>5 DEF TypeOK, rest
<1>7. ASSUME NEW e \in Engines, reloadFail(p, e) PROVE TypeOK'
    <2> DEFINE r == [job[p] EXCEPT !.pc = "undoReload", !.engs = Engines]
    <2>1. r \in Job
        BY <1>0 DEF Job, Labels
    <2>2. job' = [job EXCEPT ![p] = r]
        BY <1>0, <1>7 DEF reloadFail
    <2>3. job' \in [Procs -> Job]
        BY <2>1, <2>2, JobType
    <2>4. running' \in [Engines -> FileSet \cup {Down}]
        BY <1>7 DEF reloadFail, TypeOK
    <2>5. UNCHANGED <<live, certDisk, backups, rest, applyMu>>
        BY <1>7 DEF reloadFail
    <2>6. QED
        BY <2>3, <2>4, <2>5 DEF TypeOK, rest
<1>8. CASE Finish(p)
    BY <1>8, ReturnWithType, PrunedType DEF Finish, TypeOK
<1>9. QED
    BY <1>1, <1>2, <1>3, <1>4, <1>5, <1>6, <1>7, <1>8 DEF Install

LEMMA TypeRollback ==
    ASSUME TypeOK, NEW p \in Procs, Rollback(p)
    PROVE  TypeOK'
<1>0. job[p] \in Job
    BY DEF TypeOK
<1>a. /\ job[p].applied \in SUBSET Files
      /\ job[p].engs \in SUBSET Engines
      /\ job[p].stamp \in Stamps
    BY <1>0 DEF Job
<1>1. ASSUME NEW f \in Files, undoFile(p, f) PROVE TypeOK'
    <2> DEFINE r == [job[p] EXCEPT !.applied = @ \ {f}]
               v == Undone(f \in job[p].wasNew, backups[job[p].stamp][f],
                           live[f])
    <2>1. r \in Job
        BY <1>0, <1>a DEF Job
    <2>2. job' = [job EXCEPT ![p] = r]
        BY <1>0, <1>1 DEF undoFile
    <2>3. job' \in [Procs -> Job]
        BY <2>1, <2>2, JobType
    <2>4. v \in Content
        BY <1>a DEF TypeOK, FileSet, Content, Undone
    <2>5. live' = [live EXCEPT ![f] = v]
        BY <1>1 DEF undoFile, TypeOK, FileSet
    <2> HIDE DEF v
    <2>6. live' \in FileSet
        BY <2>4, <2>5 DEF TypeOK, FileSet
    <2>7. UNCHANGED <<running, certDisk, backups, rest, applyMu>>
        BY <1>1 DEF undoFile
    <2>8. QED
        BY <2>3, <2>6, <2>7 DEF TypeOK, rest
<1>2. ASSUME NEW f \in Files, undoFail(p, f) PROVE TypeOK'
    <2> DEFINE r == [job[p] EXCEPT !.applied = @ \ {f}]
    <2>1. r \in Job
        BY <1>0, <1>a DEF Job
    <2>2. job' = [job EXCEPT ![p] = r]
        BY <1>0, <1>2 DEF undoFail
    <2>3. job' \in [Procs -> Job]
        BY <2>1, <2>2, JobType
    <2>4. live' \in FileSet
        BY <1>2 DEF undoFail, TypeOK, FileSet, Content
    <2>5. /\ incidents' = incidents \cup {"copy"}
          /\ UNCHANGED <<running, certDisk, backups, db, silent, clock, results,
                         recorded, applyMu>>
        BY <1>2 DEF undoFail
    <2>6. QED
        BY <2>3, <2>4, <2>5 DEF TypeOK
<1>3. CASE UndoneWrite(p)
    BY <1>3, ReturnType DEF UndoneWrite, TypeOK, host, rest
<1>4. ASSUME NEW e \in Engines, ReloadAgain(p, e) PROVE TypeOK'
    <2> DEFINE r == [job[p] EXCEPT !.engs = @ \ {e}]
    <2>1. r \in Job
        BY <1>0, <1>a DEF Job
    <2>2. job' = [job EXCEPT ![p] = r]
        BY <1>0, <1>4 DEF ReloadAgain
    <2>3. job' \in [Procs -> Job]
        BY <2>1, <2>2, JobType
    <2>a. PICK now \in {View(e, live), Down} :
            /\ running' = [running EXCEPT ![e] = now]
            /\ incidents' =
                 incidents \cup (IF now = Down THEN {"reload"} ELSE {})
        BY <1>4 DEF ReloadAgain
    <2>b. now \in FileSet \cup {Down}
        <3>1. live \in FileSet
            BY DEF TypeOK
        <3>2. View(e, live) \in FileSet
            BY <3>1, ViewType
        <3>3. QED
            BY <2>a, <3>2
    <2>4. /\ running' \in [Engines -> FileSet \cup {Down}]
          /\ incidents' \subseteq {"overlap", "crash", "delete", "backup",
                                   "copy", "reload"}
        BY <2>a, <2>b DEF TypeOK
    <2>5. UNCHANGED <<live, certDisk, backups, db, silent, clock, results, recorded,
                      applyMu>>
        BY <1>4 DEF ReloadAgain
    <2>6. QED
        BY <2>3, <2>4, <2>5 DEF TypeOK
<1>5. CASE RolledBack(p)
    BY <1>5, ReturnWithType DEF RolledBack, TypeOK, host
<1>6. QED
    BY <1>1, <1>2, <1>3, <1>4, <1>5 DEF Rollback

LEMMA TypeNext == TypeOK /\ [Next]_vars => TypeOK'
<1> SUFFICES ASSUME TypeOK, [Next]_vars PROVE TypeOK'
    OBVIOUS
<1>1. ASSUME NEW p \in Restorers, NEW t \in Stamps, ReadBackup(p, t)
      PROVE  TypeOK'
    <2>1. backups[t] \in FileSet /\ p \in Procs
        BY DEF TypeOK, Procs
    <2>2. /\ Own(p, backups[t])
          /\ UNCHANGED <<host, db, silent, clock, results, recorded, applyMu>>
        BY <1>1 DEF ReadBackup
    <2>3. /\ job' \in [Procs -> Job]
          /\ incidents' \subseteq {"overlap", "crash", "delete", "backup",
                                   "copy", "reload"}
        BY <2>1, <2>2, OwnType
    <2>4. QED
        BY <2>2, <2>3 DEF TypeOK, host
<1>2. CASE UNCHANGED vars
    BY <1>2 DEF TypeOK, vars, host, rest
<1>3. QED
    BY <1>1, <1>2, TypeEnvironment, TypeApplyStart, TypeInstall, TypeRollback
    DEF Next

\* Every variable of the pipeline keeps its type: the bookkeeping of ApplyAll
\* and Restore never names an engine, a file or a backup directory that is not
\* one, whatever fails and however the handlers interleave.
THEOREM TypeCorrect == Spec => []TypeOK
BY TypeInit, TypeNext, PTL DEF Spec

-----------------------------------------------------------------------------
(***************************************************************************)
(* Facts about the operators of the model.                                 *)
(***************************************************************************)

\* An engine's config test depends on its own files only.
LEMMA ViewSame ==
    ASSUME NEW e, NEW A, NEW B,
           \A f \in Files : EngineOf[f] = e => A[f] = B[f]
    PROVE  View(e, A) = View(e, B)
BY DEF View

\* Two sets of files that agree on every file are equal.
LEMMA FilesEqual ==
    ASSUME NEW A \in FileSet, NEW B \in FileSet, \A f \in Files : A[f] = B[f]
    PROVE  A = B
BY DEF FileSet

\* A directory that pruneBackups leaves is the one it found, or is empty.
LEMMA PrunedKeeps ==
    ASSUME NEW bs \in [Stamps -> FileSet], NEW t \in Stamps
    PROVE  Pruned(bs)[t] \in {bs[t], NoFiles}
BY DEF Pruned

LEMMA NoFilesNone == \A f \in Files : NoFiles[f] = None
BY DEF NoFiles

LEMMA JobFields ==
    ASSUME TypeOK, NEW p \in Procs
    PROVE  /\ job[p] \in Job
           /\ job[p].snap \in Content
           /\ job[p].staged \in FileSet
           /\ job[p].stamp \in Stamps
           /\ job[p].todo \in SUBSET Files
           /\ job[p].applied \in SUBSET Files
           /\ job[p].wasNew \in SUBSET Files
           /\ job[p].engs \in SUBSET Engines
           /\ job[p].before \in FileSet
<1>1. job[p] \in Job
    BY DEF TypeOK
<1>2. QED
    BY <1>1 DEF Job, Content

LEMMA IdleFields == /\ Idle.pc = "idle" /\ Idle.applied = {}
BY DEF Idle

\* Without an overlap nobody but p is in flight while p is.
LEMMA OthersOut ==
    ASSUME OwnerInv, Calm, NEW p \in Procs, InFlight(p),
           NEW q \in Procs, q # p
    PROVE  job[q].pc \notin Owning
BY DEF OwnerInv, InFlight

\* Disturbances are never forgotten.
LEMMA CalmBefore ==
    ASSUME incidents \subseteq incidents', Calm'
    PROVE  Calm
BY DEF Calm

(***************************************************************************)
(* A step of a handler that is in flight: only its own part of the         *)
(* invariant is at stake.                                                  *)
(***************************************************************************)
LEMMA OwnerStep ==
    ASSUME OwnerInv, NEW p \in Procs, InFlight(p),
           incidents \subseteq incidents',
           \A q \in Procs \ {p} : job'[q] = job[q],
           job'[p].pc \notin Changing => job'[p].applied = {},
           Calm' => /\ job'[p].pc \notin Changing => Steady'
                    /\ job'[p].pc = "backup" => Copied(p)'
                    /\ job'[p].pc \in Changing => Undoable(p)'
                    /\ job'[p].pc = "write" => RunsWriting(p)'
                    /\ job'[p].pc = "undoWrite" => RunsUndoWrite(p)'
                    /\ job'[p].pc = "undoReload" => RunsUndoReload(p)'
    PROVE  /\ OwnerInv' /\ SteadyInv' /\ BackupInv' /\ UndoInv' /\ RunInv'
<1>1. ASSUME Calm', NEW q \in Procs, q # p
      PROVE  job'[q] = job[q] /\ job'[q].pc \notin Owning
    BY <1>1, CalmBefore, OthersOut
<1>2. OwnerInv'
    <2>1. ASSUME NEW q \in Procs, NEW u \in Procs,
                 Calm', InFlight(q)', InFlight(u)'
          PROVE  q = u
        BY <1>1, <2>1 DEF InFlight
    <2>2. ASSUME NEW q \in Procs, job'[q].pc \notin Changing
          PROVE  job'[q].applied = {}
        BY <2>2 DEF OwnerInv
    <2>3. QED
        BY <2>1, <2>2 DEF OwnerInv
<1>3. SteadyInv'
    BY DEF SteadyInv
<1>4. BackupInv'
    <2>1. ASSUME NEW q \in Procs, Calm', job'[q].pc = "backup"
          PROVE  Copied(q)'
        BY <1>1, <2>1 DEF Owning
    <2>2. QED
        BY <2>1 DEF BackupInv
<1>5. UndoInv'
    <2>1. ASSUME NEW q \in Procs, Calm', job'[q].pc \in Changing
          PROVE  Undoable(q)'
        BY <1>1, <2>1 DEF Owning, Changing
    <2>2. QED
        BY <2>1 DEF UndoInv
<1>6. RunInv'
    <2>1. ASSUME NEW q \in Procs, Calm'
          PROVE  /\ job'[q].pc = "write" => RunsWriting(q)'
                 /\ job'[q].pc = "undoWrite" => RunsUndoWrite(q)'
                 /\ job'[q].pc = "undoReload" => RunsUndoReload(q)'
        BY <1>1, <2>1 DEF Owning
    <2>2. QED
        BY <2>1 DEF RunInv
<1>7. QED
    BY <1>2, <1>3, <1>4, <1>5, <1>6

(***************************************************************************)
(* A step that touches neither the host nor the history and moves handlers *)
(* only outside the part where they own the files.                         *)
(***************************************************************************)
LEMMA QuietStep ==
    ASSUME OwnerInv, SteadyInv, BackupInv, UndoInv, RunInv,
           UNCHANGED <<live, running, backups, incidents>>,
           \A q \in Procs :
             \/ job'[q] = job[q]
             \/ /\ job[q].pc \notin Owning /\ job'[q].pc \notin Owning
                /\ job'[q].applied = {}
    PROVE  /\ OwnerInv' /\ SteadyInv' /\ BackupInv' /\ UndoInv' /\ RunInv'
<1>1. Calm' = Calm
    BY DEF Calm
<1>2. ASSUME NEW q \in Procs, job'[q].pc \in Owning
      PROVE  job'[q] = job[q]
    BY <1>2
<1>3. OwnerInv'
    BY <1>1, <1>2 DEF OwnerInv, InFlight, Owning, Changing
<1>4. SteadyInv'
    BY <1>1 DEF SteadyInv, Steady, Owning, Changing, Validates, View
<1>5. BackupInv'
    BY <1>1, <1>2 DEF BackupInv, Copied, Owning
<1>6. UndoInv'
    BY <1>1, <1>2 DEF UndoInv, Undoable, Owning, Changing
<1>7. RunInv'
    BY <1>1, <1>2
    DEF RunInv, RunsWriting, RunsUndoWrite, RunsUndoReload, Owning
<1>8. QED
    BY <1>3, <1>4, <1>5, <1>6, <1>7

(***************************************************************************)
(* The inductive invariant: initial states and the environment.            *)
(***************************************************************************)
LEMMA IInvInit == Init => IInv
<1> SUFFICES ASSUME Init PROVE IInv
    OBVIOUS
<1>1. \A p \in Procs : job[p] = Idle
    BY DEF Init
<1>2. \A p \in Procs : job[p].pc = "idle" /\ job[p].applied = {}
    BY <1>1, IdleFields
<1>3. MutexInv
    BY <1>2, DistinctAssumption DEF MutexInv, Init, Procs
<1>4. OwnerInv
    BY <1>2 DEF OwnerInv, InFlight, Owning
<1>5. \A t \in Stamps, f \in Files : backups[t][f] = None
    BY NoFilesNone DEF Init
<1>6. \A e \in Engines : running[e] = View(e, live)
    BY DEF Init
<1>7. SteadyInv
    BY <1>5, <1>6 DEF SteadyInv, Steady, Init
<1>8. BackupInv /\ UndoInv /\ RunInv
    BY <1>2 DEF BackupInv, UndoInv, RunInv, Changing
<1>9. QED
    BY <1>3, <1>4, <1>7, <1>8, TypeInit DEF IInv

\* What the steps outside the owning part have in common.
LEMMA IInvQuiet ==
    ASSUME IInv, TypeOK', MutexInv',
           UNCHANGED <<live, running, backups, incidents>>,
           \A q \in Procs :
             \/ job'[q] = job[q]
             \/ /\ job[q].pc \notin Owning /\ job'[q].pc \notin Owning
                /\ job'[q].applied = {}
    PROVE  IInv'
<1>1. OwnerInv /\ SteadyInv /\ BackupInv /\ UndoInv /\ RunInv
    BY DEF IInv
<1>2. OwnerInv' /\ SteadyInv' /\ BackupInv' /\ UndoInv' /\ RunInv'
    BY <1>1, QuietStep
<1>3. QED
    BY <1>2 DEF IInv

\* A handler that is not yet in flight has written nothing.
LEMMA QuietJob ==
    ASSUME OwnerInv, NEW p \in Procs, job[p].pc \notin Owning
    PROVE  job[p].applied = {}
BY DEF OwnerInv, Owning, Changing

LEMMA InvEditConfig ==
    ASSUME IInv, TypeOK', NEW c \in Configs, EditConfig(c) \/ ImportConfig(c)
    PROVE  IInv'
<1>1. TypeOK /\ OwnerInv /\ MutexInv
    BY DEF IInv
<1>2. UNCHANGED <<live, running, backups, incidents, applyMu>>
    BY DEF EditConfig, ImportConfig, host
<1>3. CASE job' = job
    <2>1. MutexInv'
        BY <1>1, <1>2, <1>3 DEF MutexInv
    <2>2. QED
        BY <1>2, <1>3, <2>1, IInvQuiet
<1>4. ASSUME NEW p \in Procs, job[p].pc = "idle",
             job' = [job EXCEPT ![p].pc = "queued"]
      PROVE  IInv'
    <2>1. /\ job'[p].pc = "queued" /\ job'[p].applied = job[p].applied
          /\ \A q \in Procs \ {p} : job'[q] = job[q]
        BY <1>1, <1>4 DEF TypeOK, Job
    <2>2. MutexInv'
        BY <1>1, <1>2, <1>4, <2>1 DEF MutexInv, Procs
    <2>3. job[p].applied = {}
        BY <1>1, <1>4, QuietJob DEF Owning
    <2>4. QED
        BY <1>2, <1>4, <2>1, <2>2, <2>3, IInvQuiet DEF Owning
<1>5. QED
    BY <1>3, <1>4 DEF EditConfig, ImportConfig, Procs

LEMMA InvCallApply ==
    ASSUME IInv, TypeOK', NEW p \in Appliers, CallApply(p)
    PROVE  IInv'
<1> p \in Procs
    BY DEF Procs
<1>1. TypeOK /\ OwnerInv /\ MutexInv
    BY DEF IInv
<1>2. UNCHANGED <<live, running, backups, incidents, applyMu>>
    BY DEF CallApply, host, rest
<1>3. job[p].pc = "idle" /\ job' = [job EXCEPT ![p].pc = "queued"]
    BY DEF CallApply
<1>4. /\ job'[p].pc = "queued" /\ job'[p].applied = job[p].applied
      /\ \A q \in Procs \ {p} : job'[q] = job[q]
    BY <1>1, <1>3 DEF TypeOK, Job
<1>5. MutexInv'
    BY <1>1, <1>2, <1>3, <1>4 DEF MutexInv, Procs
<1>6. job[p].applied = {}
    BY <1>1, <1>3, QuietJob DEF Owning
<1>7. QED
    BY <1>2, <1>3, <1>4, <1>5, <1>6, IInvQuiet DEF Owning

LEMMA InvTick ==
    ASSUME IInv, TypeOK', Tick
    PROVE  IInv'
<1>1. UNCHANGED <<live, running, backups, incidents, applyMu, job>>
    BY DEF Tick, host
<1>2. MutexInv'
    BY <1>1 DEF IInv, MutexInv
<1>3. QED
    BY <1>1, <1>2, IInvQuiet

\* A crash that hits nobody in flight loses nothing; any other is recorded.
LEMMA InvCrash ==
    ASSUME IInv, TypeOK', Crash
    PROVE  IInv'
<1>1. /\ \A p \in Procs : job'[p] = Idle
      /\ applyMu' = Free /\ UNCHANGED <<running, backups>>
    BY DEF Crash
<1>2. \A p \in Procs : job'[p].pc = "idle" /\ job'[p].applied = {}
    BY <1>1, IdleFields
<1>3. MutexInv'
    BY <1>1, <1>2, DistinctAssumption DEF MutexInv, Procs
<1>4. OwnerInv' /\ BackupInv' /\ UndoInv' /\ RunInv'
    BY <1>2 DEF OwnerInv, BackupInv, UndoInv, RunInv, InFlight, Owning, Changing
<1>5. SteadyInv'
    <2> SUFFICES ASSUME Calm' PROVE Steady'
        BY DEF SteadyInv
    <2>1. AtRest
        BY DEF Crash, Calm
    <2>2. \A p \in Procs : job[p].pc \notin Owning
        BY <2>1 DEF AtRest, InFlight
    <2>3. UNCHANGED <<live, incidents>>
        BY <2>1, <2>2 DEF Crash, Owning
    <2>4. Steady
        BY <2>2, <2>3 DEF IInv, SteadyInv, Calm, Owning, Changing
    <2>5. QED
        BY <1>1, <2>3, <2>4 DEF Steady, Validates, View
<1>6. QED
    BY <1>3, <1>4, <1>5 DEF IInv

\* Deleting a backup that no handler uses leaves every rollback possible.
LEMMA InvDeleteBackup ==
    ASSUME IInv, TypeOK', NEW t \in Stamps, DeleteBackup(t)
    PROVE  IInv'
<1>0. TypeOK
    BY DEF IInv
<1>1. UNCHANGED <<live, running, applyMu, job>> /\ incidents \subseteq incidents'
    BY DEF DeleteBackup
<1>2. \A u \in Stamps, f \in Files : backups'[u][f] # None
                                        => backups[u][f] # None
    BY <1>0, NoFilesNone DEF DeleteBackup, TypeOK
<1>3. ASSUME Calm', NEW p \in Procs, job[p].pc \in Owning
      PROVE  backups'[job[p].stamp] = backups[job[p].stamp]
    <2>1. job[p].stamp # t
        BY <1>3 DEF DeleteBackup, Calm, InFlight
    <2>2. job[p].stamp \in Stamps
        BY <1>0, JobFields
    <2>3. QED
        BY <1>0, <2>1, <2>2 DEF DeleteBackup, TypeOK
<1>4. Calm' => Calm
    BY <1>1, CalmBefore
<1>5. "reload" \notin incidents' => "reload" \notin incidents
    BY <1>1
<1>6. MutexInv' /\ OwnerInv'
    BY <1>1, <1>4 DEF IInv, MutexInv, OwnerInv, InFlight
<1>7. SteadyInv'
    BY <1>1, <1>2, <1>4, <1>5 DEF IInv, SteadyInv, Steady, Validates, View
<1>8. BackupInv'
    BY <1>1, <1>3, <1>4 DEF IInv, BackupInv, Copied, Owning
<1>9. UndoInv'
    <2> SUFFICES ASSUME NEW p \in Procs, Calm', job[p].pc \in Changing
                 PROVE  Undoable(p)'
        BY <1>1 DEF UndoInv
    <2>1. Undoable(p)
        BY <1>4 DEF IInv, UndoInv
    <2>2. backups'[job[p].stamp] = backups[job[p].stamp]
        BY <1>3 DEF Owning, Changing
    <2>3. \A u \in Stamps, f \in Files :
             backups'[u][f] # None => job'[p].before[f] # None
        BY <1>1, <1>2, <2>1 DEF Undoable
    <2>4. \A f \in Present(job'[p].staged) :
             IF f \in job'[p].wasNew
             THEN job'[p].before[f] = None
             ELSE /\ job'[p].before[f] # None
                  /\ backups'[job'[p].stamp][f] = job'[p].before[f]
        BY <1>1, <2>1, <2>2 DEF Undoable
    <2>5. QED
        BY <1>1, <2>1, <2>3, <2>4 DEF Undoable
<1>10. RunInv'
    BY <1>1, <1>4, <1>5
    DEF IInv, RunInv, RunsWriting, RunsUndoWrite, RunsUndoReload
<1>11. QED
    BY <1>6, <1>7, <1>8, <1>9, <1>10 DEF IInv

(***************************************************************************)
(* Steps of a handler: the lock, the return, the start of the backup.      *)
(***************************************************************************)
LEMMA MutexKept ==
    ASSUME MutexInv, NEW p \in Procs, applyMu' = applyMu,
           \A q \in Procs \ {p} : job'[q] = job[q],
           job[p].pc \notin {"idle", "queued"},
           job'[p].pc \notin {"idle", "queued"}
    PROVE  MutexInv'
BY DEF MutexInv, Procs

LEMMA ReturnFields ==
    ASSUME TypeOK, NEW p \in Procs, Return(p)
    PROVE  /\ job'[p].pc = "idle" /\ job'[p].applied = {}
           /\ \A q \in Procs \ {p} : job'[q] = job[q]
<1>1. job'[p] = Idle /\ \A q \in Procs \ {p} : job'[q] = job[q]
    BY DEF Return, TypeOK
<1>2. QED
    BY <1>1, IdleFields

\* Only the holder of applyMu returns from ApplyAll, and nobody else held it.
LEMMA MutexReturn ==
    ASSUME TypeOK, MutexInv, NEW p \in Procs, Return(p),
           job[p].pc \notin {"idle", "queued"}
    PROVE  MutexInv'
<1>1. /\ job'[p].pc = "idle"
      /\ \A q \in Procs \ {p} : job'[q] = job[q]
    BY ReturnFields
<1>2. CASE p \in Appliers
    <2>1. applyMu = p /\ applyMu' = Free
        BY <1>2 DEF MutexInv, Return
    <2>2. QED
        BY <1>1, <1>2, <2>1, DistinctAssumption DEF MutexInv, Procs
<1>3. CASE p \notin Appliers
    <2>1. applyMu' = applyMu
        BY <1>3 DEF Return
    <2>2. QED
        BY <1>1, <1>3, <2>1 DEF MutexInv, Procs
<1>4. QED
    BY <1>2, <1>3

\* A handler begins to own the files: without an overlap it is alone.
LEMMA OwnStep ==
    ASSUME IInv, NEW p \in Procs, NEW fs \in FileSet, job[p].pc \notin Owning,
           Own(p, fs), UNCHANGED <<live, running, backups>>,
           Calm' /\ p \notin Appliers =>
             \A f \in Present(fs) : live[f] # None
    PROVE  OwnerInv' /\ SteadyInv' /\ BackupInv' /\ UndoInv' /\ RunInv'
<1>0. TypeOK /\ OwnerInv /\ SteadyInv
    BY DEF IInv
<1>1. /\ job'[p].pc = "backup" /\ job'[p].staged = fs
      /\ job'[p].todo = Present(fs) /\ job'[p].applied = job[p].applied
      /\ \A q \in Procs \ {p} : job'[q] = job[q]
    BY <1>0 DEF Own, TypeOK, Job
<1>2. job'[p].applied = {}
    BY <1>0, <1>1, QuietJob
<1>3. incidents \subseteq incidents'
    BY DEF Own
<1>4. Calm' => Calm
    BY <1>3, CalmBefore
<1>5. ASSUME Calm', NEW q \in Procs, q # p
      PROVE  job'[q] = job[q] /\ job[q].pc \notin Owning
    BY <1>1, <1>5 DEF Own, Calm, InFlight
<1>6. ASSUME Calm' PROVE \A q \in Procs : job'[q].pc \notin Changing
    BY <1>1, <1>5, <1>6 DEF Owning, Changing
<1>7. OwnerInv'
    <2>1. ASSUME NEW q \in Procs, NEW u \in Procs,
                 Calm', InFlight(q)', InFlight(u)'
          PROVE  q = u
        BY <1>5, <2>1 DEF InFlight
    <2>2. ASSUME NEW q \in Procs, job'[q].pc \notin Changing
          PROVE  job'[q].applied = {}
        BY <1>0, <1>1, <1>2, <2>2 DEF OwnerInv
    <2>3. QED
        BY <2>1, <2>2 DEF OwnerInv
<1>8. SteadyInv'
    <2> SUFFICES ASSUME Calm' PROVE Steady'
        BY DEF SteadyInv
    <2>1. \A q \in Procs : job[q].pc \notin Changing
        BY <1>5 DEF Owning, Changing
    <2>2. Steady
        BY <1>0, <1>4, <2>1 DEF SteadyInv
    <2>3. QED
        BY <1>3, <2>2 DEF Steady, Validates, View
<1>9. BackupInv'
    <2> SUFFICES ASSUME NEW q \in Procs, Calm', job'[q].pc = "backup"
                 PROVE  Copied(q)'
        BY DEF BackupInv
    <2>1. q = p
        BY <1>5 DEF Owning
    <2>2. QED
        BY <1>1, <2>1 DEF Copied
<1>10. UndoInv' /\ RunInv'
    BY <1>6 DEF UndoInv, RunInv, Changing
<1>11. QED
    BY <1>7, <1>8, <1>9, <1>10

(***************************************************************************)
(* ApplyAll up to the backup, and Restore's reading of a directory.        *)
(***************************************************************************)
LEMMA InvApplyStart ==
    ASSUME IInv, TypeOK', NEW p \in Appliers, ApplyStart(p)
    PROVE  IInv'
<1> p \in Procs
    BY DEF Procs
<1>0. TypeOK /\ OwnerInv /\ MutexInv
    BY DEF IInv
<1>a. job[p].staged \in FileSet
    BY <1>0, JobFields
<1>1. CASE LockAndList(p)
    <2>1. /\ job[p].pc = "queued" /\ applyMu = Free /\ applyMu' = p
          /\ UNCHANGED <<live, running, backups, incidents>>
        BY <1>1 DEF LockAndList, host, rest
    <2>2. /\ job'[p].pc = "listed" /\ job'[p].applied = job[p].applied
          /\ \A q \in Procs \ {p} : job'[q] = job[q]
        BY <1>0, <1>1 DEF LockAndList, TypeOK, Job
    <2>3. MutexInv'
        BY <1>0, <2>1, <2>2, DistinctAssumption DEF MutexInv, Procs
    <2>4. job[p].applied = {}
        BY <1>0, <2>1, QuietJob DEF Owning
    <2>5. QED
        BY <2>1, <2>2, <2>3, <2>4, IInvQuiet DEF Owning
<1>b. CASE ListFail(p)
    <2>1. /\ job[p].pc = "queued" /\ applyMu = Free /\ Return(p)
          /\ UNCHANGED <<live, running, backups, incidents>>
        BY <1>b DEF ListFail, host, rest
    <2>2. /\ job'[p].pc = "idle" /\ job'[p].applied = {}
          /\ \A q \in Procs \ {p} : job'[q] = job[q]
        BY <1>0, <2>1, ReturnFields
    <2>3. applyMu' = applyMu
        BY <2>1 DEF Return
    <2>4. MutexInv'
        BY <1>0, <2>1, <2>2, <2>3 DEF MutexInv, Procs
    <2>5. QED
        BY <2>1, <2>2, <2>4, IInvQuiet DEF Owning
<1>2. CASE RecordVersion(p)
    <2>1. /\ job[p].pc = "listed" /\ applyMu' = applyMu
          /\ UNCHANGED <<live, running, backups, incidents>>
        BY <1>2 DEF RecordVersion, host
    <2>a. \/ job' = [job EXCEPT ![p].pc = "stage", ![p].row = db]
          \/ job' = [job EXCEPT ![p].pc = "stage"]
        BY <1>2 DEF RecordVersion
    <2>b. job \in [Procs -> Job]
        BY <1>0 DEF TypeOK
    <2>2. /\ job'[p].pc = "stage" /\ job'[p].applied = job[p].applied
          /\ \A q \in Procs \ {p} : job'[q] = job[q]
        BY <2>a, <2>b DEF Job
    <2>3. MutexInv'
        BY <1>0, <2>1, <2>2, MutexKept
    <2>4. job[p].applied = {}
        BY <1>0, <2>1, QuietJob DEF Owning
    <2>5. QED
        BY <2>1, <2>2, <2>3, <2>4, IInvQuiet DEF Owning
<1>3. ASSUME job[p].pc \in {"stage", "certs"}, Return(p),
             UNCHANGED <<live, running, backups, incidents>>
      PROVE  IInv'
    <2>1. /\ job'[p].pc = "idle" /\ job'[p].applied = {}
          /\ \A q \in Procs \ {p} : job'[q] = job[q]
        BY <1>0, <1>3, ReturnFields
    <2>2. MutexInv'
        BY <1>0, <1>3, MutexReturn
    <2>3. QED
        BY <1>3, <2>1, <2>2, IInvQuiet DEF Owning
<1>4. CASE StageMissing(p)
    BY <1>3, <1>4 DEF StageMissing, host, rest
<1>5. CASE StageReject(p)
    BY <1>3, <1>5 DEF StageReject, ReturnWith, host
<1>6. CASE StageAll(p)
    <2>1. /\ job[p].pc = "stage" /\ applyMu' = applyMu
          /\ UNCHANGED <<live, running, backups, incidents>>
        BY <1>6 DEF StageAll, host, rest
    <2>a. PICK missing \in Missing :
            job' = [job EXCEPT
              ![p].pc = "certs",
              ![p].staged = Rendered(job[p].snap, Engines \ missing)]
        BY <1>6 DEF StageAll
    <2>2. /\ job'[p].pc = "certs" /\ job'[p].applied = job[p].applied
          /\ \A q \in Procs \ {p} : job'[q] = job[q]
        BY <1>0, <2>a DEF TypeOK, Job
    <2>3. MutexInv'
        BY <1>0, <2>1, <2>2, MutexKept
    <2>4. job[p].applied = {}
        BY <1>0, <2>1, QuietJob DEF Owning
    <2>5. QED
        BY <2>1, <2>2, <2>3, <2>4, IInvQuiet DEF Owning
<1>7. CASE writeCertFiles(p)
    <2>1. /\ job[p].pc = "certs" /\ applyMu' = applyMu
          /\ Own(p, job[p].staged)
          /\ UNCHANGED <<live, running, backups>>
        BY <1>7 DEF writeCertFiles
    <2>2. /\ job'[p].pc = "backup"
          /\ \A q \in Procs \ {p} : job'[q] = job[q]
        BY <1>0, <2>1 DEF Own, TypeOK, Job
    <2>3. MutexInv'
        BY <1>0, <2>1, <2>2, MutexKept
    <2>4. OwnerInv' /\ SteadyInv' /\ BackupInv' /\ UndoInv' /\ RunInv'
        BY <1>a, <2>1, OwnStep DEF Owning
    <2>5. QED
        BY <2>3, <2>4 DEF IInv
<1>8. CASE writeCertFail(p)
    BY <1>3, <1>8 DEF writeCertFail, ReturnWith
<1>9. QED
    BY <1>1, <1>b, <1>2, <1>4, <1>5, <1>6, <1>7, <1>8 DEF ApplyStart

LEMMA InvReadBackup ==
    ASSUME IInv, TypeOK', NEW p \in Restorers, NEW t \in Stamps,
           ReadBackup(p, t)
    PROVE  IInv'
<1> p \in Procs /\ p \notin Appliers
    BY DistinctAssumption DEF Procs
<1>0. TypeOK /\ OwnerInv /\ MutexInv /\ SteadyInv
    BY DEF IInv
<1>1. /\ job[p].pc = "idle" /\ Own(p, backups[t]) /\ applyMu' = applyMu
      /\ UNCHANGED <<live, running, backups>>
    BY DEF ReadBackup, host
<1>2. backups[t] \in FileSet
    BY <1>0 DEF TypeOK
<1>3. \A q \in Procs \ {p} : job'[q] = job[q]
    BY <1>0, <1>1 DEF Own, TypeOK
<1>4. MutexInv'
    BY <1>0, <1>1, <1>3 DEF MutexInv, Procs
<1>5. ASSUME Calm' PROVE \A f \in Present(backups[t]) : live[f] # None
    <2>1. \A q \in Procs \ {p} : job[q].pc \notin Owning
        BY <1>1, <1>5 DEF Own, Calm, InFlight
    <2>2. \A q \in Procs : job[q].pc \notin Changing
        BY <1>1, <2>1 DEF Owning, Changing
    <2>3. Calm
        BY <1>1, <1>5 DEF Own, Calm
    <2>4. Steady
        BY <1>0, <2>2, <2>3 DEF SteadyInv
    <2>5. QED
        BY <2>4 DEF Steady, Present
<1>6. OwnerInv' /\ SteadyInv' /\ BackupInv' /\ UndoInv' /\ RunInv'
    BY <1>1, <1>2, <1>5, OwnStep DEF Owning
<1>7. QED
    BY <1>4, <1>6 DEF IInv

(***************************************************************************)
(* Backup, write, reload.                                                  *)
(***************************************************************************)

\* What the disk is like when a handler has not begun to write.
LEMMA SteadyBackup ==
    ASSUME IInv, Calm, NEW p \in Procs, job[p].pc = "backup"
    PROVE  Steady
<1>1. \A q \in Procs \ {p} : job[q].pc \notin Owning
    BY OthersOut DEF IInv, InFlight, Owning
<1>2. \A q \in Procs : job[q].pc \notin Changing
    BY <1>1 DEF Owning, Changing
<1>3. QED
    BY <1>2 DEF IInv, SteadyInv

\* The assembly shared by all steps of a handler in flight.
LEMMA IInvOwner ==
    ASSUME IInv, TypeOK', MutexInv', NEW p \in Procs, InFlight(p),
           incidents \subseteq incidents',
           \A q \in Procs \ {p} : job'[q] = job[q],
           job'[p].pc \notin Changing => job'[p].applied = {},
           Calm' => /\ job'[p].pc \notin Changing => Steady'
                    /\ job'[p].pc = "backup" => Copied(p)'
                    /\ job'[p].pc \in Changing => Undoable(p)'
                    /\ job'[p].pc = "write" => RunsWriting(p)'
                    /\ job'[p].pc = "undoWrite" => RunsUndoWrite(p)'
                    /\ job'[p].pc = "undoReload" => RunsUndoReload(p)'
    PROVE  IInv'
<1>1. OwnerInv
    BY DEF IInv
<1>2. OwnerInv' /\ SteadyInv' /\ BackupInv' /\ UndoInv' /\ RunInv'
    BY <1>1, OwnerStep
<1>3. QED
    BY <1>2 DEF IInv

LEMMA InvBackupFile ==
    ASSUME IInv, TypeOK', NEW p \in Procs, NEW f \in Files, backupFile(p, f)
    PROVE  IInv'
<1>0. TypeOK /\ OwnerInv /\ MutexInv
    BY DEF IInv
<1>a. job[p].stamp \in Stamps
    BY <1>0, JobFields
<1>1. /\ job[p].pc = "backup" /\ f \in job[p].todo
      /\ UNCHANGED <<live, running, incidents, applyMu>>
    BY DEF backupFile, rest
<1>2. /\ job'[p].pc = "backup" /\ job'[p].staged = job[p].staged
      /\ job'[p].todo = job[p].todo \ {f} /\ job'[p].stamp = job[p].stamp
      /\ job'[p].applied = job[p].applied
      /\ \A q \in Procs \ {p} : job'[q] = job[q]
    BY <1>0, <1>1 DEF backupFile, TypeOK, Job
<1>3. \A t \in Stamps, g \in Files :
        backups'[t][g] = IF t = job[p].stamp /\ g = f
                         THEN SafetyCopy(backups[t][g], live[g])
                         ELSE backups[t][g]
    BY <1>0, <1>a DEF backupFile, TypeOK, FileSet
<1>4. MutexInv'
    BY <1>0, <1>1, <1>2, MutexKept
<1>5. job'[p].applied = {}
    BY <1>0, <1>1, <1>2 DEF OwnerInv, Changing
<1>6. Calm' = Calm
    BY <1>1 DEF Calm
<1>7. ASSUME Calm' PROVE Steady'
    <2>1. Steady
        BY <1>1, <1>6, <1>7, SteadyBackup
    <2>2. \A t \in Stamps, g \in Files : backups'[t][g] # None
                                            => live'[g] # None
        BY <1>1, <1>3, <2>1 DEF Steady, SafetyCopy
    <2>3. QED
        BY <1>1, <2>1, <2>2 DEF Steady, Validates, View
<1>8. ASSUME Calm' PROVE Copied(p)'
    <2>1. Copied(p)
        BY <1>1, <1>6, <1>8 DEF IInv, BackupInv
    <2>2. \A g \in Present(job[p].staged) : g \in Files
        BY DEF Present
    <2>3. QED
        BY <1>1, <1>2, <1>3, <1>a, <2>1, <2>2 DEF Copied, SafetyCopy
<1>9. InFlight(p)
    BY <1>1 DEF InFlight, Owning
<1>10. QED
    BY <1>1, <1>2, <1>4, <1>5, <1>7, <1>8, <1>9, IInvOwner DEF Changing

LEMMA InvBackupFail ==
    ASSUME IInv, TypeOK', NEW p \in Procs, backupFail(p)
    PROVE  IInv'
<1>0. TypeOK /\ OwnerInv /\ MutexInv
    BY DEF IInv
<1>1. /\ job[p].pc = "backup" /\ incidents' = incidents \cup {"backup"}
      /\ Return(p) /\ UNCHANGED <<live, running>>
    BY DEF backupFail, ReturnWith
<1>2. /\ job'[p].pc = "idle" /\ job'[p].applied = {}
      /\ \A q \in Procs \ {p} : job'[q] = job[q]
    BY <1>0, <1>1, ReturnFields
<1>3. MutexInv'
    BY <1>0, <1>1, MutexReturn
<1>4. ASSUME Calm' PROVE Steady'
    <2>1. Steady
        BY <1>1, <1>4, SteadyBackup DEF Calm
    <2>2. \A t \in Stamps, f \in Files : backups'[t][f] # None
                                            => live[f] # None
        <3>1. \/ backups' = backups
              \/ \E f \in Files : /\ live[f] # None
                                 /\ backups' = [backups EXCEPT
                                      ![job[p].stamp][f] = Torn]
            BY <1>0, JobFields DEF backupFail
        <3>2. \A t \in Stamps, f \in Files : backups[t][f] # None
                                                => live[f] # None
            BY <2>1 DEF Steady
        <3>3. backups \in [Stamps -> FileSet] /\ job[p].stamp \in Stamps
            BY <1>0, JobFields DEF TypeOK
        <3>4. ASSUME NEW g \in Files, live[g] # None,
                     backups' = [backups EXCEPT ![job[p].stamp][g] = Torn],
                     NEW t \in Stamps, NEW f \in Files, backups'[t][f] # None
              PROVE  live[f] # None
            <4>1. f = g \/ backups'[t][f] = backups[t][f]
                BY <3>3, <3>4 DEF FileSet
            <4>2. QED
                BY <3>2, <3>4, <4>1
        <3>5. QED
            BY <3>1, <3>2, <3>4
    <2>3. QED
        BY <1>1, <2>1, <2>2 DEF Steady, Validates, View
<1>5. InFlight(p)
    BY <1>1 DEF InFlight, Owning
<1>6. QED
    BY <1>1, <1>2, <1>3, <1>4, <1>5, IInvOwner DEF Changing

LEMMA InvStatLive ==
    ASSUME IInv, TypeOK', NEW p \in Procs, StatLive(p)
    PROVE  IInv'
<1>0. TypeOK /\ OwnerInv /\ MutexInv
    BY DEF IInv
<1>1. /\ job[p].pc = "backup" /\ job[p].todo = {}
      /\ UNCHANGED <<live, running, backups, incidents, applyMu>>
    BY DEF StatLive, BackedUp, host, rest
<1>2. /\ job'[p].pc = "write" /\ job'[p].staged = job[p].staged
      /\ job'[p].stamp = job[p].stamp /\ job'[p].applied = job[p].applied
      /\ job'[p].wasNew = NewFiles(p) /\ job'[p].before = live
      /\ job'[p].todo = Present(job[p].staged)
      /\ job'[p].engs = EnginesOf(job[p].staged)
      /\ \A q \in Procs \ {p} : job'[q] = job[q]
    <2> DEFINE r == [job[p] EXCEPT !.pc = "write", !.wasNew = NewFiles(p),
                       !.todo = Present(job[p].staged),
                       !.engs = EnginesOf(job[p].staged), !.before = live]
    <2>1. job[p] \in Job /\ job \in [Procs -> Job]
        BY <1>0 DEF TypeOK
    <2>2. job' = [job EXCEPT ![p] = r]
        BY <2>1 DEF StatLive
    <2>3. /\ r.pc = "write" /\ r.staged = job[p].staged
          /\ r.stamp = job[p].stamp /\ r.applied = job[p].applied
          /\ r.wasNew = NewFiles(p) /\ r.before = live
          /\ r.todo = Present(job[p].staged)
          /\ r.engs = EnginesOf(job[p].staged)
        BY <2>1 DEF Job
    <2> HIDE DEF r
    <2>4. QED
        BY <2>1, <2>2, <2>3
<1>3. MutexInv'
    BY <1>0, <1>1, <1>2, MutexKept
<1>4. job'[p].applied = {}
    BY <1>0, <1>1, <1>2 DEF OwnerInv, Changing
<1>5. Calm' = Calm
    BY <1>1 DEF Calm
<1>6. ASSUME Calm' PROVE Undoable(p)'
    <2>1. Steady /\ Copied(p)
        BY <1>1, <1>5, <1>6, SteadyBackup DEF IInv, BackupInv
    <2>2. \A g \in Present(job[p].staged) :
            IF g \in NewFiles(p) THEN live[g] = None
            ELSE live[g] # None /\ backups[job[p].stamp][g] = live[g]
        BY <1>1, <2>1 DEF Copied, NewFiles
    <2>3. QED
        BY <1>1, <1>2, <1>4, <2>1, <2>2 DEF Undoable, Steady, Validates, View
<1>7. ASSUME Calm' PROVE RunsWriting(p)'
    <2>1. Steady
        BY <1>1, <1>5, <1>7, SteadyBackup
    <2>2. QED
        BY <1>1, <1>2, <1>4, <2>1 DEF RunsWriting, Steady
<1>8. InFlight(p)
    BY <1>1 DEF InFlight, Owning
<1>9. QED
    BY <1>1, <1>2, <1>3, <1>6, <1>7, <1>8, IInvOwner DEF Changing

\* What a handler that changes the files knows.
LEMMA Writing ==
    ASSUME IInv, Calm, NEW p \in Procs, job[p].pc \in Changing
    PROVE  /\ Undoable(p)
           /\ job[p].pc = "write" => RunsWriting(p)
           /\ job[p].pc = "undoWrite" => RunsUndoWrite(p)
           /\ job[p].pc = "undoReload" => RunsUndoReload(p)
BY DEF IInv, UndoInv, RunInv

LEMMA InvAtomicWrite ==
    ASSUME IInv, TypeOK', NEW p \in Procs, NEW f \in Files, atomicWrite(p, f)
    PROVE  IInv'
<1>0. TypeOK /\ MutexInv
    BY DEF IInv
<1>1. /\ job[p].pc = "write" /\ f \in job[p].todo
      /\ UNCHANGED <<running, backups, incidents, applyMu>>
    BY DEF atomicWrite, rest
<1>2. /\ job'[p].pc = "write" /\ job'[p].staged = job[p].staged
      /\ job'[p].stamp = job[p].stamp /\ job'[p].before = job[p].before
      /\ job'[p].wasNew = job[p].wasNew /\ job'[p].engs = job[p].engs
      /\ job'[p].todo = job[p].todo \ {f}
      /\ job'[p].applied = job[p].applied \cup {f}
      /\ \A q \in Procs \ {p} : job'[q] = job[q]
    BY <1>0 DEF atomicWrite, TypeOK, Job
<1>3. \A g \in Files : live'[g] = IF g = f THEN job[p].staged[g] ELSE live[g]
    BY <1>0 DEF atomicWrite, TypeOK, FileSet
<1>4. MutexInv'
    BY <1>0, <1>1, <1>2, MutexKept
<1>5. Calm' = Calm
    BY <1>1 DEF Calm
<1>6. ASSUME Calm' PROVE Undoable(p)' /\ RunsWriting(p)'
    <2>1. Undoable(p) /\ RunsWriting(p)
        BY <1>1, <1>5, <1>6, Writing DEF Changing
    <2>2. f \in Present(job[p].staged)
        BY <1>1, <2>1 DEF RunsWriting
    <2>3. job[p].engs = EnginesOf(job[p].staged)
        BY <1>1, <2>1 DEF RunsWriting
    <2>4. Undoable(p)'
        <3>1. \A g \in Files :
                live'[g] = IF g \in job'[p].applied THEN job'[p].staged[g]
                                                    ELSE job'[p].before[g]
            BY <1>2, <1>3, <2>1 DEF Undoable
        <3>2. job'[p].applied \subseteq Present(job'[p].staged)
            BY <1>2, <2>1, <2>2 DEF Undoable
        <3>3. QED
            BY <1>1, <1>2, <2>1, <3>1, <3>2 DEF Undoable
    <2>5. RunsWriting(p)'
        BY <1>1, <1>2, <2>1, <2>3 DEF RunsWriting
    <2>6. QED
        BY <2>4, <2>5
<1>7. InFlight(p)
    BY <1>1 DEF InFlight, Owning
<1>8. QED
    BY <1>1, <1>2, <1>4, <1>6, <1>7, IInvOwner DEF Changing

LEMMA InvWriteFail ==
    ASSUME IInv, TypeOK', NEW p \in Procs, writeFail(p)
    PROVE  IInv'
<1>0. TypeOK /\ MutexInv
    BY DEF IInv
<1>1. /\ job[p].pc = "write" /\ job[p].todo # {}
      /\ UNCHANGED <<live, running, backups, incidents, applyMu>>
    BY DEF writeFail, host, rest
<1>2. /\ job'[p].pc = "undoWrite" /\ job'[p].staged = job[p].staged
      /\ job'[p].stamp = job[p].stamp /\ job'[p].before = job[p].before
      /\ job'[p].wasNew = job[p].wasNew /\ job'[p].applied = job[p].applied
      /\ \A q \in Procs \ {p} : job'[q] = job[q]
    BY <1>0 DEF writeFail, TypeOK, Job
<1>3. MutexInv'
    BY <1>0, <1>1, <1>2, MutexKept
<1>4. Calm' = Calm
    BY <1>1 DEF Calm
<1>5. ASSUME Calm' PROVE Undoable(p)' /\ RunsUndoWrite(p)'
    <2>1. Undoable(p) /\ RunsWriting(p)
        BY <1>1, <1>4, <1>5, Writing DEF Changing
    <2>2. Undoable(p)'
        BY <1>1, <1>2, <2>1 DEF Undoable
    <2>3. RunsUndoWrite(p)'
        BY <1>1, <1>2, <2>1 DEF RunsWriting, RunsUndoWrite
    <2>4. QED
        BY <2>2, <2>3
<1>6. InFlight(p)
    BY <1>1 DEF InFlight, Owning
<1>7. QED
    BY <1>1, <1>2, <1>3, <1>5, <1>6, IInvOwner DEF Changing

LEMMA InvReload ==
    ASSUME IInv, TypeOK', NEW p \in Procs, NEW e \in Engines, Reload(p, e)
    PROVE  IInv'
<1>0. TypeOK /\ MutexInv
    BY DEF IInv
<1>1. /\ job[p].pc = "write" /\ job[p].todo = {} /\ e \in job[p].engs
      /\ UNCHANGED <<live, backups, incidents, applyMu>>
    BY DEF Reload, Written, rest
<1>2. /\ job'[p].pc = "write" /\ job'[p].staged = job[p].staged
      /\ job'[p].stamp = job[p].stamp /\ job'[p].before = job[p].before
      /\ job'[p].wasNew = job[p].wasNew /\ job'[p].applied = job[p].applied
      /\ job'[p].todo = job[p].todo /\ job'[p].engs = job[p].engs \ {e}
      /\ \A q \in Procs \ {p} : job'[q] = job[q]
    <2>1. job \in [Procs -> Job] /\ job[p] \in Job
        BY <1>0 DEF TypeOK
    <2>2. job' = [job EXCEPT ![p].engs = @ \ {e}]
        BY DEF Reload
    <2>3. QED
        BY <1>1, <2>1, <2>2 DEF Job
<1>3. /\ running'[e] = View(e, live)
      /\ \A d \in Engines \ {e} : running'[d] = running[d]
    BY <1>0 DEF Reload, TypeOK
<1>4. Validates(e, live)
    <2>1. live \in FileSet
        BY <1>0 DEF TypeOK
    <2>2. View(e, live) \in FileSet
        BY <2>1, ViewType
    <2>3. View(e, live) # Down
        BY <2>2, DistinctAssumption
    <2>4. QED
        BY <2>3 DEF Reload, Reloaded
<1>5. MutexInv'
    BY <1>0, <1>1, <1>2, MutexKept
<1>6. Calm' = Calm
    BY <1>1 DEF Calm
<1>7. ASSUME Calm' PROVE Undoable(p)' /\ RunsWriting(p)'
    <2>1. Undoable(p) /\ RunsWriting(p)
        BY <1>1, <1>6, <1>7, Writing DEF Changing
    <2>2. Undoable(p)'
        BY <1>1, <1>2, <2>1 DEF Undoable
    <2>3. RunsWriting(p)'
        <3>1. \A d \in EnginesOf(job[p].staged) \ (job[p].engs \ {e}) :
                Validates(d, live) /\ running'[d] = View(d, live)
            <4>1. \A d \in EnginesOf(job[p].staged) : d \in Engines
                BY <1>0, JobFields, EnginesOfType
            <4>2. QED
                BY <1>3, <1>4, <2>1, <4>1 DEF RunsWriting
        <3>2. "reload" \notin incidents =>
                \A d \in Engines :
                  d \in job[p].engs \ {e} \/ d \notin EnginesOf(job[p].staged)
                    => running'[d] = View(d, job[p].before)
            BY <1>1, <1>3, <2>1 DEF RunsWriting
        <3>3. /\ job[p].todo = Present(job[p].staged) \ job[p].applied
              /\ job[p].engs \ {e} \subseteq EnginesOf(job[p].staged)
            BY <2>1 DEF RunsWriting
        <3>4. QED
            BY <1>1, <1>2, <3>1, <3>2, <3>3 DEF RunsWriting
    <2>4. QED
        BY <2>2, <2>3
<1>8. InFlight(p)
    BY <1>1 DEF InFlight, Owning
<1>9. QED
    BY <1>1, <1>2, <1>5, <1>7, <1>8, IInvOwner DEF Changing

LEMMA InvReloadFail ==
    ASSUME IInv, TypeOK', NEW p \in Procs, NEW e \in Engines, reloadFail(p, e)
    PROVE  IInv'
<1>0. TypeOK /\ MutexInv
    BY DEF IInv
<1>1. /\ job[p].pc = "write"
      /\ UNCHANGED <<live, backups, incidents, applyMu>>
    BY DEF reloadFail, Written, rest
<1>2. /\ job'[p].pc = "undoReload" /\ job'[p].staged = job[p].staged
      /\ job'[p].stamp = job[p].stamp /\ job'[p].before = job[p].before
      /\ job'[p].wasNew = job[p].wasNew /\ job'[p].applied = job[p].applied
      /\ job'[p].engs = Engines
      /\ \A q \in Procs \ {p} : job'[q] = job[q]
    BY <1>0 DEF reloadFail, TypeOK, Job
<1>3. MutexInv'
    BY <1>0, <1>1, <1>2, MutexKept
<1>4. Calm' = Calm
    BY <1>1 DEF Calm
<1>5. ASSUME Calm' PROVE Undoable(p)' /\ RunsUndoReload(p)'
    <2>1. Undoable(p)
        BY <1>1, <1>4, <1>5, Writing DEF Changing
    <2>2. Undoable(p)'
        BY <1>1, <1>2, <2>1 DEF Undoable
    <2>3. RunsUndoReload(p)'
        BY <1>2 DEF RunsUndoReload
    <2>4. QED
        BY <2>2, <2>3
<1>6. InFlight(p)
    BY <1>1 DEF InFlight, Owning
<1>7. QED
    BY <1>1, <1>2, <1>3, <1>5, <1>6, IInvOwner DEF Changing

\* A successful handler has reloaded every engine it wrote files of; the
\* other engines have the files they had before.
LEMMA InvFinish ==
    ASSUME IInv, TypeOK', NEW p \in Procs, Finish(p)
    PROVE  IInv'
<1>0. TypeOK /\ MutexInv
    BY DEF IInv
<1>1. /\ job[p].pc = "write" /\ job[p].todo = {} /\ job[p].engs = {}
      /\ Return(p) /\ UNCHANGED <<live, running, incidents>>
    BY DEF Finish, Written, ReturnWith
<1>2. /\ job'[p].pc = "idle" /\ job'[p].applied = {}
      /\ \A q \in Procs \ {p} : job'[q] = job[q]
    BY <1>0, <1>1, ReturnFields
<1>3. MutexInv'
    BY <1>0, <1>1, MutexReturn
<1>4. \A t \in Stamps, f \in Files : backups'[t][f] # None
                                        => backups[t][f] # None
    <2>1. \A t \in Stamps : backups'[t] \in {backups[t], NoFiles}
        BY <1>0, PrunedKeeps DEF Finish, TypeOK
    <2>2. QED
        BY <2>1, NoFilesNone
<1>5. ASSUME Calm' PROVE Steady'
    <2>1. Undoable(p) /\ RunsWriting(p)
        BY <1>1, <1>5, Writing DEF Changing, Calm
    <2>2. ASSUME NEW e \in Engines, e \notin EnginesOf(job[p].staged)
          PROVE  View(e, live) = View(e, job[p].before)
        <3>1. \A f \in Files : EngineOf[f] = e => f \notin job[p].applied
            BY <2>1, <2>2 DEF Undoable, EnginesOf
        <3>2. \A f \in Files : EngineOf[f] = e => live[f] = job[p].before[f]
            BY <2>1, <3>1 DEF Undoable
        <3>3. QED
            BY <3>2, ViewSame
    <2>3. \A e \in Engines : Validates(e, live)
        BY <1>1, <2>1, <2>2 DEF RunsWriting, Undoable, Validates
    <2>4. "reload" \notin incidents =>
             \A e \in Engines : running[e] = View(e, live)
        BY <1>1, <2>1, <2>2 DEF RunsWriting
    <2>5. \A f \in Files : job[p].before[f] # None => live[f] # None
        BY <2>1 DEF Undoable, Present
    <2>6. \A t \in Stamps, f \in Files : backups'[t][f] # None
                                            => live[f] # None
        BY <1>4, <2>1, <2>5 DEF Undoable
    <2>7. QED
        BY <1>1, <2>3, <2>4, <2>6 DEF Steady
<1>6. InFlight(p)
    BY <1>1 DEF InFlight, Owning
<1>7. QED
    BY <1>1, <1>2, <1>3, <1>5, <1>6, IInvOwner DEF Changing

(***************************************************************************)
(* Rollback.                                                               *)
(***************************************************************************)
LEMMA InvUndoFile ==
    ASSUME IInv, TypeOK', NEW p \in Procs, NEW f \in Files, undoFile(p, f)
    PROVE  IInv'
<1>0. TypeOK /\ MutexInv
    BY DEF IInv
<1>1. /\ job[p].pc \in {"undoWrite", "undoReload"} /\ f \in job[p].applied
      /\ UNCHANGED <<running, backups, incidents, applyMu>>
    BY DEF undoFile, Undoing, rest
<1>2. /\ job'[p].pc = job[p].pc /\ job'[p].staged = job[p].staged
      /\ job'[p].stamp = job[p].stamp /\ job'[p].before = job[p].before
      /\ job'[p].wasNew = job[p].wasNew /\ job'[p].engs = job[p].engs
      /\ job'[p].applied = job[p].applied \ {f}
      /\ \A q \in Procs \ {p} : job'[q] = job[q]
    BY <1>0 DEF undoFile, TypeOK, Job
<1>3. \A g \in Files : live'[g] =
        IF g = f THEN Undone(f \in job[p].wasNew, backups[job[p].stamp][f],
                             live[f])
                 ELSE live[g]
    BY <1>0 DEF undoFile, TypeOK, FileSet
<1>4. MutexInv'
    BY <1>0, <1>1, <1>2, MutexKept
<1>5. Calm' = Calm
    BY <1>1 DEF Calm
<1>6. ASSUME Calm' PROVE Undoable(p)'
    <2>1. Undoable(p)
        BY <1>1, <1>5, <1>6, Writing DEF Changing
    <2>2. f \in Present(job[p].staged)
        BY <1>1, <2>1 DEF Undoable
    <2>3. live'[f] = job[p].before[f]
        BY <1>3, <2>1, <2>2 DEF Undoable, Undone
    <2>4. \A g \in Files :
            live'[g] = IF g \in job'[p].applied THEN job'[p].staged[g]
                                                ELSE job'[p].before[g]
        BY <1>2, <1>3, <2>1, <2>3 DEF Undoable
    <2>5. QED
        BY <1>1, <1>2, <2>1, <2>4 DEF Undoable
<1>7. ASSUME Calm'
      PROVE  /\ job[p].pc = "undoWrite" => RunsUndoWrite(p)'
             /\ job[p].pc = "undoReload" => RunsUndoReload(p)'
    <2>1. /\ job[p].pc = "undoWrite" => RunsUndoWrite(p)
          /\ job[p].pc = "undoReload" => RunsUndoReload(p)
        BY <1>1, <1>5, <1>7, Writing DEF Changing
    <2>2. QED
        BY <1>1, <1>2, <2>1 DEF RunsUndoWrite, RunsUndoReload
<1>8. InFlight(p)
    BY <1>1 DEF InFlight, Owning
<1>9. QED
    BY <1>1, <1>2, <1>4, <1>6, <1>7, <1>8, IInvOwner DEF Changing

LEMMA InvUndoFail ==
    ASSUME IInv, TypeOK', NEW p \in Procs, NEW f \in Files, undoFail(p, f)
    PROVE  IInv'
<1>0. TypeOK /\ MutexInv
    BY DEF IInv
<1>1. /\ job[p].pc \in {"undoWrite", "undoReload"}
      /\ incidents' = incidents \cup {"copy"} /\ applyMu' = applyMu
    BY DEF undoFail, Undoing
<1>2. /\ job'[p].pc = job[p].pc
      /\ \A q \in Procs \ {p} : job'[q] = job[q]
    BY <1>0 DEF undoFail, TypeOK, Job
<1>3. MutexInv'
    BY <1>0, <1>1, <1>2, MutexKept
<1>4. ~Calm'
    BY <1>1 DEF Calm
<1>5. InFlight(p)
    BY <1>1 DEF InFlight, Owning
<1>6. QED
    BY <1>1, <1>2, <1>3, <1>4, <1>5, IInvOwner DEF Changing

\* Once every written file is undone the disk is what it was.
LEMMA UndoneAll ==
    ASSUME TypeOK, NEW p \in Procs, Undoable(p), job[p].applied = {}
    PROVE  live = job[p].before
<1>1. live \in FileSet /\ job[p].before \in FileSet
    BY JobFields DEF TypeOK
<1>2. \A f \in Files : live[f] = job[p].before[f]
    BY DEF Undoable
<1>3. QED
    BY <1>1, <1>2, FilesEqual

LEMMA InvUndone ==
    ASSUME IInv, TypeOK', NEW p \in Procs, UndoneWrite(p) \/ RolledBack(p)
    PROVE  IInv'
<1>0. TypeOK /\ MutexInv
    BY DEF IInv
<1>1. /\ job[p].pc \in {"undoWrite", "undoReload"} /\ job[p].applied = {}
      /\ job[p].pc = "undoReload" => job[p].engs = {}
      /\ Return(p) /\ UNCHANGED <<live, running, backups, incidents>>
    BY DEF UndoneWrite, RolledBack, ReloadedAll, ReturnWith, host, rest
<1>2. /\ job'[p].pc = "idle" /\ job'[p].applied = {}
      /\ \A q \in Procs \ {p} : job'[q] = job[q]
    BY <1>0, <1>1, ReturnFields
<1>3. MutexInv'
    BY <1>0, <1>1, MutexReturn
<1>4. ASSUME Calm' PROVE Steady'
    <2>1. /\ Undoable(p)
          /\ job[p].pc = "undoWrite" => RunsUndoWrite(p)
          /\ job[p].pc = "undoReload" => RunsUndoReload(p)
        BY <1>1, <1>4, Writing DEF Changing, Calm
    <2>2. live = job[p].before
        BY <1>0, <1>1, <2>1, UndoneAll
    <2>3. "reload" \notin incidents =>
             \A e \in Engines : running[e] = View(e, live)
        BY <1>1, <2>1, <2>2 DEF RunsUndoWrite, RunsUndoReload
    <2>4. QED
        BY <1>1, <2>1, <2>2, <2>3 DEF Steady, Undoable
<1>5. InFlight(p)
    BY <1>1 DEF InFlight, Owning
<1>6. QED
    BY <1>1, <1>2, <1>3, <1>4, <1>5, IInvOwner DEF Changing

LEMMA InvReloadAgain ==
    ASSUME IInv, TypeOK', NEW p \in Procs, NEW e \in Engines,
           ReloadAgain(p, e)
    PROVE  IInv'
<1>0. TypeOK /\ MutexInv
    BY DEF IInv
<1>1. /\ job[p].pc = "undoReload" /\ job[p].applied = {} /\ e \in job[p].engs
      /\ UNCHANGED <<live, backups, applyMu>> /\ incidents \subseteq incidents'
    BY DEF ReloadAgain
<1>2. /\ job'[p].pc = "undoReload" /\ job'[p].staged = job[p].staged
      /\ job'[p].stamp = job[p].stamp /\ job'[p].before = job[p].before
      /\ job'[p].wasNew = job[p].wasNew /\ job'[p].applied = {}
      /\ job'[p].engs = job[p].engs \ {e}
      /\ \A q \in Procs \ {p} : job'[q] = job[q]
    <2>1. job \in [Procs -> Job] /\ job[p] \in Job
        BY <1>0 DEF TypeOK
    <2>2. job' = [job EXCEPT ![p].engs = @ \ {e}]
        BY DEF ReloadAgain
    <2>3. QED
        BY <1>1, <2>1, <2>2 DEF Job
<1>3. \A d \in Engines \ {e} : running'[d] = running[d]
    BY <1>0 DEF ReloadAgain, TypeOK
<1>4. "reload" \notin incidents' => running'[e] = View(e, live)
    BY <1>0 DEF ReloadAgain, TypeOK
<1>5. MutexInv'
    BY <1>0, <1>1, <1>2, MutexKept
<1>6. ASSUME Calm' PROVE Undoable(p)' /\ RunsUndoReload(p)'
    <2>1. Undoable(p) /\ RunsUndoReload(p)
        BY <1>1, <1>6, CalmBefore, Writing DEF Changing
    <2>2. live = job[p].before
        BY <1>0, <1>1, <2>1, UndoneAll
    <2>3. Undoable(p)'
        BY <1>1, <1>2, <2>1 DEF Undoable
    <2>4. RunsUndoReload(p)'
        BY <1>1, <1>2, <1>3, <1>4, <2>1, <2>2 DEF RunsUndoReload
    <2>5. QED
        BY <2>3, <2>4
<1>7. InFlight(p)
    BY <1>1 DEF InFlight, Owning
<1>8. QED
    BY <1>1, <1>2, <1>5, <1>6, <1>7, IInvOwner DEF Changing

LEMMA IInvNext == IInv /\ [Next]_vars => IInv'
<1> SUFFICES ASSUME IInv, [Next]_vars PROVE IInv'
    OBVIOUS
<1>1. TypeOK'
    BY TypeNext DEF IInv
<1>2. CASE UNCHANGED vars
    <2>1. UNCHANGED <<live, running, backups, incidents, applyMu, job>>
        BY <1>2 DEF vars, host, rest
    <2>2. MutexInv'
        BY <2>1 DEF IInv, MutexInv
    <2>3. QED
        BY <1>1, <2>1, <2>2, IInvQuiet
<1>3. ASSUME NEW p \in Procs, Install(p) PROVE IInv'
    BY <1>1, <1>3, InvBackupFile, InvAtomicWrite, InvBackupFail, InvStatLive,
       InvWriteFail, InvReload, InvReloadFail, InvFinish DEF Install
<1>4. ASSUME NEW p \in Procs, Rollback(p) PROVE IInv'
    BY <1>1, <1>4, InvUndoFile, InvUndoFail, InvUndone, InvReloadAgain
    DEF Rollback
<1>5. QED
    BY <1>1, <1>2, <1>3, <1>4, InvEditConfig, InvTick, InvCrash,
       InvDeleteBackup, InvCallApply, InvApplyStart, InvReadBackup DEF Next

\* The inductive invariant holds in every reachable state.
THEOREM Inductive == Spec => []IInv
BY IInvInit, IInvNext, PTL DEF Spec

\* Whatever write, reload, validation or backup fails inside an apply or a
\* restore, and wherever it fails, once no handler is at work every engine's
\* files on disk pass that engine's config test: no half-installed
\* configuration survives an ApplyAll or a Restore that returned.
THEOREM DiskAccepted == Spec => []RestDiskAccepted
<1>1. IInv => RestDiskAccepted
    BY DEF IInv, RestDiskAccepted, SteadyInv, Steady, AtRest, InFlight,
           Owning, Changing
<1>2. QED
    BY <1>1, Inductive, PTL

\* The rollback of ApplyAll and of Restore puts back exactly the files that
\* were live before the first write, the ones that did not exist included.
THEOREM RollbackRestores == Spec => []RollbackExact
<1>1. IInv => RollbackExact
    <2> SUFFICES ASSUME IInv, NEW p \in Procs, Undoing(p),
                        job[p].applied = {}, Calm
                 PROVE  live = job[p].before
        BY DEF RollbackExact
    <2>1. Undoable(p)
        BY Writing DEF Undoing, Changing
    <2>2. QED
        BY <2>1, UndoneAll DEF IInv
<1>2. QED
    BY <1>1, Inductive, PTL

\* Once no handler is at work every engine runs what its files say, unless a
\* reload failed again after a rollback.
THEOREM RunsDisk == Spec => []RestRunsDisk
<1>1. IInv => RestRunsDisk
    BY DEF IInv, RestRunsDisk, SteadyInv, Steady, AtRest, InFlight,
           Owning, Changing
<1>2. QED
    BY <1>1, Inductive, PTL

-----------------------------------------------------------------------------
(***************************************************************************)
(* Backups that can be restored.                                           *)
(***************************************************************************)

\* Disturbances and failed copies are never forgotten.
LEMMA SaneBefore ==
    ASSUME incidents \subseteq incidents', Sane'
    PROVE  Sane
BY DEF Sane, Calm

\* A directory that is empty has nothing to restore.
LEMMA EmptySound ==
    ASSUME NEW e
    PROVE  Sound(e, NoFiles)
BY NoFilesNone DEF Sound

\* What an engine's backup is worth depends on the engine's files.
LEMMA SoundSame ==
    ASSUME NEW e, NEW A, NEW B, Sound(e, A),
           \A f \in Files : EngineOf[f] = e => A[f] = B[f]
    PROVE  Sound(e, B)
<1>1. View(e, A) = View(e, B)
    BY ViewSame
<1>2. QED
    BY <1>1 DEF Sound, Validates

\* Files that are whole and pass the test can be restored.
LEMMA WholeSound ==
    ASSUME NEW e, NEW A, Whole(A), Validates(e, A)
    PROVE  Sound(e, A)
BY DEF Sound, Whole

\* Render writes the main files of every engine it renders for.
LEMMA RenderedIsWhole ==
    ASSUME NEW c \in Configs \cup {None}, NEW es
    PROVE  Whole(Rendered(c, es))
<1>1. \A f \in Files : Rendered(c, es)[f] =
         IF f \in Renders[c] /\ EngineOf[f] \in es THEN c ELSE None
    BY DEF Rendered
<1>2. CASE c = None
    <2>1. \A f \in Files : Rendered(c, es)[f] = None
        BY <1>1, <1>2
    <2>2. QED
        BY <2>1 DEF Whole
<1>3. CASE c \in Configs
    <2>1. c # None /\ Files \ Unchecked \subseteq Renders[c]
        BY <1>3, ConfigAssumption, DistinctAssumption
    <2>2. QED
        BY <1>1, <2>1 DEF Whole
<1>4. QED
    BY <1>2, <1>3

\* The invariant in the next state, part by part.
LEMMA BackParts ==
    ASSUME IInv',
           \A q \in Procs :
             /\ Sane' /\ job'[q].pc \in Owning \cup {"certs"} => Whole(job'[q].staged)
             /\ job'[q].pc = "backup" => job'[q].todo \subseteq Present(job'[q].staged),
           Sane' /\ (\A q \in Procs : job'[q].pc \notin Changing) => Whole(live'),
           \A q \in Procs : Sane' /\ job'[q].pc \in Changing => Whole(job'[q].before),
           Sane' => \A t \in Stamps, e \in Engines :
               Sound(e, backups'[t]) \/ \E q \in Procs : Copying(q, t, e)'
    PROVE  BackInv'
<1>1. StagedWhole'
    BY DEF StagedWhole, Owning, Whole, Present
<1>2. LiveWhole'
    BY DEF LiveWhole, Changing, Whole
<1>3. DirsSound'
    BY DEF DirsSound, Sound, Validates, View
<1>4. QED
    BY <1>1, <1>2, <1>3 DEF BackInv

(***************************************************************************)
(* A step outside the part where handlers own the files.                   *)
(***************************************************************************)
LEMMA BackQuiet ==
    ASSUME BackInv, IInv', incidents \subseteq incidents',
           Sane' => live' = live,
           \A t \in Stamps : backups'[t] \in {backups[t], NoFiles},
           \A q \in Procs :
             \/ job'[q] = job[q]
             \/ /\ job[q].pc \notin Owning /\ job'[q].pc \notin Owning
                /\ job'[q].pc = "certs" => Whole(job'[q].staged)
    PROVE  BackInv'
<1>0. StagedWhole /\ LiveWhole /\ DirsSound
    BY DEF BackInv
<1>1. Sane' => Sane
    BY SaneBefore
<1>2. ASSUME NEW q \in Procs
      PROVE  /\ Sane' /\ job'[q].pc \in Owning \cup {"certs"} => Whole(job'[q].staged)
             /\ job'[q].pc = "backup" => job'[q].todo \subseteq Present(job'[q].staged)
    <2>1. CASE job'[q] = job[q]
        BY <1>0, <1>1, <2>1 DEF StagedWhole
    <2>2. CASE /\ job[q].pc \notin Owning /\ job'[q].pc \notin Owning
               /\ job'[q].pc = "certs" => Whole(job'[q].staged)
        BY <2>2 DEF Owning
    <2>3. QED
        BY <2>1, <2>2
<1>3. \A q \in Procs : job'[q].pc \in Changing \/ job[q].pc \in Changing
                            => job'[q] = job[q]
    BY DEF Owning, Changing
<1>4. Sane' /\ (\A q \in Procs : job'[q].pc \notin Changing) => Whole(live')
    BY <1>0, <1>1, <1>3 DEF LiveWhole
<1>5. \A q \in Procs : Sane' /\ job'[q].pc \in Changing => Whole(job'[q].before)
    BY <1>0, <1>1, <1>3 DEF LiveWhole
<1>6. ASSUME Sane', NEW t \in Stamps, NEW e \in Engines
      PROVE  Sound(e, backups'[t]) \/ \E q \in Procs : Copying(q, t, e)'
    <2>1. CASE backups'[t] = NoFiles
        BY <2>1, EmptySound
    <2>2. CASE backups'[t] = backups[t]
        <3>1. CASE Sound(e, backups[t])
            BY <2>2, <3>1
        <3>2. ASSUME NEW q \in Procs, Copying(q, t, e) PROVE Copying(q, t, e)'
            <4>1. job'[q] = job[q]
                BY <3>2 DEF Copying, Owning
            <4>2. QED
                BY <3>2, <4>1 DEF Copying, EnginesOf, Present
        <3>3. QED
            BY <1>0, <1>1, <1>6, <3>1, <3>2 DEF DirsSound
    <2>3. QED
        BY <2>1, <2>2
<1>7. QED
    BY <1>2, <1>4, <1>5, <1>6, BackParts

(***************************************************************************)
(* A step of the handler that writes or undoes, or its return.             *)
(***************************************************************************)
LEMMA BackOwner ==
    ASSUME BackInv, IInv', NEW p \in Procs, job[p].pc \in Changing,
           incidents \subseteq incidents',
           \A q \in Procs \ {p} : job'[q] = job[q],
           \A t \in Stamps : backups'[t] \in {backups[t], NoFiles},
           \/ /\ job'[p].pc \in Changing /\ job'[p].staged = job[p].staged
              /\ job'[p].before = job[p].before
           \/ /\ job'[p].pc = "idle"
              /\ Sane' => Whole(live')
    PROVE  BackInv'
<1>0. StagedWhole /\ LiveWhole /\ DirsSound /\ OwnerInv
    BY DEF BackInv, IInv
<1>1. Sane' => Sane
    BY SaneBefore
<1>2. Sane => \A q \in Procs : q # p => job[q].pc \notin Owning
    BY <1>0, OthersOut DEF Sane, InFlight, Owning, Changing
<1>3. ASSUME NEW q \in Procs
      PROVE  /\ Sane' /\ job'[q].pc \in Owning \cup {"certs"} => Whole(job'[q].staged)
             /\ job'[q].pc = "backup" => job'[q].todo \subseteq Present(job'[q].staged)
    <2>1. CASE q # p
        BY <1>0, <1>1, <2>1 DEF StagedWhole
    <2>2. CASE q = p
        <3>1. job[p].pc \in Owning
            BY DEF Owning, Changing
        <3>2. CASE job'[p].pc = "idle"
            BY <2>2, <3>2 DEF Owning
        <3>3. CASE job'[p].pc \in Changing /\ job'[p].staged = job[p].staged
            BY <1>0, <1>1, <2>2, <3>1, <3>3 DEF StagedWhole, Changing
        <3>4. QED
            BY <3>2, <3>3
    <2>3. QED
        BY <2>1, <2>2
<1>4. Sane' /\ (\A q \in Procs : job'[q].pc \notin Changing) => Whole(live')
    BY DEF Changing
<1>5. ASSUME NEW q \in Procs, Sane', job'[q].pc \in Changing
      PROVE  Whole(job'[q].before)
    <2>1. job'[q].before = job[q].before /\ job[q].pc \in Changing
        BY <1>5 DEF Changing
    <2>2. QED
        BY <1>0, <1>1, <1>5, <2>1 DEF LiveWhole
<1>6. ASSUME Sane', NEW t \in Stamps, NEW e \in Engines
      PROVE  Sound(e, backups'[t])
    <2>1. CASE backups'[t] = NoFiles
        BY <2>1, EmptySound
    <2>2. CASE backups'[t] = backups[t]
        <3>1. \A q \in Procs : ~Copying(q, t, e)
            BY <1>1, <1>2, <1>6 DEF Copying, Owning, Changing
        <3>2. QED
            BY <1>0, <1>1, <1>6, <2>2, <3>1 DEF DirsSound
    <2>3. QED
        BY <2>1, <2>2
<1>7. QED
    BY <1>3, <1>4, <1>5, <1>6, BackParts

(***************************************************************************)
(* The environment and ApplyAll up to the backup.                          *)
(***************************************************************************)
LEMMA BackEnvironment ==
    ASSUME BackInv, IInv',
           \/ Tick \/ UNCHANGED vars
           \/ \E c \in Configs : EditConfig(c) \/ ImportConfig(c)
           \/ \E q \in Appliers : CallApply(q)
    PROVE  BackInv'
<1>0. TypeOK
    BY DEF BackInv, IInv
<1>1. UNCHANGED <<live, backups, incidents>>
    BY DEF Tick, vars, host, rest, EditConfig, ImportConfig, CallApply
<1>2. ASSUME NEW p \in Appliers, job[p].pc = "idle", job' = [job EXCEPT ![p].pc = "queued"]
      PROVE  \A q \in Procs : \/ job'[q] = job[q]
                              \/ /\ job[q].pc \notin Owning /\ job'[q].pc \notin Owning
                                 /\ job'[q].pc # "certs"
    BY <1>0, <1>2 DEF TypeOK, Job, Procs, Owning
<1>3. \A q \in Procs : \/ job'[q] = job[q]
                       \/ /\ job[q].pc \notin Owning /\ job'[q].pc \notin Owning
                          /\ job'[q].pc # "certs"
    BY <1>2 DEF Tick, vars, EditConfig, ImportConfig, CallApply
<1>4. QED
    BY <1>1, <1>3, BackQuiet

LEMMA BackCrash ==
    ASSUME BackInv, IInv', Crash
    PROVE  BackInv'
<1>1. /\ incidents' = incidents \cup (IF AtRest THEN {} ELSE {"crash"})
      /\ \A q \in Procs : job'[q] = Idle
      /\ backups' = backups
    BY DEF Crash
<1>2. CASE AtRest
    <2>1. live' = live
        BY <1>2 DEF Crash, AtRest, InFlight, Owning
    <2>2. \A q \in Procs : /\ job[q].pc \notin Owning /\ job'[q].pc \notin Owning
                           /\ job'[q].pc # "certs"
        BY <1>1, <1>2, IdleFields DEF AtRest, InFlight, Owning
    <2>3. QED
        BY <1>1, <2>1, <2>2, BackQuiet
<1>3. CASE ~AtRest
    <2>1. ~Sane'
        BY <1>1, <1>3 DEF Sane, Calm
    <2>2. \A q \in Procs : job'[q].pc # "backup"
        BY <1>1, IdleFields
    <2>3. QED
        BY <2>1, <2>2, BackParts
<1>4. QED
    BY <1>2, <1>3

LEMMA BackDelete ==
    ASSUME BackInv, IInv', NEW t \in Stamps, DeleteBackup(t)
    PROVE  BackInv'
<1>1. /\ backups' = [backups EXCEPT ![t] = NoFiles] /\ incidents \subseteq incidents'
      /\ UNCHANGED <<live, job>>
    BY DEF DeleteBackup
<1>2. \A u \in Stamps : backups'[u] \in {backups[u], NoFiles}
    BY <1>1 DEF BackInv, IInv, TypeOK
<1>3. QED
    BY <1>1, <1>2, BackQuiet

\* The steps of ApplyAll that leave the live files and the backups alone.
LEMMA BackStart ==
    ASSUME BackInv, IInv', NEW p \in Appliers,
           \/ LockAndList(p) \/ ListFail(p) \/ RecordVersion(p)
           \/ StageMissing(p) \/ StageReject(p) \/ StageAll(p) \/ writeCertFail(p)
    PROVE  BackInv'
<1>0. /\ TypeOK /\ job \in [Procs -> Job] /\ p \in Procs /\ job[p] \in Job
      /\ job[p].snap \in Configs \cup {None}
    BY DEF BackInv, IInv, TypeOK, Procs, Job
<1>1. UNCHANGED <<live, backups, incidents>>
    BY DEF LockAndList, ListFail, RecordVersion, StageMissing, StageReject, StageAll,
           writeCertFail, host, rest
<1>2. /\ job[p].pc \notin Owning /\ job'[p].pc \notin Owning
      /\ job'[p].pc = "certs" => Whole(job'[p].staged)
      /\ \A q \in Procs \ {p} : job'[q] = job[q]
    <2>1. CASE LockAndList(p)
        BY <1>0, <2>1 DEF LockAndList, Job, Owning
    <2>2. CASE RecordVersion(p)
        <3>1. job[p].pc = "listed"
            BY <2>2 DEF RecordVersion
        <3>2. CASE job' = [job EXCEPT ![p].pc = "stage", ![p].row = db]
            BY <1>0, <3>1, <3>2 DEF Job, Owning
        <3>3. CASE job' = [job EXCEPT ![p].pc = "stage"]
            BY <1>0, <3>1, <3>3 DEF Job, Owning
        <3>4. QED
            BY <2>2, <3>2, <3>3 DEF RecordVersion
    <2>3. CASE StageAll(p)
        <3>1. PICK missing : job' = [job EXCEPT
                ![p].pc = "certs", ![p].staged = Rendered(job[p].snap, Engines \ missing)]
            BY <2>3 DEF StageAll
        <3>2. /\ job'[p].staged = Rendered(job[p].snap, Engines \ missing)
              /\ job'[p].pc = "certs" /\ \A q \in Procs \ {p} : job'[q] = job[q]
            BY <1>0, <3>1 DEF Job
        <3>3. Whole(job'[p].staged)
            BY <1>0, <3>2, RenderedIsWhole
        <3>4. job[p].pc = "stage"
            BY <2>3 DEF StageAll
        <3>5. QED
            BY <3>2, <3>3, <3>4 DEF Owning
    <2>4. CASE ListFail(p) \/ StageMissing(p) \/ StageReject(p) \/ writeCertFail(p)
        <3>1. Return(p) /\ job[p].pc \in {"queued", "stage", "certs"}
            BY <2>4 DEF ListFail, StageMissing, StageReject, writeCertFail, ReturnWith
        <3>2. QED
            BY <1>0, <3>1, ReturnFields DEF Owning
    <2>5. QED
        BY <2>1, <2>2, <2>3, <2>4
<1>3. QED
    BY <1>1, <1>2, BackQuiet

(***************************************************************************)
(* The backup itself.                                                      *)
(***************************************************************************)

\* A handler begins its backup of files that are whole.
LEMMA BackOwn ==
    ASSUME BackInv, IInv', NEW p \in Procs, NEW fs \in FileSet, job[p].pc \notin Owning,
           Own(p, fs), UNCHANGED <<live, backups>>, Sane' => Whole(fs)
    PROVE  BackInv'
<1>0. /\ TypeOK /\ StagedWhole /\ LiveWhole /\ DirsSound
    BY DEF BackInv, IInv
<1>1. incidents \subseteq incidents' /\ (Sane' => Sane)
    BY SaneBefore DEF Own
<1>2. /\ job'[p].pc = "backup" /\ job'[p].staged = fs /\ job'[p].todo = Present(fs)
      /\ \A q \in Procs \ {p} : job'[q] = job[q]
    BY <1>0 DEF Own, TypeOK, Job
<1>3. ASSUME NEW q \in Procs
      PROVE  /\ Sane' /\ job'[q].pc \in Owning \cup {"certs"} => Whole(job'[q].staged)
             /\ job'[q].pc = "backup" => job'[q].todo \subseteq Present(job'[q].staged)
    BY <1>0, <1>1, <1>2 DEF StagedWhole
<1>4. \A q \in Procs : job'[q].pc \in Changing \/ job[q].pc \in Changing
                            => job'[q] = job[q]
    BY <1>2 DEF Owning, Changing
<1>5. Sane' /\ (\A q \in Procs : job'[q].pc \notin Changing) => Whole(live')
    BY <1>0, <1>1, <1>4 DEF LiveWhole
<1>6. \A q \in Procs : Sane' /\ job'[q].pc \in Changing => Whole(job'[q].before)
    BY <1>0, <1>1, <1>4 DEF LiveWhole
<1>7. ASSUME Sane', NEW t \in Stamps, NEW e \in Engines
      PROVE  Sound(e, backups'[t]) \/ \E q \in Procs : Copying(q, t, e)'
    <2>1. ASSUME NEW q \in Procs, Copying(q, t, e) PROVE Copying(q, t, e)'
        <3>1. job'[q] = job[q]
            BY <1>2, <2>1 DEF Copying, Owning
        <3>2. QED
            BY <2>1, <3>1 DEF Copying, EnginesOf, Present
    <2>2. QED
        BY <1>0, <1>1, <1>7, <2>1 DEF DirsSound
<1>8. QED
    BY <1>3, <1>5, <1>6, <1>7, BackParts

LEMMA BackCerts ==
    ASSUME BackInv, IInv', NEW p \in Appliers, writeCertFiles(p)
    PROVE  BackInv'
<1>0. p \in Procs /\ TypeOK
    BY DEF BackInv, IInv, Procs
<1>1. /\ job[p].pc = "certs" /\ Own(p, job[p].staged)
      /\ UNCHANGED <<live, backups>>
    BY DEF writeCertFiles
<1>2. job[p].staged \in FileSet
    BY <1>0, JobFields
<1>3. Sane' => Whole(job[p].staged)
    BY <1>0, <1>1, SaneBefore DEF BackInv, StagedWhole, Own
<1>4. job[p].pc \notin Owning
    BY <1>1 DEF Owning
<1>5. QED
    BY <1>0, <1>1, <1>2, <1>3, <1>4, BackOwn

\* Restore reads a directory nobody is writing, or overlaps with a handler.
LEMMA BackRead ==
    ASSUME BackInv, IInv', NEW p \in Restorers, NEW t \in Stamps, ReadBackup(p, t)
    PROVE  BackInv'
<1>0. p \in Procs /\ TypeOK /\ backups[t] \in FileSet
    BY DEF BackInv, IInv, TypeOK, Procs
<1>1. /\ job[p].pc = "idle" /\ Own(p, backups[t])
      /\ UNCHANGED <<live, backups>>
    BY DEF ReadBackup, host
<1>2. ASSUME Sane' PROVE Whole(backups[t])
    <2>1. Sane
        BY <1>1, <1>2, SaneBefore DEF Own
    <2>2. \A q \in Procs \ {p} : ~InFlight(q)
        BY <1>1, <1>2 DEF Own, Sane, Calm
    <2>3. \A q \in Procs, e \in Engines : ~Copying(q, t, e)
        BY <1>1, <2>2 DEF Copying, InFlight, Owning
    <2>4. \A e \in Engines : Sound(e, backups[t])
        BY <2>1, <2>3 DEF BackInv, DirsSound
    <2>5. \A f \in Files : EngineOf[f] \in Engines
        BY EngineOfAssumption
    <2>6. QED
        BY <2>4, <2>5 DEF Whole, Sound
<1>3. job[p].pc \notin Owning
    BY <1>1 DEF Owning
<1>4. QED
    BY <1>0, <1>1, <1>2, <1>3, BackOwn

LEMMA BackFile ==
    ASSUME BackInv, IInv', NEW p \in Procs, NEW f \in Files, backupFile(p, f)
    PROVE  BackInv'
<1>0. /\ TypeOK /\ StagedWhole /\ LiveWhole /\ DirsSound
      /\ job \in [Procs -> Job] /\ backups \in [Stamps -> FileSet] /\ job[p].stamp \in Stamps
    BY JobFields DEF BackInv, IInv, TypeOK
<1>1. /\ job[p].pc = "backup" /\ f \in job[p].todo
      /\ UNCHANGED <<live, incidents>>
    BY DEF backupFile, rest
<1>2. /\ job'[p].pc = "backup" /\ job'[p].staged = job[p].staged /\ job'[p].stamp = job[p].stamp
      /\ job'[p].todo = job[p].todo \ {f}
      /\ \A q \in Procs \ {p} : job'[q] = job[q]
    BY <1>0, <1>1 DEF backupFile, Job
<1>3. Sane' => Sane
    BY <1>1, SaneBefore
<1>4. ASSUME NEW q \in Procs
      PROVE  /\ Sane' /\ job'[q].pc \in Owning \cup {"certs"} => Whole(job'[q].staged)
             /\ job'[q].pc = "backup" => job'[q].todo \subseteq Present(job'[q].staged)
    <2>1. CASE q = p
        BY <1>0, <1>1, <1>2, <1>3, <2>1 DEF StagedWhole, Owning
    <2>2. CASE q # p
        BY <1>0, <1>2, <1>3, <2>2 DEF StagedWhole
    <2>3. QED
        BY <2>1, <2>2
<1>5. \A q \in Procs : job'[q].pc \in Changing \/ job[q].pc \in Changing
                            => job'[q] = job[q]
    BY <1>1, <1>2 DEF Changing
<1>6. Sane' /\ (\A q \in Procs : job'[q].pc \notin Changing) => Whole(live')
    BY <1>0, <1>1, <1>3, <1>5 DEF LiveWhole
<1>7. \A q \in Procs : Sane' /\ job'[q].pc \in Changing => Whole(job'[q].before)
    BY <1>0, <1>3, <1>5 DEF LiveWhole
<1>8. EngineOf[f] \in EnginesOf(job[p].staged)
    BY <1>0, <1>1 DEF StagedWhole, EnginesOf
<1>9. /\ \A t \in Stamps : t # job[p].stamp => backups'[t] = backups[t]
      /\ \A g \in Files : g # f => backups'[job[p].stamp][g] = backups[job[p].stamp][g]
    BY <1>0 DEF backupFile, FileSet
<1>10. ASSUME Sane', NEW t \in Stamps, NEW e \in Engines
       PROVE  Sound(e, backups'[t]) \/ \E q \in Procs : Copying(q, t, e)'
    <2>1. ASSUME NEW q \in Procs, Copying(q, t, e) PROVE Copying(q, t, e)'
        <3>1. /\ job'[q].pc = job[q].pc /\ job'[q].stamp = job[q].stamp
              /\ job'[q].staged = job[q].staged
            BY <1>1, <1>2, <2>1
        <3>2. QED
            BY <2>1, <3>1 DEF Copying, EnginesOf, Present
    <2>2. CASE t = job[p].stamp /\ e = EngineOf[f]
        BY <1>1, <1>8, <2>1, <2>2 DEF Copying
    <2>3. CASE Sound(e, backups[t]) /\ ~(t = job[p].stamp /\ e = EngineOf[f])
        <3>1. \A g \in Files : EngineOf[g] = e => backups[t][g] = backups'[t][g]
            BY <1>9, <2>3
        <3>2. QED
            BY <2>3, <3>1, SoundSame
    <2>4. QED
        BY <1>0, <1>3, <1>10, <2>1, <2>2, <2>3 DEF DirsSound
<1>11. QED
    BY <1>4, <1>6, <1>7, <1>10, BackParts

LEMMA BackFail ==
    ASSUME BackInv, IInv', NEW p \in Procs, backupFail(p)
    PROVE  BackInv'
<1>0. TypeOK /\ StagedWhole
    BY DEF BackInv, IInv
<1>1. Return(p) /\ incidents' = incidents \cup {"backup"}
    BY DEF backupFail, ReturnWith
<1>2. ~Sane'
    BY <1>1 DEF Sane
<1>3. job'[p].pc = "idle" /\ \A q \in Procs \ {p} : job'[q] = job[q]
    BY <1>0, <1>1, ReturnFields
<1>4. \A q \in Procs : job'[q].pc = "backup" => job'[q].todo \subseteq Present(job'[q].staged)
    BY <1>0, <1>3 DEF StagedWhole
<1>5. QED
    BY <1>2, <1>4, BackParts

\* When every file is copied the directory holds, for each engine that is
\* about to change, the files that are live now.
LEMMA BackStat ==
    ASSUME BackInv, IInv', NEW p \in Procs, StatLive(p)
    PROVE  BackInv'
<1>0. /\ TypeOK /\ StagedWhole /\ LiveWhole /\ DirsSound /\ OwnerInv /\ IInv
      /\ job \in [Procs -> Job] /\ backups \in [Stamps -> FileSet] /\ job[p].stamp \in Stamps
    BY JobFields DEF BackInv, IInv, TypeOK
<1>1. /\ job[p].pc = "backup" /\ job[p].todo = {}
      /\ UNCHANGED <<live, backups, incidents>>
    BY DEF StatLive, BackedUp, host, rest
<1>2. /\ job'[p].pc = "write" /\ job'[p].staged = job[p].staged /\ job'[p].before = live
      /\ \A q \in Procs \ {p} : job'[q] = job[q]
    BY <1>0 DEF StatLive, Job
<1>3. Sane' => Sane
    BY <1>1, SaneBefore
<1>4. Sane => \A q \in Procs : q # p => job[q].pc \notin Owning
    BY <1>0, <1>1, OthersOut DEF Sane, InFlight, Owning
<1>5. ASSUME NEW q \in Procs
      PROVE  /\ Sane' /\ job'[q].pc \in Owning \cup {"certs"} => Whole(job'[q].staged)
             /\ job'[q].pc = "backup" => job'[q].todo \subseteq Present(job'[q].staged)
    <2>1. CASE q = p
        BY <1>0, <1>1, <1>2, <1>3, <2>1 DEF StagedWhole, Owning
    <2>2. CASE q # p
        BY <1>0, <1>2, <1>3, <2>2 DEF StagedWhole
    <2>3. QED
        BY <2>1, <2>2
<1>6. ASSUME Sane PROVE Whole(live) /\ Steady /\ Copied(p)
    <2>1. \A q \in Procs : job[q].pc \notin Changing
        BY <1>1, <1>4, <1>6 DEF Owning, Changing
    <2>2. QED
        BY <1>0, <1>1, <1>6, <2>1 DEF LiveWhole, IInv, SteadyInv, BackupInv, Sane
<1>7. Sane' /\ (\A q \in Procs : job'[q].pc \notin Changing) => Whole(live')
    BY <1>2 DEF Changing
<1>8. ASSUME NEW q \in Procs, Sane', job'[q].pc \in Changing
      PROVE  Whole(job'[q].before)
    <2>1. CASE q = p
        BY <1>2, <1>3, <1>6, <1>8, <2>1
    <2>2. CASE q # p
        BY <1>0, <1>2, <1>3, <1>8, <2>2 DEF LiveWhole
    <2>3. QED
        BY <2>1, <2>2
<1>9. ASSUME Sane', NEW t \in Stamps, NEW e \in Engines
      PROVE  Sound(e, backups[t])
    <2>0. Whole(live) /\ Steady /\ Copied(p)
        BY <1>3, <1>6, <1>9
    <2>1. CASE Sound(e, backups[t])
        BY <2>1
    <2>2. ASSUME NEW q \in Procs, Copying(q, t, e) PROVE Sound(e, backups[t])
        <3>1. q = p /\ t = job[p].stamp /\ e \in EnginesOf(job[p].staged)
            BY <1>3, <1>4, <1>9, <2>2 DEF Copying, Owning
        <3>2. Whole(job[p].staged)
            BY <1>0, <1>1, <1>3, <1>9 DEF StagedWhole, Owning
        <3>3. PICK h \in Files : EngineOf[h] = e /\ job[p].staged[h] # None
            BY <3>1 DEF EnginesOf, Present
        <3>4. ASSUME NEW g \in Files, job[p].staged[g] # None
              PROVE  backups[t][g] = live[g]
            <4>1. g \in Present(job[p].staged) \ job[p].todo
                BY <1>1, <3>4 DEF Present
            <4>2. CASE live[g] # None
                BY <2>0, <3>1, <4>1, <4>2 DEF Copied
            <4>3. CASE live[g] = None
                BY <2>0, <4>3 DEF Steady
            <4>4. QED
                BY <4>2, <4>3
        <3>5. ASSUME NEW g \in Files, EngineOf[g] = e, g \notin Unchecked
              PROVE  backups[t][g] = live[g]
            <4>1. job[p].staged[g] # None
                BY <3>2, <3>3, <3>5 DEF Whole
            <4>2. QED
                BY <3>4, <4>1
        <3>6. View(e, backups[t]) = View(e, live)
            BY <3>5 DEF View
        <3>7. Validates(e, backups[t])
            BY <2>0, <3>6 DEF Steady, Validates
        <3>8. ASSUME NEW g \in Files, EngineOf[g] = e, backups[t][g] # None,
                     NEW h2 \in Files \ Unchecked, EngineOf[h2] = e
              PROVE  backups[t][h2] # None
            <4>1. live[g] # None
                BY <2>0, <3>8 DEF Steady
            <4>2. live[h2] # None
                BY <2>0, <3>8, <4>1 DEF Whole
            <4>3. QED
                BY <3>5, <3>8, <4>2
        <3>9. QED
            BY <3>7, <3>8 DEF Sound
    <2>3. QED
        BY <1>0, <1>3, <1>9, <2>1, <2>2 DEF DirsSound
<1>10. Sane' => \A t \in Stamps, e \in Engines :
               Sound(e, backups'[t]) \/ \E q \in Procs : Copying(q, t, e)'
    BY <1>1, <1>9
<1>11. QED
    BY <1>5, <1>7, <1>8, <1>10, BackParts

(***************************************************************************)
(* Writing and undoing.                                                    *)
(***************************************************************************)
LEMMA BackWork ==
    ASSUME BackInv, IInv', NEW p \in Procs,
           \/ \E f \in Files : atomicWrite(p, f) \/ undoFile(p, f) \/ undoFail(p, f)
           \/ writeFail(p)
           \/ \E e \in Engines : Reload(p, e) \/ reloadFail(p, e) \/ ReloadAgain(p, e)
    PROVE  BackInv'
<1>0. job \in [Procs -> Job] /\ job[p] \in Job
    BY DEF BackInv, IInv, TypeOK
<1>1. /\ job[p].pc \in Changing /\ incidents \subseteq incidents'
      /\ backups' = backups
    BY DEF atomicWrite, undoFile, undoFail, writeFail, Reload, reloadFail, ReloadAgain,
           Written, Undoing, Changing, host, rest
<1> DEFINE Goes == /\ job'[p].pc \in Changing /\ job'[p].staged = job[p].staged
                   /\ job'[p].before = job[p].before
                   /\ \A q \in Procs \ {p} : job'[q] = job[q]
<1>2. Goes
    <2>1. ASSUME NEW f \in Files, atomicWrite(p, f) PROVE Goes
        BY <1>0, <1>1, <2>1 DEF atomicWrite, Job
    <2>2. ASSUME NEW f \in Files, undoFile(p, f) \/ undoFail(p, f) PROVE Goes
        <3>1. job' = [job EXCEPT ![p].applied = @ \ {f}]
            BY <2>2 DEF undoFile, undoFail
        <3>2. QED
            BY <1>0, <1>1, <3>1 DEF Job
    <2>3. ASSUME writeFail(p) PROVE Goes
        BY <1>0, <2>3 DEF writeFail, Job, Changing
    <2>4. ASSUME NEW e \in Engines, Reload(p, e) \/ ReloadAgain(p, e) PROVE Goes
        <3>1. job' = [job EXCEPT ![p].engs = @ \ {e}]
            BY <2>4 DEF Reload, ReloadAgain
        <3>2. QED
            BY <1>0, <1>1, <3>1 DEF Job
    <2>5. ASSUME NEW e \in Engines, reloadFail(p, e) PROVE Goes
        BY <1>0, <2>5 DEF reloadFail, Job, Changing
    <2>6. QED
        BY <2>1, <2>2, <2>3, <2>4, <2>5
<1>3. QED
    BY <1>1, <1>2, BackOwner

\* What is written over whole files is whole.
LEMMA BackFinish ==
    ASSUME BackInv, IInv', NEW p \in Procs, Finish(p)
    PROVE  BackInv'
<1>0. /\ TypeOK /\ IInv /\ StagedWhole /\ LiveWhole
    BY DEF BackInv, IInv
<1>1. /\ job[p].pc = "write" /\ job[p].todo = {} /\ Return(p)
      /\ UNCHANGED <<live, incidents>>
      /\ backups' = Pruned(backups) \/ backups' = backups
    BY DEF Finish, Written, ReturnWith
<1>2. job'[p].pc = "idle" /\ \A q \in Procs \ {p} : job'[q] = job[q]
    BY <1>0, <1>1, ReturnFields
<1>3. \A t \in Stamps : backups'[t] \in {backups[t], NoFiles}
    BY <1>0, <1>1, PrunedKeeps DEF TypeOK
<1>4. ASSUME Sane' PROVE Whole(live')
    <2>1. Sane
        BY <1>1, <1>4, SaneBefore
    <2>2. Whole(job[p].before) /\ Whole(job[p].staged)
        BY <1>0, <1>1, <2>1 DEF LiveWhole, StagedWhole, Changing, Owning
    <2>3. Undoable(p) /\ RunsWriting(p)
        BY <1>0, <1>1, <2>1, Writing DEF Sane, Changing
    <2>4. \A f \in Files : f \in job[p].applied <=> job[p].staged[f] # None
        BY <1>1, <2>3 DEF Undoable, RunsWriting, Present
    <2>5. \A f \in Files : live[f] = IF f \in job[p].applied THEN job[p].staged[f]
                                                             ELSE job[p].before[f]
        BY <2>3 DEF Undoable
    <2>6. \A f \in Files : live[f] # None <=> job[p].staged[f] # None \/ job[p].before[f] # None
        <3>1. ASSUME NEW f \in Files, job[p].staged[f] = None
              PROVE  live[f] = job[p].before[f]
            BY <2>4, <2>5, <3>1
        <3>2. QED
            BY <2>4, <2>5, <3>1
    <2>7. Whole(live)
        BY <2>2, <2>6 DEF Whole
    <2>8. QED
        BY <1>1, <2>7
<1>5. job[p].pc \in Changing
    BY <1>1 DEF Changing
<1>6. QED
    BY <1>1, <1>2, <1>3, <1>4, <1>5, BackOwner

LEMMA BackUndone ==
    ASSUME BackInv, IInv', NEW p \in Procs, UndoneWrite(p) \/ RolledBack(p)
    PROVE  BackInv'
<1>0. /\ TypeOK /\ IInv /\ LiveWhole
    BY DEF BackInv, IInv
<1>1. /\ job[p].pc \in Changing /\ job[p].applied = {}
      /\ Return(p) /\ UNCHANGED <<live, incidents, backups>>
    BY DEF UndoneWrite, RolledBack, ReturnWith, Changing, host, rest
<1>2. job'[p].pc = "idle" /\ \A q \in Procs \ {p} : job'[q] = job[q]
    BY <1>0, <1>1, ReturnFields
<1>3. ASSUME Sane' PROVE Whole(live')
    <2>1. Sane
        BY <1>1, <1>3, SaneBefore
    <2>2. Whole(job[p].before) /\ Undoable(p)
        BY <1>0, <1>1, <2>1, Writing DEF LiveWhole, Sane
    <2>3. QED
        BY <1>0, <1>1, <2>2, UndoneAll
<1>4. QED
    BY <1>1, <1>2, <1>3, BackOwner

LEMMA BackInit == Init => BackInv
<1> SUFFICES ASSUME Init PROVE BackInv
    OBVIOUS
<1>1. IInv
    BY IInvInit
<1>2. \A p \in Procs : job[p].pc = "idle"
    BY IdleFields DEF Init
<1>3. StagedWhole
    BY <1>2 DEF StagedWhole, Owning
<1>4. Whole(live)
    <2>1. CASE certDisk = None
        BY <2>1, NoFilesNone DEF Init, Whole
    <2>2. CASE certDisk # None
        BY <2>2, RenderedIsWhole DEF Init
    <2>3. QED
        BY <2>1, <2>2
<1>5. LiveWhole
    BY <1>2, <1>4 DEF LiveWhole, Changing
<1>6. DirsSound
    BY EmptySound DEF Init, DirsSound
<1>7. QED
    BY <1>1, <1>3, <1>5, <1>6 DEF BackInv

LEMMA BackNext == BackInv /\ [Next]_vars => BackInv'
<1> SUFFICES ASSUME BackInv, [Next]_vars PROVE BackInv'
    OBVIOUS
<1>1. IInv'
    BY IInvNext DEF BackInv
<1>2. ASSUME NEW p \in Procs, Install(p) PROVE BackInv'
    BY <1>1, <1>2, BackFile, BackFail, BackStat, BackWork, BackFinish DEF Install
<1>3. ASSUME NEW p \in Procs, Rollback(p) PROVE BackInv'
    BY <1>1, <1>3, BackWork, BackUndone DEF Rollback
<1>4. ASSUME NEW p \in Appliers, ApplyStart(p) PROVE BackInv'
    BY <1>1, <1>4, BackStart, BackCerts DEF ApplyStart
<1>5. QED
    BY <1>1, <1>2, <1>3, <1>4, BackEnvironment, BackCrash, BackDelete, BackRead DEF Next

\* Every directory Backups.List offers can be restored: whatever applies and
\* restores wrote, pruned, deleted or rolled back, and although backups of one
\* second share a directory, each directory holds for every engine it has
\* files of a set its config test accepts, as long as no copy into a backup
\* failed and the handlers were left alone (Calm).
THEOREM BackupsRestorable == Spec => []BackupsAccepted
<1>1. BackInv => BackupsAccepted
    <2> SUFFICES ASSUME BackInv, AtRest, Sane, NEW t \in Stamps,
                        NEW e \in EnginesOf(backups[t])
                 PROVE  Validates(e, backups[t])
        BY DEF BackupsAccepted, Sane
    <2>1. PICK g \in Files : EngineOf[g] = e /\ backups[t][g] # None
        BY DEF EnginesOf, Present
    <2>2. e \in Engines
        BY <2>1, EngineOfAssumption
    <2>3. \A p \in Procs : ~Copying(p, t, e)
        BY DEF AtRest, InFlight, Owning, Copying
    <2>4. Sound(e, backups[t])
        BY <2>2, <2>3 DEF BackInv, DirsSound
    <2>5. QED
        BY <2>1, <2>4 DEF Sound
<1>2. QED
    BY <1>1, BackInit, BackNext, PTL DEF Spec
-----------------------------------------------------------------------------
(***************************************************************************)
(* The deployment pipeline implements AtomicDeploy: every step of a        *)
(* handler is a step of the abstract deployment or changes nothing of it.  *)
(***************************************************************************)

\* What a step has to be.
AbstractStep == Atomic!Next \/ UNCHANGED <<db, Disk, Listed>>

\* What is left of the invariant once IInv' is known.
RefineInvKept == Calm' /\ ReadInv' /\ StagedInv'

-----------------------------------------------------------------------------
(***************************************************************************)
(* The abstract state in the terms of one handler.                         *)
(***************************************************************************)

\* The disk as the holder of applyMu presents it.
Presented(p) == IF job[p].pc \in Changing THEN job[p].before ELSE live

LEMMA WithoutRestores ==
  ASSUME Undisturbed
  PROVE  Procs = Appliers
BY DEF Undisturbed, Procs

LEMMA Held ==
  ASSUME NEW p \in Appliers, applyMu = p
  PROVE  Disk = Presented(p) /\ Listed = job[p].snap
PROOF
<1>1. applyMu # Free
  BY DistinctAssumption DEF Procs
<1> QED BY <1>1 DEF Disk, Listed, Presented, Changing

LEMMA HeldNext ==
  ASSUME NEW p \in Appliers, applyMu' = p
  PROVE  Disk' = Presented(p)' /\ Listed' = job'[p].snap
PROOF
<1>1. applyMu' # Free
  BY DistinctAssumption DEF Procs
<1> QED BY <1>1 DEF Disk, Listed, Presented, Changing

LEMMA NotHeld ==
  ASSUME applyMu = Free
  PROVE  Disk = live /\ Listed = None
BY DEF Disk, Listed

LEMMA NotHeldNext ==
  ASSUME applyMu' = Free
  PROVE  Disk' = live' /\ Listed' = None
BY DEF Disk, Listed

\* Who holds applyMu, and that everybody else is out.
LEMMA Holder ==
  ASSUME RefineInv, NEW p \in Appliers, job[p].pc \notin {"idle", "queued"}
  PROVE  /\ applyMu = p /\ job[p].snap \in Configs /\ job[p].snap # None
         /\ \A q \in Appliers : q # p => job[q].pc \in {"idle", "queued"}
BY DistinctAssumption DEF RefineInv, IInv, MutexInv, ReadInv

-----------------------------------------------------------------------------
(***************************************************************************)
(* Steps of the holder that keep the lock, and its return.                 *)
(***************************************************************************)
LEMMA HeldStep ==
  ASSUME RefineInv, NEW p \in Appliers, job[p].pc \notin {"idle", "queued"},
         applyMu' = applyMu, db' = db,
         \A q \in Appliers : q # p => job'[q] = job[q],
         job'[p].pc \notin {"idle", "queued"}, job'[p].snap = job[p].snap,
         job'[p].pc \in Owning \cup {"certs"} => Wholly(job[p].snap, job'[p].staged),
         Presented(p)' = Presented(p)
  PROVE  ReadInv' /\ StagedInv' /\ AbstractStep
PROOF
<1>1. applyMu = p /\ job[p].snap \in Configs
  BY Holder
<1>2. ReadInv'
  BY <1>1 DEF RefineInv, ReadInv
<1>3. ASSUME NEW q \in Appliers, job'[q].pc \in Owning \cup {"certs"}
      PROVE  Wholly(job'[q].snap, job'[q].staged)
  <2>1. CASE q = p
    BY <2>1, <1>3
  <2>2. CASE q # p
    BY <2>2, <1>3 DEF RefineInv, StagedInv
  <2> QED BY <2>1, <2>2
<1>4. StagedInv'
  BY <1>3 DEF StagedInv, Wholly, EnginesOf, Present, Owning
<1>5. Disk' = Disk /\ Listed' = Listed
  BY <1>1, Held, HeldNext
<1> QED BY <1>2, <1>4, <1>5 DEF AbstractStep

LEMMA Returned ==
  ASSUME Undisturbed, RefineInv, NEW p \in Appliers, job[p].pc \notin {"idle", "queued"},
         Return(p), UNCHANGED <<live, db>>
  PROVE  /\ ReadInv' /\ StagedInv'
         /\ Disk = Presented(p) /\ Listed = job[p].snap /\ Listed # None
         /\ Disk' = live /\ Listed' = None
PROOF
<1>1. applyMu = p /\ job[p].snap # None
  BY Holder
<1>2. applyMu' = Free
  BY DEF Return
<1>3. /\ job'[p].pc = "idle"
      /\ \A q \in Appliers : q # p => job'[q] = job[q]
  BY WithoutRestores, ReturnFields DEF RefineInv, IInv
<1>4. ReadInv'
  BY <1>3 DEF RefineInv, ReadInv
<1>5. StagedInv'
  <2>1. ASSUME NEW q \in Appliers, job'[q].pc \in Owning \cup {"certs"}
        PROVE  Wholly(job'[q].snap, job'[q].staged)
    BY <1>3, <2>1 DEF RefineInv, StagedInv, Owning
  <2> QED BY <2>1 DEF StagedInv, Wholly, EnginesOf, Present, Owning
<1> QED BY <1>1, <1>2, <1>4, <1>5, Held, NotHeldNext

\* A handler that returns with the files as it found them.
LEMMA AbortStep ==
  ASSUME Undisturbed, RefineInv, NEW p \in Appliers, job[p].pc \notin {"idle", "queued"},
         Return(p), UNCHANGED <<live, db>>, Presented(p) = live
  PROVE  ReadInv' /\ StagedInv' /\ AbstractStep
PROOF
<1>1. /\ ReadInv' /\ StagedInv'
      /\ Disk' = Disk /\ Listed # None /\ Listed' = None
  BY Returned
<1>2. Atomic!Abort
  BY <1>1 DEF Atomic!Abort
<1> QED BY <1>1, <1>2 DEF AbstractStep, Atomic!Next

\* Steps that move nobody past the lock.
LEMMA OutsideStep ==
  ASSUME RefineInv, UNCHANGED <<live, applyMu>>,
         \A q \in Appliers : \/ job'[q] = job[q]
                             \/ /\ job[q].pc \in {"idle", "queued"}
                                /\ job'[q].pc \in {"idle", "queued"}
  PROVE  ReadInv' /\ StagedInv' /\ Disk' = Disk /\ Listed' = Listed
PROOF
<1>1. ReadInv'
  BY DEF RefineInv, ReadInv
<1>2. StagedInv'
  <2>1. ASSUME NEW q \in Appliers, job'[q].pc \in Owning \cup {"certs"}
        PROVE  Wholly(job'[q].snap, job'[q].staged)
    BY <2>1 DEF RefineInv, StagedInv, Owning
  <2> QED BY <2>1 DEF StagedInv, Wholly, EnginesOf, Present, Owning
<1>3. CASE applyMu = Free
  BY <1>1, <1>2, <1>3, NotHeld, NotHeldNext
<1>4. CASE applyMu # Free
  <2>1. applyMu \in Appliers
    BY <1>4 DEF RefineInv, IInv, TypeOK
  <2>2. job'[applyMu] = job[applyMu]
    BY <2>1 DEF RefineInv, IInv, MutexInv
  <2> DEFINE p == applyMu
  <2>3. Disk = Presented(p) /\ Listed = job[p].snap
    BY <2>1, Held
  <2>4. Disk' = IF job'[p].pc \in Changing THEN job'[p].before ELSE live'
    BY <1>4 DEF Disk, Changing
  <2>5. Listed' = job'[p].snap
    BY <1>4 DEF Listed
  <2> QED BY <1>1, <1>2, <2>2, <2>3, <2>4, <2>5 DEF Presented
<1> QED BY <1>1, <1>2, <1>3, <1>4

-----------------------------------------------------------------------------
(***************************************************************************)
(* The environment and ApplyAll up to the backup.                          *)
(***************************************************************************)
LEMMA StepEditConfig ==
  ASSUME RefineInv, NEW c \in Configs, EditConfig(c) \/ ImportConfig(c)
  PROVE  RefineInvKept /\ AbstractStep
PROOF
<1>1. db' = c /\ UNCHANGED <<live, applyMu, incidents>>
  BY DEF EditConfig, ImportConfig, host
<1>2. \A q \in Appliers : \/ job'[q] = job[q]
                          \/ /\ job[q].pc \in {"idle", "queued"}
                             /\ job'[q].pc \in {"idle", "queued"}
  <2>1. CASE job' = job
    BY <2>1
  <2>2. ASSUME NEW p \in Appliers, job[p].pc = "idle", job' = [job EXCEPT ![p].pc = "queued"]
        PROVE  \A q \in Appliers : \/ job'[q] = job[q]
                                   \/ /\ job[q].pc \in {"idle", "queued"}
                                      /\ job'[q].pc \in {"idle", "queued"}
    BY <2>2 DEF RefineInv, IInv, TypeOK, Job, Procs
  <2> QED BY <2>1, <2>2 DEF EditConfig, ImportConfig
<1>3. ReadInv' /\ StagedInv' /\ Disk' = Disk /\ Listed' = Listed
  BY <1>1, <1>2, OutsideStep
<1>4. Calm'
  BY <1>1 DEF RefineInv, Calm
<1>5. Atomic!Edit
  BY <1>1, <1>3 DEF Atomic!Edit
<1> QED BY <1>3, <1>4, <1>5 DEF RefineInvKept, AbstractStep, Atomic!Next

LEMMA StepTick ==
  ASSUME RefineInv, Tick \/ UNCHANGED vars
  PROVE  RefineInvKept /\ AbstractStep
PROOF
<1>1. UNCHANGED <<live, applyMu, incidents, db, job>>
  BY DEF Tick, vars, host, rest
<1>2. ReadInv' /\ StagedInv' /\ Disk' = Disk /\ Listed' = Listed
  BY <1>1, OutsideStep
<1>3. Calm'
  BY <1>1 DEF RefineInv, Calm
<1> QED BY <1>1, <1>2, <1>3 DEF RefineInvKept, AbstractStep

LEMMA StepCallApply ==
  ASSUME RefineInv, NEW p \in Appliers, CallApply(p)
  PROVE  RefineInvKept /\ AbstractStep
PROOF
<1>1. UNCHANGED <<live, applyMu, incidents, db>>
  BY DEF CallApply, host, rest
<1>2. \A q \in Appliers : \/ job'[q] = job[q]
                          \/ /\ job[q].pc \in {"idle", "queued"}
                             /\ job'[q].pc \in {"idle", "queued"}
  BY DEF CallApply, RefineInv, IInv, TypeOK, Job, Procs
<1>3. ReadInv' /\ StagedInv' /\ Disk' = Disk /\ Listed' = Listed
  BY <1>1, <1>2, OutsideStep
<1>4. Calm'
  BY <1>1 DEF RefineInv, Calm
<1> QED BY <1>1, <1>3, <1>4 DEF RefineInvKept, AbstractStep

\* ListMappings begins the abstract deployment; a query that fails does not.
LEMMA StepLockAndList ==
  ASSUME RefineInv, NEW p \in Appliers, LockAndList(p)
  PROVE  RefineInvKept /\ AbstractStep
PROOF
<1>1. /\ applyMu = Free /\ applyMu' = p
      /\ UNCHANGED <<live, incidents, db>>
  BY DEF LockAndList, host, rest
<1>2. /\ job'[p].pc = "listed" /\ job'[p].snap = db
      /\ \A q \in Appliers : q # p => job'[q] = job[q]
  BY DEF LockAndList, RefineInv, IInv, TypeOK, Job, Procs
<1>3. ReadInv'
  BY <1>1, <1>2 DEF RefineInv, IInv, TypeOK, ReadInv
<1>4. StagedInv'
  <2>1. ASSUME NEW q \in Appliers, job'[q].pc \in Owning \cup {"certs"}
        PROVE  Wholly(job'[q].snap, job'[q].staged)
    BY <1>2, <2>1 DEF RefineInv, StagedInv, Owning
  <2> QED BY <2>1 DEF StagedInv, Wholly, EnginesOf, Present, Owning
<1>5. Calm'
  BY <1>1 DEF RefineInv, Calm
<1>6. Disk' = live /\ Listed' = db
  BY <1>1, <1>2, HeldNext DEF Presented, Changing
<1>7. Atomic!Begin
  BY <1>1, <1>6, NotHeld DEF Atomic!Begin
<1> QED BY <1>3, <1>4, <1>5, <1>7 DEF RefineInvKept, AbstractStep, Atomic!Next

LEMMA StepListFail ==
  ASSUME Undisturbed, RefineInv, NEW p \in Appliers, ListFail(p)
  PROVE  RefineInvKept /\ AbstractStep
PROOF
<1>1. /\ Return(p) /\ job[p].pc = "queued" /\ applyMu = Free
      /\ UNCHANGED <<live, incidents, db>>
  BY DEF ListFail, host, rest
<1>2. /\ job'[p].pc = "idle" /\ applyMu' = applyMu
      /\ \A q \in Appliers : q # p => job'[q] = job[q]
  BY <1>1, WithoutRestores, ReturnFields DEF RefineInv, IInv, Return
<1>3. ReadInv' /\ StagedInv' /\ Disk' = Disk /\ Listed' = Listed
  BY <1>1, <1>2, OutsideStep
<1>4. Calm'
  BY <1>1 DEF RefineInv, Calm
<1> QED BY <1>1, <1>3, <1>4 DEF RefineInvKept, AbstractStep

LEMMA StepRecordVersion ==
  ASSUME RefineInv, NEW p \in Appliers, RecordVersion(p)
  PROVE  RefineInvKept /\ AbstractStep
PROOF
<1>1. /\ job[p].pc = "listed"
      /\ UNCHANGED <<live, incidents, db, applyMu>>
  BY DEF RecordVersion, host
<1>2. /\ job'[p].pc = "stage" /\ job'[p].snap = job[p].snap
      /\ \A q \in Appliers : q # p => job'[q] = job[q]
  <2>1. job \in [Procs -> Job] /\ p \in Procs /\ Appliers \subseteq Procs
    BY DEF RefineInv, IInv, TypeOK, Procs
  <2>2. CASE job' = [job EXCEPT ![p].pc = "stage", ![p].row = db]
    BY <2>1, <2>2 DEF Job
  <2>3. CASE job' = [job EXCEPT ![p].pc = "stage"]
    BY <2>1, <2>3 DEF Job
  <2> QED BY <2>2, <2>3 DEF RecordVersion
<1>3. Presented(p)' = Presented(p)
  BY <1>1, <1>2 DEF Presented, Changing
<1>4. ReadInv' /\ StagedInv' /\ AbstractStep
  BY <1>1, <1>2, <1>3, HeldStep DEF Owning
<1>5. Calm'
  BY <1>1 DEF RefineInv, Calm
<1> QED BY <1>4, <1>5 DEF RefineInvKept

\* What Render produces for some engines is whole.
LEMMA RenderedWhole ==
  ASSUME NEW c \in Configs, NEW es
  PROVE  Wholly(c, Rendered(c, es))
PROOF
<1> DEFINE fs == Rendered(c, es)
<1>1. \A f \in Files : fs[f] = IF f \in Renders[c] /\ EngineOf[f] \in es THEN c ELSE None
  BY DEF Rendered
<1>2. c # None
  BY DistinctAssumption
<1> HIDE DEF fs
<1>3. EnginesOf(fs) = {EngineOf[f] : f \in {g \in Files : g \in Renders[c] /\ EngineOf[g] \in es}}
  BY <1>1, <1>2 DEF EnginesOf, Present
<1>4. \A f \in Files : f \in Renders[c] => (EngineOf[f] \in EnginesOf(fs) <=> EngineOf[f] \in es)
  BY <1>3
<1>5. Wholly(c, fs)
  BY <1>1, <1>4 DEF Wholly
<1> QED BY <1>5 DEF fs

LEMMA StepStageAll ==
  ASSUME RefineInv, NEW p \in Appliers, StageAll(p)
  PROVE  RefineInvKept /\ AbstractStep
PROOF
<1>1. /\ job[p].pc = "stage"
      /\ UNCHANGED <<live, incidents, db, applyMu>>
  BY DEF StageAll, host, rest
<1>2. PICK missing : job' = [job EXCEPT ![p].pc = "certs",
                                        ![p].staged = Rendered(job[p].snap, Engines \ missing)]
  BY DEF StageAll
<1> DEFINE fs == Rendered(job[p].snap, Engines \ missing)
<1>3. /\ job'[p].pc = "certs" /\ job'[p].snap = job[p].snap /\ job'[p].staged = fs
      /\ \A q \in Appliers : q # p => job'[q] = job[q]
  BY <1>2 DEF RefineInv, IInv, TypeOK, Job, Procs
<1>4. Wholly(job[p].snap, fs)
  BY <1>1, Holder, RenderedWhole
<1>5. Presented(p)' = Presented(p)
  BY <1>1, <1>3 DEF Presented, Changing
<1> HIDE DEF fs
<1>6. ReadInv' /\ StagedInv' /\ AbstractStep
  BY <1>1, <1>3, <1>4, <1>5, HeldStep
<1>7. Calm'
  BY <1>1 DEF RefineInv, Calm
<1> QED BY <1>6, <1>7 DEF RefineInvKept

\* The lock keeps applies from overlapping.
LEMMA StepCerts ==
  ASSUME Undisturbed, RefineInv, NEW p \in Appliers, writeCertFiles(p)
  PROVE  RefineInvKept /\ AbstractStep
PROOF
<1>1. /\ job[p].pc = "certs" /\ Own(p, job[p].staged)
      /\ UNCHANGED <<live, db, applyMu>>
  BY DEF writeCertFiles
<1>2. /\ job'[p].pc = "backup" /\ job'[p].snap = job[p].snap /\ job'[p].staged = job[p].staged
      /\ \A q \in Appliers : q # p => job'[q] = job[q]
  BY <1>1 DEF Own, RefineInv, IInv, TypeOK, Job, Procs
<1>3. Wholly(job[p].snap, job[p].staged)
  BY <1>1 DEF RefineInv, StagedInv
<1>4. Presented(p)' = Presented(p)
  BY <1>1, <1>2 DEF Presented, Changing
<1>5. ReadInv' /\ StagedInv' /\ AbstractStep
  BY <1>1, <1>2, <1>3, <1>4, HeldStep
<1>6. \A q \in Procs \ {p} : ~InFlight(q)
  <2>1. \A q \in Appliers : q # p => job[q].pc \in {"idle", "queued"}
    BY <1>1, Holder
  <2> QED BY <2>1, WithoutRestores DEF InFlight, Owning
<1>7. incidents' = incidents
  BY <1>1, <1>6 DEF Own
<1>8. Calm'
  BY <1>7 DEF RefineInv, Calm
<1> QED BY <1>5, <1>8 DEF RefineInvKept

\* The returns before the first write.
LEMMA StepGiveUp ==
  ASSUME Undisturbed, RefineInv, NEW p \in Appliers,
         StageMissing(p) \/ StageReject(p) \/ writeCertFail(p) \/ backupFail(p)
  PROVE  RefineInvKept /\ AbstractStep
PROOF
<1>1. /\ job[p].pc \in {"stage", "certs", "backup"} /\ Return(p)
      /\ UNCHANGED <<live, db>>
      /\ incidents' = incidents \/ incidents' = incidents \cup {"backup"}
  BY DEF StageMissing, StageReject, writeCertFail, backupFail, ReturnWith, host, rest
<1>2. Presented(p) = live
  BY <1>1 DEF Presented, Changing
<1>3. ReadInv' /\ StagedInv' /\ AbstractStep
  BY <1>1, <1>2, AbortStep
<1>4. Calm'
  BY <1>1 DEF RefineInv, Calm
<1> QED BY <1>3, <1>4 DEF RefineInvKept

-----------------------------------------------------------------------------
(***************************************************************************)
(* Backup, write, reload and rollback.                                     *)
(***************************************************************************)

\* The steps of the holder between its backup and its return, but for the
\* returns themselves.
LEMMA StepWork ==
  ASSUME RefineInv, NEW p \in Appliers, job[p].pc \in Owning,
         UNCHANGED <<db, applyMu>>, Calm', NEW j,
         job' = [job EXCEPT ![p] = j],
         j.pc \in Owning, j.snap = job[p].snap, j.staged = job[p].staged,
         Presented(p)' = Presented(p)
  PROVE  RefineInvKept /\ AbstractStep
PROOF
<1>1. job'[p] = j /\ \A q \in Appliers : q # p => job'[q] = job[q]
  BY DEF RefineInv, IInv, TypeOK, Procs
<1>2. Wholly(job[p].snap, job[p].staged)
  BY DEF RefineInv, StagedInv
<1>3. job[p].pc \notin {"idle", "queued"} /\ j.pc \notin {"idle", "queued"}
  BY DEF Owning
<1>4. ReadInv' /\ StagedInv' /\ AbstractStep
  BY <1>1, <1>2, <1>3, HeldStep
<1> QED BY <1>4 DEF RefineInvKept

LEMMA StepBackupFile ==
  ASSUME RefineInv, NEW p \in Appliers, NEW f \in Files, backupFile(p, f)
  PROVE  RefineInvKept /\ AbstractStep
PROOF
<1> DEFINE j == [job[p] EXCEPT !.todo = @ \ {f}]
<1>1. /\ job[p].pc = "backup" /\ job' = [job EXCEPT ![p] = j]
      /\ UNCHANGED <<live, incidents, db, applyMu>>
  BY DEF backupFile, rest
<1>2. job[p] \in Job
  BY DEF RefineInv, IInv, TypeOK, Procs
<1>3. j.pc = "backup" /\ j.snap = job[p].snap /\ j.staged = job[p].staged
  BY <1>1, <1>2 DEF Job
<1> HIDE DEF j
<1>4. job'[p] = j
  BY <1>1 DEF RefineInv, IInv, TypeOK, Procs
<1>5. Presented(p)' = Presented(p)
  BY <1>1, <1>3, <1>4 DEF Presented, Changing
<1>6. Calm'
  BY <1>1 DEF RefineInv, Calm
<1> QED BY <1>1, <1>3, <1>5, <1>6, StepWork DEF Owning

LEMMA StepStatLive ==
  ASSUME RefineInv, NEW p \in Appliers, StatLive(p)
  PROVE  RefineInvKept /\ AbstractStep
PROOF
<1> DEFINE j == [job[p] EXCEPT !.pc = "write", !.wasNew = NewFiles(p),
                               !.todo = Present(job[p].staged),
                               !.engs = EnginesOf(job[p].staged), !.before = live]
<1>1. /\ job[p].pc = "backup" /\ job' = [job EXCEPT ![p] = j]
      /\ UNCHANGED <<live, incidents, db, applyMu>>
  BY DEF StatLive, BackedUp, host, rest
<1>2. job[p] \in Job
  BY DEF RefineInv, IInv, TypeOK, Procs
<1>3. j.pc = "write" /\ j.snap = job[p].snap /\ j.staged = job[p].staged /\ j.before = live
  BY <1>1, <1>2 DEF Job
<1> HIDE DEF j
<1>4. job'[p] = j
  BY <1>1 DEF RefineInv, IInv, TypeOK, Procs
<1>5. Presented(p)' = Presented(p)
  BY <1>1, <1>3, <1>4 DEF Presented, Changing
<1>6. Calm'
  BY <1>1 DEF RefineInv, Calm
<1> QED BY <1>1, <1>3, <1>5, <1>6, StepWork DEF Owning

\* While an apply writes or undoes, what it does is not visible yet.
LEMMA StepHidden ==
  ASSUME RefineInv, NEW p \in Appliers, job[p].pc \in Changing,
         UNCHANGED <<db, applyMu>>, Calm', NEW j,
         job' = [job EXCEPT ![p] = j],
         j.pc \in Changing, j.snap = job[p].snap, j.staged = job[p].staged,
         j.before = job[p].before
  PROVE  RefineInvKept /\ AbstractStep
PROOF
<1>1. job'[p] = j
  BY DEF RefineInv, IInv, TypeOK, Procs
<1>2. Presented(p)' = Presented(p)
  BY <1>1 DEF Presented, Changing
<1>3. job[p].pc \in Owning /\ j.pc \in Owning
  BY DEF Owning, Changing
<1> QED BY <1>2, <1>3, StepWork

LEMMA StepWrite ==
  ASSUME RefineInv, NEW p \in Appliers,
         (\E f \in Files : atomicWrite(p, f)) \/ writeFail(p)
  PROVE  RefineInvKept /\ AbstractStep
PROOF
<1>0. job[p] \in Job
  BY DEF RefineInv, IInv, TypeOK, Procs
<1>1. job[p].pc = "write" /\ UNCHANGED <<incidents, db, applyMu>>
  BY DEF atomicWrite, writeFail, rest
<1>2. Calm'
  BY <1>1 DEF RefineInv, Calm
<1>3. ASSUME NEW f \in Files, atomicWrite(p, f) PROVE RefineInvKept /\ AbstractStep
  <2> DEFINE j == [job[p] EXCEPT !.todo = @ \ {f}, !.applied = @ \cup {f}]
  <2>1. job' = [job EXCEPT ![p] = j]
    BY <1>3 DEF atomicWrite
  <2>2. /\ j.pc = job[p].pc /\ j.snap = job[p].snap /\ j.staged = job[p].staged
        /\ j.before = job[p].before
    BY <1>0 DEF Job
  <2> HIDE DEF j
  <2> QED BY <1>1, <1>2, <2>1, <2>2, StepHidden DEF Changing
<1>4. ASSUME writeFail(p) PROVE RefineInvKept /\ AbstractStep
  <2> DEFINE j == [job[p] EXCEPT !.pc = "undoWrite"]
  <2>1. job' = [job EXCEPT ![p] = j]
    BY <1>4 DEF writeFail
  <2>2. /\ j.pc = "undoWrite" /\ j.snap = job[p].snap /\ j.staged = job[p].staged
        /\ j.before = job[p].before
    BY <1>0 DEF Job
  <2> HIDE DEF j
  <2> QED BY <1>1, <1>2, <2>1, <2>2, StepHidden DEF Changing
<1> QED BY <1>3, <1>4

LEMMA StepReload ==
  ASSUME RefineInv, NEW p \in Appliers, NEW e \in Engines, Reload(p, e) \/ reloadFail(p, e)
  PROVE  RefineInvKept /\ AbstractStep
PROOF
<1>0. job[p] \in Job
  BY DEF RefineInv, IInv, TypeOK, Procs
<1>1. job[p].pc = "write" /\ UNCHANGED <<incidents, db, applyMu>>
  BY DEF Reload, reloadFail, Written, rest
<1>2. Calm'
  BY <1>1 DEF RefineInv, Calm
<1>3. ASSUME Reload(p, e) PROVE RefineInvKept /\ AbstractStep
  <2> DEFINE j == [job[p] EXCEPT !.engs = @ \ {e}]
  <2>1. job' = [job EXCEPT ![p] = j]
    BY <1>3 DEF Reload
  <2>2. /\ j.pc = job[p].pc /\ j.snap = job[p].snap /\ j.staged = job[p].staged
        /\ j.before = job[p].before
    BY <1>0 DEF Job
  <2> HIDE DEF j
  <2> QED BY <1>1, <1>2, <2>1, <2>2, StepHidden DEF Changing
<1>4. ASSUME reloadFail(p, e) PROVE RefineInvKept /\ AbstractStep
  <2> DEFINE j == [job[p] EXCEPT !.pc = "undoReload", !.engs = Engines]
  <2>1. job' = [job EXCEPT ![p] = j]
    BY <1>4 DEF reloadFail
  <2>2. /\ j.pc = "undoReload" /\ j.snap = job[p].snap /\ j.staged = job[p].staged
        /\ j.before = job[p].before
    BY <1>0 DEF Job
  <2> HIDE DEF j
  <2> QED BY <1>1, <1>2, <2>1, <2>2, StepHidden DEF Changing
<1> QED BY <1>3, <1>4

\* An apply that succeeds has written every file it rendered, and the engines
\* it wrote for have loaded them: the abstract commit.
LEMMA StepFinish ==
  ASSUME Undisturbed, RefineInv, NEW p \in Appliers, Finish(p)
  PROVE  RefineInvKept /\ AbstractStep
PROOF
<1>1. /\ job[p].pc = "write" /\ job[p].todo = {} /\ job[p].engs = {}
      /\ Return(p) /\ UNCHANGED <<live, db, incidents>>
  BY DEF Finish, Written, ReturnWith
<1>2. /\ ReadInv' /\ StagedInv'
      /\ Disk = job[p].before /\ Listed = job[p].snap /\ Listed # None
      /\ Disk' = live /\ Listed' = None
  BY <1>1, Returned DEF Presented, Changing
<1>3. Calm'
  BY <1>1 DEF RefineInv, Calm
<1>4. p \in Procs /\ Undoable(p) /\ RunsWriting(p)
  BY <1>1, Writing DEF RefineInv, Procs, Changing
<1>5. Wholly(job[p].snap, job[p].staged)
  BY <1>1 DEF RefineInv, StagedInv, Owning
<1> DEFINE es == EnginesOf(job[p].staged)
           c == job[p].snap
<1>6. job[p].applied = Present(job[p].staged)
  BY <1>1, <1>4 DEF RunsWriting, Undoable
<1>7. \A f \in Files : live[f] = IF f \in Renders[c] /\ EngineOf[f] \in es THEN c
                                 ELSE job[p].before[f]
  <2>1. \A f \in Files : live[f] = IF f \in Present(job[p].staged) THEN job[p].staged[f]
                                   ELSE job[p].before[f]
    BY <1>4, <1>6 DEF Undoable
  <2>2. c # None
    BY <1>2
  <2>3. \A f \in Files : f \in Present(job[p].staged) <=> f \in Renders[c] /\ EngineOf[f] \in es
    BY <1>5, <2>2 DEF Wholly, Present
  <2>4. \A f \in Present(job[p].staged) : job[p].staged[f] = c
    BY <1>5, <2>3 DEF Wholly, Present
  <2> QED BY <2>1, <2>3, <2>4
<1>8. live = Atomic!Deployed(Listed, es, Disk)
  <2>1. live = [f \in Files |-> live[f]]
    BY DEF RefineInv, IInv, TypeOK, FileSet
  <2> QED BY <1>2, <1>7, <2>1 DEF Atomic!Deployed
<1>9. \A e \in es : Accepts(e, Atomic!Checked(e, live))
  <2>1. \A e \in es : Validates(e, live)
    BY <1>1, <1>4 DEF RunsWriting
  <2> QED BY <2>1 DEF Validates, View, Atomic!Checked
<1>10. es \in SUBSET Engines
  BY EnginesOfType, JobFields, <1>4 DEF RefineInv, IInv
<1> HIDE DEF es, c
<1>11. Atomic!Commit
  BY <1>1, <1>2, <1>8, <1>9, <1>10 DEF Atomic!Commit
<1> QED BY <1>2, <1>3, <1>11 DEF RefineInvKept, AbstractStep, Atomic!Next

LEMMA StepRollback ==
  ASSUME Undisturbed, RefineInv, NEW p \in Appliers, Rollback(p)
  PROVE  RefineInvKept /\ AbstractStep
PROOF
<1>0. job[p] \in Job /\ p \in Procs
  BY DEF RefineInv, IInv, TypeOK, Procs
<1>1. ASSUME NEW f \in Files, undoFile(p, f) PROVE RefineInvKept /\ AbstractStep
  <2> DEFINE j == [job[p] EXCEPT !.applied = @ \ {f}]
  <2>1. /\ job' = [job EXCEPT ![p] = j] /\ job[p].pc \in {"undoWrite", "undoReload"}
        /\ UNCHANGED <<incidents, db, applyMu>>
    BY <1>1 DEF undoFile, Undoing, rest
  <2>2. /\ j.pc = job[p].pc /\ j.snap = job[p].snap /\ j.staged = job[p].staged
        /\ j.before = job[p].before
    BY <1>0 DEF Job
  <2> HIDE DEF j
  <2>3. Calm'
    BY <2>1 DEF RefineInv, Calm
  <2> QED BY <2>1, <2>2, <2>3, StepHidden DEF Changing
<1>2. ASSUME NEW f \in Files, undoFail(p, f) PROVE FALSE
  BY <1>2 DEF undoFail, May, Undisturbed
<1>3. ASSUME NEW e \in Engines, ReloadAgain(p, e) PROVE RefineInvKept /\ AbstractStep
  <2> DEFINE j == [job[p] EXCEPT !.engs = @ \ {e}]
  <2>1. /\ job' = [job EXCEPT ![p] = j] /\ job[p].pc = "undoReload"
        /\ UNCHANGED <<db, applyMu>>
        /\ incidents' = incidents \/ incidents' = incidents \cup {"reload"}
    BY <1>3 DEF ReloadAgain
  <2>2. /\ j.pc = job[p].pc /\ j.snap = job[p].snap /\ j.staged = job[p].staged
        /\ j.before = job[p].before
    BY <1>0 DEF Job
  <2> HIDE DEF j
  <2>3. Calm'
    BY <2>1 DEF RefineInv, Calm
  <2> QED BY <2>1, <2>2, <2>3, StepHidden DEF Changing
<1>4. ASSUME UndoneWrite(p) \/ RolledBack(p) PROVE RefineInvKept /\ AbstractStep
  <2>1. /\ job[p].pc \in {"undoWrite", "undoReload"} /\ job[p].applied = {}
        /\ Return(p) /\ UNCHANGED <<live, db, incidents>>
    BY <1>4 DEF UndoneWrite, RolledBack, ReturnWith, host, rest
  <2>2. Undoable(p)
    BY <1>0, <2>1, Writing DEF RefineInv, Changing
  <2>3. live = job[p].before
    BY <1>0, <2>1, <2>2, UndoneAll DEF RefineInv, IInv
  <2>4. Presented(p) = live
    BY <2>3 DEF Presented
  <2>5. ReadInv' /\ StagedInv' /\ AbstractStep
    BY <2>1, <2>4, AbortStep
  <2>6. Calm'
    BY <2>1 DEF RefineInv, Calm
  <2> QED BY <2>5, <2>6 DEF RefineInvKept
<1> QED BY <1>1, <1>2, <1>3, <1>4 DEF Rollback

-----------------------------------------------------------------------------
LEMMA RefineStart ==
  Init => RefineInv /\ Atomic!Init
PROOF
<1> SUFFICES ASSUME Init PROVE RefineInv /\ Atomic!Init
  OBVIOUS
<1>1. IInv
  BY IInvInit
<1>2. \A p \in Appliers : job[p].pc = "idle"
  BY IdleFields DEF Init, Procs
<1>3. Calm /\ ReadInv /\ StagedInv
  BY <1>2 DEF Init, Calm, ReadInv, StagedInv, Owning
<1>4. Disk = live /\ Listed = None
  BY NotHeld DEF Init
<1>5. live \in [Files -> Configs \cup {None}]
  BY DEF Init, NoFiles, Rendered
<1>6. \A e \in Engines : Accepts(e, Atomic!Checked(e, Disk))
  BY <1>4 DEF Init, Validates, View, Atomic!Checked
<1>7. Atomic!Init
  BY <1>4, <1>5, <1>6 DEF Init, Atomic!Init
<1> QED BY <1>1, <1>3, <1>7 DEF RefineInv

LEMMA RefineStep ==
  ASSUME Undisturbed, RefineInv, [Next]_vars
  PROVE  RefineInv' /\ AbstractStep
PROOF
<1>1. IInv'
  BY IInvNext DEF RefineInv
<1>2. ASSUME Tick \/ UNCHANGED vars PROVE RefineInvKept /\ AbstractStep
  BY <1>2, StepTick
<1>3. ASSUME NEW p \in Appliers, ApplyStart(p) PROVE RefineInvKept /\ AbstractStep
  BY <1>3, StepLockAndList, StepListFail, StepRecordVersion, StepGiveUp, StepStageAll,
     StepCerts DEF ApplyStart
<1>4. ASSUME NEW p \in Appliers, Install(p) PROVE RefineInvKept /\ AbstractStep
  BY <1>4, StepBackupFile, StepWrite, StepGiveUp, StepStatLive, StepReload, StepFinish
  DEF Install
<1>5. ASSUME NEW p \in Appliers, Rollback(p) PROVE RefineInvKept /\ AbstractStep
  BY <1>5, StepRollback
<1>6. ~Crash /\ \A t \in Stamps : ~DeleteBackup(t)
  BY DEF Crash, DeleteBackup, May, Undisturbed
<1>7. Restorers = {} /\ Procs = Appliers
  BY WithoutRestores DEF Undisturbed
<1>8. RefineInvKept /\ AbstractStep
  BY <1>2, <1>3, <1>4, <1>5, <1>6, <1>7, StepEditConfig, StepCallApply DEF Next
<1> QED BY <1>1, <1>8 DEF RefineInv, RefineInvKept

(***************************************************************************)
(* On a host where nothing crashes the panel, restores or deletes a backup *)
(* or fails a copy of the rollback, every behaviour of ApplyAll, with any  *)
(* number of applies queued on applyMu and any write, reload, backup or    *)
(* test failing, is one of AtomicDeploy: each apply deploys all the files  *)
(* of the configuration it read, which the engines accept, or nothing.     *)
(***************************************************************************)
THEOREM AppliesRefine == Undisturbed /\ Spec => AppliesAtomically
PROOF
<1> SUFFICES ASSUME Undisturbed PROVE Spec => AppliesAtomically
  BY DEF Undisturbed
<1>1. RefineInv /\ [Next]_vars => RefineInv' /\ AbstractStep
  BY RefineStep
<1>2. AbstractStep => [Atomic!Next]_(Atomic!vars)
  BY DEF AbstractStep, Atomic!vars
<1>3. AppliesAtomically <=> Atomic!Init /\ [][Atomic!Next]_(Atomic!vars)
  BY DEF AppliesAtomically, Atomic!Spec
<1> QED BY <1>1, <1>2, <1>3, RefineStart, PTL DEF Spec
=============================================================================
