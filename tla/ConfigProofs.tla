---------------------------- MODULE ConfigProofs ----------------------------
(***************************************************************************)
(* Proofs about the configuration store: the retention of versions for any *)
(* number of handlers, and what a save, an import and a restore leave      *)
(* behind when requests come one at a time.                                *)
(***************************************************************************)
EXTENDS ConfigStore, FiniteSetTheorems, WellFoundedInduction, TLAPS

-----------------------------------------------------------------------------
(***************************************************************************)
(* The newest version.                                                     *)
(***************************************************************************)

\* A non-empty bounded set of numbers has a greatest element, and Max is it.
LEMMA MaxExists ==
    ASSUME NEW n \in Nat, NEW S \in SUBSET (0..n), S # {}
    PROVE  Max(S) \in S /\ \A x \in S : x <= Max(S)
<1> DEFINE U == {u \in Nat : \A x \in S : x <= u}
<1>1. n \in U
    OBVIOUS
<1> DEFINE R == {p \in Nat \X Nat : p[1] < p[2]}
<1>2. PICK u \in U : \A w \in U : ~(<<w, u>> \in R)
    <2>1. U \subseteq Nat /\ U # {}
        BY <1>1
    <2>2. IsWellFoundedOn(R, Nat)
        BY NatLessThanWellFounded, Zenon DEF OpToRel
    <2> HIDE DEF U, R
    <2>3. \E u \in U : \A w \in U : ~(<<w, u>> \in R)
        BY <2>1, <2>2, WFMin, Zenon
    <2> QED
        BY <2>3
<1>3. \A w \in U : u <= w
    <2>1. \A w \in Nat : w < u => <<w, u>> \in R
        OBVIOUS
    <2>2. u \in Nat /\ \A w \in U : w \in Nat
        OBVIOUS
    <2> HIDE DEF R, U
    <2>3. \A w \in U : ~(w < u)
        BY <1>2, <2>1, <2>2, Zenon
    <2> QED
        BY <2>2, <2>3
<1>4. u \in S
    <2>1. SUFFICES ASSUME u \notin S PROVE FALSE
        OBVIOUS
    <2>2. PICK x \in S : TRUE
        OBVIOUS
    <2>3. u - 1 \in U
        BY <2>1, <2>2
    <2> QED
        BY <1>3, <2>3
<1>5. u \in S /\ \A y \in S : u >= y
    BY <1>4
<1> QED
    BY <1>5 DEF Max

\* Latest bounds the stored numbers and is one of them, or zero without any.
LEMMA LatestIs ==
    /\ Latest \in 0..MaxVersion
    /\ Latest # 0 => Latest \in Stored
    /\ \A v \in Stored : v <= Latest
<1>1. Stored \cup {0} \in SUBSET (0..MaxVersion)
    BY VersionAssumption DEF Stored, Numbers
<1>2. Latest \in Stored \cup {0} /\ \A x \in Stored \cup {0} : x <= Latest
    BY <1>1, MaxExists, VersionAssumption DEF Latest
<1> QED
    BY <1>1, <1>2

\* What makes a number the newest.
LEMMA LatestUnique ==
    ASSUME NEW n, n \in Stored \/ (n = 0 /\ Stored = {}), \A v \in Stored : v <= n
    PROVE  Latest = n
<1>1. n \in 0..MaxVersion /\ Stored \subseteq 0..MaxVersion
    BY VersionAssumption DEF Stored, Numbers
<1> QED
    BY <1>1, LatestIs, VersionAssumption

LEMMA StoredFinite == IsFiniteSet(Stored) /\ Cardinality(Stored) \in Nat
<1>1. IsFiniteSet(Numbers) /\ Stored \in SUBSET Numbers
    BY FS_Interval, VersionAssumption DEF Numbers, Stored
<1> QED
    BY <1>1, FS_Subset, FS_CardinalityType

-----------------------------------------------------------------------------
(***************************************************************************)
(* Type correctness.                                                       *)
(***************************************************************************)

LEMMA EmptyType == Empty \in Table /\ NoSnap \in Snapshot
BY DEF Empty, Table, NoSnap, Snapshot

LEMMA IdleType == Idle \in Job
BY EmptyType, VersionAssumption DEF Idle, Job

\* A single local that is replaced by a value of its type.
LEMMA LocalsType ==
    ASSUME NEW r \in Job
    PROVE  /\ \A x \in {"list", "store", "import", "listRelays", "max", "insert",
                        "prune", "current", "delete", "add", "relayDelete",
                        "relayAdd", "restored"} : [r EXCEPT !.pc = x] \in Job
           /\ \A x \in SUBSET Bodies : [r EXCEPT !.todo = x] \in Job
           /\ \A x \in Table : [r EXCEPT !.all = x] \in Job
           /\ \A x \in Snapshot : [r EXCEPT !.snap = x] \in Job
           /\ \A x \in 0..(MaxVersion + 1) : [r EXCEPT !.ver = x] \in Job
           /\ \A x \in Snapshot : [r EXCEPT !.before = x] \in Job
           /\ \A x \in SUBSET Ids : [r EXCEPT !.rows = x] \in Job
           /\ \A x \in SUBSET Relays : [r EXCEPT !.names = x] \in Job
           /\ \A x \in SUBSET Losses : [r EXCEPT !.lost = x] \in Job
<1>1. \A x \in {"list", "store", "import", "listRelays", "max", "insert",
              "prune", "current", "delete", "add", "relayDelete",
              "relayAdd", "restored"} : [r EXCEPT !.pc = x] \in Job
    BY DEF Job
<1>2. \A x \in SUBSET Bodies : [r EXCEPT !.todo = x] \in Job
    BY DEF Job
<1>3. \A x \in Table : [r EXCEPT !.all = x] \in Job
    BY DEF Job
<1>4. \A x \in Snapshot : [r EXCEPT !.snap = x] \in Job
    BY DEF Job
<1>5. \A x \in 0..(MaxVersion + 1) : [r EXCEPT !.ver = x] \in Job
    BY DEF Job
<1>6. \A x \in Snapshot : [r EXCEPT !.before = x] \in Job
    BY DEF Job
<1>7. \A x \in SUBSET Ids : [r EXCEPT !.rows = x] \in Job
    BY DEF Job
<1>8. \A x \in SUBSET Relays : [r EXCEPT !.names = x] \in Job
    BY DEF Job
<1>9. \A x \in SUBSET Losses : [r EXCEPT !.lost = x] \in Job
    BY DEF Job
<1> QED
    BY <1>1, <1>2, <1>3, <1>4, <1>5, <1>6, <1>7, <1>8, <1>9

\* The locals a request starts with.
LEMMA StartType ==
    /\ \A op \in {"create", "update"}, b \in Bodies, id \in Ids \cup {None} :
         [Idle EXCEPT !.pc = "list", !.op = op, !.body = b, !.id = id] \in Job
    /\ \A bs \in SUBSET Bodies : \A t \in Table :
         [Idle EXCEPT !.pc = "import", !.op = "import", !.todo = bs, !.all = t] \in Job
    /\ \A bs \in SUBSET Bodies :
         [Idle EXCEPT !.pc = "scanned", !.op = "scan", !.todo = bs] \in Job
    /\ \A c \in CertIds :
         [Idle EXCEPT !.pc = "counted", !.op = "cert", !.id = c] \in Job
    /\ [Idle EXCEPT !.pc = "listMappings", !.op = "apply"] \in Job
    /\ \A w \in Snapshot :
         [Idle EXCEPT !.pc = "listMappings", !.op = "restore", !.want = w] \in Job
<1>1. \A op \in {"create", "update"}, b \in Bodies, id \in Ids \cup {None} :
         [Idle EXCEPT !.pc = "list", !.op = op, !.body = b, !.id = id] \in Job
    BY IdleType DEF Job
<1>2. \A bs \in SUBSET Bodies : \A t \in Table :
         [Idle EXCEPT !.pc = "import", !.op = "import", !.todo = bs, !.all = t] \in Job
    BY IdleType DEF Job
<1>3. \A bs \in SUBSET Bodies :
         [Idle EXCEPT !.pc = "scanned", !.op = "scan", !.todo = bs] \in Job
    BY IdleType DEF Job
<1>4. \A c \in CertIds :
         [Idle EXCEPT !.pc = "counted", !.op = "cert", !.id = c] \in Job
    BY IdleType DEF Job
<1>5. [Idle EXCEPT !.pc = "listMappings", !.op = "apply"] \in Job
    BY IdleType DEF Job
<1>6. \A w \in Snapshot :
         [Idle EXCEPT !.pc = "listMappings", !.op = "restore", !.want = w] \in Job
    BY IdleType DEF Job
<1> QED
    BY <1>1, <1>2, <1>3, <1>4, <1>5, <1>6

\* The types of a handler's locals, one by one.
LEMMA FieldTypes ==
    ASSUME NEW r \in Job
    PROVE  /\ r.todo \in SUBSET Bodies /\ r.body \in Bodies \cup {None}
           /\ r.all \in Table /\ r.snap \in Snapshot /\ r.want \in Snapshot
           /\ r.ver \in 0..(MaxVersion + 1)
           /\ r.rows \in SUBSET Ids /\ r.names \in SUBSET Relays
           /\ r.want.mappings \in Table /\ r.want.relays \in SUBSET Relays
           /\ r.lost \in SUBSET Losses
BY DEF Job, Snapshot

-----------------------------------------------------------------------------
(***************************************************************************)
(* What each step does to the locals of its handler.                       *)
(***************************************************************************)

\* The handler h now has the locals r, and nobody else's have changed.
Moved(h, r) == /\ r \in Job /\ job' = [job EXCEPT ![h] = r]

LEMMA MovedLocals ==
    ASSUME TypeOK, NEW h \in Handlers, NEW r, Moved(h, r)
    PROVE  /\ job' \in [Handlers -> Job]
           /\ job'[h] = r
           /\ \A g \in Handlers \ {h} : job'[g] = job[g]
BY DEF Moved, TypeOK

LEMMA DoneEffect ==
    ASSUME NEW h, Done(h)
    PROVE  Moved(h, Idle)
BY IdleType DEF Done, Moved

LEMMA IdleLocals ==
    /\ Idle.pc = "idle" /\ Idle.op = "none" /\ Idle.id = None
    /\ Idle.snap = NoSnap /\ Idle.want = NoSnap /\ Idle.before = NoSnap
    /\ Idle.lost = {}
BY DEF Idle

LEMMA GotoEffect ==
    ASSUME TypeOK, NEW h \in Handlers,
           NEW pc \in {"list", "store", "import", "listRelays", "max", "insert",
                       "prune", "current", "delete", "add", "relayDelete",
                       "relayAdd", "restored"}, Goto(h, pc)
    PROVE  \E r : Moved(h, r) /\ r = [job[h] EXCEPT !.pc = pc]
<1>1. job[h] \in Job
    BY DEF TypeOK
<1> QED
    BY <1>1, LocalsType DEF Moved, Goto

\* The locals of a save that starts.
Saving(h, r, op, b, id) ==
    /\ Moved(h, r) /\ r.pc = "list" /\ r.op = op /\ r.body = b /\ r.id = id
    /\ r.want = NoSnap /\ r.snap = NoSnap /\ r.lost = {}

LEMMA SaveEffect ==
    ASSUME TypeOK, NEW h \in Handlers, NEW op \in {"create", "update"},
           NEW b \in Bodies, NEW id \in Ids \cup {None}, SaveMapping(h, op, b, id)
    PROVE  \E r : Saving(h, r, op, b, id)
<1> DEFINE r == [Idle EXCEPT !.pc = "list", !.op = op, !.body = b, !.id = id]
<1>1. r \in Job
    BY StartType
<1>2. r.pc = "list" /\ r.op = op /\ r.body = b /\ r.id = id /\ r.want = NoSnap /\ r.snap = NoSnap /\ r.lost = {}
    BY IdleType, IdleLocals DEF Job
<1>3. job' = [job EXCEPT ![h] = r]
    BY DEF SaveMapping
<1> QED
    BY <1>1, <1>2, <1>3 DEF Moved, Saving

LEMMA ImportEffect ==
    ASSUME TypeOK, NEW h \in Handlers, NEW bs \in SUBSET Bodies, ListForImport(h, bs)
    PROVE  \E r : Moved(h, r) /\ r.pc = "import" /\ r.all = mappings /\ r.want = NoSnap /\ r.snap = NoSnap /\ r.lost = {}
<1> DEFINE r == [Idle EXCEPT !.pc = "import", !.op = "import", !.todo = bs, !.all = mappings]
<1>1. r \in Job
    BY StartType DEF TypeOK
<1>2. r.pc = "import" /\ r.all = mappings /\ r.want = NoSnap /\ r.snap = NoSnap /\ r.lost = {}
    BY IdleType, IdleLocals DEF Job
<1>3. job' = [job EXCEPT ![h] = r]
    BY DEF ListForImport
<1> QED
    BY <1>1, <1>2, <1>3 DEF Moved

LEMMA ScanEffect ==
    ASSUME TypeOK, NEW h \in Handlers, NEW bs \in SUBSET Bodies, ScanConfigs(h, bs)
    PROVE  \E r : Moved(h, r) /\ r.pc = "scanned" /\ r.want = NoSnap /\ r.snap = NoSnap /\ r.lost = {}
<1> DEFINE r == [Idle EXCEPT !.pc = "scanned", !.op = "scan", !.todo = bs]
<1>1. r \in Job
    BY StartType
<1>2. r.pc = "scanned" /\ r.want = NoSnap /\ r.snap = NoSnap /\ r.lost = {}
    BY IdleType, IdleLocals DEF Job
<1>3. job' = [job EXCEPT ![h] = r]
    BY DEF ScanConfigs
<1> QED
    BY <1>1, <1>2, <1>3 DEF Moved

LEMMA CountEffect ==
    ASSUME TypeOK, NEW h \in Handlers, NEW c \in CertIds, CountUses(h, c)
    PROVE  \E r : Moved(h, r) /\ r.pc = "counted" /\ r.want = NoSnap /\ r.snap = NoSnap /\ r.lost = {}
<1> DEFINE r == [Idle EXCEPT !.pc = "counted", !.op = "cert", !.id = c]
<1>1. r \in Job
    BY StartType
<1>2. r.pc = "counted" /\ r.want = NoSnap /\ r.snap = NoSnap /\ r.lost = {}
    BY IdleType, IdleLocals DEF Job
<1>3. job' = [job EXCEPT ![h] = r]
    BY DEF CountUses
<1> QED
    BY <1>1, <1>2, <1>3 DEF Moved

LEMMA ApplyEffect ==
    ASSUME TypeOK, NEW h \in Handlers, Apply(h)
    PROVE  \E r : Moved(h, r) /\ r.pc = "listMappings" /\ r.want = NoSnap /\ r.snap = NoSnap /\ r.lost = {}
<1> DEFINE r == [Idle EXCEPT !.pc = "listMappings", !.op = "apply"]
<1>1. r \in Job
    BY StartType
<1>2. r.pc = "listMappings" /\ r.want = NoSnap /\ r.snap = NoSnap /\ r.lost = {}
    BY IdleType, IdleLocals DEF Job
<1>3. job' = [job EXCEPT ![h] = r]
    BY DEF Apply
<1> QED
    BY <1>1, <1>2, <1>3 DEF Moved

LEMMA RestoreEffect ==
    ASSUME TypeOK, NEW h \in Handlers, NEW v \in Numbers, RestoreVersion(h, v)
    PROVE  \E r : Moved(h, r) /\ r.pc = "listMappings" /\ r.want = versions[v] /\ r.snap = NoSnap /\ r.lost = {}
<1> DEFINE r == [Idle EXCEPT !.pc = "listMappings", !.op = "restore", !.want = versions[v]]
<1>1. r \in Job
    <2>1. versions[v] \in Snapshot
        BY DEF TypeOK, RestoreVersion
    <2> QED
        BY <2>1, StartType
<1>2. r.pc = "listMappings" /\ r.want = versions[v] /\ r.snap = NoSnap /\ r.lost = {}
    BY IdleType, IdleLocals DEF Job
<1>3. job' = [job EXCEPT ![h] = r]
    BY DEF RestoreVersion
<1> QED
    BY <1>1, <1>2, <1>3 DEF Moved

LEMMA ListScannedEffect ==
    ASSUME TypeOK, NEW h \in Handlers, ListScanned(h)
    PROVE  \E r : /\ Moved(h, r) /\ r.pc = "import"
                  /\ r.want = job[h].want /\ r.snap = job[h].snap /\ r.lost = job[h].lost
                  /\ slips' \subseteq Slips /\ slips \subseteq slips'
                  /\ slips' = {} => r.all = mappings
<1>0. job \in [Handlers -> Job] /\ job[h] \in Job /\ mappings \in Table
    BY DEF TypeOK
<1>a. PICK rows \in ListedRows :
        /\ job' = [job EXCEPT ![h].pc = "import",
                              ![h].all = [i \in Ids |-> IF i \in rows THEN mappings[i]
                                                                    ELSE None]]
        /\ slips' = slips \cup {s \in {"list"} : rows # Rows(mappings)}
    BY DEF ListScanned
<1> DEFINE a == [i \in Ids |-> IF i \in rows THEN mappings[i] ELSE None]
           s == [job[h] EXCEPT !.pc = "import"]
           r == [s EXCEPT !.all = a]
<1>1. a \in Table
    BY <1>0 DEF Table
<1>2. rows = Rows(mappings) => a = mappings
    BY <1>0 DEF Table, Rows
<1>3. job' = [job EXCEPT ![h] = r]
    BY <1>0, <1>a
<1> HIDE DEF a
<1>4. r \in Job
    BY <1>0, <1>1, LocalsType
<1>5. /\ r.pc = "import" /\ r.all = a
      /\ r.want = job[h].want /\ r.snap = job[h].snap /\ r.lost = job[h].lost
    BY <1>0 DEF Job
<1>6. /\ slips' \subseteq Slips /\ slips \subseteq slips'
      /\ slips' = {} => rows = Rows(mappings)
    BY <1>a DEF TypeOK, Slips
<1> HIDE DEF r
<1> QED
    BY <1>2, <1>3, <1>4, <1>5, <1>6 DEF Moved

LEMMA SnapMappingsEffect ==
    ASSUME TypeOK, NEW h \in Handlers, SnapMappings(h)
    PROVE  \E r : Moved(h, r) /\ r.pc = "listRelays" /\ r.op = job[h].op /\ r.want = job[h].want /\ r.lost = job[h].lost
           /\ r.snap.mappings = mappings
<1>0. job \in [Handlers -> Job] /\ job[h] \in Job
    BY DEF TypeOK
<1> DEFINE s == [job[h] EXCEPT !.pc = "listRelays"]
<1> DEFINE r == [s EXCEPT !.snap = [job[h].snap EXCEPT !.mappings = mappings]]
<1>1. r \in Job
    <2>1. [job[h].snap EXCEPT !.mappings = mappings] \in Snapshot
        BY <1>0, FieldTypes DEF Snapshot, TypeOK
    <2> QED
        BY <1>0, <2>1, LocalsType
<1>2. r.pc = "listRelays" /\ r.op = job[h].op /\ r.want = job[h].want /\ r.lost = job[h].lost
           /\ r.snap.mappings = mappings
    BY <1>0 DEF Job, Snapshot
<1>3. job' = [job EXCEPT ![h] = r]
    BY <1>0 DEF SnapMappings
<1> QED
    BY <1>1, <1>2, <1>3 DEF Moved

LEMMA SnapRelaysEffect ==
    ASSUME TypeOK, NEW h \in Handlers, SnapRelays(h)
    PROVE  \E r : Moved(h, r) /\ r.pc = "max" /\ r.op = job[h].op /\ r.want = job[h].want /\ r.lost = job[h].lost
           /\ r.snap.mappings = job[h].snap.mappings /\ r.snap.relays = relays
<1>0. job \in [Handlers -> Job] /\ job[h] \in Job
    BY DEF TypeOK
<1> DEFINE s == [job[h] EXCEPT !.pc = "max"]
<1> DEFINE r == [s EXCEPT !.snap = [job[h].snap EXCEPT !.relays = relays]]
<1>1. r \in Job
    <2>1. [job[h].snap EXCEPT !.relays = relays] \in Snapshot
        BY <1>0, FieldTypes DEF Snapshot, TypeOK
    <2> QED
        BY <1>0, <2>1, LocalsType
<1>2. r.pc = "max" /\ r.op = job[h].op /\ r.want = job[h].want /\ r.lost = job[h].lost
           /\ r.snap.mappings = job[h].snap.mappings /\ r.snap.relays = relays
    BY <1>0 DEF Job, Snapshot
<1>3. job' = [job EXCEPT ![h] = r]
    BY <1>0 DEF SnapRelays
<1> QED
    BY <1>1, <1>2, <1>3 DEF Moved

LEMMA NextVersionEffect ==
    ASSUME TypeOK, NEW h \in Handlers, NextVersion(h)
    PROVE  \E r : Moved(h, r) /\ r.pc = "insert" /\ r.ver = Latest + 1 /\ r.op = job[h].op /\ r.want = job[h].want /\ r.snap = job[h].snap /\ r.lost = job[h].lost
<1>0. job \in [Handlers -> Job] /\ job[h] \in Job
    BY DEF TypeOK
<1> DEFINE s == [job[h] EXCEPT !.pc = "insert"]
<1> DEFINE r == [s EXCEPT !.ver = Latest + 1]
<1>1. r \in Job
    <2>1. Latest + 1 \in 0..(MaxVersion + 1)
        BY LatestIs, VersionAssumption
    <2> HIDE DEF Latest
    <2> QED
        BY <1>0, <2>1, LocalsType
<1>2. r.pc = "insert" /\ r.ver = Latest + 1 /\ r.op = job[h].op /\ r.want = job[h].want /\ r.snap = job[h].snap /\ r.lost = job[h].lost
    BY <1>0 DEF Job
<1>3. job' = [job EXCEPT ![h] = r]
    BY <1>0 DEF NextVersion
<1> QED
    BY <1>1, <1>2, <1>3 DEF Moved

LEMMA ListRelaysEffect ==
    ASSUME TypeOK, NEW h \in Handlers, ListCurrentRelays(h)
    PROVE  \E r : Moved(h, r) /\ r.pc = "relayDelete" /\ r.names = relays /\ r.before = job[h].before
           /\ r.want = job[h].want /\ r.snap = job[h].snap /\ r.lost = job[h].lost
<1>0. job \in [Handlers -> Job] /\ job[h] \in Job
    BY DEF TypeOK
<1> DEFINE s == [job[h] EXCEPT !.pc = "relayDelete"]
<1> DEFINE r == [s EXCEPT !.names = relays]
<1>1. r \in Job
    BY <1>0, LocalsType DEF TypeOK
<1>2. r.pc = "relayDelete" /\ r.names = relays /\ r.before = job[h].before
           /\ r.want = job[h].want /\ r.snap = job[h].snap /\ r.lost = job[h].lost
    BY <1>0 DEF Job
<1>3. job' = [job EXCEPT ![h] = r]
    BY <1>0 DEF ListCurrentRelays
<1> QED
    BY <1>1, <1>2, <1>3 DEF Moved

LEMMA ListCurrentEffect ==
    ASSUME TypeOK, NEW h \in Handlers, ListCurrent(h)
    PROVE  \E r : /\ Moved(h, r) /\ r.pc = "delete" /\ r.rows = Rows(mappings)
                  /\ r.before.mappings = mappings /\ r.before.relays = relays
                  /\ r.before \in Snapshot
                  /\ r.want = job[h].want /\ r.snap = job[h].snap /\ r.lost = job[h].lost
<1>0. job \in [Handlers -> Job] /\ job[h] \in Job
    BY DEF TypeOK
<1> DEFINE b == [mappings |-> mappings, relays |-> relays]
           s == [job[h] EXCEPT !.pc = "delete"]
           t == [s EXCEPT !.rows = Rows(mappings)]
           r == [t EXCEPT !.before = b]
<1>1. b \in Snapshot
    BY DEF TypeOK, Snapshot
<1>2. r \in Job
    <2>1. Rows(mappings) \in SUBSET Ids
        BY DEF Rows
    <2>2. t \in Job
        BY <1>0, <2>1, LocalsType
    <2> QED
        BY <1>1, <2>2, LocalsType
<1>3. /\ r.pc = "delete" /\ r.rows = Rows(mappings) /\ r.before = b
      /\ r.want = job[h].want /\ r.snap = job[h].snap /\ r.lost = job[h].lost
    BY <1>0 DEF Job
<1>4. job' = [job EXCEPT ![h] = r]
    BY <1>0 DEF ListCurrent
<1>5. b.mappings = mappings /\ b.relays = relays
    OBVIOUS
<1> HIDE DEF r, b
<1> QED
    BY <1>1, <1>2, <1>3, <1>4, <1>5 DEF Moved

\* The locals of a restore after a list or a delete has failed.
LEMMA DropType ==
    ASSUME NEW j \in Job, NEW x \in SUBSET Ids, NEW n \in SUBSET Relays,
           NEW l \in SUBSET Losses
    PROVE  /\ [j EXCEPT !.rows = x, !.lost = l] \in Job
           /\ [j EXCEPT !.names = n, !.lost = l] \in Job
           /\ \A pc \in {"delete", "relayDelete"} : \A b \in Snapshot :
                /\ [j EXCEPT !.pc = pc, !.rows = x, !.before = b, !.lost = l] \in Job
                /\ [j EXCEPT !.pc = pc, !.names = n, !.lost = l] \in Job
<1>1. [j EXCEPT !.rows = x, !.lost = l] \in Job
    BY DEF Job
<1>2. [j EXCEPT !.names = n, !.lost = l] \in Job
    BY DEF Job
<1>3. \A pc \in {"delete", "relayDelete"} : \A b \in Snapshot :
        [j EXCEPT !.pc = pc, !.rows = x, !.before = b, !.lost = l] \in Job
    BY DEF Job
<1>4. \A pc \in {"delete", "relayDelete"} :
        [j EXCEPT !.pc = pc, !.names = n, !.lost = l] \in Job
    BY DEF Job
<1> QED
    BY <1>1, <1>2, <1>3, <1>4

LEMMA CurrentFailEffect ==
    ASSUME TypeOK, NEW h \in Handlers, ListCurrentFail(h)
    PROVE  \E r : /\ Moved(h, r) /\ r.pc = "delete" /\ "mapping kept" \in r.lost
                  /\ r.before.mappings = mappings /\ r.before.relays = relays
                  /\ r.before \in Snapshot
<1>0. job \in [Handlers -> Job] /\ job[h] \in Job
    BY DEF TypeOK
<1> DEFINE b == [mappings |-> mappings, relays |-> relays]
<1>1. PICK rows \in ListedRows \ {Rows(mappings)} :
         job' = [job EXCEPT ![h].pc = "delete", ![h].rows = rows, ![h].before = b,
                            ![h].lost = {"mapping kept"}]
    BY DEF ListCurrentFail
<1> DEFINE r == [job[h] EXCEPT !.pc = "delete", !.rows = rows, !.before = b,
                               !.lost = {"mapping kept"}]
<1>2. rows \in SUBSET Ids /\ {"mapping kept"} \in SUBSET Losses
    BY DEF ListedRows, Rows, Losses
<1>3. b \in Snapshot /\ b.mappings = mappings /\ b.relays = relays
    BY DEF TypeOK, Snapshot
<1>4. job' = [job EXCEPT ![h] = r]
    BY <1>0, <1>1
<1> HIDE DEF b
<1>5. r \in Job
    BY <1>0, <1>2, <1>3, DropType
<1>6. r.pc = "delete" /\ r.lost = {"mapping kept"} /\ r.before = b
    BY <1>0 DEF Job
<1> HIDE DEF r
<1> QED
    BY <1>3, <1>4, <1>5, <1>6 DEF Moved

LEMMA DeleteFailEffect ==
    ASSUME TypeOK, NEW h \in Handlers, RestoreDeleteFail(h)
    PROVE  \E r : /\ Moved(h, r) /\ r.pc = "delete" /\ "mapping kept" \in r.lost
                  /\ r.before = job[h].before
<1>0. job \in [Handlers -> Job] /\ job[h] \in Job /\ job[h].pc = "delete"
    BY DEF TypeOK, RestoreDeleteFail
<1>1. PICK i \in job[h].rows :
         job' = [job EXCEPT ![h].rows = @ \ {i}, ![h].lost = @ \cup {"mapping kept"}]
    BY DEF RestoreDeleteFail
<1> DEFINE x == job[h].rows \ {i}
           l == job[h].lost \cup {"mapping kept"}
           r == [job[h] EXCEPT !.rows = x, !.lost = l]
<1>2. x \in SUBSET Ids /\ l \in SUBSET Losses /\ "mapping kept" \in l
    BY <1>0, FieldTypes DEF Losses
<1>3. job' = [job EXCEPT ![h] = r]
    BY <1>0, <1>1
<1> HIDE DEF x, l
<1>4. r \in Job
    BY <1>0, <1>2, DropType
<1>5. r.pc = "delete" /\ r.lost = l /\ r.before = job[h].before
    BY <1>0 DEF Job
<1> HIDE DEF r
<1> QED
    BY <1>2, <1>3, <1>4, <1>5 DEF Moved

LEMMA RelaysFailEffect ==
    ASSUME TypeOK, NEW h \in Handlers, ListRelaysFail(h)
    PROVE  \E r : /\ Moved(h, r) /\ r.pc = "relayDelete"
                  /\ r.lost = job[h].lost \cup {"relay kept"}
                  /\ r.before = job[h].before
                  /\ r.want = job[h].want /\ r.snap = job[h].snap
<1>0. job \in [Handlers -> Job] /\ job[h] \in Job
    BY DEF TypeOK
<1>1. PICK n \in SUBSET relays \ {relays} :
         job' = [job EXCEPT ![h].pc = "relayDelete", ![h].names = n,
                            ![h].lost = @ \cup {"relay kept"}]
    BY DEF ListRelaysFail
<1> DEFINE l == job[h].lost \cup {"relay kept"}
           r == [job[h] EXCEPT !.pc = "relayDelete", !.names = n, !.lost = l]
<1>2. n \in SUBSET Relays /\ l \in SUBSET Losses
    BY <1>0, FieldTypes DEF Losses, TypeOK
<1>3. job' = [job EXCEPT ![h] = r]
    BY <1>0, <1>1
<1> HIDE DEF l
<1>4. r \in Job
    BY <1>0, <1>2, EmptyType, DropType
<1>5. /\ r.pc = "relayDelete" /\ r.lost = l /\ r.before = job[h].before
      /\ r.want = job[h].want /\ r.snap = job[h].snap
    BY <1>0 DEF Job
<1> HIDE DEF r
<1> QED
    BY <1>3, <1>4, <1>5 DEF Moved, l

\* A relay that could not be deleted or created.
RelayDropped(h, r, i, what) ==
    /\ Moved(h, r) /\ r.pc = job[h].pc /\ r.names = job[h].names \ {i}
    /\ r.lost = job[h].lost \cup {what} /\ r.before = job[h].before
    /\ r.want = job[h].want /\ r.snap = job[h].snap

LEMMA RelayDropEffect ==
    ASSUME TypeOK, NEW h \in Handlers, NEW i, NEW what \in Losses,
           job' = [job EXCEPT ![h].names = @ \ {i}, ![h].lost = @ \cup {what}]
    PROVE  \E r : RelayDropped(h, r, i, what)
<1>0. job \in [Handlers -> Job] /\ job[h] \in Job
    BY DEF TypeOK
<1> DEFINE n == job[h].names \ {i}
           l == job[h].lost \cup {what}
           r == [job[h] EXCEPT !.names = n, !.lost = l]
<1>2. n \in SUBSET Relays /\ l \in SUBSET Losses
    BY <1>0, FieldTypes
<1>3. job' = [job EXCEPT ![h] = r]
    BY <1>0
<1> HIDE DEF n, l
<1>4. r \in Job
    BY <1>0, <1>2, DropType
<1>5. /\ r.pc = job[h].pc /\ r.names = n /\ r.lost = l /\ r.before = job[h].before
      /\ r.want = job[h].want /\ r.snap = job[h].snap
    BY <1>0 DEF Job
<1> HIDE DEF r
<1> QED
    BY <1>3, <1>4, <1>5 DEF Moved, RelayDropped, n, l

\* A handler's rows or names after one of them has been handled.
RowDone(h, r, i) ==
    /\ Moved(h, r) /\ r.pc = job[h].pc /\ r.rows = job[h].rows \ {i}
    /\ r.want = job[h].want /\ r.snap = job[h].snap /\ r.lost = job[h].lost
    /\ r.before = job[h].before

NameDone(h, r, i) ==
    /\ Moved(h, r) /\ r.pc = job[h].pc /\ r.names = job[h].names \ {i}
    /\ r.want = job[h].want /\ r.snap = job[h].snap /\ r.lost = job[h].lost
    /\ r.before = job[h].before

LEMMA RowsEffect ==
    ASSUME TypeOK, NEW h \in Handlers, NEW i,
           job' = [job EXCEPT ![h].rows = @ \ {i}]
    PROVE  \E r : RowDone(h, r, i)
<1>0. job \in [Handlers -> Job] /\ job[h] \in Job
    BY DEF TypeOK
<1> DEFINE r == [job[h] EXCEPT !.rows = job[h].rows \ {i}]
<1>1. r \in Job
    BY <1>0, FieldTypes, LocalsType
<1>2. /\ r.pc = job[h].pc /\ r.rows = job[h].rows \ {i}
      /\ r.want = job[h].want /\ r.snap = job[h].snap /\ r.lost = job[h].lost
      /\ r.before = job[h].before
    BY <1>0 DEF Job
<1>3. job' = [job EXCEPT ![h] = r]
    BY <1>0
<1> QED
    BY <1>1, <1>2, <1>3 DEF Moved, RowDone

LEMMA NamesEffect ==
    ASSUME TypeOK, NEW h \in Handlers, NEW i,
           job' = [job EXCEPT ![h].names = @ \ {i}]
    PROVE  \E r : NameDone(h, r, i)
<1>0. job \in [Handlers -> Job] /\ job[h] \in Job
    BY DEF TypeOK
<1> DEFINE r == [job[h] EXCEPT !.names = job[h].names \ {i}]
<1>1. r \in Job
    BY <1>0, FieldTypes, LocalsType
<1>2. /\ r.pc = job[h].pc /\ r.names = job[h].names \ {i}
      /\ r.want = job[h].want /\ r.snap = job[h].snap /\ r.lost = job[h].lost /\ r.before = job[h].before
    BY <1>0 DEF Job
<1>3. job' = [job EXCEPT ![h] = r]
    BY <1>0
<1> QED
    BY <1>1, <1>2, <1>3 DEF Moved, NameDone

LEMMA RestoreDeleteEffect ==
    ASSUME TypeOK, NEW h \in Handlers, RestoreDelete(h)
    PROVE  \E r : /\ Moved(h, r) /\ r.want = job[h].want /\ r.snap = job[h].snap /\ r.lost = job[h].lost
                  /\ r.before = job[h].before
                  /\ \/ /\ job[h].rows = {} /\ mappings' = mappings
                        /\ r.pc = "add" /\ r.rows = Rows(job[h].want.mappings)
                     \/ \E i \in job[h].rows :
                          /\ mappings' = [mappings EXCEPT ![i] = None]
                          /\ r.pc = "delete" /\ r.rows = job[h].rows \ {i}
<1>0. job \in [Handlers -> Job] /\ job[h] \in Job /\ job[h].pc = "delete"
    BY DEF TypeOK, RestoreDelete
<1>1. CASE job[h].rows = {}
    <2> DEFINE s == [job[h] EXCEPT !.pc = "add"]
               r == [s EXCEPT !.rows = Rows(job[h].want.mappings)]
    <2>1. Rows(job[h].want.mappings) \in SUBSET Ids
        BY DEF Rows
    <2>2. r \in Job
        BY <1>0, <2>1, LocalsType
    <2>3. /\ r.pc = "add" /\ r.rows = Rows(job[h].want.mappings)
          /\ r.want = job[h].want /\ r.snap = job[h].snap /\ r.lost = job[h].lost /\ r.before = job[h].before
        BY <1>0 DEF Job
    <2>4. job' = [job EXCEPT ![h] = r] /\ mappings' = mappings
        BY <1>0, <1>1 DEF RestoreDelete
    <2> QED
        BY <1>1, <2>2, <2>3, <2>4 DEF Moved
<1>2. CASE job[h].rows # {}
    <2>1. PICK i \in job[h].rows : /\ mappings' = [mappings EXCEPT ![i] = None]
                                   /\ job' = [job EXCEPT ![h].rows = @ \ {i}]
        BY <1>2 DEF RestoreDelete
    <2>2. PICK r : RowDone(h, r, i)
        BY <2>1, RowsEffect
    <2> QED
        BY <1>0, <2>1, <2>2 DEF RowDone
<1> QED
    BY <1>1, <1>2

LEMMA RestoreCreateEffect ==
    ASSUME TypeOK, NEW h \in Handlers, RestoreCreate(h)
    PROVE  \/ Moved(h, Idle) /\ mappings' = mappings
           \/ \E r : \E i \in job[h].rows, n \in FreshIds :
                /\ Moved(h, r) /\ r.want = job[h].want /\ r.snap = job[h].snap /\ r.lost = job[h].lost
                /\ r.before = job[h].before /\ r.pc = "add"
                /\ mappings' = [mappings EXCEPT ![n] = job[h].want.mappings[i]]
                /\ r.rows = job[h].rows \ {i}
<1>1. CASE Done(h) /\ mappings' = mappings
    BY <1>1, DoneEffect
<1>2. ASSUME NEW i \in job[h].rows, NEW n \in FreshIds,
             mappings' = [mappings EXCEPT ![n] = job[h].want.mappings[i]],
             job' = [job EXCEPT ![h].rows = @ \ {i}]
      PROVE  \E r : /\ Moved(h, r) /\ r.want = job[h].want /\ r.snap = job[h].snap /\ r.lost = job[h].lost
                    /\ r.before = job[h].before /\ r.pc = "add"
                    /\ r.rows = job[h].rows \ {i}
    <2>a. PICK r : RowDone(h, r, i)
        BY <1>2, RowsEffect
    <2>1. /\ Moved(h, r) /\ r.pc = job[h].pc /\ r.rows = job[h].rows \ {i}
          /\ r.want = job[h].want /\ r.snap = job[h].snap /\ r.lost = job[h].lost
          /\ r.before = job[h].before
        BY <2>a DEF RowDone
    <2>2. job[h].pc = "add"
        BY DEF RestoreCreate
    <2> QED
        BY <2>1, <2>2
<1> QED
    BY <1>1, <1>2 DEF RestoreCreate

LEMMA RelayDeleteEffect ==
    ASSUME TypeOK, NEW h \in Handlers, RestoreRelayDelete(h)
    PROVE  \E r : /\ Moved(h, r) /\ r.want = job[h].want /\ r.snap = job[h].snap /\ r.lost = job[h].lost
                  /\ r.before = job[h].before
                  /\ \/ /\ job[h].names = {} /\ relays' = relays
                        /\ r.pc = "relayAdd" /\ r.names = job[h].want.relays
                     \/ \E n \in job[h].names :
                          /\ relays' = relays \ {n}
                          /\ r.pc = "relayDelete" /\ r.names = job[h].names \ {n}
<1>0. job \in [Handlers -> Job] /\ job[h] \in Job /\ job[h].pc = "relayDelete"
    BY DEF TypeOK, RestoreRelayDelete
<1>1. CASE job[h].names = {}
    <2> DEFINE s == [job[h] EXCEPT !.pc = "relayAdd"]
               r == [s EXCEPT !.names = job[h].want.relays]
    <2>1. r \in Job
        BY <1>0, FieldTypes, LocalsType
    <2>2. /\ r.pc = "relayAdd" /\ r.names = job[h].want.relays
          /\ r.want = job[h].want /\ r.snap = job[h].snap /\ r.lost = job[h].lost /\ r.before = job[h].before
        BY <1>0 DEF Job
    <2>3. job' = [job EXCEPT ![h] = r] /\ relays' = relays
        BY <1>0, <1>1 DEF RestoreRelayDelete
    <2> QED
        BY <1>1, <2>1, <2>2, <2>3 DEF Moved
<1>2. CASE job[h].names # {}
    <2>1. PICK n \in job[h].names : /\ relays' = relays \ {n}
                                    /\ job' = [job EXCEPT ![h].names = @ \ {n}]
        BY <1>2 DEF RestoreRelayDelete
    <2>2. PICK r : NameDone(h, r, n)
        BY <2>1, NamesEffect
    <2> QED
        BY <1>0, <2>1, <2>2 DEF NameDone
<1> QED
    BY <1>1, <1>2

LEMMA RelayCreateEffect ==
    ASSUME TypeOK, NEW h \in Handlers, RestoreRelayCreate(h)
    PROVE  \E r : /\ Moved(h, r) /\ r.want = job[h].want /\ r.snap = job[h].snap /\ r.lost = job[h].lost
                  /\ r.before = job[h].before
                  /\ \/ /\ job[h].names = {} /\ relays' = relays
                        /\ r.pc = "restored"
                     \/ \E n \in job[h].names :
                          /\ relays' = relays \cup {n}
                          /\ r.pc = "relayAdd" /\ r.names = job[h].names \ {n}
<1>0. job \in [Handlers -> Job] /\ job[h] \in Job /\ job[h].pc = "relayAdd"
    BY DEF TypeOK, RestoreRelayCreate
<1>1. CASE job[h].names = {}
    <2>1. Goto(h, "restored") /\ relays' = relays
        BY <1>1 DEF RestoreRelayCreate
    <2>2. PICK r : Moved(h, r) /\ r = [job[h] EXCEPT !.pc = "restored"]
        BY <2>1, GotoEffect
    <2>3. /\ r.pc = "restored" /\ r.want = job[h].want /\ r.snap = job[h].snap /\ r.lost = job[h].lost
          /\ r.before = job[h].before
        BY <1>0, <2>2 DEF Job
    <2> QED
        BY <1>1, <2>1, <2>2, <2>3
<1>2. CASE job[h].names # {}
    <2>1. PICK n \in job[h].names : /\ relays' = relays \cup {n}
                                    /\ job' = [job EXCEPT ![h].names = @ \ {n}]
        BY <1>2 DEF RestoreRelayCreate
    <2>2. PICK r : NameDone(h, r, n)
        BY <2>1, NamesEffect
    <2> QED
        BY <1>0, <2>1, <2>2 DEF NameDone
<1> QED
    BY <1>1, <1>2

LEMMA ValidateEffect ==
    ASSUME TypeOK, NEW h \in Handlers, Validate(h)
    PROVE  /\ slips' \subseteq Slips /\ slips \subseteq slips'
           /\ \/ Moved(h, Idle)
              \/ \E r : /\ Moved(h, r) /\ r.pc = "store" /\ r.op = job[h].op
                        /\ r.body = job[h].body /\ r.id = job[h].id
                        /\ r.want = job[h].want /\ r.snap = job[h].snap
                        /\ r.lost = job[h].lost
                        /\ ValidateMapping(job[h].body, job[h].id, mappings)
                        /\ slips' = {} /\ job[h].op = "create" =>
                             ValidateMapping(job[h].body, None, mappings)
<1> DEFINE V(id) == ValidateMapping(job[h].body, id, mappings)
<1>0. job[h] \in Job /\ slips \subseteq Slips
    BY DEF TypeOK
<1>a. IF V(job[h].id)
      THEN /\ Goto(h, "store")
           /\ slips' = slips \cup {s \in {"own id"} : job[h].op = "create" /\ ~V(None)}
      ELSE Done(h) /\ slips' = slips
    BY DEF Validate
<1> HIDE DEF V
<1>1. CASE ~V(job[h].id)
    BY <1>0, <1>1, <1>a, DoneEffect
<1>2. CASE V(job[h].id)
    <2>1. Goto(h, "store")
        BY <1>2, <1>a
    <2>2. PICK r : Moved(h, r) /\ r = [job[h] EXCEPT !.pc = "store"]
        BY <2>1, GotoEffect
    <2>3. /\ r.pc = "store" /\ r.op = job[h].op /\ r.body = job[h].body
          /\ r.id = job[h].id /\ r.want = job[h].want /\ r.snap = job[h].snap
          /\ r.lost = job[h].lost
        BY <1>0, <2>2 DEF Job
    <2>4. /\ slips' \subseteq Slips /\ slips \subseteq slips'
          /\ slips' = {} /\ job[h].op = "create" => V(None)
        BY <1>0, <1>2, <1>a DEF Slips
    <2> QED
        BY <1>2, <2>2, <2>3, <2>4 DEF V
<1> QED
    BY <1>1, <1>2

LEMMA ImportMappingEffect ==
    ASSUME TypeOK, NEW h \in Handlers, NEW b \in Bodies, ImportMapping(h, b)
    PROVE  \E r : /\ Moved(h, r) /\ r.pc = "import"
                  /\ r.want = job[h].want /\ r.snap = job[h].snap /\ r.lost = job[h].lost
                  /\ \/ mappings' = mappings /\ r.all = job[h].all
                     \/ \E i \in FreshIds :
                          /\ ValidateMapping(b, None, job[h].all)
                          /\ mappings' = [mappings EXCEPT ![i] = b]
                          /\ r.all = [job[h].all EXCEPT ![i] = b]
<1>0. job \in [Handlers -> Job] /\ job[h] \in Job /\ job[h].pc = "import"
    BY DEF TypeOK, ImportMapping
<1> DEFINE s == [job[h] EXCEPT !.todo = job[h].todo \ {b}]
<1>1. s \in Job
    BY <1>0, FieldTypes, LocalsType
<1>2. /\ s.pc = "import" /\ s.all = job[h].all
      /\ s.want = job[h].want /\ s.snap = job[h].snap /\ s.lost = job[h].lost
    BY <1>0 DEF Job
<1>3. CASE mappings' = mappings /\ job' = [job EXCEPT ![h].todo = @ \ {b}]
    <2>1. job' = [job EXCEPT ![h] = s]
        BY <1>0, <1>3
    <2> QED
        BY <1>1, <1>2, <1>3, <2>1 DEF Moved
<1>4. ASSUME NEW i \in FreshIds, ValidateMapping(b, None, job[h].all),
             mappings' = [mappings EXCEPT ![i] = b],
             job' = [job EXCEPT ![h].todo = @ \ {b}, ![h].all[i] = b]
      PROVE  \E r : /\ Moved(h, r) /\ r.pc = "import"
                    /\ r.want = job[h].want /\ r.snap = job[h].snap /\ r.lost = job[h].lost
                    /\ r.all = [job[h].all EXCEPT ![i] = b]
    <2> DEFINE a == [job[h].all EXCEPT ![i] = b]
               r == [s EXCEPT !.all = a]
    <2>1. a \in Table
        BY <1>0, FieldTypes DEF Table
    <2>2. r \in Job
        BY <1>1, <2>1, LocalsType
    <2>3. r.pc = "import" /\ r.all = a /\ r.want = s.want /\ r.snap = s.snap /\ r.lost = s.lost
        BY <1>1, <1>2 DEF Job
    <2>4. job' = [job EXCEPT ![h] = r]
        BY <1>0, <1>2, <1>4
    <2> HIDE DEF r, s
    <2> QED
        BY <1>2, <2>2, <2>3, <2>4 DEF Moved
<1>5. \/ mappings' = mappings /\ job' = [job EXCEPT ![h].todo = @ \ {b}]
      \/ \E i \in FreshIds :
           /\ ValidateMapping(b, None, job[h].all)
           /\ mappings' = [mappings EXCEPT ![i] = b]
           /\ job' = [job EXCEPT ![h].todo = @ \ {b}, ![h].all[i] = b]
    BY DEF ImportMapping
<1>6. CASE \E i \in FreshIds :
             /\ ValidateMapping(b, None, job[h].all)
             /\ mappings' = [mappings EXCEPT ![i] = b]
             /\ job' = [job EXCEPT ![h].todo = @ \ {b}, ![h].all[i] = b]
    <2>1. PICK i \in FreshIds :
             /\ ValidateMapping(b, None, job[h].all)
             /\ mappings' = [mappings EXCEPT ![i] = b]
             /\ job' = [job EXCEPT ![h].todo = @ \ {b}, ![h].all[i] = b]
        BY <1>6
    <2>2. PICK r : /\ Moved(h, r) /\ r.pc = "import"
                   /\ r.want = job[h].want /\ r.snap = job[h].snap /\ r.lost = job[h].lost
                   /\ r.all = [job[h].all EXCEPT ![i] = b]
        BY <1>4, <2>1
    <2> QED
        BY <2>1, <2>2
<1> QED
    BY <1>3, <1>5, <1>6

\* The end of CreateConfigVersion, for either caller.
LEMMA AfterVersionEffect ==
    ASSUME TypeOK, NEW h \in Handlers, AfterVersion(h)
    PROVE  \/ Moved(h, Idle)
           \/ \E r : /\ Moved(h, r) /\ r.pc = "current"
                     /\ r.want = job[h].want /\ r.snap = job[h].snap /\ r.lost = job[h].lost
<1>0. job[h] \in Job
    BY DEF TypeOK
<1>1. CASE job[h].op # "restore"
    BY <1>1, DoneEffect DEF AfterVersion
<1>2. CASE job[h].op = "restore"
    <2>1. PICK r : Moved(h, r) /\ r = [job[h] EXCEPT !.pc = "current"]
        BY <1>2, GotoEffect DEF AfterVersion
    <2>2. r.pc = "current" /\ r.want = job[h].want /\ r.snap = job[h].snap /\ r.lost = job[h].lost
        BY <1>0, <2>1 DEF Job
    <2> QED
        BY <2>1, <2>2
<1> QED
    BY <1>1, <1>2

LEMMA InsertEffect ==
    ASSUME TypeOK, NEW h \in Handlers, InsertVersion(h)
    PROVE  \/ /\ versions' = versions
              /\ versions[job[h].ver] # None \/ Fails("version")
              /\ \/ Moved(h, Idle)
                 \/ \E r : /\ Moved(h, r) /\ r.pc = "current"
                           /\ r.want = job[h].want /\ r.snap = job[h].snap /\ r.lost = job[h].lost
           \/ /\ versions[job[h].ver] = None
              /\ versions' = [versions EXCEPT ![job[h].ver] = job[h].snap]
              /\ \E r : /\ Moved(h, r) /\ r.pc = "prune" /\ r.op = job[h].op
                        /\ r.want = job[h].want /\ r.snap = job[h].snap /\ r.lost = job[h].lost
<1>0. job[h] \in Job
    BY DEF TypeOK
<1>1. CASE /\ versions' = versions /\ AfterVersion(h)
           /\ versions[job[h].ver] # None \/ Fails("version")
    BY <1>1, AfterVersionEffect
<1>2. CASE /\ versions[job[h].ver] = None /\ Goto(h, "prune")
           /\ versions' = [versions EXCEPT ![job[h].ver] = job[h].snap]
    <2>1. PICK r : Moved(h, r) /\ r = [job[h] EXCEPT !.pc = "prune"]
        BY <1>2, GotoEffect
    <2>2. /\ r.pc = "prune" /\ r.op = job[h].op
          /\ r.want = job[h].want /\ r.snap = job[h].snap /\ r.lost = job[h].lost
        BY <1>0, <2>1 DEF Job
    <2> QED
        BY <1>2, <2>1, <2>2
<1> QED
    BY <1>1, <1>2 DEF InsertVersion

-----------------------------------------------------------------------------
(***************************************************************************)
(* Every step keeps the types, and is one of three things to the versions. *)
(***************************************************************************)

\* No version changes, and nobody starts or ends a retention; a number that is
\* read for an insert is the next one.
Quiet ==
    /\ versions' = versions
    /\ \/ job' = job
       \/ \E h \in Handlers : \E r :
            /\ Moved(h, r) /\ job[h].pc # "prune" /\ r.pc # "prune"
            /\ r.pc = "insert" => r.ver = Latest + 1

Inserted ==
    \E h \in Handlers : \E r :
        /\ job[h].pc = "insert" /\ versions[job[h].ver] = None
        /\ versions' = [versions EXCEPT ![job[h].ver] = job[h].snap]
        /\ Moved(h, r) /\ r.pc = "prune"

Pruned ==
    \E h \in Handlers : \E r :
        /\ job[h].pc = "prune"
        /\ versions' = [v \in Numbers |->
                          IF v <= (IF Latest > Keep THEN Latest - Keep ELSE 0)
                          THEN None ELSE versions[v]]
        /\ Moved(h, r) /\ r.pc \in {"idle", "current"}

LEMMA MovedTypes ==
    ASSUME TypeOK, NEW h \in Handlers, NEW r, Moved(h, r), mappings' \in Table,
           certs' \in [CertIds -> {"unused", "stored", "deleted"}],
           relays' \in SUBSET Relays,
           versions' \in [Numbers -> Snapshot \cup {None}],
           slips' = slips \/ slips' \subseteq Slips
    PROVE  TypeOK'
BY MovedLocals DEF TypeOK

\* A step of a handler that touches only its locals and, perhaps, the mappings.
LEMMA QuietMove ==
    ASSUME TypeOK, NEW h \in Handlers, NEW r, Moved(h, r), mappings' \in Table,
           UNCHANGED <<certs, relays, versions>>,
           slips' = slips \/ slips' \subseteq Slips,
           job[h].pc # "prune", r.pc # "prune",
           r.pc = "insert" => r.ver = Latest + 1
    PROVE  TypeOK' /\ Quiet
<1>1. TypeOK'
    BY MovedTypes DEF TypeOK
<1> QED
    BY <1>1 DEF Quiet

LEMMA MappingSteps ==
    ASSUME TypeOK, NEW h \in Handlers
    PROVE  /\ Validate(h) => TypeOK' /\ Quiet
           /\ CreateMapping(h) => TypeOK' /\ Quiet
           /\ UpdateMapping(h) => TypeOK' /\ Quiet
           /\ \A b \in Bodies : \A i \in Ids \cup {None} :
                SaveMapping(h, "create", b, i) \/ SaveMapping(h, "update", b, i)
                  => TypeOK' /\ Quiet
           /\ \A i \in Ids : DeleteMapping(h, i) => TypeOK' /\ Quiet
<1>1. ASSUME Validate(h) PROVE TypeOK' /\ Quiet
    <2>1. PICK r : Moved(h, r) /\ r.pc \in {"idle", "store"}
        BY <1>1, ValidateEffect, IdleLocals
    <2>2. job[h].pc = "list" /\ UNCHANGED <<mappings, certs, relays, versions>>
        BY <1>1 DEF Validate
    <2>3. slips' \subseteq Slips
        BY <1>1, ValidateEffect
    <2> QED
        BY <2>1, <2>2, <2>3, QuietMove DEF TypeOK
<1>2. ASSUME CreateMapping(h) PROVE TypeOK' /\ Quiet
    <2>1. Moved(h, Idle) /\ job[h].pc = "store" /\ UNCHANGED <<certs, relays, versions, slips>>
        BY <1>2, DoneEffect DEF CreateMapping
    <2>2. job[h].body \in Bodies \cup {None}
        BY FieldTypes DEF TypeOK
    <2>3. mappings' \in Table
        BY <1>2, <2>2 DEF CreateMapping, TypeOK, Table
    <2> QED
        BY <2>1, <2>3, QuietMove, IdleLocals
<1>3. ASSUME UpdateMapping(h) PROVE TypeOK' /\ Quiet
    <2>1. Moved(h, Idle) /\ job[h].pc = "store" /\ UNCHANGED <<certs, relays, versions, slips>>
        BY <1>3, DoneEffect DEF UpdateMapping
    <2>2. job[h].body \in Bodies \cup {None}
        BY FieldTypes DEF TypeOK
    <2>3. mappings' \in Table
        BY <1>3, <2>2 DEF UpdateMapping, TypeOK, Table
    <2> QED
        BY <2>1, <2>3, QuietMove, IdleLocals
<1>4. ASSUME NEW b \in Bodies, NEW i \in Ids \cup {None}, NEW op \in {"create", "update"},
             SaveMapping(h, op, b, i)
      PROVE  TypeOK' /\ Quiet
    <2>1. PICK r : Moved(h, r) /\ r.pc = "list"
        BY <1>4, SaveEffect DEF Saving
    <2>2. job[h].pc = "idle" /\ UNCHANGED <<mappings, certs, relays, versions, slips>>
        BY <1>4 DEF SaveMapping
    <2> QED
        BY <2>1, <2>2, QuietMove DEF TypeOK
<1>5. ASSUME NEW i \in Ids, DeleteMapping(h, i) PROVE TypeOK' /\ Quiet
    BY <1>5 DEF DeleteMapping, TypeOK, Table, Quiet
<1> QED
    BY <1>1, <1>2, <1>3, <1>4, <1>5

LEMMA ImportSteps ==
    ASSUME TypeOK, NEW h \in Handlers
    PROVE  /\ \A bs \in SUBSET Bodies :
                ListForImport(h, bs) \/ ScanConfigs(h, bs) => TypeOK' /\ Quiet
           /\ ListScanned(h) \/ ImportDone(h) => TypeOK' /\ Quiet
           /\ \A b \in Bodies : ImportMapping(h, b) => TypeOK' /\ Quiet
<1>1. ASSUME NEW bs \in SUBSET Bodies, ListForImport(h, bs) PROVE TypeOK' /\ Quiet
    <2>1. PICK r : Moved(h, r) /\ r.pc = "import"
        BY <1>1, ImportEffect
    <2>2. job[h].pc = "idle" /\ UNCHANGED <<mappings, certs, relays, versions, slips>>
        BY <1>1 DEF ListForImport
    <2> QED
        BY <2>1, <2>2, QuietMove DEF TypeOK
<1>2. ASSUME NEW bs \in SUBSET Bodies, ScanConfigs(h, bs) PROVE TypeOK' /\ Quiet
    <2>1. PICK r : Moved(h, r) /\ r.pc = "scanned"
        BY <1>2, ScanEffect
    <2>2. job[h].pc = "idle" /\ UNCHANGED <<mappings, certs, relays, versions, slips>>
        BY <1>2 DEF ScanConfigs
    <2> QED
        BY <2>1, <2>2, QuietMove DEF TypeOK
<1>3. ASSUME ListScanned(h) PROVE TypeOK' /\ Quiet
    <2>1. PICK r : Moved(h, r) /\ r.pc = "import" /\ slips' \subseteq Slips
        BY <1>3, ListScannedEffect
    <2>2. job[h].pc = "scanned" /\ UNCHANGED <<mappings, certs, relays, versions>>
        BY <1>3 DEF ListScanned
    <2> QED
        BY <2>1, <2>2, QuietMove DEF TypeOK
<1>4. ASSUME ImportDone(h) PROVE TypeOK' /\ Quiet
    <2>1. /\ Moved(h, Idle) /\ job[h].pc = "import"
          /\ UNCHANGED <<mappings, certs, relays, versions, slips>>
        BY <1>4, DoneEffect DEF ImportDone
    <2> QED
        BY <2>1, QuietMove, IdleLocals DEF TypeOK
<1>5. ASSUME NEW b \in Bodies, ImportMapping(h, b) PROVE TypeOK' /\ Quiet
    <2>1. PICK r : /\ Moved(h, r) /\ r.pc = "import"
                   /\ \/ mappings' = mappings
                      \/ \E i \in FreshIds : mappings' = [mappings EXCEPT ![i] = b]
        BY <1>5, ImportMappingEffect
    <2>2. job[h].pc = "import" /\ UNCHANGED <<certs, relays, versions, slips>>
        BY <1>5 DEF ImportMapping
    <2>3. mappings' \in Table
        BY <2>1 DEF TypeOK, Table
    <2> QED
        BY <2>1, <2>2, <2>3, QuietMove
<1> QED
    BY <1>1, <1>2, <1>3, <1>4, <1>5

LEMMA CertRelaySteps ==
    ASSUME TypeOK, NEW h \in Handlers
    PROVE  /\ \A c \in CertIds : CreateCert(h, c) \/ CountUses(h, c) => TypeOK' /\ Quiet
           /\ DeleteCert(h) => TypeOK' /\ Quiet
           /\ \A r, s \in Relays :
                CreateRelay(h, r) \/ DeleteRelay(h, r) \/ UpdateRelay(h, r, s)
                  => TypeOK' /\ Quiet
<1>1. ASSUME NEW c \in CertIds, CreateCert(h, c) PROVE TypeOK' /\ Quiet
    BY <1>1 DEF CreateCert, TypeOK, Quiet
<1>2. ASSUME NEW c \in CertIds, CountUses(h, c) PROVE TypeOK' /\ Quiet
    <2>1. PICK r : Moved(h, r) /\ r.pc = "counted"
        BY <1>2, CountEffect
    <2>2. job[h].pc = "idle" /\ UNCHANGED <<mappings, certs, relays, versions, slips>>
        BY <1>2 DEF CountUses
    <2> QED
        BY <2>1, <2>2, QuietMove DEF TypeOK
<1>3. ASSUME DeleteCert(h) PROVE TypeOK' /\ Quiet
    <2>1. /\ Moved(h, Idle) /\ job[h].pc = "counted"
          /\ UNCHANGED <<mappings, relays, versions, slips>>
          /\ certs' \in [CertIds -> {"unused", "stored", "deleted"}]
        BY <1>3, DoneEffect DEF DeleteCert, TypeOK
    <2>2. TypeOK'
        BY <2>1, MovedTypes DEF TypeOK
    <2> QED
        BY <2>1, <2>2, IdleLocals DEF Quiet
<1>4. ASSUME NEW r \in Relays, NEW s \in Relays,
             CreateRelay(h, r) \/ DeleteRelay(h, r) \/ UpdateRelay(h, r, s)
      PROVE  TypeOK' /\ Quiet
    BY <1>4 DEF CreateRelay, DeleteRelay, UpdateRelay, TypeOK, Quiet
<1> QED
    BY <1>1, <1>2, <1>3, <1>4

LEMMA VersionSteps ==
    ASSUME TypeOK, NEW h \in Handlers
    PROVE  /\ Apply(h) => TypeOK' /\ Quiet
           /\ \A v \in Numbers : RestoreVersion(h, v) => TypeOK' /\ Quiet
           /\ CreateConfigVersion(h) => TypeOK' /\ (Quiet \/ Inserted \/ Pruned)
<1>1. ASSUME Apply(h) PROVE TypeOK' /\ Quiet
    <2>1. PICK r : Moved(h, r) /\ r.pc = "listMappings"
        BY <1>1, ApplyEffect
    <2>2. job[h].pc = "idle" /\ UNCHANGED <<mappings, certs, relays, versions, slips>>
        BY <1>1 DEF Apply
    <2> QED
        BY <2>1, <2>2, QuietMove DEF TypeOK
<1>2. ASSUME NEW v \in Numbers, RestoreVersion(h, v) PROVE TypeOK' /\ Quiet
    <2>1. PICK r : Moved(h, r) /\ r.pc = "listMappings"
        BY <1>2, RestoreEffect
    <2>2. job[h].pc = "idle" /\ UNCHANGED <<mappings, certs, relays, versions, slips>>
        BY <1>2 DEF RestoreVersion
    <2> QED
        BY <2>1, <2>2, QuietMove DEF TypeOK
<1>3. ASSUME SnapMappings(h) PROVE TypeOK' /\ Quiet
    <2>1. PICK r : Moved(h, r) /\ r.pc = "listRelays"
        BY <1>3, SnapMappingsEffect
    <2>2. job[h].pc = "listMappings" /\ UNCHANGED <<mappings, certs, relays, versions, slips>>
        BY <1>3 DEF SnapMappings
    <2> QED
        BY <2>1, <2>2, QuietMove DEF TypeOK
<1>4. ASSUME SnapRelays(h) PROVE TypeOK' /\ Quiet
    <2>1. PICK r : Moved(h, r) /\ r.pc = "max"
        BY <1>4, SnapRelaysEffect
    <2>2. job[h].pc = "listRelays" /\ UNCHANGED <<mappings, certs, relays, versions, slips>>
        BY <1>4 DEF SnapRelays
    <2> QED
        BY <2>1, <2>2, QuietMove DEF TypeOK
<1>5. ASSUME NextVersion(h) PROVE TypeOK' /\ Quiet
    <2>1. PICK r : Moved(h, r) /\ r.pc = "insert" /\ r.ver = Latest + 1
        BY <1>5, NextVersionEffect
    <2>2. job[h].pc = "max" /\ UNCHANGED <<mappings, certs, relays, versions, slips>>
        BY <1>5 DEF NextVersion
    <2> QED
        BY <2>1, <2>2, QuietMove DEF TypeOK
<1>6. ASSUME InsertVersion(h) PROVE TypeOK' /\ (Quiet \/ Inserted)
    <2>1. job[h].pc = "insert" /\ UNCHANGED <<mappings, certs, relays, slips>>
        BY <1>6 DEF InsertVersion
    <2>2. CASE versions' = versions /\ \E r : Moved(h, r) /\ r.pc \in {"idle", "current"}
        <3>1. PICK r : Moved(h, r) /\ r.pc \in {"idle", "current"}
            BY <2>2
        <3> QED
            BY <2>1, <2>2, <3>1, QuietMove DEF TypeOK
    <2>3. CASE /\ versions[job[h].ver] = None
               /\ versions' = [versions EXCEPT ![job[h].ver] = job[h].snap]
               /\ \E r : Moved(h, r) /\ r.pc = "prune"
        <3>1. PICK r : Moved(h, r) /\ r.pc = "prune"
            BY <2>3
        <3>2. job[h].snap \in Snapshot
            BY FieldTypes DEF TypeOK
        <3>3. versions' \in [Numbers -> Snapshot \cup {None}]
            BY <2>3, <3>2 DEF TypeOK
        <3>4. TypeOK'
            BY <2>1, <3>1, <3>3, MovedTypes DEF TypeOK
        <3> QED
            BY <2>1, <2>3, <3>1, <3>4 DEF Inserted
    <2> QED
        BY <1>6, <2>2, <2>3, InsertEffect, IdleLocals
<1>7. ASSUME PruneVersions(h) PROVE TypeOK' /\ Pruned
    <2> DEFINE last == IF Latest > Keep THEN Latest - Keep ELSE 0
    <2>1. /\ job[h].pc = "prune" /\ UNCHANGED <<mappings, certs, relays, slips>>
          /\ versions' = [v \in Numbers |-> IF v <= last THEN None ELSE versions[v]]
          /\ AfterVersion(h)
        BY <1>7 DEF PruneVersions, Prune
    <2>2. PICK r : Moved(h, r) /\ r.pc \in {"idle", "current"}
        BY <2>1, AfterVersionEffect, IdleLocals
    <2>3. versions' \in [Numbers -> Snapshot \cup {None}]
        BY <2>1 DEF TypeOK
    <2>4. TypeOK'
        BY <2>1, <2>2, <2>3, MovedTypes DEF TypeOK
    <2> QED
        BY <2>1, <2>2, <2>4 DEF Pruned
<1> QED
    BY <1>1, <1>2, <1>3, <1>4, <1>5, <1>6, <1>7 DEF CreateConfigVersion

LEMMA RestoreSteps ==
    ASSUME TypeOK, NEW h \in Handlers, Restore(h)
    PROVE  TypeOK' /\ Quiet
<1>0. /\ job[h].want.mappings \in Table /\ job[h].names \in SUBSET Relays
      /\ job[h].rows \in SUBSET Ids /\ job[h].want.relays \in SUBSET Relays
    BY FieldTypes DEF TypeOK
<1>1. CASE ListCurrent(h)
    <2>1. PICK r : Moved(h, r) /\ r.pc = "delete"
        BY <1>1, ListCurrentEffect
    <2>2. job[h].pc = "current" /\ UNCHANGED <<mappings, certs, relays, versions, slips>>
        BY <1>1 DEF ListCurrent
    <2> QED
        BY <2>1, <2>2, QuietMove DEF TypeOK
<1>2. CASE RestoreDelete(h)
    <2>1. PICK r : /\ Moved(h, r) /\ r.pc \in {"delete", "add"}
                   /\ \/ mappings' = mappings
                      \/ \E i \in job[h].rows : mappings' = [mappings EXCEPT ![i] = None]
        BY <1>2, RestoreDeleteEffect
    <2>2. job[h].pc = "delete" /\ UNCHANGED <<certs, relays, versions, slips>>
        BY <1>2 DEF RestoreDelete
    <2>3. mappings' \in Table
        BY <2>1 DEF TypeOK, Table
    <2> QED
        BY <2>1, <2>2, <2>3, QuietMove
<1>3. CASE RestoreCreate(h)
    <2>1. PICK r : /\ Moved(h, r) /\ r.pc \in {"idle", "add"}
                   /\ \/ mappings' = mappings
                      \/ \E i \in job[h].rows, n \in FreshIds :
                           mappings' = [mappings EXCEPT ![n] = job[h].want.mappings[i]]
        BY <1>3, RestoreCreateEffect, IdleLocals
    <2>2. job[h].pc = "add" /\ UNCHANGED <<certs, relays, versions, slips>>
        BY <1>3 DEF RestoreCreate
    <2>3. mappings' \in Table
        BY <1>0, <2>1 DEF TypeOK, Table
    <2> QED
        BY <2>1, <2>2, <2>3, QuietMove
<1>4. CASE ListCurrentRelays(h)
    <2>1. PICK r : Moved(h, r) /\ r.pc = "relayDelete"
        BY <1>4, ListRelaysEffect
    <2>2. job[h].pc = "add" /\ UNCHANGED <<mappings, certs, relays, versions, slips>>
        BY <1>4 DEF ListCurrentRelays
    <2> QED
        BY <2>1, <2>2, QuietMove DEF TypeOK
<1>5. CASE RestoreRelayDelete(h)
    <2>1. PICK r : /\ Moved(h, r) /\ r.pc \in {"relayDelete", "relayAdd"}
                   /\ \/ relays' = relays
                      \/ \E n \in job[h].names : relays' = relays \ {n}
        BY <1>5, RelayDeleteEffect
    <2>2. job[h].pc = "relayDelete" /\ UNCHANGED <<mappings, certs, versions, slips>>
        BY <1>5 DEF RestoreRelayDelete
    <2>3. TypeOK'
        BY <1>0, <2>1, <2>2, MovedTypes DEF TypeOK
    <2> QED
        BY <2>1, <2>2, <2>3 DEF Quiet
<1>6. CASE RestoreRelayCreate(h)
    <2>1. PICK r : /\ Moved(h, r) /\ r.pc \in {"restored", "relayAdd"}
                   /\ \/ relays' = relays
                      \/ \E n \in job[h].names : relays' = relays \cup {n}
        BY <1>6, RelayCreateEffect
    <2>2. job[h].pc = "relayAdd" /\ UNCHANGED <<mappings, certs, versions, slips>>
        BY <1>6 DEF RestoreRelayCreate
    <2>3. TypeOK'
        BY <1>0, <2>1, <2>2, MovedTypes DEF TypeOK
    <2> QED
        BY <2>1, <2>2, <2>3 DEF Quiet
<1>7. CASE RestoreDone(h)
    <2>1. /\ Moved(h, Idle) /\ job[h].pc = "restored"
          /\ UNCHANGED <<mappings, certs, relays, versions, slips>>
        BY <1>7, DoneEffect DEF RestoreDone
    <2> QED
        BY <2>1, QuietMove, IdleLocals DEF TypeOK
<1>8. CASE ListCurrentFail(h) \/ RestoreDeleteFail(h)
    <2>1. PICK r : Moved(h, r) /\ r.pc = "delete"
        BY <1>8, CurrentFailEffect, DeleteFailEffect
    <2>2. /\ job[h].pc \in {"current", "delete"}
          /\ UNCHANGED <<mappings, certs, relays, versions>>
          /\ slips' = slips \cup {"left over"}
        BY <1>8 DEF ListCurrentFail, RestoreDeleteFail
    <2>3. slips' \subseteq Slips
        BY <2>2 DEF TypeOK, Slips
    <2> QED
        BY <2>1, <2>2, <2>3, QuietMove DEF TypeOK
<1>9. CASE ListRelaysFail(h)
    <2>1. PICK r : Moved(h, r) /\ r.pc = "relayDelete"
        BY <1>9, RelaysFailEffect
    <2>2. job[h].pc = "add" /\ UNCHANGED <<mappings, certs, relays, versions, slips>>
        BY <1>9 DEF ListRelaysFail
    <2> QED
        BY <2>1, <2>2, QuietMove DEF TypeOK
<1>10. CASE RelayDeleteFail(h) \/ RelayCreateFail(h)
    <2>1. /\ job[h].pc \in {"relayDelete", "relayAdd"}
          /\ UNCHANGED <<mappings, certs, relays, versions, slips>>
          /\ \E what \in Losses : \E i \in job[h].names :
               job' = [job EXCEPT ![h].names = @ \ {i}, ![h].lost = @ \cup {what}]
        BY <1>10 DEF RelayDeleteFail, RelayCreateFail, Losses
    <2>a. PICK what \in Losses : \E i \in job[h].names :
               job' = [job EXCEPT ![h].names = @ \ {i}, ![h].lost = @ \cup {what}]
        BY <2>1
    <2>b. PICK i \in job[h].names :
               job' = [job EXCEPT ![h].names = @ \ {i}, ![h].lost = @ \cup {what}]
        BY <2>a
    <2>c. PICK r : RelayDropped(h, r, i, what)
        BY <2>b, RelayDropEffect
    <2>2. Moved(h, r) /\ r.pc = job[h].pc
        BY <2>c DEF RelayDropped
    <2> QED
        BY <2>1, <2>2, QuietMove DEF TypeOK
<1> QED
    BY <1>1, <1>2, <1>3, <1>4, <1>5, <1>6, <1>7, <1>8, <1>9, <1>10 DEF Restore

LEMMA StepKinds ==
    ASSUME TypeOK, Next
    PROVE  TypeOK' /\ (Quiet \/ Inserted \/ Pruned)
<1>1. PICK h \in Handlers :
    \/ \E b \in Bodies, id \in Ids \cup {None} :
          SaveMapping(h, "create", b, id) \/ SaveMapping(h, "update", b, id)
    \/ \E b \in Bodies : ImportMapping(h, b)
    \/ Validate(h) \/ CreateMapping(h) \/ UpdateMapping(h)
    \/ \E i \in Ids : DeleteMapping(h, i)
    \/ \E bs \in SUBSET Bodies : ListForImport(h, bs) \/ ScanConfigs(h, bs)
    \/ ListScanned(h) \/ ImportDone(h)
    \/ \E c \in CertIds : CreateCert(h, c) \/ CountUses(h, c)
    \/ DeleteCert(h)
    \/ \E r \in Relays : \/ CreateRelay(h, r) \/ DeleteRelay(h, r)
                          \/ \E s \in Relays : UpdateRelay(h, r, s)
    \/ Apply(h) \/ CreateConfigVersion(h)
    \/ \E v \in Numbers : RestoreVersion(h, v)
    \/ Restore(h)
    BY DEF Next
<1> QED
    BY <1>1, MappingSteps, ImportSteps, CertRelaySteps, VersionSteps, RestoreSteps

-----------------------------------------------------------------------------
(***************************************************************************)
(* Versions and their retention, for any number of handlers.               *)
(***************************************************************************)

LEMMA StoreInit == Init => StoreInv
<1> SUFFICES ASSUME Init PROVE StoreInv
    OBVIOUS
<1>1. TypeOK
    BY EmptyType, IdleType DEF Init, TypeOK
<1>2. Stored = {}
    BY DEF Init, Stored
<1>3. Latest = 0
    BY <1>2, LatestUnique
<1>4. \A h \in Handlers : job[h].pc = "idle"
    BY IdleLocals DEF Init
<1>5. VersionsInv
    BY <1>3, <1>4, VersionAssumption DEF VersionsInv, Numbers
<1>6. {h \in Handlers : job[h].pc = "prune"} = {}
    BY <1>4
<1>7. RetentionBound
    BY <1>2, <1>6, FS_EmptySet, VersionAssumption DEF RetentionBound
<1> QED
    BY <1>1, <1>5, <1>7 DEF StoreInv

\* The handlers that have inserted and not yet pruned.
Pruning == {h \in Handlers : job[h].pc = "prune"}

LEMMA PruningFinite == IsFiniteSet(Pruning) /\ Cardinality(Pruning) \in Nat
BY FiniteAssumption, FS_Subset, FS_CardinalityType DEF Pruning

\* LatestUnique, for the next state.
LEMMA LatestUniqueNext ==
    ASSUME NEW n, n \in Stored' \/ (n = 0 /\ Stored' = {}), \A v \in Stored' : v <= n
    PROVE  Latest' = n
<1>1. Stored' \cup {0} \in SUBSET (0..MaxVersion)
    BY VersionAssumption DEF Stored, Numbers
<1>2. Latest' \in Stored' \cup {0} /\ \A x \in Stored' \cup {0} : x <= Latest'
    BY <1>1, MaxExists, VersionAssumption DEF Latest
<1> QED
    BY <1>1, <1>2, VersionAssumption

\* An insertion makes the newest number one more or leaves it.
LEMMA InsertStep ==
    ASSUME StoreInv, TypeOK', Inserted
    PROVE  /\ VersionsInv' /\ RetentionBound'
           /\ \A v \in Numbers : versions[v] # None => versions'[v] # None
<1>a. PICK h \in Handlers : \E r :
        /\ job[h].pc = "insert" /\ versions[job[h].ver] = None
        /\ versions' = [versions EXCEPT ![job[h].ver] = job[h].snap]
        /\ Moved(h, r) /\ r.pc = "prune"
    BY DEF Inserted
<1>1. PICK r :
        /\ job[h].pc = "insert" /\ versions[job[h].ver] = None
        /\ versions' = [versions EXCEPT ![job[h].ver] = job[h].snap]
        /\ Moved(h, r) /\ r.pc = "prune"
    BY <1>a
<1> DEFINE n == job[h].ver
<1>2. n \in 0..(MaxVersion + 1) /\ job[h].snap \in Snapshot /\ n <= Latest + 1
    BY <1>1, FieldTypes DEF StoreInv, TypeOK, VersionsInv
<1>3. None \notin Snapshot
    BY BodyAssumption
<1>4. /\ n \notin Stored
      /\ Stored' = IF n \in Numbers THEN Stored \cup {n} ELSE Stored
    BY <1>1, <1>2, <1>3 DEF StoreInv, TypeOK, Stored
<1>5. Latest' = IF n \in Numbers /\ n = Latest + 1 THEN n ELSE Latest
    <2>1. CASE n \in Numbers /\ n = Latest + 1
        <3>1. n \in Stored' /\ \A v \in Stored' : v <= n
            BY <1>4, <2>1, LatestIs, VersionAssumption DEF Stored, Numbers
        <3> QED
            BY <2>1, <3>1, LatestUniqueNext
    <2>2. CASE ~(n \in Numbers /\ n = Latest + 1)
        <3>1. /\ Latest \in Stored' \/ (Latest = 0 /\ Stored' = {})
              /\ \A v \in Stored' : v <= Latest
            BY <1>2, <1>4, <2>2, LatestIs, VersionAssumption DEF Stored, Numbers
        <3> QED
            BY <2>2, <3>1, LatestUniqueNext
    <2> QED
        BY <2>1, <2>2
<1>6. Latest \in Nat /\ Latest <= Latest'  /\ Latest' <= Latest + 1
    BY <1>5, LatestIs, VersionAssumption
<1>7. \A g \in Handlers : job'[g].pc = "insert" => g # h /\ job'[g] = job[g]
    BY <1>1, MovedLocals DEF StoreInv
<1>8. VersionsInv'
    <2>1. ASSUME NEW v \in Numbers, v <= Latest', v + Keep > Latest'
          PROVE  versions'[v] # None
        <3>1. v \in Nat /\ Keep \in Nat
            BY VersionAssumption DEF Numbers
        <3>2. CASE v = n
            BY <1>1, <1>2, <1>3, <3>2 DEF StoreInv, TypeOK
        <3>3. CASE v # n
            <4>1. v <= Latest /\ v + Keep > Latest
                BY <1>5, <1>6, <2>1, <3>1, <3>3
            <4>2. versions[v] # None
                BY <4>1 DEF StoreInv, VersionsInv
            <4> QED
                BY <1>1, <3>3, <4>2 DEF StoreInv, TypeOK
        <3> QED
            BY <3>2, <3>3
    <2>2. ASSUME NEW g \in Handlers, job'[g].pc = "insert"
          PROVE  job'[g].ver <= Latest' + 1
        <3>1. job[g].pc = "insert" /\ job'[g].ver = job[g].ver
            BY <1>7, <2>2
        <3>2. job[g].ver <= Latest + 1 /\ job[g].ver \in Nat
            BY <3>1, FieldTypes, VersionAssumption DEF StoreInv, VersionsInv, TypeOK
        <3> QED
            BY <1>5, <1>6, <3>1, <3>2
    <2> QED
        BY <2>1, <2>2 DEF VersionsInv
<1>9. RetentionBound'
    <2>1. h \notin Pruning /\ Pruning' = Pruning \cup {h}
        BY <1>1, MovedLocals DEF StoreInv, Pruning
    <2>2. Cardinality(Pruning') = Cardinality(Pruning) + 1
        BY <2>1, PruningFinite, FS_AddElement
    <2>3. Cardinality(Stored') \in Nat /\ Cardinality(Stored') <= Cardinality(Stored) + 1
        <3>1. CASE n \in Numbers
            <4> DEFINE T == Stored \cup {n}
            <4>1. Cardinality(T) = Cardinality(Stored) + 1
                BY <1>4, StoredFinite, FS_AddElement
            <4>2. Stored' = T
                BY <1>4, <3>1
            <4> QED
                BY <4>1, <4>2, StoredFinite
        <3>2. CASE n \notin Numbers
            <4>1. Stored' = Stored
                BY <1>4, <3>2
            <4> QED
                BY <4>1, StoredFinite
        <3> QED
            BY <3>1, <3>2
    <2>4. Cardinality(Stored) <= Keep + Cardinality(Pruning)
        BY DEF StoreInv, RetentionBound, Pruning
    <2>5. Cardinality(Stored') <= Keep + Cardinality(Pruning')
        BY <2>2, <2>3, <2>4, PruningFinite, StoredFinite, VersionAssumption
    <2> QED
        BY <2>5 DEF RetentionBound, Pruning
<1>10. \A v \in Numbers : versions[v] # None => versions'[v] # None
    BY <1>4 DEF Stored
<1> QED
    BY <1>8, <1>9, <1>10

\* A retention deletes only what is below the Keep newest numbers, which are all
\* there, and leaves no more than them.
LEMMA PruneStep ==
    ASSUME StoreInv, TypeOK', Pruned
    PROVE  /\ VersionsInv' /\ RetentionBound'
           /\ \A v \in Numbers : versions[v] # None /\ versions'[v] = None =>
                Cardinality({u \in Numbers : u > v /\ versions'[u] # None}) >= Keep
<1> DEFINE last == IF Latest > Keep THEN Latest - Keep ELSE 0
<1>a. PICK h \in Handlers : \E r :
        /\ job[h].pc = "prune"
        /\ versions' = [v \in Numbers |-> IF v <= last THEN None ELSE versions[v]]
        /\ Moved(h, r) /\ r.pc \in {"idle", "current"}
    BY DEF Pruned
<1>1. PICK r :
        /\ job[h].pc = "prune"
        /\ versions' = [v \in Numbers |-> IF v <= last THEN None ELSE versions[v]]
        /\ Moved(h, r) /\ r.pc \in {"idle", "current"}
    BY <1>a
<1>2. /\ Latest \in Nat /\ Keep \in Nat \ {0} /\ last \in Nat /\ Latest <= last + Keep
      /\ Latest <= MaxVersion /\ MaxVersion \in Nat
      /\ Latest # 0 => last < Latest
    BY LatestIs, VersionAssumption
<1>3. Stored' = {v \in Stored : v > last}
    <2>1. \A v \in Numbers : v \in Nat
        BY DEF Numbers
    <2> HIDE DEF last
    <2> QED
        BY <1>1, <1>2, <2>1 DEF Stored
<1>4. Latest' = Latest
    <2>1. /\ Latest \in Stored' \/ (Latest = 0 /\ Stored' = {})
          /\ \A v \in Stored' : v <= Latest
        <3> HIDE DEF last
        <3>1. \A v \in Stored : v \in Nat /\ v # 0
            BY DEF Stored, Numbers
        <3> QED
            BY <1>2, <1>3, <3>1, LatestIs
    <2> QED
        BY <2>1, LatestUniqueNext
<1>5. VersionsInv'
    <2>1. ASSUME NEW v \in Numbers, v <= Latest', v + Keep > Latest'
          PROVE  versions'[v] # None
        <3>1. v \in Nat /\ v # 0
            BY DEF Numbers
        <3>2. v > last
            BY <1>2, <1>4, <2>1, <3>1
        <3>3. versions[v] # None
            BY <1>4, <2>1 DEF StoreInv, VersionsInv
        <3> HIDE DEF last
        <3> QED
            BY <1>1, <1>2, <3>1, <3>2, <3>3
    <2>2. ASSUME NEW g \in Handlers, job'[g].pc = "insert"
          PROVE  job'[g].ver <= Latest' + 1
        <3>1. job'[g] = job[g]
            BY <1>1, <2>2, MovedLocals DEF StoreInv
        <3> QED
            BY <1>4, <2>2, <3>1 DEF StoreInv, VersionsInv
    <2> QED
        BY <2>1, <2>2 DEF VersionsInv
<1>6. RetentionBound'
    <2>1. Stored' \in SUBSET ((last + 1)..Latest)
        <3> HIDE DEF last
        <3>1. \A v \in Stored : v \in Nat /\ v <= Latest
            BY LatestIs DEF Stored, Numbers
        <3> QED
            BY <1>2, <1>3, <3>1
    <2>2. /\ IsFiniteSet((last + 1)..Latest)
          /\ Cardinality((last + 1)..Latest) <= Keep
          /\ Cardinality((last + 1)..Latest) \in Nat
        <3> HIDE DEF last
        <3>1. last + 1 \in Int /\ Latest \in Int
            BY <1>2
        <3>2. /\ IsFiniteSet((last + 1)..Latest)
              /\ Cardinality((last + 1)..Latest)
                   = IF last + 1 > Latest THEN 0 ELSE Latest - (last + 1) + 1
            BY <3>1, FS_Interval
        <3> QED
            BY <1>2, <3>2
    <2>3. Cardinality(Stored') <= Keep /\ Cardinality(Stored') \in Nat
        <3> HIDE DEF last
        <3> DEFINE I == (last + 1)..Latest
        <3>1. Stored' \in SUBSET I /\ IsFiniteSet(I) /\ Cardinality(I) <= Keep /\ Cardinality(I) \in Nat
            BY <2>1, <2>2
        <3> HIDE DEF I
        <3>2. IsFiniteSet(Stored') /\ Cardinality(Stored') <= Cardinality(I)
            BY <3>1, FS_Subset
        <3>3. Cardinality(Stored') \in Nat
            BY <3>2, FS_CardinalityType
        <3> QED
            BY <1>2, <3>1, <3>2, <3>3
    <2>4. Pruning' \in SUBSET Handlers
        BY DEF Pruning
    <2>5. Cardinality(Pruning') \in Nat
        BY <2>4, FiniteAssumption, FS_Subset, FS_CardinalityType
    <2>6. Cardinality(Stored') <= Keep + Cardinality(Pruning')
        BY <1>2, <2>3, <2>5
    <2> QED
        BY <2>6 DEF RetentionBound, Pruning
<1>7. ASSUME NEW v \in Numbers, versions[v] # None, versions'[v] = None
      PROVE  Cardinality({u \in Numbers : u > v /\ versions'[u] # None}) >= Keep
    <2> DEFINE I == (last + 1)..Latest
               U == {u \in Numbers : u > v /\ versions'[u] # None}
    <2>1. v \in Nat /\ v # 0 /\ v <= last
        <3> HIDE DEF last
        <3> QED
            BY <1>1, <1>2, <1>7 DEF Numbers
    <2>2. last = Latest - Keep
        BY <1>2, <2>1
    <2>3. \A u \in I : u \in Numbers /\ u > v /\ u <= Latest /\ u + Keep > Latest
        <3> HIDE DEF last
        <3> QED
            BY <1>2, <2>1, <2>2 DEF Numbers
    <2>4. \A u \in I : versions'[u] # None
        BY <1>4, <1>5, <2>3 DEF VersionsInv
    <2>5. I \in SUBSET U
        <3> HIDE DEF I
        <3> QED
            BY <2>3, <2>4
    <2>6. Cardinality(I) = Keep
        <3> HIDE DEF last
        <3>1. last + 1 \in Int /\ Latest \in Int
            BY <1>2
        <3>2. Cardinality((last + 1)..Latest)
                   = IF last + 1 > Latest THEN 0 ELSE Latest - (last + 1) + 1
            BY <3>1, FS_Interval
        <3> QED
            BY <1>2, <2>2, <3>2
    <2>7. U \in SUBSET Numbers /\ IsFiniteSet(Numbers)
        BY <1>2, FS_Interval DEF Numbers
    <2> HIDE DEF U, I, last
    <2>8. IsFiniteSet(U)
        BY <2>7, FS_Subset
    <2>9. Cardinality(I) <= Cardinality(U) /\ Cardinality(U) \in Nat
        BY <2>5, <2>8, FS_Subset, FS_CardinalityType
    <2>10. Cardinality(U) >= Keep
        BY <1>2, <2>6, <2>9
    <2> QED
        BY <2>10 DEF U
<1> QED
    BY <1>5, <1>6, <1>7

LEMMA QuietStep ==
    ASSUME StoreInv, Quiet
    PROVE  VersionsInv' /\ RetentionBound' /\ versions' = versions
<1>0. versions' = versions
    BY DEF Quiet
<1>1. Stored' = Stored /\ Latest' = Latest
    BY <1>0 DEF Stored, Latest
<1>2. CASE job' = job
    BY <1>0, <1>1, <1>2 DEF StoreInv, VersionsInv, RetentionBound
<1>3. ASSUME NEW h \in Handlers, NEW r, Moved(h, r), job[h].pc # "prune",
             r.pc # "prune", r.pc = "insert" => r.ver = Latest + 1
      PROVE  VersionsInv' /\ RetentionBound'
    <2>1. job'[h] = r /\ \A g \in Handlers \ {h} : job'[g] = job[g]
        BY <1>3, MovedLocals DEF StoreInv
    <2>2. {g \in Handlers : job'[g].pc = "prune"} = {g \in Handlers : job[g].pc = "prune"}
        BY <1>3, <2>1
    <2>3. RetentionBound'
        BY <1>1, <2>2 DEF StoreInv, RetentionBound
    <2>4. ASSUME NEW g \in Handlers, job'[g].pc = "insert"
          PROVE  job'[g].ver <= Latest' + 1
        <3>1. CASE g = h
            BY <1>1, <1>3, <2>1, <2>4, <3>1, LatestIs
        <3>2. CASE g # h
            BY <1>1, <2>1, <2>4, <3>2 DEF StoreInv, VersionsInv
        <3> QED
            BY <3>1, <3>2
    <2>5. VersionsInv'
        BY <1>0, <1>1, <2>4 DEF StoreInv, VersionsInv
    <2> QED
        BY <2>3, <2>5
<1> QED
    BY <1>0, <1>2, <1>3 DEF Quiet

LEMMA StoreStep ==
    ASSUME StoreInv, [Next]_vars
    PROVE  /\ StoreInv'
           /\ \A v \in Numbers : (versions[v] # None /\ versions'[v] = None) =>
                Cardinality({u \in Numbers : u > v /\ versions'[u] # None}) >= Keep
<1>1. CASE Next
    <2>1. TypeOK' /\ (Quiet \/ Inserted \/ Pruned)
        BY <1>1, StepKinds DEF StoreInv
    <2> QED
        BY <2>1, QuietStep, InsertStep, PruneStep DEF StoreInv
<1>2. CASE UNCHANGED vars
    <2>1. Stored' = Stored /\ Latest' = Latest
        BY <1>2 DEF vars, Stored, Latest
    <2> QED
        BY <1>2, <2>1 DEF vars, StoreInv, TypeOK, VersionsInv, RetentionBound
<1> QED
    BY <1>1, <1>2

LEMMA StoreInductive == Spec => []StoreInv
<1>1. StoreInv /\ [Next]_vars => StoreInv'
    BY StoreStep
<1> QED
    BY <1>1, StoreInit, PTL DEF Spec

\* CreateConfigVersion keeps config_versions within the retained versions and one
\* more for each request that has inserted and not pruned, however many requests
\* number, insert and prune at the same time.
THEOREM RetentionBounded == Spec => []RetentionBound
<1>1. StoreInv => RetentionBound
    BY DEF StoreInv
<1> QED
    BY <1>1, StoreInductive, PTL

\* The retention never deletes one of the Keep most recent versions, whatever
\* versions other requests have inserted since the number was read.
THEOREM NewestAreKept == Spec => NewestKept
<1>1. StoreInv /\ [Next]_vars =>
        [\A v \in Numbers : (versions[v] # None /\ versions'[v] = None) =>
          Cardinality({u \in Numbers : u > v /\ versions'[u] # None}) >= Keep]_vars
    BY StoreStep
<1> QED
    BY <1>1, StoreInductive, PTL DEF Spec, NewestKept

-----------------------------------------------------------------------------
(***************************************************************************)
(* Tables without conflicts, and copies of tables.                         *)
(***************************************************************************)

LEMMA ConflictSymmetric ==
    ASSUME NEW b, NEW c, Conflict(b, c)
    PROVE  Conflict(c, b)
BY DEF Conflict, listenIPsOverlap

LEMMA EmptyNoClash == NoClash(Empty) /\ NoClash(NoSnap.mappings)
BY DEF NoClash, Rows, Empty, NoSnap

LEMMA DeleteNoClash ==
    ASSUME NEW t \in Table, NEW i, NoClash(t)
    PROVE  NoClash([t EXCEPT ![i] = None])
BY DEF NoClash, Rows, Table

\* A mapping that passed the check conflicts with no other row.
LEMMA PutNoClash ==
    ASSUME NEW t \in Table, NEW i \in Ids, NEW b, NoClash(t),
           ValidateMapping(b, i, t)
    PROVE  NoClash([t EXCEPT ![i] = b])
<1> DEFINE u == [t EXCEPT ![i] = b]
<1>1. \A j \in Ids : u[j] = IF j = i THEN b ELSE t[j]
    BY DEF Table
<1> HIDE DEF u
<1> SUFFICES ASSUME NEW j \in Rows(u), NEW k \in Rows(u) \ {j}, Conflict(u[j], u[k])
             PROVE  FALSE
    BY DEF NoClash, u
<1>2. j \in Ids /\ k \in Ids /\ u[j] # None /\ u[k] # None
    BY DEF Rows
<1>3. CASE j = i
    <2>1. k \in Rows(t) \ {i} /\ Conflict(b, t[k])
        BY <1>1, <1>2, <1>3 DEF Rows
    <2> QED
        BY <2>1 DEF ValidateMapping
<1>4. CASE k = i
    <2>1. j \in Rows(t) \ {i} /\ Conflict(b, t[j])
        BY <1>1, <1>2, <1>4, ConflictSymmetric DEF Rows
    <2> QED
        BY <2>1 DEF ValidateMapping
<1>5. CASE j # i /\ k # i
    <2>1. j \in Rows(t) /\ k \in Rows(t) \ {j} /\ Conflict(t[j], t[k])
        BY <1>1, <1>2, <1>5 DEF Rows
    <2> QED
        BY <2>1 DEF NoClash
<1> QED
    BY <1>3, <1>4, <1>5

\* A check against every row is one against every other row.
LEMMA ValidateNone ==
    ASSUME NEW t, NEW i, NEW b, ValidateMapping(b, None, t)
    PROVE  ValidateMapping(b, i, t)
BY BodyAssumption DEF ValidateMapping, Rows

LEMMA CopyNoClash ==
    ASSUME NEW t \in Table, NEW u \in Table, NEW S, S \subseteq Rows(u),
           NoClash(u), Copied(t, Rows(t), u, S)
    PROVE  NoClash(t)
<1>1. PICK f \in Bijection(Rows(t), S) : \A i \in Rows(t) : t[i] = u[f[i]]
    BY DEF Copied
<1>2. /\ \A i \in Rows(t) : f[i] \in S
      /\ \A i, j \in Rows(t) : f[i] = f[j] => i = j
    BY DEF Bijection, Injection, IsInjective
<1> QED
    BY <1>1, <1>2 DEF NoClash

LEMMA CopyEmpty ==
    ASSUME NEW t, NEW u
    PROVE  Copied(t, {}, u, {})
<1> DEFINE f == [i \in {} |-> i]
<1>1. f \in Bijection({}, {})
    BY DEF Bijection, Injection, Surjection, IsInjective
<1> QED
    BY <1>1 DEF Copied

\* Copying row i of u to the free row n of t extends the copies by n and the rows
\* copied by i.
RowCopied(t, T, u, S, n, i) ==
    /\ Copied([t EXCEPT ![n] = u[i]], T \cup {n}, u, S \cup {i})
    /\ Rows([t EXCEPT ![n] = u[i]]) = Rows(t) \cup {n}

\* One more row is copied, into a row that was free.
LEMMA CopyRow ==
    ASSUME NEW t \in Table, NEW T \in SUBSET Rows(t), NEW u \in Table, NEW S,
           NEW n \in Ids, t[n] = None,
           NEW i \in Rows(u) \ S, Copied(t, T, u, S)
    PROVE  RowCopied(t, T, u, S, n, i)
<1> DEFINE w == [t EXCEPT ![n] = u[i]]
<1>1. PICK f \in Bijection(T, S) : \A j \in T : t[j] = u[f[j]]
    BY DEF Copied
<1>2. /\ f \in [T -> S]
      /\ \A j, k \in T : f[j] = f[k] => j = k
      /\ \A s \in S : \E j \in T : f[j] = s
    BY DEF Bijection, Injection, Surjection, IsInjective
<1>3. /\ \A j \in Ids : w[j] = IF j = n THEN u[i] ELSE t[j]
      /\ n \notin Rows(t) /\ u[i] # None
    BY DEF Table, Rows
<1>4. Rows(w) = Rows(t) \cup {n}
    <2> HIDE DEF w
    <2> QED
        BY <1>3 DEF Rows
<1> DEFINE g == [j \in T \cup {n} |-> IF j = n THEN i ELSE f[j]]
<1>5. g \in [T \cup {n} -> S \cup {i}]
    BY <1>2
<1>6. \A j, k \in T \cup {n} : g[j] = g[k] => j = k
    BY <1>2, <1>3
<1>7. \A s \in S \cup {i} : \E j \in T \cup {n} : g[j] = s
    BY <1>2, <1>3
<1>8. g \in Bijection(T \cup {n}, S \cup {i})
    <2> HIDE DEF g
    <2> QED
        BY <1>5, <1>6, <1>7 DEF Bijection, Injection, Surjection, IsInjective
<1>9. \A j \in T \cup {n} : w[j] = u[g[j]]
    <2>1. \A j \in T : j \in Ids /\ j # n
        BY <1>3 DEF Rows
    <2> HIDE DEF w
    <2> QED
        BY <1>1, <1>3, <2>1
<1> HIDE DEF g, w
<1>10. Copied(w, T \cup {n}, u, S \cup {i})
    BY <1>8, <1>9 DEF Copied
<1> QED
    BY <1>4, <1>10 DEF w, RowCopied

\* A table that holds a copy of all rows holds every mapping at least as often, and
\* as often when it holds nothing else.
LEMMA CopyTimes ==
    ASSUME NEW t \in Table, NEW T \in SUBSET Rows(t), NEW u \in Table,
           Copied(t, T, u, Rows(u)), NEW b \in Bodies
    PROVE  /\ Times(b, t) >= Times(b, u)
           /\ T = Rows(t) => Times(b, t) = Times(b, u)
<1>1. PICK f \in Bijection(T, Rows(u)) : \A j \in T : t[j] = u[f[j]]
    BY DEF Copied
<1>2. /\ f \in [T -> Rows(u)]
      /\ \A j, k \in T : f[j] = f[k] => j = k
      /\ \A s \in Rows(u) : \E j \in T : f[j] = s
    BY DEF Bijection, Injection, Surjection, IsInjective
<1> DEFINE A == {i \in T : t[i] = b}
           B == {i \in Ids : u[i] = b}
           C == {i \in Ids : t[i] = b}
           g == [i \in A |-> f[i]]
<1>3. /\ A \subseteq T /\ B \subseteq Rows(u) /\ A \subseteq C
      /\ T = Rows(t) => A = C
    BY BodyAssumption DEF Rows
<1>4. g \in [A -> B]
    BY <1>1, <1>2, <1>3 DEF Rows
<1>5. \A j, k \in A : g[j] = g[k] => j = k
    BY <1>2, <1>3
<1>6. \A s \in B : \E j \in A : g[j] = s
    <2> SUFFICES ASSUME NEW s \in B PROVE \E j \in A : g[j] = s
        OBVIOUS
    <2>1. PICK j \in T : f[j] = s
        BY <1>2, <1>3
    <2>2. j \in A
        BY <1>1, <2>1 DEF Rows
    <2> QED
        BY <2>1, <2>2
<1>7. IsFiniteSet(C)
    BY FiniteAssumption, FS_Subset
<1> HIDE DEF A, B, C, g
<1>8. IsFiniteSet(A) /\ Cardinality(A) <= Cardinality(C)
    BY <1>3, <1>7, FS_Subset
<1>9. g \in Bijection(A, B)
    BY <1>4, <1>5, <1>6 DEF Bijection, Injection, Surjection, IsInjective
<1>10. Cardinality(A) = Cardinality(B)
    BY <1>8, <1>9, FS_Bijection DEF ExistsBijection
<1>11. Cardinality(A) \in Nat /\ Cardinality(C) \in Nat
    BY <1>7, <1>8, FS_CardinalityType
<1>12. Times(b, t) = Cardinality(C) /\ Times(b, u) = Cardinality(B)
    BY DEF Times, C, B
<1> QED
    BY <1>3, <1>8, <1>10, <1>11, <1>12

-----------------------------------------------------------------------------
(***************************************************************************)
(* The tables when requests come one at a time.                            *)
(***************************************************************************)

\* What the stored versions hold has no conflicts.
VersionsClean(vs) == \A v \in Numbers : vs[v] # None => NoClash(vs[v].mappings)

\* What Clean says of the tables and of one handler's locals.
Pure(ms, vs, j) ==
    /\ NoClash(ms)
    /\ VersionsClean(vs)
    /\ NoClash(j.want.mappings)
    /\ NoClash(j.snap.mappings)
    /\ "mapping kept" \notin j.lost

LEMMA AloneMove ==
    ASSUME TypeOK, OneAtATime, NEW h \in Handlers, NEW r, Moved(h, r),
           slips' = {} => Pure(mappings', versions', r), KnowsTables(r)'
    PROVE  AloneInv'
<1>1. \A g \in Handlers : job'[g] = r
    BY MovedLocals DEF OneAtATime
<1>2. slips' = {} => Clean'
    BY <1>1 DEF Clean, Pure, VersionsClean
<1> QED
    BY <1>1, <1>2 DEF AloneInv

LEMMA AloneFacts ==
    ASSUME TypeOK, AloneInv, NEW h \in Handlers
    PROVE  /\ slips = {} => Pure(mappings, versions, job[h])
           /\ KnowsTables(job[h]) /\ job[h] \in Job
           /\ mappings \in Table /\ job[h].want.mappings \in Table
<1>1. slips = {} => Pure(mappings, versions, job[h])
    BY DEF AloneInv, Clean, Pure, VersionsClean
<1> QED
    BY <1>1, FieldTypes DEF TypeOK, AloneInv

\* A request starts.
LEMMA AloneStart ==
    ASSUME TypeOK, AloneInv, OneAtATime, NEW h \in Handlers, NEW r, Moved(h, r),
           UNCHANGED <<mappings, versions, slips>>,
           r.want = NoSnap, r.snap = NoSnap, r.lost = {}, KnowsTables(r)'
    PROVE  AloneInv'
<1>1. slips = {} => Pure(mappings, versions, job[h])
    BY AloneFacts
<1>2. slips' = {} => Pure(mappings', versions', r)
    BY <1>1, EmptyNoClash DEF Pure
<1> QED
    BY <1>2, AloneMove

\* A step that leaves the mappings and the versions alone, and the handler's.
LEMMA AloneKeep ==
    ASSUME TypeOK, AloneInv, OneAtATime, NEW h \in Handlers, NEW r, Moved(h, r),
           UNCHANGED <<mappings, versions>>, slips \subseteq slips',
           r.want = job[h].want, r.snap = job[h].snap,
           "mapping kept" \in r.lost => "mapping kept" \in job[h].lost,
           KnowsTables(r)'
    PROVE  AloneInv'
<1>1. slips = {} => Pure(mappings, versions, job[h])
    BY AloneFacts
<1>2. slips' = {} => slips = {}
    OBVIOUS
<1>3. slips' = {} => Pure(mappings', versions', r)
    BY <1>1, <1>2 DEF Pure
<1> QED
    BY <1>3, AloneMove

\* A step whose request is over: nothing is left to know.
LEMMA AloneDone ==
    ASSUME TypeOK, OneAtATime, NEW h \in Handlers, Moved(h, Idle),
           slips' = {} => NoClash(mappings') /\ VersionsClean(versions')
    PROVE  AloneInv'
<1>1. KnowsTables(Idle)'
    BY IdleLocals DEF KnowsTables
<1>2. slips' = {} => Pure(mappings', versions', Idle)
    BY EmptyNoClash, IdleLocals DEF Pure
<1> QED
    BY <1>1, <1>2, AloneMove

\* A step of an idle handler that changes tables and nobody's locals.
LEMMA AloneIdle ==
    ASSUME AloneInv, OneAtATime, NEW h \in Handlers, job[h].pc = "idle", job' = job,
           slips' = slips, versions' = versions, slips = {} => NoClash(mappings')
    PROVE  AloneInv'
<1>1. \A g \in Handlers : job[g].pc = "idle"
    BY DEF OneAtATime
<1>2. \A g \in Handlers : KnowsTables(job[g])'
    BY <1>1 DEF KnowsTables
<1>3. slips' = {} => Clean'
    BY DEF AloneInv, Clean
<1> QED
    BY <1>2, <1>3 DEF AloneInv

LEMMA AloneSaves ==
    ASSUME TypeOK, AloneInv, OneAtATime, NEW h \in Handlers
    PROVE  /\ Validate(h) \/ CreateMapping(h) \/ UpdateMapping(h) => AloneInv'
           /\ \A b \in Bodies : \A i \in Ids \cup {None} :
                SaveMapping(h, "create", b, i) \/ SaveMapping(h, "update", b, i)
                  => AloneInv'
           /\ \A i \in Ids : DeleteMapping(h, i) => AloneInv'
<1>f. /\ slips = {} => NoClash(mappings) /\ VersionsClean(versions)
      /\ mappings \in Table /\ KnowsTables(job[h]) /\ job[h] \in Job
    BY AloneFacts DEF Pure
<1>1. ASSUME Validate(h) PROVE AloneInv'
    <2>1. job[h].pc = "list" /\ UNCHANGED <<mappings, relays, versions>>
        BY <1>1 DEF Validate
    <2>a. slips \subseteq slips'
        BY <1>1, ValidateEffect
    <2>b. slips' = {} => slips = {}
        BY <2>a
    <2>2. CASE Moved(h, Idle)
        BY <1>f, <2>1, <2>2, <2>b, AloneDone
    <2>3. ASSUME NEW r, Moved(h, r), r.pc = "store", r.op = job[h].op,
                 r.body = job[h].body, r.id = job[h].id, r.want = job[h].want,
                 r.snap = job[h].snap, r.lost = job[h].lost,
                 ValidateMapping(job[h].body, job[h].id, mappings),
                 slips' = {} /\ job[h].op = "create" =>
                     ValidateMapping(job[h].body, None, mappings)
          PROVE  AloneInv'
        <3>1. /\ ValidateMapping(r.body, r.id, mappings')
              /\ slips' = {} /\ r.op = "create" => ValidateMapping(r.body, None, mappings')
              /\ r.op \in {"create", "update"} /\ r.body \in Bodies
            BY <1>f, <2>1, <2>3 DEF KnowsTables
        <3>2. KnowsTables(r)'
            BY <2>3, <3>1 DEF KnowsTables
        <3> QED
            BY <2>1, <2>3, <2>a, <3>2, AloneKeep
    <2> QED
        BY <1>1, <2>2, <2>3, ValidateEffect
<1>2. ASSUME CreateMapping(h) PROVE AloneInv'
    <2>1. /\ Moved(h, Idle) /\ job[h].pc = "store" /\ job[h].op = "create"
          /\ UNCHANGED <<versions, slips>>
        BY <1>2, DoneEffect DEF CreateMapping
    <2>2. slips = {} => ValidateMapping(job[h].body, None, mappings)
        BY <1>f, <2>1 DEF KnowsTables
    <2>3. ASSUME slips = {} PROVE NoClash(mappings')
        <3>1. CASE mappings' = mappings
            BY <1>f, <2>3, <3>1
        <3>2. ASSUME NEW i \in FreshIds, mappings' = [mappings EXCEPT ![i] = job[h].body]
              PROVE  NoClash(mappings')
            <4>1. i \in Ids /\ ValidateMapping(job[h].body, i, mappings)
                BY <2>2, <2>3, ValidateNone DEF FreshIds
            <4> QED
                BY <1>f, <2>3, <3>2, <4>1, PutNoClash
        <3> QED
            BY <1>2, <3>1, <3>2 DEF CreateMapping
    <2> QED
        BY <1>f, <2>1, <2>3, AloneDone
<1>3. ASSUME UpdateMapping(h) PROVE AloneInv'
    <2>1. /\ Moved(h, Idle) /\ job[h].pc = "store" /\ job[h].op = "update"
          /\ UNCHANGED <<versions, slips>>
        BY <1>3, DoneEffect DEF UpdateMapping
    <2>2. ValidateMapping(job[h].body, job[h].id, mappings)
        BY <1>f, <2>1 DEF KnowsTables
    <2>3. ASSUME slips = {} PROVE NoClash(mappings')
        <3>1. CASE mappings' = mappings
            BY <1>f, <2>3, <3>1
        <3>2. CASE /\ mappings' = [mappings EXCEPT ![job[h].id] = job[h].body]
                   /\ job[h].id \in Ids
            BY <1>f, <2>2, <2>3, <3>2, PutNoClash
        <3>3. CASE /\ mappings' = [mappings EXCEPT ![job[h].id] = job[h].body]
                   /\ job[h].id \notin Ids
            <4>1. mappings' = mappings
                BY <1>f, <3>3 DEF Table
            <4> QED
                BY <1>f, <2>3, <4>1
        <3> QED
            BY <1>3, <3>1, <3>2, <3>3 DEF UpdateMapping
    <2> QED
        BY <1>f, <2>1, <2>3, AloneDone
<1>4. ASSUME NEW b \in Bodies, NEW id \in Ids \cup {None}, NEW op \in {"create", "update"},
             SaveMapping(h, op, b, id)
      PROVE  AloneInv'
    <2>1. UNCHANGED <<mappings, versions, slips>>
        BY <1>4 DEF SaveMapping
    <2>a. PICK r : Saving(h, r, op, b, id)
        BY <1>4, SaveEffect
    <2>2. /\ Moved(h, r) /\ r.pc = "list" /\ r.op = op /\ r.body = b
          /\ r.want = NoSnap /\ r.snap = NoSnap /\ r.lost = {}
        BY <2>a DEF Saving
    <2>3. KnowsTables(r)'
        BY <2>1, <2>2 DEF KnowsTables
    <2> QED
        BY <2>1, <2>2, <2>3, AloneStart
<1>5. ASSUME NEW i \in Ids, DeleteMapping(h, i) PROVE AloneInv'
    <2>1. /\ job[h].pc = "idle" /\ mappings' = [mappings EXCEPT ![i] = None]
          /\ UNCHANGED <<versions, job, slips>>
        BY <1>5 DEF DeleteMapping
    <2>2. slips = {} => NoClash(mappings')
        BY <1>f, <2>1, DeleteNoClash
    <2> QED
        BY <2>1, <2>2, AloneIdle
<1> QED
    BY <1>1, <1>2, <1>3, <1>4, <1>5

LEMMA AloneImports ==
    ASSUME TypeOK, AloneInv, OneAtATime, NEW h \in Handlers
    PROVE  /\ \A bs \in SUBSET Bodies :
                ListForImport(h, bs) \/ ScanConfigs(h, bs) => AloneInv'
           /\ ListScanned(h) \/ ImportDone(h) => AloneInv'
           /\ \A b \in Bodies : ImportMapping(h, b) => AloneInv'
<1>f. /\ slips = {} => Pure(mappings, versions, job[h])
      /\ mappings \in Table /\ KnowsTables(job[h]) /\ job[h] \in Job
    BY AloneFacts
<1>1. ASSUME NEW bs \in SUBSET Bodies, ListForImport(h, bs) PROVE AloneInv'
    <2>1. UNCHANGED <<mappings, versions, slips>>
        BY <1>1 DEF ListForImport
    <2>2. PICK r : /\ Moved(h, r) /\ r.pc = "import" /\ r.all = mappings
                   /\ r.want = NoSnap /\ r.snap = NoSnap /\ r.lost = {}
        BY <1>1, ImportEffect
    <2>3. KnowsTables(r)'
        BY <2>1, <2>2 DEF KnowsTables
    <2> QED
        BY <2>1, <2>2, <2>3, AloneStart
<1>2. ASSUME NEW bs \in SUBSET Bodies, ScanConfigs(h, bs) PROVE AloneInv'
    <2>1. UNCHANGED <<mappings, versions, slips>>
        BY <1>2 DEF ScanConfigs
    <2>2. PICK r : /\ Moved(h, r) /\ r.pc = "scanned"
                   /\ r.want = NoSnap /\ r.snap = NoSnap /\ r.lost = {}
        BY <1>2, ScanEffect
    <2>3. KnowsTables(r)'
        BY <2>1, <2>2 DEF KnowsTables
    <2> QED
        BY <2>1, <2>2, <2>3, AloneStart
<1>3. ASSUME ListScanned(h) PROVE AloneInv'
    <2>1. UNCHANGED <<mappings, versions>>
        BY <1>3 DEF ListScanned
    <2>2. PICK r : /\ Moved(h, r) /\ r.pc = "import"
                   /\ r.want = job[h].want /\ r.snap = job[h].snap /\ r.lost = job[h].lost
                   /\ slips \subseteq slips' /\ (slips' = {} => r.all = mappings)
        BY <1>3, ListScannedEffect
    <2>3. KnowsTables(r)'
        BY <2>1, <2>2 DEF KnowsTables
    <2> QED
        BY <2>1, <2>2, <2>3, AloneKeep
<1>4. ASSUME ImportDone(h) PROVE AloneInv'
    <2>1. Moved(h, Idle) /\ UNCHANGED <<mappings, versions, slips>>
        BY <1>4, DoneEffect DEF ImportDone
    <2> QED
        BY <1>f, <2>1, AloneDone DEF Pure
<1>5. ASSUME NEW b \in Bodies, ImportMapping(h, b) PROVE AloneInv'
    <2>1. job[h].pc = "import" /\ UNCHANGED <<versions, slips>>
        BY <1>5 DEF ImportMapping
    <2>2. slips = {} => job[h].all = mappings
        BY <1>f, <2>1 DEF KnowsTables
    <2>3. PICK r : /\ Moved(h, r) /\ r.pc = "import"
                   /\ r.want = job[h].want /\ r.snap = job[h].snap /\ r.lost = job[h].lost
                   /\ \/ mappings' = mappings /\ r.all = job[h].all
                      \/ \E i \in FreshIds :
                           /\ ValidateMapping(b, None, job[h].all)
                           /\ mappings' = [mappings EXCEPT ![i] = b]
                           /\ r.all = [job[h].all EXCEPT ![i] = b]
        BY <1>5, ImportMappingEffect
    <2>4. slips' = {} => r.all = mappings'
        BY <2>1, <2>2, <2>3
    <2>5. KnowsTables(r)'
        BY <2>3, <2>4 DEF KnowsTables
    <2>6. ASSUME slips = {} PROVE NoClash(mappings')
        <3>1. CASE mappings' = mappings
            BY <1>f, <2>6, <3>1 DEF Pure
        <3>2. ASSUME NEW i \in FreshIds, ValidateMapping(b, None, job[h].all),
                     mappings' = [mappings EXCEPT ![i] = b]
              PROVE  NoClash(mappings')
            <4>1. i \in Ids /\ ValidateMapping(b, i, mappings)
                BY <2>2, <2>6, <3>2, ValidateNone DEF FreshIds
            <4>2. NoClash(mappings)
                BY <1>f, <2>6 DEF Pure
            <4> QED
                BY <1>f, <3>2, <4>1, <4>2, PutNoClash
        <3> QED
            BY <2>3, <3>1, <3>2
    <2>7. slips' = {} => Pure(mappings', versions', r)
        BY <1>f, <2>1, <2>3, <2>6 DEF Pure
    <2> QED
        BY <2>3, <2>5, <2>7, AloneMove
<1> QED
    BY <1>1, <1>2, <1>3, <1>4, <1>5

LEMMA AloneCertsRelays ==
    ASSUME TypeOK, AloneInv, OneAtATime, NEW h \in Handlers
    PROVE  /\ \A c \in CertIds : CreateCert(h, c) \/ CountUses(h, c) => AloneInv'
           /\ DeleteCert(h) => AloneInv'
           /\ \A r, s \in Relays :
                CreateRelay(h, r) \/ DeleteRelay(h, r) \/ UpdateRelay(h, r, s)
                  => AloneInv'
<1>f. slips = {} => NoClash(mappings) /\ VersionsClean(versions)
    BY AloneFacts DEF Pure
<1>1. ASSUME NEW c \in CertIds, CreateCert(h, c) PROVE AloneInv'
    <2>1. job[h].pc = "idle" /\ UNCHANGED <<mappings, versions, job, slips>>
        BY <1>1 DEF CreateCert
    <2> QED
        BY <1>f, <2>1, AloneIdle
<1>2. ASSUME NEW c \in CertIds, CountUses(h, c) PROVE AloneInv'
    <2>1. UNCHANGED <<mappings, versions, slips>>
        BY <1>2 DEF CountUses
    <2>2. PICK r : /\ Moved(h, r) /\ r.pc = "counted"
                   /\ r.want = NoSnap /\ r.snap = NoSnap /\ r.lost = {}
        BY <1>2, CountEffect
    <2>3. KnowsTables(r)'
        BY <2>1, <2>2 DEF KnowsTables
    <2> QED
        BY <2>1, <2>2, <2>3, AloneStart
<1>3. ASSUME DeleteCert(h) PROVE AloneInv'
    <2>1. Moved(h, Idle) /\ UNCHANGED <<mappings, versions, slips>>
        BY <1>3, DoneEffect DEF DeleteCert
    <2> QED
        BY <1>f, <2>1, AloneDone
<1>4. ASSUME NEW r \in Relays, NEW s \in Relays,
             CreateRelay(h, r) \/ DeleteRelay(h, r) \/ UpdateRelay(h, r, s)
      PROVE  AloneInv'
    <2>1. job[h].pc = "idle" /\ UNCHANGED <<mappings, versions, job, slips>>
        BY <1>4 DEF CreateRelay, DeleteRelay, UpdateRelay
    <2> QED
        BY <1>f, <2>1, AloneIdle
<1> QED
    BY <1>1, <1>2, <1>3, <1>4

LEMMA AloneVersions ==
    ASSUME TypeOK, AloneInv, OneAtATime, NEW h \in Handlers
    PROVE  /\ Apply(h) \/ CreateConfigVersion(h) => AloneInv'
           /\ \A v \in Numbers : RestoreVersion(h, v) => AloneInv'
<1>f. /\ slips = {} => Pure(mappings, versions, job[h])
      /\ mappings \in Table /\ KnowsTables(job[h]) /\ job[h] \in Job
    BY AloneFacts
<1>1. ASSUME Apply(h) PROVE AloneInv'
    <2>1. UNCHANGED <<mappings, versions, slips>>
        BY <1>1 DEF Apply
    <2>2. PICK r : /\ Moved(h, r) /\ r.pc = "listMappings"
                   /\ r.want = NoSnap /\ r.snap = NoSnap /\ r.lost = {}
        BY <1>1, ApplyEffect
    <2>3. KnowsTables(r)'
        BY <2>1, <2>2 DEF KnowsTables
    <2> QED
        BY <2>1, <2>2, <2>3, AloneStart
<1>2. ASSUME NEW v \in Numbers, RestoreVersion(h, v) PROVE AloneInv'
    <2>1. UNCHANGED <<mappings, versions, slips>> /\ versions[v] # None
        BY <1>2 DEF RestoreVersion
    <2>2. PICK r : /\ Moved(h, r) /\ r.pc = "listMappings"
                   /\ r.want = versions[v] /\ r.snap = NoSnap /\ r.lost = {}
        BY <1>2, RestoreEffect
    <2>3. KnowsTables(r)'
        BY <2>1, <2>2 DEF KnowsTables
    <2>4. slips' = {} => Pure(mappings', versions', r)
        BY <1>f, <2>1, <2>2, EmptyNoClash DEF Pure, VersionsClean
    <2> QED
        BY <2>2, <2>3, <2>4, AloneMove
<1>3. ASSUME NEW r, Moved(h, r), r.pc \in {"listRelays", "max", "insert"},
             r.want = job[h].want, r.lost = job[h].lost,
             UNCHANGED <<mappings, versions, slips>>,
             slips = {} => NoClash(r.snap.mappings)
      PROVE  AloneInv'
    <2>1. KnowsTables(r)'
        BY <1>3 DEF KnowsTables
    <2>2. slips' = {} => Pure(mappings', versions', r)
        BY <1>f, <1>3 DEF Pure
    <2> QED
        BY <1>3, <2>1, <2>2, AloneMove
<1>4. ASSUME SnapMappings(h) PROVE AloneInv'
    <2>1. UNCHANGED <<mappings, versions, slips>>
        BY <1>4 DEF SnapMappings
    <2>2. PICK r : /\ Moved(h, r) /\ r.pc = "listRelays" /\ r.want = job[h].want
                   /\ r.lost = job[h].lost /\ r.snap.mappings = mappings
        BY <1>4, SnapMappingsEffect
    <2>3. slips = {} => NoClash(r.snap.mappings)
        BY <1>f, <2>2 DEF Pure
    <2> QED
        BY <1>3, <2>1, <2>2, <2>3
<1>5. ASSUME SnapRelays(h) PROVE AloneInv'
    <2>1. UNCHANGED <<mappings, versions, slips>>
        BY <1>5 DEF SnapRelays
    <2>2. PICK r : /\ Moved(h, r) /\ r.pc = "max" /\ r.want = job[h].want
                   /\ r.lost = job[h].lost
                   /\ r.snap.mappings = job[h].snap.mappings
        BY <1>5, SnapRelaysEffect
    <2>3. slips = {} => NoClash(r.snap.mappings)
        BY <1>f, <2>2 DEF Pure
    <2> QED
        BY <1>3, <2>1, <2>2, <2>3
<1>6. ASSUME NextVersion(h) PROVE AloneInv'
    <2>1. UNCHANGED <<mappings, versions, slips>>
        BY <1>6 DEF NextVersion
    <2>2. PICK r : /\ Moved(h, r) /\ r.pc = "insert" /\ r.want = job[h].want
                   /\ r.snap = job[h].snap /\ r.lost = job[h].lost
        BY <1>6, NextVersionEffect
    <2>3. slips = {} => NoClash(r.snap.mappings)
        BY <1>f, <2>2 DEF Pure
    <2> QED
        BY <1>3, <2>1, <2>2, <2>3
<1>7. ASSUME NEW r, Moved(h, r), r.pc \in {"prune", "current"}, r.want = job[h].want,
             r.snap = job[h].snap, r.lost = job[h].lost,
             UNCHANGED <<mappings, slips>>, slips = {} => VersionsClean(versions')
      PROVE  AloneInv'
    <2>1. KnowsTables(r)'
        BY <1>7 DEF KnowsTables
    <2>2. slips' = {} => Pure(mappings', versions', r)
        BY <1>f, <1>7 DEF Pure
    <2> QED
        BY <1>7, <2>1, <2>2, AloneMove
<1>8. ASSUME InsertVersion(h) PROVE AloneInv'
    <2>1. UNCHANGED <<mappings, slips>>
        BY <1>8 DEF InsertVersion
    <2>2. slips = {} => VersionsClean(versions')
        <3>1. CASE versions' = versions
            BY <1>f, <3>1 DEF Pure
        <3>2. CASE versions' = [versions EXCEPT ![job[h].ver] = job[h].snap]
            BY <1>f, <3>2 DEF Pure, VersionsClean, TypeOK
        <3> QED
            BY <1>8, <3>1, <3>2, InsertEffect
    <2>3. CASE Moved(h, Idle)
        BY <1>f, <2>1, <2>2, <2>3, AloneDone DEF Pure
    <2> QED
        BY <1>7, <1>8, <2>1, <2>2, <2>3, InsertEffect
<1>9. ASSUME PruneVersions(h) PROVE AloneInv'
    <2> DEFINE last == IF Latest > Keep THEN Latest - Keep ELSE 0
    <2>1. /\ UNCHANGED <<mappings, slips>> /\ AfterVersion(h)
          /\ versions' = [v \in Numbers |-> IF v <= last THEN None ELSE versions[v]]
        BY <1>9 DEF PruneVersions, Prune
    <2>2. slips = {} => VersionsClean(versions')
        <3> HIDE DEF last
        <3> QED
            BY <1>f, <2>1 DEF Pure, VersionsClean
    <2>3. CASE Moved(h, Idle)
        BY <1>f, <2>1, <2>2, <2>3, AloneDone DEF Pure
    <2> QED
        BY <1>7, <2>1, <2>2, <2>3, AfterVersionEffect
<1> QED
    BY <1>1, <1>2, <1>4, <1>5, <1>6, <1>8, <1>9 DEF CreateConfigVersion

\* The steps of a restore on the mappings.
LEMMA AloneRestoreRows ==
    ASSUME TypeOK, AloneInv, OneAtATime, NEW h \in Handlers
    PROVE  /\ ListCurrent(h) \/ ListCurrentFail(h) => AloneInv'
           /\ RestoreDelete(h) \/ RestoreDeleteFail(h) => AloneInv'
           /\ RestoreCreate(h) => AloneInv'
<1>f. /\ slips = {} => Pure(mappings, versions, job[h])
      /\ mappings \in Table /\ job[h].want.mappings \in Table
      /\ KnowsTables(job[h]) /\ job[h] \in Job
    BY AloneFacts
<1> DEFINE W == Rows(job[h].want.mappings)
<1>1. ASSUME ListCurrent(h) PROVE AloneInv'
    <2>1. UNCHANGED <<mappings, versions, slips>>
        BY <1>1 DEF ListCurrent
    <2>2. PICK r : /\ Moved(h, r) /\ r.pc = "delete" /\ r.rows = Rows(mappings)
                   /\ r.want = job[h].want /\ r.snap = job[h].snap /\ r.lost = job[h].lost
        BY <1>1, ListCurrentEffect
    <2>3. r.rows = Rows(mappings')
        BY <2>1, <2>2
    <2>4. KnowsTables(r)'
        BY <2>2, <2>3 DEF KnowsTables
    <2> QED
        BY <2>1, <2>2, <2>4, AloneKeep
<1>2. ASSUME ListCurrentFail(h) \/ RestoreDeleteFail(h) PROVE AloneInv'
    <2>1. PICK r : Moved(h, r) /\ r.pc = "delete" /\ "mapping kept" \in r.lost
        BY <1>2, CurrentFailEffect, DeleteFailEffect
    <2>2. slips' # {}
        BY <1>2 DEF ListCurrentFail, RestoreDeleteFail
    <2>3. KnowsTables(r)'
        BY <2>1 DEF KnowsTables
    <2> QED
        BY <2>1, <2>2, <2>3, AloneMove
<1>3. ASSUME RestoreDelete(h) PROVE AloneInv'
    <2>1. job[h].pc = "delete" /\ UNCHANGED <<relays, versions, slips>>
        BY <1>3 DEF RestoreDelete
    <2>2. "mapping kept" \in job[h].lost \/ job[h].rows = Rows(mappings)
        BY <1>f, <2>1 DEF KnowsTables
    <2>3. ASSUME NEW r, Moved(h, r), r.want = job[h].want, r.snap = job[h].snap,
                 r.lost = job[h].lost,
                 job[h].rows = {}, mappings' = mappings, r.pc = "add", r.rows = W
          PROVE  AloneInv'
        <3>1. Copied(mappings', {}, r.want.mappings, {})
            BY CopyEmpty
        <3>2. "mapping kept" \in r.lost \/ {} = Rows(mappings')
            BY <2>2, <2>3
        <3>3. Restored(r, {})'
            BY <3>1, <3>2 DEF Restored
        <3>4. r.rows = Rows(r.want.mappings) /\ Rows(r.want.mappings) \ r.rows = {}
            BY <2>3
        <3>5. KnowsTables(r)'
            BY <2>3, <3>3, <3>4 DEF KnowsTables
        <3> QED
            BY <2>1, <2>3, <3>5, AloneKeep
    <2>4. ASSUME NEW r, Moved(h, r), r.want = job[h].want, r.snap = job[h].snap,
                 r.lost = job[h].lost,
                 NEW i \in job[h].rows, mappings' = [mappings EXCEPT ![i] = None],
                 r.pc = "delete", r.rows = job[h].rows \ {i}
          PROVE  AloneInv'
        <3>1. slips = {} => NoClash(mappings')
            BY <1>f, <2>4, DeleteNoClash DEF Pure
        <3>2. "mapping kept" \in r.lost \/ r.rows = Rows(mappings')
            BY <1>f, <2>2, <2>4 DEF Rows, Table
        <3>3. KnowsTables(r)'
            BY <2>4, <3>2 DEF KnowsTables
        <3>4. slips' = {} => Pure(mappings', versions', r)
            BY <1>f, <2>1, <2>4, <3>1 DEF Pure
        <3> QED
            BY <2>4, <3>3, <3>4, AloneMove
    <2> QED
        BY <1>3, <2>3, <2>4, RestoreDeleteEffect
<1>4. ASSUME RestoreCreate(h) PROVE AloneInv'
    <2>1. job[h].pc = "add" /\ UNCHANGED <<relays, versions, slips>>
        BY <1>4 DEF RestoreCreate
    <2>2. job[h].rows \subseteq W /\ Restored(job[h], W \ job[h].rows)
        BY <1>f, <2>1 DEF KnowsTables
    <2>a. PICK T \in SUBSET Rows(mappings) :
            /\ Copied(mappings, T, job[h].want.mappings, W \ job[h].rows)
            /\ "mapping kept" \in job[h].lost \/ T = Rows(mappings)
        BY <2>2 DEF Restored
    <2>3. CASE Moved(h, Idle) /\ mappings' = mappings
        BY <1>f, <2>1, <2>3, AloneDone DEF Pure
    <2>4. ASSUME NEW r, NEW i \in job[h].rows, NEW n \in FreshIds,
                 Moved(h, r), r.want = job[h].want, r.snap = job[h].snap,
                 r.lost = job[h].lost, r.pc = "add",
                 mappings' = [mappings EXCEPT ![n] = job[h].want.mappings[i]],
                 r.rows = job[h].rows \ {i}
          PROVE  AloneInv'
        <3>1. n \in Ids /\ mappings[n] = None /\ i \in W \ (W \ job[h].rows)
            BY <2>2 DEF FreshIds
        <3>2. /\ Copied(mappings', T \cup {n}, job[h].want.mappings, (W \ job[h].rows) \cup {i})
              /\ Rows(mappings') = Rows(mappings) \cup {n}
            <4> DEFINE u == job[h].want.mappings
                       S == W \ job[h].rows
            <4>1. u \in Table /\ i \in Rows(u) \ S /\ Copied(mappings, T, u, S)
                BY <1>f, <2>a, <3>1
            <4>2. mappings' = [mappings EXCEPT ![n] = u[i]]
                BY <2>4
            <4> HIDE DEF u, S
            <4>a. mappings \in Table /\ n \in Ids /\ mappings[n] = None
                BY <1>f, <3>1
            <4>b. /\ Copied([mappings EXCEPT ![n] = u[i]], T \cup {n}, u, S \cup {i})
                  /\ Rows([mappings EXCEPT ![n] = u[i]]) = Rows(mappings) \cup {n}
                <5> DEFINE m == mappings
                <5>1. /\ m \in Table /\ T \in SUBSET Rows(m) /\ u \in Table /\ n \in Ids
                      /\ m[n] = None /\ i \in Rows(u) \ S /\ Copied(m, T, u, S)
                    BY <4>1, <4>a
                <5> HIDE DEF m
                <5>2. RowCopied(m, T, u, S, n, i)
                    BY <5>1, CopyRow
                <5> QED
                    BY <5>2 DEF m, RowCopied
            <4>3. /\ Copied(mappings', T \cup {n}, u, S \cup {i})
                  /\ Rows(mappings') = Rows(mappings) \cup {n}
                BY <4>2, <4>b
            <4> QED
                BY <4>3 DEF u, S
        <3>3. /\ (W \ job[h].rows) \cup {i} = W \ r.rows /\ r.rows \subseteq W
              /\ W \ r.rows \subseteq W
            BY <2>2, <2>4
        <3>4. mappings' \in Table
            BY <1>f, <2>2, <2>4 DEF Table, Rows
        <3>5. /\ T \cup {n} \in SUBSET Rows(mappings')
              /\ "mapping kept" \in r.lost \/ T \cup {n} = Rows(mappings')
            BY <2>a, <2>4, <3>2
        <3>6. ASSUME slips = {} PROVE NoClash(mappings')
            <4>1. NoClash(job[h].want.mappings) /\ T \cup {n} = Rows(mappings')
                BY <1>f, <2>4, <3>5, <3>6 DEF Pure
            <4>2. Copied(mappings', Rows(mappings'), job[h].want.mappings, W \ r.rows)
                BY <3>2, <3>3, <4>1
            <4> QED
                BY <1>f, <3>3, <3>4, <4>1, <4>2, CopyNoClash
        <3> DEFINE S == Rows(r.want.mappings) \ r.rows
                   X == T \cup {n}
        <3>7. S = (W \ job[h].rows) \cup {i} /\ r.rows \subseteq Rows(r.want.mappings)
            BY <2>4, <3>3
        <3>8. Copied(mappings', X, r.want.mappings, S)
            BY <2>4, <3>2, <3>7
        <3>9. /\ X \in SUBSET Rows(mappings')
              /\ "mapping kept" \in r.lost \/ X = Rows(mappings')
            BY <3>5
        <3>10. Restored(r, S)'
            <4> HIDE DEF S, X
            <4> QED
                BY <3>8, <3>9, Zenon DEF Restored
        <3>11. KnowsTables(r)'
            BY <2>4, <3>7, <3>10 DEF KnowsTables
        <3>12. slips' = {} => Pure(mappings', versions', r)
            BY <1>f, <2>1, <2>4, <3>6 DEF Pure
        <3> QED
            BY <2>4, <3>11, <3>12, AloneMove
    <2> QED
        BY <1>4, <2>3, <2>4, RestoreCreateEffect
<1> QED
    BY <1>1, <1>2, <1>3, <1>4

\* The steps of a restore on the relays.
LEMMA AloneRestoreRelays ==
    ASSUME TypeOK, AloneInv, OneAtATime, NEW h \in Handlers
    PROVE  /\ ListCurrentRelays(h) \/ ListRelaysFail(h) => AloneInv'
           /\ RestoreRelayDelete(h) \/ RelayDeleteFail(h) => AloneInv'
           /\ RestoreRelayCreate(h) \/ RelayCreateFail(h) => AloneInv'
           /\ RestoreDone(h) => AloneInv'
<1>f. /\ slips = {} => Pure(mappings, versions, job[h])
      /\ KnowsTables(job[h]) /\ job[h] \in Job /\ job[h].want.relays \in SUBSET Relays
      /\ job[h].lost \in SUBSET Losses
    BY AloneFacts, FieldTypes
<1> DEFINE W == Rows(job[h].want.mappings)
\* What a step has to show of the relays.
<1>m. ASSUME NEW r, Moved(h, r), r.want = job[h].want, r.snap = job[h].snap,
             r.pc \in {"relayDelete", "relayAdd", "restored"},
             "mapping kept" \in r.lost <=> "mapping kept" \in job[h].lost,
             Restored(job[h], W), UNCHANGED <<mappings, versions, slips>>,
             r.pc = "relayDelete" => "relay kept" \in r.lost \/ relays' \subseteq r.names,
             r.pc \in {"relayAdd", "restored"} =>
                 "relay kept" \in r.lost \/ relays' \subseteq r.want.relays,
             r.pc = "relayAdd" => r.names \subseteq r.want.relays,
             r.pc = "relayAdd" =>
                 "relay missing" \in r.lost \/ r.want.relays \subseteq relays' \cup r.names,
             r.pc = "restored" => "relay missing" \in r.lost \/ r.want.relays \subseteq relays'
      PROVE  AloneInv'
    <2>1. PICK T \in SUBSET Rows(mappings) :
            /\ Copied(mappings, T, job[h].want.mappings, W)
            /\ "mapping kept" \in job[h].lost \/ T = Rows(mappings)
        BY <1>m DEF Restored
    <2> DEFINE S == Rows(r.want.mappings)
    <2>a. /\ Copied(mappings', T, r.want.mappings, S) /\ T \in SUBSET Rows(mappings')
          /\ "mapping kept" \in r.lost \/ T = Rows(mappings')
        BY <1>m, <2>1
    <2>2. Restored(r, S)'
        <3> HIDE DEF S
        <3> QED
            BY <2>a, Zenon DEF Restored
    <2>3. KnowsTables(r)'
        BY <1>m, <2>2 DEF KnowsTables
    <2> QED
        BY <1>m, <2>3, AloneKeep
<1>a. ASSUME job[h].pc = "add", job[h].rows = {} PROVE Restored(job[h], W)
    <2>1. Restored(job[h], W \ job[h].rows)
        BY <1>f, <1>a DEF KnowsTables
    <2>2. W \ job[h].rows = W
        BY <1>a
    <2> HIDE DEF W
    <2> QED
        BY <2>1, <2>2
<1>1. ASSUME ListCurrentRelays(h) PROVE AloneInv'
    <2>1. /\ job[h].pc = "add" /\ job[h].rows = {}
          /\ UNCHANGED <<mappings, relays, versions, slips>>
        BY <1>1 DEF ListCurrentRelays
    <2>2. PICK r : /\ Moved(h, r) /\ r.pc = "relayDelete" /\ r.names = relays
                   /\ r.want = job[h].want /\ r.snap = job[h].snap /\ r.lost = job[h].lost
        BY <1>1, ListRelaysEffect
    <2> QED
        BY <1>a, <1>m, <2>1, <2>2
<1>2. ASSUME ListRelaysFail(h) PROVE AloneInv'
    <2>1. /\ job[h].pc = "add" /\ job[h].rows = {}
          /\ UNCHANGED <<mappings, relays, versions, slips>>
        BY <1>2 DEF ListRelaysFail
    <2>2. PICK r : /\ Moved(h, r) /\ r.pc = "relayDelete"
                   /\ r.lost = job[h].lost \cup {"relay kept"}
                   /\ r.want = job[h].want /\ r.snap = job[h].snap
        BY <1>2, RelaysFailEffect
    <2> QED
        BY <1>a, <1>m, <2>1, <2>2
<1>3. ASSUME RestoreRelayDelete(h) PROVE AloneInv'
    <2>1. job[h].pc = "relayDelete" /\ UNCHANGED <<mappings, versions, slips>>
        BY <1>3 DEF RestoreRelayDelete
    <2>2. /\ "relay kept" \in job[h].lost \/ relays \subseteq job[h].names
          /\ Restored(job[h], W)
        BY <1>f, <2>1 DEF KnowsTables
    <2>3. PICK r : /\ Moved(h, r) /\ r.want = job[h].want /\ r.snap = job[h].snap /\ r.lost = job[h].lost
                   /\ \/ /\ job[h].names = {} /\ relays' = relays
                         /\ r.pc = "relayAdd" /\ r.names = job[h].want.relays
                      \/ \E n \in job[h].names :
                           /\ relays' = relays \ {n}
                           /\ r.pc = "relayDelete" /\ r.names = job[h].names \ {n}
        BY <1>3, RelayDeleteEffect
    <2>4. /\ r.pc = "relayDelete" => "relay kept" \in r.lost \/ relays' \subseteq r.names
          /\ r.pc = "relayAdd" => /\ "relay kept" \in r.lost \/ relays' \subseteq r.want.relays
                                  /\ r.names = r.want.relays
          /\ r.pc \in {"relayAdd", "relayDelete"}
        BY <2>2, <2>3
    <2> QED
        BY <1>m, <2>1, <2>2, <2>3, <2>4
<1>4. ASSUME RelayDeleteFail(h) PROVE AloneInv'
    <2>1. /\ job[h].pc = "relayDelete" /\ UNCHANGED <<mappings, relays, versions, slips>>
          /\ \E i \in job[h].names :
               job' = [job EXCEPT ![h].names = @ \ {i}, ![h].lost = @ \cup {"relay kept"}]
        BY <1>4 DEF RelayDeleteFail
    <2>2. Restored(job[h], W)
        BY <1>f, <2>1 DEF KnowsTables
    <2>3. PICK r : /\ Moved(h, r) /\ r.pc = "relayDelete"
                   /\ r.lost = job[h].lost \cup {"relay kept"}
                   /\ r.want = job[h].want /\ r.snap = job[h].snap
        <3>1. "relay kept" \in Losses
            BY DEF Losses
        <3>2. PICK i \in job[h].names :
                job' = [job EXCEPT ![h].names = @ \ {i}, ![h].lost = @ \cup {"relay kept"}]
            BY <2>1
        <3>3. PICK r : RelayDropped(h, r, i, "relay kept")
            BY <3>1, <3>2, RelayDropEffect
        <3> QED
            BY <2>1, <3>3 DEF RelayDropped
    <2> QED
        BY <1>m, <2>1, <2>2, <2>3
<1>5. ASSUME RestoreRelayCreate(h) PROVE AloneInv'
    <2>1. job[h].pc = "relayAdd" /\ UNCHANGED <<mappings, versions, slips>>
        BY <1>5 DEF RestoreRelayCreate
    <2>2. /\ "relay kept" \in job[h].lost \/ relays \subseteq job[h].want.relays
          /\ job[h].names \subseteq job[h].want.relays
          /\ \/ "relay missing" \in job[h].lost
             \/ job[h].want.relays \subseteq relays \cup job[h].names
          /\ Restored(job[h], W)
        BY <1>f, <2>1 DEF KnowsTables
    <2>3. PICK r : /\ Moved(h, r) /\ r.want = job[h].want /\ r.snap = job[h].snap /\ r.lost = job[h].lost
                   /\ \/ /\ job[h].names = {} /\ relays' = relays
                         /\ r.pc = "restored"
                      \/ \E n \in job[h].names :
                           /\ relays' = relays \cup {n}
                           /\ r.pc = "relayAdd" /\ r.names = job[h].names \ {n}
        BY <1>5, RelayCreateEffect
    <2>4. /\ "relay kept" \in r.lost \/ relays' \subseteq r.want.relays
          /\ r.pc = "relayAdd" =>
               /\ r.names \subseteq r.want.relays
               /\ "relay missing" \in r.lost \/ r.want.relays \subseteq relays' \cup r.names
          /\ r.pc = "restored" => "relay missing" \in r.lost \/ r.want.relays \subseteq relays'
          /\ r.pc \in {"relayAdd", "restored"}
        BY <2>2, <2>3
    <2> QED
        BY <1>m, <2>1, <2>2, <2>3, <2>4
<1>6. ASSUME RelayCreateFail(h) PROVE AloneInv'
    <2>1. /\ job[h].pc = "relayAdd" /\ UNCHANGED <<mappings, relays, versions, slips>>
          /\ \E i \in job[h].names :
               job' = [job EXCEPT ![h].names = @ \ {i}, ![h].lost = @ \cup {"relay missing"}]
        BY <1>6 DEF RelayCreateFail
    <2>2. /\ "relay kept" \in job[h].lost \/ relays \subseteq job[h].want.relays
          /\ job[h].names \subseteq job[h].want.relays
          /\ Restored(job[h], W)
        BY <1>f, <2>1 DEF KnowsTables
    <2>3. PICK r : /\ Moved(h, r) /\ r.pc = "relayAdd" /\ r.names \subseteq job[h].names
                   /\ r.lost = job[h].lost \cup {"relay missing"}
                   /\ r.want = job[h].want /\ r.snap = job[h].snap
        <3>1. "relay missing" \in Losses
            BY DEF Losses
        <3>2. PICK i \in job[h].names :
                job' = [job EXCEPT ![h].names = @ \ {i}, ![h].lost = @ \cup {"relay missing"}]
            BY <2>1
        <3>3. PICK r : RelayDropped(h, r, i, "relay missing")
            BY <3>1, <3>2, RelayDropEffect
        <3> QED
            BY <2>1, <3>3 DEF RelayDropped
    <2>4. /\ "relay kept" \in r.lost \/ relays' \subseteq r.want.relays
          /\ r.names \subseteq r.want.relays /\ "relay missing" \in r.lost
        BY <2>1, <2>2, <2>3
    <2> QED
        BY <1>m, <2>1, <2>2, <2>3, <2>4
<1>7. ASSUME RestoreDone(h) PROVE AloneInv'
    <2>1. Moved(h, Idle) /\ UNCHANGED <<mappings, versions, slips>>
        BY <1>7, DoneEffect DEF RestoreDone
    <2> QED
        BY <1>f, <2>1, AloneDone DEF Pure
<1> QED
    BY <1>1, <1>2, <1>3, <1>4, <1>5, <1>6, <1>7

LEMMA AloneInit == Init => AloneInv
<1> SUFFICES ASSUME Init PROVE AloneInv
    OBVIOUS
<1>1. \A h \in Handlers : job[h] = Idle
    BY DEF Init
<1>2. KnowsTables(Idle)
    BY IdleLocals DEF KnowsTables
<1>3. mappings = Empty /\ \A v \in Numbers : versions[v] = None
    BY DEF Init
<1> QED
    BY <1>1, <1>2, <1>3, EmptyNoClash, IdleLocals DEF AloneInv, Clean

\* What a handler knows depends on the mappings, the relays and the slips alone.
LEMMA KnowsSame ==
    ASSUME NEW r, KnowsTables(r), UNCHANGED <<mappings, relays, slips>>
    PROVE  KnowsTables(r)'
<1>1. Rows(mappings)' = Rows(mappings)
    BY DEF Rows
<1>2. ASSUME NEW S, Restored(r, S) PROVE Restored(r, S)'
    <2>1. PICK T \in SUBSET Rows(mappings) :
            /\ Copied(mappings, T, r.want.mappings, S)
            /\ "mapping kept" \in r.lost \/ T = Rows(mappings)
        BY <1>2 DEF Restored
    <2>2. /\ T \in SUBSET Rows(mappings')
          /\ Copied(mappings', T, r.want.mappings, S)
          /\ "mapping kept" \in r.lost \/ T = Rows(mappings')
        BY <2>1
    <2> QED
        BY <2>2, Zenon DEF Restored
<1>3. /\ Restored(r, Rows(r.want.mappings)) => Restored(r, Rows(r.want.mappings))'
      /\ Restored(r, Rows(r.want.mappings) \ r.rows)
           => Restored(r, Rows(r.want.mappings) \ r.rows)'
    BY <1>2
<1> QED
    BY <1>3 DEF KnowsTables, ValidateMapping, Rows

LEMMA AloneStep ==
    ASSUME TypeOK, AloneInv, OneAtATime, [Next]_vars
    PROVE  AloneInv'
<1>1. CASE Next
    <2>1. PICK h \in Handlers :
        \/ \E b \in Bodies, id \in Ids \cup {None} :
              SaveMapping(h, "create", b, id) \/ SaveMapping(h, "update", b, id)
        \/ \E b \in Bodies : ImportMapping(h, b)
        \/ Validate(h) \/ CreateMapping(h) \/ UpdateMapping(h)
        \/ \E i \in Ids : DeleteMapping(h, i)
        \/ \E bs \in SUBSET Bodies : ListForImport(h, bs) \/ ScanConfigs(h, bs)
        \/ ListScanned(h) \/ ImportDone(h)
        \/ \E c \in CertIds : CreateCert(h, c) \/ CountUses(h, c)
        \/ DeleteCert(h)
        \/ \E r \in Relays : \/ CreateRelay(h, r) \/ DeleteRelay(h, r)
                              \/ \E s \in Relays : UpdateRelay(h, r, s)
        \/ Apply(h) \/ CreateConfigVersion(h)
        \/ \E v \in Numbers : RestoreVersion(h, v)
        \/ Restore(h)
        BY <1>1 DEF Next
    <2> QED
        BY <2>1, AloneSaves, AloneImports, AloneCertsRelays, AloneVersions,
           AloneRestoreRows, AloneRestoreRelays DEF Restore
<1>2. CASE UNCHANGED vars
    <2>1. /\ mappings' = mappings /\ relays' = relays /\ versions' = versions
          /\ job' = job /\ slips' = slips
        BY <1>2 DEF vars
    <2>2. ASSUME NEW h \in Handlers PROVE KnowsTables(job[h])'
        <3>1. PICK r : r = job[h]
            OBVIOUS
        <3>2. KnowsTables(r)
            BY <3>1 DEF AloneInv
        <3>3. KnowsTables(r)'
            BY <2>1, <3>2, KnowsSame
        <3>4. job'[h] = r
            BY <2>1, <3>1
        <3> QED
            BY <3>3, <3>4
    <2>3. slips' = {} => Clean'
        BY <2>1 DEF AloneInv, Clean, NoClash, Rows
    <2> QED
        BY <2>2, <2>3 DEF AloneInv
<1> QED
    BY <1>1, <1>2

\* No two enabled mappings fight for a socket, whatever sequence of saves,
\* imports and restores of earlier versions the requests make, when each is
\* served before the next one comes, until a create carries the id of a stored
\* mapping that it conflicts with, an import lists too little or a restore leaves
\* a row behind: but for these the conflict check of ValidateMapping sees
\* everything that matters, and a restore brings back only what passed it.
THEOREM SocketsExclusive == OneAtATime /\ Spec => []ConflictFree
<1> SUFFICES ASSUME OneAtATime PROVE Spec => []ConflictFree
    OBVIOUS
<1>1. StoreInv /\ AloneInv /\ [Next]_vars => AloneInv'
    BY AloneStep DEF StoreInv
<1>2. AloneInv => ConflictFree
    BY DEF AloneInv, Clean, ConflictFree, SocketsApart, NoClash, Conflict, listenIPsOverlap
<1> QED
    BY <1>1, <1>2, AloneInit, StoreInductive, PTL DEF Spec

\* A restore that reports success leaves every mapping of the version, each as
\* often as the version holds it, and nothing else unless a list or a delete failed
\* on the way; and it leaves the relays of the version, but for those a failed list
\* or delete keeps and a failed insert drops, when requests come one at a time
\* (handleRestoreVersion).
THEOREM RestoresExactly == OneAtATime /\ Spec => []RestoreExact
<1> SUFFICES ASSUME OneAtATime PROVE Spec => []RestoreExact
    OBVIOUS
<1>1. StoreInv /\ AloneInv /\ [Next]_vars => AloneInv'
    BY AloneStep DEF StoreInv
<1>2. StoreInv /\ AloneInv => RestoreExact
    <2> SUFFICES ASSUME TypeOK, AloneInv, NEW h \in Handlers, job[h].pc = "restored"
                 PROVE  /\ \A b \in Bodies : Times(b, mappings) >= Times(b, job[h].want.mappings)
                        /\ \/ "mapping kept" \in job[h].lost
                           \/ SameMappings(mappings, job[h].want.mappings)
                        /\ "relay kept" \in job[h].lost \/ relays \subseteq job[h].want.relays
                        /\ "relay missing" \in job[h].lost \/ job[h].want.relays \subseteq relays
        BY DEF RestoreExact, StoreInv
    <2>1. /\ mappings \in Table /\ job[h].want.mappings \in Table
          /\ KnowsTables(job[h])
        BY AloneFacts
    <2>2. /\ Restored(job[h], Rows(job[h].want.mappings))
          /\ "relay kept" \in job[h].lost \/ relays \subseteq job[h].want.relays
          /\ "relay missing" \in job[h].lost \/ job[h].want.relays \subseteq relays
        BY <2>1 DEF KnowsTables
    <2>3. PICK T \in SUBSET Rows(mappings) :
            /\ Copied(mappings, T, job[h].want.mappings, Rows(job[h].want.mappings))
            /\ "mapping kept" \in job[h].lost \/ T = Rows(mappings)
        BY <2>2 DEF Restored
    <2>4. \A b \in Bodies :
            /\ Times(b, mappings) >= Times(b, job[h].want.mappings)
            /\ T = Rows(mappings) => Times(b, mappings) = Times(b, job[h].want.mappings)
        BY <2>1, <2>3, CopyTimes
    <2>5. T = Rows(mappings) => SameMappings(mappings, job[h].want.mappings)
        BY <2>4 DEF SameMappings
    <2> QED
        BY <2>2, <2>3, <2>4, <2>5
<1> QED
    BY <1>1, <1>2, AloneInit, StoreInductive, PTL DEF Spec

-----------------------------------------------------------------------------
(***************************************************************************)
(* The safety snapshot when requests come one at a time.                   *)
(***************************************************************************)

LEMMA UndoMove ==
    ASSUME TypeOK, OneAtATime, NEW h \in Handlers, NEW r, Moved(h, r),
           KnowsSnapshot(r)'
    PROVE  UndoInv'
<1>1. \A g \in Handlers : job'[g] = r
    BY MovedLocals DEF OneAtATime
<1> QED
    BY <1>1 DEF UndoInv

\* The steps of a request that takes no snapshot.
LEMMA UndoPlain ==
    ASSUME TypeOK, OneAtATime, NEW h \in Handlers, NEW r, Moved(h, r),
           r.pc \in {"idle", "list", "store", "import", "scanned", "counted"}
    PROVE  UndoInv'
<1>1. KnowsSnapshot(r)'
    BY DEF KnowsSnapshot
<1> QED
    BY <1>1, UndoMove

LEMMA UndoIdle ==
    ASSUME OneAtATime, NEW h \in Handlers, job[h].pc = "idle", job' = job
    PROVE  UndoInv'
<1>1. \A g \in Handlers : job'[g].pc = "idle"
    BY DEF OneAtATime
<1> QED
    BY <1>1 DEF UndoInv, KnowsSnapshot

\* The steps of a restore that has its snapshot leave it alone.
LEMMA UndoKept ==
    ASSUME TypeOK, UndoInv, OneAtATime, NEW h \in Handlers, NEW r, Moved(h, r),
           versions' = versions, r.before = job[h].before,
           job[h].pc \in {"delete", "add", "relayDelete", "relayAdd", "restored"},
           r.pc \in {"delete", "add", "relayDelete", "relayAdd", "restored"}
    PROVE  UndoInv'
<1>1. \E v \in Numbers : versions[v] = job[h].before
    BY DEF UndoInv, KnowsSnapshot
<1>2. \E v \in Numbers : versions'[v] = r.before
    BY <1>1
<1>3. KnowsSnapshot(r)'
    BY <1>2 DEF KnowsSnapshot
<1> QED
    BY <1>3, UndoMove

LEMMA UndoOthers ==
    ASSUME TypeOK, OneAtATime, NEW h \in Handlers
    PROVE  /\ Validate(h) \/ CreateMapping(h) \/ UpdateMapping(h) => UndoInv'
           /\ \A b \in Bodies : \A i \in Ids \cup {None} :
                SaveMapping(h, "create", b, i) \/ SaveMapping(h, "update", b, i)
                  => UndoInv'
           /\ \A i \in Ids : DeleteMapping(h, i) => UndoInv'
           /\ \A bs \in SUBSET Bodies :
                ListForImport(h, bs) \/ ScanConfigs(h, bs) => UndoInv'
           /\ ListScanned(h) \/ ImportDone(h) \/ DeleteCert(h) => UndoInv'
           /\ \A b \in Bodies : ImportMapping(h, b) => UndoInv'
           /\ \A c \in CertIds : CreateCert(h, c) \/ CountUses(h, c) => UndoInv'
           /\ \A r, s \in Relays :
                CreateRelay(h, r) \/ DeleteRelay(h, r) \/ UpdateRelay(h, r, s)
                  => UndoInv'
<1>1. ASSUME Validate(h) PROVE UndoInv'
    BY <1>1, ValidateEffect, UndoPlain, IdleLocals
<1>2. ASSUME \/ CreateMapping(h) \/ UpdateMapping(h) \/ ImportDone(h) \/ DeleteCert(h)
      PROVE  UndoInv'
    <2>1. Moved(h, Idle)
        BY <1>2, DoneEffect DEF CreateMapping, UpdateMapping, ImportDone, DeleteCert
    <2> QED
        BY <2>1, UndoPlain, IdleLocals
<1>3. ASSUME NEW b \in Bodies, NEW id \in Ids \cup {None}, NEW op \in {"create", "update"},
             SaveMapping(h, op, b, id)
      PROVE  UndoInv'
    BY <1>3, SaveEffect, UndoPlain DEF Saving
<1>4. ASSUME NEW bs \in SUBSET Bodies, ListForImport(h, bs) \/ ScanConfigs(h, bs)
      PROVE  UndoInv'
    BY <1>4, ImportEffect, ScanEffect, UndoPlain
<1>5. ASSUME ListScanned(h) PROVE UndoInv'
    BY <1>5, ListScannedEffect, UndoPlain
<1>6. ASSUME NEW b \in Bodies, ImportMapping(h, b) PROVE UndoInv'
    BY <1>6, ImportMappingEffect, UndoPlain
<1>7. ASSUME NEW c \in CertIds, CountUses(h, c) PROVE UndoInv'
    BY <1>7, CountEffect, UndoPlain
<1>8. ASSUME NEW i \in Ids, DeleteMapping(h, i) PROVE UndoInv'
    BY <1>8, UndoIdle DEF DeleteMapping
<1>9. ASSUME NEW c \in CertIds, CreateCert(h, c) PROVE UndoInv'
    BY <1>9, UndoIdle DEF CreateCert
<1>10. ASSUME NEW r \in Relays, NEW s \in Relays,
              CreateRelay(h, r) \/ DeleteRelay(h, r) \/ UpdateRelay(h, r, s)
       PROVE  UndoInv'
    BY <1>10, UndoIdle DEF CreateRelay, DeleteRelay, UpdateRelay
<1> QED
    BY <1>1, <1>2, <1>3, <1>4, <1>5, <1>6, <1>7, <1>8, <1>9, <1>10

LEMMA SameLatest ==
    ASSUME versions' = versions
    PROVE  Latest' = Latest
BY DEF Latest, Stored

\* A request begins only while a number is left for its snapshot.
LEMMA RoomLeft ==
    ASSUME RoomForVersion
    PROVE  Latest < MaxVersion
<1> DEFINE C == {h \in Handlers : job[h].op \in {"apply", "restore"}}
<1>1. Latest + Cardinality(C) < MaxVersion
    BY DEF RoomForVersion
<1>2. Cardinality(C) \in Nat
    BY FiniteAssumption, FS_Subset, FS_CardinalityType
<1> HIDE DEF C
<1> QED
    BY <1>1, <1>2, LatestIs, VersionAssumption

LEMMA UndoVersions ==
    ASSUME StoreInv, UndoInv, OneAtATime, ~Fails("version"), NEW h \in Handlers
    PROVE  /\ Apply(h) \/ CreateConfigVersion(h) => UndoInv'
           /\ \A v \in Numbers : RestoreVersion(h, v) => UndoInv'
<1>t. TypeOK /\ KnowsSnapshot(job[h]) /\ job[h] \in Job
    BY DEF StoreInv, UndoInv, TypeOK
<1>1. ASSUME NEW r, Moved(h, r), r.pc = "listMappings", RoomForVersion,
             versions' = versions
      PROVE  UndoInv'
    <2>1. Latest' < MaxVersion
        BY <1>1, RoomLeft, SameLatest
    <2>2. KnowsSnapshot(r)'
        BY <1>1, <2>1 DEF KnowsSnapshot
    <2> QED
        BY <1>t, <1>1, <2>2, UndoMove
<1>2. ASSUME Apply(h) PROVE UndoInv'
    BY <1>t, <1>1, <1>2, ApplyEffect DEF Apply
<1>3. ASSUME NEW v \in Numbers, RestoreVersion(h, v) PROVE UndoInv'
    BY <1>t, <1>1, <1>3, RestoreEffect DEF RestoreVersion
<1>4. ASSUME SnapMappings(h) PROVE UndoInv'
    <2>1. job[h].pc = "listMappings" /\ UNCHANGED <<mappings, versions>>
        BY <1>4 DEF SnapMappings
    <2>2. PICK r : Moved(h, r) /\ r.pc = "listRelays" /\ r.snap.mappings = mappings
        BY <1>t, <1>4, SnapMappingsEffect
    <2>3. Latest' < MaxVersion
        BY <1>t, <2>1, SameLatest DEF KnowsSnapshot
    <2>4. KnowsSnapshot(r)'
        BY <2>1, <2>2, <2>3 DEF KnowsSnapshot
    <2> QED
        BY <1>t, <2>2, <2>4, UndoMove
<1>5. ASSUME SnapRelays(h) PROVE UndoInv'
    <2>1. job[h].pc = "listRelays" /\ UNCHANGED <<mappings, relays, versions>>
        BY <1>5 DEF SnapRelays
    <2>2. PICK r : /\ Moved(h, r) /\ r.pc = "max" /\ r.snap.relays = relays
                   /\ r.snap.mappings = job[h].snap.mappings
        BY <1>t, <1>5, SnapRelaysEffect
    <2>3. Latest' < MaxVersion /\ job[h].snap.mappings = mappings
        BY <1>t, <2>1, SameLatest DEF KnowsSnapshot
    <2>4. KnowsSnapshot(r)'
        BY <2>1, <2>2, <2>3 DEF KnowsSnapshot
    <2> QED
        BY <1>t, <2>2, <2>4, UndoMove
<1>6. ASSUME NextVersion(h) PROVE UndoInv'
    <2>1. job[h].pc = "max" /\ UNCHANGED <<mappings, relays, versions>>
        BY <1>6 DEF NextVersion
    <2>2. PICK r : /\ Moved(h, r) /\ r.pc = "insert" /\ r.ver = Latest + 1
                   /\ r.snap = job[h].snap
        BY <1>t, <1>6, NextVersionEffect
    <2>3. /\ Latest' < MaxVersion /\ Latest' = Latest
          /\ job[h].snap.mappings = mappings /\ job[h].snap.relays = relays
        BY <1>t, <2>1, SameLatest DEF KnowsSnapshot
    <2>4. KnowsSnapshot(r)'
        BY <2>1, <2>2, <2>3 DEF KnowsSnapshot
    <2> QED
        BY <1>t, <2>2, <2>4, UndoMove
<1>7. ASSUME NEW r, Moved(h, r), r.pc \in {"prune", "current"}, r.snap = job[h].snap,
             job[h].snap.mappings = mappings, job[h].snap.relays = relays,
             UNCHANGED <<mappings, relays>>, Latest' # 0, versions'[Latest'] = job[h].snap
      PROVE  UndoInv'
    <2>1. KnowsSnapshot(r)'
        BY <1>7 DEF KnowsSnapshot
    <2> QED
        BY <1>t, <1>7, <2>1, UndoMove
<1>8. ASSUME InsertVersion(h) PROVE UndoInv'
    <2> DEFINE n == job[h].ver
    <2>1. job[h].pc = "insert" /\ UNCHANGED <<mappings, relays>>
        BY <1>8 DEF InsertVersion
    <2>2. /\ n = Latest + 1 /\ Latest < MaxVersion
          /\ job[h].snap.mappings = mappings /\ job[h].snap.relays = relays
        BY <1>t, <2>1 DEF KnowsSnapshot
    <2>3. n \in Numbers /\ n \notin Stored
        BY <2>2, LatestIs, VersionAssumption DEF Numbers
    <2>4. versions[n] = None
        BY <2>3 DEF Stored
    <2>5. PICK r : /\ Moved(h, r) /\ r.pc = "prune" /\ r.snap = job[h].snap
                   /\ versions' = [versions EXCEPT ![n] = job[h].snap]
        BY <1>t, <1>8, <2>4, InsertEffect
    <2>6. versions'[n] = job[h].snap
        BY <1>t, <2>3, <2>5 DEF TypeOK
    <2>7. job[h].snap # None
        BY <1>t, FieldTypes, BodyAssumption
    <2>8. n \in Stored' /\ \A v \in Stored' : v <= n
        <3>1. Stored' \subseteq Stored \cup {n}
            BY <1>t, <2>5 DEF Stored, TypeOK
        <3>2. \A v \in Stored : v <= n
            BY <2>2, LatestIs, VersionAssumption DEF Stored, Numbers
        <3>3. n <= n
            BY <2>3 DEF Numbers
        <3> QED
            BY <2>3, <2>6, <2>7, <3>1, <3>2, <3>3 DEF Stored
    <2>9. Latest' = n /\ n # 0
        BY <2>3, <2>8, LatestUniqueNext DEF Numbers
    <2> QED
        BY <1>7, <2>1, <2>2, <2>5, <2>6, <2>9
<1>9. ASSUME PruneVersions(h) PROVE UndoInv'
    <2> DEFINE last == IF Latest > Keep THEN Latest - Keep ELSE 0
    <2>1. /\ job[h].pc = "prune" /\ AfterVersion(h) /\ UNCHANGED <<mappings, relays>>
          /\ versions' = [v \in Numbers |-> IF v <= last THEN None ELSE versions[v]]
        BY <1>9 DEF PruneVersions, Prune
    <2>2. /\ job[h].snap.mappings = mappings /\ job[h].snap.relays = relays
          /\ Latest # 0 /\ versions[Latest] = job[h].snap
        BY <1>t, <2>1 DEF KnowsSnapshot
    <2>3. Latest \in Numbers /\ last < Latest /\ last \in Nat
        BY <2>2, LatestIs, VersionAssumption DEF Numbers
    <2> HIDE DEF last
    <2>4. versions'[Latest] = job[h].snap
        BY <2>1, <2>2, <2>3 DEF Numbers
    <2>5. job[h].snap # None
        BY <1>t, FieldTypes, BodyAssumption
    <2>6. Latest \in Stored' /\ \A v \in Stored' : v <= Latest
        <3>1. Stored' \subseteq Stored
            BY <2>1 DEF Stored
        <3>2. Latest \in Stored'
            BY <2>3, <2>4, <2>5 DEF Stored
        <3> QED
            BY <3>1, <3>2, LatestIs
    <2>7. Latest' = Latest
        BY <2>6, LatestUniqueNext
    <2>8. CASE Moved(h, Idle)
        BY <1>t, <2>8, UndoPlain, IdleLocals
    <2> QED
        BY <1>t, <1>7, <2>1, <2>2, <2>4, <2>7, <2>8, AfterVersionEffect
<1> QED
    BY <1>2, <1>3, <1>4, <1>5, <1>6, <1>8, <1>9 DEF CreateConfigVersion

LEMMA UndoRestores ==
    ASSUME TypeOK, UndoInv, OneAtATime, NEW h \in Handlers, Restore(h)
    PROVE  UndoInv'
<1>1. CASE ListCurrent(h) \/ ListCurrentFail(h)
    <2>1. job[h].pc = "current" /\ UNCHANGED versions
        BY <1>1 DEF ListCurrent, ListCurrentFail
    <2>2. PICK r : /\ Moved(h, r) /\ r.pc = "delete" /\ r.before \in Snapshot
                   /\ r.before.mappings = mappings /\ r.before.relays = relays
        BY <1>1, ListCurrentEffect, CurrentFailEffect
    <2>3. /\ job[h].snap.mappings = mappings /\ job[h].snap.relays = relays
          /\ Latest # 0 /\ versions[Latest] = job[h].snap
        BY <2>1 DEF UndoInv, KnowsSnapshot
    <2>4. job[h].snap \in Snapshot
        BY FieldTypes DEF TypeOK
    <2>5. r.before = job[h].snap
        BY <2>2, <2>3, <2>4 DEF Snapshot
    <2>6. Latest \in Numbers
        BY <2>3, LatestIs DEF Stored
    <2>7. \E v \in Numbers : versions'[v] = r.before
        BY <2>1, <2>3, <2>5, <2>6
    <2>8. KnowsSnapshot(r)'
        BY <2>2, <2>7 DEF KnowsSnapshot
    <2> QED
        BY <2>2, <2>8, UndoMove
<1>2. CASE RestoreDelete(h)
    <2>1. PICK r : Moved(h, r) /\ r.before = job[h].before /\ r.pc \in {"add", "delete"}
        BY <1>2, RestoreDeleteEffect
    <2> QED
        BY <1>2, <2>1, UndoKept DEF RestoreDelete
<1>3. CASE RestoreCreate(h)
    <2>1. CASE Moved(h, Idle)
        BY <2>1, UndoPlain, IdleLocals
    <2>2. ASSUME NEW r, Moved(h, r), r.before = job[h].before, r.pc = "add"
          PROVE  UndoInv'
        BY <1>3, <2>2, UndoKept DEF RestoreCreate
    <2> QED
        BY <1>3, <2>1, <2>2, RestoreCreateEffect
<1>4. CASE ListCurrentRelays(h)
    <2>1. PICK r : Moved(h, r) /\ r.before = job[h].before /\ r.pc = "relayDelete"
        BY <1>4, ListRelaysEffect
    <2> QED
        BY <1>4, <2>1, UndoKept DEF ListCurrentRelays
<1>5. CASE RestoreRelayDelete(h)
    <2>1. PICK r : /\ Moved(h, r) /\ r.before = job[h].before
                   /\ r.pc \in {"relayDelete", "relayAdd"}
        BY <1>5, RelayDeleteEffect
    <2> QED
        BY <1>5, <2>1, UndoKept DEF RestoreRelayDelete
<1>6. CASE RestoreRelayCreate(h)
    <2>1. PICK r : /\ Moved(h, r) /\ r.before = job[h].before
                   /\ r.pc \in {"relayAdd", "restored"}
        BY <1>6, RelayCreateEffect
    <2> QED
        BY <1>6, <2>1, UndoKept DEF RestoreRelayCreate
<1>7. CASE RestoreDone(h)
    BY <1>7, DoneEffect, UndoPlain, IdleLocals DEF RestoreDone
<1>8. CASE RestoreDeleteFail(h)
    <2>1. PICK r : Moved(h, r) /\ r.before = job[h].before /\ r.pc = "delete"
        BY <1>8, DeleteFailEffect
    <2> QED
        BY <1>8, <2>1, UndoKept DEF RestoreDeleteFail
<1>9. CASE ListRelaysFail(h)
    <2>1. PICK r : Moved(h, r) /\ r.before = job[h].before /\ r.pc = "relayDelete"
        BY <1>9, RelaysFailEffect
    <2> QED
        BY <1>9, <2>1, UndoKept DEF ListRelaysFail
<1>10. CASE RelayDeleteFail(h) \/ RelayCreateFail(h)
    <2>1. /\ job[h].pc \in {"relayDelete", "relayAdd"} /\ versions' = versions
          /\ \E what \in Losses : \E i \in job[h].names :
               job' = [job EXCEPT ![h].names = @ \ {i}, ![h].lost = @ \cup {what}]
        BY <1>10 DEF RelayDeleteFail, RelayCreateFail, Losses
    <2>a. PICK what \in Losses : \E i \in job[h].names :
               job' = [job EXCEPT ![h].names = @ \ {i}, ![h].lost = @ \cup {what}]
        BY <2>1
    <2>b. PICK i \in job[h].names :
               job' = [job EXCEPT ![h].names = @ \ {i}, ![h].lost = @ \cup {what}]
        BY <2>a
    <2>c. PICK r : RelayDropped(h, r, i, what)
        BY <2>b, RelayDropEffect
    <2>2. Moved(h, r) /\ r.before = job[h].before /\ r.pc = job[h].pc
        BY <2>c DEF RelayDropped
    <2> QED
        BY <2>1, <2>2, UndoKept
<1> QED
    BY <1>1, <1>2, <1>3, <1>4, <1>5, <1>6, <1>7, <1>8, <1>9, <1>10 DEF Restore

LEMMA UndoStep ==
    ASSUME StoreInv, UndoInv, OneAtATime, ~Fails("version"), [Next]_vars
    PROVE  UndoInv'
<1>t. TypeOK
    BY DEF StoreInv
<1>1. CASE Next
    <2>1. PICK h \in Handlers :
        \/ \E b \in Bodies, id \in Ids \cup {None} :
              SaveMapping(h, "create", b, id) \/ SaveMapping(h, "update", b, id)
        \/ \E b \in Bodies : ImportMapping(h, b)
        \/ Validate(h) \/ CreateMapping(h) \/ UpdateMapping(h)
        \/ \E i \in Ids : DeleteMapping(h, i)
        \/ \E bs \in SUBSET Bodies : ListForImport(h, bs) \/ ScanConfigs(h, bs)
        \/ ListScanned(h) \/ ImportDone(h)
        \/ \E c \in CertIds : CreateCert(h, c) \/ CountUses(h, c)
        \/ DeleteCert(h)
        \/ \E r \in Relays : \/ CreateRelay(h, r) \/ DeleteRelay(h, r)
                              \/ \E s \in Relays : UpdateRelay(h, r, s)
        \/ Apply(h) \/ CreateConfigVersion(h)
        \/ \E v \in Numbers : RestoreVersion(h, v)
        \/ Restore(h)
        BY <1>1 DEF Next
    <2> QED
        BY <1>t, <2>1, UndoOthers, UndoVersions, UndoRestores
<1>2. CASE UNCHANGED vars
    <2>1. Latest' = Latest
        BY <1>2, SameLatest DEF vars
    <2> QED
        BY <1>2, <2>1 DEF vars, UndoInv, KnowsSnapshot
<1> QED
    BY <1>1, <1>2

LEMMA UndoInit == Init => UndoInv
<1> SUFFICES ASSUME Init PROVE UndoInv
    OBVIOUS
<1>1. \A h \in Handlers : job[h].pc = "idle"
    BY IdleLocals DEF Init
<1> QED
    BY <1>1 DEF UndoInv, KnowsSnapshot

\* While a restore replaces the tables, and when it has, a stored version holds
\* the configuration it replaced: the safety snapshot of handleRestoreVersion has
\* been numbered, inserted and not pruned away, when requests come one at a time
\* and its INSERT does not fail.
THEOREM RestoresUndoable ==
    OneAtATime /\ ~Fails("version") /\ Spec => []RestoreUndoable
<1> SUFFICES ASSUME OneAtATime, ~Fails("version") PROVE Spec => []RestoreUndoable
    OBVIOUS
<1>1. StoreInv /\ UndoInv /\ [Next]_vars => UndoInv'
    BY UndoStep
<1>2. UndoInv => RestoreUndoable
    BY DEF UndoInv, KnowsSnapshot, RestoreUndoable
<1> QED
    BY <1>1, <1>2, UndoInit, StoreInductive, PTL DEF Spec
=============================================================================
