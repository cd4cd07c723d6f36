--------------------------- MODULE AccountsProofs ---------------------------
(***************************************************************************)
(* Proofs about Accounts: for every number of handlers, accounts and       *)
(* addresses, a session has a role its account was given, and the failed   *)
(* logins of an address are bounded.                                       *)
(***************************************************************************)
EXTENDS Accounts, FiniteSetTheorems, TLAPS

\* A handler without a request satisfies every condition on locals.
LEMMA IdleOK == Idle \in Job /\ LocalsOK(Idle)
BY DEF Idle, Job, LocalsOK

\* A step that gives one handler good locals keeps the locals good.
LEMMA JobStep ==
    ASSUME TypeOK, LocalsInv, NEW h \in Handlers,
           NEW r \in Job, LocalsOK(r), job' = [job EXCEPT ![h] = r]
    PROVE  job' \in [Handlers -> Job] /\ LocalsInv'
<1>1. job \in [Handlers -> Job]
    BY DEF TypeOK
<1>2. job' \in [Handlers -> Job]
    BY <1>1
<1>3. \A g \in Handlers : job'[g] = IF g = h THEN r ELSE job[g]
    BY <1>1
<1>4. \A g \in Handlers : LocalsOK(job'[g])
    BY <1>3 DEF LocalsInv
<1> QED
    BY <1>2, <1>4 DEF LocalsInv, LocalsOK

\* Roles are only ever added to what an account was given.
Grows == \A i \in Ids : granted[i] \subseteq granted'[i]

\* Sessions keep their roles while the grants grow.
LEMMA TokenStep ==
    ASSUME TypeOK, TokenRoleGranted, Grows,
           tokens' \subseteq tokens
    PROVE  TokenRoleGranted'
BY DEF TypeOK, TokenRoleGranted, Grows, Token

\* A login's role stays granted while the grants grow.
LEMMA LoginStep ==
    ASSUME TypeOK, LoginGranted, Grows, NEW h \in Handlers, NEW r \in Job,
           job' = [job EXCEPT ![h] = r],
           r.pc = "verify" /\ r.id # None => r.role \in granted'[r.id]
    PROVE  LoginGranted'
<1>1. job \in [Handlers -> Job]
    BY DEF TypeOK
<1>2. \A g \in Handlers : job'[g] = IF g = h THEN r ELSE job[g]
    BY <1>1
<1> SUFFICES ASSUME NEW g \in Handlers, job'[g].pc = "verify", job'[g].id # None
             PROVE  job'[g].role \in granted'[job'[g].id]
    BY DEF LoginGranted
<1>3. CASE g = h
    BY <1>2, <1>3
<1>4. CASE g # h
    <2>1. job'[g] = job[g]
        BY <1>2, <1>4
    <2>2. job[g].role \in granted[job[g].id]
        BY <2>1 DEF LoginGranted
    <2>3. job[g].id \in Ids
        BY <1>1, <2>1 DEF Job
    <2> QED
        BY <2>1, <2>2, <2>3 DEF Grows
<1> QED
    BY <1>3, <1>4

\* The handlers trying an address are finitely many.
LEMMA TryingFinite ==
    ASSUME NEW ip
    PROVE  /\ IsFiniteSet(Trying(ip))
           /\ Cardinality(Trying(ip)) \in Nat
           /\ Cardinality(Trying(ip)) <= Cardinality(Handlers)
           /\ Cardinality(Handlers) \in Nat
<1>1. Trying(ip) \subseteq Handlers
    BY DEF Trying
<1> QED
    BY <1>1, HandlersAssumption, FS_Subset, FS_CardinalityType

\* A handler that stops trying, or goes on trying, adds no attempt.
LEMMA FailsKept ==
    ASSUME TypeOK, FailsInv, NEW h \in Handlers, NEW r \in Job,
           job' = [job EXCEPT ![h] = r],
           r.pc \in {"lookup", "verify"} =>
               job[h].pc \in {"lookup", "verify"} /\ r.ip = job[h].ip,
           fails' = fails
    PROVE  FailsInv'
<1> SUFFICES ASSUME NEW ip \in IPs
             PROVE  fails'[ip] + Cardinality(Trying(ip)')
                        <= MaxFails + Cardinality(Handlers) - 1
    BY DEF FailsInv
<1>1. job \in [Handlers -> Job]
    BY DEF TypeOK
<1>2. \A g \in Handlers : job'[g] = IF g = h THEN r ELSE job[g]
    BY <1>1
<1>3. Trying(ip)' \subseteq Trying(ip)
    BY <1>2 DEF Trying
<1>4. Cardinality(Trying(ip)') <= Cardinality(Trying(ip)) /\ Cardinality(Trying(ip)') \in Nat
    BY <1>3, TryingFinite, FS_Subset, FS_CardinalityType
<1>5. fails[ip] \in Nat /\ fails'[ip] = fails[ip]
    BY DEF TypeOK
<1>6. fails[ip] + Cardinality(Trying(ip)) <= MaxFails + Cardinality(Handlers) - 1
    BY DEF FailsInv
<1> QED
    BY <1>4, <1>5, <1>6, TryingFinite, LimitAssumption

\* A step that only moves one handler, to locals of which those of a login have
\* been granted and which try no new address.
LEMMA Quiet ==
    ASSUME IInv, NEW h \in Handlers, NEW r \in Job, LocalsOK(r),
           job' = [job EXCEPT ![h] = r],
           UNCHANGED <<admins, used, tokens, fails, granted>>,
           r.pc = "verify" /\ r.id # None => r.role \in granted[r.id],
           r.pc \in {"lookup", "verify"} =>
               job[h].pc \in {"lookup", "verify"} /\ r.ip = job[h].ip
    PROVE  IInv'
<1> USE DEF IInv
<1>1. job' \in [Handlers -> Job] /\ LocalsInv'
    BY JobStep
<1>2. TypeOK'
    BY <1>1 DEF TypeOK
<1>3. Grows
    BY DEF Grows
<1>4. RowsGranted'
    BY DEF RowsGranted
<1>5. LoginGranted'
    BY <1>3, LoginStep
<1>6. TokenRoleGranted'
    BY DEF TokenRoleGranted
<1>7. FailsInv'
    BY FailsKept
<1> QED
    BY <1>1, <1>2, <1>4, <1>5, <1>6, <1>7

\* A step that ends the request of one handler, if it had one, and changes the
\* accounts: rows keep their type and a granted role, sessions do not grow.
LEMMA Written ==
    ASSUME IInv, NEW h \in Handlers,
           job' = [job EXCEPT ![h] = Idle] \/ job' = job,
           admins' \in [Ids -> Admin \cup {None}],
           used' \in SUBSET Ids,
           granted' \in [Ids -> SUBSET Roles], Grows, RowsGranted',
           UNCHANGED <<tokens, fails>>
    PROVE  IInv'
<1> USE DEF IInv
<1> DEFINE r == IF job' = job THEN job[h] ELSE Idle
<1>1. job \in [Handlers -> Job]
    BY DEF TypeOK
<1>2. job[h] \in Job /\ LocalsOK(job[h])
    BY <1>1 DEF LocalsInv
<1>3. r \in Job /\ LocalsOK(r)
    BY <1>2, IdleOK
<1>4. job' = [job EXCEPT ![h] = r]
    BY <1>1
<1>5. job' \in [Handlers -> Job] /\ LocalsInv'
    BY <1>3, <1>4, JobStep
<1>6. TypeOK'
    BY <1>5 DEF TypeOK
<1>7. r.pc = "verify" /\ r.id # None => r.role \in granted'[r.id]
    <2> SUFFICES ASSUME r.pc = "verify", r.id # None PROVE r.role \in granted'[r.id]
        OBVIOUS
    <2>1. r = job[h]
        BY DEF Idle
    <2>2. job[h].role \in granted[job[h].id] /\ job[h].id \in Ids
        BY <1>2, <2>1 DEF LoginGranted, Job
    <2> QED
        BY <2>1, <2>2 DEF Grows
<1>8. LoginGranted'
    BY <1>3, <1>4, <1>7, LoginStep
<1>9. TokenRoleGranted'
    BY TokenStep
<1>10. r.pc \in {"lookup", "verify"} =>
           job[h].pc \in {"lookup", "verify"} /\ r.ip = job[h].ip
    BY DEF Idle
<1>11. FailsInv'
    <2> HIDE DEF r
    <2> QED
        BY <1>3, <1>4, <1>10, FailsKept
<1> QED
    BY <1>5, <1>6, <1>8, <1>9, <1>11

\* Inserting an account keeps the table well typed and its roles granted.
LEMMA Inserted ==
    ASSUME IInv, NEW n \in Names, NEW p \in Passwords, NEW r \in Roles,
           CreateAdminRole(n, p, r)
    PROVE  /\ admins' \in [Ids -> Admin \cup {None}]
           /\ used' \in SUBSET Ids
           /\ granted' \in [Ids -> SUBSET Roles]
           /\ Grows
           /\ RowsGranted'
<1>1. PICK i \in Ids \ used :
         /\ admins' = [admins EXCEPT ![i] = [name |-> n, hash |-> p, role |-> r]]
         /\ used' = used \cup {i}
         /\ granted' = [granted EXCEPT ![i] = @ \cup {r}]
    BY DEF CreateAdminRole
<1>2. admins \in [Ids -> Admin \cup {None}] /\ used \in SUBSET Ids
      /\ granted \in [Ids -> SUBSET Roles]
    BY DEF IInv, TypeOK
<1>3. [name |-> n, hash |-> p, role |-> r] \in Admin
    BY DEF Admin
<1>4. admins' \in [Ids -> Admin \cup {None}] /\ used' \in SUBSET Ids
    BY <1>1, <1>2, <1>3
<1>5. granted' \in [Ids -> SUBSET Roles] /\ Grows
    BY <1>1, <1>2 DEF Grows
<1>6. RowsGranted'
    BY <1>1, <1>2 DEF IInv, RowsGranted
<1> QED
    BY <1>4, <1>5, <1>6

\* First-run setup.
LEMMA SetupStepInv ==
    ASSUME IInv, NEW h \in Handlers, SetupStep(h)
    PROVE  IInv'
<1>1. ASSUME NEW n \in Names, NEW p \in Passwords, Setup(h, n, p)
      PROVE  IInv'
    <2> DEFINE r == [Idle EXCEPT !.pc = "setup", !.name = n, !.hash = p]
    <2>1. r \in Job /\ LocalsOK(r) /\ r.pc = "setup"
        BY DEF Idle, Job, LocalsOK
    <2>2. job' = [job EXCEPT ![h] = r] /\ UNCHANGED <<admins, used, tokens, fails, granted>>
        BY <1>1 DEF Setup
    <2> HIDE DEF r
    <2> QED
        BY <2>1, <2>2, Quiet
<1>2. CASE CreateAdmin(h)
    <2>1. job' = [job EXCEPT ![h] = Idle] /\ UNCHANGED <<tokens, fails>>
        BY <1>2 DEF CreateAdmin, Done
    <2>2. job[h].name \in Names /\ job[h].hash \in Passwords
        BY <1>2 DEF CreateAdmin, IInv, LocalsInv, LocalsOK
    <2>3. CASE CreateAdminRole(job[h].name, job[h].hash, "owner")
        BY <2>1, <2>2, <2>3, Inserted, Written, RolesAssumption
    <2>4. CASE Unchanged
        BY <2>1, <2>4, Written DEF Unchanged, IInv, TypeOK, Grows, RowsGranted
    <2> QED
        BY <1>2, <2>3, <2>4 DEF CreateAdmin
<1> QED
    BY <1>1, <1>2 DEF SetupStep

\* User management.
LEMMA UserStepInv ==
    ASSUME IInv, NEW h \in Handlers, UserStep(h)
    PROVE  IInv'
<1>0. job \in [Handlers -> Job] /\ job[h] \in Job /\ LocalsOK(job[h])
    BY DEF IInv, TypeOK, LocalsInv
<1>1. ASSUME NEW t \in tokens, NEW n \in Names, NEW p \in Passwords,
             NEW r \in Roles, CreateUser(h, t, n, p, r)
      PROVE  IInv'
    BY <1>1, Inserted, Written DEF CreateUser
<1>2. ASSUME NEW t \in tokens, NEW op \in {"update", "delete"}, NEW i \in Ids,
             NEW r \in Roles \cup {None}, op = "update" => r \in Roles,
             ReadTarget(h, t, op, i, r)
      PROVE  IInv'
    <2> DEFINE l == IF admins[i].role = "owner" /\ r # "owner" THEN "count" ELSE op
    <2> DEFINE j == [Idle EXCEPT !.pc = l, !.op = op, !.id = i, !.role = r]
    <2>1. l \in {"count", op}
        OBVIOUS
    <2>2. job' = [job EXCEPT ![h] = j] /\ UNCHANGED <<admins, used, tokens, fails, granted>>
        BY <1>2 DEF ReadTarget
    <2> HIDE DEF l
    <2>3. j \in Job /\ j.pc \notin {"lookup", "verify"}
        BY <2>1, <1>2 DEF Idle, Job
    <2>4. LocalsOK(j)
        BY <2>1, <1>2 DEF Idle, LocalsOK
    <2> HIDE DEF j
    <2> QED
        BY <2>2, <2>3, <2>4, Quiet
<1>3. CASE CountOwners(h)
    <2> DEFINE j == IF Cardinality(Owners) <= 1 THEN Idle
                    ELSE [job[h] EXCEPT !.pc = job[h].op]
    <2>1. job' = [job EXCEPT ![h] = j] /\ UNCHANGED <<admins, used, tokens, fails, granted>>
        BY <1>3 DEF CountOwners
    <2>2. job[h].pc = "count" /\ job[h].op \in {"update", "delete"} /\ job[h].id \in Ids
        BY <1>0, <1>3 DEF CountOwners, LocalsOK
    <2>3. [job[h] EXCEPT !.pc = job[h].op] \in Job
        BY <1>0, <2>2 DEF Job
    <2>4. LocalsOK([job[h] EXCEPT !.pc = job[h].op])
        BY <1>0, <2>2 DEF Job, LocalsOK
    <2>5. [job[h] EXCEPT !.pc = job[h].op].pc \in {"update", "delete"}
        BY <1>0, <2>2 DEF Job
    <2>6. j \in Job /\ LocalsOK(j) /\ j.pc \notin {"lookup", "verify"}
        BY <2>3, <2>4, <2>5, IdleOK DEF Idle
    <2> HIDE DEF j
    <2> QED
        BY <2>1, <2>6, Quiet
<1>4. CASE SetAdminRole(h)
    <2>1. job' = [job EXCEPT ![h] = Idle] /\ UNCHANGED <<used, tokens, fails>>
        BY <1>4 DEF SetAdminRole, Done
    <2>2. job[h].id \in Ids /\ job[h].role \in Roles
        BY <1>0, <1>4 DEF SetAdminRole, LocalsOK
    <2>3. admins \in [Ids -> Admin \cup {None}] /\ used \in SUBSET Ids
          /\ granted \in [Ids -> SUBSET Roles]
        BY DEF IInv, TypeOK
    <2>4. CASE /\ admins[job[h].id] # None
               /\ admins' = [admins EXCEPT ![job[h].id].role = job[h].role]
               /\ granted' = [granted EXCEPT ![job[h].id] = @ \cup {job[h].role}]
        <3>1. admins[job[h].id] \in Admin
            BY <2>2, <2>3, <2>4
        <3>2. admins' \in [Ids -> Admin \cup {None}]
            BY <2>2, <2>3, <2>4, <3>1 DEF Admin
        <3>3. granted' \in [Ids -> SUBSET Roles] /\ Grows
            BY <2>2, <2>3, <2>4 DEF Grows
        <3>4. RowsGranted'
            BY <2>2, <2>3, <2>4, <3>1 DEF RowsGranted, IInv, Admin
        <3> QED
            BY <2>1, <2>3, <3>2, <3>3, <3>4, Written
    <2>5. CASE UNCHANGED <<admins, granted>>
        BY <2>1, <2>3, <2>5, Written DEF IInv, Grows, RowsGranted
    <2> QED
        BY <1>4, <2>4, <2>5 DEF SetAdminRole
<1>5. CASE DeleteAdmin(h)
    <2>1. job' = [job EXCEPT ![h] = Idle] /\ UNCHANGED <<used, tokens, fails, granted>>
        BY <1>5 DEF DeleteAdmin, Done
    <2>2. admins \in [Ids -> Admin \cup {None}] /\ used \in SUBSET Ids
          /\ granted \in [Ids -> SUBSET Roles]
        BY DEF IInv, TypeOK
    <2>3. admins' = [admins EXCEPT ![job[h].id] = None]
        BY <1>5 DEF DeleteAdmin
    <2>4. admins' \in [Ids -> Admin \cup {None}]
        BY <2>2, <2>3
    <2>5. RowsGranted'
        BY <2>1, <2>2, <2>3 DEF RowsGranted, IInv
    <2> QED
        BY <2>1, <2>2, <2>4, <2>5, Written DEF Grows
<1> QED
    BY <1>1, <1>2, <1>3, <1>4, <1>5 DEF UserStep

\* Logins and password changes.
LEMMA SessionStepInv ==
    ASSUME IInv, NEW h \in Handlers, SessionStep(h)
    PROVE  IInv'
<1>0. job \in [Handlers -> Job] /\ job[h] \in Job /\ LocalsOK(job[h])
    BY DEF IInv, TypeOK, LocalsInv
<1>1. ASSUME NEW ip \in IPs, NEW n \in Names, NEW p \in Passwords, Login(h, ip, n, p)
      PROVE  IInv'
    <2> DEFINE r == [Idle EXCEPT !.pc = "lookup", !.name = n, !.hash = p, !.ip = ip]
    <2>1. r \in Job /\ LocalsOK(r) /\ r.pc = "lookup" /\ r.ip = ip
        BY DEF Idle, Job, LocalsOK
    <2>2. job' = [job EXCEPT ![h] = r] /\ UNCHANGED <<admins, used, tokens, fails, granted>>
          /\ fails[ip] < MaxFails
        BY <1>1 DEF Login, Allow
    <2> HIDE DEF r
    <2>3. job' \in [Handlers -> Job] /\ LocalsInv'
        BY <2>1, <2>2, JobStep DEF IInv
    <2>4. TypeOK'
        BY <2>2, <2>3 DEF IInv, TypeOK
    <2>5. Grows
        BY <2>2 DEF Grows
    <2>6. LoginGranted'
        BY <2>1, <2>2, <2>5, LoginStep DEF IInv
    <2>7. RowsGranted' /\ TokenRoleGranted'
        BY <2>2 DEF IInv, RowsGranted, TokenRoleGranted
    <2>8. FailsInv'
        <3> SUFFICES ASSUME NEW a \in IPs
                     PROVE  fails'[a] + Cardinality(Trying(a)')
                                <= MaxFails + Cardinality(Handlers) - 1
            BY DEF FailsInv
        <3>1. fails[a] \in Nat /\ fails'[a] = fails[a]
            BY <2>2 DEF IInv, TypeOK
        <3>2. Trying(a)' \subseteq Handlers
            BY DEF Trying
        <3>3. Cardinality(Trying(a)') \in Nat
              /\ Cardinality(Trying(a)') <= Cardinality(Handlers)
              /\ Cardinality(Handlers) \in Nat
            BY <3>2, HandlersAssumption, FS_Subset, FS_CardinalityType
        <3>4. CASE a = ip
            BY <2>2, <3>1, <3>3, <3>4, LimitAssumption
        <3>5. CASE a # ip
            <4>1. Trying(a)' \subseteq Trying(a)
                BY <1>0, <2>1, <2>2, <3>5 DEF Trying
            <4>2. Cardinality(Trying(a)') <= Cardinality(Trying(a))
                BY <4>1, TryingFinite, FS_Subset
            <4>3. fails[a] + Cardinality(Trying(a)) <= MaxFails + Cardinality(Handlers) - 1
                BY DEF IInv, FailsInv
            <4> QED
                BY <3>1, <3>3, <4>2, <4>3, TryingFinite, LimitAssumption
        <3> QED
            BY <3>4, <3>5
    <2> QED
        BY <2>3, <2>4, <2>6, <2>7, <2>8 DEF IInv
<1>2. CASE Lookup(h)
    <2>1. job[h].pc = "lookup" /\ UNCHANGED <<admins, used, tokens, fails, granted>>
        BY <1>2 DEF Lookup
    <2>2. ASSUME NEW i \in Named(job[h].name),
                 job' = [job EXCEPT ![h] = [@ EXCEPT !.pc = "verify", !.id = i,
                                                     !.role = admins[i].role,
                                                     !.read = admins[i].hash]]
          PROVE  IInv'
        <3> DEFINE r == [job[h] EXCEPT !.pc = "verify", !.id = i,
                                       !.role = admins[i].role,
                                       !.read = admins[i].hash]
        <3>1. i \in Ids /\ admins[i] \in Admin /\ admins[i].role \in granted[i]
            BY DEF Named, Rows, IInv, TypeOK, RowsGranted
        <3>2. r \in Job
            BY <1>0, <3>1 DEF Job, Admin
        <3>3. LocalsOK(r)
            BY <1>0, <2>1 DEF Job, LocalsOK
        <3>4. r.id = i /\ r.role = admins[i].role /\ r.ip = job[h].ip
            BY <1>0 DEF Job
        <3>5. job' = [job EXCEPT ![h] = r]
            BY <1>0, <2>2
        <3> HIDE DEF r
        <3> QED
            BY <2>1, <3>1, <3>2, <3>3, <3>4, <3>5, Quiet
    <2>3. CASE job' = [job EXCEPT ![h] = [@ EXCEPT !.pc = "verify"]]
        <3> DEFINE r == [job[h] EXCEPT !.pc = "verify"]
        <3>1. r \in Job /\ r.ip = job[h].ip /\ r.id = job[h].id
            BY <1>0 DEF Job
        <3>2. LocalsOK(r)
            BY <1>0, <2>1 DEF Job, LocalsOK
        <3>3. job' = [job EXCEPT ![h] = r]
            BY <1>0, <2>3
        <3>4. job[h].id = None
            BY <1>0, <2>1 DEF LocalsOK
        <3> HIDE DEF r
        <3> QED
            BY <2>1, <3>1, <3>2, <3>3, <3>4, Quiet
    <2> QED
        BY <1>2, <2>2, <2>3 DEF Lookup
<1>3. CASE Verify(h)
    <2>1. job[h].pc = "verify" /\ UNCHANGED <<admins, used, granted>>
          /\ job' = [job EXCEPT ![h] = Idle]
        BY <1>3 DEF Verify, Done
    <2>2. job' \in [Handlers -> Job] /\ LocalsInv'
        BY <2>1, IdleOK, JobStep DEF IInv
    <2>3. Grows
        BY <2>1 DEF Grows
    <2>4. LoginGranted'
        BY <2>1, <2>3, IdleOK, LoginStep DEF IInv, Idle
    <2>5. RowsGranted'
        BY <2>1 DEF IInv, RowsGranted
    <2>6. CASE Verified(h) /\ tokens' = tokens \cup {IssueRole(h)} /\ fails' = fails
        <3>1. job[h].id \in Ids /\ job[h].name \in Names
            BY <1>0, <2>1, <2>6 DEF Verified, Job, LocalsOK
        <3>2. job[h].role \in granted[job[h].id]
            BY <2>1, <3>1, NoneAssumption DEF IInv, LoginGranted
        <3>3. IssueRole(h) \in Token
            BY <3>1, <3>2 DEF IInv, TypeOK, IssueRole, Token
        <3>4. TypeOK'
            BY <2>1, <2>2, <2>6, <3>3 DEF IInv, TypeOK
        <3>5. TokenRoleGranted'
            BY <2>1, <2>6, <3>2 DEF IInv, TokenRoleGranted, IssueRole
        <3>6. FailsInv'
            BY <2>1, <2>6, IdleOK, FailsKept DEF IInv, Idle
        <3> QED
            BY <2>2, <2>4, <2>5, <3>4, <3>5, <3>6 DEF IInv
    <2>7. CASE fails' = [fails EXCEPT ![job[h].ip] = @ + 1] /\ tokens' = tokens
        <3>1. fails \in [IPs -> Nat] /\ job[h].ip \in IPs
            BY <1>0, <2>1 DEF IInv, TypeOK, LocalsOK
        <3>2. TypeOK'
            BY <2>1, <2>2, <2>7, <3>1 DEF IInv, TypeOK
        <3>3. TokenRoleGranted'
            BY <2>1, <2>7 DEF IInv, TokenRoleGranted
        <3>4. FailsInv'
            <4> SUFFICES ASSUME NEW a \in IPs
                         PROVE  fails'[a] + Cardinality(Trying(a)')
                                    <= MaxFails + Cardinality(Handlers) - 1
                BY DEF FailsInv
            <4>1. fails[a] + Cardinality(Trying(a)) <= MaxFails + Cardinality(Handlers) - 1
                BY DEF IInv, FailsInv
            <4>2. Trying(a)' = Trying(a) \ {h}
                BY <1>0, <2>1 DEF Trying, Idle
            <4>3. CASE a = job[h].ip
                <5>1. h \in Trying(a)
                    BY <2>1, <4>3 DEF Trying
                <5>2. Cardinality(Trying(a)') = Cardinality(Trying(a)) - 1
                    BY <4>2, <5>1, TryingFinite, FS_RemoveElement
                <5>3. fails'[a] = fails[a] + 1 /\ fails[a] \in Nat
                    BY <2>7, <3>1, <4>3
                <5> QED
                    BY <4>1, <5>2, <5>3, TryingFinite, LimitAssumption
            <4>4. CASE a # job[h].ip
                <5>1. Trying(a)' = Trying(a)
                    BY <4>2, <4>4 DEF Trying
                <5>2. fails'[a] = fails[a]
                    BY <2>7, <3>1, <4>4
                <5> QED
                    BY <4>1, <5>1, <5>2
            <4> QED
                BY <4>3, <4>4
        <3> QED
            BY <2>2, <2>4, <2>5, <3>2, <3>3, <3>4 DEF IInv
    <2> QED
        BY <1>3, <2>6, <2>7 DEF Verify
<1>4. ASSUME NEW t \in tokens, NEW old \in Passwords, NEW new \in Passwords,
             ChangePassword(h, t, old, new)
      PROVE  IInv'
    <2>1. PICK i \in Named(t.sub) :
             job' = [job EXCEPT ![h] = [Idle EXCEPT !.pc = "password", !.id = i,
                                                    !.hash = new]]
        BY <1>4 DEF ChangePassword
    <2> DEFINE r == [Idle EXCEPT !.pc = "password", !.id = i, !.hash = new]
    <2>2. i \in Ids
        BY DEF Named, Rows
    <2>3. r \in Job /\ LocalsOK(r) /\ r.pc = "password"
        BY <2>2 DEF Idle, Job, LocalsOK
    <2>4. UNCHANGED <<admins, used, tokens, fails, granted>>
        BY <1>4 DEF ChangePassword
    <2>5. job' = [job EXCEPT ![h] = r]
        BY <2>1
    <2> HIDE DEF r
    <2> QED
        BY <2>3, <2>4, <2>5, Quiet
<1>5. CASE SetAdminPassword(h)
    <2>1. job' = [job EXCEPT ![h] = Idle] /\ UNCHANGED <<used, tokens, fails, granted>>
        BY <1>5 DEF SetAdminPassword, Done
    <2>2. job[h].id \in Ids /\ job[h].hash \in Passwords
        BY <1>0, <1>5 DEF SetAdminPassword, LocalsOK
    <2>3. admins \in [Ids -> Admin \cup {None}] /\ used \in SUBSET Ids
          /\ granted \in [Ids -> SUBSET Roles]
        BY DEF IInv, TypeOK
    <2>4. CASE admins' = admins
        BY <2>1, <2>3, <2>4, Written DEF IInv, Grows, RowsGranted
    <2>5. CASE /\ admins[job[h].id] # None
               /\ admins' = [admins EXCEPT ![job[h].id].hash = job[h].hash]
        <3>1. admins[job[h].id] \in Admin
            BY <2>2, <2>3, <2>5
        <3>2. admins' \in [Ids -> Admin \cup {None}]
            BY <2>2, <2>3, <2>5, <3>1 DEF Admin
        <3>3. RowsGranted'
            BY <2>1, <2>2, <2>3, <2>5, <3>1 DEF RowsGranted, IInv, Admin
        <3> QED
            BY <2>1, <2>3, <3>2, <3>3, Written DEF Grows
    <2> QED
        BY <1>5, <2>4, <2>5 DEF SetAdminPassword
<1> QED
    BY <1>1, <1>2, <1>3, <1>4, <1>5 DEF SessionStep

\* Sessions expire and failed logins grow old.
LEMMA TimeInv ==
    ASSUME IInv, (\E t \in tokens : Expire(t)) \/ (\E ip \in IPs : Minute(ip))
    PROVE  IInv'
<1>1. UNCHANGED <<admins, used, granted, job>> /\ tokens' \subseteq tokens
    BY DEF Expire, Minute
<1>2. \A a \in IPs : fails'[a] \in Nat /\ fails'[a] <= fails[a]
    BY DEF IInv, TypeOK, Expire, Minute
<1>3. fails' \in [IPs -> Nat]
    BY DEF IInv, TypeOK, Expire, Minute
<1>4. TypeOK'
    BY <1>1, <1>3 DEF IInv, TypeOK
<1>5. LocalsInv' /\ RowsGranted' /\ LoginGranted'
    BY <1>1 DEF IInv, LocalsInv, RowsGranted, LoginGranted
<1>6. TokenRoleGranted'
    BY <1>1, TokenStep DEF IInv, Grows
<1>7. FailsInv'
    <2> SUFFICES ASSUME NEW a \in IPs
                 PROVE  fails'[a] + Cardinality(Trying(a)')
                            <= MaxFails + Cardinality(Handlers) - 1
        BY DEF FailsInv
    <2>1. Trying(a)' = Trying(a)
        BY <1>1 DEF Trying
    <2>2. fails[a] + Cardinality(Trying(a)) <= MaxFails + Cardinality(Handlers) - 1
        BY DEF IInv, FailsInv
    <2>3. fails[a] \in Nat
        BY DEF IInv, TypeOK
    <2> QED
        BY <1>2, <2>1, <2>2, <2>3, TryingFinite, LimitAssumption
<1> QED
    BY <1>4, <1>5, <1>6, <1>7 DEF IInv

\* The invariant holds at the start.
LEMMA InitInv == Init => IInv
<1> SUFFICES ASSUME Init PROVE IInv
    OBVIOUS
<1>1. job \in [Handlers -> Job] /\ \A h \in Handlers : job[h] = Idle
    BY IdleOK DEF Init
<1>2. TypeOK
    BY <1>1 DEF Init, TypeOK
<1>3. LocalsInv
    BY <1>1, IdleOK DEF LocalsInv
<1>4. RowsGranted /\ TokenRoleGranted
    BY DEF Init, RowsGranted, TokenRoleGranted
<1>5. LoginGranted
    BY <1>1 DEF LoginGranted, Idle
<1>6. FailsInv
    <2> SUFFICES ASSUME NEW a \in IPs
                 PROVE  fails[a] + Cardinality(Trying(a))
                            <= MaxFails + Cardinality(Handlers) - 1
        BY DEF FailsInv
    <2>1. Trying(a) = {}
        BY <1>1 DEF Trying, Idle
    <2>2. Cardinality(Trying(a)) = 0 /\ fails[a] = 0
        BY <2>1, FS_EmptySet DEF Init
    <2> QED
        BY <2>2, TryingFinite, LimitAssumption
<1> QED
    BY <1>2, <1>3, <1>4, <1>5, <1>6 DEF IInv

\* Every step keeps the invariant.
LEMMA StepInv == IInv /\ [Next]_vars => IInv'
<1> SUFFICES ASSUME IInv, [Next]_vars PROVE IInv'
    OBVIOUS
<1>1. CASE Next
    BY <1>1, SetupStepInv, SessionStepInv, UserStepInv, TimeInv DEF Next, Step
<1>2. CASE UNCHANGED vars
    BY <1>2 DEF vars, IInv, TypeOK, LocalsInv, RowsGranted, LoginGranted,
                TokenRoleGranted, FailsInv, Trying
<1> QED
    BY <1>1, <1>2

\* The inductive invariant holds of every behaviour.
THEOREM AccountsInductive == Spec => []IInv
<1> QED
    BY InitInv, StepInv, PTL DEF Spec

\* A session of handleLogin carries a role that its account had, for any number
\* of concurrent logins, role changes and deletions.
THEOREM SessionRoles == Spec => []TokenRoleGranted
<1>1. IInv => TokenRoleGranted
    BY DEF IInv
<1> QED
    BY <1>1, AccountsInductive, PTL

\* Concurrent logins exceed the limit of Auth.Allow by less than their number.
THEOREM LoginLimit == Spec => []FailsBounded
<1>1. IInv => FailsBounded
    <2> SUFFICES ASSUME IInv, NEW a \in IPs
                 PROVE  fails[a] <= MaxFails + Cardinality(Handlers) - 1
        BY DEF FailsBounded
    <2>1. fails[a] + Cardinality(Trying(a)) <= MaxFails + Cardinality(Handlers) - 1
          /\ fails[a] \in Nat
        BY DEF IInv, FailsInv, TypeOK
    <2> QED
        BY <2>1, TryingFinite, LimitAssumption
<1> QED
    BY <1>1, AccountsInductive, PTL

---------------------------------------------------------------------------
(* Owners remain, while requests come one at a time.                       *)

\* A step of a handler that has, or begins, a request: nobody else has one.
LEMMA Alone ==
    ASSUME OwnerInv, ~crowded, ~crowded', Watch, NEW g \in Handlers, NEW r,
           job' = [job EXCEPT ![g] = r], job[g].pc # "idle" \/ r.pc # "idle"
    PROVE  /\ job'[g] = r
           /\ \A h \in Handlers \ {g} : job'[h].pc = "idle" /\ job'[h] = job[h]
           /\ \A e, h \in Handlers : e # h => job'[e].pc = "idle" \/ job'[h].pc = "idle"
<1>1. job'[g] = r /\ \A h \in Handlers \ {g} : job'[h] = job[h]
    BY DEF OwnerInv, IInv, TypeOK
<1>2. \A e, h \in Handlers : e # h => job'[e].pc = "idle" \/ job'[h].pc = "idle"
    BY DEF Watch
<1>3. \A h \in Handlers \ {g} : job'[h].pc = "idle"
    BY <1>1, <1>2 DEF OwnerInv, AloneInv
<1> QED
    BY <1>1, <1>2, <1>3

\* A step that gives one handler new locals and leaves the accounts alone.
LEMMA AloneMoves ==
    ASSUME OwnerInv, Watch, NEW g \in Handlers, NEW r,
           job' = [job EXCEPT ![g] = r], job[g].pc # "idle" \/ r.pc # "idle",
           UNCHANGED <<admins, used>>,
           \A t \in tokens' : t.uid \in used,
           r.pc = "verify" /\ r.id # None => r.id \in used,
           ~crowded =>
             /\ r.pc = "setup" => used = {}
             /\ r.pc \in {"count", "update", "delete"} => r.id \in Rows
             /\ \/ r.pc = "delete" \/ (r.pc = "update" /\ r.role # "owner")
                => (r.id \in Owners => \E i \in Owners : i # r.id)
    PROVE  UsedInv' /\ AloneInv'
<1>1. Rows' = Rows /\ Owners' = Owners
    BY DEF Rows, Owners
<1>2. job'[g] = r /\ \A h \in Handlers \ {g} : job'[h] = job[h]
    BY DEF OwnerInv, IInv, TypeOK
<1>3. UsedInv'
    BY <1>1, <1>2 DEF OwnerInv, UsedInv
<1>4. ASSUME ~crowded' PROVE AloneInv'
    <2>1. ~crowded
        BY <1>4 DEF Watch
    <2>2. /\ \A h \in Handlers \ {g} : job'[h].pc = "idle"
          /\ \A e, h \in Handlers : e # h => job'[e].pc = "idle" \/ job'[h].pc = "idle"
        BY <1>4, <2>1, Alone
    <2>3. used' # {} => Owners' # {}
        BY <1>1, <2>1 DEF OwnerInv, AloneInv
    <2>4. ASSUME NEW h \in Handlers
          PROVE  /\ job'[h].pc = "setup" => used' = {}
                 /\ job'[h].pc \in {"count", "update", "delete"} => job'[h].id \in Rows'
                 /\ \/ job'[h].pc = "delete" \/ (job'[h].pc = "update" /\ job'[h].role # "owner")
                    => Spared(h)'
        <3>1. CASE h = g
            BY <1>1, <1>2, <2>1, <3>1 DEF Spared
        <3>2. CASE h # g
            BY <2>2, <3>2
        <3> QED
            BY <3>1, <3>2
    <2> QED
        BY <2>2, <2>3, <2>4 DEF AloneInv
<1> QED
    BY <1>3, <1>4 DEF AloneInv

\* A step that ends the request of a handler and writes the accounts, leaving
\* an owner.
LEMMA AloneWrites ==
    ASSUME OwnerInv, Watch, NEW g \in Handlers, job[g].pc # "idle",
           job' = [job EXCEPT ![g] = Idle], tokens' = tokens,
           used \subseteq used', Rows' \subseteq used',
           ~crowded => Owners' # {}
    PROVE  UsedInv' /\ AloneInv'
<1>0. Idle.pc = "idle"
    BY DEF Idle
<1>1. job'[g] = Idle /\ \A h \in Handlers \ {g} : job'[h] = job[h]
    BY DEF OwnerInv, IInv, TypeOK
<1>2. UsedInv'
    BY <1>0, <1>1 DEF OwnerInv, UsedInv
<1>3. ASSUME ~crowded' PROVE AloneInv'
    <2>1. ~crowded
        BY <1>3 DEF Watch
    <2>2. \A h \in Handlers : job'[h].pc = "idle"
        BY <1>0, <1>1, <1>3, <2>1, Alone
    <2> QED
        BY <2>1, <2>2 DEF AloneInv
<1> QED
    BY <1>2, <1>3 DEF AloneInv

\* What an insertion does to the rows and the owners.
LEMMA InsertedRows ==
    ASSUME OwnerInv, NEW n \in Names, NEW p \in Passwords, NEW r \in Roles,
           CreateAdminRole(n, p, r)
    PROVE  /\ used \subseteq used' /\ used' # {} /\ Rows' \subseteq used'
           /\ Rows \subseteq Rows' /\ Owners \subseteq Owners'
           /\ \A i \in Rows : i \in Owners' => i \in Owners
           /\ r = "owner" => Owners' # {}
<1>1. PICK i \in Ids \ used :
         /\ admins' = [admins EXCEPT ![i] = [name |-> n, hash |-> p, role |-> r]]
         /\ used' = used \cup {i}
    BY DEF CreateAdminRole
<1>2. admins \in [Ids -> Admin \cup {None}] /\ Rows \subseteq used
    BY DEF OwnerInv, IInv, TypeOK, UsedInv
<1>3. [name |-> n, hash |-> p, role |-> r] \in Admin
    BY DEF Admin
<1>4. [name |-> n, hash |-> p, role |-> r] # None
    BY <1>3, NoneAssumption
<1>5. /\ admins'[i] # None /\ admins'[i].role = r
      /\ \A j \in Ids \ {i} : admins'[j] = admins[j]
    BY <1>1, <1>2, <1>4
<1>6. admins[i] = None
    BY <1>2 DEF Rows
<1>7. Rows' = Rows \cup {i}
    BY <1>5 DEF Rows
<1> QED
    BY <1>1, <1>2, <1>5, <1>6, <1>7 DEF Owners, Rows

LEMMA OwnerStep ==
    ASSUME OwnerInv, Next
    PROVE  UsedInv' /\ AloneInv'
<1>w. Watch
    BY DEF Next
<1>t. /\ job \in [Handlers -> Job] /\ admins \in [Ids -> Admin \cup {None}]
      /\ Rows \subseteq used /\ \A t \in tokens : t.uid \in used
    BY DEF OwnerInv, IInv, TypeOK, UsedInv
<1>l. \A h \in Handlers : LocalsOK(job[h]) /\ job[h] \in Job
    BY <1>t DEF OwnerInv, IInv, LocalsInv
<1>i. Idle.pc = "idle" /\ Idle.id = None
    BY DEF Idle
<1>1. ASSUME NEW h \in Handlers, NEW n \in Names, NEW p \in Passwords, Setup(h, n, p)
      PROVE  UsedInv' /\ AloneInv'
    <2> DEFINE r == [Idle EXCEPT !.pc = "setup", !.name = n, !.hash = p]
    <2>1. r.pc = "setup"
        BY DEF Idle
    <2>2. /\ job' = [job EXCEPT ![h] = r] /\ UNCHANGED <<admins, used, tokens>> /\ Rows = {}
        BY <1>1 DEF Setup
    <2>3. ~crowded => used = {}
        BY <2>2 DEF OwnerInv, AloneInv, Owners
    <2> HIDE DEF r
    <2> QED
        BY <1>w, <1>t, <2>1, <2>2, <2>3, AloneMoves
<1>2. ASSUME NEW h \in Handlers, CreateAdmin(h) PROVE UsedInv' /\ AloneInv'
    <2>1. job[h].pc = "setup" /\ job' = [job EXCEPT ![h] = Idle] /\ UNCHANGED tokens
        BY <1>2 DEF CreateAdmin, Done
    <2>2. job[h].name \in Names /\ job[h].hash \in Passwords
        BY <1>l, <2>1 DEF LocalsOK
    <2>3. CASE CreateAdminRole(job[h].name, job[h].hash, "owner")
        BY <1>w, <2>1, <2>2, <2>3, InsertedRows, AloneWrites, RolesAssumption
    <2>4. CASE Unchanged
        <3>1. UNCHANGED <<admins, used>>
            BY <2>4 DEF Unchanged
        <3> QED
            BY <1>w, <1>t, <1>i, <2>1, <3>1, AloneMoves
    <2> QED
        BY <1>2, <2>3, <2>4 DEF CreateAdmin
<1>3. ASSUME NEW h \in Handlers, NEW ip \in IPs, NEW n \in Names, NEW p \in Passwords,
             Login(h, ip, n, p)
      PROVE  UsedInv' /\ AloneInv'
    <2> DEFINE r == [Idle EXCEPT !.pc = "lookup", !.name = n, !.hash = p, !.ip = ip]
    <2>1. r.pc = "lookup"
        BY DEF Idle
    <2>2. job' = [job EXCEPT ![h] = r] /\ UNCHANGED <<admins, used, tokens>>
        BY <1>3 DEF Login
    <2> HIDE DEF r
    <2> QED
        BY <1>w, <1>t, <2>1, <2>2, AloneMoves
<1>4. ASSUME NEW h \in Handlers, Lookup(h) PROVE UsedInv' /\ AloneInv'
    <2>1. job[h].pc = "lookup" /\ UNCHANGED <<admins, used, tokens>> /\ job[h].id = None
        BY <1>4, <1>l DEF Lookup, LocalsOK
    <2>2. ASSUME NEW i \in Named(job[h].name),
                 job' = [job EXCEPT ![h] = [job[h] EXCEPT !.pc = "verify", !.id = i,
                                                !.role = admins[i].role,
                                                !.read = admins[i].hash]]
          PROVE  UsedInv' /\ AloneInv'
        <3> DEFINE r == [job[h] EXCEPT !.pc = "verify", !.id = i, !.role = admins[i].role,
                                       !.read = admins[i].hash]
        <3>1. r.pc = "verify" /\ r.id = i
            BY <1>l DEF Job
        <3>2. i \in used
            BY <1>t DEF Named
        <3>3. job' = [job EXCEPT ![h] = r]
            BY <2>2
        <3> HIDE DEF r
        <3> QED
            BY <1>w, <1>t, <2>1, <3>1, <3>2, <3>3, AloneMoves
    <2>3. CASE job' = [job EXCEPT ![h] = [job[h] EXCEPT !.pc = "verify"]]
        <3> DEFINE r == [job[h] EXCEPT !.pc = "verify"]
        <3>1. r.pc = "verify" /\ r.id = None
            BY <1>l, <2>1 DEF Job
        <3>2. job' = [job EXCEPT ![h] = r]
            BY <2>3
        <3> HIDE DEF r
        <3> QED
            BY <1>w, <1>t, <2>1, <3>1, <3>2, AloneMoves
    <2> QED
        BY <1>4, <2>2, <2>3 DEF Lookup
<1>5. ASSUME NEW h \in Handlers, Verify(h) PROVE UsedInv' /\ AloneInv'
    <2>1. job[h].pc = "verify" /\ job' = [job EXCEPT ![h] = Idle] /\ UNCHANGED <<admins, used>>
        BY <1>5 DEF Verify, Done
    <2>2. \A t \in tokens' : t \in tokens \/ (t.uid = job[h].id /\ job[h].id # None)
        BY <1>5 DEF Verify, Verified, IssueRole
    <2>3. job[h].id # None => job[h].id \in used
        BY <2>1 DEF OwnerInv, UsedInv
    <2> QED
        BY <1>w, <1>t, <1>i, <2>1, <2>2, <2>3, AloneMoves
<1>6. ASSUME NEW h \in Handlers, NEW t \in tokens, NEW old \in Passwords, NEW new \in Passwords,
             ChangePassword(h, t, old, new)
      PROVE  UsedInv' /\ AloneInv'
    <2>1. PICK i \in Named(t.sub) :
             job' = [job EXCEPT ![h] = [Idle EXCEPT !.pc = "password", !.id = i, !.hash = new]]
        BY <1>6 DEF ChangePassword
    <2> DEFINE r == [Idle EXCEPT !.pc = "password", !.id = i, !.hash = new]
    <2>2. r.pc = "password"
        BY DEF Idle
    <2>3. job' = [job EXCEPT ![h] = r] /\ UNCHANGED <<admins, used, tokens>>
        BY <1>6, <2>1 DEF ChangePassword
    <2> HIDE DEF r
    <2> QED
        BY <1>w, <1>t, <2>2, <2>3, AloneMoves
<1>7. ASSUME NEW h \in Handlers, SetAdminPassword(h) PROVE UsedInv' /\ AloneInv'
    <2>1. job[h].pc = "password" /\ job' = [job EXCEPT ![h] = Idle] /\ UNCHANGED <<used, tokens>>
        BY <1>7 DEF SetAdminPassword, Done
    <2> DEFINE i == job[h].id
    <2>2. i \in Ids /\ job[h].hash \in Passwords
        BY <1>l, <2>1 DEF LocalsOK
    <2>3. CASE admins' = admins
        BY <1>w, <1>t, <1>i, <2>1, <2>3, AloneMoves
    <2>4. CASE admins[i] # None /\ admins' = [admins EXCEPT ![i] = [admins[i] EXCEPT !.hash = job[h].hash]]
        <3>1. admins[i] \in Admin
            BY <1>t, <2>2, <2>4
        <3> DEFINE a == [admins[i] EXCEPT !.hash = job[h].hash]
        <3>2. a \in Admin /\ a.role = admins[i].role
            BY <2>2, <3>1 DEF Admin
        <3>3. admins' = [admins EXCEPT ![i] = a]
            BY <2>4
        <3> HIDE DEF a, i
        <3>4. Rows' = Rows /\ Owners' = Owners
            BY <1>t, <2>2, <2>4, <3>2, <3>3, NoneAssumption DEF Rows, Owners
        <3>5. i \in Rows
            BY <2>2, <2>4 DEF Rows
        <3>6. ~crowded => Owners # {}
            BY <1>t, <3>5 DEF OwnerInv, AloneInv
        <3> QED
            BY <1>w, <1>t, <2>1, <3>4, <3>6, AloneWrites
    <2> QED
        BY <1>7, <2>3, <2>4 DEF SetAdminPassword
<1>8. ASSUME NEW h \in Handlers, NEW t \in tokens, NEW n \in Names, NEW p \in Passwords,
             NEW r \in Roles, CreateUser(h, t, n, p, r)
      PROVE  UsedInv' /\ AloneInv'
    <2>1. CreateAdminRole(n, p, r) /\ UNCHANGED <<tokens, job>>
        BY <1>8 DEF CreateUser
    <2>2. used # {}
        BY <1>t
    <2>3. /\ used \subseteq used' /\ Rows' \subseteq used'
          /\ Rows \subseteq Rows' /\ Owners \subseteq Owners'
          /\ \A i \in Rows : i \in Owners' => i \in Owners
        BY <2>1, InsertedRows
    <2>4. UsedInv'
        BY <2>1, <2>3 DEF OwnerInv, UsedInv
    <2>5. ASSUME ~crowded' PROVE AloneInv'
        <3>1. ~crowded
            BY <1>w, <2>5 DEF Watch
        <3>2. /\ \A g \in Handlers : job[g].pc # "setup"
              /\ Owners # {}
            BY <2>2, <3>1 DEF OwnerInv, AloneInv
        <3>3. \A g \in Handlers : job[g].pc \in {"count", "update", "delete"} =>
                  /\ job[g].id \in Rows
                  /\ Spared(g) => Spared(g)'
            BY <2>1, <2>3, <3>1 DEF OwnerInv, AloneInv, Spared
        <3> QED
            BY <2>1, <2>3, <3>1, <3>2, <3>3 DEF OwnerInv, AloneInv
    <2> QED
        BY <2>4, <2>5 DEF AloneInv
<1>9. ASSUME NEW h \in Handlers, NEW t \in tokens, NEW op \in {"update", "delete"},
             NEW i \in Ids, NEW r \in Roles \cup {None}, ReadTarget(h, t, op, i, r)
      PROVE  UsedInv' /\ AloneInv'
    <2> DEFINE l == IF admins[i].role = "owner" /\ r # "owner" THEN "count" ELSE op
               j == [Idle EXCEPT !.pc = l, !.op = op, !.id = i, !.role = r]
    <2>1. j.pc = l /\ j.id = i /\ j.role = r
        BY DEF Idle
    <2>2. job' = [job EXCEPT ![h] = j] /\ UNCHANGED <<admins, used, tokens>>
        BY <1>9 DEF ReadTarget
    <2>3. i \in Rows /\ (op = "delete" => r # "owner")
        BY <1>9, NoneAssumption, RolesAssumption DEF ReadTarget, Rows
    <2>4. /\ l \in {"count", "update", "delete"}
          /\ l = "delete" \/ (l = "update" /\ r # "owner") => i \notin Owners
        BY <2>3 DEF Owners
    <2> HIDE DEF l, j
    <2> QED
        BY <1>w, <1>t, <2>1, <2>2, <2>3, <2>4, AloneMoves
<1>10. ASSUME NEW h \in Handlers, CountOwners(h) PROVE UsedInv' /\ AloneInv'
    <2>1. job[h].pc = "count" /\ UNCHANGED <<admins, used, tokens>>
        BY <1>10 DEF CountOwners
    <2>2. CASE job' = [job EXCEPT ![h] = Idle]
        BY <1>w, <1>t, <1>i, <2>1, <2>2, AloneMoves
    <2>3. CASE ~(Cardinality(Owners) <= 1) /\ job' = [job EXCEPT ![h] = [job[h] EXCEPT !.pc = job[h].op]]
        <3> DEFINE r == [job[h] EXCEPT !.pc = job[h].op]
        <3>1. r.pc = job[h].op /\ r.id = job[h].id /\ r.pc \in {"update", "delete"}
            BY <1>l, <2>1 DEF Job, LocalsOK
        <3>2. ~crowded => job[h].id \in Rows
            BY <2>1 DEF OwnerInv, AloneInv
        <3>3. \E i \in Owners : i # job[h].id
            <4> SUFFICES ASSUME Owners \subseteq {job[h].id} PROVE FALSE
                OBVIOUS
            <4>1. Owners = {} \/ Owners = {job[h].id}
                OBVIOUS
            <4>2. Cardinality(Owners) = 0 \/ Cardinality(Owners) = 1
                BY <4>1, FS_EmptySet, FS_Singleton
            <4> QED
                BY <2>3, <4>2
        <3>4. job' = [job EXCEPT ![h] = r]
            BY <2>3
        <3> HIDE DEF r
        <3> QED
            BY <1>w, <1>t, <2>1, <3>1, <3>2, <3>3, <3>4, AloneMoves
    <2> QED
        BY <1>10, <2>2, <2>3 DEF CountOwners
<1>11. ASSUME NEW h \in Handlers, SetAdminRole(h) PROVE UsedInv' /\ AloneInv'
    <2> DEFINE i == job[h].id
    <2>1. job[h].pc = "update" /\ job' = [job EXCEPT ![h] = Idle] /\ UNCHANGED <<used, tokens>>
        BY <1>11 DEF SetAdminRole, Done
    <2>2. i \in Ids /\ job[h].role \in Roles
        BY <1>l, <2>1 DEF LocalsOK
    <2>3. CASE admins' = admins
        BY <1>w, <1>t, <1>i, <2>1, <2>3, AloneMoves
    <2>4. CASE admins[i] # None /\ admins' = [admins EXCEPT ![i] = [admins[i] EXCEPT !.role = job[h].role]]
        <3>1. admins[i] \in Admin /\ i \in Rows
            BY <1>t, <2>2, <2>4 DEF Rows
        <3> DEFINE a == [admins[i] EXCEPT !.role = job[h].role]
        <3>2. a \in Admin /\ a.role = job[h].role
            BY <2>2, <3>1 DEF Admin
        <3>3. admins' = [admins EXCEPT ![i] = a] /\ a # None
            BY <2>4, <3>2, NoneAssumption
        <3> HIDE DEF a
        <3>4. Rows' = Rows /\ \A j \in Owners : j # i => j \in Owners'
            BY <1>t, <2>2, <2>4, <3>3 DEF Rows, Owners
        <3>5. job[h].role = "owner" => i \in Owners'
            BY <1>t, <2>2, <3>2, <3>3 DEF Rows, Owners
        <3>6. ~crowded => Owners # {} /\ (job[h].role # "owner" => Spared(h))
            BY <1>t, <2>1, <3>1 DEF OwnerInv, AloneInv
        <3>7. ~crowded => Owners' # {}
            BY <3>4, <3>5, <3>6 DEF Spared
        <3> QED
            BY <1>w, <1>t, <2>1, <3>4, <3>7, AloneWrites
    <2> QED
        BY <1>11, <2>3, <2>4 DEF SetAdminRole
<1>12. ASSUME NEW h \in Handlers, DeleteAdmin(h) PROVE UsedInv' /\ AloneInv'
    <2> DEFINE i == job[h].id
    <2>1. job[h].pc = "delete" /\ job' = [job EXCEPT ![h] = Idle] /\ UNCHANGED <<used, tokens>>
        BY <1>12 DEF DeleteAdmin, Done
    <2>2. i \in Ids /\ admins' = [admins EXCEPT ![i] = None]
        BY <1>12, <1>l, <2>1 DEF LocalsOK, DeleteAdmin
    <2>3. Rows' \subseteq Rows /\ \A j \in Owners : j # i => j \in Owners'
        BY <1>t, <2>2 DEF Rows, Owners
    <2>4. ~crowded => i \in Rows /\ Owners # {} /\ Spared(h)
        BY <1>t, <2>1 DEF OwnerInv, AloneInv
    <2>5. ~crowded => Owners' # {}
        BY <2>3, <2>4 DEF Spared
    <2> QED
        BY <1>w, <1>t, <2>1, <2>3, <2>5, AloneWrites
<1>13. CASE (\E t \in tokens : Expire(t)) \/ (\E ip \in IPs : Minute(ip))
    <2>1. UNCHANGED <<admins, used, job>> /\ tokens' \subseteq tokens
        BY <1>13 DEF Expire, Minute
    <2>2. ~crowded' => ~crowded
        BY <1>w DEF Watch
    <2> QED
        BY <2>1, <2>2 DEF OwnerInv, UsedInv, AloneInv, Rows, Owners, Spared
<1> QED
    BY <1>1, <1>2, <1>3, <1>4, <1>5, <1>6, <1>7, <1>8, <1>9, <1>10, <1>11, <1>12, <1>13
       DEF Next, Step, SetupStep, SessionStep, UserStep

LEMMA OwnersInductive == Spec => []OwnerInv
<1>1. ASSUME Init PROVE OwnerInv
    <2>1. Rows = {} /\ used = {} /\ tokens = {} /\ \A h \in Handlers : job[h].pc = "idle"
        BY <1>1 DEF Init, Rows, Idle
    <2> QED
        BY <1>1, <2>1, InitInv DEF OwnerInv, UsedInv, AloneInv
<1>2. ASSUME OwnerInv, [Next]_vars PROVE OwnerInv'
    <2>1. IInv'
        BY <1>2, StepInv DEF OwnerInv
    <2>2. CASE UNCHANGED vars
        BY <1>2, <2>1, <2>2 DEF vars, OwnerInv, UsedInv, AloneInv, Rows, Owners, Spared
    <2>3. CASE Next
        BY <1>2, <2>1, <2>3, OwnerStep DEF OwnerInv
    <2> QED
        BY <1>2, <2>2, <2>3
<1> QED
    BY <1>1, <1>2, PTL DEF Spec

\* The table, the sessions and the locals of every handler keep their types,
\* for any number of requests at once.
THEOREM AccountsTyped == Spec => []TypeOK
<1>1. IInv => TypeOK
    BY DEF IInv
<1> QED
    BY <1>1, AccountsInductive, PTL

\* The guards of handleUpdateUser and handleDeleteUser keep an owner as long as
\* requests come one at a time, whatever sequence of them came before.
THEOREM OwnersRemain == Spec => []OwnerRemains
<1>1. OwnerInv => OwnerRemains
    BY DEF OwnerInv, UsedInv, AloneInv, OwnerRemains
<1> QED
    BY <1>1, OwnersInductive, PTL

\* handleSetup makes the first account and no other one, as long as requests
\* come one at a time: while it hashes the password nobody else can have a
\* session to create a user with.
THEOREM SetupOnlyFirst == Spec => SetupFirst
<1>1. OwnerInv /\ [Next]_vars =>
        [\A h \in Handlers : job[h].pc = "setup" /\ used' # used /\ ~crowded => Rows = {}]_vars
    BY DEF OwnerInv, UsedInv, AloneInv
<1> QED
    BY <1>1, OwnersInductive, PTL DEF Spec, SetupFirst
=============================================================================
