------------------------------ MODULE Accounts ------------------------------
(***************************************************************************)
(* The panel's accounts, sessions and login limit: internal/api/users.go,  *)
(* auth_handlers.go and auth.go over the table admins.                     *)
(*                                                                         *)
(* The handlers read a row, decide and write in separate statements, and   *)
(* nothing is held between them.  A session token carries the role its     *)
(* account had when the login read it.                                     *)
(*                                                                         *)
(* Data abstraction: names are the trimmed lower-case ones, a password     *)
(* stands for its hash, and the failed logins of an address are the number *)
(* of those younger than a minute.                                         *)
(***************************************************************************)
EXTENDS Naturals, FiniteSets

CONSTANTS
    Ids,            \* ids of rows (AUTOINCREMENT: never used again)
    Names, Passwords,
    Roles,          \* the roles in use
    IPs,            \* addresses logins come from
    Handlers,       \* requests served at the same time
    None,
    MaxFails,       \* failed logins a minute and address (5 in the code)
    MaxTokens       \* bound on the sessions alive at once

VARIABLES
    admins,         \* the table admins
    used,           \* ids given out so far
    tokens,         \* sessions that have not expired
    fails,          \* Auth.failIPs
    granted,        \* history: the roles each account has had
    job,            \* the locals of every handler
    crowded         \* history: two requests have been under way at once

vars == <<admins, used, tokens, fails, granted, job, crowded>>

ASSUME RolesAssumption ==
    "owner" \in Roles /\ Roles \subseteq {"owner", "admin", "operator", "viewer"}
ASSUME HandlersAssumption == IsFiniteSet(Handlers) /\ Handlers # {}
ASSUME LimitAssumption == MaxFails \in Nat \ {0}

Admin == [name : Names, hash : Passwords, role : Roles]
Token == [uid : Ids, sub : Names, role : Roles]

ASSUME NoneAssumption == None \notin Ids /\ None \notin Roles /\ None \notin Admin

Job == [pc   : {"idle", "setup", "lookup", "verify", "count", "update",
                "delete", "password"},
        op   : {"none", "update", "delete"},
        id   : Ids \cup {None},
        name : Names \cup {None},
        hash : Passwords \cup {None},
        role : Roles \cup {None},           \* role to give, or role read
        read : Passwords \cup {None},       \* hash of the row login read
        ip   : IPs \cup {None}]

Idle == [pc |-> "idle", op |-> "none", id |-> None, name |-> None,
         hash |-> None, role |-> None, read |-> None, ip |-> None]

Init ==
    /\ admins = [i \in Ids |-> None]
    /\ used = {}
    /\ tokens = {}
    /\ fails = [a \in IPs |-> 0]
    /\ granted = [i \in Ids |-> {}]
    /\ job = [h \in Handlers |-> Idle]
    /\ crowded = FALSE

RoleRank(r) == CASE r = "owner" -> 4 [] r = "admin" -> 3
                 [] r = "operator" -> 2 [] r = "viewer" -> 1

RequireRole(t, min) == RoleRank(t.role) >= RoleRank(min)

Rows == {i \in Ids : admins[i] # None}
Named(n) == {i \in Rows : admins[i].name = n}
Owners == {i \in Rows : admins[i].role = "owner"}

Done(h) == job' = [job EXCEPT ![h] = Idle]

\* INSERT INTO admins: the name is UNIQUE.  No unused id is left at the bound.
CreateAdminRole(n, p, r) ==
    \E i \in Ids \ used :
        /\ Named(n) = {}
        /\ admins' = [admins EXCEPT ![i] = [name |-> n, hash |-> p, role |-> r]]
        /\ used' = used \cup {i}
        /\ granted' = [granted EXCEPT ![i] = @ \cup {r}]

Unchanged == UNCHANGED <<admins, used, granted>>

(***************************************************************************)
(* First-run setup.                                                        *)
(***************************************************************************)

\* Mutant: the accounts are not counted.
SetupAlways(h, n, p) ==
    /\ job[h].pc = "idle"
    /\ job' = [job EXCEPT ![h] = [Idle EXCEPT !.pc = "setup", !.name = n, !.hash = p]]
    /\ UNCHANGED <<admins, used, tokens, fails, granted>>

\* AdminCount, and the reading and hashing of the body.
Setup(h, n, p) ==
    /\ job[h].pc = "idle"
    /\ Rows = {}
    /\ job' = [job EXCEPT ![h] = [Idle EXCEPT !.pc = "setup", !.name = n, !.hash = p]]
    /\ UNCHANGED <<admins, used, tokens, fails, granted>>

\* CreateAdmin makes an owner, or fails on the name.
CreateAdmin(h) ==
    /\ job[h].pc = "setup"
    /\ \/ CreateAdminRole(job[h].name, job[h].hash, "owner")
       \/ (Named(job[h].name) # {} \/ used = Ids) /\ Unchanged
    /\ Done(h)
    /\ UNCHANGED <<tokens, fails>>

(***************************************************************************)
(* Login and sessions.                                                     *)
(***************************************************************************)

\* Mutant: one failure too many is allowed.
AllowOneMore(ip) == fails[ip] <= MaxFails

Allow(ip) == fails[ip] < MaxFails

Login(h, ip, n, p) ==
    /\ job[h].pc = "idle"
    /\ Allow(ip)
    /\ job' = [job EXCEPT ![h] = [Idle EXCEPT !.pc = "lookup", !.name = n,
                                              !.hash = p, !.ip = ip]]
    /\ UNCHANGED <<admins, used, tokens, fails, granted>>

\* GetAdminByUsername; without a row nothing has been read.
Lookup(h) ==
    /\ job[h].pc = "lookup"
    /\ \/ \E i \in Named(job[h].name) :
            job' = [job EXCEPT ![h] = [@ EXCEPT !.pc = "verify", !.id = i,
                                                !.role = admins[i].role,
                                                !.read = admins[i].hash]]
       \/ /\ Named(job[h].name) = {}
          /\ job' = [job EXCEPT ![h] = [@ EXCEPT !.pc = "verify"]]
    /\ UNCHANGED <<admins, used, tokens, fails, granted>>

Verified(h) == job[h].id # None /\ job[h].read = job[h].hash

\* Mutant: the token of Issue, which has the role owner.
Issue(h) == [uid |-> job[h].id, sub |-> job[h].name, role |-> "owner"]

IssueRole(h) == [uid |-> job[h].id, sub |-> job[h].name, role |-> job[h].role]

\* checkPassword, then the token or Auth.Fail.
Verify(h) ==
    /\ job[h].pc = "verify"
    /\ \/ /\ Verified(h)
          /\ Cardinality(tokens \cup {IssueRole(h)}) <= MaxTokens
          /\ tokens' = tokens \cup {IssueRole(h)}
          /\ UNCHANGED fails
       \/ /\ ~Verified(h)
          /\ fails' = [fails EXCEPT ![job[h].ip] = @ + 1]
          /\ UNCHANGED tokens
    /\ Done(h)
    /\ UNCHANGED <<admins, used, granted>>

\* A token is 24 hours old.
Expire(t) ==
    /\ t \in tokens
    /\ tokens' = tokens \ {t}
    /\ UNCHANGED <<admins, used, fails, granted, job>>

\* Mutant: an entry is dropped whether there is one or not.
MinuteAlways(ip) ==
    /\ fails' = [fails EXCEPT ![ip] = @ - 1]
    /\ UNCHANGED <<admins, used, tokens, granted, job>>

\* A failed login is a minute old; the next Allow drops it.
Minute(ip) ==
    /\ fails[ip] > 0
    /\ fails' = [fails EXCEPT ![ip] = @ - 1]
    /\ UNCHANGED <<admins, used, tokens, granted, job>>

\* handleChangePassword reads the row of the session's name and checks the old
\* password against it ...
ChangePassword(h, t, old, new) ==
    /\ job[h].pc = "idle"
    /\ t \in tokens
    /\ \E i \in Named(t.sub) :
         /\ admins[i].hash = old
         /\ job' = [job EXCEPT ![h] = [Idle EXCEPT !.pc = "password", !.id = i,
                                                   !.hash = new]]
    /\ UNCHANGED <<admins, used, tokens, fails, granted>>

\* ... and writes the new hash; a row that is gone is no error.
SetAdminPassword(h) ==
    /\ job[h].pc = "password"
    /\ admins' = IF admins[job[h].id] = None THEN admins
                 ELSE [admins EXCEPT ![job[h].id].hash = job[h].hash]
    /\ Done(h)
    /\ UNCHANGED <<used, tokens, fails, granted>>

(***************************************************************************)
(* User management, for owners.                                            *)
(***************************************************************************)

CreateUser(h, t, n, p, r) ==
    /\ job[h].pc = "idle"
    /\ t \in tokens /\ RequireRole(t, "owner")
    /\ CreateAdminRole(n, p, r)
    /\ UNCHANGED <<tokens, fails, job>>

\* GetAdminByID.  An owner who is to be one no longer must not be the last.
ReadTarget(h, t, op, i, r) ==
    /\ job[h].pc = "idle"
    /\ t \in tokens /\ RequireRole(t, "owner")
    /\ admins[i] # None
    /\ (op = "delete") <=> (r = None)
    /\ job' = [job EXCEPT ![h] =
                 [Idle EXCEPT !.pc = IF admins[i].role = "owner" /\ r # "owner"
                                     THEN "count" ELSE op,
                              !.op = op, !.id = i, !.role = r]]
    /\ UNCHANGED <<admins, used, tokens, fails, granted>>

\* Mutant: the guard counts accounts, not owners.
CountAdmins(h) ==
    /\ job[h].pc = "count"
    /\ job' = [job EXCEPT ![h] = IF Cardinality(Rows) <= 1 THEN Idle
                                 ELSE [job[h] EXCEPT !.pc = job[h].op]]
    /\ UNCHANGED <<admins, used, tokens, fails, granted>>

CountOwners(h) ==
    /\ job[h].pc = "count"
    /\ job' = [job EXCEPT ![h] = IF Cardinality(Owners) <= 1 THEN Idle
                                 ELSE [job[h] EXCEPT !.pc = job[h].op]]
    /\ UNCHANGED <<admins, used, tokens, fails, granted>>

SetAdminRole(h) ==
    /\ job[h].pc = "update"
    /\ \/ /\ admins[job[h].id] # None
          /\ admins' = [admins EXCEPT ![job[h].id].role = job[h].role]
          /\ granted' = [granted EXCEPT ![job[h].id] = @ \cup {job[h].role}]
       \/ admins[job[h].id] = None /\ UNCHANGED <<admins, granted>>
    /\ Done(h)
    /\ UNCHANGED <<used, tokens, fails>>

DeleteAdmin(h) ==
    /\ job[h].pc = "delete"
    /\ admins' = [admins EXCEPT ![job[h].id] = None]
    /\ Done(h)
    /\ UNCHANGED <<used, tokens, fails, granted>>

SetupStep(h) ==
    \/ \E n \in Names, p \in Passwords : Setup(h, n, p)
    \/ CreateAdmin(h)

SessionStep(h) ==
    \/ \E ip \in IPs, n \in Names, p \in Passwords : Login(h, ip, n, p)
    \/ Lookup(h)
    \/ Verify(h)
    \/ \E t \in tokens, old, new \in Passwords : ChangePassword(h, t, old, new)
    \/ SetAdminPassword(h)

UserStep(h) ==
    \/ \E t \in tokens, n \in Names, p \in Passwords, r \in Roles :
          CreateUser(h, t, n, p, r)
    \/ \E t \in tokens, i \in Ids, r \in Roles : ReadTarget(h, t, "update", i, r)
    \/ \E t \in tokens, i \in Ids : ReadTarget(h, t, "delete", i, None)
    \/ CountOwners(h)
    \/ SetAdminRole(h)
    \/ DeleteAdmin(h)

Step ==
    \/ \E h \in Handlers : SetupStep(h) \/ SessionStep(h) \/ UserStep(h)
    \/ \E t \in tokens : Expire(t)
    \/ \E ip \in IPs : Minute(ip)

Watch ==
    crowded' = (crowded \/ \E g, h \in Handlers :
                              g # h /\ job'[g].pc # "idle" /\ job'[h].pc # "idle")

Next == Step /\ Watch

Spec == Init /\ [][Next]_vars

(***************************************************************************)
(* Properties.                                                             *)
(***************************************************************************)

\* Every table, session and local has its type.
TypeOK ==
    /\ admins \in [Ids -> Admin \cup {None}]
    /\ used \in SUBSET Ids
    /\ tokens \in SUBSET Token
    /\ fails \in [IPs -> Nat]
    /\ granted \in [Ids -> SUBSET Roles]
    /\ job \in [Handlers -> Job]

\* Once there are accounts one of them is an owner: the guards of
\* handleUpdateUser and handleDeleteUser never lock everybody out of user
\* management, as long as requests come one at a time.
OwnerRemains == Rows # {} /\ ~crowded => Owners # {}

\* "An owner can only be demoted when another owner exists", whatever other
\* requests are under way.
SomeOwner == Rows # {} => Owners # {}

\* The setup wizard makes the first account and no other one (handleSetup), as
\* long as requests come one at a time.
SetupFirst ==
    [][\A h \in Handlers :
          job[h].pc = "setup" /\ used' # used /\ ~crowded => Rows = {}]_vars

\* A session never has a role its account was not given, whatever changes while
\* the login is under way (handleLogin, IssueRole).
TokenRoleGranted == \A t \in tokens : t.role \in granted[t.uid]

\* The failed logins of an address within a minute exceed the limit at most by
\* the logins that passed Allow together (Auth.Allow, Auth.Fail).
FailsBounded ==
    \A ip \in IPs : fails[ip] <= MaxFails + Cardinality(Handlers) - 1

(***************************************************************************)
(* The inductive invariant behind TokenRoleGranted and FailsBounded.       *)
(***************************************************************************)

\* What a handler has read or been given at each of its steps.
LocalsOK(j) ==
    /\ j.pc \in {"setup", "lookup", "verify"} => j.name \in Names /\ j.hash \in Passwords
    /\ j.pc \in {"lookup", "verify"} => j.ip \in IPs
    /\ j.pc = "lookup" => j.id = None
    /\ j.pc \in {"count", "update", "delete", "password"} => j.id \in Ids
    /\ j.pc = "password" => j.hash \in Passwords
    /\ j.pc = "count" => j.op \in {"update", "delete"}
    /\ j.pc = "update" \/ (j.pc = "count" /\ j.op = "update") => j.role \in Roles

LocalsInv == \A h \in Handlers : LocalsOK(job[h])

\* The role of a row, and the role a login has read, has been granted.
RowsGranted == \A i \in Ids : admins[i] # None => admins[i].role \in granted[i]
LoginGranted ==
    \A h \in Handlers : job[h].pc = "verify" /\ job[h].id # None
                            => job[h].role \in granted[job[h].id]

\* Every login that has passed Allow may still fail.
Trying(ip) ==
    {h \in Handlers : job[h].pc \in {"lookup", "verify"} /\ job[h].ip = ip}
FailsInv ==
    \A ip \in IPs :
        fails[ip] + Cardinality(Trying(ip)) <= MaxFails + Cardinality(Handlers) - 1

IInv == /\ TypeOK
        /\ LocalsInv
        /\ RowsGranted
        /\ LoginGranted
        /\ TokenRoleGranted
        /\ FailsInv

(***************************************************************************)
(* The inductive invariant behind OwnerRemains and SetupFirst.             *)
(***************************************************************************)

\* What rows, sessions and logins refer to has been given out.
UsedInv ==
    /\ Rows \subseteq used
    /\ \A t \in tokens : t.uid \in used
    /\ \A h \in Handlers : job[h].pc = "verify" /\ job[h].id # None
                             => job[h].id \in used

\* An owner who is about to be one no longer is not the last.
Spared(h) == job[h].id \in Owners => \E i \in Owners : i # job[h].id

\* While requests come one at a time nobody touches the row a request has read.
AloneInv ==
    ~crowded =>
        /\ \A g, h \in Handlers : g # h => job[g].pc = "idle" \/ job[h].pc = "idle"
        /\ used # {} => Owners # {}
        /\ \A h \in Handlers :
             /\ job[h].pc = "setup" => used = {}
             /\ job[h].pc \in {"count", "update", "delete"} => job[h].id \in Rows
             /\ \/ job[h].pc = "delete"
                \/ job[h].pc = "update" /\ job[h].role # "owner"
                => Spared(h)

OwnerInv == IInv /\ UsedInv /\ AloneInv
=============================================================================
