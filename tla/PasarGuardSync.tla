--------------------------- MODULE PasarGuardSync ---------------------------
(***************************************************************************)
(* The synchronisation of PasarGuard users (internal/api/ratelimit.go):    *)
(* SyncPasarGuardUsers fetches the panel's users, compares a fingerprint   *)
(* of them with the one it stored last, and otherwise writes every user in *)
(* one transaction and stores the fingerprint.  The background loop of     *)
(* cmd/server/main.go and POST /ratelimit/sync call it without a lock.     *)
(*                                                                         *)
(* A user is its UUID and a state.  The panel, its tokens and its          *)
(* certificate are external: they change by themselves.                    *)
(***************************************************************************)
EXTENDS Integers, TLC

CONSTANTS
    Uuids,        \* what the panel gives as UUIDs of its users
    BadUuids,     \* those of them that ValidUUID refuses
    Syncers,      \* the loop and the handlers that may run a sync
    MaxChanges,   \* bound: changes of the panel
    MaxFaults     \* bound: failed requests, failed writes and crashes

ASSUME SyncAssumption == BadUuids \subseteq Uuids

VARIABLES
    panel,       \* the panel's users: UUID -> state
    selfSigned,  \* whether its certificate fails verification
    creds,       \* whether username and password are set (settings)
    token,       \* pasarguard_token: "none", "good" or "stale" for the panel
    skipTLS,     \* pasarguard_skip_tls
    usersHash,   \* pasarguard_users_hash: the users fingerprinted, or NoHash
    users,       \* the table pasarguard_users: UUID -> state or "none"
    sync,        \* what each syncer does
    calm,        \* history: no sync has been interrupted after its writes,
                 \*   or overlapped with another
    changes, faults   \* bounds

syncVars == <<panel, selfSigned, creds, token, skipTLS, usersHash, users, sync,
              calm, changes, faults>>

\* effectiveState: (enabled, expired) is (TRUE, FALSE) or one of the others.
UserStates == {"active", "ended"}
NoHash == [u \in Uuids |-> "nohash"]
NoRows == [u \in Uuids |-> "none"]
Idle == [pc |-> "idle", token |-> "none", rows |-> NoRows]

\* The users a response lists, without those whose UUID is not valid.
Listed(users0) == [u \in Uuids |-> IF u \in BadUuids THEN "none" ELSE users0[u]]

SyncInit ==
    /\ panel \in [Uuids -> UserStates \cup {"none"}]
    /\ selfSigned \in BOOLEAN
    /\ creds \in BOOLEAN
    /\ token \in {"none", "good", "stale"}
    /\ skipTLS = FALSE
    /\ usersHash = NoHash
    /\ users = NoRows
    /\ sync = [s \in Syncers |-> Idle]
    /\ calm = TRUE
    /\ changes = 0
    /\ faults = 0

OtherSyncs(s) == {t \in Syncers \ {s} : sync[t].pc # "idle"}

\* A user is added, changed or removed on the panel.
PanelChange(u) ==
    /\ changes < MaxChanges
    /\ changes' = changes + 1
    /\ \E v \in (UserStates \cup {"none"}) \ {panel[u]} : panel' = [panel EXCEPT ![u] = v]
    /\ UNCHANGED <<selfSigned, creds, token, skipTLS, usersHash, users, sync, calm, faults>>

\* The panel stops accepting the tokens it has given out.
TokenExpire ==
    /\ changes < MaxChanges
    /\ token = "good"
    /\ changes' = changes + 1
    /\ token' = "stale"
    /\ sync' = [s \in Syncers |-> IF sync[s].token = "good"
                                  THEN [sync[s] EXCEPT !.token = "stale"] ELSE sync[s]]
    /\ UNCHANGED <<panel, selfSigned, creds, skipTLS, usersHash, users, calm, faults>>

\* The client is made from the settings.
Start(s) ==
    /\ sync[s].pc = "idle"
    /\ sync' = [sync EXCEPT ![s] = [Idle EXCEPT !.pc = "get", !.token = token]]
    /\ calm' = (calm /\ OtherSyncs(s) = {})
    /\ UNCHANGED <<panel, selfSigned, creds, token, skipTLS, usersHash, users, changes, faults>>

\* login: before the first request without a token, after a 401 or 403 with
\* one.  The new token goes into the settings.  A certificate that does not
\* verify is accepted from then on.
Login(s) ==
    /\ sync[s].pc = "get"
    /\ sync[s].token # "good"
    /\ creds
    /\ token' = "good"
    /\ skipTLS' = (skipTLS \/ selfSigned)
    /\ sync' = [sync EXCEPT ![s].token = "good"]
    /\ UNCHANGED <<panel, selfSigned, creds, usersHash, users, calm, changes, faults>>

\* get, with either shape of the answer.
Get(s) ==
    /\ sync[s].pc = "get"
    /\ sync[s].token = "good"
    /\ skipTLS' = (skipTLS \/ selfSigned)
    /\ sync' = [sync EXCEPT ![s].pc = "compare", ![s].rows = Listed(panel)]
    /\ UNCHANGED <<panel, selfSigned, creds, token, usersHash, users, calm, changes, faults>>

\* Without a token and a login, or when a request fails, the sync ends with an
\* error.
GetFail(s) ==
    /\ sync[s].pc = "get"
    /\ \/ ~creds /\ sync[s].token # "good" /\ UNCHANGED faults
       \/ faults < MaxFaults /\ faults' = faults + 1
    /\ sync' = [sync EXCEPT ![s] = Idle]
    /\ UNCHANGED <<panel, selfSigned, creds, token, skipTLS, usersHash, users, calm, changes>>

\* Mutant: the fingerprint is stored before the rows: one setting write too early.
CompareStores(s) ==
    /\ sync[s].pc = "compare"
    /\ sync' = [sync EXCEPT ![s].pc = IF usersHash = sync[s].rows THEN "done" ELSE "batch"]
    /\ usersHash' = sync[s].rows
    /\ UNCHANGED <<panel, selfSigned, creds, token, skipTLS, users, calm, changes, faults>>

\* The same fingerprint as last time: nothing is written.
Compare(s) ==
    /\ sync[s].pc = "compare"
    /\ sync' = [sync EXCEPT ![s].pc = IF usersHash = sync[s].rows THEN "done" ELSE "batch"]
    /\ UNCHANGED <<panel, selfSigned, creds, token, skipTLS, usersHash, users, calm, changes, faults>>

\* UpsertPasarguardUsersBatch: rows are inserted or updated, none is deleted.
Upserted(rows) == [u \in Uuids |-> IF rows[u] = "none" THEN users[u] ELSE rows[u]]

Batch(s) ==
    /\ sync[s].pc = "batch"
    /\ users' = Upserted(sync[s].rows)
    /\ sync' = [sync EXCEPT ![s].pc = "save"]
    /\ UNCHANGED <<panel, selfSigned, creds, token, skipTLS, usersHash, calm, changes, faults>>

\* The transaction fails and is rolled back.
BatchFail(s) ==
    /\ sync[s].pc = "batch"
    /\ faults < MaxFaults
    /\ faults' = faults + 1
    /\ sync' = [sync EXCEPT ![s] = Idle]
    /\ UNCHANGED <<panel, selfSigned, creds, token, skipTLS, usersHash, users, calm, changes>>

\* SetSetting("pasarguard_users_hash"), whose error is dropped.
SaveHash(s) ==
    /\ sync[s].pc = "save"
    /\ \/ /\ usersHash' = sync[s].rows
          /\ UNCHANGED <<calm, faults>>
       \/ /\ faults < MaxFaults
          /\ faults' = faults + 1
          /\ calm' = FALSE
          /\ UNCHANGED usersHash
    /\ sync' = [sync EXCEPT ![s].pc = "done"]
    /\ UNCHANGED <<panel, selfSigned, creds, token, skipTLS, users, changes>>

\* The sync reports success.
Done(s) ==
    /\ sync[s].pc = "done"
    /\ sync' = [sync EXCEPT ![s] = Idle]
    /\ UNCHANGED <<panel, selfSigned, creds, token, skipTLS, usersHash, users, calm, changes, faults>>

\* The process ends and starts again; settings and table are in the database.
SyncCrash ==
    /\ faults < MaxFaults
    /\ faults' = faults + 1
    /\ calm' = (calm /\ \A s \in Syncers : sync[s].pc # "save")
    /\ sync' = [s \in Syncers |-> Idle]
    /\ UNCHANGED <<panel, selfSigned, creds, token, skipTLS, usersHash, users, changes>>

SyncNext ==
    \/ \E u \in Uuids : PanelChange(u)
    \/ TokenExpire
    \/ SyncCrash
    \/ \E s \in Syncers :
          \/ Start(s) \/ Login(s) \/ Get(s) \/ GetFail(s) \/ Compare(s)
          \/ Batch(s) \/ BatchFail(s) \/ SaveHash(s) \/ Done(s)

SyncSpec == SyncInit /\ [][SyncNext]_syncVars

-----------------------------------------------------------------------------
SyncTypeOK ==
    /\ panel \in [Uuids -> UserStates \cup {"none"}]
    /\ selfSigned \in BOOLEAN /\ creds \in BOOLEAN /\ skipTLS \in BOOLEAN
    /\ token \in {"none", "good", "stale"}
    /\ usersHash \in [Uuids -> UserStates \cup {"none"}] \cup {NoHash}
    /\ users \in [Uuids -> UserStates \cup {"none"}]
    /\ sync \in [Syncers -> [pc : {"idle", "get", "compare", "batch", "save", "done"},
                             token : {"none", "good", "stale"},
                             rows : [Uuids -> UserStates \cup {"none"}]]]
    /\ calm \in BOOLEAN

\* The table agrees with a list of users.
Reflects(rows) == \A u \in Uuids : rows[u] # "none" => users[u] = rows[u]

(***************************************************************************)
(* A sync that reports success (SyncPasarGuardUsers returns nil) has left  *)
(* every user the panel listed in the table with the listed state, whether *)
(* it wrote the table or skipped the write because the fingerprint had not *)
(* changed, and whatever earlier syncs failed on the way.  It may fail     *)
(* once a sync was cut off between its transaction and SetSetting, or two  *)
(* syncs overlapped: a panel that goes back to the fingerprinted state is  *)
(* then skipped although the table holds another one.                      *)
(***************************************************************************)
SyncReflects == calm => \A s \in Syncers : sync[s].pc = "done" => Reflects(sync[s].rows)

(***************************************************************************)
(* What makes the skip sound: outside of the window between the            *)
(* transaction and SetSetting the table holds what was fingerprinted.      *)
(***************************************************************************)
HashReflected ==
    calm => /\ \A s, t \in Syncers : sync[s].pc # "idle" /\ sync[t].pc # "idle" => s = t
            /\ ((\A s \in Syncers : sync[s].pc # "save") /\ usersHash # NoHash => Reflects(usersHash))

\* A sync that is about to store its fingerprint has its users in the table.
SaveReflected == calm => \A s \in Syncers : sync[s].pc = "save" => Reflects(sync[s].rows)

\* The inductive invariant of SyncReflects.
SyncInv == SyncTypeOK /\ HashReflected /\ SaveReflected /\ SyncReflects
=============================================================================
