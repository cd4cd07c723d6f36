# PortGuard: a TLA+ verification project

PortGuard is a control panel for nginx and HAProxy on one or more servers. One
Go process keeps mappings (listener to backends), certificates, tunnels and
users in SQLite, renders and deploys the engines' configuration files, and
manages other servers through agents that dial in. This project models the
parts that carry that logic, checks them with TLC and proves what matters most
with TLAPS.

## 1. Inventory

Paths are relative to `src/`. "Hard" is what a unit test hardly reaches.

| Component | State | Operations | Hard |
|---|---|---|---|
| Apply pipeline (`internal/service/service.go`) | live files, engines' loaded files, backup directories, certificate files, `applyMu`, version row to stamp | `ApplyAll`: list, record a version, render, test, back up, write file by file, reload, roll back | partial failure of writes and reloads, crash, queued auto-applies, a clock in seconds |
| Backup manager (`internal/service/backups.go`) | the same files and directories | `Restore`, `Delete` | runs beside an apply: it does not take `applyMu` |
| Node hub (`internal/nodehub/hub.go`) | registered connections, pending requests, request counter | `ServeWS`, `register`, `unregister`, `Request`, reader, writer, pings | replaced connections, late replies, closed channels, restarts |
| Node agent (`internal/nodeagent/agent.go`) | its connection, requests it serves | dial and retry, `handleRequest`, pings | answers over another connection than the request's |
| Configuration store (`internal/store`, `internal/api/handlers.go`, `versions.go`, `ops.go`, `configimport.go`, `agent.go`) | tables mappings, ssl_certs, tunnel_relays, config_versions | create, update, delete, two imports, snapshot, restore of a version | checks that are stale when the row is written, or skip the row a create names; a restore of many statements whose errors are dropped |
| Accounts (`internal/api/users.go`, `auth_handlers.go`, `auth.go`) | table admins, tokens, failed logins by address | setup, login, password, user management | count then write; a role read before it changes |
| Rate limiting (`internal/ratelimit`, `internal/api/ratelimit.go`, `internal/store/ratelimit.go`) | synchronised users and their fingerprint, policies and their status, the loop's last version; on a node the state file and tc | sync, upsert and delete a policy, push by the loop and by hand, `ApplyPlan`, `ClearAll` | a policy edited while its plan is on the way; a failed push nobody repeats; rules half installed, and skipped by the next plan; a node that restarts; two syncs, pushes or applies at once |
| Health checks and alerts (`internal/health`, `internal/alerter`) | target_health rows, alerts and their cooldown | probe round, prune, store; backend and node checks | mappings edited while a round probes; a threshold passed between two polls |
| Tunnels (`internal/tunnel`, `internal/api/trojan.go`, `tunnels.go`) | relay and ingress tables, xray files, units, services; pingtunnel and hedioum cores | save, apply with rollback, purge, install and remove cores, wizards | everything is check-then-act without a lock; rollbacks, stops and purges whose errors are dropped; a service systemd starts again by itself |
| Node management (`internal/api/nodes.go`, `enroll.go`, `internal/store/nodes.go`) | table server_nodes | create, edit, delete, register, probe | four writers of one status |
| Jobs and events (`internal/api/jobs.go`, `sse.go`) | transcript, status, subscribers' channels | start, write, finish, subscribe, fetch | slow or late readers |
| ACME (`internal/api/acme.go`) | certificate rows, issuance profiles, the clients' directories | issue, renew | a client that fails half-way; two runs in one directory; a profile read back |
| Engines' texts (`internal/proxy/haproxy.go`, `nginx.go`, `parser.go`, `nginxparser.go`) | none | render haproxy.cfg and nginx's files, import haproxy.cfg and nginx.conf | order of rules; combinations of routes; options one engine writes and the other does not; sections and braces in any order |
| Settings, diagnostics, discovery, metrics | key/value rows, snapshots of the system | read and replace | little |

How they interact: creating, updating and deleting a mapping may start an
auto-apply goroutine (`maybeAutoApply`), which queues on `applyMu`; an apply reads
the store twice and writes a version row; a restore of a version rewrites the
store and starts an apply; a restore of a backup writes the live files directly;
the panel reaches a node's copy of the same handlers through `Hub.Request`. SQLite
has one connection (`SetMaxOpenConns(1)`), so a statement is atomic and statements
of different requests interleave. Of the handlers modelled only the batch of the
user synchronisation is a transaction. Three loops run beside the requests: the
health checker, the alerter, and the one that synchronises users and pushes plans
(`cmd/server/main.go`).

What makes them correct: the engines only ever run files their own test
accepted, and a failed deployment leaves no trace; a reply reaches the request
it answers; the store never holds what a save would have refused, and a
restore is exact and can be undone; user management always has an owner; what
the panel shows as synced, online, up or applied is so, or becomes so once
nothing changes any more; what it imports is what was there.

`PROJECT.json` lists the hazards by line and the properties that cover them.

## 2. Modules

| Module | Models | Used by |
|---|---|---|
| `ApplyPipeline` | `ApplyAll`, `Backups.Restore` and `Delete`, crashes | `MCApply`, `ApplyRefines` |
| `AtomicDeploy` | the abstract promise: a deployment happens at once or not at all | `ApplyRefines` |
| `ApplyRefines` | the refinement mapping from the pipeline to `AtomicDeploy` | `MCApply`, `ApplyProofs` |
| `ApplyProofs` | theorems about `ApplyPipeline`, and that it implements `AtomicDeploy` | |
| `NodeHub` | hub and agents, composed over the connections | `MCNodeHub`, `HubProofs` |
| `HubProofs` | theorems about `NodeHub` | |
| `ConfigStore` | the tables and every handler that writes them | `MCConfig`, `ConfigProofs` |
| `ConfigProofs` | theorems about `ConfigStore` | |
| `Accounts` | accounts, sessions, login limit | `MCAccounts`, `AccountsProofs` |
| `AccountsProofs` | theorems about `Accounts` | |
| `PasarGuardSync` | `SyncPasarGuardUsers`: login, fetch, fingerprint, batch | `MCPanel`, `PanelProofs` |
| `RatePush` | policies, `PushRateLimitPlans`, `handleRateLimitPush`, the loop's version check | `MCBackground`, `MCPanel`, `RateProofs` |
| `RateApplier` | the agent's `ApplyPlan` and `ClearAll` over tc and the state file | `MCPanel`, `RateProofs` |
| `RateProofs` | theorems about `RatePush` and `RateApplier` | |
| `HealthAlerts` | the checker's rounds and the alerter's reading of them | `MCBackground` |
| `NodeStatus` | the server_nodes rows and all writers of their status | `MCBackground` |
| `Tunnels` | the three xray services: tables, files, units, applies, purge | `MCPanel`, `TunnelProofs` |
| `TunnelProofs` | theorems about `Tunnels` | |
| `TunnelCores` | pingtunnel and hedioum: cores, units, wizards | `MCPanel`, `PanelProofs` |
| `CertIssue` | issue and renewal through acme.sh and certbot | `MCPanel`, `PanelProofs` |
| `JobEvents` | a job, its transcript, the SSE broker | `MCPanel`, `PanelProofs` |
| `PanelProofs` | theorems about `PasarGuardSync`, `TunnelCores`, `CertIssue`, `JobEvents` | |
| `HAProxyConfig` | haproxy.cfg as it is written and as it is imported | `MCPanel`, `EngineProofs` |
| `NginxConfig` | nginx's files as they are written, and nginx's answers | `MCPanel`, `EngineProofs` |
| `NginxImport` | the import of nginx.conf | `MCPanel`, `EngineProofs` |
| `EngineProofs` | theorems about `HAProxyConfig`, `NginxConfig`, `NginxImport` | |

`MCBackground` and `MCPanel` compose parts that share no variable: an initial
choice (`part`) says which one moves, so one run covers them without the product
of their states. `MC*.tla` give the constants values; definitions that begin with
"Mutant" in their comment are wrong variants of the next definition, used to see
that the properties notice the bug.

### ApplyPipeline

`job[p]` holds the locals of one handler; its `pc` names the place in
`ApplyAll` or `Restore`. `StageMissing`, `StageReject` and `StageAll` are the
per-engine test, `StatLive` and `BackedUp` the backup, the write and reload
actions the loops at service.go:246-281, and `Undone*`, `ReloadAgain` and
`RolledBack` the deferred restore. `live` is what is on disk, `running` what
each engine loaded last. The content of a file is the configuration it was
rendered from, and `Accepts` says which sets of files an engine's test accepts:
a constant, so that every property holds for any test. The decoy page is in
`Unchecked`, as Validate skips it. External failures are listed in `Faults`.
`EditConfig` is a change by a handler that calls `maybeAutoApply`, `ImportConfig`
one by a handler that does not (both imports, the node API, certificates); `silent`
says that the last change was of the second kind.

`incidents` is a history of disturbances: a restore overlapping another
handler, a crash, a backup deleted under a restore, a copy that failed. `Calm`
says there was none that the code does not claim to survive; the positive
properties assume it, and section 5 shows that it matters.

### NodeHub

`tun[c]` is both ends of a connection: the hub's `ServeWS` stage, the send
channel, the writer, and what is in flight each way. `call[r]` is one
`Request`: looked up, sent, waiting, timed out, answered. The two statements of
a map lookup and a channel send are two actions, as in the code, with the
close of the channel possible in between. TCP delivers in order and either end
may break a connection, losing what is in flight.

### ConfigStore

Every SQL statement is one action; `job[h]` carries what a handler has read.
`SaveMapping`, `Validate` and `CreateMapping` or `UpdateMapping` are the two
save handlers, and those of the node API, which are the same code. A version
is five statements (`SnapMappings`, `SnapRelays`, `NextVersion`,
`InsertVersion`, `PruneVersions`) whether an apply or a restore takes it, and
`ListCurrent` to `RestoreDone` are the replacement loop. A mapping is a record
of what the checks look at: name, port, address, enabled, certificate. The
checks on a mapping alone (formats, ranges, per-protocol rules) are folded into
which bodies exist. A table without a free id fails its INSERT: that bounds the
table and reaches the handlers' error paths. A body has an id: a create may name
one that is stored, and `ValidateMapping` then skips that row, as it does for an
update. The listings and deletes of a restore may fail, and as their errors are
dropped it goes on (`ListCurrent`, `RestoreDelete`, `ListCurrentRelays`, and those
of the relays). Two histories follow what that leaves: `slips` holds the ways a
conflict has come past the check, and `lost` of a request what its restore missed.
A failed DELETE of the retention (store.go:314), which leaves more versions until
the next one, is left out.

### Accounts

`CreateAdminRole` is the INSERT with its UNIQUE name. Login is three steps:
`Login` (Allow), `Lookup` (the row) and `Verify` (password, then token or
Fail). `ReadTarget`, `CountOwners` and the write are the guard against losing
the last owner. `granted` (the roles an account was ever given) and `crowded`
(two requests have been under way at once) are history.

### Rate limiting: PasarGuardSync, RatePush, RateApplier

Three modules, as the three places share nothing but messages. A sync is login,
fetch, `Compare` (the fingerprint), `Batch` (one transaction) and `SaveHash`,
whose error is dropped; the loop and a request may run it at once. `calm` is a
history: no sync was cut off between the last two and none overlapped.

In `RatePush` a policy is its limit and a status, and a node has the rules of tc
(`enforced`) and those of its state file. `Build`, `Post` and `Mark` are
a node's goroutine; `Mark` writes one policy at a time, as `SetPolicyStatus`
does, and moves `updated_at`, which is the version the loop compares. `Post`
changes the rules that differ from the state file and then saves it; it may fail
after any of them, drop the error of a removal, or overlap another (`crossed`),
which leaves either's rules. `SetLimiting` is the setting `LoopRound` asks for and
`HostRestart` the end of everything in tc. Times are
renumbered at each tick so that behaviours may be infinite without an unbounded
clock. `raced`, `hidden` and `torn` are histories of what the code cannot see: a plan
that was overtaken, a mark in the second the loop has already seen, and a rule that
differs between tc and the state file, which the next plan may skip.

`RateApplier` keeps what the kernel has (`classes`, `filters`) apart from what
the state file says (`saved`). Each tc command is an action that may fail, those of
`runIgnore` without the apply noticing.
`dirty` collects the addresses a failed, cut-off or overlapping apply touched, and
those an ignored command has left.

### HealthAlerts, NodeStatus

A round lists targets and rows, probes every target by itself, prunes by what it
listed, stores. `CheckTarget` counts failures as the code does (a target seen
for the first time counts none). `NodeStatus` has the hub's callback
(`HubTouch`), the alerter's ping and write (`CheckNode`, `CheckTouch`; its round
begins only while `alerts_enabled` is set), a probe, and an edit that writes back
the row it read.

### Tunnels, TunnelCores

A configuration is the set of its inbounds; xray starts when it can bind them
all (`Bindable`). `Rejected`, `InstallUnit`, `ReadPrev`, `WriteConf`, `Restart`
and `Rollback` are the apply of all three services, which differ in their
guards: the ingress has no rollback, the trojan services stop when no relay is
left. A write that fails leaves a torn file, and a service that cannot read or bind
what it was started with has failed. `Rollback` may fail in its write or its restart,
`StopEmpty` in `disable --now`, and each listing, delete, stop and removal of a purge
(`PurgeRows`, `PurgeUnits`, `PurgeFiles`) on its own; the request goes on and answers
as if it had not, as the code does. `Respawn` is systemd's `Restart=always`. `still`
is the set of services whose requests never overlapped, `loose` those a failure, the
end of the panel or a purge has parted from their file since they were last started
or stopped.

In `TunnelCores` the binary in `/usr/local/bin` and the directory it was copied from
are two variables, as a removal takes only the directory. A request that cannot list
the units (`blind`) finds none and goes on. `overrun` says that a request which could
list them wrote a unit that was loaded or removed the directory under one.

### CertIssue, JobEvents

A pair of files has a number, so a certificate beside the wrong key is visible.
The client writes the key first and may fail in between; the panel reads both
files and stores them. `DecodedProfile` is what `issueRequest` makes of the
stored profile. In `JobEvents` lines are numbered; `Publish` offers an event to
every channel and drops it where the channel is full.

### HAProxyConfig, NginxConfig, NginxImport

Pure functions run in steps (text, parse, convert; or render, `nginx -t`), so the
result can be compared with what the text was made from. A line is a keyword and its
argument; words are not spelled out. `Verdict` is HAProxy's evaluation of a
frontend and the reference `AccessEnforced` is stated with. The parsers are folds
over the lines with the flags of the code as their state. In `NginxConfig` a file
is its blocks and a path its pieces; `NginxLoads` is what `nginx -t` refuses of
them (an upstream inside a server, two equal locations or listens, an upstream
that does not exist) and `NginxAnswer` its phases: returns, then allow and deny,
then content, in the location it chooses. `Content` is `try_files $uri $uri/ =404` in a
directory that holds `index.html` alone: the decoy page at `/` and `/index.html`, a
404 elsewhere. Rules and prefixes are taken not to be for `/index.html`. A request
names a port where its path has one, and a dynamic route the ports it allows.
`StreamAnswer` is what a tcp or udp server does with a client. `NginxServes` compares
the answers with what the mapping says, and only in files nginx loads, since
`Validate` keeps the others from the disk. It says of three things what the code
does and not what the documents say (`StreamAccessEnforced`, `DecoyOnUnmatched` and
`PortRangeKept`, see section 5). In `HAProxyConfig` a "port" is one the route's
pattern takes: `portPattern` (haproxy.go:301) is exact for ranges of up to 17 ports and
takes any number for wider ones.

## 3. Runs

Passing runs:

| Run | Instance | Shows |
|---|---|---|
| `apply` | 2 applies, 2 engines, 3 files, 3 configurations (one no engine accepts); failing writes, reloads, backups, a missing engine | `RestDiskAccepted`: between two applies the files on disk pass the engines' tests; `RollbackExact`: a rollback puts back exactly what was found; `RestRunsDisk`: the engines run what is on disk; `AppliesAtomically`: the pipeline implements `AtomicDeploy` |
| `restore` | an apply and a restore taking turns on nginx with its decoy page; failing copies, deleted backups, crashes, lost version rows | `BackupsAccepted`: every backup can be restored |
| `auto_apply` | queued auto-applies beside imports, healthy host, fairness | `AutoApplyConverges`: the last change ends up running if it came from a handler that applies |
| `hub` | 2 calls, 2 connections used again and again, 2 breaks, send capacity 1, fairness | `AnswersOwnRequest`, `ServedOnce`, `PendingOwned` for the calls; `ReportedMatches`, `OnlyRegisteredUp` for the registry under replacement; `Reconnects`: the agent ends up registered |
| `hub_alive` | pings, a break, restarts of the panel, 1 call, fairness | `Released`: a lost connection is let go by its reader, writer, agent and callers |
| `config` | one request at a time, 3 mappings on one port, 2 rows, 2 relays, 3 versions, 1 kept, failing inserts, listings and deletes | `ConflictFree`: no stored conflict until `slips` has let one past; `RestoreExact`, `RestoreUndoable`: undoable restores, exact but for what `lost` names |
| `versions` | 2 requests at a time, 5 versions, 2 kept, refused and failing inserts | `RetentionBound`, `NewestKept` |
| `accounts` | 2 requests at a time, 2 accounts, 2 passwords, 2 roles, limit 1 | `TokenRoleGranted`, `FailsBounded`; and, until two requests were under way at once (`crowded`), `OwnerRemains` and `SetupFirst` |
| `background` | 2 policies on a node, 2 limits, 2 edits, 1 failure; 2 targets, 2 hosts, 2 events; 2 nodes (one behind the hub), 1 request, 4 events; fairness | `FailedRetried`: a failed push is repeated while limiting is on; `HealthFollows`: rows settle on the hosts' state and gone targets lose theirs; `StatusConverges`: so do node statuses while alerts are on |
| `panel` | per part: 2 users, 2 syncs, 2 changes, 1 fault; the pushes of `background` with 1 failure or restart of the host; 2 addresses, 2 interfaces, 2 callers, 3 plans, 1 failure; 2 relays per service, 2 requests, 2 troubles; 5 requests to the cores, 2 at a time, 1 trouble; 3 issue bodies, 2 rows, 2 client runs, 1 fault; 3 lines in a transcript of 2, channels of 2, 2 viewers; 1 or 2 of 15 mappings beside 8 foreign sections; 1 to 3 of 9 nginx blocks; 1 or 2 of 16 shapes of nginx mappings, with and without a whitelist | `SyncReflects`: a sync that reports success left the table as the panel's; `SyncedEnforced`: a policy shown as synced is the one enforced, but for rules on which tc and the state file disagree (`torn`); `ClassesTracked`: those are only the ones a failure, an overlap or a restart touched; `ServiceRunsFile`: a service that runs has the file on disk loaded, unless it is `loose`; `AnswersTrue`: the answer of an apply is what happened, with the same exception; `CoresGuarded`; `PairsMatch`: a stored certificate has its own key; `LateJoinerComplete`: no line falls between transcript and events; `AccessEnforced`: exactly the refused clients are denied; `RoundTrip`, `SitesExact`: imports are exact; `NginxServes`: nginx answers as the mapping says, with the three exceptions it names |

Violation runs; each states what a document or a comment says and shows a
behaviour of the code against it (`findings` has the quotes):

| Run | Shows |
|---|---|
| `tunnel_ping` | the hub's writer leaves a healthy tunnel at its second ping |
| `renew_replays` | a DNS-01 renewal has lost its provider |

### Bounds

Two handlers are enough for every race of two, and the races above are of two
because every pair of conflicting steps belongs to two handlers. Two engines
and three files give a write that fails after one that succeeded, an engine
with two files, and a reload that fails after one that succeeded. A clock of
one or two seconds gives directories that are shared and that are not. One
configuration that no engine accepts makes "accepted" mean something. Capacity
1 makes the send channel full at once. In `config` one version is kept of
three, so that retention has happened before a restore; two rows of one port
are what a conflict takes, and two relays a rename. Failing
statements are those whose errors somebody drops or answers. `versions` lets two
versions pass between the reading of MAX(version) and the insert. It does not
let `Keep` of them pass, which for the code would be fifty: then a number below
those stored can be inserted and pruned again, and the retention properties
hold all the same.

In `background` and `panel` one lost message or failure at a time is enough for
every error path, and two callers, pushers or syncs for every race; the loops go
on for ever, so liveness is not met by running out of steps. A rule is torn by one
failure and skipped by the next plan, which two edits make. Failure counts above
the alert threshold are one. In `panel` two relays on one port are what a service
cannot bind; a host begins with applied relays or without, so two requests are an
apply beside a save, a purge or another apply, and two troubles a failed apply
with a rollback that fails too. One trouble leaves a unit without its file or a
request that cannot list them, five requests reach them after a create and a
removal. The mappings and foreign sections are chosen so that every keyword the
renderer writes and every branch of the importer occurs; two mappings next to each
other show a section attached to the wrong one. The requests nginx gets are for
every path a mapping names, for a path none names and for ports inside and outside
a range. Three blocks let a stream block stand before, between or after http
servers and upstreams.

`CONSTRAINT Calm` in `restore` cuts behaviours after a disturbance: `incidents`
only grows and every property there assumes `Calm`, so nothing that is cut could
violate one. `OneRateTrouble` in `panel` cuts behaviours in which a push fails and
the host restarts as well; either alone parts tc from the state file. Symmetry is
over appliers, row ids or passwords, which are only compared, in runs without
liveness. The apply run's refinement property is a safety property (`AtomicDeploy`
states no fairness) and its mapping names no applier.

`CHECK_DEADLOCK FALSE` is set where the system may come to rest: the hub when
every call has returned and the connected agent has nothing to do, `background`
and `panel` when the bounded requests and events are used up.

### Fairness

Weak fairness of a handler's next step is the Go scheduler's. Taking `applyMu`
has strong fairness: `sync.Mutex` hands over to a waiter that has starved for a
millisecond. In the hub, weak fairness covers the loops of `ServeWS`, the
agent's dial loop (it retries for ever), the detection of a dead peer and the
timer of `Request`. In `background` the clock goes on, the timers of the push
loop, the checker and the alerter fire, and a goroutine that has begun goes on,
since its requests have timeouts. The loop's round is fair, not its push: with
`rate_limiting_enabled` off (its default) a round does nothing, so `FailedRetried`
and `RulesRecovered` suppose that limiting stays on, and `StatusConverges` that
alerts do. Nothing external, no edit, fault, break or restart, is fair.

## 4. Proofs

TLC shows the properties for the instances above; the theorems hold for all
values of the constants that satisfy the named assumptions. Every safety
property of a passing run is a theorem. The parts of `background` and `panel` have
specifications of their own here (`RateSpec`, `LimSpec`, `SyncSpec`, `CoreSpec`,
`CertSpec`, `JobSpec`, `TunSpec`, `HaSpec`, `NxSpec`, `NginxSpec`), which are the
parts the runs choose between.

The invariants below stand at the end of the module they are about, and TLC has
checked each on the instance of the run that checks its property (those of the
engines' files, which only say how far a file has come, stand with the proofs). The proofs take
one action at a time and under it the conjuncts the action can disturb; where
many actions move one record, a lemma says once what such a move leaves alone.

### The pipeline: `ApplyProofs`

From `EngineOfAssumption`, `ConfigAssumption`, `DistinctAssumption` and
`BoundAssumption`:

* `TypeCorrect` and `Inductive`: `Spec => []TypeOK`, `Spec => []IInv`.
* `DiskAccepted`, `RollbackRestores`, `RunsDisk`: `RestDiskAccepted`,
  `RollbackExact` and `RestRunsDisk`, from `Inductive`.
* `BackupsRestorable`: `Spec => []BackupsAccepted`.
* `AppliesRefine`: `Undisturbed /\ Spec => AppliesAtomically`.

`RestDiskAccepted` speaks only of states in which nobody is at work, so it says
nothing about the state a rollback starts from. `IInv` adds what is true in
between: `MutexInv` and `OwnerInv` (an apply past the lock holds it; at most one
handler owns the live files while calm), `SteadyInv` (the property itself),
`BackupInv` (a file already copied has its content in the backup), `UndoInv`
(undoing what is written so far gives the accepted files found at the start,
and what is staged is accepted) and `RunInv` (what each engine runs at every
point of write, reload and rollback).

A backup is of the engines that are about to change, and a restore writes all
their files, so a backup without one of an engine's main files could not be
restored. `BackInv` adds that this does not happen: what is staged and what is
live has all main files of an engine or none (`StagedWhole`, `LiveWhole`), and a
directory is sound for every engine but the one being copied into it
(`DirsSound`).

For the refinement, `Disk` of `AtomicDeploy` is what the live files were before
the handler at work began, so writes, reloads and their undoing are stutters; the
listing of the mappings is its `Begin`, the end of a successful apply its
`Commit`, the end of any other its `Abort`. `RefineInv` adds that the staged files
are the ones of the configuration that was listed, all of them for each engine.
`Undisturbed` (no restore or crash, no failing copy, no deletion) is the host
`AtomicDeploy` speaks of; `CrashDiskAccepted` and `OverlapDiskAccepted` in
section 5 show that the code promises nothing without it. Writes, reloads, tests
and backups may fail.

### The hub: `HubProofs`

From `NodeOfAssumption`, `NoneAssumption` and `CapAssumption`:

* `HubTypeCorrect`, `ReportsTrue`, `EvictedClosed`, `PendingBounded`:
  `TypeOK`, `ReportedMatches`, `OnlyRegisteredUp` and `PendingOwned`.
* `ServesOnce`: `ServedOnce`.
* `AnswersMatch`: `~Restarts /\ Spec => []AnswersOwnRequest`.

`HubInv` has what the reader holds (`ReaderInv`), that numbers are given in order
(`NumbersInv`) and whose the entries of `pending` are (`EntriesInv`). For the
answers, `MessagesInv` follows a request wherever it is (send channel, either
direction, the agent's work, the reader's hand): a message carries the number of
the call it names. That is true until the panel restarts and numbers begin again;
section 5 has the counterexample, so `AnswersMatch` says so. `ServedInv` says that
a request is in one place at most until it is served and nowhere afterwards, which
does hold across restarts.

### The store: `ConfigProofs`

From `BodyAssumption`, `VersionAssumption` and `FiniteAssumption`:

* `RetentionBounded`, `NewestAreKept`: `RetentionBound` and `NewestKept`, for any
  number of concurrent requests. `VersionsInv` says that the newest `Keep` numbers
  are stored and that a number read for an insert is at most one above the newest.
* `SocketsExclusive`, `RestoresExactly`: `OneAtATime` implies `ConflictFree` and
  `RestoreExact`, whichever statements fail and whatever ids the bodies have. The
  first ends where a create has named a stored id or a dropped error has left a row
  (`slips`), the second leaves out what a dropped error kept or lost (`lost`).
* `RestoresUndoable`: `OneAtATime` and no failing snapshot imply `RestoreUndoable`.

`OneAtATime` (one handler) is the hypothesis because the checks are stale
otherwise: section 5 lists what two handlers do, and what a failed safety snapshot
does. `AloneInv` says what a handler knows of the tables between its statements;
during the replacement loop the rows inserted so far correspond one to one to
those of the version that are done (`Copied`, a bijection, since ids are new),
beside the rows that were not deleted. `UndoInv` says where the safety snapshot is
at each step.

### Accounts: `AccountsProofs`

From `RolesAssumption`, `HandlersAssumption` (finitely many requests),
`LimitAssumption` and `NoneAssumption`:

* `SessionRoles`: `Spec => []TokenRoleGranted`. `RowsGranted` and
  `LoginGranted` carry the fact from the row through the login's locals to the
  token, which is needed because the row may have changed or gone meanwhile.
* `LoginLimit`: `Spec => []FailsBounded`. `FailsInv` counts the logins that have
  passed Allow as if they had failed; the count can only grow at Allow.
* `AccountsTyped`, `OwnersRemain`, `SetupOnlyFirst`: `TypeOK`, `OwnerRemains` and
  the action property `SetupFirst`. `OwnerInv` adds that what rows, sessions and
  logins refer to has been given out (`UsedInv`) and that, until two requests were
  under way at once, who is about to demote or delete an owner still sees another
  one (`AloneInv`).

### Rate limiting: `RateProofs`

* `ClassesStayTracked`: `LimSpec => []ClassesTracked`, from `ApplierAssumption`.
  `AloneOrBlurred`: a call is alone or every address counts as damaged.
  `AloneTracks`: what a lone call has not touched is as saved, and what it has is
  as it will save it, so its last write makes state file and tc agree again, but for
  what an ignored command left (`dirty`).
* `SyncedStayEnforced`: `RateSpec => []SyncedEnforced`, from `PushAssumption`. A
  policy may be shown as synced while a push that will mark it is on its way
  (`SyncedOrListed`); the plan under way is current (`PlansCurrent`), and one that
  marks has been applied (`MarksTrue`), unless the node was raced. An apply changes
  only what differs from the state file; that this is enough is `FileTrue`: where a
  rule is not torn, tc has what the file says.

### The parts of the panel: `PanelProofs`, `TunnelProofs`

* `SyncsReflect`: `SyncSpec => []SyncReflects`, from `SyncAssumption`. The skip is
  sound because the fingerprint is of what the table holds (`HashReflected`) but
  between the transaction and `SetSetting` (`SaveReflected`).
* `CoresStayGuarded`: `CoreSpec => []CoresGuarded`. That a loaded unit has its binary
  holds even for requests that overlap, since no removal takes it (`CoreReady`). For
  the rest, `ChecksHold`: what a lone request has checked still holds when it acts,
  unless it could not list the units.
* `PairsAlwaysMatch`: `CertSpec => []PairsMatch`, from `CertAssumption`. `RunHas`
  says which halves of which pair are in the client's directory and in hand;
  `OneRun` that two runs in one directory are known as such; `RunOf` and
  `ProfilesKnown` that a renewal works in the directory of the issue.
* `LateJoinersComplete`: `JobSpec => []LateJoinerComplete`, from `JobAssumption`.
  The transcript is the last lines, numbered without a gap (`LinesNumbered`), so
  whatever was handed on before the fetch and is not below its first line is in it,
  and whatever is handed on later is offered to the channel of the viewer, who is
  subscribed (`FetchedOn`).
* `ServicesRunFiles`, `AnswersAreTrue`: `TunSpec => []ServiceRunsFile` and
  `TunSpec => []AnswersTrue`, from `TunAssumption`. Who works on a service that is
  `still` works alone (`AloneInv`). `OkFor` says, for each place a request can be
  in, what it may rely on: that a service that is up has its unit, that the file is
  the one it wrote, that what it would roll back to can be bound, that no row has
  the port it is about to store. What it says of the service and its file is left
  out for a `loose` one: a step whose error is dropped either succeeds or makes its
  service loose. A restart by systemd keeps all of it, wherever the
  request is. Tables whose ports differ render to files that can be bound
  (`RenderRows`), so an ingress that has no rollback does not need one.

### The engines' files: `EngineProofs`

From `HaAssumption`, `NxAssumption` and `NgAssumption`, which say what the mappings
`ValidateMapping` lets through look like, and of what other people's files are made:

* `AccessHolds`: `HaSpec => []AccessEnforced`.
* `RoundTripHolds`: `HaSpec => []RoundTrip`.
* `NginxHolds`: `NxSpec => []NginxServes`: http mappings by their access rules, port
  routes (of any port), longest rule or prefix, targets, decoy page (at its own
  paths) or 404; streams, whatever their access rules, by their targets.
* `SitesHold`: `NginxSpec => []SitesExact`.

The specifications are a few steps long; what is hard is what their functions
compute, for files of any length with mappings of any shape. Renderers and parsers
are folds, so the proofs are by induction on the rounds. `Least` (every non-empty
set of numbers has a least element) comes from the library's theorem that `<` is
well founded, and `Induction`, over sets of numbers, from `Least`. A fold is
defined by `CHOOSE` of a function over subsets: `LoopExists` shows by induction that
there is one, and `FoldedTrace` that its values are those of a loop (`Loop`,
`Trace`) that takes one element after the other. `FoldedConcat` cuts a loop at any
place and `FlattenTrace` at the parts of a flattened sequence, so that the text of a
file can be followed section by section.

* Access: `RoutingRefusesNone` says that no rule a frontend has beside its access
  rules is a refusal, for every combination of protocol, redirect, routes, dynamic
  ports and prefix; `AccessExact` that the first matching access rule is the one
  that decides.
* nginx: `ServerLocs` names every location a server is written with, `LocKinds` what
  such a location can be; `PickRegex` and `PickPrefix` follow nginx's choice. In files
  without two equal locations the chosen one is the one the mapping means
  (`DynAnswers`, `RuleAnswers`, `OwnContent`, `OtherAnswers`). `NxRendered` is the
  invariant: the files staged are the ones rendered, and nginx's answer is about them.
* nginx.conf: `Between`, `InUpstream`, `InServer` and `InLocation` are the states the
  parser may be in between two lines. Each block is shown to take it from `Between`
  to `Between` with exactly its servers added (`NgBlockRead`), whatever is nested in
  it, and `NgFileRead` adds them up. `NgRead` says what the variables hold.
* haproxy.cfg: `MappingsRead` is what the parser has after some of the mappings: a
  frontend for each of them in order (`Fronts`) and backends of which those with a
  name of two parts are exactly the mappings' own (`Known`); the backends of route
  rules and dynamic ports have names of three. So each frontend finds its own backend
  (`OwnFound`) and becomes the candidate expected (`HaFrontConverted`), and so does the
  section after them, of either kind. `Offers` counts candidates and reports and keeps
  the names distinct; `UniqueName` is the pigeonhole argument for a free one. `HaRead`
  says what the variables hold.

### Only model-checked

Liveness (`AutoApplyConverges`, `Reconnects`, `Released`, `FailedRetried`,
`HealthFollows`, `StatusConverges`): it needs fairness, which the prover does not
treat.

## 5. Divergences without a standing run

Modelling met more places where the code and its words differ. The property is
in the module; TLC refutes it with the constants of the `.cfg` named, changed as
said. They are described here and not repeated by a run.

| Property | Instance | What happens |
|---|---|---|
| `CrashDiskAccepted` | `MCApply.cfg`, one applier, `Faults = {"crash"}` | service.go:146 "atomically applies": a crash between two writes (service.go:246) leaves a mixture on disk; `New` repairs nothing |
| `OutcomeRecorded` | one applier, `Faults = {"missing", "write"}` | README.en.md:34 "deploy result": the returns at service.go:182-185 and 249-253 do not stamp the version row |
| `SnapshotIsDeployed` | one applier, no faults | service.go:150: `CreateConfigVersion` lists the mappings again (store.go:294); an edit in between is in the row and not deployed |
| `BackupsKept` | one applier, `MaxClock = 2`, no faults | README.en.md:177 "Every apply leaves a timestamped backup": the name is the second (service.go:217) and a second backup within it overwrites the first |
| `RestCertsMatch` | one applier, `Faults = {"reload"}` | service.go:147 "the previous files are restored": certificate files are written before the backup (service.go:209) and not rolled back |
| `AnswersOwnRequest` | `MCHubAlive.cfg`, two calls, no breaks, `Beats = FALSE` | request numbers start again with the process (hub.go:162); the agent answers an old request over the new connection and a new call takes it |
| `ConflictFree` | `MCConfig.cfg`, two handlers, no relays, one version | README.en.md:16 "port-conflict detection before saving": list, validate and insert are separate statements (handlers.go:247) |
| `CertRefsExist` | `MCConfig.cfg`, no relays, no faults | handlers.go:294: imports (ops.go:349-353) and version restores (versions.go:167) save without `certExists` |
| `ScansStartDisabled` | `MCConfig.cfg`, no relays, no faults | configimport.go:25 "all start disabled": `HAProxyCfgToMappings` sets `Enabled: true` (parser.go:443, 477) |
| `OverlapDiskAccepted` | `MCRestore.cfg` without its constraint, no faults | README.en.md:45 "Invalid configs never reach the live services": `Backups.Restore` does not take `applyMu` (backups.go:131); beside an apply the files of two configurations end up mixed |
| `RestoreUndoable` | `MCVersions.cfg`, no faults | versions.go:133 "the current state is itself snapshotted first": a mapping saved between the snapshot and the listing at versions.go:160 is deleted and in no version |
| `RestoreUndoable` | `MCVersions.cfg`, one handler, `Faults = {"version"}` | versions.go:149 drops the error of the safety snapshot and goes on |
| `ApplySeesWhole` | `MCVersions.cfg` | versions.go:159 "in one go": an apply beside a version restore deploys a part of the mappings |
| `SomeOwner` | `MCAccounts.cfg` | users.go:81 "an owner can only be demoted when another owner exists": two demotions that count two owners each leave none |
| `SetupFirst` without `~crowded` | `MCAccounts.cfg` | two setups that both counted no account (auth_handlers.go:23) create two owners |
| `OutageAlerted` | `MCBackground.cfg` | alerter.go:174 "fail_count >= 3": the code compares with `== 3` (alerter.go:180), and a count that passes 3 between two polls raises no alert |
| `RulesFiltered` | `MCPanel.cfg` | applier.go:135 "unchanged rules are untouched": `removeRule` deletes the filters of priority 1, which are those of every rule |
| `SpecificRuleWins` | `MCPanel.cfg` | haproxy.go:187 "specific rules win over generic ones": a redirect rule is an http-request rule, which HAProxy runs before every use_backend |
| `RelayLoads` | `MCPanel.cfg`, `RenderSpec` | nginx.go:489 "the first regular target when present (relay setups)", rendered in paths_test.go:46: with port routes and a target, `location /` is written for the target (nginx.go:184) and again for the 404 (nginx.go:301); `nginx -t` refuses the second |
| `RuleUpstreamsLoad` | `MCPanel.cfg`, `RenderSpec` | nginx.go:200 "prefix locations with their own upstreams": the upstream of a rule with two targets is written inside `server { }` (nginx.go:174, 261), where nginx allows none |
| `AutoApplyAlways` | `MCAutoApply.cfg` | web/src/pages/Settings.tsx:238 "Auto-apply configuration after every mapping change": `maybeAutoApply` is called by create, update, delete (handlers.go:258, 290, 319) and version restore (versions.go:183); an import (ops.go:364, configimport.go:26-67) or a save of the node API (agent.go:201-266) that comes last is never deployed |
| `SocketsApart` | `MCConfig.cfg`, no faults | README.en.md:16 "port-conflict detection before saving": the body of a create may have an id (handlers.go:211-232), and `ValidateMapping` skips the mapping with that id (engine.go:238), which stays stored beside the new one |
| `RestoreReplaces` | `MCConfig.cfg`, `Faults = {"delete"}` | versions.go:159 "replace everything in one go": the errors of the listings and deletes are dropped (versions.go:160, 162, 173, 175), old mappings stay and the answer is ok |
| `SyncedReconciled` | `MCBackground.cfg`, one policy | agent.go:402 "reconciles the node's Linux tc state with the pushed plan": `ApplyPlan` compares with the state file (applier.go:171-173), which an apply that failed half-way did not write, and drops the errors of removals (applier.go:223-231): going back to the saved limit is marked synced and changes nothing |
| `RulesRecovered` | `MCBackground.cfg`, one policy, one restart, nothing lost | main.go:427-429 "on boot the agent asks the master for its current plan (the master pushes on connect anyway ...)": the agent logs the number of rules in its state file, and nothing pushes on connect |
| `DisabledCleared` | `MCBackground.cfg`, one policy, nothing lost | applier.go:238 "ClearAll removes all bandwidth rules (used when limiting is disabled)": the panel calls no /ratelimit/clear (settings.go:207); the nodes go on limiting |
| `RolledBack` | `MCPanel.cfg`, one request of the tunnels at a time | trojan.go:315 and tunnels.go:261 answer "(rolled back)": the errors of the rollback's write and restart are dropped (tunnel.go:345-346, trojan.go:311-312) |
| `BridgeStopped` | the same | trojan.go:298 "stop the unit instead of running an empty bridge": the error of `disable --now` is dropped (trojan.go:299, 495), and "bridge stopped" is answered |
| `PurgeComplete` | the same, three requests | trojan.go:856 "removes every trojan relay + ingress from the DB and wipes the suite's units/configs": the errors of all of it are dropped (trojan.go:860-867, suite.go:203-220) |
| `PurgeKeepsBridge` | the same | suite.go:198 "nothing else is touched": `RemoveAll("/etc/hedioum-suite")` (suite.go:216) takes the tunnel bridge's file along |
| `CoreRemoved` | `MCPanel.cfg` | tunnels.go:364 "deletes the core", and an audit of "core removed": `PingTunnelDir` goes (pingtunnel.go:226), the binary in /usr/local/bin stays |
| `RemovedWhenUnused` | `MCPanel.cfg` | pingtunnel.go:220 "if no services remain": `DetectPingTunnel` finds none when systemctl cannot list them (pingtunnel.go:66-70) |
| `StreamAccessEnforced` | `MCPanel.cfg` | docs/USAGE.md:140 gives access lists to every mapping: `renderStreamServer` (nginx.go:416-440) writes none for tcp and udp |
| `DecoyOnUnmatched` | `MCPanel.cfg` | README.en.md:18 "serve a realistic built-in (or your own custom) website on unmatched paths instead of a suspicious 404": `try_files $uri $uri/ =404` (nginx.go:309) serves it at / and /index.html |
| `PortRangeKept` | `MCPanel.cfg` | docs/USAGE.md:159 says that nginx gets a route's range of ports as a regex: `renderNginxPathRoutes` takes any number (nginx.go:456, 469) |

Where a passing property names an exception, the exception is real, and the table shows most
of them:

* `AutoApplyConverges`: a change that does not apply (`AutoApplyAlways`).
* `ConflictFree`: `slips`, a create that names a stored id (`SocketsApart`), a failed
  delete of a restore, an import whose listing failed. `RestoreExact`: `lost`
  (`RestoreReplaces`). Both fail without `OneAtATime`.
* `SyncedEnforced`: a node whose policy was edited under a push, and `torn` rules
  (`SyncedReconciled`, `RulesRecovered`). `FailedRetried`: a mark in the second the loop has
  seen, and limiting switched off (`DisabledCleared` says what the nodes do then).
* `ServiceRunsFile`, `AnswersTrue`: `loose` services (`RolledBack`, `BridgeStopped`,
  `PurgeComplete`, `PurgeKeepsBridge`), and overlapping requests. `CoresGuarded`: overlapping
  requests and units that could not be listed (`RemovedWhenUnused`); what a removal leaves
  is `CoreRemoved`.
* `NginxServes`: access lists of streams, paths of the decoy, ranges of ports
  (`StreamAccessEnforced`, `DecoyOnUnmatched`, `PortRangeKept`).
* `SyncReflects` fails once syncs overlap or one is cut off before `SetSetting`;
  `PairsMatch` when two runs use one directory at once; `LateJoinerComplete` when a
  channel was full.
* `RoundTrip` fails for IPv6 targets, which `backendLine` writes without brackets and
  `ParseServerLine` cannot read, for a mixed-case `default_backend`, and for the
  balance of a `listen` section; `SitesExact` for blocks the parser does not know,
  whose brace closes the enclosing one. What `nginxparser.go:223` reports of complex
  blocks is not covered.

Read in the source and in the models' shape, without a property of their own:

* tunnel.go:357 `time.Sleep(1)` is a nanosecond, so `is-active` is asked at once;
  `Apply` says "atomically" (tunnel.go:333) and uses `os.WriteFile`; "(rolled
  back)" is answered when there was nothing to roll back to.
* nodes.go `n.Enabled || cur.Enabled`: an edit cannot disable a node; the INSERT
  of `UpsertServerNodeByHostPort` has fewer values than columns.
* A reverse node is marked offline by the hub first, so the alerter, which
  compares with the stored status, raises no alert for it.
* `LastIP` of a user is never set, so plans have no rules as the code stands; a
  failed read of the policies is pushed as an empty plan.
* An `http-request allow` ends the rules, so a whitelisted client skips the
  redirect and the path rules of its mapping.
* docs/USAGE.md:159 says that a range of ports becomes an alternation in haproxy:
  `portPattern` (haproxy.go:301-310) writes `[0-9]+` for ranges wider than 17 ports,
  which takes any port.
* An nginx mapping on `::` is written with `listen [::]:port` twice, one with a
  decoy site and a target with two `location /`, and one with a path prefix and no
  target passes to an upstream that is not written: nginx refuses all three, and
  `ValidateMapping` accepts them.
* nginx runs `return` before `allow` and `deny`, so a redirect answers refused
  clients too.
* `handleGetJob` encodes the status without the job's mutex: a finished job can
  be shown without its last lines. Jobs are never pruned.

## 6. Not modelled

Unit files and scripts; certificate generation and
inspection; the ACME protocol; firewall and BBR commands; the scanner and the
metrics: text or pure I/O. Validation of single fields. Certificate and resource
alerts, which read a value and call the modelled `fire`. Settings, which are
replaced one row at a time. The HTTP proxy to a node and enrolment scripts, which
pass bytes on. The frontend. Torn WebSocket frames when reader and writer write
at once. In `ConfigStore` relays are their names; their ports are in `Tunnels`.
Hub runs have one agent per node: two agents enrolled with one token evict each
other (nodes.go:646).

## 7. Plan

Done: the modules of section 2, with every safety property a run checks proved.
What would extend the project:

1. The safety half of the background loops, which have liveness properties only: that
   a pruned health row is one nobody listed, and which writers may set a node's status.
2. Two hazards without a property (`PROJECT.json`): a panel that dies inside an apply
   and the certificate files no rollback covers. Section 5 shows both; a property
   would have to be one the code keeps.
3. The parsers on files the panel did not write: `RoundTrip` has one foreign section
   after the panel's own, `SitesExact` the blocks named in `NgAssumption`.
