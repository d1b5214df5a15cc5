# Formal model of dev-mcp

TLA+ specifications of dev-mcp, the TLC configurations that check them, and
proofs checked by TLAPS. Paths without a prefix are relative to the repository
(`src/` here). `PROJECT.json` holds the index: for every definition the source
lines it models, for every property a mutation of the model that breaks it, the
hazards of the code and the properties that cover them.

## 1. The system

dev-mcp gives MCP clients (coding agents) a development environment per account.

- The **gateway** (`packages/gateway`) is one Node.js process: OAuth server, MCP
  endpoint, administration pages, app previews. Its state is a set of JSON files
  and in-memory tables.
- A **runner** per account (`packages/runner`) is one Node.js process in the
  account's MCP container. It executes commands and background processes on
  requests of the gateway that arrive over a Unix socket.
- The **provisioner** (`scripts/reconcile-user-runners.mjs`) creates, replaces,
  migrates, starts and stops the two containers of each account, the MCP
  container and the development container, and renews what SSH lets in. The
  gateway talks to it through files only: it writes requests, the provisioner
  writes `status.json`.
- A **collector** of usage figures (`scripts/collect-runner-telemetry.mjs`) and an
  SSH daemon with a supervisor in each development container are optional.

### Components

| Component | State | Operations | Hard behaviour | Correct when | Module |
|---|---|---|---|---|---|
| MCP session registry (`mcp-session-registry.ts`, `/mcp` in `app.ts`, `mcp-audit.ts`) | sessions, reservations, pins, idle timers | reserve, register, forget, evict, touch, begin/end | initializations overlap, streams end in any order, callbacks of forgotten sessions | limits hold, only idle sessions of the same user are evicted, the timer runs exactly for idle sessions | McpSessions |
| Process service (`process-service.ts`, `subprocess.ts`) | registry file, running children, completion promises | start, run, list, stop, initialize | process ends between two awaits, two stops, failed writes, crash of the runner | registry and processes agree, the limit holds, every end is recorded | ProcessService |
| OAuth (`oauth.ts`, `auth-store.ts`) | pending consents, codes, tokens, rotations in flight, recent answers | authorize, consent, exchange, refresh, revoke | double submissions, concurrent refreshes, revocation between awaits, restart | one consent gives tokens once, rotation is a chain, revocation is final | OAuth, Grants |
| Accounts, sign-in, onboarding (`user-store.ts`, `google-routes.ts`, `onboarding.ts`) | users, versions, browser sessions, installation | sign in, log out, change, revoke, promote, complete | administrators change each other, sign-in under way during a change | an administrator remains, no session outlives a change | Accounts |
| Provisioner (`reconcile-user-runners.mjs`, `runner-operations.mjs`, `runner-control-store.ts`) | requests, `status.json`, containers | create, start, stop, restart, apply, move of a workspace | failing or timed-out Docker commands, crash between two, requests and account changes during a pass | a request is never repeated, no container is lost, the reported outcome is true, a stop lasts | Provisioner |
| Workspace lifecycle (`workspace-operations.mjs`, `workspace-control-store.ts`) | development container, its journal | apply, sync, hold around storage changes | two origins of requests, replacement after the MCP container's | as above, for the second container | Provisioner |
| Split and naming migration (`split-runtime.mjs`, `runtime-names.mjs`, `migrateNames`) | containers, volumes, two journals | split, hold, copy, rename, roll back | any command fails, crash between two, the owner writes meanwhile | no work and no container is lost, a failure restores | Migrations |
| Host directories of workspaces (`installation-store.ts`, `onboarding.ts`, `runner-operations.mjs`) | root, verdict, `workspace-dirs.json`, directories, mounts | enter a root, complete, probe, assign, record, verify, move, undo | helper or Docker fails, crash between two steps, changes on the host, root changed meanwhile | an account's directory was made for it and is nobody else's | Workspaces |
| App deployment (`apps.ts`, `app-store.ts`) | app records, servers | deploy, start, stop, remove, publish | operations on one app overlap, the name changes hands | an app names a process of its own, no server is left behind | Apps |
| Preview access (`preview-proxy.ts`, `preview-routes.ts`) | codes, cookies | authorize, redeem, resolve | revocation between two reads | revocation ends access | Previews |
| Runner IPC (`ipc-server.ts`, `ipc-client.ts`) | tunnels, seen request ids | call, tunnel | repeated lines, clocks apart, a restart that forgets what was seen, a limit checked before an await | one tunnel per request, one more per restart within its age | Tunnels |
| SSH access (`ssh-access-store.ts`, `ssh-registry.mjs`, `ssh-server.mjs`) | keys, files, lease, sshd and its sessions | add, remove, renew, poll | provisioner dies between two files, late request, sessions that begin while sshd is stopped | withdrawn keys do not come back, their sessions end | SshAccess |
| Telemetry (`collect-runner-telemetry.mjs`, `telemetry-store.mjs`, `telemetry-store.ts`) | open buckets, rows, checkpoint | sample, roll, seal, restart, read | failing writes, crash between two, clock set back | history stays, no instant counts twice | Telemetry |
| Delta snapshots and live pages (`live-snapshots.ts`, `telemetry-stream.ts`, `live-updates.js`, `telemetry.js`) | snapshots, what pages hold | poll, delta, abort, reload | dropped baseline, overtaken answers | a page shows one moment and never goes back | LiveFeeds, LiveView |
| Process logs (`process-service.ts`, `admin-routes.ts`, `audit-updates.js`) | log file, cursor, card | read, append, stop asking | the process ends between two reads | the tail is shown | LogFeed |
| JSON stores (`json-store.ts`) | queue of updates, file | read, update | crash during a write | an update is atomic | assumed by all models |
| Audit log, login limiter, file/Git/project tools, configuration | | | | | not modelled |

The components interact as follows. An MCP request is authenticated by OAuth,
admitted by the session registry, and calls the account's runner through IPC;
process tools end in the process service, and so do deployments of apps. A
preview reads apps and accounts and opens a tunnel. The administrator's pages
write the account store, which OAuth, previews, SSH and the provisioner read,
and the request stores, which the provisioner reads. A pass of the provisioner
runs the split and the naming migration before it looks at any request.

## 2. What is modelled

### McpSessions

One gateway, any number of users, clients, session slots and requests. Node.js
runs a turn at a time, so an action is one synchronous turn. `Initialize`,
`EvictOne`, `Refuse` and `Reserve` are `reserve()`, its loop split into
iterations (nothing else is enabled while it runs: `Idle`); `Register`,
`InitReturn` and `InitThrow` the rest of the initialize handler; `PostBegin` to
`GetEnd` the HTTP requests that pin a session; `RpcBegin` and `RpcEnd` the pins
of the audited transport, which outlive their connection; `Delete`, `CloseUser`
and `IdleTimeout` the ways a session is closed. `active` is the counter of the
WeakMap, `Pins` the requests that really hold the session: the code never
computes the latter, and the invariants relate the two. A slot is reused only
when nothing refers to the old object.

Simplified: a close clears the pending pins and forgets the session in one step
(the code does both in one turn, through `onclose`); an `InitReturn` without a
registered session closes it; the clock counts ticks of the idle time.

### ProcessService

Executions with the record on disk (`rec`), the process (`proc`), its output
pipe (`pipe`), the progress of `launch()` and the promise that follows it
(`completion`), and `stop()` calls cut at every await (`StopRead` to
`StopWriteFails`). A process may exit at any time, descendants may keep its
output open, a registry write may fail (`MaxFaults`), the runner may crash
(`MaxCrashes`) with processes that survive it or not, and `Restart` is
`initialize()`. Graceful shutdown is such a crash, because children are detached.

Simplified: "PID and start time match" is "the process of this execution is
alive", so that the reuse of a PID between the check and the signal cannot be
expressed; the time limit of a command is an exit; the permit of the launch
semaphore is exclusive. For the last point: `Semaphore.release` decrements the
count before the woken waiter increments it, within the same run of microtasks;
a caller could only get in between from a microtask queued there, and a model of
that order is planned.

### OAuth, Grants

Consents, codes, token pairs and request handlers that stop at every await.
`Consent`, `ConsumePending`, `CreateCode` are the consent form; `ExchangeCode`,
`CheckUser`, `IssueTokens` the exchange; `Refresh`, `CheckRecent`, `Rotate`,
`RotateFails`, `Settle`, `Settled`, `Answer` the refresh with its two tables
(`inFlight`, `recent`); `RevokeConnection`, `RevokeAccess`, `ChangeStatus`,
`RemoveClient`, `DropToken`, `Expire` what ends access; `Restart` loses the
memory and the requests. `epoch` and `cuts` count, for the properties only, the
revocations of an account and of a connection.

Simplified: requests whose PKCE verifier, redirect URI or scopes do not match
end without an effect and are left out; deleting the remembered answers after a
revocation is one step although the code awaits `access()` for each; reading the
client is part of the step that follows.

Grants is what the two endpoints promise, without their stores, requests and
retries: consents not used yet, consents that were used, and what is accepted or can be
refreshed, each with the right it stems from. A right comes from a consent, is
used once, and is handed on by a renewal; whatever lapses does not come back. `Revoke`
takes all of an account in one step and `Cut` all tokens of a connection.
`GrantsAreKept` is the refinement: a consent is one that is stored as a code or in the hands of
a request and is still in force (the account has the version consented to and may
sign in, the client is registered), a token counts as long as it is. So a stored token with an
old version is not there for Grants, and the code, which checks versions when a
token is used and removes nothing when an account changes, implements a `Revoke`
that takes all at once. `RevokeConnection` implements `Cut`; what `Cut` leaves to chance, unused
consents, is the race of section 4. Deletions, expiry, failed requests and a
restart are `Lapse`; the rest of the exchange and of the refresh is a stutter.

### Provisioner

One account. The gateway's side is `AdminRequest`, `PersonalRequest` and
`SetStatus`, possible at any moment of a pass. A pass (`PassBegin` to
`Combine`) reads both requests once, and the account at the places where the
code does. The variable `pass` is its place and local variables, `status` its
copy of `status.json`, `file` the file. Every Docker command that changes a
container is an action; with `Outcomes` it may fail, having had its effect or
not (a timeout), and then `Thrown` goes where the enclosing `catch` and `finally` blocks lead.
`Crash` may come before any command: containers and files stay, the pass and its
memory are gone. A container is absent, created, created to be kept stopped,
running or exited; the one set aside during a replacement is `mcpOld` (`devOld`
for the development container), and `stale` says that the development container
was made for an MCP container since replaced.

- `UserBegin` is the name check and the journal: a request whose revision is not
  journalled is written to `status.json` before anything is done, one that is
  found "applying" is failed. `Hold` stops the development container before the
  storage changes, `Finish` brings it back.
- `ApplyCommand`, `ApplyNothing`, `ApplyInPlace`, `ApplyReplace` are the cases
  of `RunnerOperations.apply`; `Rename`, `Provision`, `Start`, `Rollback`,
  `Restore`, `Revive`, `Drop` a replacement and its rollback, for new limits and
  for a move to a host directory; `Make` and `Boot` are `create()`.
- `DevBegin` to `DevDone` are `reconcileWorkspace`, `WorkspaceOperations.apply`
  and `sync` with the replacement of the development container.

Simplified: revisions are numbers in the order of `requestedAt`, which decides
between the two origins of requests (ties do not occur); whether new limits need
a new container, change the storage, or touch the storage at all is a
nondeterministic choice; the account is split already and keeps its name. Left
out: the start of quota containers after a reboot, the comparison of observed
with requested limits after "apply", the adoption of journals of an earlier version, creation with limits
(which applies them within `create`). A command the daemon finishes after its
client was killed and the pass went on is not modelled.

### Migrations

One account, at the start of a pass, in the order of the pass: `SplitCheck`
to `SplitReady` are `splitRuntime`, `Hold`, `NamesSkipped` to `Verify` and
`Held` are `beforeNamingMigration`, `migrateNames` with `namingVolumes` and the
`finally` around them; stopping, renaming, provisioning and starting are the
same commands in both and are shared actions, as are the steps of the two
rollbacks (`Discard` to `Rethrow`). `Rest` to `Sync` are the part of the pass
that meets what a migration left: the request, automatic creation,
synchronization of the development container. Meanwhile the owner writes in any
container that runs (`Write`), and the operator may remove a runner whose
migration is over. `boxes` holds the containers by name, `volumes` the work that
is in each volume. `Init` has the installations a pass may find: a unified
container, a pair with other names than the account's, and volumes alone.

Simplified: the workspace and data volumes share their fate and are one; the
storage, scripts, snapshot and copies of HOME of a split are one command that
can fail; an error that reports failure after its effect is possible for every
command. HOME and Git credentials keep their names and are left out, as are
quota storage, host directories and the separate workspace container of
installations before the unified one.

### Workspaces

All accounts and the installer. `SetRoot` to `Complete` are the onboarding's
routes, cut where they await a file; `PassBegin` and `Publish` the observation
at the start of a pass, with the verdict that `Probe` caches; `Create` and
`Move` start `create()` and `moveWorkspace`, whose helpers and Docker commands
are `Assign` to `Provision`, and `Undo` to `Remove` the catch of a move. Every
helper may fail after its effect, the provisioner may die between any two, and
who administers the host makes and deletes directories and removes containers
(`HostChanges`). `made` says for whom each directory was made, "operator" for
one that was there already. All accounts want the same names, which is when
assigning them is hard.

Simplified: the cached verdict does not age; a legacy account keeps its
directory and its container; quota storage and the start of containers are left
out; a directory deleted under a running container cannot be expressed, and
nobody makes a directory by hand where a record says one of an account was.

### Apps, Previews, Tunnels

`Apps` runs a handler from await to await: `Begin`, `Find`, `Visible`, `Exists`
are the routes and tools up to `AppService`, `Current`, `Save`, `Halt`, `Launch`
and `Record` are `deploy`, `Halt` and `Remove` also `stop` and `remove`, `Show`
the visibility. A name that was freed may be taken by another account while an
earlier deployment still runs. Calls to the runner may fail (`MaxFaults`).

`Previews` is one request of the preview listener at a time per `Visits`:
`ReadOwner`, `ReadSetting`, `Verify`, `ReadViewer` are `resolve`, each a read of
its own, `Authorize` is the console's route that issues a code, `Redeem`,
`Confirm` and `Seal` exchange it for a cookie. Accounts, apps and the setting
change between any two reads. Left out: the signing key, rate limits and the
bytes once a request is let in.

`Tunnels` delivers signed request lines, again and at any time (`Repeat`), on
connections that the client may give up while the runner connects (`Abandon`).
`Purged` and `Fresh` are the window of seen ids, with the gateway's clock apart
from the runner's by `Skew`. `Restart` is a new `startIpcServer()`, whose table and
counter begin empty (`ipc-server.ts:23`), `SetBack` the runner's clock set back.
Either can make a line acceptable again that was not; `exposed` counts, for each id,
how often one did, and takes no part in a guard.

### Accounts

`SignIn` to `Enter` are the callback of Google sign-in, `Browse` a request of a
signed-in browser that `Target`s an account, `Update`, `RevokeAccess`,
`EndSession`, `Logout` and `Registration` what it may do, `Install`, `Check`,
`Promote`, `Complete` and `Clear` the onboarding and the promotion script. Each
store update reads, checks and writes in one step; between two steps of a
handler the other handlers act. `Legacy` accounts come from versions with
passwords: they exist and cannot sign in. Left out: the random state of a
sign-in, the exchange with Google and the one-time code.

### SshAccess

One account and its workspace. `Arrive`, `Add` and `Remove` are the routes of
`/account/ssh`; `ReadAccount` to `WriteManifest` the renewal, one file at a
time, with a failure or the death of the provisioner before any of them. A turn of
the supervisor is `Poll`, the read of the manifest with what follows at once, then,
where sshd is stopped, `Scan` of `/proc`, `Kill` of the connections and `Shut` of
the listener with the new start, and `Track`, the scan at its end. Between any two
of these a session may begin or end (`Connect`, `Disconnect`), a file be written, or
sshd exit by itself (`SshdExits`). One session is followed: it is `unseen`
until a scan adds it to `connections`, `tracked` from then on, and `escaped` if its
sshd ends while it is unseen, because a scan looks for descendants of the running
sshd only. Left out: host keys, the entry's own supervisor, and an sshd that exits
while `/proc` is read: `trackConnections` then reads the pid of no child,
the supervisor ends (`ssh-server.mjs:31`), and the container's main process with it
(`development-workspace.mjs:64-68`).

### Telemetry

One scope in one tier. `Take` measures the interval since the sample before,
`Roll`, `Retire`, `Seal` and `Checkpoint` are `record`; a write may fail, the
collector may crash between any two, the clock may be set back (`Reverse`);
`Initialize` reads the checkpoint and asks `HasFinalized`. A bucket is the set of the
ticks it accounts for, of which its sums and distributions are functions, and its
`weight`, which counts a tick as often as it was added. `Valid` is the check that a
bucket does not weigh more than it lasts, which collector and reader make alike:
`Readable` is what the gateway's reader finds, nothing where the bucket that
`Stands` is not valid, and `finalized` are the buckets with a valid row, which
`HasFinalized` looks for.

### LiveFeeds, LiveView

`LiveFeeds` has both kinds of pages, told apart by `stream`: those of
`live-snapshots.ts`, whose revisions are hashes, and those of
`telemetry-stream.ts`, whose revisions are random. `Request`, `Abandon`, `Apply`
and `Reload` are the page, `Collect`, `Send`, `Respond` the handler, `Forget` the
limits and expiry. `LiveView` is the promise: every page shows one moment of the
server and never an earlier one than it has shown. The mapping gives the
server's history for `log` and, for `view`, what each page holds and the moment
it is of; Abandon, Collect, Send, Drop and Forget map to stuttering.

### LogFeed

The pipe's last bytes reach the file after the process exited and before the
completion records the end (`Write`, `Exit`, `Finish`); `List`, `Lookup`, `Read`
and `Answer` are the gateway's request for a page of the log, each an await of its
own; `Show` the page. `AskDetail` and `Merge` are the second source of a card of
the audit page. A character has two bytes, so that a page can end within one
(`Unfinished`).

### Common assumptions

An update of a JSON store is one step: `JsonStore.update` queues updates and
replaces the file with a rename. Reads that change nothing are merged with the
step that uses them unless an await separates them and something else can change
what was read. The one exception is `PassBegin`, which reads the requests of both
origins in one step (`reconcile-user-runners.mjs:256-259`). Left out is
a pass that sees the owner's request and not an administrator's just before it,
stored between the two reads: the owner's, being the later, governs with or without it.

## 3. What is checked

Bounds are chosen such that each hazard of `PROJECT.json` fits: two actors
for every race, one more slot than a limit, and one crash or failure at every point
(two failing commands of the provisioner, so that the rollback of a replacement
fails too; that of a migration fails in the theorems only). `MC_Live`, `MC_Console`, `MC_Apps` and
`MC_Runner` hold components that share no state: a behaviour belongs to the part
chosen at its start, the others stay as they began, so that one run explores
each of them within its bounds.

| Run | Instance | Shows |
|---|---|---|
| `sessions` | 4 sessions, 2 requests, 2 users, 3 clients, limits 1 per client and 2 per user, all symmetric | `AdmissionBound`, `EvictionAdmits`, `IdleTimerArmed`, and the action property `AdmissionEvictsOwn` |
| `oauth` | 2 consents, 3 pairs, 2 handlers, 2 kinds of refresh, 1 change of the account and of the connection | `ConsentGivesOnce`, `RevocationEndsAccess`, `RevokedConnectionStaysCut`, `RotationIsAChain`, `GrantsAreKept` (OAuth implements Grants) |
| `live` | sessions: 2, with 2 clients of a user and limits 1; processes: 1 execution, 2 stops, 1 crash, 1 failed write; SSH: 2 keys, 1 change | `IdleSessionsExpire`, `ReservationsEnd`, `ExitIsRecorded`, `StopReturns`, `RevokedSessionsEnd` |
| `console` | accounts: 2 of Google and a legacy one, 2 handlers, 3 changes; pages: 1 page, 2 fields, 2 requests, 2 changes, 1 snapshot kept; logs: 5 bytes, 3 read at a time | `ConsoleTypeOK`, `SessionsAreCurrent`, `AdminRemains`, `PagesFollowTheServer`, `TailIsShown`, `OverStaysOver` |
| `apps` | apps: 2 accounts, 1 name, 2 processes, 2 handlers, 1 failed call; previews: 2 viewers, 2 codes and cookies, 2 visits, 2 changes; tunnels: 2 ids, 2 connections, limit 1, table of 1, clocks 1 apart, lines valid for 2 of 5 ticks, 2 restarts or reversals; directories: 2 accounts and one with an older directory, 2 roots, one of them inside it, 1 name, 2 failures, crashes or changes on the host together | `ReachTypeOK`, `ProcessOfOwner`, `ServersAreTracked`, `RevocationEndsPreview`, `OneTunnelPerRequest`, `DirectoriesAreOwn` |
| `runner` | processes: 2 executions, limit 1, 2 stops, 1 crash, 1 failed write; SSH: 2 keys, a request, 3 changes, 1 failure (`SshBound`); telemetry: 4 ticks, buckets of 2, 1 reversal, 1 failure; migrations: 2 writes, 1 failing command, 1 crash | `FinishedMeansOver`, `LiveIsRegistered`, `KeysRegisteredAgain`, `HistoryStays`, `CountedOnce`, `WorkIsShown`, `OriginalIsKept`, `FailureRestores` |
| `provisioner` | 2 requests with 2 failing commands, 1 crash and 1 change of the account; 3 requests with one of these (`FewDisturbances`) | `McpAppliesOnce`, `ReportedIsDone`, `StoppedStaysStopped`, `ContainerIsKept`, `RepeatedAfterTwo`, `CalmPassSettles` |
| `oauth_revoke_race` | as `oauth`, one kind of refresh | `RevokedConnectionHasNoAccess` is violated |
| `provisioner_replay` | 3 requests, no failure | `DevelopmentAppliesOnce` is violated |
| `provisioner_disabled` | 1 request, 1 crash, 1 change of the account | `DisabledAccountStops` is violated |
| `provisioner_interrupted` | 2 requests, 1 crash | `InterruptedIsFailed` is violated |
| `migration_storage` | 1 write, nothing fails | `SplitRetainsStorage` is violated |

Four sessions and three clients are one more than the limit of two per user and
of one per client, so both limits bite, alone and at once. Two executions with a limit of one make
every launch compete. Three pairs let a token be refreshed twice and an old one
be presented again. Three requests let one of
either origin arrive during or after the carrying out of two earlier ones, which
is what it takes to repeat one; two failing commands let the
rollback of a failed replacement fail, and a crash or a change of the account may
fall anywhere in it. Two writes of the owner let one fall
before and one after a copy. Two changes of an account let it be disabled and
enabled again with a request of the first version still under way, and a third
lets that request take effect. One name for all directories makes every
assignment after the first compete for it; trying the next name is the same
step again. Three
numbers name the snapshots of two changes and one that was forgotten.
Two restarts let a request be exposed again after it was accepted twice. One change
of the account or its keys is what withdraws a key; the stop it leads to, the session
and the renewal under way do not need a second.
`SshBound` is a constraint of `runner`: after its second change
SSH access is followed only where no session is open and the supervisor is between
two turns. `KeysRegisteredAgain`, the property of SSH access in this run, is about
the account, the entry and the requests, which neither the supervisor nor a session
changes, so that no state of theirs is missed.

`LiveIsRegistered` says that processes under way are registered, or being
launched, or known to be lost in a crash, and within the limit: a launch that fails
after the spawn must kill what it started. `OriginalIsKept` and
`FailureRestores` are about single steps and the end of a rollback; `WorkIsShown`
holds at every moment someone could work, except after a failure that a rollback
could not undo (`torn`; section 6 says what then happens). `MigrationStorage.cfg`
has an installation whose volumes do not have their new names when it is
split (`NamedFirst = FALSE`); `runner` assumes they do, because otherwise the disagreement
below is found at once.

Deadlock is checked for the sessions and for OAuth, where something can always
happen. It is not for the others, whose bounded histories end: all executions
have been used, all requests made, the last tick reached.

### Fairness

Only `live` uses fairness, of the part a behaviour is of.

`McpSessions`: the timers of the event loop fire (`Tick`, `IdleTimeout`), a
started loop of `reserve()` runs on, an initialize handler returns. Requests,
streams and closes carry no fairness. Strong fairness is needed only because
the model splits `reserve()`: between its iterations the timer of a session is
not enabled, while in the program it just waits for the end of the turn.

`ProcessService`: promise continuations run (`LaunchRecord`, `LaunchReturn`,
`Complete`), a `stop()` call proceeds or meets its time limit, and the restart
policy of the container brings the runner back. Processes need not exit nor close
their output.

`SshAccess`: the supervisor's loop goes on from each of its steps (`Supervise`: every
wait in it is bounded) and time passes (`Tick`). Nothing is assumed of
the provisioner: the lease ends sessions when it dies. `RevokedSessionsEnd` is
checked without failing renewals and with an sshd that does not exit by itself, and
says nothing of a session that escaped; the code does not keep README.md:434 for
those (section 6).

All other properties are safety properties.

## 4. Disagreements between the code and its documentation

1. `oauth_revoke_race`. `revokeConnection` deletes what is stored; a token
   request that has taken a code out of the store and waits for the account
   stores a new pair afterwards. `RevokedConnectionStaysCut` (holds, proved)
   says that this is the only way around a revoked connection, and
   `RevocationEndsAccess` (holds, proved) that revoking an account has no such gap,
   because the code carries the account's version.
2. `provisioner_replay`. The owner's request P1 was carried out, then an
   administrator's lifecycle request R2. When the administrator then applies new
   limits, that entry replaces R2, P1 governs the development container again
   and is carried out a second time. `McpAppliesOnce` (holds, proved) is the same promise for
   the MCP container, where only one origin exists. `RepeatedAfterTwo` (holds, proved)
   says that there is no other way: it takes two later requests, the last of them the
   administrator's, and no crash, failure or order of the writes and reads repeats a request without them.
3. `provisioner_disabled`. While the governing request is a stop,
   `reconcileWorkspace` does not synchronize the development container. A stop that
   failed or was interrupted is not repeated either, so the container of an account
   disabled afterwards runs on. `CalmPassSettles` (holds, proved) says that this is
   the only thing of a disabled account that runs after an undisturbed pass.
4. `provisioner_interrupted`. After a crash between the rename of a container
   and the creation of its replacement, `migrateNames` throws on every pass,
   before the journal is looked at: the request stays "applying" and later
   ones are not taken up. `ContainerIsKept` (holds, proved) says that nothing is lost, and `CalmPassSettles`
   that an undisturbed pass leaves "applying" in this case only.
5. `migration_storage`. The split runs before the naming migration and creates
   the runner through a script that mounts the volumes named after the account.
   A unified container still on volumes with UUID names is split into a runner
   on new, empty volumes; they look current afterwards, so nothing copies the
   old ones, and the development container follows at the next synchronization.
   The old volumes are kept.

## 5. What is proved

The theorems hold for every value of the constants that the named assumptions
allow: limits and bounds are natural numbers (positive where the code's
defaults are), `None` and the marks of the models are no elements of the other
sets, the roots of directories are ordered by what lies inside what. Of
the sets only the connections of Tunnels need to be finite. A module's assumption is named after it; the modules that
are instantiated define theirs, and `ConsoleAssumption`, `ReachAssumption` and
`RunnerAssumption` assume them of the instances, where TLC evaluates them.

Every proof goes: initial states satisfy the invariant, each action keeps it
(one step per action), it implies the property. The operators about sets and
cardinalities are lemmas of their own, and so is the fact that most actions
leave an invariant's variables alone or only take from them (`AddsNothing`,
`Lasting`, `Quiet`, `Harmless`, `Grows`).

| Module | Theorems |
|---|---|
| McpSessions_proofs | `Typing`, `AdmissionIsBounded`, `EvictionIsNotInVain`, `TimersAreRight`, `EvictionIsOwn` |
| Provisioner_proofs | `Typing`, `NeverReplayed`, `NeverLost`, `ReportsAreTrue`, `StopsAreKept`, `CalmPassesSettle`, `RepeatsAreTwoLater` |
| OAuth_proofs | `Typing`, `ConsentIsUsedOnce`, `RotationChains`, `RevokedAccessEnds`, `RevokedConnectionEnds`, `PromiseIsKept` (OAuth implements Grants), `HeirsAreOne` |
| ProcessService_proofs | `ServiceTyping`, `WhatIsOverIsOver`, `NoProcessEscapes` |
| Apps_proofs | `Typing`, `ProcessesAreOwn`, `NoServerIsLost` |
| MC_Apps_proofs | `RequestsOpenOnce` (Tunnels), `DirectoriesStayApart` (Workspaces), `RevokedRightsOpenNothing` (Previews), `ReachTyping` |
| MC_Console_proofs | `ConsoleTyping`, `AccountsTyping`, `SessionsEndWithAccess`, `AdminIsNeverLost` (Accounts), `LogIsShown`, `OverIsFinal` (LogFeed), `PagesKeepThePromise` (LiveFeeds implements LiveView) |
| MC_Runner_proofs | `KeysAreCurrent` (SshAccess), `TicksCountOnce`, `HistoryIsKept` (Telemetry), `FailureUndoes`, `WorkStaysInView`, `OriginalStays` (Migrations; the last two where `NamedFirst`), `RunnerTyping` |

The theorems about Tunnels, Workspaces, Previews, LogFeed, LiveFeeds, SshAccess,
Telemetry and Migrations are stated of the component's own specification, in the
instance of the MC module: its constants are those of the MC module, for every
value of them.

**McpSessions.** `Typing` (`TypeOK`) needs that the requests under way are
finitely many, because pins are counted; this is part of the inductive
invariant, so that the sets of the constants may be infinite.
`AdmissionIsBounded` and `EvictionIsNotInVain` come
from one invariant, `AdmissionInv`: every user holds finitely many places within
both limits, and `EvictionAdmits`. Neither half is inductive alone: one eviction makes
room only because the loop of `reserve()` starts within the limits, and the
place taken after the loop fits only because of the room. `TimersAreRight` needs `PinInv`: the counter in `active`
equals the number of requests that pin the session, and the timer follows the
counter; this holds because an end that is signalled twice counts once, and
because an admission under way reserves a slot nothing refers to yet. `EvictionIsOwn`, an action property,
follows from the bound: with the limit respected, "at the limit" and the
candidate filter of the code select the same sessions.

**Provisioner.** `Typing` has one lemma over all steps. `NeverReplayed`
(`McpAppliesOnce`) rests on `JournalInv`: the revision in memory and in the
file agree, neither is ahead of the request read nor this of the one stored,
everything carried out is at most the journalled revision, and at the two places before the
dispatch the request read is the one journalled and has not been carried out. A
crash keeps the file, and a later pass reads a request that is not older; without the
order between the three the invariant is not kept by a crash. `NeverLost`
(`ContainerIsKept`) rests on `ReplacementInv`: at the steps that remove or
rename a container the other one is there, and a development container is only
made beside an MCP container. `ReportsAreTrue` (`ReportedIsDone`) and
`StopsAreKept` (`StoppedStaysStopped`) share `ReportInv`: each place of a pass
belongs to the kind of request it carries out and knows where it returns to;
a pass that carries out a stop is never at a step that starts a container; what
status will say is fixed at the places that return; the requests are ordered as
they were stored, read and journalled; "applied", in memory or in the file,
implies that the revision was carried out. The last is needed for both copies: a
crash takes the one in memory back to the one in the file.

`CalmPassesSettle` (`CalmPassSettles`) rests on `CalmInv`, what an undisturbed pass has
settled at each of its places: from the automatic stop on, the MCP container of a
disabled account does not run, and from the end of the runner's half on, a request is
"applying" only if the name check refused the pass. The half of the development
container needs `OrderInv` beside it: while a stop that was carried out is in either
copy of the journal and still asked for, the container is stopped and is not held to be
started again. Only then is a running one, where the synchronization is skipped for
a stop, one whose stop failed. `OrderInv` is kept by requests because a new
revision is in no journal yet, and by crashes because both copies name one
revision except between the journal's last two entries.

`RepeatsAreTwoLater` (`RepeatedAfterTwo`) rests on `RepeatInv`: a request carried out on the
development container is the one in the journal or is superseded (`Superseded`), in the
stores and in the pass's copies of them. The journal keeps one revision only,
so that a superseded request which governs again is taken for a new one; `GovernsAgain` shows
that it is then the owner's, and that the administrator's entry is the second after it at least.
What the copies supersede the stores do (`StoresSupersede`), which is why a pass that
has read its requests too early adds no case.

**OAuth.** `ConsentIsUsedOnce` (`ConsentGivesOnce`) rests on `PlaceInv`: a
consent is in one place, the pending transaction, a stored code, one request
that took the code out, or the pairs given for it. `RotationChains` (`RotationIsAChain`) on
`Succession`: a pair's successor was made while it was refreshable and took
that from it, so that two refreshes which overlap share one answer.
`RevokedAccessEnds` (`RevocationEndsAccess`) on `VersionInv`: what is consented
to carries the account's version of that moment, through every request and
rotation, and was consented to at a moment that is past. `RevokedConnectionEnds` (`RevokedConnectionStaysCut`) on `CutInv`,
which says the same of refresh tokens, codes and requests as the property says
of access tokens; the race of section 4 is the only exception it makes.
`PromiseIsKept` (`GrantsAreKept`) is the refinement, one lemma per action. It needs that a version is
never ahead of its account: else a change of the account would bring back what was
consented to under the version it gets, where `Revoke` only takes. It needs
`PlaceInv` for `Consent` and `Use` (the consent is nowhere else, and none of its tokens exist) and that
a rotation gives the new pair the right of the old one. `HeirsAreOne`
(`OneHeir`) is proved of Grants and holds of OAuth through the refinement: a consent is unused or
has at most one token that renews it.

**ProcessService.** `ServiceInv` relates three records of one process: its
entry in the registry, the call that launches or stops it, and what the system
runs. A launch claims its place before it spawns, so that the limit is about
processes and claims together (`LimitInv`); what is dead, drained or recorded
as over stays so (`Lasting`).

**Apps.** `ProcessesAreOwn` (`ProcessOfOwner`) rests on `OwnInv`: the app that a
request holds between two awaits, and the process it is about to record, are of
one owner. `NoServerIsLost` (`ServersAreTracked`) needs `TrackInv`: as long as
no two requests overlapped on an app, one request at most is between the halt and the save
of an app (`Exclusive`), it owns what it names (`OwnsIt`), knows the process the app
has (`KnowsIt`), and after the halt none runs (`NoneRuns`).

**Tunnels, Workspaces, Previews.** `RequestsOpenOnce` (`OneTunnelPerRequest`)
rests on `OnceInv`: a line that would be accepted (`Owed`) has been accepted no more
often than upsets exposed it, so that the next time is still within the bound. Time alone
makes no line acceptable again: its id stays in the table until it is too old, at
either clock, and the full table refuses instead of forgetting. Only `Restart` and
`SetBack` can, and each then counts in `exposed`. `DirectoriesStayApart` (`DirectoriesAreOwn`) has three parts: what
is on the host (`WorldInv`: who each directory was made for, which are recorded
and mounted), what an account's containers hold (`HoldInv`), and what the pass
knows at each of its places (`PassInv`); a directory was made by this pass for
this account, or was recorded for it, before anything is mounted.
`RevokedRightsOpenNothing` (`RevocationEndsPreview`) rests on `PreviewInv`: codes,
cookies and visits carry a version of the account that was current when they were made,
and versions only grow (`Grows`).

**Accounts.** `SessionsEndWithAccess` (`SessionsAreCurrent`) and
`AccountsTyping` rest on `RequestInv`, what a request has read at each of its
awaits. `AdminIsNeverLost` (`AdminRemains`) is about steps: each update of the
account store counts the administrators in the same update.

**LogFeed, LiveFeeds.** `LogIsShown` (`TailIsShown`) and `OverIsFinal` (`OverStaysOver`)
rest on `LogInv`: what the card holds is the log up to its cursor, an answer
begins where the card ended or comes too late, and an answer that says "over"
was read when the log was complete. `PagesKeepThePromise` is the refinement,
step by step: `LiveInv` says which moment of the server each snapshot, answer
and page is of, and each action maps to a step of LiveView or to a stutter.
`ConsoleTyping` (`ConsoleTypeOK`) adds that the store of snapshots stays within
its limit (`StoreInv`): the snapshot of an answer takes the place it had, or the newest
are kept and the oldest go.

**SshAccess.** `KeysAreCurrent` (`KeysRegisteredAgain`) rests on `EntryInv`: the keys of an entry were
registered at the entry's version; a request that read an older account either
finds that version or starts the entry anew (section 6).

**Telemetry.** `TicksCountOnce` (`CountedOnce`) rests on `TimeInv` and
`CountInv`: as long as no write failed, a bucket in memory, in a row or in the
checkpoint weighs what it has, all of it within the bucket (`Sound`), and the open one
ends before what the next sample adds (`Fits`). `HistoryIsKept` (`HistoryStays`) rests on `RowsInv` and
`CheckpointInv`: no bucket with a valid row is newer than the open one, which has
all that such a row of it has, and a valid bucket that only the checkpoint has is
the open one or is restored. A bucket that outgrew its duration is the property's only
exception; `NoneOutgrown` takes from `CountInv` that it needs a failed write: what is
`Sound` is `Valid`.

**Migrations.** `FailureUndoes` (`FailureRestores`) rests on `JobInv`: for each
of the places of a split or a move of names, which containers exist under which
name, and are running, relative to what the job found (`JobFits`, `BoxesFit`).
The rollback starts from any of the places where a command can fail; that it
ends at the containers found follows because the invariant names, at each, the one that
holds the original.

`WorkStaysInView` (`WorkIsShown`) and `OriginalStays` (`OriginalIsKept`) assume
`NamedFirst`, the order of an installation that was named before its runtime is
split, and rest on `WorkInv`. Such an installation is of one of two kinds. If it
was made under its runner's name, all its containers stand on one volume, and what
is to be shown is only who is set aside for whom (`DirectInv`). Otherwise there are two volumes
and the work is all on the old one (`OldHas`) or all on the new one (`NewHas`);
`MovingInv` says which of the two holds at each place: the copy is complete before
a container stands on the new volume (`Labelled`), nobody writes while it is
made (`Copying`), and a replacement that was started stands on a complete one
(`Replacing`). It is inductive because a command that fails, a crash and a
rollback each leave one of the two in force; `torn` excludes what they do not
cover, a failure once the replacement was started or in the rollback (section 6).

**Only model-checked.** The liveness properties (outside of what the prover
handles) and the disagreements of section 4. Conversely the type invariants of the
sessions, of OAuth, of the provisioner and of the parts of `MC_Runner` are proved and
not checked by a run of their own: with a proof for every value of the constants, a run
shows nothing more.
Without `NamedFirst`, `WorkIsShown` and `OriginalIsKept` are neither checked nor
proved: there the code disagrees with them (section 4).

## 6. Not modelled

- Rendering, form handling, configuration, cryptography, HTTP proxying and
  streaming: no state whose interleavings matter, or pure I/O.
- Telemetry: the arithmetic of sums, percentiles and rates, parsing of figures,
  retention.
- MCP tools on files, Git and projects: sequential, their state is the file
  system.
- The audit log, login limiter and the script that migrates the primary account
  are small and sequential, or run while the service is stopped.
- The one-time code of the onboarding.
- The reuse of a PID between a check and a signal, the order of microtasks in
  the launch semaphore, a Docker command that takes effect after the pass went
  on.

What the code does in situations that properties above exclude, or that are
below their grain:

- Processes: once the process has gone while a descendant still writes, a
  character cut at the end of the log is no longer held back
  (`process-service.ts:379-388`): its first half is decoded apart from the rest
  that arrives later.
- Apps: two overlapping operations on an app, or one whose stop failed, may leave a
  server no app knows; `start` saves the visibility it read before.
- Tunnels: connections that were checked while others were connecting exceed
  the limit. The table of seen ids is in the runner's memory only
  (`ipc-server.ts:23`): after a restart of the runner, or when its clock is set back far
  enough, a line younger than 30 s is accepted again and opens a second tunnel,
  against SECURITY.md:58, "a replayed or stale request is refused".
  `OneTunnelPerRequest` allows one for each such upset.
- SSH: a request that read the account before a change and adds its key after
  another key was registered sets the entry back to the older version; both
  keys are then without effect. README.md:434 says that a change of the keys closes the
  existing sessions, and `ssh-server.mjs:5-6` that the supervisor does; the code does
  not in two cases. If sshd exits by itself and the next
  manifest has another revision, a new sshd is started with it and sessions of
  a withdrawn key go on (`ssh-server.mjs:114-121`). And `stopSsh` scans `/proc`, then awaits
  once per connection, and only then signals the listener (`ssh-server.mjs:56-71`): a
  session that is accepted in between is in no set, outlives the listener, and is a
  descendant of no later sshd, so no later scan finds it. The withdrawn key still
  lets it in where `authorized_keys` has not been replaced, which is so after the provisioner
  died; and the session of a key that is in force at that time goes on when
  the key is withdrawn later. Both are `escaped` in SshAccess, and `RevokedSessionsEnd`
  leaves them out.
- Telemetry: a collector restarted with the clock behind its history may write a
  row of a bucket again with less in it (`behind`); a write that fails and a
  clock set back after it count ticks twice (`telemetry-store.mjs:332`). A bucket that
  was full then weighs more than it lasts: the collector drops it at a restart
  (`telemetry-store.mjs:165`) and the reader ignores it
  (`telemetry-store.ts:730-735`), also where it read an earlier row of it before.
  `HistoryStays` makes an exception for it.
- Workspaces: a root that was cleared and entered again makes `probeRoot` read
  the time of a verdict it has dropped (`runner-operations.mjs:766-780`): it
  throws on every pass, no verdict is published and the onboarding waits, until
  the provisioner restarts or another root is entered. Only directories of
  legacy accounts are reserved, so that during the onboarding a root may be set
  inside a directory assigned under an earlier root. `POST /complete` does not
  look at the root again after its check: a root entered meanwhile is taken
  unverified, and refused when a directory is assigned. A crash between the
  creation of a moved container and its record leaves a container that
  `hostWorkspace` refuses from then on.
- Migrations: where a rollback itself fails, or the removal of the set-aside
  container fails, the hold may start the development container on the volume
  left behind, and what is written there is not seen by the runner (`torn`); a
  rename that had its effect and reported an error is not undone (`unclear`). A
  crash between the rename and the creation of a split leaves the original as
  `-before-split`, and the next pass creates a new pair without its packages.
  A journal says "ready" before the container is renamed; only an operator who
  removes the container between the two makes the older copy the one in use.

## 7. Plan

The modules of section 2 are done. What is left, in this order:

1. **Permit**: the semaphore's hand-over in the order of microtasks, refining
   the exclusive permit that ProcessService takes for granted.
2. **AuditTrail**: the append-only log with aggregation of repeated failures.
3. Operators for pure algorithms, checked against reference definitions: paging
   of output, percentiles of telemetry.

Modules are written for proofs: no RECURSIVE operator, constants with named
assumptions, one action per step.
