# wings-panel: a TLA+ project

TLA+ models of the wings-panel game-server panel, the TLC runs that check them,
and TLAPS proofs about each of them. Everything is translated from the source
under `src/`; where a comment of the source, its README and its code differ, the
code is modelled. `PROJECT.json` names, for every definition, the lines that it
stands for. The repository has no tests.

1. [The system](#1-the-system)
2. [The models](#2-the-models)
3. [The runs](#3-the-runs)
4. [Fairness](#4-fairness)
5. [What is proved](#5-what-is-proved)
6. [Where the code does something one would not expect](#6-where-the-code-does-something-one-would-not-expect)
7. [What is not modelled](#7-what-is-not-modelled)
8. [Plan](#8-plan)

## 1. The system

```
 browser ──HTTP, websocket──> panel (FastAPI, 4 uvicorn workers) ──HTTP, websocket──> daemon (Go) ──> Docker engine
                                 │                                                     one per node      containers,
                                 └── PostgreSQL                                                          volumes, images
```

* **Panel**, `src/panel/main.py` (with `models.py`, `schemas.py`, `database.py`).
  `Dockerfile.panel` starts four worker processes. They share nothing but the
  database: the polls of installs and the open consoles live in the memory of one
  worker. An `async def` handler runs on its worker's event loop and is
  interrupted only at an `await`; a plain `def` handler runs in a thread
  pool. SQLAlchemy sessions keep what they loaded until a commit expires it,
  flush only the columns that changed, and raise when the row is gone.
* **Daemon**, `src/daemon/main.go`. One goroutine per request, and goroutines
  that outlive their request: the installs, the
  readers of websocket consoles, the connection to Docker at start. Its state is
  in memory, behind one mutex each: the Docker client, the cache of the image
  list, the registry of installs.
* **Frontend**, `src/frontend/src/app/page.tsx`: one React component of 2900 lines
  with all state in hooks. A handler runs from one `await` to the next without
  interruption, and goes on with the values of the render it was made in; effects
  run after the render that changed what they depend on; intervals keep the closure
  they were made with until they are cleared. Any request may be answered after any
  other, and nothing is cancelled when the user goes elsewhere or signs out.
* `node_monitor.py` polls and prints. `src/daemon/main.py` and its helpers are an
  older daemon in Python which `Dockerfile.daemon` does not build.

### Components

| Component | State | Operations | Hard | Correct when |
|---|---|---|---|---|
| Image list cache (daemon, `main.go` 201-260, 779-931) | list, its age, the flight and its channel | get, begin and finish a refresh, set, invalidate | requests and image changes interleave between any two of these; `finishRefresh` runs twice | nobody waits for ever or closes a channel twice; old data enters in one way only |
| Installs at the daemon (`main.go` 193-304, 970-1154, 1464-1477) | registry uuid → channel; container, volume and directory of a server | install (eight steps in a goroutine), delete, install status | install and delete of one server overlap; waits time out; the process restarts; the errors of Docker are ignored | the registry names the newest install and nobody else; a delete leaves nothing of an install it waited for |
| Server lifecycle (`main.py` 702-971, 1150-1188, 1310-1540) | the `servers` row; the daemon's containers | create, reinstall, transfer, delete, suspend, power, stats; poll of an install; status sync | every handler waits for a daemon between its read and its write | a deleted row stays deleted; a suspension holds; an install is resolved; one container, on the row's node |
| Allocations (`main.py` 629-836, 1334-1364, 1494-1514, 1903-1981; `models.py` 48-98) | `allocations.server_id`, `servers.primary_allocation_id`, nodes | create, clone, transfer and delete a server; delete an allocation or a node | check and write are apart, in four workers, with no unique constraint | who owns a port keeps it |
| Power schedules (`main.py` 900-935, 978-1133, 2011-2068) | `server_schedules`; the advisory lock | the loop; toggle, delete | four loops, one lock; slow calls; rows deleted in the middle of a round; crashes | each time fires once, in its window |
| Status synchronization (`main.py` 900-971) | the rows' `status`; the advisory lock | the loop | as above | every row comes to say what its container does |
| Docker client (daemon, `main.go` 307-428, 536-556) | the client, its lock, the fallback | connect, reconnect, force negotiation, call and retry | the decision to connect is taken outside the lock | a caller has a client that works, or an error; the daemon recovers when the engine does |
| Websocket consoles (`main.py` 1654-1758, `main.go` 1482-1614) | two websockets, an exec, a channel | open, type, print, close from either side | two goroutines close one channel; each proxy holds a database connection | no connection, handler or goroutine stays behind; the browser learns of the end |
| Backups (`main.go` 1903-2048, `main.py` 1622-1650) | the archive in `/tmp`, the file on the host, the copy in the volume | create, restore, delete; reinstallation | nothing serializes them, nor the writes of the server; each is a row of commands that may fail, be cut off, or lose output | a restore that succeeds puts back what was saved; a backup stays |
| Session of the page (`page.tsx` 299-385, 484-496, 1207-1251) | the token, its copy in `localStorage`, the user; the closures of two intervals and of each `fetchAll` under way | mount, log in, verify, log out, reload, open a tab, select a server; answers, errors and 401s | a request speaks for the session of its closure; its 401 ends the session of the moment | each session asks as itself, ends for a reason, and shows its own user and lists |
| Handlers, dialogs and lists of the page (`page.tsx` 544-1200 and the JSX that calls them) | tab, selected server, dialog and what it edits, popup, flags, 24 lists | 50 handlers that write, 24 kinds of reads, intervals, navigation | a handler goes on after its `await` with what was selected and edited before it | a form is saved over what it was loaded from; the page settles on what the panel has; no double submission; no button stays disabled |
| Browser terminal (`page.tsx` 403-484) | xterm and its socket, in refs | connect, write, dispose | - | not modelled |
| ttyd consoles (daemon, `main.go` 46-161) | the table uuid → process | start, stop | no caller: superseded by the websocket consoles | not modelled |
| Accounts, API keys, members, login throttle | rows, the failed attempts among them | log in, register, edit | the throttle counts and records apart, in four workers | not modelled |
| Nodes, networks, images, groups, templates, announcements, settings, bug reports | rows | edit | – | not modelled |
| Webhooks (`main.py` 2189-2341) | rows | deliver | a task of its own delivers after the request is over | not modelled |
| Start-up (`database.py` 61-100, `main.py` 43-190) | the schema | create tables, migrate, seed | four workers do it at once | not modelled |
| Files, logs, commands in containers | – | exec and read | – | not modelled |
| Cloudflare DNS, Playit tunnels | external services | one request each | – | not modelled |

`PROJECT.json` lists the hazards of this code one by one, each at the line where
it bites, with the properties that would catch it.

## 2. The models

One module per component, eleven in all, a table of the page's handlers, and one
abstract specification; each says in its head how it cuts the code into actions. The rule is the same everywhere: what the code does between two points
where something else can run is one action. In the panel those points are the
`await`s, the commits that other workers can see, and the calls to the daemon; in
the daemon they are the releases of a mutex, channel operations and calls of the
Docker engine; in the browser they are the answers of requests. A request is a member of a constant set, its program counter is a
value of `pc`, its local variables are functions of the request.

| Module | Code | State ↔ code | Actions ↔ code |
|---|---|---|---|
| `ImageCache` | `imageListCache`, `handleSystemImages`, `handleSystemImageDelete`, `handleDockerBuild`, the pull of an install | `data`, `inflight`, `done` are the fields; `fresh` is the comparison of `ts` with the ttl; a channel is named by the request that made it; a list is the number of image changes before it was read | one per call on the cache or the engine: `Get`, `BeginRefresh`, `Receive`, `Reget`, `ListImages`, `Set`, `FinishRefresh`, `DeferredFinish`, `Invalidate` |
| `ServerInstall` | `registerInstall`, `createAndStartServer`, the DELETE of `handleServerSpecific`, `waitInstallDone` | `installs`, `closed`; container, volume and directory carry the install that made them | one per call of the engine, per registry operation, plus `Restart` of the process |
| `ServerLifecycle` | the handlers of `main.py` for one server, `_poll_install_complete`, the sync, and the daemon as the panel sees it | `row`; `snap` is what a session has loaded; `ans` what `call_daemon` gave | each handler cut at its awaits; `Flush` is SQLAlchemy's commit, `Load` its read |
| `Allocations` | `create_server`, `clone_server`, `delete_server`, `delete_allocation`, `delete_node`, transfer | the columns, and `loop`, the request that occupies a worker's event loop | check, commit, clone one allocation, insert, erase |
| `Schedules` | `_run_due_schedules`, `_fire_schedule`, `_acquire_loop_lock`, `_next_cron`, `toggle_server_schedule`, `delete_server_schedule` | `sched` rows, the lock's holder, the loop's local variables, ages in ticks of 30 s | lock, scan, call, return, advance, sleep, crash, tick |
| `StatusSync` | `_sync_all_server_statuses` | the rows, the session's copies and whether they are expired | lock, query, read, ask, write, die |
| `DockerClient` | `initDockerClient`, `getDockerClient`, `forceNegotiationClient`, `dockerCall`, `main` | `dockerClient`, `holder` of `clientMutex`; `stage` is how far an install has come | one per critical section, per ping and per call |
| `Console` | `ws_console_proxy`, `handleConsoleWS` | the websockets, `doneChan`, the exec | each side's reads and writes, the closes, the panics |
| `Backups` | `handleBackupRoutes`, `runExec`, `runExecStdIn`, `readDemuxed`, `execExitCode` | host file, copy in the volume, archive in `/tmp`; `/data` and an archive are functions from its parts to what they hold; `left` is what a tar has still to do | `Tar` and `Untar` for one part; beginning and end of each command that writes a file; one for every other command or file operation |
| `BackupStore` | nothing: what the backup routes promise to their caller | what each backup was made of, which are offered and gone, what each request is at | `Save` and `PutBack` for one part, and the answers, each one step |
| `Session` | `apiFetch`, `handleAuth`, `verifyToken`, `logout`, `fetchAll`, `fetchStats` and the effects that call them | tokens are numbered by issue and `owner` is whom one speaks for; `poll` and `timer` are the closures of the two intervals; a member of `fetches` is one `fetchAll`, with the lists it has still to read | one per user action, per effect, and per answer of a request |
| `Handlers` | the handlers of `page.tsx`, row by row | – (a table) | `Handler`, `List` and `Tab` rows: what each handler checks, sends and does after a good, a bad and no answer; which effects and buttons read a list; where each is rendered |
| `Page` | what these rows mean | `tab`, `selected`, `dialog`, `form`, `editing`, `busy`, `popup` are the hooks; `requests` and `reads` are bags of what is under way; `version` counts the writes of a list, `shown` is the version on the page | `Start`, `Process`, `Succeeds`, `Refused`, `Lost` for any handler; `Serve`, `Arrive`, `ReadFails` for any read; navigation and dialogs |

`ServerLifecycle` composes the panel's row with the daemon; it models the
daemon's registry at the grain that the panel observes, and `ServerInstall` models the
same code step by step. `StatusSync` models the loop of which `ServerLifecycle`
has one round for one server: the former for its sessions and its death, the
latter for what its writes do to other requests. `Page` follows one list of the
table at a time, with all handlers that write it: lists meet only in the tab, the
selected server, the dialog and the popup, which are there for each; `Session` has
what all lists share, the token. `MCAllocations`, `MCBackups`, `MCPage`,
`MCServerLifecycle` and `MCSession` hold the sets and symmetries for TLC; the other
runs check the component's module itself.

**Refinement.** `Backups` implements `BackupStore` (`Implements == Store!Spec`): what
`tar` has read is `saved`, the creations that were answered are `offered`,
and the control states of a request are five phases. The store is no transaction,
because the code is none: the server and other restores write between two parts, and what
an archive does not hold stays. What it does promise is that each part of a backup was read
from `/data` while that backup was being made, and that a restore that is answered with success
has put back each of these parts and of no other backup, wherever it found them and
whatever copies, deletions and restores overlapped it. The one excuse is a `tar` whose
connection is lost, which the daemon takes for one that is done (`lost`). The commands on
files are stutters of the store. `MCBackups` checks it, and `Backups_proofs` proves it.

**History variables.** Several properties hold only as long as something has not
happened, and the code does allow it to happen. Rather than switching the
behaviour off, the models record it, so that the runs explore everything
and the property says exactly when it is promised: `rivals` (Allocations) are the
requests that were at work when a server was committed; `refused` (ServerInstall) are the
deletes whose last removal failed, and `newest` the install that registered last; `overtaken`
(ImageCache) are the fills that an invalidation overtook, and `asked` the last one before a
request; `missed` (ServerLifecycle) are the nodes whose last DELETE was lost or did not remove,
`outage` (StatusSync) the workers whose round the database has failed; `calm` (Schedules),
`early` (DockerClient), `broken` and `raced` (Backups), `late` (Session) and `faults` (Page)
record the faults that section 6 tells of. In `Backups` `lost` is one but for `BackupStore`,
where it excuses an early answer. A history
variable is never read by a guard of the program.

## 3. The runs

| Run | Bounds | Distinct states | Shows |
|---|---|---|---|
| `ImageCache` | 3 requests, 1 change of the images | 349 000 | `NoDoubleClose`, `NoLostWaiter`, `StaleOnlyByRacedFill`, `EveryRequestAnswered` |
| `ServerInstall` | 2 installs, 1 delete, restarts | 32 000 | `RegistryNamesNewestInstall`, `WaitedInstallLeavesNoContainer`, `DeleteAnswered` |
| `ServerLifecycle_safety` | any 2 requests of nine kinds, 2 nodes, the sync, 1 exit or restart of a container or `DELETE` whose last removal fails | 2 070 000 | `OneHome`, `DeletedStaysDeleted`, `SuspensionHoldsAgainstObservers` |
| `ServerLifecycle_liveness` | 2 reinstallations or deletions, unreachable daemon, slow installs | 497 000 | `InstallResolved` |
| `Allocations` | 2 servers, 3 allocations (two on one node), 2 workers, at most one port held by a container left behind | 1 310 000 | `PrimaryExists`, `PrimaryLostOnlyToRival` |
| `Schedules` | 2 workers, one recurring and one single schedule, windows of 4 and 10 ticks, 1 crash | 804 000 | `FiredOncePerCrash`, `MissedOnlyAfterFault`, `KeepsFiring` |
| `Console` | 2 sessions, 1 database connection | 6 900 | `NothingLeaks`, `EndReachesBrowser` |
| `DockerClient` | 1 handler, 1 installer, the start loop | 7 100 | `NeverUnverified`, `DaemonLives`, `RecoversWithTheEngine`, `EveryCallAnswered` |
| `StatusSync` | 2 workers, 2 servers, 3 changes by users or containers | 210 000 | `ADeleteKillsOneLoop`, `FollowsOrDies` |
| `Backups` | 3 requests at a time (repeated), 1 backup name, 2 parts of `/data`, each there or not | 413 000 | `Kept`, `DeletedIsGone`, `Implements` |
| `Session` | 2 users, 2 tokens, 2 `fetchAll` at a time, two tabs, one core list and one of a tab's own that asks a node | 94 000 | `AsksAsItself`, `EndsForAReason`, `UserIsTheTokens`, `OthersListsAreLate`, `ListsFollow` |
| `Page` | each of the 24 lists in turn; 2 servers, 2 items, 1 write per list, 2 or 3 requests and reads under way | 1 190 000 | `SavesGoBack`, `ShowsThePanel`, `OneSaveAtATime`, `FlagsComeDown` |

Why these bounds reach the interesting cases:

* *ImageCache*: three requests are one that fetches, one that begins the next
  flight between the two `finishRefresh` of the first, and one that waits on it.
  One image change already makes a list stale in every position.
* *ServerInstall*: two installs, so that the newer replaces the older one's
  registry entry while both are at work, against a delete at every point.
* *ServerLifecycle*: two requests of any kind, with their polls and the sync,
  are up to five tasks over one row; every stale write of the code is by one task against
  one other. `PollLimit = 1` makes a poll give up at any
  moment, which is what 90 iterations of three seconds do against an install of any
  length; `Grace` is how many turns a container may be missing, so that with `Grace = 0` the
  liveness run has the poll that gives up on a missing container and with `Grace = 1` the
  safety run the one that runs out. `MaxMoves = 1` lets one container exit or start by itself,
  or one `DELETE`'s removal after its wait fail; its first removal may fail at any bound.
  The liveness run drops the second node, the sync and the kinds that
  do not install or delete, because TLC needs the whole graph for it.
* *Allocations*: the third allocation lies on another node, so that a transfer can
  leave a server with a primary there; two workers are needed for two
  blocking handlers to overlap. With three servers the run takes minutes and shows nothing more.
* *Schedules*: the windows are the code's (120 s and 5 min in ticks of 30 s, the
  timeout of a call), so whether two slow calls and a sleep fit a window is checked at its
  real size. The cron pattern is abstracted to a period of three ticks.
* *Console*: a second session is what the panic of the first one's reader takes
  down; one connection makes the pool full with one console.
* *StatusSync*, *DockerClient*: two actors over each shared variable,
  the least with which every read-then-write can be split by another write; in
  `DockerClient` the start loop is a third that connects.
* *Backups*: three requests are a creation or a deletion beside two restores, or three
  restores of one copy. Requests for two names meet in `/data` alone, where the server's own
  writes already do to a restore what that of another backup would, so that one name is enough
  here; the proofs are for any set of names. Two parts let anything come between them.
* *Session*: two tokens are a session and the one before it, of the same user or of
  another; two calls of `fetchAll` are that of the session and a late one. A third
  token adds a session whose relation to the second is that of the second to the first.
* *Page*: two servers are the one that was left and the one that is open, two items
  the one edited before and the one edited now. One write and three requests let a read
  overtake a write, and an older read a newer one; the ten lists with most handlers have
  two under way, which still gives every pair of one request and one read.
  `CHECK_DEADLOCK FALSE`, as the page may stay as it is with a dialog open.

Deadlock is checked everywhere: where requests run once, `Quiet`, `CacheQuiet`,
`ConsoleQuiet`, `Idle`, `NoLoop` or `Dead` is the explicit stutter of a system with nothing left to do. All
parameters named in a comment as a *bound* (`MaxMoves`, `MaxCrashes`,
`MaxTokens`, `MaxFetches`, `MaxWrites`, `MaxOpen`) only cut off behaviours, in the guards of the
actions they bound; `Path` and `Value` (Backups) bound what a `/data` is.

Every property of a passing run has a mutant in `PROJECT.json`: an operator
`Mutant…` next to the definition it replaces that changes it as a plausible slip
in the code would, and which that property catches.

## 4. Fairness

Weak fairness is assumed of goroutines, coroutines and tasks that have begun: the
Go and asyncio schedulers run what is ready, and the calls they wait for have
timeouts, or have an action for their failure, in the code. In particular:

* `ImageCache`: `HandleSystemImages(r)` only; expiry and image changes are never forced.
* `ServerInstall`: `DeleteServer(d)` only. Installs are not fair, since an image
  pull has no timeout: `DeleteAnswered` rests on the 30 s timer of `waitInstallDone`.
* `ServerLifecycle`: handlers and polls, whose calls have a timeout. Neither the
  sync nor the daemon's delete handler nor its installs are fair: that a poll ends does not
  rest on the install, only on the loop's limit.
* `Schedules`: the clock and each worker's task. Time cannot pass a task that
  has something to do at this instant, nor a call or a sleep beyond its limit.
* `Console`: the proxy, the handler, and the reader's steps other than the
  shell's output. Neither a browser that closes nor a shell that ends is assumed.
* `DockerClient`: weak for the handlers' own steps, strong for taking
  `clientMutex`, as Go's `RWMutex` does not starve a waiting locker. The engine is
  free to come and go for ever; `RecoversWithTheEngine` is about one that comes to answer
  every ping. A call of the engine is taken to be answered: for an image pull nothing
  in the code bounds the time, so there `EveryCallAnswered` says that the daemon itself never
  keeps a caller, not that Docker does not.
* `StatusSync`: weak for each loop and for taking the lock when it is free.

* `Session`: requests end, the interval ticks, and of infinitely many requests for
  one list infinitely many are answered well. No user is made to do anything, and no
  token to run out.

`Allocations`, `Backups` and `Page` claim no liveness; that a flag comes down at last
is stated as a safety property there (what raised it is still under way).

## 5. What is proved

Every safety property of the runs is proved for every value of the constants
(any number of requests, workers, allocations, installs, servers, ...). The
assumptions are named in the modules that declare the constants
(`NilAssumption`, `NoneAssumption`, `AllocAssumption`, `NodeOfAssumption`,
`ProcAssumption`, `SyncAssumption`, `BackupsAssumption`, `ReadsAssumption`, ...).
They only say that the special values differ from the real ones, that functions
have their types, that there are finitely many workers, servers and schedules,
at least one worker (`WorkerAssumption`), and for the page that what is followed is
one of its lists (`WatchAssumption`). One theorem has a condition besides,
`RoundFits`, explained below.

| Module | Theorems | Argument |
|---|---|---|
| `Daemon_proofs`, about `ImageCache` | `CacheTypes`, `ChannelsTracked`, `CloseNeverPanics`, `WaitersNeverStranded`, `StaleOnlyByRace` | `CacheTypeOK` is not inductive: that a closed channel is not nil needs `ChannelInv`. Its heart: a flight's channel is open and *belongs to a request that has not yet made its last `finishRefresh`*; closed channels belong to requests past `beginRefresh`, so none is made twice. Then the second `finishRefresh` of a request can end someone else's flight, but never close a closed or nil channel, and never leaves a waiter's channel without somebody to close it. `FillInv`: what is in the cache, in a request's reply or about to be stored is as new as the last invalidation, unless a fill was overtaken by it. |
| about `ServerInstall` | `InstallTypes`, `RegistryNeverStale`, `DeleteIsFinal` | Only an install's own `Unregister` follows its `RegisterInstall`. For the delete: a channel is closed only by an install that is over (`WaitInv`), so what a delete waited for creates nothing after the second removal, whatever other installs, deletes and restarts do and whichever removals failed; `refused` excepts a delete whose own last one did. The registry: `newest` is registered until its own release, because the release of an older install leaves an entry that is not its own alone. |
| about `DockerClient` | `DockerTypes`, `OnlyVerifiedClients`, `InstallersHaveAClient` | `Hidden`: the client is unverified exactly while someone holds the lock. `Connected`, for a daemon that had connected before its first call: the variable is then never nil again, whether the fallback can be built or not, so that what `getDockerClient` reads is a client, twice in a pull and once before a start. |
| about `Console` | `ConsolesFitThePool` | The states, and that the consoles that hold a database connection are never more than the pool has. `PoolKept` counts them: the set of those that hold one is finite and never larger than `Pool`, and a connection is taken only when it is smaller. |
| `ServerLifecycle_proofs` | `TypeCorrect`, `DeletedStays`, `SuspensionHolds`, `OneHomeAlways` | `Inv` is the types, `Control` (where a task can be, by the kind of its request; an install runs only after its handler's POST) and `Loaded` (what a task has read and been told, up to its write). One lemma says what a commit leaves of a row (`FlushRow`: the changed columns, and nothing of a deleted row), and `RowWriters` names the actions that commit; the two action properties follow by a case for each. `OneHome` is not inductive: `Homes` adds that one request is at work at a time (`OneAtWork`), that a container is on the node of the row or on one of `missed` at every moment (`AtHome`), and where a reinstall or a transfer is on its way (`OnTheWay`: no container from the DELETE to the reset, the row on the node posted to from then on). What a poll or the sync writes late keeps the node (`Keep`), so it may come at any time. |
| `Allocations_proofs` | `TypeCorrect`, `PrimaryNeverDeleted`, `PrimaryLostOnlyToRivals` | Types need that a commit gives ports to rows that exist (`OwnersHaveRows`). The second needs only types and the foreign keys. The third is not inductive: one has to know who *may still* take an allocation. `ClaimsFromRivals`: if a request still holds a claim (it checked the allocation, or has it on its list of free ones) to an allocation that a server owns, it is one of that server's rivals. New claims are only to free allocations, and each commit takes all that are at work as its rivals. |
| `StatusSync_proofs` | `TypeCorrect`, `LoopsOutliveDeletes` | A count over finite sets. `CountInv`: the dead loops that the database did not end are no more than the deleted servers *that no round under way will meet again* (`Passed`), and one fewer where a session has failed and is going to end its loop. A loop dies only on a row deleted under its round, which that step puts behind every round. |
| `Backups_proofs` | `TypeCorrect`, `BackupsStay`, `DeletedStaysGone`, `StoreImplemented` | `Typed` adds to the types who is `Alone` with a backup (its creator), and that its `Files` are what it was made of, damaged, or absent, and none of them whole before `tar` has read all parts. `Whole`: a backup that no fault has touched is whole on the host until a deletion is at work, its copy is whole but while somebody writes it, and so is what is being written or copied. `Clean`: requests for a backup that was not raced come one by one, and none brings back what was removed whole. The refinement has one lemma for a step inside a phase, one for the arrival of a request and one for its answer; the heart is that the file a `tar` reads from is what its backup was made of, or is damaged, whoever else truncates, copies or removes it: then what a restore puts back is what the store has saved. |
| `Session_proofs` | `TypeCorrect`, `AsksOnlyAsItself`, `SessionEndsForAReason`, `UserIsOfToken`, `OnlyLateListsAreOthers` | `Inv`: the interval and every `fetchAll` that is not late carry the session's token. The three action properties follow from it step by step: what is refused or shown has a token of its own, and unless it is late that is the session's. |
| `Schedules_proofs` | `RoundsTracked`, `TypeCorrect`, `FiredAtMostOncePerCrash`, `FiredInWindow` | The types have bounds in them (`since`, `due`), which need `ClockInv` (a round's clock is at most the calls it has behind it) and `BatchInv` (what a task holds of a round, and when). `FireInv`: a schedule that is due and has not been called for in this round, or that is ahead in a batch, has been fired no more often than there were crashes; each call adds one, and only a crash takes the round from the worker before it commits. `TimeInv`, while nothing has gone wrong: some loop is alive (`AliveInv`), it comes back to a schedule it has left alone within `Rest` ticks, and a schedule in a round is no later than `Late`, its count of calls, and of rounds lost to crashes, that may come before it (`LateInv`). |
| `Page_proofs` | `Bookkeeping`, `TypeCorrect`, `SavedWhereLoaded`, `FlagsAlwaysComeDown`, `NeverTwoSaves`, `PageFollowsPanel` | What the handlers have in common is gathered from the table first, row by row (`RowRules`, `OfferedOn`, `OursAreRows`, `ViewRules`): a handler that asks raises no flag, one that overwrites has a form, one that needs a server is offered on a server's page, one that changes something reads its list again, only the two of the list of servers select. `TInv` types what is under way. Requests and reads are bags: `RequestsMove` and `ReadsMove` say where the members of the next state come from, `RequestsKept` and `ReadsKept` what becomes of those there are. `FormInv`: while an id is edited the form holds what that id was loaded from. `FlagsHeld`: a flag that is up has its request under way, or a `fetch` of the list that shares it. `OnceInv`: a button's flag is up while the one request that raised it is under way. `ShownInv`: a list that is old on the page, *or has an old answer on its way there*, is one that a finished write will read again or that a read under way will show. The second half of its premise is what makes it inductive: an old answer may arrive after the new one was asked for. |

Each proof has `Init => Inv`, one step per action for `Inv /\ [Next]_vars => Inv'`,
and a last step by PTL. TLC has checked the same invariants on the instances above.
One module holds the proofs about the four models of the daemon, which
`Daemon_proofs` extends together: three of them therefore have the component's name in
their common definitions (`DockerSpec`, `CacheSpec`, `ConsoleSpec`, ...).

**How many schedules fit a window.** `FiredInWindow` assumes `RoundFits`: with *N*
schedules and at most *C* crashes, `N - 1 <= OnceWindow` if there is a once-schedule
among them, and `N + C * (N + 1) <= CronWindow`, in ticks of 30 s, the timeout of a
call. Every call of
a round may take its whole timeout, and a schedule may become due just after a round was
begun and be the last of the next; a crash costs a recurring one a round and a
sleep. The bound is tight for the model: on small instances with one tick less on
either side TLC finds a schedule that nothing but slow calls made late. The run's
constants satisfy it (two schedules, one crash, windows of 4 and 10 ticks).
At the code's windows of 120 s and 5 minutes it admits five schedules, ten if all are
recurring, and four if a worker may crash once. A time that lies between two ticks counts
as the later one, so the real delay can be up to 30 s longer than the model's: to be
sure of the code take one tick off the windows, which leaves four, nine and four.

Only model-checked: all liveness (`EveryRequestAnswered`, `DeleteAnswered`,
`InstallResolved`, `KeepsFiring`, `NothingLeaks`, `EndReachesBrowser`,
`EveryCallAnswered`, `RecoversWithTheEngine`, `FollowsOrDies`, `ListsFollow`), which is out of the prover's
reach. No run checks a safety property without a theorem.

## 6. Where the code does something one would not expect

No document contradicts these but two comments, at `main.go:291` and `main.go:1720`. The
models allow for all of it, and the properties say what holds in spite of it.

In the daemon and the panel:

* No caller of `ContainerRemove` looks at its error (`main.go:1075`, `1150`, `1466`, `1474`),
  nor are those of removing the volume and the directory looked at: a delete is answered 204 with
  the container still there, and the panel takes it for gone. `refused` and `missed` record it.
* A delete can leave a container behind. `POST /api/servers` answers 202 and the
  install registers in its goroutine (`main.go:1006`). A delete that comes in between
  finds nothing to wait for, and the install makes its container after the delete's
  last removal; the comment at `main.go:291` says that the wait prevents this. So
  `WaitedInstallLeavesNoContainer` is about installs the delete waited for.
* Image cache: `finishRefresh` called twice lets two requests list at once
  (`main.go:831`), and a fill that raced an invalidation stores old data for ten
  seconds (`829`).
* The registry holds only the latest install of a server (`main.go:272`, `291`), so
  a delete waits for that one alone. An install re-creates the volume and the
  directory that a delete has just removed (`1474`).
* A primary allocation can be given to two servers, by two workers that
  both found it free or by a clone that waited for its daemon (`main.py:760`,
  `1951`); `PrimaryLostOnlyToRival` bounds when.
* Both background loops end for good when a row of their round is deleted
  (`main.py:953`, `1079`). The lock's "release" puts the connection back into the
  pool (`922-929`), which does not end a session-level advisory lock: in the models a
  loop that dies frees the lock or keeps it, as the pool closes the connection
  or not, and a crash of the worker frees it.
* One round calls for one schedule after the other (`main.py:1083`), 30 s at most
  each. Enough daemons that do not answer keep it busy for longer than the 120 s in which
  a once-schedule fires, and one that became due meanwhile never does; section 5
  (`RoundFits`) says how many that takes.
* A schedule that was off at its time and is switched on later keeps its old time,
  outside the window: it is active and never fires (`main.py:2061`).
* A websocket console whose shell has exited stays open until the browser leaves
  (`main.go:1606`). Its reader can close a channel that the handler has closed, which
  ends the daemon process (`1574`). And closing a console closes the connection to its exec
  (`1544`), which does not end the shell: that outlives its console if it takes no notice.
* `getDockerClient` can return neither a client nor an error (`main.go:366`), when
  the engine goes away between its ping and its second look; a retry may not run on the
  fallback client (`422`), because that could not be built (`403`) or somebody else has connected
  meanwhile. An installer may panic for want of a client (`1144`), if the daemon's first
  connection was still to come when it began.
* `readDemuxed` (`main.go:1722-1753`) keeps a frame that has not come whole twice, once in its
  inner loop (`1737`) and once after it (`1745`): what follows is garbled, while the comment at
  `1720` has it "correctly buffering frames that span reads". A backup whose archive does not fit
  one read of 8 KiB is therefore written garbled, answered "success", and refused by
  `tar` when it is restored. The error of a read is dropped as well (`1748`), and
  `execExitCode` waits two seconds for a command to end (`1759`): one whose connection was
  lost counts as done. `Kept` is about the backups that came out whole, and `Implements`
  excuses the lost ones.
* A backup is not a snapshot, nor a restore a replacement: `tar` reads and unpacks while the
  server runs (`1923`, `2040`), what it does not hold stays, and a second restore may write in
  between. `Implements` says what is left: part by part, and no part of another backup.
* The removals of a backup's files may fail, unnoticed (`2008-2009`).
* Backups: the fallback for a host without space reads an archive that was removed
  just before (`main.go:1941-1947`); a restore beside a deletion leaves the
  volume's copy, which brings the backup back (`2032`); a reinstallation takes
  the copies with the volume (`main.py:1406`).
* A transfer ignores that the old node did not answer the deletion
  (`main.py:1340`): two nodes have the container, and `OneHome` excepts the nodes that missed
  a deletion until one is done there.
* `delete_server` frees the allocations even if the daemon failed (`main.py:1508`),
  while the container keeps its port.
* `PrimaryExists` rests on the foreign keys of `models.py`. PostgreSQL, which
  `docker-compose.yml` runs, enforces them; the default of `database.py`, SQLite, does not
  unless it is told to.
* The database can end a background loop as well: a query or a read that fails is outside
  the loop's `try` (`main.py:949-955`), and `outage` records it.

In the page (`page.tsx`), about the session:

* A reload never restores a session. The effect on the tab calls `fetchAll` from the
  first render, which has no token (`385`); the 401 signs out and removes the stored
  token (`301`), whatever `verifyToken` finds. A login during that first `fetchAll` is
  signed out as well.
* A node that refuses the panel's token answers 401, which `call_daemon` passes on
  (`main.py:715-721`) and `apiFetch` takes for the user's: looking at a server of a node with a
  wrong token, or at the networks of one (`main.py:442`), signs out a good session.
* The interval of the stats outlives the logout (`490`), and so does the selection; the
  401 it gets for its old token ends the next session.
* The 10 s interval keeps the tab of the login (`321`), so it reads what that tab needs.
* A login while a verification is pending may show one user and carry the token of the
  other, or be signed out when the verification fails; a network error forgets the
  stored token (`325-331`).

and about servers, lists and dialogs:

* What a handler reads again after a write is the list of the server it was for, even
  if another is selected by then (`626`, `564`); schedules and logs are read only when
  their tab is clicked, so after a switch those of the server before are shown, and a
  click on one goes to `/servers/B/schedules/{id of A's}`.
* A file that is opened late is shown, and saved, on the server selected then (`940`).
* `deleteServer`'s answer closes whatever server's page is open and leaves the settings
  dialog up (`1078`): the next server's page shows the settings of the one before and
  saves them over its own. `saveServerSettings`' answer selects its server again.
* "Save as Template" does not clear the id of a template that was edited and cancelled
  (`2221`): what is saved overwrites that template.
* The dialogs of networks, groups, DNS records, tunnels and bug reports are rendered
  only on a server's page (`2230-2500`): their buttons on the list tabs show nothing
  until a server is opened.
* `cfLoading` is the flag of reading and of creating DNS records (`866`): a read that
  ends enables the button of a form that is being submitted.
* `fetchBackups` looks for an array where the panel answers `{"backups": ...}`, so the
  list of backups stays empty: in `Page` it is `Unread`, whatever was answered. Images, DNS
  records and tunnels are not read when their tab is opened, announcements only on the
  dashboard.

## 7. What is not modelled

* *Start-up*: table creation and migrations by four workers (`database.py` 61-100),
  seeding, `get_primary_node`'s recursion when no node exists (`main.py:93`).
* *Accounts*: tokens, API keys, members; the login throttle, which counts the failed
  attempts and records a new one in two steps (`main.py` 482-528).
* *Webhooks*, templates, announcements, settings, groups, networks, bug reports:
  rows of one table each, or fire-and-forget posts.
* *Files, logs, exec*; the demultiplexing of Docker's stream but for its outcome on the
  archive of a backup; the parser of cron
  patterns (a period in `Schedules`); names, limits and images of servers.
* *Creation of allocations*: two requests may create the same port twice, for want of
  a unique constraint (`main.py:670`); the models begin with the allocations there.
* A *restart of the panel* ends every install poll, and the row keeps saying
  "installing" (`main.py:839`): polls are not persisted, there is no recovery to check.
* *ttyd*: the daemon still starts and stops processes for it, and neither the panel nor
  the page asks it to.
* *In the page*: the fields of its forms, and with them which input is valid (`checks`
  stands for it); the Share dialog, filters, sorting, formatting, layout; the terminal,
  whose xterm and socket live in refs of one effect. Lists are versions, so that two
  items of one list are not told apart but in what a form edits.
* *External services* (Cloudflare, Playit), the *node monitor*, the *installer*, and the
  *Python daemon* that is not built.
* Restoring an *empty* host file never closes the command's input
  (`main.go:1692`); in `Backups` a damaged file is never empty.

## 8. Plan

In order of what matters most to the system:

1. An abstract specification of a server's life (absent, installing, installed,
   deleted; suspended or not) as an interface for the panel's clients, which
   `ServerLifecycle` implements under a refinement mapping.
2. A proof of that refinement, with the invariants of `ServerLifecycle_proofs`.
3. Start-up: four workers, `create_all`, the migrations and the advisory lock.
4. Accounts: the login throttle across workers.
5. Webhook delivery: one slow hook before the others, a deletion in the middle.
6. Pure algorithms against reference definitions: the cron matcher, Docker's stream
   demultiplexing, the paths of the file manager.
