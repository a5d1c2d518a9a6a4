# savrr: TLA+ models, checks and proofs

savrr backs up and synchronises game saves. A daemon on each device detects
games, packs their saves into archives and exchanges them with a self-hosted
server; a desktop app shows the result. This directory models the parts of it
that keep state, model-checks them with TLC on small instances and proves the
central ones with TLAPS for instances of any size.

Source paths below are relative to `src/crates/`.

## 1. The system

| Part | State | Operations | Talks to |
|---|---|---|---|
| Version history (`savr-server/src/db.rs`, `api.rs`, `migrations/`) | `versions`, `games.head`, `resolved_conflicts` | `create_version` (compare-and-swap on the head), `resolve_conflict`, `list_versions` | daemons, by HTTP |
| Blob store (`savr-server/src/blobs.rs`) | `blobs` rows with reference counts, objects on disk | HEAD, PUT, GET | history, GC |
| Retention GC (`db.rs` `prune_game`, `main.rs`) | a plan read once per pass | delete a version, dereference its blob, unlink the object | history, blob store |
| Backup (`savr-daemon/src/backup.rs`, `savr-core/src/snapshot.rs`, `archive.rs`) | `local_snapshots`, `diffcount` and `unconfirmed` flags | scan, diff, pack, upload, queue | server, outbox |
| Outbox (`backup.rs` `retry_outbox`, `state.rs`) | `outbox` rows | retry every 30 s, postpone, remove | server |
| Restore, auto-pull (`restore.rs`, `engine.rs`) | save files on disk | pre-restore backup, chain download, per-file swap, sweep | backup, server |
| Push channel (`savr-server/src/hub.rs`, `ws.rs`, `savr-daemon/src/ws.rs`) | presence map, one channel per socket | register, Hello and replay, broadcast, drop, heartbeat | every daemon |
| Synced configuration (`db.rs`, `engine.rs`, `savr-app/ui/src/views/Settings.svelte`) | server row with a tag, each daemon's copy, the form | PUT under a tag, pull on notice | push channel |
| Detection, play statistics (`savr-daemon/src/detection/`, `engine.rs`, `state.rs`) | running map, settle timers, `play_stats` | poll, start and stop events, orphan clean-up | backup, UI |
| Devices, pairing, tokens (`db.rs`, `api.rs`, `auth.rs`; `savr-daemon/src/client.rs`, `secrets.rs`, `engine.rs`) | devices, pairing codes, `PairGuard`, signing key; the daemon's stored credential, its client's token | log in, ask for a code, redeem it, refresh a token, revoke | every authenticated call, push channel |
| Game identity, catalog (`db.rs` `ensure_game`; `engine.rs` `game_id_for`, `refresh_games`; `detection/`, `state.rs`) | `games` rows, per device roots, custom games, persisted ids, the game list | refresh, add or remove a root or a custom game, load the manifest | backup, restore, detection |
| Exe index (`detection/exe_index.rs`) | paths and file names of executables, per game | build, match | detection |
| Supervisor, IPC endpoint (`savr-app/src-tauri/src/daemon.rs`, `lib.rs`; `savr-daemon/src/main.rs`, `ipc.rs`) | daemon processes, socket file, the supervisor's child and flag | spawn, watch, restart, shut down, update, guard, bind | daemon, app |
| Path resolution, manifest, archive encoding, tray, logs | none that other parts depend on | pure functions and I/O | |

What is hard in it:

- **Several SQLite transactions, files and HTTP calls make one operation.** An
  upload is HEAD, PUT (object, then row), POST (check, then transaction); a
  prune is four reads, a transaction per version and an unlink after it; a
  queued backup is three local writes. Each can stop in between, and others run
  in between.
- **Calls are lost in both directions**, and the outbox repeats what may already
  have been done.
- **No lock is shared** by a backup, a restore, an auto-pull and the outbox loop
  of one game, nor by a GC pass and the requests it races.
- **State is read early and used late**: the running set before a restore, the
  diff base before an upload, the tag in a form, the GC's plan.
- **Processes restart** between any two writes.
- **Limits are checked in one statement and used up in another** (active codes,
  the lockout after failed codes), and several requests pass the check together.
- **Two programs start the same daemon**, the app and the login, and find each
  other only through a socket file.

`PROJECT.json` lists these as hazards, each at its line.

## 2. Modules

| Module | Models | Extends |
|---|---|---|
| `Versions` | the transactions of `db.rs` on versions and heads, and the set retention keeps | |
| `History` | upload protocol, blob rows and objects, GC, all interleaved | `Versions` |
| `HeadRegister` | abstract specification: a store of versions with one atomic head per game | |
| `Sync` | backup, outbox, restore and auto-pull of one game by several daemons | `Versions` |
| `Push` | presence, registration, replay, revocation, reconnects | |
| `Config` | server row, daemon copies, Settings forms | |
| `Watcher` | poll loop, settle timers, event loop, play statistics, restarts | |
| `Pairing` | codes, lockout, devices, tokens, the daemon's credential, revocation | |
| `Catalog` | refreshes of the game list, game ids, exe index, on several devices | |
| `Supervisor` | the app's supervisor, daemon processes, single-instance guard, IPC endpoint | |
| `HistoryProofs`, `SyncProofs`, `PushProofs`, `ConfigProofs`, `WatcherProofs`, `PairingProofs`, `CatalogProofs`, `SupervisorProofs` | theorems | the module they are named after |
| `MCHistory`, `MCSync`, `MCPush`, `MCConfig`, `MCPairing`, `MCCatalog` | values and symmetries for TLC (`Watcher` and `Supervisor` need none) | |

`Versions` is shared by `History`, which adds what makes a version's blob exist,
and by `Sync`, which gives blobs their content (there the "hash" of an archive is
the archive). Definitions called "Faulty variant" are bugs the checks are tried
against; nothing in `Next` refers to them.

### Versions and History

`versions` is a function from the ids of live rows; `head`, `losers` and `minted`
are the `games.head` column, the losers of `resolved_conflicts` and, per game, the
ids clients have been told of. `CreateVersion` is the whole transaction of
`create_version`: foreign keys, `MAX(seq)+1`, insert, compare-and-swap.
`PruneVersion` clears the `parent` of the row's children and deletes the row
(the row half of `delete_version_and_deref`); the foreign key of `games.head`
rejects it for a head. `Keep` is `prune_game`'s computation: the newest
fulls, the newest differentials of each, heads, unresolved tips and owning fulls.

`Slot` is a server-side upload attempt. `Attempt` takes a pending archive through
`BlobHead`, `BlobPut`, `BlobRow`, `PostCheck`, `PostCommit` or `PostRejected`;
`Abandon` is the client giving up while the handler runs on; `HandlerDies` ends a
handler between two of its steps. `GcHead`, `GcRows`, `GcRefs`, `GcPlan` are the
four reads of a pass, `GcDelete` and `GcUnlink` the transaction and the file
removal of one version, `GcRejected` and `GcDies` its failures.

### Sync

A save is a function from files to contents. An archive has the listing it
declares (`files`) and what it holds (`data`; `Kept` for files a differential does
not mention). `Rebuilt` is what unpacking a version's chain produces. A task
(backup, restore or pull) stops at each `await`: `Scan`, `Pack`, `Send`, then
either `Settle`, `Confirm`, `Count` (the three writes after an acknowledged
upload) or `Enqueue`, `QueueBase`, `QueueFlag` (the three of `queue_backup`). A
restore is a backup followed by `List`, `Write` per file, `Sweep` (`SweepFails` if
files cannot be removed, which the code ignores), `Adopt`. The
outbox loop is `RetrySend`, `RetryHead`, `RetryRemove`. `Quiescent = TRUE` means
that no game writes while a task of its device runs, which the engine tries to
ensure by refusing to restore a running game; `FALSE` removes that assumption.
`Orphaned` is the set of archives the server refuses for good, because their object
is there without its row (`UploadsComplete` of `History` is about how that comes
about). Neither a backup nor the outbox loop tells a refusal from a failed call:
`SendRefused` queues the archive, `RetryRefused` postpones it, again and again.

### Push, Config, Watcher

In `Push` each of `handle_socket`'s awaits is a step: upgrade, registration, the
three halves of a Hello (`device_active`, `register`, replay), heartbeat, end. The
end of a loop deregisters *by device*, as the code does. The daemon's side is
`attached`; the server notices a lost connection only later (`NoticeGone`). An
error of `versions_since` is ignored by the code: `HelloReplayFails` leaves the
socket registered with nothing replayed ("silent"). Any other error of a query or
a send ends the loop (`HelloRefused`, `SocketFails`).

In `Config` a PUT is `PutRead` and `PutSwap` (the row is read, compared, then
swapped under a condition; `PutSwapLost` is the swap that finds the row changed
since). The answer is adopted in another step (`PutAdopt`), or is an error or
never arrives (`PutFails`). `OtherClientPut` is a write by a client whose
daemon is not modelled.

In `Watcher` `Poll` is one iteration of `run_watcher`, `OnEvent` and `SetRunning`
are the two writes of `on_event`, `CloseOrphanedSessions` is what `main` does at
start-up, also in a second process (`SecondLaunch`) that then finds the endpoint
taken. The wall clock may step back. The code ignores errors of all three writes:
`OnEventUnsaved` sets or clears the running flag although the row was not
written, `StartUnclosed` goes on with sessions of the previous run still open.
The history variables `lost` and `unclosed` name the games this happened to.

### Pairing

A code, a refresh secret and a credential are the id of their row; a bearer
token is the device and expiry it claims and the generation of the signing key.
`CountCodes` and `InsertCode` are the two statements of `create_pairing_code`. A
pair request is `PairCheck` (the guard), `PairMatch` (the codes are read and
verified), `PairBurn` (the conditional update and `record_success`) or
`PairRefuse`, `CreateDevice`, and on the daemon `PairStore`, `PairMeta`,
`PairCreds`, `PairToken`, the four writes of `Engine::pair`. `PairAbandon` is the
client's timeout, after which the handler runs on or is dropped. A call is
`send_authed`: `CallSend`, `CallAuth` (the `Authed` extractor), `CallServe`; a
first 401 leads through `RefreshSend`, `Refresh`, `RefreshAdopt` to `CallResend`.
A DELETE of a device is such a call. Both sides restart; the server's signing key
is replaced if its file could not be written.

### Catalog

What is on a device's disks and in the Ludusavi manifest is constant, except
that the manifest arrives late. A refresh (`refresh_games`) stops at every await:
`RefreshStart`, per game `Look` (the persisted id), `EnsureFind` and
`EnsureInsert` (the server's two lookups) and `Adopt`, or `KeepLocal` without
the server; `NextSource` goes from Steam to drive folders to custom games,
`Publish` and `SwapIndex` replace the game list and then the exe index.
`Request` holds what ends in a refresh. `Norm` is `normalize_title`, `MatchExe`
is `match_exe`. `spoilt` is a history variable: the devices whose last refresh met
an error, or was answered one id for two games, of which it then lists the later
one only.

### Supervisor

`Guard` is the daemon's check in `main`; `IpcProbe`, `IpcUnlink`, `IpcBind` are
the three system calls with which `run_ipc_server` takes the endpoint over, and
`path` is the process whose socket the file names, alive or dead. An error of any
of them ends the IPC task alone (`IpcFails`), and one of the final `remove_file` is
ignored (`IpcEndLeaves`). `SupProbe` to
`SupWake` are the steps of `supervise`; `SupAdopt` and `Shutdown` are the two
critical sections on `Supervisor::inner`. `UpdateAsk` and `UpdateShutdown` are
`restart_for_update`. Logins, crashes, interrupts, kills of the app and failed
spawns come from outside. `overlapped` is a history variable: a daemon passed
its guard while another one ran without serving its endpoint (not yet, no longer,
or having failed to bind). `LoginStart` is external: who starts a daemon at login
is the desktop's business, and the code that asks for it (`autostart.rs`) is not
modelled.

## 3. Runs

All are expected to pass:

| Run | Instance | Shows |
|---|---|---|
| `history` | 1 game, 3 ids, 3 archives, 2 concurrent attempts, retention 1+0, 1 failure | Heads are live, parents descend, seqs are unique, reference counts are exact, GC removes neither a head nor an open conflict tip, and the whole implements `HeadRegister` |
| `sync` | 2 devices with a task each, 2 files, 3 versions, 2 saves | Every version restores to what it declares; a restore leaves exactly the target's files |
| `sync_race` | 1 device with 2 tasks, 1 file, 2 contents, 2 saves, 1 crash | Restores that no lock keeps apart from other tasks overwrite only content some version holds |
| `sync_offline` | 1 device, 1 file, 2 failed or unanswered calls, 1 crash, a game that saves at any time | What the device believes backed up is on the server or in its outbox |
| `sync_drain` | 1 device, 1 file, 2 saves, 4 versions, one archive the server refuses for good, 2 failed or unanswered calls, fairness | The outbox comes back to nothing but what is refused; no failed or refused item holds up the others |
| `push` | a device with two sockets, another author, 2 versions, fairness | A registered socket that was answered with the missed versions has every foreign one; a revoked device leaves for good |
| `config` | 2 devices, 4 writes, 1 failure | Nobody overwrites a configuration it never received |
| `watcher` | 1 game, clock to 2, 1 step back, 2 crashes or failed writes, fairness | Play time is never lost, nor credited for downtime unless a start failed to close the session; "playing" implies a row unless its write failed; a closed game is eventually shown closed |
| `pairing` | 1 daemon, 2 pair requests, 2 requests for a code, 2 codes, limits 1 and 2, clock to 1, 2 upsets | A code makes one device, and the limits on active codes and on failures overrun by no more than the requests under way |
| `tokens` | 1 configured daemon, 1 task, 2 codes and devices, clock to 1, 1 upset, fairness | A revoked device is shut out for good; one that stays paired and goes on calling is served again after expiry, restart or a new signing key |
| `catalog` | 2 devices (one paired from the start), a Steam game under two names, a folder, a custom game of the Steam game's title, 4 ids, 1 upset, fairness | The list follows what is installed and registered, has no title twice, executables lead to their game, persisted ids give way only to the server's, devices settle on one id |
| `supervisor` | 3 processes, 2 app runs, 1 login, 2 crashes, 2 fast restarts, fairness | A shutdown that races a spawn leaves nothing behind, a serving daemon stays the only one, a supervised daemon comes back unless it failed to bind its endpoint |

### Bounds

Three versions are the smallest history with a full, a differential in the middle
and a head, or with two branches and a resolution. A retention of one full and no
differentials prunes on it and is the least in which a pruned version's seq is used
again: with one differential as well, the newest row is always kept, and its seq
with it. Two attempts suffice for a request racing its own abandoned
predecessor and for two devices on one head. Two files distinguish "some" from
"all" in a restore (where a run has one file, what it asks does not depend on the number), and one non-absent content plus absence gives creation,
deletion and re-creation; `sync_race` has two contents, so that a restore can
replace what another task has scanned and not yet packed. One failure and one crash at any step cover each
single gap between two writes; in `sync_race` two tasks interleave up to the crash
and run one at a time after it (`AloneAfterCrash`). In `sync_offline` and `sync_drain` two
failures let a queued backup's retry fail or go unanswered too (in `sync_offline` the
second one comes before the crash, `SecondFailureFirst`); in `sync_drain` the
refused archive and a good one meet in the queue in either order, with both
failures spent or to come. In `Watcher` two upsets put a failed write before or
after a crash, or two of them next to each other. In `Pairing` two requests pass a check
together, against a limit of one active code and two failures; a clock of two
instants separates "valid" from "expired" for every life time. In `Catalog` the
device that upsets are spent on is the one that pairs late, so that its local id
gives way to the server's; titles differ before and after the manifest arrives.
Three processes are a serving daemon, one that is being spawned and one a login
starts; two runs of the app are the least in which an orphan of the first meets
the second. All bounds are constants named `Max...` or action constraints
of `MCSync`. Ids are a
finite pool, so histories end when it is used up: no run checks for deadlock,
and the runs with liveness have enough ids for the saves and failures they allow. Games do
not interact in `Versions` (each transaction touches one), so one game is enough for TLC and the
theorems cover any number. Symmetry is used only in runs without liveness;
`sync_drain` takes ids in order instead (`IdsInOrder`), which are as
interchangeable.

### Fairness

- `History`: a handler that was started runs (tokio), and the outbox loop starts
  another attempt every 30 s (`savr-daemon/src/main.rs`). Clients need not pack,
  resolve or collect. Weak fairness of the attempts and of a GC pass under way.
- `Sync`: a task runs on once started; the outbox loop ticks. Starting a task is
  up to the user or the detector and is not fair.
- `Push`: a socket task runs and its heartbeat ticks every 30 s; `delete_device`
  finishes. Connecting and disconnecting are not fair.
- `Watcher`: the two loops run and every settle timer of a missing game expires.
  Starting the daemon is not fair, so `StopSeen` asks for one that stays up.
- `Pairing`: a call under way goes on (tokio, and the client's timeouts).
  Whether calls are made, and codes typed, is not fair: `ServedAgain` asks for a
  daemon that goes on calling.
- `Catalog`: a refresh under way goes on. Whether one begins is not fair:
  `IdsConverge` asks for devices that go on refreshing (the daily refresh).
- `Supervisor`: processes that run go on, and so does the supervisor's task.
  Nobody has to start or quit the app.

Failures are bounded (except in `Push`, where errors of queries and sends may recur
for ever), so "eventually" means "once failures stop".

### Disagreements without a run

These were met while modelling. Each property is in its module with a comment and
is refuted by TLC in the instance given; it has no run of its own. "Queue
instance" stands for `SyncOffline.cfg` with `File = {f1, f2}`, `MaxFail = 1` and
`Quiescent = TRUE`.

| Property | Instance | What happens |
|---|---|---|
| `History!HeadRestorable` | `History.cfg`, one slot, `MaxFaults = 0` | "keep the owning full so the tip stays restorable" (`db.rs:826`): the full is kept, a differential between them is not, and its child's parent becomes NULL |
| `History!UploadsComplete` | `History.cfg` with `FairSpec`, 2 ids, 1 archive, one slot, no symmetry | An object without its row (a crash between the two) makes every retry skip the PUT, because HEAD finds the object, and fail the POST (`api.rs:435`) |
| `History!VersionBlobStored` | `History.cfg`, `Hash = {h1, h2}`, `MaxFaults = 2` | The unlink follows the prune's commit (`db.rs:907`); a retry of the same archive checks for the object and commits in between. The migration says "a version can never reference a missing blob or game" |
| `History!PendingParentLive` | `History.cfg`, one slot, `MaxFaults = 0` | The parent a queued backup declares is pruned; each retry then fails its foreign key |
| `History!LoserKept` | as above | PRD-03:77 says of a conflict's loser "never deleted"; `prune_game` protects only unresolved tips |
| `Sync!ChainSound` | queue instance | A crash after the diff base and before the `unconfirmed` flag of a queued backup (`backup.rs:241`). KNOWN-ISSUES:8 says "A crash mid-queue no longer loses the change either." |
| `Sync!ChainSound` | queue instance, `MaxSaves = 3`, `MaxCrash = 0` | `retry_outbox` sets `local_head` to an older version under a newer diff base (`backup.rs:323`) |
| `Sync!ChainSound` | `SyncRace.cfg` | A restore replaces a file between another task's scan and its packing: the archive declares the hash of one content and holds the other |
| `Sync!RestoreUndoable` | queue instance, `Quiescent = FALSE`, `MaxFail = 0`, `MaxCrash = 0` | The running check precedes the pre-restore backup; a save after it is overwritten |
| `Sync!ChainCapped` | `Sync.cfg` | Pre-restore backups pass `u32::MAX` for `full_every` and conflicts never bump the counter |
| `Sync!PullOnlyWhenClean` | `Sync.cfg`, `AutoPull = TRUE` | PRD-03:91 allows an auto-pull only over unchanged saves; the code backs changed ones up and goes on |
| `Sync!RestoreExact` | `SyncRace.cfg`, also with `File = {f1, f2}` and `Val = {x1}` | Two restores of one game on one device interleave file by file: the save is a mixture, or the other target's, while the target of the later one is recorded as the local head |
| `Sync!RestoreExact` | `SyncOffline.cfg`, `MaxFail = 1`, `MaxCrash = 0`, `Quiescent = TRUE` | The error of `remove_file` is discarded (`restore.rs:114`): a file the target lacks stays and the target is recorded all the same |
| `Config!NextEditAccepted` | `Config.cfg`, `MaxFail = 0` | The daemon adopts the tag its PUT was given, the Settings form keeps the one it was loaded with and sends it again (`Settings.svelte:66`). KNOWN-ISSUES:9 says the next edit is no longer rejected |
| `Config!FirstEditAccepted` | `Config.cfg`, `MaxFail = 0` | The configuration is fetched only on a notice, so a first edit carries the empty tag and is answered 409 |
| `Config!NeverGoesBack` | `Config.cfg`, `MaxFail = 0` | A PUT's answer replaces a newer configuration pulled meanwhile (`engine.rs:614`) |
| `Watcher!PlayingHasRow` | `Watcher.cfg` | "any ListGames that observes running=true also sees the row" (`engine.rs:730`): the error of `play_start` is discarded (`engine.rs:732`) and the flag is set, so a first launch whose insert fails shows as playing and never played. `PlayingRecorded` says that nothing else does this |
| `Watcher!LaunchSeen` | `Watcher.cfg`, `MaxTime = 0`, `MaxBack = 0`, `MaxChan = 2` | The first poll may report a running game before the event loop subscribes |
| `Watcher!SessionContinues` | `Watcher.cfg` | A game missing from one scan is reported started again and its session restarts; PRD-02:110 asks to ignore flaps |
| `Watcher!LiveSessionKept` | `Watcher.cfg` | A second launch closes open sessions before the single-instance guard (`main.rs:61`, `main.rs:82`) |
| `Push!ConnectedMissesNothing` | `Push.cfg` with `Spec`, `Socket = {s1, s2, s3}`, `SocketDevice <- TwoForOne` | The late end of a device's old connection deregisters the device, and with it the new connection (`savr-server/src/ws.rs:107`) |
| `Pairing!CodesCapped` | `Pairing.cfg` | `create_pairing_code` counts and inserts in two statements; its comment speaks of a cap |
| `Pairing!PairingKept` | `Pairing.cfg` | A crash, or a failing `set_meta`, between the secret store and `server_url` leaves a credential whose server the next start does not know (`engine.rs:638`) |
| `Catalog!CanonicalTitle` | `Catalog.cfg` | `engine.rs:153` says that no game is registered under its raw Steam name before the manifest supplies the title; a change of roots or custom games before it arrives refreshes with the server |
| `Catalog!CatalogCurrent`, `Catalog!PersistedIdKept` | `Catalog.cfg`, `Device = {d1}`, `PairedBefore = {}`, `Task = {t1, t2}`, `MaxUpset = 0` | Two refreshes of one device at once: the older one publishes last, or each mints an id for the same game and the later one is kept (`engine.rs:148`, `engine.rs:361`) |
| `Catalog!AnswerUnused` | `Catalog.cfg`, `MaxUpset = 0` | A Steam game listed under its raw name, before the manifest arrives, and a custom game registered under the manifest's title are one row on the server, found by app and by title (`db.rs:89`, `db.rs:119`); the second replaces the first in the list (`engine.rs:322`). `CatalogCurrent` excuses that refresh only |
| `Supervisor!EndpointKept` | `Supervisor.cfg` | "Never unlink and steal a socket a live daemon still owns" (`ipc.rs:51`): the file is removed in another step than the probe |
| `Supervisor!NeverOrphaned` | `Supervisor.cfg` | "the daemon is never orphaned" (`daemon.rs:55`): the app exits while its task stands between spawn and adoption |
| `Supervisor!UpdateServed` | `Supervisor.cfg` | "frees the socket for the fresh instance" (`savr-core/src/ipc.rs:165`): the new app defers to the old daemon, which was asked to stop and still answers, and never looks again |

Outside the models:

- The daemon's socket client connects to `{server}/ws`
  (`savr-daemon/src/ws.rs:149`) and the server serves `/api/v1/ws`
  (`savr-server/src/api.rs:148`). `Push` assumes that they meet.
- The socket connects with the client's token as it is
  (`savr-daemon/src/ws.rs:59`) and its reconnects never refresh it: after its
  expiry the channel stays down until some other call has.
- A daemon whose `run_ipc_server` finds the endpoint taken ends that task only
  and goes on running on the same database.

## 4. Proofs

Every theorem holds for all values of the constants that meet the modules' named
assumptions: any sets of devices, games, requests, files or processes (finite
where cardinalities are counted), any bounds. The assumptions say that `NULL` is
none of the other values, that limits and bounds are naturals, and how constants
that are functions are typed.

| Module | Theorem | Says |
|---|---|---|
| `HistoryProofs` | `TypeCorrect` | `Spec => []TypeOK` |
| | `HeadsLive` | a head is a stored version of its game |
| | `LineageSound`, `SeqsUnique` | parents are live, of the same game and of smaller seq; seqs are unique per game, so walking a chain ends even though seqs are used again after a prune |
| | `RefcountsExact` | every version has a blob row, and each count is the number of versions referring to it |
| | `GcProtectsHolds` | a pruned version is neither a head nor an unresolved tip when it goes |
| | `ObjectLostOnlyByRace` | a version's archive is on disk (assumes `Apart`) |
| | `HistoryImplementsRegister` | `History` implements `HeadRegister` |
| `SyncProofs` | `TypeCorrect` | `Spec => []TypeOK` |
| | `BaseDurableHolds` | a device's diff base is on the server or in its outbox |
| | `NothingLostHolds` | a listing that is stored or queued never stops being so |
| | `RestoresUndoable` | what a restore overwrites is in some version or queued backup, with any number of unsynchronised tasks, failures and crashes (assumes `Quiescent`) |
| | `ChainsSound`, `RestoresExact` | a version restores to exactly the files it declares; a finished restore leaves exactly its target's (assume `Quiescent`, `Orphaned = {}`, one task per device at a time, and until a call has failed) |
| `PushProofs` | `TypeCorrect`, `RegisteredMissesNothingHolds` | a registered socket that was answered with the missed versions has been sent every foreign one |
| | `ConnectedMissesNothingHolds` | so has a connected device whose replay could be read (assumes `OneLoop`) |
| | `RevokedStayGone` | a revoked device that has left the hub never comes back |
| `ConfigProofs` | `TypeCorrect`, `NoBlindOverwriteHolds` | a daemon replaces only a configuration it has received |
| `WatcherProofs` | `TypeCorrect`, `PlayingRecordedHolds`, `TotalNeverShrinksHolds`, `DowntimeNeverCreditedHolds` | play statistics, through restarts, failed writes and a clock that is set back; excepted are rows whose write failed (`lost`) and sessions a start failed to close (`unclosed`) |
| `PairingProofs` | `TypeCorrect`, `OneDevicePerCodeHolds`, `LockoutHolds`, `CodesBoundedHolds` | a code makes one device; how far the two limits can be overrun |
| | `CodesCappedHolds` | the limit on codes is exact (assumes `OneMinting`) |
| | `RevokedStayOut` | a revoked device without calls under way never acts again |
| `CatalogProofs` | `TypeCorrect`, `NoDuplicateTitleHolds` | a title is listed twice only if Steam lists it twice, with any number of refreshes at once |
| | `CatalogCurrentHolds`, `DetectionFindsGameHolds`, `PersistedIdKeptHolds` | the list is what is installed and registered, executables lead to their game, a persisted id gives way only to the server's (assume one refresh of a device at a time) |
| `SupervisorProofs` | `TypeCorrect`, `SingleInstanceHolds`, `ShutdownReapsHolds` | two daemons only after one started beside a silent one; a shutdown leaves no child behind |
| | `EndpointKeptHolds`, `NeverOrphanedHolds` | a served endpoint is not taken away (assumes no overlap); an app that has ended left no daemon (assumes `ExitsSettled`) |

The inductive invariants, and why they are needed:

- `HistoryProofs!IndInv` adds to the first invariants: `MintedSound` (an id is
  minted for one game and every version for its own; otherwise a fresh id could
  name an old row), `RequestsKnown` (a request declares a parent minted for its
  game; the foreign key alone says that it exists), `PlanFaithful` (what a GC
  pass plans to delete exists and has the blob it read) and finiteness of the
  rows. `PlanInv` says of a plan that each version in it is a loser or has a
  child: requests only add rows and losers (`Grows`), and a deletion takes a
  child away only after its older parent's turn, which is why the plan's order by
  seq matters. Each action either changes rows and counts and has a lemma of its
  own, or leaves them alone (`QuietSteps`). In the refinement a create is a
  `FastForward` or a `Branch`, a prune is a `Forget`, a resolution is a
  `Resolve`, and everything else stutters.
- `SyncProofs!Inv`: what a task is about to record as the base is already stored
  or queued (`TaskSound`), and what the outbox loop is about to remove has been
  stored (`QueueSound`). Since listings are never lost (`Growing`), other tasks
  cannot invalidate either.
- `SyncProofs!Typed` types what each step of a task has in hand. Its difficult part
  is `Rebuilt`, a recursion along parents: that it is a function at all is shown
  without induction over data, by giving its value in closed form (`Nearest`: each
  file comes from the nearest archive of the chain that mentions it) and by least
  counterexample, parents having smaller seqs.
- `SyncProofs!Recoverable`, for `RestoresUndoable`: each content of a save that an
  archive, a queue or a task holds is declared by some version or queued backup,
  or still has to be backed up by the very task that will overwrite it. It speaks
  of single files and not of saves, because a torn archive holds a mixture that no
  version declares.
- `SyncProofs!Exact`, for `ChainsSound` and `RestoresExact`: a differential fits
  its parent (`Fits`), a device's diff base is what its local head declares
  (`AtHead`), and what a task scanned is still on disk (`ExactIn`). Each hypothesis
  is needed: without `Quiescent` or `Alone` the save changes between scan and
  packing, and after a failed or refused call `retry_outbox` moves the local head under the
  base. Section 3 has the counterexamples.
- `PushProofs`: with `TypeOK`, `RegisteredMissesNothing` is inductive as it
  stands: registration comes before the replay, so what is committed after the
  replay's read is broadcast to the socket.
- `ConfigProofs!SeenInv`: every copy a device may send, in form, daemon or call,
  has the empty tag or one it received, and the row's tag is never empty.
- `WatcherProofs!Inv` for types, rows and totals: a start in hand has its row or
  is `lost`. `PaceInv` says that every event
  and every session, other than one a start failed to close, can be dated on a clock of uptime that never runs faster than
  the wall clock (`Paced`), so that what a stop credits is at most what passed.
- `PairingProofs!TypeInv`; `BurnInv`: a burned code is used, by one request, and
  made no device yet; `GuardInv`: under a lock each further failure uses up a
  request that had passed the check. `CodesBounded` is inductive as it stands.
- `CatalogProofs!Inv`: past Steam's games every title recorded by a refresh is
  marked as seen, and the game in hand has a title of its own. `Typed`: an id the
  server answered is that of a row, and every step of a refresh has the fields it
  needs. `TasksFaithful`: what a refresh has built and what it still has to do make
  up the sources it has read, its index leads to the games it has built, and the
  id it read is still the persisted one. `Settled` says the same of the published
  list. A change of roots, custom games or manifest ends in a refresh of its own;
  that it finds none under way is the hypothesis `OneRefresh`, because nothing in
  the code makes refreshes wait for each other.
- `SupervisorProofs!TypeInv`, `OwnInv` (a run of the app spawns one daemon at a
  time, which is in the shared slot from the handoff on, or dead) and `SoleInv`
  (without an overlap, whoever serves the endpoint is the one the file names).

Seven properties of section 3's disagreements are theorems under a hypothesis on
the schedule that excludes one window each. The theorem says that nothing else
breaks the property; the refuting instance says that the code leaves the window
open.

| Property | Hypothesis, in every state or step | Invariant |
|---|---|---|
| `History!VersionBlobStored` | `Apart`: no POST stands between its check and its commit while a GC pass is about to unlink that archive's object | a checked object is still there (`CheckedStored`), and no version refers to one that is about to be unlinked (`UnlinkedUnused`) |
| `Push!ConnectedMissesNothing` | `OneLoop`: one socket loop per device | a running loop is the one the hub has (`LoopRegistered`) |
| `Pairing!CodesCapped` | `OneMinting`: one request between its count and its insert | the active codes, with those counted and still to be inserted, stay within the limit (`Load`) |
| `Supervisor!EndpointKept` | `~overlapped` | `SoleInv` |
| `Supervisor!NeverOrphaned` | `ExitsSettled`: the app does not end between a spawn and its handoff | `OrphanInv`: an app about to exit has shut down, and daemons come from a login or from this run |
| `Catalog!CatalogCurrent`, `Catalog!PersistedIdKept` | `OneRefresh` | `TasksFaithful`, `Settled` |

`RevokedStayGone` and `RevokedStayOut` are the safety halves of `RevokedLeaves` and
`RevokedShutOut`: the provers show that the state those properties lead to is never
left, TLC that it is reached.

Only model-checked: all liveness (`OutboxDrains`, `RevokedLeaves`, `StopSeen`, `RevokedShutOut`,
`ServedAgain`, `IdsConverge`, `KeptAlive`), because fairness is out of this
prover's reach.

## 5. Not modelled

- Bytes: hashing, tar and zstd, path sanitising, manifest parsing, globbing,
  Steam's file formats, save path resolution. They are pure functions of files.
- Back-off delays (abstracted to reordering), the 30 s and settle periods
  (abstracted to "later").
- The bound of the event channel (256): `Watcher` stops polling at its own bound
  where the real channel drops the oldest event. Memory of a slow socket's
  channel.
- The daemon's list of pending conflicts beyond what `resolve_conflict` does: it
  is kept in memory and lost by a restart (`engine.rs:581`). `keep_both` adds a
  note that nothing reads.
- A game's id changing from local to the server's while it is being played
  (`engine.rs:356`): `Catalog` has no running games and `Watcher` has fixed ids.
  Two Steam apps with one title, which share the server's row (`db.rs:112`).
- Two uploads of one hash sharing a temporary path.
- Errors of the daemon's own database other than those that `Watcher`, `Pairing`
  and `Catalog` have: a failing statement of a backup, a restore or the outbox loop
  ends that task early, which `Sync` has as a crash of the daemon only.
- A GC under the outbox: `Sync` refuses an archive for its missing blob row only,
  not for a pruned parent, which is `History!PendingParentLive`.
- Framing, request dispatch and event streams of the IPC protocol, Windows
  pipes, registry capture, tray, autostart, logs, and the views of the interface
  other than the Settings form.
- Strength of codes and secrets, signatures, TLS, rate limits per address.

## 6. Plan

Done: `Versions`, `History`, `HeadRegister`, `Sync`, `Push`, `Config`, `Watcher`,
then `Pairing`, `Catalog`, `Supervisor`; the proofs of section 4.

Left, in order of what can go wrong:

1. `Watcher` with a channel that loses its oldest events, and with ids that
   `Catalog` changes under a running game.
2. `Sync` with files read again while packing, the daemon's conflict list, and
   a GC under restores (`History` and `Sync` share `Versions`, so the composition
   needs only the plan of a pass).
3. `Supervisor` with the requests and subscriptions of the IPC protocol.
4. Proofs: `ChainSound` for devices that queued nothing since their last
   acknowledged upload, instead of until the first failed call; the safety
   half of `IdsConverge` (devices that agree on an id keep it).
