# AstraStore Xion: a specification of the storage service

This directory models the Go service of this repository in TLA+, checks the
models with TLC on small instances and proves the safety properties with
TLAPS for every size. Each definition is a translation of code under `src/`;
`PROJECT.json` says which lines.

## 1. The system

Line numbers are those of `src/`.

| component | state it keeps | operations | hard behaviour | what makes it correct |
|---|---|---|---|---|
| **File store** (`pkg/files/store.go`, `recovery.go`, `model.go`) | a data root with `objects/`, `metadata/`, `tmp/`, `trash/`, `uploads/`, `quarantine/`; an `RWMutex`; a `sync.Once` for the usage index | Put, Get, Open, List, Delete, Restore, ListTrash, PurgeTrash, StartUpload, AppendUpload, GetUpload, CompleteUpload, AbortUpload, SweepUploads, Recover, Ready | kills between two renames, failed calls and hand-written rollbacks, temporaries left behind | acknowledged bytes survive; no id twice; a completed session has its whole file; Recover destroys nothing |
| **Usage index and quotas** (`store.go:660-860`) | bytes and records per owner, in memory | ensureUsageLocked, moveUsage, rebuildUsageLocked, Quota, Capacity | increments after a step that may already have failed | the index equals a rescan; no owner above quota |
| **Readiness probe** (`store.go:1232-1386`) | a `.ready-*` file while it runs | Ready | runs under the read lock, next to itself | a healthy store is ready |
| **Replication queue** (`pkg/replication/manager.go`) | a map of jobs and one manifest per job; one worker | EnqueueUpload/Delete/Restore, Retry, ProcessPending, loadJobs, Close | lost and late answers, retries, restarts, races with Retry | no job is lost; the replica ends up with what the primary has |
| **API gateway** (`core/apigateway`) | none but its running requests | the HTTP handlers; several calls of the store in one request; commit, then enqueue | requests that meet between two calls, clients that go away, clean-up of refused uploads | a refused upload leaves no file, an acknowledged one stays, a session becomes one file with its bytes in order, a list misses nothing |
| **File service** (`pkg/files/service.go`) | none | delegation, and the readiness call | - | - |
| **Balancer** (`pkg/balance`) | a hash ring, node status, a routine | AddNode, RemoveNode, GetNode, MigrateShard, Start, Stop | colliding virtual nodes, a lock taken twice, a restarted routine | every key has a live node; nobody blocks for ever |
| **Legacy storage node** (`pkg/storage`) | a directory of chunks, a heartbeat goroutine | WriteChunk, ReadChunk, DeleteChunk, GetStatus, StartHeartbeat, StopHeartbeat | calls that break off and leave temporaries, a disk walk without the lock, a goroutine that reads the context of its successor | a chunk is the whole of one write; what counts as free is free; a running node has a heartbeat |
| **Metadata service** (`pkg/metadata`) | MySQL rows | CRUD, status changes | transactions | - |
| **Raft node** (`pkg/raft`) | a pointer to hashicorp/raft | Start, Stop, Apply, AddPeer, RemovePeer | the consensus is the library's | - |
| **Auth, crypto, compress, monitor** | users, permissions; none; none; counters | - | - | - |
| **xionctl, clients, deploy** | none | single requests | - | - |

How they interact. The gateway calls the service, the service calls the store,
and the store serialises its writers with `s.mu`. After a successful upload,
completion, delete or restore the gateway asks the replication manager for a
job; the manager's one worker reads the file back through the service and
repeats the operation on the replica over the same HTTP interface, whose
gateway recognises the marker header and queues nothing. `main` runs `Recover`
before it listens; systemd starts the process again when it dies. The
balancer, the Raft node, the metadata service and the legacy storage node are
packages of an earlier design: the two programs in `core/` that would use them
do not wire them to the file path.

The hazards of this code, each at its line, are listed in `PROJECT.json`
with the properties that cover them, or the reason why none does yet.

## 2. The modules

### The file store

| module | contents |
|---|---|
| `StoreState` | what is in the data root, the operation that holds `s.mu`, the state of the usage `sync.Once`; the predicates the code evaluates on them (`TrashOK`, `UploadOK`, `RebuildOK`, `ReadyOK`) |
| `FileOps` | Put, Delete, Restore, PurgeTrash, one action per system call that changes the data root |
| `UploadOps` | StartUpload, AppendUpload, AbortUpload, CompleteUpload, SweepUploads, likewise |
| `DiskStore` | Recover, kills, restarts, the next-state relation, the fairness and all properties |
| `FileLifecycle` | what a client is promised about one file: absent, live, trashed, purged |
| `MCDiskStore` | the TLC instance |
| `DiskStoreProofs`, `DiskStoreSessionProofs` | the theorems |

Every writer of the store holds `s.mu` from its first check to its return
(`store.go:272`, `386`, `459`, ...). So there is one record `op` for the
operation in progress, with its position and its file, session and victim ids,
and a step is one system call that changes the data root. Between any two of
them the process may be killed (`Crash`), and a call may fail (`IOError`
actions); the code's deferred functions and rollbacks are then steps too.
Everything an operation does before its first change, all of its checks
included, is in the guard of its first step. Rollbacks too are one step per
system call: after a failure Put removes its manifest and then its object
(`PutUndoManifest`, `PutUndo`, `store.go:346-350`), Complete its object and then
its manifest (`CompleteUndo`, `CompleteUndoManifest`, `store.go:597-602`).

Put and Restore ask with `pathExists` (`store.go:1425`) whether the id is free, and
that takes every error of its stat for "absent". Their guards can therefore
overlook what is there: `Missed` counts the stats that had to fail for a step to
be taken, and `Overlooks` charges them to the bound of failed calls.

* `objects`, `manifests`, `manifestTmps`, `partials` are the files of the four
  flat directories, `trash` and `uploads` the directory trees per id.
* `index` is what the `sync.Once` of the usage index remembers: not loaded,
  loaded, or an error kept for the life of the process.
* `held`, `confirmed`, `assembled`, `overlooked` are ghosts: what clients were told, of
  which session a file was made, and the ids whose own stat once failed.

Abstractions. A kill is the end of the process, not a loss of power: what was
written stays written. A successful fsync changes nothing that a killed process
leaves behind and is part of the next step; a failed one is an I/O error. When
a call failed, removing the caller's own temporary file is assumed to succeed,
except where the model says otherwise (`PutAbandon`). The contents of
`quarantine/` are not modelled: moving a session without a manifest there is
one step. A failed body write that leaves the session as it was is the same
step as the client's disconnection. The byte counts of quotas and the disk
usage threshold decide only whether a request is refused, so refusal is always
possible there; `UsageIndex` adds the byte counts.

### The readiness probe

| module | contents |
|---|---|
| `Readiness` | Ready beside the operations of `DiskStore`: the probe file, the look through the directories, the kill in between; the fairness and the properties of liveness of the store |
| `MCReadiness` | the TLC instance |
| `ReadinessProofs` | the theorems |

Ready holds `s.mu` for reading, so any number of probes run at once and none
beside an operation. `probe` says for each request of `/readyz` whether its
`.ready-*` file is in `tmp/`; `leftovers` whether one lies there that no probe
will remove. The look through the directories is one step, because nothing but
probe files can change meanwhile and those are looked for last. Every step of
`DiskStore` is a step here: its own operations begin when no probe runs.

### The gateway

| module | contents |
|---|---|
| `Gateway` | what the handlers do between their calls of the store: upload with its clean-up, delete, restore, purge, resumable sessions, the paged list, the sweep, the end of the process |
| `MCGateway` | the TLC instance |
| `GatewayProofs` | the theorems |

`req[c].at` is the place of the handler that works for connection `c`. Here a
call of the store that nobody can see half done is one step (`DiskStore` is
what lies below it), and the two that hold `s.mu` while the body of a request
comes in, Put and AppendUpload, are two steps; nobody else calls the store
between them (`Unlocked`). An upload is Put, the rest of the body, and then the
answer or the clean-up (`handlers.go:195`), which may fail because its context is
the request's. An append asks GetUpload for the size and calls AppendUpload
later. A list is List and Count for every page.

* `files`, `sessions` are the store as a client sees it; `made` says of which
  session and of which bytes a file is.
* `word`, `aborted` are ghosts: what the gateway has said of a file, and the
  sessions for which it answered 204. `req[c].since`, `seen`, `spoiled` are ghosts
  of a list: what was live at its first page, what its pages had, and whether
  a file was deleted meanwhile.

File ids are numbers, in the order of the `CreatedAt` of their files: the list
sorts by it, newest first. Ids that a peer chose may come in any order, and a
purged id may be used again.

### Usage and quotas

| module | contents |
|---|---|
| `UsageIndex` | the index of bytes and records, its rescan, the quota test, as an addition to the steps of `DiskStore` |
| `MCUsageIndex` | the TLC instance |
| `UsageIndexProofs` | the theorems |

`usage` and `valid` are the fields of `DiskStore`; `size` gives each file the
size its manifest records, `reserved` what AbortUpload or a sweep read from the
manifest it is removing. Every action is one of `DiskStore` together with what
the same call does to the index: `CountDelete` is `DeleteReturn` with the call
of `moveUsage` at `store.go:1118`, `LoadUsage` is any first caller of
`ensureUsageLocked`, `Forget` the loss of the process. The actions that do not
touch the index are listed in `Uncounted`. Only `RebuildUsage` is new. One owner
is modelled, since each call looks up the entries of one. Overflow is not:
the sizes of a model are far from 2^63. The threshold of the disk is left to the
refusals of `DiskStore`. What a set of files occupies is counted byte by byte
(`BytesIn`, the cardinality of a set), the sum that a loop over the files comes to;
`UsageAssumption` says that there are finitely many ids (uuids, `store.go:26`).
A bound: a file that Put makes over one in the trash, because a stat failed, has the
size of that one, as the copy of a peer has (`AdmitPut`).

### Replication

| module | contents |
|---|---|
| `ReplicationQueue` | `Manager`: the jobs in memory and on disk, each critical section of `m.mu` as one action, Close, a kill, loadJobs |
| `Replication` | the gateway's commit-then-enqueue, what the worker does between its two critical sections, the replica, requests that fail or arrive late; the fairness and the properties |
| `MCReplication` | the TLC instance |
| `ReplicationProofs` | the theorems |

A job is named by operation and file as in `manager.go:194`; its record has the
status, the attempts and whether `NextAttemptAt` is still ahead (the length of
the backoff is not modelled: time passes by an action that any waiting job may
take). `persistJob` either works, or fails before or after its rename. The
worker's position is one of its calls: open the source, ask the replica for the
status, send the request, write the outcome. A request fails by a fault (a
refusal, a transport error, a timeout) or because `Close` cancelled the context,
and what was sent may be carried out later (`late`) or never. The two stores
appear as the state of each file that their clients see; every operation is
atomic there, `DiskStore` shows what is below. The wake channel is left out
because the worker's ticker makes the same call. The replica has no other
writer.

### The storage node

| module | contents |
|---|---|
| `ChunkStore` | what a storage node promises of its chunks: one call changes them, at once and as a whole |
| `StorageNode` | WriteChunk and DeleteChunk file by file, GetStatus as a walk without the lock, StartHeartbeat, StopHeartbeat and the goroutines, failed calls and kills |
| `MCStorageNode` | the TLC instance |
| `StorageNodeProofs` | the theorems |

`stored` and `tmps` are `{id}` and `{id}.tmp`, by their size; `op` the call that
holds `n.mu`. A write goes through the temporary file, which grows piece by
piece, and is renamed at its end; where the code removes the temporary without
looking at the error, the model lets it stay. `walk` is one call of GetStatus;
a change of a file under it ends it, since what it then reports is a matter of
luck. The bytes on the disk are counted as those of the usage index are
(`BytesIn`). The context of the heartbeat is read without the lock, as in `Balancer`.
No program under `core/` gives this node any request yet.

### Balancer

| module | contents |
|---|---|
| `HashRing` | AddNode, RemoveNode and GetNode on `nodes`, `ring` and `keys` (`sortedKeys`) |
| `Balancer` | the routine, its context and `b.mutex`; Start, Stop, UpdateNodeStatus |
| `MCBalancer` | the TLC instance |
| `BalancerProofs` | the theorems |

CRC-32 is a function chosen at the start from a set (`Hashes`); nothing keeps
two virtual nodes from having the same point. Every operation holds `b.mutex`
and is a step. A routine is named by the Start that made it. It reads `b.ctx`
without the mutex, which is a data race: it may see any context from the last
it saw to the current one. When `checkAndBalance` finds an overloaded node it
calls `rebalance`, which locks the mutex the caller holds: `holder` then keeps it
for ever and no call returns (`consistent_hash.go:297`). Shard counts, hot files
and the flag `IsOverloaded` are left out: nothing here depends on them.
`EnableAutoBalance` is on. No program in `core/` starts this balancer yet.

Mutated operators. Several modules define an operator marked `Mutant:` next to
the definition it would break, for instance `PutOverTrash` next to `Put`. No
specification uses them; they are alternatives a change of the code could slip
into, and `PROJECT.json` says which property notices each.

## 3. What the runs check

The runs of the gateway and of the storage node check deadlock: some handler can
always go on. The others set `CHECK_DEADLOCK FALSE`: when the bounds are used up,
or when every request is refused because the index could not be loaded, the model
stops, and a service that waits for requests is no deadlock.

| run | bounds | shows |
|---|---|---|
| `store_safety` | 2 files, 1 session of 2 bytes, 1 failed call, 2 kills | acknowledged bytes are kept (`HeldBytesKept`), no manifest without bytes unless a call failed and a kill broke off Complete's rollback (`ManifestHasBytes`), no id twice whose own stat did not fail (`OneCopy`), a session that says completed has its whole file (`CompletedHasFile`), its bytes become one file however often it is completed (`BytesUsedOnce`), confirmed bytes of an open session are kept, a session manifest is never ahead of its data, an undisturbed store is ready, no temporaries of Put or of a session outside an operation once a store serves, and none in `trash/` before the first kill (`NoStrayTemporaries`), `Recover` takes nothing away a client can still use (`RecoverKeepsData`), the store refines `FileLifecycle` |
| `store_readiness` | 1 file, 1 session of 2 bytes, 2 probes, 1 failed call, 1 kill, fairness | a probe that is alone answers 200 whatever has run before (`LoneProbeReady`), a 200 is never given over a half changed store (`ReadyMeansWhole`), a store that is down serves again, every operation releases the lock |
| `gateway_safety` | 2 files, 1 session of 2 bytes, 2 connections, pages of 1 | chunks that arrive at once, twice or broken leave the bytes in order; a session becomes one file; an aborted one none; a refused upload leaves none (`NoOrphans`); a list read to its end has missed nothing (`ListFindsAll`); an acknowledged file goes by its own DELETE only (`AckedFilesStay`) |
| `usage_safety` | 2 files of 0, 1 or 2 bytes, 1 session of 1 byte, quota 2, 1 failed call, 1 kill | without a failed call the index has the bytes a rescan would find, category by category; with one it never has less; files, trash and reservations stay within the quota |
| `queue_safety` | 1 file, 2 handlers, 2 attempts, 1 failed write, 1 manual retry, 1 kill or stop, 1 hang-up, 3 changes of the file | an acknowledged job that was not carried out is on disk as unfinished; completed means carried out; a running job has a worker; while nothing fails or stops, a clear queue means that the replica agrees with the primary about every file with at most 3 changes, in whatever order jobs were queued and taken |
| `queue_live` | 1 file, 2 attempts, 1 fault, 1 failed write, 1 manual retry, 1 kill or stop, 2 changes, fairness | every queued job completes or uses up its attempts, with a retry beside the attempt under way too, unless a failed `persistJob` in `claimNext` leaves it stranded (`Stranded`) |
| `balancer_ring` | 3 nodes with 2 virtual nodes each on 4 points, 12 ways to place them, 2 starts, fairness | lookups give registered nodes, the nearest one where no points are shared; only the keys of the node that comes or goes move; a running balancer has a routine; a stopped one has none in the end |
| `storage_node` | 1 chunk of 1 or 3 bytes, blocks of 2, quota 6, 1 failed call, 1 kill, 2 starts, fairness | the directory refines `ChunkStore` whatever fails or breaks off; what is reported as free can be written (`FreeSpaceIsReal`); a running heartbeat has a goroutine; after the last stop none is left |

Type correctness is a theorem of every component, as part of its inductive
invariant (section 4); runs check it where a step could break it in ways a model
easily gets wrong, in the core of the store and for the counts of the usage index.

The bounds. Two files are enough for what one file can do to another (the
shared `Ready`, the rebuild, the sweep), since no operation touches two ids;
one session of two bytes has an empty, a partial and a full state. One failed
call reaches every rollback, the second kill every state of a recovery that was
itself interrupted. With a quota of 2 one file can fill it, or a file and a
reservation, and sizes of 0 and 2 reach both ends of every comparison. In the
queue two attempts separate a job that may be tried again from one that may not;
three changes of one file are an upload, its deletion and its restoration, and
one change more is enough for `queue_clears`. `queue_live` has two changes,
an upload and its deletion: two jobs, each of which may wait, fail, be retried and
be interrupted while the other is taken.

Two probes meet in every way that more do: a probe objects to one file as to
many. At the gateway two connections are enough for what is between two calls of
one handler, since the steps without a place of their own (delete, restore,
purge, completion, abort, sweep) come from any number of others; with two
files and pages of one a list has two pages, and a file can come in front of
either. `ListFirst` is tried with a limit past `MaxPage` (400 at
`handlers.go:315`).

A chunk of 1 byte fills half a block, one of 3 one and a half; together with
a leftover temporary of any length up to 3 they come close to the quota from
below and pass it. Two starts of a heartbeat are the least for a goroutine that
takes its successor's context for its own.

Four points and two virtual nodes place a node between the points of another, on
one of them, on both, or twice in the same place; with three nodes a key could
move between two nodes that a step does not concern. The second start is needed
for a routine that reads the context of its successor.

Runs with `expect: violation` are disagreements between the code and what the
repository says about it. Each has one property, with the sentence it comes
from quoted in `findings`:

| run | the code |
|---|---|
| `store_ready` | a kill after the object was renamed and before its manifest was written leaves a store that `Recover` does not repair and `Ready` refuses for ever |
| `store_resume` | a kill while a chunk is appended leaves a part longer than its manifest; the session can be neither continued nor aborted |
| `store_complete` | a failure after the rename in CompleteUpload deletes the only copy of the bytes |
| `queue_clears` | deleting a file again after a restore never reaches the replica, and the queue is clear |

The bytes in the index may be too high after a failed call: Delete and
AbortUpload return the error of their last fsync before they move the bytes
(`store.go:656`, `1113`). The next rescan corrects it. That is why
`BytesMatchRescan` speaks of `faults = 0` and `NeverUndercounts` allows a fault.

Behaviour met while modelling that no run states as a property of its own:

* a kill inside Delete or Restore leaves a trash entry that can be neither listed
  nor restored (one of the ways `ReadyAfterRecovery` fails);
* a failed stat makes Put create an id that is in the trash again, or Restore write
  over a live file (`store.go:284`, `1190`, `1425`; the exception in `OneCopy`);
* a kill in Complete's rollback, between the removal of the object and that of the
  manifest, leaves a manifest without bytes (`store.go:597-602`; the exception in
  `ManifestHasBytes`);
* a kill inside Delete or Restore leaves `trash/{id}/manifest.json.tmp`, which
  Recover does not remove; `writeManifest` (`store.go:1564`) then refuses every
  later Restore of that file (the exception in `NoStrayTemporaries`);
* a failed sync after an append's manifest was written takes the data back and leaves
  the manifest ahead of it (`store.go:541`; `faults = 0` in `ManifestNeverAhead`);
* the rollback of Delete removes the trash entry even when moving the object
  back failed (`store.go:1075-1081`; why `HeldBytesKept` says `faults <= 1`);
* a client that hangs up between commit and enqueue, or a failed `persistJob`
  there, leaves a change without a job (`manager.go:188`, `handlers.go:415`);
* a restore whose answer was lost fails until its attempts are used up, because
  not-found is a failure for it (`manager.go:364`);
* a manual retry of a running job is overwritten by the outcome of the attempt
  under way (`manager.go:297`);
* a failed `persistJob` in `claimNext` leaves a job running without a worker
  (`manager.go:331`; the exception in `RunningHasWorker`, `Stranded` in `JobsSettle`);
* an overloaded node makes the balance routine lock itself and every caller out
  (`consistent_hash.go:297`): the model does so too, no property holds of it, and
  `StoppedRoutinesEnd` excludes it;
* removing a node also removes the points another node shares with it, so keys
  of the other move (`consistent_hash.go:205`; the exception in `OnlyOwnKeysMove`);
* when the context given to Start ends by itself, the balancer still says it
  runs, and refuses to be started (the exception in `RunningHasRoutine`);
  the storage node does the same (the exception in `RunningHasHeartbeat`);
* `moveUsage` does not count an empty file as a record, a rescan does
  (`store.go:826`; `recovery_test.go:443` asks for agreement): the object count
  of `Capacity` changes with the next rebuild, the bytes agree;
* two probes at once answer 503 over a healthy store, since each finds the
  other's file (`crowded` in `LoneProbeReady`); a kill in a probe leaves a
  file that `Recover` does not remove and every later probe objects to;
* after one failed read the usage index refuses every write of the process
  while `/readyz` answers 200 (`faults = 0` in `ReadyMeansWhole`);
* a list cut by offset misses a file when one before it is deleted between two
  pages (`spoiled` in `ListFindsAll`), and its total is counted after the page;
* a clean-up whose context is cancelled leaves the file of a refused upload
  (`loose` in `NoOrphans`); one that works leaves the id in the trash, where a
  peer that repeats its upload gets a 409 for it;
* a file id that was purged while the clean-up of an upload with that id was
  still due can be used again, and the clean-up then trashes the second file
  (the note at `AckedFilesStay`);
* Abort answers 204 for a completed session that a sweep has removed, whose
  file lives (the exception in `AbortedMakesNothing`); completing a session
  whose file was deleted is an error the handler does not know, so a 500;
* Put and AppendUpload keep `s.mu` while a body comes in, for as long as the
  30 minutes of `ReadTimeout`;
* a failed `Statfs` counts nothing as used (`local_storage.go:261`), and an error
  of the walk counts what it hides as free (`faults' = walk.since` in
  `FreeSpaceIsReal`).

Fairness. `ReadinessSpec` of the store assumes that the holder of the lock runs
on (a body copy ends: `ReadTimeout` is 30 minutes, `core/apigateway/main.go:117`)
and that a dead process is started again
(`deploy/systemd/astrastore-xion.service:12`, `Restart=on-failure`). After an
orderly stop systemd does not: there the assumption is that the operator who
stopped the service starts it again. `FairSpec` of the queue assumes that the worker goroutine runs on (its HTTP client gives
up after 30 minutes, `manager.go:141`), that time passes for each job, that a
stopping process ends, and again the supervisor. `FairSpec` of the balancer and
of the storage node assume that goroutines run, strongly for the end of one: a
select picks at random among the cases that are ready, so a context that stays
done is chosen at last. No fairness is assumed of any client, fault or kill.

What the properties do not say. Each has its reservations, in its comment; the
larger ones together:

* `ManifestNeverAhead`, `NoStrayTemporaries` and `QuietStoreReady` speak of runs
  without a failed call, and `OneCopy` of ids whose stat did not fail.
* `OwedJobsAreQueued` and `CompletedMeansExecuted` compare a job with ghosts that are
  kept per job name and never reset: a job of the same name that is queued a
  second time counts as carried out by the first.
* `UndisturbedQueueInSync` excludes hang-ups and kills between commit and enqueue.
* `NoOrphans` exempts the clean-up that failed, and `ListFindsAll` the list beside
  which a file was deleted.
* `FreeSpaceIsReal` excludes a walk beside which a chunk changed; what is left of it is
  the rounding to blocks, the leftover temporaries and the failed removals.

## 4. What is proved

Every invariant and every action property that a passing run checks, and the two
refinements, are theorems. They hold for every set of ids and every value of the
bounds, under the named assumptions on the constants (`ConstantsAssumption`,
`QueueAssumption`, `ReplicationAssumption`, `UsageAssumption`, `RingAssumption`,
`BalancerAssumption`, `GatewayAssumption`, `StorageAssumption`). One theorem,
`StoreFollowsLifecycle`, also assumes a bound, and says why below. A theorem keeps
the reservations of its property: where that speaks of runs without a failed
call, or with at most one, so does the theorem. TLC checked `SessionInv`,
`BytesInv`, `TmpInv`, `LifecycleInv`, `QuietInv`, `IndexInv`, `ProbeInv`, `SyncInv`,
`UsageInv` and `WalkInv` on instances like those of section 3 before they were proved.

### The store

* `TypeCorrect` (`DiskStoreProofs`): `Spec => []TypeOK`. `TypeOK` is not
  inductive: an action that continues an operation needs to know that the ids in
  `op` are those its position calls for, and an append that the chunk still
  fits. `TypeInv` adds `OpOK`, which says so for each position; one lemma per
  group of actions shows that it is kept.
* `HeldBytesAreKept`, `ManifestsHaveBytes`, `OneCopyOnly` (`DiskStoreProofs`): the
  three invariants about files, with one failed call for the first, none, or one
  and no kill, for the second, and any number for the third, which leaves out the
  ids whose own stat failed. `FilesInv` joins them with what they need: `EntryInv`
  (what is in a trash entry is in a directory), `CreateInv` (Put and Complete under
  way, and their rollbacks), `MoveInv` (Delete, Restore and PurgeTrash under way),
  `UndoInv` (a rollback follows a failed call, so that the next failure is the
  second), `OverlookInv` (a stat that failed is a failed call) and `TwiceInv` (an
  overlooked id may have two manifests, but not without an object). The steps of uploads, sweep and recovery leave all files alone
  except one; the lemma `FilesFrame` deals with them together.
* `ManifestsNeverAhead`, `CompletedFilesAreThere`, `BytesAreUsedOnce`, `ConfirmedStay`
  (`DiskStoreSessionProofs`): the invariants about resumable sessions.
  `ProcInv` says which operations run in which process; without it a sweep could
  be one of Recover or one of a client. `SessionInv` has a part for each
  operation that has a session half changed: `StartInv` (directory, part and
  manifest come one after the other), `AppendInv` (what the part holds
  beside the old manifest, before and after the rename), `CompleteInv` (a
  session that is being completed has all its bytes, or has given them
  to the object), `SweepInv` (only sessions that are over are removed), and
  `DirInv` and `StatusInv` for those no operation is at. `BytesInv` adds what a
  file was assembled from: `SourceInv` says that its session has no part any more,
  so that no second file can be made of it, and that the file Complete is about to
  record in its session is whole.
* `OnlyTheWritersTemporaries`: once Recover has scanned, and while no call has
  failed, a temporary of Put or of a session belongs to the operation under way and
  to no other file (`TmpInv`), so that the O_EXCL of a writer there meets no old
  one. Only the end of the scan makes a store clean that was not
  (`CleanBefore`). For `trash/`, which Recover does not look at, the same is
  shown until the first kill and no longer (`TrashTmpInv`).
* `RecoveryKeepsData`: an action property. What Recover, its sweep and the
  rebuild remove is a temporary or a session that is over, by `ProcInv` and
  `SessionInv`.
* `StoreFollowsLifecycle`: every step is a step of `FileLifecycle` or a stutter
  under the mapping of `DiskStore`. The mapping reads the manifests alone, so
  one system call of each operation is its abstract step: the rename that
  publishes a manifest, the two that move it to the trash and back, the removal
  that takes it away. `LifecycleInv` says where the manifest is before each call,
  so that this step can be taken and the others change nothing. The theorem
  assumes `MaxFaults <= 1`. With two failed calls it
  is false: the rollback of Delete removes the trash entry when moving the
  manifest back has failed too (`store.go:1075-1081`).

### The probe

* `QuietStoreIsReady` (`ReadinessProofs`): `QuietInv`, for a store without failed calls
  and kills: each file but the one in `op` is as `ReadyOK` wants it, each session
  likewise, and the usage index is not failed.
* `LoneProbesSucceed`, `ReadyAnswersTruthfully`: the two action properties.
  `StoreInv` carries the invariants of the store over to the steps of
  the probe. `IndexInv`: an index that could not be loaded, without a failed call,
  stands for a broken trash entry or session. No operation touches one that is
  broken, so it is still there when a probe looks, and the 200 is not given.
  `ProbeInv`: probes run beside no operation, and one that has met no
  other is alone.

### Usage and quotas

* `UsageImplementsStore` (`UsageIndexProofs`): accounting and quotas are beside
  the store, every step of `UsageIndex` is a step of `DiskStore` or leaves it
  alone. What is proved of `DiskStore` therefore holds of `UsageSpec`;
  `CountedBytesAreKept` says so for acknowledged bytes. `MoveKeepsTotal`:
  moveUsage between categories keeps an owner's total.
* `UsageTypesCorrect`, `IndexMatchesRescan`, `IndexNeverUndercounts`,
  `OwnerWithinQuota`: bytes are never negative, the index is exact without a
  failed call, never too low with one, and an owner stays within the quota.
  The three properties look at moments without an operation. In the
  middle of one the index is behind the directories or ahead of them, by the one
  file in `op`. `CountedFiles`, `CountedTrash` and `CountedSessions` are what the
  index has counted at every moment, `ClaimedFiles` and `ClaimedSessions` what
  the owner may come to have of it. `ExactInv`, `CoverInv` and `QuotaInv` state the
  three properties of these sets instead, and are inductive. Most steps leave the
  sets as they are (`FilesSettle`, `SessionsSettle`); each of the others moves one
  file or one reservation from a set to another, which the lemmas about
  `SumOf` turn into an addition, with the theorems on finite sets.
  `ReservedInv`: what a removal gives back is what the session had reserved.
  `DoneInv`: at the call of moveUsage the file is where its category says.

### Replication

* `QueueTypeCorrect`, `OwedJobsStayQueued`, `CompletedWasExecuted`,
  `RunningJobsHaveWorker` (`ReplicationProofs`): the types and the three
  invariants of the queue. `QueueInv` joins them with what they need from each
  other. `WorkerOK`: the worker's job stays open and may be tried again
  while it is carried out, or `Finish` would count attempts past `MaxAttempts`;
  `Enqueue` leaves such a job alone and a retry only lowers its attempts.
  `KnownIsStored` and `AckedIsKnown`: what is in the map is on disk, and an
  acknowledged job is in both, since every operation writes the manifest
  before it publishes the job. An owed job is then known, and not completed.
* `QueueKeepsReplicaInStep`: while nothing fails or stops, and the queue is clear,
  the replica has what the primary has of each file that was changed three times at
  most, however often the other files were changed. `SyncInv` says for each file which of
  its changes are done on the replica, given which of its three jobs are wanted or
  completed (`OrderInv`, `ReplicaInv`), and that the attempt under way has
  seen a status that is still true (`AttemptInv`). The bound of three
  changes per file (`FewChanges`) is part of the property: a fourth change of a file,
  its second deletion, breaks it for that file (`queue_clears`).

### The gateway

* `Types`, `UploadsInOrder`, `CompletesOnce`, `AbortHolds`, `UploadsCleanedUp`,
  `ListsComplete`, `ConfirmedStay` (`GatewayProofs`): the types and every
  property of the gateway's run, for any number of files, sessions, connections and any page
  size. The inductive `Inv` joins the invariants with what they lean on.
  `OneHolder`: one body at a time. `Ranges`: what an append found under the lock
  still holds when its bytes are written, so that they go where they belong.
  `SessionsSpent`: a session that became a file, or was called aborted, can
  never be completed again; `CompletedFiles`: a completed session names its
  file. `Slots`: an upload that has not answered yet is the only one that
  speaks for its id, and nothing was promised of it, which is why its clean-up
  takes nobody's file. `Lists`: what a list still has to show lies at or past
  its offset; a file that comes in front moves it further back, and when the
  offset has reached the number of live files nothing can be past it. This is
  counting: the newest file behind an offset has as many before it
  as there are live files, less itself.

### The balancer and the storage node

* `BalancerTypeCorrect`, `LookupsAlwaysFindNodes`, `OnlyOwnKeysEverMove`,
  `NearestNodeAlwaysServes`, `RunningBalancerHasRoutine` (`BalancerProofs`).
  `RingInv`: `sortedKeys` holds the points of the ring, and each belongs to a
  registered node whose point it is. A search among fewer points finds the same
  one if it is still there (`SearchOfPart`), which is the whole of consistent
  hashing: applied to the points before and after AddNode or RemoveNode it
  gives the action property. That a set of points has a first one is the
  well-foundedness of the naturals. `OwnPoints`: where no two nodes share a
  point, every registered node has all of its own, so that the search, which
  goes through `keys`, gives the nearest of all points of registered nodes
  (`SearchIsNearest`). `RoutineInv`: until its context is done, the newest
  routine has read no other.
* `NodeTypes`, `HeartbeatRuns`, `FilesAreChunks` (`StorageNodeProofs`): the
  directory implements `ChunkStore`. `CallOK` says what the call under way has
  written: at the rename the temporary file is the whole of the data. Every
  step is a step of `ChunkStore` or changes nothing there; only the rename and
  the removal change a chunk. `HeartOK` is `RoutineInv` of the balancer.
* `FreeSpaceReported`: `WalkInv`. What a walk has summed and what it has still
  to see are together the bytes on disk, unless a call has failed since it began.
  That the directory has finitely many entries is part of the invariant: a step
  creates one at most.

### Only model-checked

The five liveness properties: `ServesAgain`, `LockReleased`, `JobsSettle`,
`StoppedRoutinesEnd`, `StoppedHeartbeatsEnd`. They need `ENABLED`
and fairness, of which the provers know nothing. The four properties that
runs show to be violated have no theorem either.

## 5. Not modelled, and the plan

Nothing is left to prove of the properties of safety stated here. What would
say more is a wider model, each part with its theorems:

1. `Metadata service` and `auth`, if a program comes to use them.
2. A second owner in `UsageIndex`: that no call charges one owner for another's
   file. Today every call takes the owner from the manifest it has at hand.
3. The threshold of the disk (`store.go`, Capacity) together with the byte counts.
4. The loss of power: which of the store's fsyncs its guarantees rest on.

Left out of the modelled components, and why:

* handlers that only read (download, status, capacity, quota, the lists of
  trash and sessions), authentication by one service token, the wording of
  errors: they change nothing that another request meets;
* shard counts, hot files and `IsOverloaded` of the balancer: nothing under
  `src/` reads them but `GetShardStatus`, although MigrateShard may take a count
  below zero (`consistent_hash.go:114`);
* a loss of power: the node syncs files but not directories
  (`local_storage.go`), the store both; the models end processes only;
* the contents of `quarantine/`, into which nothing but Recover writes.

Left out for good: byte-level code (crypto, compress, checksums), exporters and
formatting (monitor, xionctl), the HTTP clients, which keep no state, and the
consensus inside hashicorp/raft, of which the wrapper keeps one pointer. The
metadata service and auth are maps under one mutex, or rows of a database whose
isolation is not in the repository, and no program starts them.
