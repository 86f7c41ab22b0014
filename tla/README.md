# SilverBullet in TLA+

SilverBullet is a note-taking web application: a *space* of Markdown files lives on a server (Rust), and each
browser works on a local copy of it (TypeScript), which a service worker keeps in sync with the server's. The
pages are indexed in the background, through a message queue, into a database that all tabs share.

This directory models the parts of it where interleavings, failures and restarts decide whether it is right. Each
component has a module; `MC*.tla` and the `.cfg` files make small instances of it for TLC; `*_proofs.tla`
hold theorems for all instances, checked by TLAPS. `PROJECT.json` lists the components, runs, mutants, hazards and
theorems, and maps every definition to the lines of code it stands for.

**Contents:** [the system](#the-system) · [the plan](#the-plan) · [SpaceSync](#spacesync) ·
[MessageQueue](#messagequeue) · [EventedSpace](#eventedspace) · [ServiceWorker](#serviceworker) ·
[PageSave](#pagesave) · [Watch](#watch) · [ChromePool](#chromepool) · [IndexLifecycle](#indexlifecycle) ·
[runs](#the-runs) · [proofs](#the-proofs) · [what the code does not do](#what-the-code-does-not-do) ·
[not modelled](#what-is-not-modelled)

Paths in the text are relative to the repository.

## The system

### The client

| Component | State it keeps | Operations | Hard about it | What makes it correct |
|---|---|---|---|---|
| **File sync** `client/spaces/sync.ts` | a snapshot: per file the two stamps last agreed on; the marks of files that are not synced; the flag `isSyncing` | `syncFiles`, `syncSingleFile`, per file `syncFile`; the conflict resolver | several awaits between a decision and its effect; 3 workers at once; requests that fail, with or without effect | no content lost, deletions only where a user deleted, snapshot truthful, both sides agree in the end |
| **Sync engine** `client/service_worker/sync_engine.ts` | the persisted snapshot, the sync configuration, the `stopping` flag | `start`, `run` (a cycle every 20 s or so), `syncSingleFile`, `setSyncConfig`, `wipe` | the browser kills service workers at will; configurations change within a cycle | a restart continues from a snapshot that is true |
| **Proxy router, service worker** `client/service_worker/proxy_router.ts`, `client/service_worker.ts` | `online`, `fullSyncConfirmed`, the engine, the `configuring` mutex | `configure`, `reset`, the fetch handlers, the messages of the clients | flags that are out of date; an engine replaced while its sync is running | a client never sees a half-filled local store as the space |
| **Evented space** `client/spaces/evented_space_primitives.ts` | snapshot of stamps, `operationCount`, a deferred listing | `fetchFileList`, `readFile`, `writeFile`, `getFileMeta`, `deleteFile` | events are suppressed while operations overlap | each change is announced in the end |
| **Message queue** `client/data/mq.datastore.ts`, `client/plugos/hooks/mq.ts` | queued, processing and dead messages in IndexedDB, shared by the tabs; waiting workers per tab | `batchSend`, `poll`, `batchAck`, `requeueTimeouts`, `awaitEmptyQueue`, `flushQueue` | tabs poll the same database; callbacks fail; timers; plugs reload; tabs close | at least once: no message lost, none requeued forever |
| **Object index** `client/data/object_index.ts` | index version, a reindex-in-progress marker, the index | `ensureFullIndex`, `reindexSpace`, `clearFileIndex` | crashes in a reindex, several tabs, the queue's notion of empty | an index marked complete is complete |
| **Content manager** `client/content_manager.ts` | the unsaved flag, a save timer, the text last known on disk | `save`, `loadPage`, `reloadEditor`, the external merge | typing while a write is under way; a retry; a change from outside | what was typed is saved |
| **Realtime events** `client/realtime_events.ts` | pending events, a flush timer, the retry delay | `handleEvent`, `flush`, reconnects | events that arrive within a flush, lost connections | a change on the server reaches the page |
| Key-value stores, space primitives, plug system, Space Lua, UI | | | thin layers, interpreters, rendering | |

### The server

| Component | State it keeps | Hard about it | What makes it correct |
|---|---|---|---|
| **Watcher, event stream** `server/src/watcher.rs`, `server/src/handlers/events.rs` | pending paths with times, a bounded broadcast channel | debouncing, floods, slow subscribers | no change goes unannounced |
| **File store** `server-common/src/space/disk.rs` | the files | stamps a client dictates, names that differ in case | sync's view of a secondary |
| **Headless browser pool** `server-runtime-chrome/src/pool.rs`, `supervisor.rs` | the browser and its generation, a page and a supervisor per space | aborts at any await, two supervisors that see the same death | at most one browser, no page leaked |
| **Multi-space manager, users** `server/src/multi/*.rs` | configuration file, instances, routing table, known users | a save that fails between two updates | the three agree |
| Authentication, lockout, HTTP handlers, start-up, CLI | | stateless or sequential | |

### How they interact

A tab fetches and writes files through the service worker. The proxy router answers from the local store once a
full sync was confirmed, and passes on to the server what is not synced. The sync engine runs `SpaceSync` on the
local store (primary) and the server (secondary), persists the snapshot after each file, and posts what it did to
the tabs. In a tab, the evented space compares stamps with its own snapshot and fires `file:changed`; the client
then clears that file's index and sends its name to the queue `indexQueue`, whose callback (the index plug) indexes
the file. The object index waits on that queue to know that a full index is complete. The server's watcher tells
the tabs over server-sent events what changed on disk, and the tabs ask the service worker to sync those files.

So the parts everything else relies on are the file sync (nothing is lost between browser and server), the message
queue (nothing that was sent is forgotten) and the evented space (no change goes by without being sent). Around them
stand the service worker, which decides who answers a page; the content manager, which decides what is written; the
object index, which decides when the index counts as whole; and the watcher with its stream, which brings the news.

## The plan

| Module | What it composes | Stands on | Checked and proved |
|---|---|---|---|
| `SpaceSync` | sync, engine, the two stores, users, network, crashes | | 3 runs, 6 theorems |
| `MessageQueue` | tabs, workers, timers, requeues over one database | implements `Delivery` | 2 runs, 5 theorems |
| `Delivery` | what a queue promises to those who send to it | | through `MessageQueue` |
| `EventedSpace` | operations in flight, events and their listeners, the index worker and its batches | a queue as `Delivery` has it | 1 run, 3 theorems |
| `IndexLifecycle` | reindex, first index, tabs that are closed | a queue as `Delivery` has it | 2 runs, 3 theorems |
| `ServiceWorker` | proxy router, engines, restarts, resets, wipes, a page's requests | a sync that lists first and then handles a file in a step | 1 run, 2 theorems |
| `PageSave` | editor, timers, writes in flight, merges, navigation | a space that stamps what it stores | 1 run, 4 theorems |
| `Watch` | watcher, broadcast channel, event source, flushes, hooks | | 1 run, 3 theorems |
| `ChromePool` | pool, supervisors, the browser, transports that are dropped | | 1 run, 3 theorems |

The modules are layered by what they assume of each other. `Delivery` is an abstract specification, and
`MessageQueue` is shown to implement it (`KeepsPromise`, checked by TLC and proved). `IndexLifecycle` and
`EventedSpace` use a queue of that kind in place of the real one; `ServiceWorker` uses, for a file that sync handles,
`SpaceSync`'s decision on what was listed (`Decision`) and its outcome (`Settled`) in one step.

Left for later: a module for the multi-space manager. Modules that are proved about declare no RECURSIVE operator;
none of the modules does.

Instances are kept to at most a million and a half states.

### What the code does not stand

For several components there is an order of events in which the code does lose something. A model that allows all of
them could check nothing else, since its properties would be false. So each module has a constant `Troubles`: what
may go wrong. It is split into what the code stands, which the runs allow, and what it does not, which each module
lists by name, with a comment, and which the runs leave out. The section of each module says what breaks when it is
let in; every one of these statements was checked with TLC, by adding that trouble to the run's.

## SpaceSync

### State and code

| Model | Code |
|---|---|
| `local`, `remote` | the primary (`DataStoreSpacePrimitives`) and the secondary (`HttpSpacePrimitives`, the server's disk) |
| `hist` | the clock: the i-th write of the system gets stamp i; `hist[i]` is what it wrote |
| `files`, `nonSynced` | `snapshot.files`, `snapshot.nonSyncedFiles` (the paths) |
| `saved` | the snapshot in the service worker's key-value store |
| `isSyncing` | the field of that name |
| `call[c]` | an invocation of `syncFiles` or `syncSingleFile`: its phase, its listings, the paths left to sync |
| `work[c][w]` | a worker of `processWithConcurrency` inside `syncFile`: where it is, and the files it has read |
| `ignored` | what the sync configuration leaves out |
| `live`, `deleted`, `overlap` | history, for the properties |

An action is the code from one await to the next. `Begin` is `syncFile` up to its first await: `Decision` is the
code's chain of conditions, on the metadata listed at the start of the cycle and the snapshot as it is now. The
operators `OnlyHere`, `OnlyThere`, `InBoth` and `NoStampMoved` are its branches, in order. Then come the reads and
writes each decision leads to, with their snapshot updates, and `Report`, the progress callback that saves the
snapshot. `Throw` is an exception: it ends the worker, and for the first one of an invocation runs the `finally`
clause, which releases the mutex while the other workers go on. `Finish` is the normal end.

The environment: users write and delete files on either side; another client is a user of `remote`; a request
fails, before or after it had its effect; the service worker is killed and its successor loads `saved`; the
configuration changes; a file changes on the server behind its modification time (`SilentChange`, which the code
detects by size).

### Abstractions

- Plugs come first in a cycle (one after the other) and then the rest; the model takes paths in any order, which
  includes that one.
- The effect of a request on the server and its answer are one step, except when the answer is lost. A request that
  takes effect long after its sender was killed is left out.
- Calls of the local database do not fail.
- Stamps are unique. Two writes within a millisecond are left out, but for `SilentChange`.
- `SizeDistinct`: a content's size tells it from the others, in the runs where sizes matter. A silent change that
  keeps the size is invisible to the code, and to no purpose in the model.
- `DropStale` includes the code's test for a local copy; `!syncBack` cannot hold in the branch of a file missing on
  the secondary (the candidates are computed from the secondary's own list), so that arm is not modelled.
- What the user sees of a file that lives on the server only is the version that was listed last (`Seen`).
- `reset` and a second engine over the same store are left to `ServiceWorker`.
- `Restart` does not come while a file is `Torn`, unless `"tear"` is in `Troubles`: between the removal of a local copy
  that is not to be synced and the persisting of the mark that says so (`sync.ts:483`), or the other way round
  (`sync.ts:440`). With `"tear"` the code loses content, see [below](#what-the-code-does-not-do).

### Properties

| Property | Says | Hazard behind it |
|---|---|---|
| `TypeOK` | every variable is well-formed | |
| `SnapshotAgreement` (from `StampInv`) | if both stores still carry the stamps of a snapshot entry, they hold the same bytes; for the snapshot in memory and for the one a restart loads | entries made awaits after the read they describe; overlapping cycles |
| `MutexHeld` | `isSyncing` is set exactly while one invocation that has not thrown runs | the `finally` of a failed cycle |
| `DeletionsJustified` | sync deletes a file only if a user deleted that path, or (locally) the configuration leaves it out | a file a stale listing lacks looks deleted |
| `NoSilentLoss` | content a user wrote is on one of the sides until a user replaces or deletes it | conflicts cut short by a failure, a restart, or a change of configuration |
| `EventuallyConverged` | when users and network leave it alone, both sides come to agree and stay so | a file that can never be handled cuts each cycle short |

`NoSilentLoss` and `DeletionsJustified` exempt behaviours in which two invocations were under way at once (`overlap`),
and deletions win over concurrent edits. That they do overlap is described below. In the run with one slot no overlap
can occur at all.

### Runs

| Run | Instance | Shows |
|---|---|---|
| `SyncRace` | 2 paths, 2 invocations of 2 workers, 2 writes, a deletion, and one failed request or restart (torn or not), all at any time; 1,411,006 states | `TypeOK`, `SnapshotAgreement`, `MutexHeld`, `DeletionsJustified` |
| `SyncQuiet` | 2 paths, one under `Library/Std/`, one that configurations may leave out, edits between invocations, 3 writes, a deletion, a failure, restart or change of configuration within a cycle; 671,839 states | `NoSilentLoss` |
| `SyncLive` | 1 path, 2 invocations, every kind of trouble, edits at any time, fairness; 269,105 states | `EventuallyConverged` |

Two paths and two workers are what it takes for a failed worker to leave another one behind, and for a conflict
copy to be met by a second worker. Two invocations are the most that can overlap after one failure. Two writes and
a deletion make each branch of `Decision`, conflicts included; the third write in `SyncQuiet` lets a user react to
the result of a conflict. One failure is enough for each single point of failure. Two are a different matter: a
service worker that is ended between the two writes of a conflicting copy, and again after the next cycle has remade
the copy and taken its stale listing of it for a deletion, loses the secondary's content (`sync.ts:573`). With a limit
of two troubles TLC finds that behaviour, so `NoSilentLoss` is claimed for one.

### Fairness

`FairSpec` asks that every await of an invocation returns (weak fairness of each worker and invocation) and that
`StartFull` is taken again and again: `SyncEngine.run` is an endless loop around `syncSpace` with a sleep. The
fairness is strong because the mutex may be taken by single-file syncs whenever the loop comes round; they end, and
the jitter of the sleep (`sync_engine.ts`) keeps the two from being in step forever. Nothing is asked of users,
failures, restarts or configurations; these are bounded by `MaxBudget`, so that they end, which is the premise of
convergence.

## MessageQueue

### State and code

| Model | Code |
|---|---|
| `queued`, `processing`, `dlq` | the key ranges `["mq","queued"]`, `["mq","processing"]`, `["mq","dlq"]` of one queue; a message is its position in the order of ids |
| `waiters`, `waking` | per tab: `queueWaiters`, and `batchSend`s between the write and `wakeupWorker` |
| `worker[w]` | the loop of `QueueWorker.run`: scanning, the two writes of `poll`, in the callback, waiting; its batch, `stopping`, its pending sleeps |
| `sweep[t]` | `requeueTimeouts` of a tab, between the query, the deletion and the re-insertion |
| `drain`, `flush` | a caller inside `awaitEmptyQueue`, `flushQueue` or `flushAllQueues` |
| `settled` | history: messages acked, given up after their retries, or flushed |

Each call of the data store is one IndexedDB transaction (`client/data/indexeddb_kv_primitives.ts`) and one action,
interleaved with those of all tabs. The end of an empty scan and the registration of the worker as a waiter are one
action, as they run without an await that lets another task in between. Each wait starts a sleep that nobody
cancels: `TimerFires` ends the oldest one, which may belong to an earlier wait. `CallbackFails` covers a callback
that throws and one that never acks, as often as it likes. `Age` is the passing of the timeout (10 s in
`client/client_system.ts`). `Reload` is `reloadQueues` when plugs load: subscribed workers are stopped wherever they
are, and others subscribed. `Reopen` is a tab that is closed or killed, at any point, and opened again.

`Troubles` says what the environment may do. Besides the ordinary ones there are three under which the code
does lose messages, and which the other properties therefore exclude (`Hazards`):

- `tear`: a tab dies between `requeueTimeouts`' deletion from processing and its re-insertion;
- `coincide`: two tabs' requeues handle the same messages at the same time;
- `stall`: a poll takes longer than the timeout between two of its transactions. With either of the last two,
  a poll's delete by key can remove a message that was just requeued.

### Properties and runs

| Property | Says |
|---|---|
| `TypeOK` | every variable is well-formed |
| `NoMessageLost` | a message is queued, in processing or in the hands of a requeue until it is acked, given up or flushed |
| `WaitersWait` | the waiters of a tab are its waiting workers, each once: no wake-up goes to one that is gone or busy |
| `AwaitMeansHandled` | when `awaitEmptyQueue` returns, what was sent before it was called has been dealt with, unless a requeue moved messages while it counted |
| `EventuallyDrained` | the queue drains for good, however often callbacks fail |
| `KeepsPromise` | the stores of all tabs together implement `Delivery` |

| Run | Instance | Shows |
|---|---|---|
| `MQDelivery` | 2 tabs, 3 workers (one takes over in a reload), 1 message, 1 retry, 2 pending sleeps, 2 of: reload, reopen, await, flush; 1,088,234 states | `TypeOK`, `NoMessageLost`, `WaitersWait`, `AwaitMeansHandled`, `KeepsPromise` |
| `MQDrain` | 2 tabs with a worker each, 2 messages in batches of 2, 1 retry, fairness; 395,248 states | `EventuallyDrained` |

One message is enough for the races over a key; two in a batch are needed for acks and requeues that concern only
part of one. Two tabs are needed for polls and requeues to race, two workers of a tab for a successor to run beside the
worker it replaces. Two pending sleeps make a stale one. More retries repeat the same round. The theorems below cover
the bounds of the safety properties. `KeepsPromise` was also checked on the instance of `MQDrain`.

### Delivery

`Delivery` is what a sender may rely on: a message is pending from when it is sent until it is settled (acked, given
up or flushed), which is final. `MessageQueue` instantiates it with `pending <- Pending`: what is queued, in
processing or in the hands of a requeue, and not settled. `settled` is subtracted because two tabs that poll at once
may leave a copy of a message in processing that another has acked; a sender cannot tell. So a poll, a failed callback,
a timeout, a requeue, a reload and a closed tab are stuttering steps of `Delivery`. That is the strongest of the safety
properties: it says of *every* step that it neither loses a message, nor returns one that was settled, nor makes one
up.

### Fairness

Data store calls return, callbacks return or throw, timers fire, time passes, and *some* tab gets to run the
interval of `client_system.ts` that calls `requeueTimeouts`. Nobody needs to send, reload, flush or wait. A tab that is
closed is not scheduled; `MQDrain` has none of these troubles.

## EventedSpace

### State and code

| Model | Code |
|---|---|
| `disk`, `versions` | what the wrapped space holds; a version is a content with its `lastModified` |
| `spaceSnapshot`, `snapshotChanged`, `operationCount` | the fields of `EventedSpacePrimitives` |
| `stored` | the snapshot in the data store, which `enable` loads |
| `op[o]` | a call of the evented space: what it asks for, where it is, its answer, the files it has yet to compare; the event it has sent and what the listeners hold |
| `kv` | the operations that wait for a transaction of the data store, in order |
| `index[p]` | the objects of a page in the index, as pairs of key and version |
| `indexQueue`, `batch`, `left` | the queued messages, each a page and its retries; the batch that the index worker has polled and not acked, and what of it it has yet to begin with |
| `givenUp` | history: pages whose last message came back once too often |
| `events` | calls of the client, changes by others and troubles left (`MaxEvents`) |

`StartList` and `StartCall` are a call up to its first await, `Serve` is the wrapped space, `Return...` the code from
there to the next await, `Fail` an exception. A listing goes through its files one at a time (`CompareListed`,
`CompareGone`): the snapshot first, then the event. A read or write does it the other way round (`ReturnFile`, then
`Cache` after the event). The listener of `file:changed` (`client/client.ts`) clears the page's objects, in one
transaction that reads their keys (`Collect`) and one that deletes them (`Erase`), and sends the page to the queue; that
of `file:deleted` (`object_index.ts`) only clears. `Finally` is the `finally` block. The index worker (`Indexer`) is
one more operation. It polls a batch of messages (`Poll`, of `BatchSize` at most) and goes through it page by page
(`TakeMessage`): it reads the page through the evented space like anybody else, and once that read has returned parses
it and writes its objects. When the whole batch is indexed it is acked (`Ack`). When a read fails, `processIndexQueue`
throws and nothing of the batch is acked (`Finally`); when the window is closed the batch is lost (`Reopen`). Either
way `Requeue` is what `requeueTimeouts` then does: each message of the batch comes back with one more retry, or, after
`MaxRetries`, is dropped, since the client disables the dead-letter queue. What was not indexed, and has no other
message, is `givenUp`, also when it is another page's read that failed.

### Abstractions

- All data of a window is in one IndexedDB object store, whose read-write transactions run in the order they were
  made; `kv` is that order. `SeenIsIndexed` depends on it. The keys `Collect` reads are one transaction too. Database
  errors are left out.
- A page has an object under a key that each version has (the page itself) and one under a key of its version's own.
- One window. The queue is what `MessageQueue` shows it to be: a message is queued or in processing until it is acked
  or its retries are used up. Messages of a page with the same retries are alike and merged, and the time until a batch
  that failed is requeued passes in one step. The worker begins to read with its poll.
- One listing at most: it starts when nothing is in flight. The deferred one is not different, since `StartList` may be
  taken whenever nothing is in flight, so the flag that asks for it has nothing to add. `getFileMeta` is a read as far as the snapshot goes.
- `page:saved`, `page:deleted` and `file:listed` have no listeners that matter here. Before `enable` the evented space
  passes everything through.

### Properties and runs

| Property | Says |
|---|---|
| `TypeOK` | every variable is well-formed; above all, `operationCount` does not become negative |
| `OneComparison` | no two operations compare files with the snapshot, and announce what differs, at a time: what the count is for |
| `SeenIsIndexed` | a version that is in the snapshot, and so will not be looked at again, is in the index or on its way there, and nothing takes it out again; or the queue gave its last message up |
| `EventuallyIndexed` | once changes stop, the snapshot is what the space holds, and every page is indexed in its last version, or given up |

| Run | Instance | Shows |
|---|---|---|
| `EventedIndex` | 2 pages, 1 caller, the listing and the index worker, batches of 2, 1 retry, 2 versions, 3 events (a read, write or deletion by the client, a change by somebody else, a failed request or a closed window), any number of listings, fairness | all four |

A caller, the listing and the worker give three operations in flight, which is what it takes for two to be ignored and
a third to be alone; the second version is the one that makes the first stale; two pages in a batch are what it takes
for one to fail the other. With 1 retry in place of the code's 3, two failures give a message up. A larger instance was
run by hand without adding anything: one page with 5 events.

The exception for pages that were given up is not idle. It needs no trouble at all: two pages are written, one of them
is deleted before the worker reads it, the read throws, and with the last retry both messages go. The page that exists
is then in the snapshot and not in the index, and stays so until it changes (see the last table of this file).

`Troubles` may also hold `"tear"`, a window that is closed while the stored snapshot is ahead of the index (`Ahead`).
It comes about when a deletion ends during a listing and saves the snapshot, in which the listing has entered a file
that it is still announcing. The next window takes that file for seen: it stays out of the index until it changes.
The runs leave `"tear"` out, since the properties are false with it.

### Fairness

Awaits return, transactions run, the interval of `client.ts` lists the files again and again, and the worker polls and
goes through its batches, all of it weakly fair. No fairness for calls, changes from outside, or troubles, which
`MaxEvents` bounds together.

## ServiceWorker

### State and code

| Model | Code |
|---|---|
| `plugged`, `confirmed`, `online` | `syncEngine`, `fullSyncConfirmed`, `online` of the proxy router |
| `configuring` | the mutex of `service_worker.ts`, with its timeout of 5 s, which nothing cancels (`Unlock`) |
| `engine[e]` | a `SyncEngine`: loading its snapshot, hung, running or stopped; its snapshot; what it is syncing, all files (`cycle`) or one (`file`), the versions it has listed `here` and `there`, and the files left |
| `local`, `server`, `saved` | the worker's store, the server, the snapshot in the database |
| `request` | a write or deletion of the page, and who is handling it |
| `acked`, `complete`, `cycled` | history: what the page was told, what a listing has to have, whether a cycle over this store was completed |
| `overrun` | history: the files of which a sync, deciding on its listing, has replaced or removed what came later, until the page writes or deletes them again |

`Configure`, `Plug` and `Unlock` are the handler of the `config` message; `Reset` and `Wipe` those of `reset` and
`wipe-data`; `Restart` ends the worker. `StartCycle`, `SyncNext`, `SyncFails` and `CycleEnds` are a cycle of an engine,
`StartFile` and `SyncNext` the sync of a single file. `Route` is `onFetch` and `Pass`, `Store`, `Served`, `Unserved`,
`Dropped` and `Stored` are `handlePut` and `handleDelete` from one await to the next. `FileListing` and `Get` are
`handleFileListing` and `handleGet`: to read changes nothing.

A cycle lists both sides in one step and acts on that file by file, in any order, while pages and others go on writing:
`Decision` is the chain of `syncFile` over what was listed and the snapshot, `Settled` what comes of it when it copies
or removes what is there *by then*, and `Absent` when that throws because it is not there any more. What is one step
here is two or more awaits in `SpaceSync`: the two lists of a cycle (a local change between them comes after both in
the model, one on the server before both: the listing is the same), the copying of one file, and the immediate sync of
a write (`Stored`), during which the page writes nothing, since one of its requests is handled at a time, and a write
by others ends like the conflict it would have been before. A `StartFile` that would find nothing to do is left out.
The mutex may open at any time it is closed (`Unlock`). Its own timeout may be due, or one of an earlier configuration,
and as nothing in the model is timed, it need not know which. `Joins` tells a configuration that begins while another
is still under way. A conflict ends with the local version here: the copy, which `SpaceSync` is about, is not a file of
this model. Versions are numbered over all files, and deletions count. Assets, authentication, and the bodies of
answers are left out. One request of one page is handled at a time, and changes by others go straight to the server.

### Properties and run

`Worker`: 2 files, one of them synced, 2 engines, 2 changes (writes or deletions by the page, writes by others),
1 trouble; 108,926 states. Two changes are what it takes to overtake a sync: one for it to list, one it has not
listed. The invariants alone were also checked by hand with 3 engines and 2 troubles (260,801 states up to
symmetry).

| Property | Says |
|---|---|
| `TypeOK` | every variable is well-formed; the router has an engine only once that has its snapshot |
| `ListingComplete` | when the router answers for the server, its listing lacks no file that the page knows or that was there when it could first serve, `overrun` ones aside |
| `WritesKept` | what the page was told is written is in the store or on the server, or something newer is; and that is what it reads, whoever answers; `overrun` files aside |
| `OneEngine` | one engine's loop runs at a time |
| `EventuallyServing` | the worker is configured in the end, finds the server and answers for it |
| `EventuallyThere` | every write the page was told of reaches the server, whoever took it, unless a sync overran it |

`EventuallyServing` excepts a worker whose data were wiped: it has stopped its engine and does nothing until it is
started again, which is what `wipe` is for.

`overrun` is what the code does without any trouble, and not a race that is left out: the run reaches it, and each of
the three properties is violated without it. A save during a cycle is acknowledged, to be "synced later"
(`proxy_router.ts:428`), and the cycle, which listed an older version on both sides and a newer one on the server
since, pulls that over it. The exception is exact: it is made when a sync replaces a local version it has not listed,
or takes away the mark of a file that was written through to the server since. Whatever else overlaps a listing (a
push of a version that is newer than the listed one, a file that is gone when its turn comes, a conflict decided too
late or not at all) the properties cover.

What it does not stand (`Races`), with what breaks:

| Race | The code | Breaks |
|---|---|---|
| `partial` | the snapshot is saved in the middle of the first cycle; a worker that is restarted or reset then takes any entry in it for a full sync (`proxy_router.ts:116`) | `ListingComplete` |
| `through` | a write goes past the router, to the server, when the store has been filled already (`Overtaken`) | `WritesKept`, `ListingComplete`, `EventuallyThere` |
| `mixed` | a file that is not to be synced gets into the store while offline, or by the sync of a single file that is not marked yet | `WritesKept` |
| `unsaved` | a restart or reset before the mark of a written-through file is persisted | `ListingComplete` |
| `busy`, `late` | an engine that is stopped in the middle of a cycle, or asked for a sync after it was stopped, goes on with a snapshot of its own (`proxy_router.ts:141`) | `ListingComplete`, liveness |
| `joined` | the mutex was opened under a configuration, by its own timeout or by that of an earlier one (`service_worker.ts:172`), and another begins before it is through | `OneEngine` |

### Fairness

The worker asks the pages for their configuration until it has one (`throttledServiceWorkerStarted`), database calls
return (but for a configuration that hangs, which is a trouble), requests are answered, `checkOnline` and the loop are
timers, and the network comes back. Nothing is asked of pages, others, resets or restarts.

## PageSave

### State and code

A text is a bag of *marks*: a mark is what one keystroke, or one change from elsewhere, has put into a page. That is
all a property here tells apart: whether something is there, once, twice, or on the wrong page. The three-way merge
is then what it is on edits that do not touch: the difference between base and disk applied to the editor (`Merged`).

| Model | Code |
|---|---|
| `doc`, `path`, `home` | the editor's text, `viewState.current.path`, and (history) whose page the text is |
| `unsaved`, `composing`, `dirty` | `unsavedChanges`, `EditorView.composing`, `composingDirty` |
| `base`, `lastSaved` | `lastKnownDiskText` and its time, `lastSavedHash` |
| `timers` | timeouts that will try to save; `held` if `saveTimeout` refers to it |
| `writes`, `reads` | calls of `writePage` and `reloadPageContent` under way, in order |
| `load[l]` | a call of `loadPage`, from leaving the current page to `setState` and beyond |
| `disk`, `seen` | the pages in the space, and their times in the snapshot of the evented space |

`Type`, `Compose` and `Composed` are the editor's listener; `Skip`, `PutOff` and `Write` are the three ends of the
save timer; `Land` is the write's effect, `Written` its return, `WriteFails` the retry after it threw. `Begin`,
`Fetch`, `Show` and `Loaded` are a navigation. `FileChanged` is the listener for changes of the open page, `Apply` and
`Reread` what comes of it. Left out: documents other than pages, new pages and their templates, scroll positions,
upload of files.

### Properties and run

`PageSaving`: 2 pages, 1 navigation at a time, 2 keystrokes or changes from elsewhere, 2 writes and 1 reload in flight,
2 failures or compositions; 59,032 states. Also checked by hand: 3 keystrokes or changes, with 1 write in flight
(433,540 states) or 1 trouble (145,244), and the safety properties with neither restriction (960 thousand).

| Property | Says |
|---|---|
| `TypeOK` | every variable is well-formed |
| `TypedKept` | what is typed while nothing is being written or loaded is on disk, or in the editor on a page that shows as unsaved, from then on: no merge, reload, navigation or failure takes it away |
| `TextsApart` | nothing is in a text twice, and no page gets the text of another |
| `EditorKeeps` | what is in the editor stays until another page is shown |
| `EventuallySaved` | the same keystrokes reach the disk, through failures, compositions and superseded timers |
| `LoadsEnd` | a navigation ends, unless another call of `save` clears the timer whose promise it waits for |

What is typed *while* a write or a load is under way is excepted (`calm`), because the code does not keep it safe: see
[below](#what-the-code-does-not-do). The orders of events it does not stand:

| Race | The code | Breaks |
|---|---|---|
| `overlap` | two navigations at once (needs two loaders) | all safety properties |
| `linger` | a save timer ends, or a merge is applied, between the new path and `setState` (`content_manager.ts:354`) | `TextsApart`, `EditorKeeps` |
| `echo` | the change that a write makes is read before the write has returned | `TextsApart`, `EditorKeeps` |
| `reorder` | of two writes in flight the second lands or returns first | `TextsApart`, `EditorKeeps` |
| `answer` | a write has its effect and then fails | `TextsApart`, `EditorKeeps` |
| `leave` | a page is left while an input method composes: the save of leaving is put off, the load goes on | `TypedKept` |
| `late` | a write is under way when another page is shown | `TextsApart` |

### Fairness

Timeouts end, writes and reads return or fail, compositions are finished. Nothing is asked of the user.

## Watch

### State and code

| Model | Code |
|---|---|
| `raw`, `pending`, `inbox`, `lagged` | the channel from the notifier, `debounce_loop`'s pending paths, the subscriber's part of the broadcast channel and its lag |
| `conn`, `ever`, `catchup` | the `EventSource`, `everConnected`, the listing `onopen` has asked for |
| `queue`, `timer`, `due`, `flushes` | `pending`, `flushTimer`, timeouts that will call `runFlush`, and the calls under way |
| `disk`, `local`, `seen` | per file its version on the server, in the service worker's store, in the page's snapshot |
| `missed` | history: the files whose news the code leaves to polling |

The thresholds and the capacity are constants (`Flood`, `Batch`, `Capacity`), so that small instances meet all of
them. `Debounce` announces any set of quiet paths by what is on disk *then* (`Events`). `Message` queues an event
under its name, `Flush` takes the batch, `SyncFile`, `Probe`, `SyncSpace` and `List` are the hooks of `client.ts`,
with and without a service worker, and `FlushEnds` decides whether there is another flush. `NoEffect` is a hook that
throws, or that finds what it is to do already under way. `Poll` may come at any time and is never required.

Which paths are listable, the fallback to a polling watcher and keep-alive comments are left out.

### Properties and run

`Watching`: 2 files, 2 changes, thresholds of 1 and 2, a capacity of 1, 2 troubles of every kind, with or without a
service worker; 172,595 states.

| Property | Says |
|---|---|
| `TypeOK` | every variable is well-formed; the channel keeps to its capacity |
| `NothingUnannounced` | a change that the page has not seen is somewhere on its way to it, or was given up at one of the places that leave it to polling: nothing else in the chain drops it |
| `OneFlush` | flushes do not overlap, a timer is pending or a flush under way exactly when `flushTimer` says so, and after `stop` there is no further one |
| `EventuallySeen` | without polling, too, a change is seen in the end, unless it was given up |

The places that leave a change to polling (`missed`) are: a notification the kernel dropped, a file whose metadata
cannot be read (`watcher.rs:279`), a hook without effect, and what is lost in a broken or missing connection when no
listing follows: the first connection, or a client with a service worker, whose listing is that of its own store
(`realtime_events.ts:67`). A deletion is one of the latter: `List` with a service worker does not ask the server, so
a single deleted file is left to the sync loop (`f.gone` in `List`). Once given up, a file stays so until the page has
seen it and, with a service worker, the worker's store has it too: a page that has caught up with an old copy in that
store may still be shown that copy later.

### Fairness

Threads and timers run, the stream is read, hooks return, a server that stopped is started again. Nothing of polling.

## ChromePool

### State and code

| Model | Code |
|---|---|
| `slot`, `next`, `lock` | the browser slot and its generation, `next_generation`, `launch_lock` |
| `up`, `tabs`, `broken`, `closing` | Chrome's processes and pages; those that hang; those with a close under way |
| `pc`, `page`, `uses` | per transport its supervisor: where it is, the page its guard holds, the handle of the browser it has |
| `live`, `ready`, `trigger`, `caller` | the fields of the transport, and an evaluation under way |
| `held` | the transports that exist |

A supervisor is a task that may be aborted wherever it awaits, so each of its awaits is a step of its own, and `Abort`
may come between any two: its guard closes the page, its lock and its handle are let go. `TearDown` is the rest of the
task that `Drop` starts. A space that is rebuilt has two transports for a while: a transport is a registration, and
`Register` takes an identity only once.

### Properties and run

`Chrome`: 2 transports, 2 of: the browser dies, a page dies, a launch fails, a client does not get ready; 42,290 states.
Checked with 3 by hand (176,967 states).

| Property | Says |
|---|---|
| `TypeOK` | every variable is well-formed; who has the lock is launching, who holds a page is opening it; and a browser is launched only for the first time or after a trouble |
| `OneBrowser` | at most one browser runs or is being launched, and everybody finds it in the slot: none but a dead one is retired, however late the supervisor that saw it dead |
| `NoTabLost` | every tab is in the hands of a transport, or is being closed |
| `EventuallyReady` | a space that was asked for comes up, again after crashes, unless it is dropped |

With the race `inside` (the abort of a supervisor inside `new_page`, which may leave a tab that no handle names)
`NoTabLost` is false: `supervisor.rs:251`. The comment at
`supervisor.rs:239` knows of that window.

### Fairness

The runtime runs its tasks, and every wait of a supervisor has a timeout. Strong fairness for supervisors, because
they wait for mutexes of tokio, which are fair. Nobody has to ask, register or drop. CHECK_DEADLOCK is off: when all
spaces are dropped, nothing is left to do. The same holds for `IndexLifecycle` (an index that is complete) and
`PageSave` (a user who types no more).

## IndexLifecycle

### State and code

| Model | Code |
|---|---|
| `version`, `marker` | `indexVersionKey`, `reindexInProgressKey` in the data store |
| `old`, `new` | the pages whose objects an earlier version of the client, or this one, has made |
| `seen` | listed pages |
| `queued`, `taken`, `done`, `lost` | `indexQueue`: the queued messages, each a page and its retries; per tab the batch in its worker's hands, and what of it is indexed; what is in processing and will not be acked |
| `dropped` | history: pages whose message was flushed after its retries |
| `listed`, `handler` | per tab: `indexStarted`, and the listener for the empty queue of a fresh install |
| `lock` | the `navigator.locks` lock |
| `pc`, `keys` | per run of `ensureFullIndex` or `reindexSpace`: where it is, and the keys that `clearIndex` has collected |

An action is one transaction of the data store or less. `Check` to `Recheck` are `ensureFullIndex`; `Mark`, `Collect`,
`Clear`, `Unversion`, `Send`, `Settle` and `Unmark` are `reindexSpaceUnlocked`, `ReadVersion`, `EmptyQueue` and
`Marked` the listener of the constructor. The queue does what `Delivery` allows: a message is there until it is
acknowledged or given up. The worker takes a batch (`Poll`; the index plug asks for 3), indexes one page after the
other (`Indexed`), and acknowledges the batch as a whole (`Ack`). A page that cannot be read ends it without any
(`Fail`), and so does the end of the tab (`Close`): `Requeue` then puts the messages of the batch back with one retry
more, or flushes those that have had theirs, with whatever pages they name. The delay of 10 to 30 s before that is left
out, and so are batches that take longer than it (`MessageQueue` has them). Left out: the objects themselves, the
`editor:reloadState` event, and the two gates of `client.ts` that delay `ensureFullIndex` until versions match (it may
be called at any time, which includes that).

### Properties and runs

| Property | Says |
|---|---|
| `TypeOK` | every variable is well-formed; who has the lock has not finished |
| `CompleteMeansWhole` | an index that counts as complete, and that nobody is rebuilding, has every page as this version makes it, or has it queued, or its message was given up; the same of a reindex about to finish; and no message is given up before more has gone wrong than there are retries |
| `DoneOnce` | a tab clears a complete index only if a user asks for it: of two tabs that find an earlier version, the second leaves alone what the first has done |
| `EventuallyWhole` | whatever tabs are closed and whatever pages cannot be read, the index counts as complete in the end, and lacks no page but those whose message was given up |

| Run | Instance | Shows |
|---|---|---|
| `Indexing` | 1 page, 2 tabs, 1 retry, 2 of: closed tabs, failed reads, a manual reindex; a fresh install, an upgrade or an index that is up to date; 358,982 states | all four |
| `IndexResume` | 1 page, 1 tab, which is closed once, at any step | that `EventuallyWhole` is violated |

Two troubles are what it takes to use up one retry; the real number is 3. Also checked by hand: a manual reindex besides
two troubles (921,311 states); 2 pages in batches of 2 in one tab with the same (159,168); and the safety properties of
2 pages in 2 tabs with two troubles (5 million).

That an index which is marked complete may lack pages is what the code does: nothing tells a message that was handled
from one that was flushed, and once the version is the desired one nobody looks again (see
[below](#what-the-code-does-not-do)). What the properties show is that this is the only way. What the code does not
stand besides:

| Race | The code | Breaks |
|---|---|---|
| `early` | a tab that finds no version registers the listener of a fresh install without looking at the marker, and takes the empty queue of an interrupted or running reindex for its own | `CompleteMeansWhole`, `EventuallyWhole` |
| `cut` | a manual reindex clears the index before it deletes the version (`object_index.ts:436`); a tab closed in between leaves an index that counts as complete | `EventuallyWhole` |
| `unlocked` | a browser without `navigator.locks` (an insecure origin) has none to share (`object_index.ts:457`) | `CompleteMeansWhole` |

### Fairness

Each tab goes on with what it can do: list, poll, requeue what timed out; syncs go on being completed (each calls
`ensureFullIndex`), and a reindex that can go on does. All of it is weak fairness. It is enough for the lock too,
since no reindex is begun over and over. Nobody has to ask for a reindex, close a tab, or fail to read a page.

## The runs

Each run asks one question of one instance; the tables above give the instances. The bounds have names: `MaxBudget`,
`MaxMessages`, `MaxRetries`, `MaxTimers`, `MaxVersions`, `MaxCalls`, `MaxWrites`, `MaxReads`, `MaxMarks`, `MaxEdits`,
`MaxManual` and `MaxTroubles`. The identities (`Engine`, `Transport`, `Loader`) bound the instances in the same way.
They limit what the environment does, never what the code may do with it: none of the code's own steps has a bound in
its guard, except that a third write or reload at once is not begun in `PageSave` and pending sleeps are counted in
`MessageQueue`. Symmetry is used in `SyncRace` and `SyncQuiet` only, over the two workers of an invocation; runs with
liveness have none.

For every property of a passing run there is a *mutant*: a definition of the model changed as a plausible bug in the
code would change it (they stand before the definition they change). The property is violated with it. So no property
holds whatever the code does.

## The proofs

The theorems hold for any number of paths, workers, slots, tabs and messages and for any bounds, under the
assumptions on constants stated in the modules (`SyncConstants`, `QueueConstants` and so on, which TLC checks on each
instance).

**`SpaceSync_proofs`.**
`TypeCorrect` is `TypeOK`, which is inductive: one lemma per group of actions, on what an update of one worker or one
invocation must show.
`MutexCorrect` is `MutexHeld`, strengthened by what makes it inductive (`MutexInv`): only an invocation in its processing
phase has workers that do anything, or has failed. So a worker that throws releases the mutex at most once, and only
that of its own invocation.
`StampsCorrect` is `StampInv`, and `Agreement` follows from it: a stamp names a content (`hist`). As long as nothing
changes a file behind its stamp, every file in a store, and every file in a worker's hands, holds what was written
with its stamp; the two stamps of each snapshot entry name the same content, in memory, persisted, and about to be
made. If both stores still carry those stamps, they hold that content. The argument uses nothing about the
mutex: it holds for any number of overlapping and abandoned invocations. Both theorems assume that `"silent"` is not in
`Troubles`, which is what they are about.

`DeletionsCorrect` is `DeletionsJustified`. A worker deletes on what three sources told it at different times: the two
listings of its invocation and the snapshot. `DeletionInv` says of each file that no user deleted why they do not
add up to a deletion. If the snapshot knows it, the server has it, and the browser has it unless it is marked as not
synced (`InSnapshot`); what an invocation's listings lack is not what the snapshot holds to be there (`InLists`); and
no worker has made up its mind to delete it (`InHand`). The first is about the snapshot in memory and the one that is
persisted, for a restart goes back to it. The second needs that a path is in one worker's hands or in the list, never
twice (`Apart`), and that no other invocation is under way (`Alone`, until `overlap`). Two files are told apart from
none by their stamps (`Dated`). It assumes that `"tear"` is not in `Troubles`, without which the property is false, and
that no user's file has the name of a conflict copy (`NoCopyNames`). Nothing is assumed of the environment otherwise: it
holds with every other trouble, `"silent"` included.

`NothingLost` is `NoSilentLoss`. What can take away the last instance of a content is a write over it or a removal, so
`LossInv` says that whatever is about to be covered or removed may go: no user counts on it, or the other store has it
too, or a copy in either store does. That reaches back from the write to everything the decision was made of. If a
snapshot entry says that one side alone has moved, the other side may go (`Entries`). What a worker read is still
there and what was listed still holds (`Hands`), for nobody edits during an invocation. What users count on is in
place or in a copy (`Preserved`). The
longest part is about the copies themselves (`Kin`), for sync handles them like any file: a copy is in both stores,
with the bytes that the stamp in its name names, but for one whose making was cut short. Sync may take this one for a
file that was deleted on the server, and remove it from the browser, but only after it was made again: the server
has it by then, and the version it is a copy of is gone from where it was (`Past`). That this removal does no harm
needs that no trouble is left (`Tr`), and the behaviour that TLC finds with two troubles goes through it; so
`MaxBudget["trouble"] <= 1` is the assumption on which the argument turns. The others: edits between invocations, no
`"tear"`, no `"silent"`, and `NoCopyNames`. TLC checked `LossInv` on the instance of `SyncQuiet` before it was proved.

**`MessageQueue_proofs`.** `QueueTypes` (`TypeOK`) and `WaitersSafe` (`WaitersWait`) come from one invariant, their
conjunction, and hold with every trouble. Neither is inductive by itself: a wake-up finds a waiter at the head of a
queue and changes that worker, which must be a worker of the tab, there once and waiting. A step leaves the waiters
alone and every worker that waits waiting, or appends one that starts to wait, or leaves some of the waiters of one
tab in their places of before (`Cut`): wake-ups, timers, reloads and closed tabs are of the last kind, and touch no
worker that stays. `UnqueueCuts` says so of `removeQueuedWorker`, which splices out only one entry: a worker that were
there twice would stay there. `QueueSafe` (`NoMessageLost`) and `AwaitSafe` (`AwaitMeansHandled`) come from
`QueueInv`. `NoMessageLost` alone is not inductive: a poll deletes from the queue by key, on a scan three awaits old,
and a requeue deletes from processing by key. What saves them is that a message which timed out is *aside*: no longer
queued, and in no worker's unfinished poll (`OldAside`, `FoundAside`). So a message that a poll deletes is still in
processing or settled (`Moving`), and one that a requeue deletes was not put back (`OneSweep`). `Counted` carries
`awaitEmptyQueue` over its two counts. Both assume that none of `Hazards` is in `Troubles`: without that the property
is false, as described above.

**`EventedSpace_proofs`.**
`OneAtATime` is `OneComparison`. It is not inductive: the code knows nothing of who compares, only a number. The
invariant (`IInv`) adds that the number is that of the operations in flight (`Counted`) and what kind of operation can
be where (`Shapes`). Each step moves one operation (`Moves`): it starts it and counts it, goes on with it, ends it and
counts it off, or moves the worker, which is not in flight while it parses. A listing starts when the count is 0, and a
read or write begins to compare when it is 1; what these say of everybody else is `CountMeans`, about cardinalities.
`EventedTypes` is `TypeOK`: that the count is natural is a consequence of `Counted`, and of nothing less. Both hold
with every trouble, `"tear"` included.

`SeenSafe` is `SeenIsIndexed`. The snapshot is updated before the event goes out for a listing and after it for a read
or a write, deletions announce themselves without looking at who else is in flight, and the index is cleared in two
transactions per event, so several clearings of one page may be in line. `SeenInv` says what keeps this from losing a
version. Whatever is known of a page, in the snapshot in memory, in the stored one, or in one that is about to be
stored, is indexed or on its way (`Compared`), and so is what a read or a write is about to put there (`Cached`). A
deletion that has still to clear a page which is back in the snapshot was overtaken by a listing, which will queue the
page after that (`Overtaken`, from the order of the transactions: `InLine`, `Before`); a read or write that triggers
next to a deletion has an old version, because it compared alone (`Apart`). The index worker does not put objects of
one version over those of the one on disk (`Latest`), and a version that a write has not yet brought to the disk is
nowhere else (`Fresh`). Every step of an operation is one of seven kinds (`Turns`: it opens, answers, proceeds,
announces, listens, caches or indexes), and the parts of the invariant are proved from the kinds. Of the queue they
need only `Handed`: a page that was due or given up stays so until the worker begins to read it (`ReadHands`), and a
batch that comes back hands every page of it back, or gives it up (`RequeueHands`), whatever the size of batches and
the number of retries. It assumes that `"tear"` is not in `Troubles`, without which the property is false: a window
that is closed when the stored snapshot is ahead of the events loses them.

**`PageSave_proofs`.** `PageTypes` is `TypeOK`, without assumptions. The other three theorems assume that none of
`Races` is in `Troubles`, for with any of them the code does double or lose text, as its table above says. Under every
action stands who can be at work (`Loads`): one load at a time, a save that is awaited is the one whose timer or write
will resolve it, and what stage a load is in says which page is open. Whether a merge is right is not a matter of the
state, though, but of what the three merged versions went through. `Chronicle` says that there is a history, which the
model does not keep: the text of every version of a page, who made it, and in which version a mark from elsewhere
came. The disk, the base of the editor, and the reads, loads and writes under way hold samples of it. `Edited` relates
the editor to its base: it has all that the base has and all it sent, each once, and nothing from elsewhere that is
newer. This gives `PagesApart` (`TextsApart`) and `EditorStays` (`EditorKeeps`). `TypedStays` (`TypedKept`) follows
one keystroke (`KeptInv`): as long as the editor is on its page, it is there and in every write that is under way;
once one of those landed, or the page shows as saved, or a load of another page reads, it is on disk; and a load that
has read the page since carries it.

**`IndexLifecycle_proofs`.** `IndexTypes` is `TypeOK`, inductive as it stands. `ClearedOnce` (`DoneOnce`) needs
`Alone`: whoever clears has the lock, nobody else has, and if no user asked for it the version is still another one,
since nobody but the holder of the lock can set it. `WholeWhenComplete` (`CompleteMeansWhole`) adds `Marker`: the
marker stands from before the first object is cleared until the queue is empty again; without the marker, and once the
old objects are gone, every listed page is indexed, on its way or given up. Messages only move forward in the queue
(`Keeps`, from `Moved`), so each step other than those of the holder of the lock is covered by one lemma
(`Undisturbed`). `Paid` counts: each retry of a message was paid for by something that went wrong, so it is not given
up before `MaxRetries + 1` of them. Both assume that tabs
share locks and that nobody takes the empty queue of a reindex for that of a fresh install; neither needs the
restriction on tabs that are closed while they clear (`cut`), which only `EventuallyWhole` does.

**`ChromePool_proofs`.**
`BrowserUnique` (`OneBrowser`) rests on `Generations`: nobody launches unless the slot is empty, what runs is in the
slot, and a supervisor that is about to retire a generation has seen it dead, which it stays, for generations are never
reused. `Launches` counts the browsers: each but the first replaces one that died (`PoolTypes`). `TabsKept` (`NoTabLost`)
needs only that a supervisor which opens a page has published none (`Unpublished`), so that no page is overwritten. The
first two hold with every trouble, the third without `"inside"`.

**`Watch_proofs`.** `FlushesApart` (`OneFlush`): there is no flush, one that waits for its timer, or one that runs,
and `flushTimer` is set in the latter two cases, since a flush that ends sets it anew or unsets it. `WatchTypes` is
`TypeOK`. `ChangesAnnounced` (`NothingUnannounced`) needs more than it says, for an event on its way may be of an
older state of the file than the disk has. Its invariant, `Words`, says of a file that the page *or the worker's
store* is behind with and that is not given up: somebody carries the news, and either the watcher still has the path,
or the last word about it in the channel is a right one (not a change of a file that is gone, which the page would
probe in vain). So an event that is displaced, or replaced in `queue` by a later one of the same name, is never the
one that counts: the mark `lagged`, or the later one, is. `Shape` adds what the parts of the chain owe each other: a
channel without subscriber is empty, and a flush that syncs is one with a service worker. A first version of `missed`
forgot a file as soon as the page agreed with the disk; with two dropped notifications in a row the worker's old copy
then brought back a file that is gone, which nothing announces. It was the proof that failed on it: a run needs four
changes to get there.

**`ServiceWorker_proofs`.** `WorkerTypes` is `TypeOK`: each step changes one engine (`EngineUpdates`), or syncs one
file (`SyncTypes`). `SyncLeaves` and `FailLeaves` say what a sync that is done with a file, or gives up, leaves behind,
whatever it had listed. `EngineAlone` (`OneEngine`) needs `Alone`: while an engine loads there is none in the router
and no other loads, and an engine that runs is the router's. It does not need the mutex to stay closed, only that no
configuration begins while another is under way (`"joined"`).

**Model-checked only.** Every invariant that a run checks is also proved, but for `ListingComplete` and `WritesKept` of
`ServiceWorker`: what a sync does to files that change after it has listed them is left to the run. What is left to TLC
is liveness: the prover does neither fairness nor ENABLED. Induction over recursive definitions is out of its reach
too; the modules have none.

## What the code does not do

One run is expected to end in a counterexample, since it shows comments of the code to be untrue of it:

**`IndexResume`.** A reindex "must be resumed — otherwise the index stays permanently empty" (`object_index.ts:365`),
and the marker makes an interruption "recoverable" (`object_index.ts:432`). A tab is closed after its reindex has
deleted the version and before the files are queued. When it is opened again there is no version, so the constructor
registers the listener of a fresh install without looking at the marker (`object_index.ts:88`). The files are listed,
none is new, the index worker finds the queue empty, and the listener marks the empty index complete and deletes the
marker. `ensureFullIndex`, called when a sync is completed, takes its fast path from then on.

The following were found with the same models, by letting in what their runs leave out. To see one of them, change the
named run as described.

| Says | The code | To see it |
|---|---|---|
| "only one sync operation at a time" (`sync.ts:68`) | one failed request rejects `Promise.all` (`plug-api/lib/async.ts:157`) and the `finally` clause frees the mutex while the other workers go on; the next cycle overlaps them | `SyncRace` with `~overlap` as an invariant |
| "Sync was in progress, will sync later" (`proxy_router.ts:428`) | the sync in progress may pull the server's version over the write just acknowledged, which is then nowhere | `Worker` without `p \in overrun` in `EventuallyThere` |
| a conflict makes a conflicting copy (`docs/Sync.md:24`) | a pull decides on metadata from the start of the cycle and overwrites a save made since (`sync.ts:424`) | `SyncQuiet` with `EditsDuringSync = TRUE` |
| "we're talking about a synced file" (`sync.ts:362`) | a file that is not to be synced loses its local copy before its mark is persisted; after a restart this is taken for a user's deletion, and the server's file goes. The other way round (`sync.ts:440`), the old copy is pushed over the server's newer file | `SyncQuiet` with `"tear"` added to its `Troubles` |
| `awaitEmptyQueue` "waits until a queue has no pending or processing messages" (`plugos/syscalls/mq.ts:111`) | a requeue has deleted the message and not yet put it back: both counts are zero | `MQDelivery` without `~drain.swept` in `AwaitMeansHandled` |
| "every indexed object has a representation in the markdown" (`docs/ADR/003 Indexed Object Graph.md:24`) | the worker writes what it parsed of an older version after the newer one's `file:changed` has cleared the page; nothing clears it when the newer one is indexed | `EventedIndex` with `=` for `\subseteq` in `Indexed` |
| "Queueing index for" a changed file (`client.ts:392`) | a batch is three pages; when one of them cannot be read, because it was deleted or the request failed, the whole batch throws (`queue.ts:14`), and after 3 retries the other pages' messages are dropped with it. Their versions are in the snapshot, so they are not indexed until they change | `EventedIndex` without `p \in givenUp` in `SeenIsIndexed` |
| "The index is whole again" (`object_index.ts:488`) | a page that cannot be read fails the batch it is in, a closed tab loses one; after 3 retries the messages are flushed (`mq.datastore.ts:274`, `client_system.ts:105`), the queue is empty, and the index is marked complete without those pages and those that shared the batch | `Indexing` without `dropped` in `CompleteMeansWhole` |
| a black page name "indicates the page is currently saved" (`docs/Page Namer.md:10`) | a write that returns marks the page saved, whatever was typed since; the save timer of that keystroke then finds nothing to save. It is saved with the next keystroke, or lost if another page is opened first | `PageSaving` without `calm` in `Keystrokes` |
| "a single worker waiting" is woken (`mq.datastore.ts:123`) | the sleep of an earlier wait takes the worker it belongs to off the list of waiters (`mq.datastore.ts:66`), so nobody is found, and the message lies until the next sleep ends | |

Besides, a conflicting copy that is interrupted twice loses the secondary's content (see the bounds of `SpaceSync`);
workers of a cycle that was abandoned may push a file that the next cycle has just removed; and a scale test says that
two subscribers "shouldn't" process a message at once (`mq.datastore.test.ts:121`), while the comment at
`mq.datastore.ts:183` expects it: in the model it happens whenever two tabs poll at once.

## What is not modelled

- **Within the modelled parts:** `flushDLQ`; errors of the local databases; two tabs that draw the same message id in
  the same millisecond; static assets, authentication and encryption in the service worker; documents other than pages
  in the editor; queries of the index; logs and screenshots of the headless browser; a tab of an older client that
  polls the queue of a newer one.
- **Not yet:** the multi-space manager. Its changes run under one lock; what is worth a model there is a failure
  between saving `spaces.json` and building an instance (`server/src/multi/manager.rs:206`).
- **Left out:** Space Lua and the parsers (sequential, data too rich for a model checker), the UI and editor plugins
  (rendering), key-value stores and HTTP layers (thin; what the parts above need of them is in their steps), the
  lockout (a counter under one mutex), authentication (cryptography and cookies), start-up and CLI (wiring, terminal
  I/O). Most of the repository's lines are of this kind: the modules here stand for the part whose state is shared by
  processes, tabs, tasks or threads.
