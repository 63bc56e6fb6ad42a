# A formal model of the data fetcher

TLA+ modules, TLC configurations and TLAPS proofs for the data fetcher: a Python program that
asks *locators* for bundles, queues them, and lets a pool of *workers* load them into a
*storage*. Paths below are relative to `src/` of the package sources
(`data_fetcher_core`, `data_fetcher_sftp`, `data_fetcher_http`, `data_fetcher_http_api`,
`data_fetcher_app`).

    main_async ── FetchPlan ──> Fetcher.run
                                  │ locator task ── get_next_bundle_refs ──> locators (SFTP, HTTP API)
                                  │      │ enqueue                              │ marks, results, state
                                  │      v                                      v
                                  │  InMemoryQueue                      KVStoreQueue / key-value store
                                  │      │ dequeue                              ^
                                  └─ workers ── load ──> loaders ─> storage     │
                                         └───── handle_bundle_processed ────────┘
                                     locators and loaders share the connection pools

Everything runs on one asyncio event loop: a task keeps control until it suspends. The
key-value store (memory or Redis) may outlive the process; everything else dies with it.

## 1. Inventory

### Fetcher (`data_fetcher_core/fetcher.py`, `queue/in_memory_queue.py`)
- *State:* the in-memory queue, the completion flag, the run context (`processed_count`,
  `errors`), the locator thread's index and its `bundle_refs_needed`, what each worker holds.
- *Operations:* `run`, the locator thread (measure the room, ask a locator, enqueue, go to
  the next locator, raise the flag), `_worker`, `_process_request`.
- *Interactions:* calls locators and the loader, which may answer late, wrongly or raise; the
  locator thread and the workers share queue, flag and context.
- *Hard:* who may stop when; a room that is measured before an await and used after it; one
  of several handlers that raises; a locator thread that raises while workers work.
- *Correct when:* no item is lost or served twice, the queue stays bounded, a report means
  nothing is left and its numbers add up, the run ends.

### Persistent queue (`data_fetcher_core/queue/kv_store_queue.py`)
- *State:* items under ids and two counters, each a key of the store; `_initialized` of the
  instance; the asyncio lock.
- *Operations:* `enqueue`, `dequeue`, `clear`, recovery on first use, rollbacks; `size` and
  `peek` read.
- *Hard:* no two store operations are atomic together; any may raise; the process may be lost
  between any two; `_initialized` is read before the lock is awaited.
- *Correct when:* delivered at most once, what was acknowledged is kept and served in order,
  the counters describe the items.

### SFTP connection pool (`data_fetcher_sftp/sftp_pool.py`)
- *State:* the queue of idle connections, `_total`, leases; connections break by themselves.
- *Operations:* `acquire` (with health check and `base_dir`), `release`, `close`.
- *Hard:* the limit is checked before a suspension and counted after it; waiters depend on
  what others return; broken connections leave the count without anything being returned.
- *Correct when:* leases are exclusive, the count is right, the limit holds, waiters are served.

### SFTP locators (`data_fetcher_sftp/sftp_bundle_locators.py`)
- *State:* in the store, per file: a processed mark, an in-flight mark, a place in the
  persistent queue, a result.
- *Operations:* `get_next_bundle_refs` (recover, list, check what is known, queue, hand out),
  `handle_bundle_processed`. `handle_bundle_error` has no caller.
- *Hard:* what "known" means is read in pieces while workers change the pieces; every step may
  be the last one before a restart.
- *Correct when:* no file has two live bundles, none is forgotten, all are served.

### HTTP API locators (`data_fetcher_http_api/*_locators.py`)
- *State:* pending URLs, the current date and an `_initialized` flag in memory; processed URLs
  and the current date in the store, each for a week.
- *Operations:* `get_next_bundle_refs`, `handle_bundle_processed`, `handle_bundle_error`, in four
  classes (forwards twice, backwards, a fixed list).
- *Hard:* the two halves part at a restart; a URL counts as processed before it is loaded; the
  range is advanced by the handler of the date before, so one that fails ends the chain.
- *Correct when:* no URL is handed out twice, the saved date never runs ahead of the work, and a
  range nothing went wrong in is handed out whole.

### Bundle storage, streams, loaders (`data_fetcher_core/storage/`, `*_loader.py`)
- *State:* active bundles, pending uploads and the completion event of a
  `BundleStorageContext`; the consumer queues of a `TeeStream`; what a decorator has copied aside.
- *Operations:* `load` of the loaders; `start_bundle`, `add_resource`, `complete` of the storages;
  the decorators' `add_resource`, which tee a resource, store it and add what is inside.
- *Hard:* uploads that start while `complete` runs, a completion that fails half way,
  callbacks that raise, a bounded queue that is full when the end mark is due.
- *Correct when:* a completed bundle has all its resources, completion happens once, consumers
  get the whole stream or an error, and end.

### Pacing (`data_fetcher_core/retry.py`, `sftp_gating.py`, rate limits in the pools)
- *State:* last request and last execution times, the rate limiter's lock, the attempt at hand.
- *Operations:* a request: gates, rate limit, the request itself, and all of it again when it
  raised.
- *Hard:* time is read before a sleep and written after it, by several tasks; the clock that is
  read can be set, and is not the one that measures sleeps.
- *Correct when:* two requests are never closer than the interval, a task keeps to its gates, and
  every request ends.

### Store and state tracker (`data_fetcher_core/kv_store/`)
- *State:* keys with expiry; counters, retry counts, state records read and written back.
- *Operations:* put, get, delete, exists, range_get, clean-up; the manager's and the tracker's
  saves, updates and clean-ups.
- *Hard:* read-modify-write with awaits between; expiry between a check and a use; two stores that
  mean different things by a missing time to live; ranges without an end.
- *Correct when:* an entry lives for its time and no longer, updates that do not overlap add up.

### HTTP pool (`data_fetcher_http/`)
- *State:* idle and open connections, the last request time. As the SFTP pool, but creating a
  connection never suspends.
- *Correct when:* the limit holds, leases are exclusive, waiters are served.

### Not modelled
- Command line, construction of objects from configuration, strategy factories, credentials,
  logging, health endpoint, serializers, S3 key layout, archive formats: they convert or look up
  data and keep no state that other parts race for.
- `kv_store_queue_backup.py` and `kv_store_queue_improved.py`: copies nothing imports.
- The SFTP *file* locator: its second `_initialize`, which replaces the first, uses an attribute
  nothing defines; with its queue empty, as nothing else fills it, every call raises.
- The managers' choice of a pool: a dictionary by configuration key.
- Code without a caller: the synchronous retry, pagination strategies and `_wait_for_rate_limit`
  of the API locators, the store's `scan`, the tar branches of the tar/gz decorator (the two bytes
  they read are compared with longer signatures), the in-memory queue's `peek` and `clear`.

`PROJECT.json` lists every part with its status.

## 2. Modules

| module | models | uses |
|---|---|---|
| `FetchRun` | abstract: what a run promises | |
| `Fetcher` | `Fetcher.run`, its tasks, the in-memory queue | `INSTANCE FetchRun` as refinement |
| `FetcherProofs` | theorems about `Fetcher` | TLAPS |
| `SequenceSets` | lemmas on sequences, their elements, and finite sets of numbers | TLAPS |
| `QueueCounters` | how recovery reads the ids it finds | |
| `KVStoreQueue` | the persistent queue, one store operation per action | `QueueCounters` |
| `KVStoreQueueProofs` | theorems about the persistent queue | TLAPS |
| `SftpDirectoryLocator` | the directory locator over queue and marks, across restarts | `QueueCounters` |
| `SftpDirectoryLocatorProofs` | theorems about the directory locator | TLAPS |
| `SftpPool` | the pool of SFTP connections | |
| `SftpPoolProofs` | theorems about the pool | TLAPS |
| `KeyValueStore` | the memory and the Redis store: values, expiry, clean-up, restart | |
| `ApiBundleLocators` | the four API locators on a store | `KeyValueStore` |
| `StateManager` | state manager and tracker on a store | `KeyValueStore` |
| `StoreClients` | one store with either client | both |
| `StoreClientsProofs` | theorems about the store, the locators and the manager | TLAPS |
| `TeeStream` | the tee: feeding task, two bounded queues | |
| `BundleStorage` | a bundle's context over the bus, file or S3 storage | `TeeStream` |
| `ResourceDecorators` | the unzip and tar/gz decorators | `BundleStorage` |
| `BundleLife` | abstract: what a bundle storage promises | |
| `BundleLoaders` | one load, from the request to the finished bundle | `ResourceDecorators`, `INSTANCE BundleLife` |
| `BundleLoadersProofs` | theorems about a load, its streams and its storage | TLAPS |
| `RetryEngine` | tasks in time, attempts and backoff | |
| `OperationGates` | the interval, daily and composite gates | `RetryEngine` |
| `HttpPool` | the pool of HTTP clients | `RetryEngine` |
| `PacedRequests` | requests through gates and rate limiter on a pool's connections | `OperationGates`, `HttpPool` |
| `PacedRequestsProofs` | theorems about rate limiter, gates, pool and lock | TLAPS |
| `MC*` | instances for TLC | |

`Fetcher` — an action is what a task does between two suspensions: `RequestRefs` (the room is
read, the locator is asked), then `EnqueueRefs`, `RefuseBatch`, `LocatorExhausted` or
`LocatorRaises`; `TakeRef`/`DropItem`/`ExitWorker` in a worker; then `LoadSucceeds` or
`LoadFails`, one `LocatorNotified` per locator, or `NotifyFails`. `Start`, `JoinLocator`,
`Finish`, `TearDown` are `run` and the end of `main_async`. Locators and loader are external:
they answer with anything their interface allows. The sleeps change nothing and are left out.

`KVStoreQueue` — `op` holds the locals of the operation that holds the lock, `op.at` names the
store operation that comes next; each put or delete is one action, with a twin that raises,
with or without effect. Tasks between `_ensure_initialized` and the lock are counted in
`recovering` and `passed`. `Crash` may come anywhere and resets what is in memory.
Reads (`get`, the scan) happen together with the write they lead to, since under the lock
nothing can change between them. Items are numbers in the order offered; what was
acknowledged, delivered and forfeited is history.

`SftpDirectoryLocator` — `call` is `get_next_bundle_refs` with its locals, `call.at` its next
access to the store. Each mark read or written is an action of its own, because workers change
the marks in between; the persistent queue is used by the call alone, so each of its operations
is one action here (its inside is `KVStoreQueue`'s subject), and `Crash` leaves any prefix of
it. `bundles` records every bundle ever minted and how far it got. What a run of the fetcher
does with a bundle is `StartLoad`, `RemoveInFlight`, `MarkProcessed`, `SaveResult` and
`HandlingFails`. Recovery of the counters runs at each new queue object, as in the code, with
the keys of the results in its scan. `max_files` caps a batch like `bundle_refs_needed` does.
With the memory store, whose operations rarely suspend, fewer of these interleavings occur
than with Redis; the module allows them all. Expiry of the marks and of the queue's items is left
out: locator and queue give no time to live, so Redis keeps them for ever; the memory store, which
dies with the process, drops them after its default hour (`factory.py:55`).

`SftpPool` — `Acquire` runs through the idle queue to its first suspension: a lease, a creation,
a replacement (`base_dir` refused), or the wait for the queue. `Break` is the server ending a
connection. Retries of a creation are one action that ends in success or failure.

`KeyValueStore` — each operation is one step, as the memory store holds its lock and Redis serves
one command at a time. `Put`, `Delete`, `Get`, `Read`, `RangeFrom` are what clients build their
actions from. The stores differ in `Late` (Redis drops an entry at its time, the memory store
after it), `TtlOf` (only the memory store applies `default_ttl`) and `Reopen`. `promise` is what
the interface says of a put, whichever the store (`DocumentedTtl`, `base.py:34`): the time to live
that was given, else the default one, else for ever. A value is whatever its client counts or
collects; encoding is left out.

`ApiBundleLocators` — URLs are dates. What the four classes share is written once (`Ask`,
`Record`, `Advance`, `SavePosition`, `ReportError`); each class has its own actions and its own
order of dates over them. `conf` also says whether `date_end` is given, which dates `date_filter`
lets through, and in what form requests come back to the handlers: two classes read
`request["url"]`, two `request.url`, and with the wrong form the handler raises at once
(`Unreported`). A store operation is a step and may raise; `Crash` comes between any two.

`StateManager` — an update is a read (`BeginUpdate`) and a `Write` of what was read, incremented;
times, states and retry counts are all counted. `ErrorRange` is what a range without an end
returns. `StoreClients` puts either client on a store, with the clock and the clean-up beside it.

`TeeStream` — a stream is the number of chunks it holds and whether its end mark follows. The ten
attempts at a full queue, each after a sleep, are `FeedPut` whenever there is room and `FeedGiveUp`
whenever there is none: how long a consumer takes is nobody's to say.

`BundleStorage`, `ResourceDecorators`, `BundleLoaders` — `upload[u]` is one call of the base
context's `add_resource`; `u > 0` stores what pass `u` adds, `-u` the decompressed copy that the
tar/gz decorator adds beside it. `object` is what lies under a name in the storage: the file
storage writes while it reads, S3 and the bus keep what they had until the upload ends. The
decorators' wrapped task has begun its upload before the decorator sees a chunk. When a decorator
raises, the tasks it leaves behind go on. What it copied aside may be too short to be recognised
(`Recognized`), and reading it back may raise, at its opening or where it is corrupt (`FileBreaks`).
A load may raise where it asks the server, where it starts a bundle, or where it opens what it adds
(`CanRaise`). `load` is the loader: `Fetch`, `Start`, `Add`, `AddEnds`,
`Complete`, then `Finish` and `Callbacks` in the order of the storage. Names are reduced to what
they do here: an original and its decompressed copy lose the same suffix and share one, the
members of a ZIP file have their own. That S3 refuses to complete an upload without parts, and
that `TeeStream.close` cancels a feeding task that has ended by then, is left out.

`RetryEngine`, `OperationGates`, `HttpPool`, `PacedRequests` — `now` is the time by which sleeps
end, `now + skew` is `time.time()`, which `SetClock` changes. A task is at one gate, in the rate
limiter, sending, backing off, or waiting for a client. The steps of an attempt between two
sleeps are steps of their own, but no time passes, and no clock is set, while a task is between
them (`AllAwait`). Sleeps end late by up to `MaxLate`. Jitter is a set of factors. An attempt ends
in `Answer`, well or not. How the SFTP pool finds a connection is `SftpPool`'s subject; here its
lease is one step. The branches of the HTTP pool for clients that are closed while idle cannot be
reached: only `close` closes clients, and it takes them off the queue first.

## 3. Runs

| run | expects | shows |
|---|---|---|
| `fetcher` | pass | one place and one verdict per item, a bounded queue, honest results, refinement of `FetchRun`, the end of the run |
| `kv_queue` | pass | no double delivery, nothing acknowledged lost, window and order restored by recovery |
| `kv_queue_compensation` | violation | one failed counter write in `enqueue` makes an earlier item unreachable |
| `directory` | pass | one live bundle per file, no file forgotten, every file taken out while no result is saved |
| `directory_stalls` | violation | the first saved result moves the queue's window off its items |
| `directory_requeue` | violation | bundles in flight at a crash are never queued again |
| `sftp_pool` | pass | exclusive leases, exact count, bounded overshoot, waiters served until a connection is dropped |
| `sftp_pool_stuck_waiter` | violation | a waiter is not woken when the awaited connection is released broken |
| `sftp_pool_overshoot` | violation | more than `pool_max_size` connections are open |
| `store_clients` | pass | entries live as long as documented, but for Redis and the default; no URL handed out twice, no date skipped, an undisturbed range handed out whole; updates that do not overlap add up |
| `bundle_storage` | pass | stored resources are whole, returned loads have finished their bundles, the storage implements `BundleLife`, loads end |
| `paced_requests` | pass | the rate limit over tasks and retries, the gates per task, a bounded exclusive pool, every request ends |

The violated properties quote what a comment or docstring says of the code; `PROJECT.json`
(`findings`) gives the lines. The properties of the passing runs that could not hold because of
such a defect carry its condition: `undone` in `KVStoreQueue` (an enqueue or clear has raised),
`results # {}` in `Served`, `dropped` in `SftpPool`; `run.cut` in `RangeServed` (work was lost,
failed or unreported: nothing hands a date out again, and the dates after it are not generated);
`KeptByRedis` in `KeepsPromises` (Redis keeps what was put without a time to live, whatever the
default); `mixed` in `CountsAddUp` (two tasks in one entry: an update is lost); `cut` in `StoredIsWhole` (a
tee ends its consumers' streams as if the input had ended) and `TwoWriters` (the file storage
writes an original and its decompressed copy into one file at once); `dropped` in `LoadEnds` (the
end mark found a full queue, and its consumer waits for ever); `closing.called` in `RequestEnds`
(`close` takes idle clients and tells no waiter). `LoadedIsComplete` excepts the HTTP loader,
which never completes a bundle, and which with both decorators on may return before an upload of
what was inside ends (`TakenApart`: the unzip decorator goes on when the tar/gz decorator gives up
beside its upload). `GatesHold` speaks of one task's passes of an interval gate,
as tasks that arrive together pass together, and of what a daily gate lets through, not of what it keeps
waiting: after a wait until tomorrow it does not remember that day, and at a month's end it raises,
which to `RequestEnds` is one end of a request. It also needs sleeps that end before the day of a daily gate
is over: with a day of four ticks, a gate that opens at 2 and sleeps late by 2, TLC shows a task
pass on the next day before the time of day; the instance stays below that. The findings without a run in `PROJECT.json` are what was met
on the way and no property of its own is about: what these conditions exempt, and what a run over time
would add nothing to (an ignored parameter, a branch never taken, a missing attribute). `NeverForgotten` names the one gap that is
left between the two writes of `handle_bundle_processed`: a file whose handler stops there is
neither in flight nor processed, and the next listing fetches it again.

### Bounds
- `fetcher`: two locators (the index moves once and ends once), two workers (an exit can race
  the other's work), a target of 2 with three bundles and one item of another type (the queue
  fills, the locator waits for room, a batch can be too large). Every locator, load and handler may fail.
- `kv_queue`: three items in batches of up to two, two faults and one crash. Two faults are what
  a failing rollback takes; a crash between any two operations, then recovery by two racing
  tasks, and two more batches.
- `directory`: two files and two runs: a file can be handed out while the other is queued,
  listed again while its bundle is in a worker's hands, and met again after a restart. One
  worker (`main.py` builds its plan with the default concurrency of 1), one fault, hashes of
  either sign (`hash()` is signed, and `int()` accepts the sign). Files arrive in the first run only: one that comes in the
  last run may be too late for its listings. `CHECK_DEADLOCK FALSE`: after the last run nothing
  is left to do.
- `sftp_pool`: three tasks on a pool of two, each borrowing at most twice: one waits while two
  hold, and an overshoot takes two creating at once. `CHECK_DEADLOCK FALSE`: the work is finite,
  and a stuck waiter is what a property is about. The violation runs use the smallest instance.

- `store_clients`: two dates and two runs, one fault; a date can be pending, handed out, recorded
  and expired at a restart. All times to live are one or two ticks of a clock of two, so that the
  processed URLs, the position and the results expire before, with and after each other. Two tasks
  make three calls of the manager: two updates of one entry and a touch in between.
  `CHECK_DEADLOCK FALSE`: runs and calls are finite.
- `bundle_storage`: three chunks and queues of two: a queue fills before the body ends, and can be
  full at its end. Two members in a ZIP body, so three passes. Two faults: a fallback that fails as
  well. An empty body is plain, as the content is told by its first bytes. The setups are each loader over each storage without decorators, one decorator with each
  content over file and S3, and both over the bus for the HTTP and the SFTP file loader; a directory of none, one and two files.
  `CHECK_DEADLOCK FALSE`: a load ends.
- `paced_requests`: two tasks, two requests and one retry each: an attempt can wait for the lock, a
  gate or a client while the other's is retried. A pool of one client, so that somebody waits.
  Days of four ticks, months of three days and an interval of three, a sleep late by one, a clock
  set once, forward or back. The program starts at 4, the second day of the month: waiting until
  tomorrow reaches the month's last. `CHECK_DEADLOCK FALSE`: the requests are finite.

### Fairness
- Tasks whose await has completed are resumed by the event loop: `WF` on each task's steps.
- Calls that leave the process return or raise in the end (timeouts, bounded retries): the
  steps that stand for their ends are part of the same fair actions. Which end is never fair:
  a locator need not find anything, a load need not succeed.
- `asyncio.Lock` serves its waiters in order: `SF` on `BeginRecovery` and on
  `BeginDequeue(1)` in `KVStoreQueue`, where other operations take the lock in between; the
  latter says that a caller keeps asking, which `AckedIsServed` needs and safety does not.
- In `SftpPool` a task that just calls `acquire` can take a returned connection before the
  woken waiter runs. `WaiterIsServed` rests on the finite work of a run (`MaxUses`), not on a
  strong fairness the asyncio queue does not give.
- The three composed modules have one weak fairness condition, on `Progress`: every step of it
  brings finite work forward (chunks, requests, dates, calls), so no step can be put off for ever
  by others. Faults, crashes, a clock that is set, `close` and expiry are not part of it.
- In `SftpDirectoryLocator` the fetcher asks again until the answer is empty, workers go on,
  and the program is run again (`WF` on `EndRun`); files and crashes are not fair.

## 4. Proofs

Every invariant and every safety action property that a passing run checks, and the safety of both
refinements, is stated by a theorem that TLAPS proves for every value of the constants the
assumptions allow (`GatesAreKept` has one hypothesis more). Each `*Proofs` module follows one pattern:
an invariant, defined beside the properties in the component's module (`StoreInv` and `RateInv` in the
proofs' own), is shown to hold initially and to be kept by every step, one step lemma per action and
part; the properties follow from it. TLC finds each of these invariants true on the run's instance.

| module | theorem | property |
|---|---|---|
| `FetcherProofs` | `TypeCorrect` | `TypeOK` |
| | `QueueNeverOverfilled` | `QueueBounded` |
| | `EveryItemInOnePlace` | `ExactlyOnePlace` |
| | `ProcessedMeansAcknowledged` | `ProcessedIsAcknowledged` |
| | `NothingIsLeftBehind` | `NothingLeftBehind` |
| | `ResultsAddUp` | `ResultAddsUp` |
| | `FetcherImplementsFetchRun` | `ImplementsFetchRun` (safety) |
| `KVStoreQueueProofs` | `QueueInvariant` | `IInv` |
| | `QueueTypeCorrect` | `TypeOK` |
| | `QueueDeliversOnce` | `DeliveredOnce` |
| | `QueueKeepsAcknowledged` | `AckedIsKept` |
| | `QueueWindow` | `WindowIntact` |
| | `QueueDeliversInOrder` | `DeliveredInOrder` |
| `SftpDirectoryLocatorProofs` | `LocatorTypeCorrect` | `TypeOK` |
| | `OneBundlePerFile` | `OneLiveBundle` |
| | `FilesNotForgotten` | `NeverForgotten` |
| `SftpPoolProofs` | `PoolTypeCorrect` | `TypeOK` |
| | `PoolLeases` | `LeasesAreExclusive` |
| | `PoolTotal` | `TotalIsExact` |
| | `PoolOvershoot` | `OvershootBounded` |
| | `PoolWaiters` | `NobodyWaitsForNothing` |
| `StoreClientsProofs` | `StoreKeepsPromises` | `KeepsPromises` |
| | `UrlsHandedOutOnce` | `HandedOutOnce` |
| | `NoDateSkipped` | `NothingSkipped` |
| | `CountsNotLost` | `CountsAddUp` |
| | `StoreClientsTypeCorrect` | `TypeOK` |
| `BundleLoadersProofs` | `LoadComplete` | `LoadedIsComplete` |
| | `StorageKeepsBundles` | `ImplementsBundleLife` |
| | `LoadTypeCorrect` | `TypeOK` |
| | `StoredWhole` | `StoredIsWhole` |
| `PacedRequestsProofs` | `RequestsArePaced` | `RatePaced` |
| | `PacedTypeCorrect` | `TypeOK` |
| | `GatesAreKept` | `GatesHold` |

### Fetcher
For all finite sets of items, any number of locators, any set of workers and any target size
(`ConfigAssumption`: at least one locator, at least one worker, a positive target, `NoRef` is no
item). The inductive invariant is `IInv`. `QueueBounded` alone is not inductive: that the answer of
a locator still fits needs `Asking` — while a request is outstanding,
`Len(queue) + bundle_refs_needed` is within the target, since workers only make room.
`NothingLeftBehind` needs `Phases`: once the flag is up nobody enqueues, so a worker that has left
saw a queue that stays empty, and `run` reports only when all have left. `ExactlyOnePlace` needs
`Holding` (a worker holds a reference exactly in the states that use it). `ResultAddsUp` needs
`Counts`, which ties the two counters to the sets of verdicts, and a step lemma of its own
(`FatalStep`). The refinement maps the queue and the hands to `waiting` and shows per action which
step of `FetchRun`, or which stutter, it is.

### Persistent queue
For any number of items, batches, tasks, faults and crashes (`BoundsAssumption`). `IInv` is taken
in four layers, each relying on the ones before. `LocalsOK`: what the locals of the operation hold
at each store operation — a recovery, for one, that has computed its two counters under the lock
may still write them, as nothing changes in between. `OnePlace`: an item is in the store, delivered,
or in the results of the dequeue at hand, and the items of a batch not stored yet are nowhere.
`OutOfReach`: an acknowledged item lies below `next_id`, where no enqueue writes, and not among the
ids a rollback deletes; this is what makes `AckedIsKept` inductive when an operation is cut off or
undone at any point. `Consecutive` and `Ordered` carry the condition `~undone`: the stored ids are
a run of consecutive numbers, and the window of the operation at hand (`First`, `End`), which moves
before the counters do, ends with it. Recovery needs both: it makes the window
of the greatest id and the number of items, so it is right exactly when there is no gap.

### Directory locator
For any finite set of files, any batch size, number of runs, workers and faults, and any set of
numbers result keys may end with (`LocatorAssumption`). `IInv` adds to the types that the queue
holds each queued bundle once and the call's locals the rest (`Stored`), that a file has one bundle
at a time that is stored, in flight or about to be stored (`OneOpen`), and that marks are where the
stages say (`Marked`). `OneLiveBundle` is not inductive: a listing reads the marks of a file in three
steps while a worker removes one and writes the other. What saves it: a bundle is marked as in flight
before it leaves the queue, and keeps that mark until it is loaded; and a listing only begins when the
queue is empty, which nothing fills but the listing itself.

### SFTP pool
For any finite set of tasks, any `PoolMaxSize`, and enough names for connections
(`PoolAssumption`). `TotalIsExact` counts the connections there are; the proof counts them where they
lie (`Counted`) and shows both equal. `OvershootBounded` is needed for everything else: it says
that a free name exists for a new connection. `SlotsKept` says that a task that waits has seen a full
pool, which `NobodyWaitsForNothing` speaks of.

### Store and its clients
For both stores, every time to live, every range, all four locators, any tasks and items
(`StoreAssumption`, `LocatorAssumption`, `ManagerAssumption`). `StoreKeepsPromises` needs nothing of
the clients: `NextIsOp` shows that every step of every client is one operation of the store
(`StoreOp`, with any key and value) or leaves it alone. The promise is the documented one, the same
for both stores; what each store does is `TtlOf`'s. `StoreInv` says key by key what `KeepsPromises`
does not: an entry has an expiry time exactly when its promise ends, and the same one, unless it is
one that Redis keeps past the default, which has none; and a key that is promised and not there was
promised for a time that is over. Its step lemmas
are where the two dictionaries could come apart: a put without a time to live has to take the old
expiry time with it.

`ClientsInv` is about what the clients know. For the locators (`LocatorInv`): what was chosen is on
record, in memory and in the store, before it is handed out (`OnRecord`), and a date locator has
one date under way at a time, which is why a saved position never runs ahead (`InStep`). For the
manager (`ManagerInv`): of an entry nobody mixed up, at most one task is in an update, and it has
read what the entry still says (`Unmixed`). `TypesInv` adds bounds: no date is handed out twice in
one run whatever becomes of the record in the store (`OncePerRun`), which bounds the count of each;
and an entry's count and the updates on their way are no more than the calls made. The fixed list's
locator filters its queue by a recursive function, and a proof has to know that there is one: the
lemma `UnprocessedSeq` finds it by the least index at which it could fail.

### Bundle storage, streams and loaders
For every size of a body, every capacity of the tees' queues, every set of setups and any number of
faults (`TeeAssumption`, `SetupAssumption`, `DecoratorAssumption`: enough passes for the members of
a ZIP file). `LifeInv` leaves the streams aside: which of the loader's steps has which bundle
active (`Progressing`), which uploads may be under way at which step of the decorators (`Stages`),
and that an upload of a later pass has not begun (`Fresh`). `LoadedIsComplete` and the refinement of
`BundleLife` follow. `WholeInv` is about the streams: for each consumer of a tee, what it has got and
what it may still get — what lies in its queue, what the feeding task owes it, what the tee's input
may yet yield, itself perhaps a consumer of the other tee — add up to the resource, unless a stream
was cut or will be (`Flowing`). What lies in the storage is what the last upload to the name wrote, or
another to the same name that is whole (`Lying`).

### Pacing
For any set of tasks, any gates, any retry configuration and every way the clock is set
(`RetryAssumption`, `GateAssumption`, `PoolAssumption`, and `RateAssumption`: the program does not
begin within an interval of time 0, where the clock's zero is the stamp of a request never sent).
`PowersAssumption` says that powers of the exponential base are numbers: true, but the prover knows
nothing of `^`.

`RequestsArePaced` speaks of the time requests are sent, the code compares the wall clock with its
own stamp; `RateInv` connects them. `LastIsRecent`: the stamp is never further back than the last
request, as a clock set back only makes it look more recent. `PacedHolds`: whoever sleeps in the
limiter holds the lock and wakes when the interval is over — so nobody else can have sent in the
meantime, and the time computed before the sleep is still right after it. `PacedInv`, for the types,
adds that each open client of the pool is idle or with one task and is counted.

`GatesAreKept` carries the hypothesis `TimeOfDay + MaxLate < DayLength`: a sleep for a daily gate does
not end when that day is over (section 3 says what happens otherwise). Nobody holds a lock at a gate:
several tasks read the memory, sleep, and write it. `GatesInv` has what is true all the same: the memory
of an interval gate is never behind any task's last pass as the clock shows it, so a task that reads it
waits long enough for itself (`IntervalKept`); and until the clock is set, the date in a daily gate's
memory is of a day on which the gate has opened, and who sleeps there wakes at an opening (`DaysKept`).

### Lemmas
`SequenceSets` has what the proofs share: the elements of an appended, concatenated, cut sequence and
their number, a finite set listed as a sequence, least and greatest elements of finite sets of
numbers, runs of consecutive numbers, and when a concatenation is increasing.

### Only model-checked
The liveness properties — `Termination`, `QueuedIsServed` of the fetcher, `AckedIsServed`, `Served`,
`WaiterIsServed`, `RangeServed`, `LoadEnds`, `RequestEnds` — as fairness and `ENABLED` are beyond the
prover; and the violations, which are about one behaviour each. The theorems state safety alone:
`Spec` includes its fairness, which no proof uses.

## 5. Plan

Done: all modules above, and a theorem for every safety property that a run checks. What is left,
in this order:

1. An abstract FIFO with losses that `KVStoreQueue` implements, and a proof that it does: the five
   theorems of `KVStoreQueueProofs` say of the queue what such a specification would say at once.
2. The theorems' remaining constants: `GatesHold` for sleeps that end on a later day, where the code
   passes the gate early and the property would have to say which day was meant.
3. The in-memory queue's `peek`; the managers' dictionaries of pools; the file locator, once its
   initialization is mended.

## 6. Running

    tlc -workers 2 -config MCFetcher.cfg MCFetcher.tla      # likewise for every MC*.cfg
    for M in SequenceSets FetcherProofs KVStoreQueueProofs SftpDirectoryLocatorProofs SftpPoolProofs \
             StoreClientsProofs BundleLoadersProofs PacedRequestsProofs; do tlapm $M.tla; done
