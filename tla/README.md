# A verification model of openai-api-bridge

The bridge is one asyncio process that puts an OpenAI-compatible API in front of
image, video and chat providers. Most of it translates one request into one
upstream call and keeps no state. What can go wrong in ways a test hardly
reaches is the state several coroutines share: the SQLite connection, the pool
of video jobs, the table of jobs, the directory of generated files, the
catalogue caches, and the provider's own queue; and what becomes of the work a
request has begun when it fails or is cancelled. These modules model that part,
from the source under `src/src/openai_api_bridge/` (paths below are relative to
it).

## 1. Inventory

| Component | State it keeps | Operations | Interacts with | What is hard | What makes it correct |
|---|---|---|---|---|---|
| Database writes, `infra/db.py` | one connection, `_write_lock`, `_writer` | `execute`, `transaction`, `fetchone/all` | everybody; aiosqlite's worker thread | commit and rollback act on the whole connection; a cancelled await leaves its operation queued | a write lands whole or not at all, and its caller knows |
| Migrations, `infra/db.py` | `schema_version` | `run_migrations` at start | database | death in the middle | a schema and its version go together |
| Task scheduler, `infra/tasks.py` | semaphore, `_reserved`, `_tasks` | `reserve`, `submit`, `cancel`, `shutdown` | POST, DELETE, shutdown | claims held over awaits; cancellation at every point of a task | permits conserved, capacity held, everything ends |
| SingleFlight, `infra/tasks.py` | task per key | `join_or_start`, `cancel_all` | `GET /v1/models`, fal catalogue | fetches that outlive their request, shutdown | one live task per key, none untracked |
| Video jobs, `api/videos.py`, `api/_videos_runner.py`, `infra/jobstore.py` | table `video_jobs`, one task per job | POST, GET, DELETE, the runner and its handlers, reaping at start | scheduler, database, file store, backends | DELETE, deadline, completion, shutdown and death race | a job ends once, for the right reason, and never lives on without a task |
| File store, `infra/filestore.py` | table `generated_files`, `FILES_DIR` | `put`, `open_for_read`, `delete_many` | database, worker threads | two stores changed one after the other; threads that cannot be stopped; removals whose failure is suppressed | no bytes without row but where no code could help it, no row without bytes |
| Eviction, `infra/eviction.py` | loop, stop event | pass, `start`, `stop` | file store, job table | works from stale reads; errors in the loop | evicts when and as far as it must, for ever |
| fal, `backends/fal/` | catalogue and routes, schema cache, the upstream job | submit, poll, fetch, cancel; refresh | video runner, models listing | an upstream job abandoned halfway costs money; background refresh | no abandoned job renders on; listing and routing agree |
| ComfyUI, `backends/comfyui/` | upstream queue | submit, poll, batch, discard | video runner, image requests | dropped prompts, sibling failure | dropped prompts noticed, abandoned ones discarded |
| TTL cache, `util/cache.py`; `util/concurrency.py` | value, failure, lock | `get`, `store`; `run_all` | every backend | a queue behind a failing fetch | one fetch at a time, failures remembered |
| Request limits, `api/_limits.py` | bytes received, response started | middleware | every request | the framework answers 400 for the cap's exception | exactly one response, a 413 |
| Other backends, image/chat/embedding/file endpoints, HTTP helpers, sizes, ratios, media types, configuration | none over time | translate | | | |

`PROJECT.json` lists every component with its sources and status, and under
`hazards` every place where one of these difficulties bites, with its line and
the properties that would notice.

## 2. Plan

Modules, in the order they are written:

1. `Database` implementing `AtomicWrites`. **Done**, proved.
2. `TaskScheduler`. **Done**, its invariants proved.
3. `VideoJobs`, which instantiates `TaskScheduler` and implements `JobLifecycle`.
   **Done**, proved.
4. `FileStore` and `Eviction`, which extends it. **Done**, its invariants proved.
5. `UpstreamHttp` (what a reply means) and `FalVideo`, which extends it: a video
   job against fal's queue. **Done**, its invariants proved; a violation run shows
   the window in which a job is abandoned unasked.
6. `TtlCache`, `Variants`, and `Catalogue`, which extends both: the listings with
   their budget and single-flight registry, the caches and routing maps of four
   kinds of backend, the shutdown. **Done**, its safety properties proved.
7. `Workflows` and `ComfyUI`, which extends it and `UpstreamHttp`; `ImageRequests`,
   which composes that backend with the others and with the middlewares, the
   endpoints and the storage of an answer's images. **Done**, its invariants proved.

Each module stands on what the ones before it show: `VideoJobs`, `FileStore` and
`Eviction` take a database write as one step that lands or does not, as `Database`
proves; `VideoJobs` takes a backend's rendering as one await that can fail, be
cancelled, and then unwinds for a bounded time, as `FalVideo` (`EveryVideoEnds`)
and `ImageRequests` (a ComfyUI video) show of the two backends; `ImageRequests`
takes `put()` as a step that stores or fails, as `FileStore` shows.

Theorems: every safety property that a passing run checks is proved (section 6).
Worth adding are lemmas about operators of which the proofs use less than they
promise: that `SnapAspectRatio` picks a nearest option of the menu, and that the
slugs and routes of a scan and of a catalogue determine what they name.

## 3. The modules and the code

The process runs one event loop (`workers=1`, `main.py`). An action is what one
coroutine does between two awaits; a worker thread's work is an action of its
own; a cancellation is a request that reaches its task at an await.

### AtomicWrites, Database

`Database` has one process per call of `execute()` or `transaction()`; constants
`Writes`, `Blocks` (which of them are `transaction()` blocks), `Stmts` (how many
statements each has).

| Model | Code |
|---|---|
| `lock`, `waiters` | `_write_lock` and asyncio.Lock's FIFO of waiters |
| `writer` | `_writer` |
| `queue`, `Worker` | aiosqlite's worker thread and its FIFO |
| `open`, `committed` | the connection's uncommitted transaction; the file |
| `Call`, `Acquire`, `Enter` | `async with self._write_lock` and the first step inside |
| `BodyStatement`, `BodyEnds`, `BodyRaises` | the body of a block, as in `fail_if_active` |
| `NestedExecute` | `execute()` called in a block: the check at db.py:97 |
| `Resume` | the task goes on with the answer, the commit's error path included |
| `CancelWaiting`, `CancelWriting`, `CancelRollback` | CancelledError at each await; the operation stays queued |
| `Crash` | the process dies; SQLite recovers what was committed |

The thing to see is `CancelRollback`: `suppress(Exception)` does not hold a
CancelledError, so the lock can be released with the rollback only queued.
`OneWriteOpen` holds nevertheless, because the worker's queue is FIFO and the
rollback runs before the next writer's statement. The proof makes that argument
explicit. A rollback is assumed to succeed: the code suppresses its errors, and
SQLite's rollback of a connection that works has none.

`AtomicWrites` is the promise: all the statements of a write land at once, and
the way the call ended says which, except that a cancelled one may land still.

### TaskScheduler

| Model | Code |
|---|---|
| `permits`, `waiting` | `_sem` and its FIFO of waiters |
| `reserved` | `_reserved` |
| `state`, `Live` | the tasks in `_tasks`: waiting for a permit or running |
| `cancelled` | `task.cancel()` was called and has not yet reached the task |
| `Reserve`, `Full`, `ReleaseReservation` | `reserve()`, `SchedulerFull`, `Reservation.__exit__` |
| `Submit` | `submit()`, the last step in the `with` block, hence with the release |
| `Start`, `CancelWaiting`, `Finish`, `Deliver` | `_runner()` and `_cleanup()` |
| `BeginShutdown`, `DrainTimeout`, `EndShutdown` | `shutdown()` |

The wake-up of a semaphore waiter and its first step are one action. On a
timeout `wait_for(gather(...))` itself cancels every task and awaits them, so
the loop over "stragglers" at tasks.py:203 finds none; `DrainTimeout` is the
cancellation, wherever it comes from.

### JobLifecycle, VideoJobs

`VideoJobs` instantiates the pool (`Pool == INSTANCE TaskScheduler WITH Tasks <-
Jobs`), so a step of a request or of the runner that touches the pool is the
conjunction of both.

| Model | Code |
|---|---|
| `row` | `video_jobs`, status and error message (its origin: user, cancelled, timeout, error, restart) |
| `lock`, `stage`, `TakeLock`, `Execute`, `Commit`, `Succeeds`, `Fails` | one write, as `Database` shows it |
| `Visible` | what a SELECT sees: also the open, uncommitted statement |
| `create`, `Create*` | `videos_create()` between its awaits |
| `phase`: mark, render, persist, store, finish | the awaits of `_render()`: status in_progress, `generate_video()`, `_persist_upstream_id()`, `filestore.put()`, status completed |
| `phase`: unwinding | the backend's own `except BaseException`, which cancels upstream |
| `phase`: failing, timing_out, cancelling | the three kinds of handler of `run_video_job()` |
| `Interrupted` | CancelledError at any of these awaits; a write's commit may already be queued, so it may land |
| `Deadline`, `Backstop` | `asyncio.timeout` in the runner; the scheduler's cap one minute later |
| `Delete*` | `videos_cancel()`; `fail_if_active` returning and `cancel()` are one step |
| `Shutdown`, `CancelStragglers`, `Stop`, `Crash`, `Start` | lifespan and death |
| `causes`, `lost`, `told` | history: why a task was cancelled, rows given up, what a DELETE answered |

`GiveUp` names the cases in which a row stays active with nobody to settle it
until the next start: a handler's own write fails or is cancelled by the backstop
or by a second DELETE, and a POST fails after its INSERT. `ActiveIsOwned` says
there are no others; it does not say that these do not happen. `Start` empties
`lost`, so it does say that the next start reaps each of them.

`prune_terminal()` is left out of this module: it deletes rows that ended a
retention window (30 days) ago, which no request is looking at.

### FileStore, Eviction

| Model | Code |
|---|---|
| `disk` | a file's bytes: none, the `.tmp`, the `.tmp` a failed write could not remove, complete |
| `UnlinkAll`, `Discard` | `_unlink_all()`, `_discard()`: any of the files may stay, since their `OSError` is suppressed |
| `rows` | `generated_files` in the order of `last_accessed_at` |
| `Put` ... `CancelInsert` | `put()` and its thread; `DiscardLate` is the done-callback |
| `Lookup`, `Stat`, `Reap`, `Touch`, `ReadFails` | `open_for_read()` |
| `Begin`, `SelectChunk`, `DeleteChunkRows`, `UnlinkChunk` | the expired files, and `delete_many()` |
| `Measure`, `Scan`, `Victims`, `Deleted` | the loop of LRU candidates with its running `total` |
| `PassFails`, `Prune` | `_safe_pass()` |
| `Stop`, `Stopped`, `StopTimeout` | `EvictionLoop.stop()` |
| `Wipe` | FILES_DIR changed from outside, the first of the three cases `open_for_read()` lists |

`leaked` and `refused` are history: the bytes a crash or a cancelled sweep left to
nobody, and those that the system would not remove when a `put()`, a failed write
or a sweep tried, of which nothing in the code keeps a note.

A database write is one step here, with failure and cancelled-but-landed as
alternatives: that is what the proof about `Database` licenses. Pinned files are
left out, since nothing pins one.

### UpstreamHttp, FalVideo

`UpstreamHttp` is `util/http.py` with the error classes: a reply is a status, or
`NoReply`; each operator says what the code makes of it.

`FalVideo` is `generate_video()` with everything it calls, several jobs at a time.

| Model | Code |
|---|---|
| `schema`, `holder`, `DerivedAtOnce` ... `LookedUp`, `CooldownEnds` | `_derived_params()`: the schema cache, the model's lock, the cooldown; asked twice by a request that also wants the moderation settings |
| `authFailed` | `_auth_failed` |
| `fal`, `stop`, `FalAccepts`, `FalWorks` | fal's queue: it may accept a job whose answer is lost, and stops one when the request to do so arrives before it has finished |
| `Submitted`, `Saved` | `submit_queued()`, `on_upstream_id()`; here a cancellation passes no handler |
| `Poll`, `PollFailed`, `NotReady` | the loop with its count of consecutive errors and its deadline |
| `Fetch`, `Load`, `Retry` | `_fetch_video_result()` and the retried download |
| `GiveUp`, `Stopped` | `except BaseException` and `_cancel_upstream()` with its ten seconds |
| `Cancel` | DELETE, the deadline, shutdown; also while `_cancel_upstream()` waits |
| `faults`, `cause`, `named` | history: transient failures, why the job was given up, that fal's id arrived |

### TtlCache, Variants, Catalogue

`TtlCache` is `AsyncTTLCache` without its lock, as operators on a record, its
time counted in ticks; `Variants` pairs the ids of a catalogue (an id is a
sequence of its parts). `Catalogue` puts them to work; its provider is chosen in
`Init`, since backends of different kinds share no state.

| Model | Code |
|---|---|
| `List`, `Serve`, `BudgetEnds` | `_entries_within()`: with a budget the fetch is a shielded task |
| `lingering`, `refresh`, `JoinOrStart`, `Forget`, `CancelTask` | `SingleFlight`, in its two uses |
| `holder`, `Acquire`, `Fetched` | `AsyncTTLCache.get()`, and fal's use of the same lock |
| `Ask` | fal's `list_models()`: what is fresh, what is stale and refreshed behind the answer |
| `Failed`, `Published` | the failure that is noted, the routes and the listing published together |
| `Edit` | `_reference_variant()`, `_edit_target()`: an edit that reads the map |
| `Look`, `Stat`, `Compare`, `Scanned` | ComfyUI's `_ensure_workflows()`, whose two halves run in a thread |
| `ServingEnds`, `BackendCloses`, `ClientCloses` | `lifespan()` after the scheduler, `aclose()` |
| `lastGood`, `cache.value.of`, `waited`, `scan.begun` | history: the last catalogue read whole, the one a cached listing was made from, who has waited through another's fetch, what a request could see when it asked |

Two cases are abstracted: time passes (`Tick`) only when every coroutine waits,
because a cooldown is seconds and a step of the event loop is not; and a task's
name is used again once nothing refers to it. The identity check of `_forget()`
never matters: a key's slot is only given to a new task when the old one has left
it.

A refresh of Venice's catalogue without its inpaint half does take models away: the
ones that only edit are not listed until the half is read again, within the retry
window. `NothingIsLost` says exactly that much of it, and that it takes no route.

### Workflows, ComfyUI, ImageRequests

`Workflows` has the pure part of the ComfyUI backend: the scan of the directory,
the menu of aspect ratios, the preparation of a graph. Snapping is stated
without logarithms, as a comparison of products. `ComfyUI` is one request to the
backend, `ImageRequests` extends it to the whole way of a request.

| Model | Code |
|---|---|
| `Arrive` | `ApiKeyMiddleware`, then `BodySizeLimitMiddleware`, as `create_app()` nests them |
| `Receive`, `Send` | `limited_receive()`, `guarded_send()`, and the `except` after them |
| `ValidationError`, `Dispatch` | the endpoint's checks in their order, the route, the operation |
| `Look`, `Uploaded`, `ReadGraph` | `generate_image()`, `edit_image()`, `generate_video()` up to the submission; the record's file is read again, and may have been edited |
| `Submit`, `Saved` | `_submit_one()`, n times; a prompt whose answer is lost may be queued |
| `unit`, `Poll`, `Tracked`, `Flaky`, `Missing`, `Download` | one `_collect_one()` per run |
| `Unwind`, `Ends`, `Unwound`, `Discarded` | the handlers of `_run_batch()` and `_run_one()`: cancel, wait, recall |
| `Generated`, `FetchedImage`, `FannedIn`, `FanFails`, `AllEnded` | `run_all()` for Venice, ImageRouter and OpenRouter |
| `Called`, `FanEnds` | fal: one call for all images, then a plain `gather` |
| `Forwarded`, `StreamEnds` | chat completions, whole or streamed |
| `Store`, `Put`, `PutsFail`, `AnswerImages` | `_render_assets()` |
| `AnswerError`, `StatusOf` | the exception handlers |
| `Cancel`, `Leave` | the client disconnects (or, for a video, its job is cancelled) |
| `missed`, `made`, `answer` | history: misses since ComfyUI last had the prompt, what a run was told, the statuses sent |

A reply that is JSON but no object raises an error that nobody handles, in the
upload, the submission and the download alike (`"Unhandled"`, a 500).

A collector's queue check may be due at any poll. A collector and the request
that awaits it are the same coroutine for a video and two for a batch; `CancelComfy`
tells them apart. The uploads of an edit run under a plain `gather` and are one
step here.


## 4. The runs

| Run | Instance | Shows |
|---|---|---|
| `database` | two `execute()` and one block of two statements | `WholeWrites`, `OneWriteOpen`, `HonestOutcome`, `EveryCallEnds`, refinement of `AtomicWrites` |
| `scheduler` | 4 tasks, 2 permits, capacity 3 | `PermitsConserved`, `WithinCapacity`, `QueueIsWaiting`, `EveryTaskEnds`, `ShutdownEnds` |
| `videojobs` | 2 jobs, 2 DELETEs, 1 permit, capacity 2 | `ActiveIsOwned`, `DeletedStopsRendering`, `MarkedIsFinal`, refinement of `JobLifecycle` |
| `videojobs_load` | 3 jobs, no DELETE | `BoundedLoad` |
| `videojobs_end` | 2 jobs, no DELETE | `EveryJobEnds`, `ShutdownEnds` |
| `videojobs_dirty_read` | 2 jobs, 1 DELETE | violation of `ToldIsTrue` |
| `eviction` | 2 files of sizes 1 and 2, cap 1, chunks of 1, 1 reader | `NoOrphanBytes`, `RowsHaveBytes`, `EvictsOnlyWhenOver`, `PassReachesCap`, `ExpiredIsDeleted` |
| `eviction_cancelled_put` | the same | violation of `DiscardedHaveNoRow` |
| `fal_video` | 2 jobs of one model, 4 classes of reply, 2 asset bodies | `NoStrayRender`, `TwoHiccupsLoseNothing`, `EveryVideoEnds` |
| `fal_video_window` | 1 job | violation of `AbandonedIsCancelled` |
| `catalogue` | 2 listings, 1 edit, 2 tasks; 4 providers, 3 settings, 3 catalogues, 1 change of the directory | `NothingIsLost`, `PaysOnce`, `NothingAfterClose`, `SeesChanges`, `SlowIsNotKilled`, `EveryCallEnds` |
| `image_requests` | 1 request of 26 kinds, 2 images at most, 2 cancellations, a body limit of 2 | `AnswerIsTrue`, `NothingLeftBehind`, `EveryRequestEnds` |

Why the bounds are enough. *Database*: interference needs two writers and, for
half a block to be committed, one block of two statements; the third writer is
the one that adopts what two others left, and makes the queue of waiters longer
than one. The proofs remove the bound. *Scheduler*: a permit is contended, a
task waits behind a waiting one, and one POST is turned away; also proved in
general. *VideoJobs*: a running and a queued job; two DELETEs of the same job,
the second arriving in the handlers of the first. Every await of every
coroutine and every failure is there for each; jobs meet only in the lock, the
permits and the capacity. With a third job and one DELETE the same properties
hold (5.4 million states, too many to keep as a run). *Eviction*: one file is
over the cap by itself and the other fits; chunks of one make every loop go
round more than once; the third file would only repeat the second. With
candidates read one at a time `enough` is never TRUE in the run: the victim that
reaches the cap is always the last of its chunk, and the loop ends by its total.
That it may stand in the middle of a longer chunk is left to the theorems, which are
about any chunks.

Symmetry of jobs and of DELETEs is used in the runs that check safety; the
refinement of `JobLifecycle` has no fairness, so it is one of them. All other
modules run without symmetry. Deadlock is checked wherever a run has something
that goes on for ever: a finished pool or database stutters by a `Done` disjunct
that demands that it really has finished. The behaviours of `FalVideo`,
`Catalogue` and `ImageRequests` are a handful of jobs or requests and end with
them, so their runs do not check it; that none gets stuck on the way is what
their liveness properties say.

The three violations are divergences between a comment or a document and the
code (`PROJECT.json`, `findings`):

* `ToldIsTrue`. A SELECT on the connection that also writes sees the runner's
  `completed` before its commit. A DELETE answers it; then the commit fails, or
  the process dies, and the job ends `failed`. The header of `db.py` promises
  concurrent reads through WAL, which isolates other connections only.
* `DiscardedHaveNoRow`. `put()` removes its bytes on any exception of the
  INSERT with the comment that no row will reference them; a cancellation during
  the commit leaves a row that does. `RowsHaveBytes` shows it is the only such
  case besides bytes wiped from outside; the first read drops the row.
* `AbandonedIsCancelled`. "Abandoned jobs are cancelled upstream so fal stops
  billing", says README.md:191, but a job cancelled while the runner stores its
  upstream id (adapter.py:600) is left before the `try` whose handler asks fal to
  stop. `NoStrayRender` shows it is, with a submission whose answer was lost, the
  only such case.

Smaller remarks. The docstring of `open_for_read()` lists "a crash between
the row DELETE and the unlink" among the ways a row outlives its file; with rows
deleted first, it is the bytes that outlive the row, and `NoOrphanBytes` counts
them in `leaked`. And a sweep that is cancelled at shutdown in its DELETE or
before its unlink has begun leaves bytes in the same way. So does every removal the
system refuses, a failed write's `.tmp` included: `_write_atomic()`, `_discard()` and
`_unlink_all()` suppress the error, and `NoOrphanBytes` counts the file in `refused`.
`poll_completion()` says
that transient network failures are treated as "not ready yet"; only three
classes of them are caught, and a `ReadError` or a `ConnectTimeout` ends the run
with a 500 (`Poll`, `Flaky`). fal does not note a rejected key in its cache, so
callers already queued at the catalogue's lock ask with it once more each, where
`_note_auth_failure()` says that it is not retried; `PaysOnce` leaves this case
out. The same window as fal's is in ComfyUI's `_submit_one()` for a video, and a
second cancellation cuts a recall short; `NothingLeftBehind` names both. fal's
image downloads and ComfyUI's uploads use a plain `gather`: one that fails leaves its
siblings running, after the request is over. `NothingLeftBehind` exempts the former
and says nothing of the latter, which are one step.

## 5. Fairness

* Every ready coroutine runs (weak fairness of each task's steps): the event
  loop is FIFO. The lock and the semaphore wake their first waiter.
* aiosqlite's worker and other threads finish what they were given.
* Timers fire: the drain timeout, the job's deadline, the sweep's interval.
* `TaskScheduler`: a running task ends some time, because every task is submitted
  with a timeout. `VideoJobs` does not assume it: there the deadline is fair and
  the rest follows.
* `VideoJobs`: a process that died is started again (`Restart=on-failure` in
  `systemd/openai-api-bridge.service`); one that was stopped need not be. It may
  die at most as often as it can make no progress in between: liveness is
  stated for behaviours that do not crash for ever.
* `Eviction`: a statement of the sweep that is tried again and again succeeds
  some time (strong fairness); nothing says it does so the first time.
* `FalVideo`: every call to fal has a timeout of its own, so the job's steps are
  fair; so is its deadline. `Catalogue`: the same for fetches, and a listing's
  budget ends. `ImageRequests`: the same for every step of a request and of its
  units, and the collectors' budget ends. A request still being received is not
  assumed to end (the server has no read timeout), nor is a stream.
* Nothing is assumed of clients, upstreams, operators, or of failures: they may
  come or stay away.

## 6. Proofs

`DatabaseProofs.tla` proves, for any set of writes, any blocks and any statement
counts, that `Spec` implies `[]TypeOK`, `[]WholeWrites`, `[]OneWriteOpen`,
`[]HonestOutcome`, and `AtomicWrites` under the mapping (`Refinement`). `TypeOK`
says, with the types, that the lock is held by exactly the call between taking and
releasing it, and that `_writer` is that call if it is a block. The proofs
assume `WritesAssumption` only. None of these is inductive by itself: what an
operation in the worker's queue will do depends on who queued it and what has
happened since. The inductive invariant `IInv` adds four things. `LockInv`: the lock is
held by the one call that is past waiting for it. `QueueInv`: a
commit is only ever first in the queue, with exactly its write's parts open; a
statement that is not first is its write's first and stands right behind a
rollback; and whenever the lock is free the worker is `Settled` (nothing is
open, or the last thing queued is a rollback). `StageInv`: for every call, by
where it stands, what of its write is queued, open and committed. `CommitInv`: a
write that is not committed has no rows, and the owner of a queued commit is
still waiting for it, or was cancelled. From these every commit finds the whole
write open, and every answer is true.

`TaskSchedulerProofs.tla` proves, for any finite set of tasks, any number of
permits and any capacity (`PoolAssumption`), that `TypeOK`, `PermitsConserved`,
`WithinCapacity` and `QueueIsWaiting` always hold. Their conjunction is
inductive, and no smaller part of it is: that a permit given back fits the
semaphore needs the count of running tasks, that a task taken from the queue
was waiting needs the queue's invariant, and the counts need both. The lemmas
before it say what the three operations on the queue do to its elements, and how
the counts follow the state of one task.

`VideoJobsProofs.tla` proves, for any finite set of jobs, any number of DELETEs,
any number of permits and any capacity (`VideoAssumption`), that `TypeOK`,
`ActiveIsOwned`, `DeletedStopsRendering`, `MarkedIsFinal` and `BoundedLoad` always
hold, and that `Spec` implements `JobLifecycle`. What concerns the pool alone is
not proved again: `TaskSchedulerProofs` is instantiated with the jobs as its
tasks, and a lemma per operation says that a step of `VideoJobs` is at most one
of the pool's. None of the properties is inductive, since what a row says
depends on a write that may be open, and on who was cancelled while it was. The
invariant `VideoInv` has a part per job (`JobInv`) and a part per DELETE:
`TaskInv` (what a task's state in the pool says of its phase), `PostInv` and
`WorkInv` (by where the POST and the runner stand: what their row can be, and
whether the lock is theirs), `CancelInv` (who may have cancelled a task, and that
a task so marked is on its way out), `OwnedInv` (an active row has its POST, its
task or its entry among the given up) and `DeleteInv`; `LockInv` says that the
holder of the lock is at the await that needs it, `ServerInv` that a process that
does not serve has no coroutine, and `ReservedInv` that every POST under way holds
one reservation. The lemmas `OneTask`, `OnePost` and
`OneDelete` reduce a step to the part of the one actor that takes it. The
refinement then is a case distinction: each write commits what `JobLifecycle`
allows for the row the invariant says it finds.

`FalVideoProofs.tla` proves, for any jobs of one model, any replies, any asset
bodies and any limits that satisfy `FalAssumption` (two errors in a row must not
be too many for the poll loop, nor for either fetch), that `TypeOK`,
`NoStrayRender` and `TwoHiccupsLoseNothing` always hold. The inductive invariant is
a conjunction over the jobs (`JobInv`), since the jobs of a model share only its
schema: lemma `OneJob` says that a step of one job must re-establish its own part.
`StrayInv` adds that a job in "stopping" has asked fal to stop, and that one that
ended with neither that nor one of the two causes was never accepted. `FaultInv`
adds that the count of the loop a job is in never exceeds the faults it has seen,
and `CountInv` that a count ends with its loop; together they make the attempt
that exhausts a loop the third fault at least. `AbandonedIsCancelled`, the stronger
claim of the repository's README, is the one that the violation run refutes.

`EvictionProofs.tla` proves, for any finite set of files of any size, any
readers, any cap and any chunks (`EvictionAssumption`), that `TypeOK`,
`NoOrphanBytes`, `RowsHaveBytes`, `EvictsOnlyWhenOver` and `PassReachesCap` always
hold. `StoreInv` is the part about one file. It adds to the two properties
`PutInv` (only a file whose `put()` is over has a row, was added, or is in a chunk:
it will not be inserted again, and nothing of it is half written), `ReaderInv` (a
reader that is about to drop a row has seen that its bytes are gone, and nobody
brings them back) and `ChunkInv` (the chunk whose bytes are being removed has no
row, the one whose rows are being deleted shares nothing with what is left of the
list). `TotalInv` is the part about the pass. The total it works from was read some
time ago, and what it holds on to is compared with `Rest`, the rows that will stay
when the victims chosen are deleted, which no step of the deletion changes: the
rest is no larger than the pass's total and what was added since; unless a reader
dropped a row, it is no smaller; and then the last of the victims, which is still
in the list or in the chunk, is one without which the rest would not fit. From
the first follows `PassReachesCap`, from the others `EvictsOnlyWhenOver`. Before it
come lemmas about the lists (what `Without`, a prefix and a suffix of a list
without duplicates contain), the sizes of sets of files, and `Victims`, whose
least sufficient number exists.

`CatalogueProofs.tla` proves, for any requests, tasks, settings and
catalogues (`CatalogueAssumption`), that `TypeOK`, `NothingIsLost`, `PaysOnce`,
`NothingAfterClose`, `SeesChanges` and the action property `SlowIsNotKilled` hold.
The invariant `CatalogueInv` has five parts. `KnownInv`: the routes and a whole listing in
the cache are those of the last catalogue read whole, and a listing without its
inpaint half is Venice's, of the half that was read, and kept no longer than the
retry window; that a whole listing loses nothing is a lemma about `Variants`, for
any catalogue. `LockInv`: whoever
fetches holds the lock, and nobody else does. `RegistryInv`: a task that is
not idle is in one of the registries, and once the shutdown has emptied one it
stays empty, so that nothing is alive when the client is closed. `WaitInv`:
the coroutine that gets the lock after having waited through another's fetch finds
a fresh value or a failure still remembered, since time does not pass while a
coroutine can run. `ScanInv`: a scan's stamp is not older than the request it is for, and
what is read after it is not older than the stamp.

`ImageRequestsProofs.tla` proves, for any requests, workflow files, edits of them,
replies, limits and number of cancellations that satisfy `ImageAssumption` (a
generation carries no image, a video here is one run of ComfyUI), that
`AnswerIsTrue` and `NothingLeftBehind` always hold. Both speak of the end of a
request, so the invariant `ImageInv` says for every place on the way what must
already be true there. `GateInv`: what the two gateways have let in, and which
status can have been sent. `PhaseInv`: what a request at a place is (its route, its
backend, its format) and with which error; a timeout is never on its way before
the budget is over. `UnitInv`: where collectors can be alive, that a failure a
request is waiting to act on has a run that shows it (a cancelled batch whose
collectors are still ending is the other way to have an error), and that one that
fetches has a finished prompt. `FileInv`: a put is under way only while the request
stores. `PromptInv`: the runs are submitted in order, and outside the places from
which the recall is still to come no known prompt is pending, unless the recall
failed or was cut short or nobody polled for the video yet. `MadeInv`: once the
graph is read, the runs were told to use every reference image and to render the ratio
that the answer will name, from lemma `PreparedFacts` about one workflow, whatever
its file says. `UnitMoves` and `BatchKeeps` are the frames of the two kinds of steps:
one collector's, and the batch's own, behind which the gateways and the files rest.

Only model-checked: all liveness (fairness and ENABLED are out of the prover's
reach), and what the fold of `ParseAspectRatios` computes, of which the proofs use
nothing.

## 7. Not modelled, and why

* *Migrations*: they run once, alone, in one transaction per script.
* *Configuration, schemas, wiring*: read and validated once at startup; of them only
  the parsing of a model id is here.
* *What a request or an answer looks like*: fields, names, wording, media types,
  display names, the moderation settings and durations that fal's schemas yield,
  seeds and sizes of ComfyUI's graphs. They are computed from one request and
  kept nowhere.
* *The conditional responses of `GET /v1/files`*, a pure function of headers; the
  read behind it is in `FileStore`. Embeddings take the path of a chat completion
  that does not stream. The videos of ImageRouter are one call and a download;
  to `VideoJobs` they are an upstream that delivers or fails.
* *Uploads to ComfyUI that outlive a failed sibling* (adapter.py:432), and the rest
  of fal's image downloads in the same situation; the comment of `NothingLeftBehind`
  names both.
* *Time itself*: a timer may fire at any moment at which it is armed, and
  retention, intervals and deadlines are orders of events, not durations.
  `Catalogue` counts ticks, since there it matters which of two windows is longer.
* *Logging.*
