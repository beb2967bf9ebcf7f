# Momo Study Agent: specification and verification

Momo Study Agent generates vocabulary notes with an AI model, keeps them in a
libSQL database (an embedded replica of a Turso cloud database per profile),
and publishes them to the Maimemo cloud. It runs as a command line program and
as a web backend. What is hard about it is not the data but the threads: a
writer daemon, a sync daemon, a publishing worker, a pool of web tasks and an
event loop share one connection, a few flags, locks and queues.

The modules here model those parts from their source, TLC checks small
instances of them, and TLAPS proves their invariants, their action properties
and the refinement for every value of the constants. Paths below are relative
to the repository root.

## 1. Inventory

| Component | State it keeps | Operations | Hard about it |
| --- | --- | --- | --- |
| Write and sync engine `database/execution_engine.py` | bounded write queue, stop events, `_needs_sync`, `_last_write_time`, the writer's batch | enqueue, writer loop, batch with retries, sync loop, boot, shutdown, release for recovery | two daemons, clients and a controller on one connection; error classes; crash between queue and commit |
| Connection singletons `database/connection.py` | one write connection per process with its op lock and the path it was recorded under; the hub connection | get with health check, connect, close, rebuild of the hub file | closing takes no op lock; handles outlive the connection; the path is read twice |
| Sessions and recovery `database/session.py`, `database/utils.py` | none of its own | stop daemons, close, move the file, rebuild from the cloud, ask again | daemons that do not stop in time; a rebuild without a cloud is empty |
| Repositories `database/*_repo.py` | the tables | dispatched writes, one direct transaction (`atomic_save_iteration_and_update_note`), look-ups, lists, counters | direct and queued writes on one connection; what a caller reads back is behind what it was told |
| Word state `database/word_state.py` | none | `derive_state`, `state_to_where_clause` | two encodings of one classification, and two more in the counters |
| Schema and migrations `database/schema.py`, `database/migrations/` | tables, marker file, version record, hub state file, process cache | `init_db`, steps, stamps | work and record are separate; records are trusted later |
| Sync manager `core/sync_manager.py` | priority queue, streak counter, write buffers | queue, take with anti-starvation, handle, retry, flush, shutdown | memory-only states; buffered against immediate writes; two flushers |
| Maimemo client `core/maimemo_api.py` | look-up cache, creation limit flag, rate-limit time stamps | `sync_interpretation`, `_request` with waits and retries | lost answers, cached errors, time stamps that are not in order |
| Study workflow and flow `core/study_workflow.py`, `core/study_flow.py`, `core/word_service.py` | futures of the AI pool | snapshots, states, AI batches, saves, hand-over to the sync manager, start-up scan, exit | results in any order; save refused; look-up failed |
| Iteration manager `core/iteration_manager.py`, `core/weak_word_filter.py` | levels and history of a word, a notepad in the cloud | select, refine, read, change, write back | lost updates; a row per snapshot; a notepad that could not be read |
| AI clients `core/mimo_client.py`, `core/gemini_client.py` | none | a request with retries | answers that lack an entry, a name or a text |
| Task registry and event streams `web/backend/tasks.py`, `routers/tasks.py`, `logger_bridge.py` | records, history, event queues, a pool | submit, cancel, wrapper, emit, subscribe, shutdown | pool threads against the event loop; full queues; reconnects |
| Profile and process locks `web/backend/lock.py`, `routers/study.py` | a lock and a holder per profile; a lock file and a PID file | claim, name the holder, release; open, lock, record, unlock, remove | steps on two threads; failures before the `try`; release in three steps |
| User contexts `web/backend/user_context.py`, `deps.py` | a context and an init lock per profile, warm-up states and threads | get, create, warm up, evict, switch the database path | process-wide path; eviction while in use |
| Routers, server start `web/backend/routers/*.py`, `__main__.py`, `app.py` | none | start tasks, read lists and counters, edit profiles | call the parts above from the loop |
| Hub users, profiles, configuration, logging, preflight, front end, scripts | | | no protocol of their own; see section 8 |

How they interact: request handlers and the command line call the workflow;
the workflow saves notes through the repositories, whose writes go to the
engine's queue, and hands them to the sync manager; its worker calls the
Maimemo client and writes the outcome back through the same queue; the sync
daemon pushes the local replica to the cloud. In the web backend a heavy
request first gets the context of its profile, then the profile's lock, then
becomes a task of the registry, whose events a browser reads as a stream. Before
all that a process takes the process lock and prepares the schema.

What makes each part correct:

- engine: an accepted write is handled once and in order, and either lands or
  is given up visibly; batches are atomic; what is committed reaches the cloud; a
  shutdown ends;
- sync manager: a note with `sync_status = 0` is never forgotten, attempts are
  finite, low priorities get their turn, a status tells the truth about the cloud;
- registry and lock: one heavy task per profile, a canceled task does not run,
  the lock comes back, every task gets one verdict and a browser learns of it;
- study run: only what was saved is uploaded, what is called synced is in the
  cloud, no word is generated twice without a reason, all views of a word agree;
- iteration: level, history, iteration rows and cloud notes stay together, a
  notepad loses nothing;
- API client: never more than 20 requests in 10 s and 40 in 60 s, every request ends;
- user contexts: one running context per profile, with the configuration of its
  file, and data in the database of its profile;
- start: one process works on a data directory, a dead one keeps nobody out, and
  the records that later starts trust are true.

## 2. Plan

Done, in the order of importance to the data of a user:

1. `WriteEngine` (with `WriteLog`, the abstract specification it implements);
2. `WebTasks`: registry, profile lock, event stream;
3. `SyncManager`: queue, worker, look-up and creation, flushes, shutdown;
4. `StudyRun`: a run from the list of words to the synced status, composed with
   a reduced engine and a reduced sync worker, and the word states;
5. `Profiles`: contexts, the process-wide path, the routing of queued writes;
6. `Startup`: process lock, schema, migrations, hub tables;
7. `Iteration`; 8. `RateLimit` with a discrete clock.

To come:

- proofs: every invariant, action property and the refinement of section 4 has one;
  what may follow are theorems that no run states (types of `StudyRun` and
  `Iteration` by themselves, the account of the direct save);
- the front end's event-stream client with its own reconnection policy;
- the local-only mode of the database, whose direct writes have no queue.

## 3. Modules

| Module | Contents |
| --- | --- |
| `WriteEngine` | queue, writer, sync daemon, connection, controller, clients |
| `WriteLog` | what the engine promises: a line of accepted writes, a log, a published prefix |
| `WebTasks` | profile lock, submission, pool threads, events, streams |
| `SyncManager` | callers, queue, worker, cloud look-up and creation, flushes, shutdown, restart |
| `StudyRun` | a run of `process_word_list`, word states, lists and counters, snapshots, AI pool |
| `Iteration` | a run of `run_iteration`: selection, refinement, read-modify-write, notepad |
| `RateLimit` | `_apply_rate_limit` and the attempts of `_request`, on a relative clock |
| `Profiles` | user contexts, path switches, write connection, profile files |
| `Startup` | process lock, `init_db`, migrations, hub tables |
| `MC...` | names of model values and symmetry for TLC, one for each of them |
| `..._proofs` | invariants, lemmas, theorems of `WriteEngine`, `WebTasks`, `SyncManager`, `StudyRun`, `Startup`, `RateLimit`, `Profiles`, `Iteration` |

Definitions before an action whose comment begins with "Mutant" are the action
with a plausible bug. No specification uses them; they show that a property
notices the bug (section 6).

### 3.1 WriteEngine

One action per step that other threads can observe: a step ends where the code
releases a lock, blocks, or leaves one shared object for another.

- `Enqueue`, `Put`, `PutTimesOut` are `_queue_write_operation`: starting the
  daemons and putting are two steps; a full queue times out.
- `WriterTakes`, `WriterFlushes`, `WriterConnects`, `WriterBegins`,
  `WriterExecutes`, `WriterCommits`, `WriterRetries`, `WriterRaises`,
  `WriterTriesAgain`, `WriterFails`, `WriterMarks`, `WriterLeaves`,
  `WriterEnds` follow the loop of `_writer_daemon` and
  `_execute_batch_writes`. `wpc` is the place in the code; an error class as
  value of `wpc` means that the error has been raised and the second rollback
  (outside the op lock) is still to come.
- `SyncWakes`, `SyncSkips`, `SyncConnects`, `SyncPushes`, `SyncResets`,
  `SyncFails`, `SyncEnds` follow `_sync_daemon`. The push is one step that
  needs the op lock; the reset of `_needs_sync` is a later step, as in the code.
- `Boot`, `Cleanup...`, `Recovery...`, `Warmup...`, `Exit` are the controller;
  `Crash` may come at any time.
- `Save...` are the steps of the one direct transaction. With a closed handle
  `SaveFails` comes before the op lock is looked up: the degraded path.

Data is abstract: a write is a model value. What the code tells apart is kept
as a set: statements the database may reject (`BadWrites`), statements queued
with `op_type="update"` (`Updates`), direct transactions (`Saves`). Error texts
become the four classes the code's keyword lists distinguish.

Choices a reader should know:

- only the cloud mode (embedded replica) is modelled, and one profile;
- which class of error the use of a closed handle raises is not determined by
  the code, so it is any class;
- an error of class "wal" is taken as rolled back by the database;
- a commit, of the writer or of a direct save, may take effect and then raise,
  with any class of error (`CommitsUnheard`, `SaveFails`). If the writer keeps
  or retries the batch it is applied again; `doubtful` remembers such writes.
  `unflagged` remembers that the sync daemon lowered its flag over a commit
  that no push had seen;
- boot, shutdown, warm-up and recovery are called by one thread at a time;
- a `join` with a timeout returns at any time after the stop was requested;
  `joined` records whether the thread had ended;
- taking a handle needs no lock in the model (the code's creation lock only
  serialises creations): a superset of the code's behaviours;
- time appears as two flags: `aged` (the batch timeout has passed) and `recent`
  (a write in the last five seconds).

### 3.2 WebTasks

The event loop is one actor. A claim of the lock (`Claims`) is one step,
since the handlers run on the loop and the release only ever frees; so is the
replay of the history together with the opening of the live queue, which have
no `await` between them. The steps of a pool thread are `Picks`, `Starts`,
`Announces`, `StopsEarly`, `PreparationFails`, `EntersBody`, `LeavesBody`,
`Releases`, `Finishes`. `Logs` is a log line of any actor: the context of the
logger is one dictionary that all threads share and nobody clears
(`logger.py:262`, `282-284`), so pool threads, threads of AI calls, the sync
worker and request handlers emit to the task that it names last, also when that
task is over. Emission has two steps (`Record`: numbered and added to
the history under the registry's lock; `Post`: scheduled on the loop), and
`Enqueue` is the callback that the loop runs later, in the order of posting.

One profile; a body ends (fairness); log texts are abstracted to one kind;
`cleanup_expired` has no caller and is left out; the history is trimmed to its
limit and the queue bounded as in the code. Two connections may read one task;
they share its only queue. The history variables `missed` and `pushed` hold the
events that a full queue refused or gave up, `stolen` what another connection
took, and `late` the connections that opened when no verdict was left to send.

### 3.3 SyncManager

- Callers: `SavesNote` (`_process_results`: the save and the queueing are
  separated by `todo`), `Warmup` and `Retry` read the notes of one status and
  queue them; `Queues` is `queue_maimemo_sync`.
- Worker: `TakesP1`, `TakesOther` (`_take_next_item` with
  `_apply_starvation_policy`), `Pauses`, `Looks`, `Creates`, `LooksAgain`
  (`sync_interpretation`), then what the result calls for: `Buffers`,
  `MarksConflict`, `MarksInvalid`, `Retries`, `GivesUp`; `Raises` is the
  `except` branch.
- Flushing: `TakesBuffer` under the flush lock, then `FlushMarks` and
  `FlushStatuses` without it. `"worker"` and `"caller"` are the two threads that
  may be at it; `"caller"` is the end of a study run, the flush request or the
  shutdown.
- Shutdown: `Stops`, `Joins` (returns at any time: five seconds), the last flush
  of the caller, `ShutdownReturns`; the worker's `Leaves` and `LastFlush`.
- `Restarts` ends the process in any state and starts a new one;
  `EditsCloud` is the user in the Maimemo app.

Choices:

- every caller in the program passes `force_sync=True`, so the branch that
  reads the note first, and the three-way merge that needs what was read, are
  unreachable and left out; so is priority P4, which has no caller;
- a priority queue with sequence numbers is a first-in-first-out queue per
  class; an item that the anti-starvation rule puts back keeps its number, so
  its place;
- the queue is a sequence per class, the streak is counted up to its limit;
- a note is written once, with one text per word; a cloud text that the code
  calls similar (0.95 or more) counts as the same;
- a note without meanings (`blank`) is saved as failed and handed over all the
  same, with an empty text: `Classify` takes any interpretation in the cloud for
  it, as the look-up does (`maimemo_api.py:326`, `363-369`). `foreign` records the words for which
  the cloud has held another text than the note's;
- the cache's time to live is a choice: a look-up may use what is cached or ask
  again. Errors with a body are cached, and lead to a creation, as in the code;
- a request may be answered, refused, or get no answer after it took effect;
- a write is visible as soon as it is accepted: `WriteEngine` applies accepted
  writes in order (`HandledInOrder`, `AppliedInOrder`), and what the engine
  refuses or loses is a refused write here.

### 3.4 StudyRun

One run of `process_word_list` from the list of words to the synced status, with
what it meets on the way: a reduced engine, a reduced sync worker, and the page
of today's words.

- Lists: `Begins` (the workflow gets a list from the cloud and
  `log_progress_snapshots` reads the latest rows), `QueuesSnaps`; `TodayReads`
  and `TodayQueues` are `GET /api/study/today`, which does the same on the loop.
- States: `ReadsStates` is `enrich_with_states` with the marks it repairs and
  the partition; `ReadsBlind`, `ReadsRebuilt`, `StatesFail` are the three ways
  in which the look-up goes wrong (no rows, rows of a rebuilt file, `None`).
- AI: `AiCalls`, `AiFails`, `AiAnswers` are the pool threads; `ConsumesNothing`,
  `ConsumesNote`, `ConsumesNameless`, `Raises`, `Finishes` the loop over the
  futures in the order of the list, with `_process_results` and the last flush.
- Engine: `accepted` is the queue with the batch; `Commits`, `CollisionDrops`
  and `ErrorDrops` take any number of statements from its front. `WriteEngine`
  shows that a batch is applied whole and in order or dropped whole.
- Sync worker: `Uploads`, `FindsConflict`, `UploadFails`, `WorkerFlushes`;
  `Crashes` ends the process and starts it again with the notes of status 0.
- `DeriveState` is `derive_state`, `Where` is `state_to_where_clause`, and
  `ListByState`, `NotesPage`, `SyncStatus`, `Summary`, `OpsMonitor`,
  `SkippedRow`, `FilterUnprocessed` are the lists and counters that show them.

Choices: batches of one word (the default of `BATCH_SIZE`); texts are numbered
per word, so that a second generation can be told from the first; the unique
index on snapshots is time-free: `second` holds the rows of the current second,
and `SecondPasses` empties it. A text without meanings is in `empty`: its note
has status 5, and the item for the sync worker has no text to compare, so that
any interpretation in the cloud counts as found. A rebuilt replica has, of each
word, the rows as they are, an older text as it was saved, or nothing.

### 3.5 Iteration

- Selection: `Rows` is the join of `query_weak_words`, which yields a row for
  every snapshot of a word; `WeakScore` and `Selected` are the score and the
  three stages of `WeakWordFilter`, with the numbers of the code.
- The loop: `PassesOver`, `RefineFails`, `Refines` (AI and `create_note`),
  `ReadsState` and the write of `_update_it_state`: `WritesAtomically` or
  `WriteFails` where the connection has an op lock, or `LosesIteration` when the
  writer's rollback takes the first of the two statements; `WritesRow` and
  `WritesState`, each for itself, in local mode (straight into the file) and
  where another thread has closed the handle (into the queue).
- The notepad: `ReadsPad` or `ReadsPadBlind`, then `EndsWithoutPad`, `WritesPad`
  or `PadRefused` (`_sync_weak_words_notepad`).
- Around it: `Writer` commits or drops what is queued, `StudySaves` leaves a
  note of an earlier study run there (or, in local mode, in the file), `Learns`
  and `Edits` are the user, `Crashes` the end of the process.

Choices: the order of the rows is any order; prompts and texts are numbers; runs
of a profile follow one another, which `WebTasks` shows of the lock.

### 3.6 RateLimit

`Book` is `_apply_rate_limit` under its lock: `Fresh` drops from the front what
has left a window, `WindowFree` and `GapFree` give the earliest time. `Asks`,
`Sends`, `Answered`, `Rejected`, `Breaks`, `BackedOff` are the loop of
`_request`. Time is discrete and relative to now: `Tick` ages every time stamp
by one, so that the model is finite although time goes on for ever. The
times in the deques are not in order (a request with high priority books
without the minimum interval, and sets `_last_request_ts` back), which is why
`LimitsKept` is not obvious.

### 3.7 Profiles

- `Seeks`, `Finds`, `Creates`, `CreateFails`, `SkipsWarmUp`, `WarmsUp`,
  `Publishes`, `StartFails` are `UserContextManager.get` with `_create_context`
  and `ensure_profile_ready`; a thread keeps a reference to the init lock it has
  found. `Scans` is the warm-up thread.
- `Visits`, `ReadsToday`, `Submits`, `Conflict`, `Runs`, `Ends` are the
  requests: a page, today's list, a heavy task.
- `Prepare` is `prepare_for_task`: the path of the whole process changes.
- `Looks`, `Opens`, `Records` are the three stages in which a thread or the
  writer obtains the write connection; `Takes` is the writer taking its batch.
- `Saves` and `SyncWrites` are the writes of a task and of the sync worker of a
  context.
- `Edits`, `Evicts`, `ShutsDown`, `Deletes`, `MakesProfile` are the user routes.

A database is named by the profile that owns it, a configuration by the version
of the file it was read from. A replica has a file, that of the path, and a
remote: `TURSO_DB_URL` of the process, hence the cloud database of the profile
it was started with (`Remote`), whatever the file. `placed` records for what is
committed whose it is, the file, and the cloud the replica pushes to. The history variables `leaked`, `remade`, `moved`
and `poisoned` record the four events after which the promises do not hold;
section 7 describes them. A batch is committed in the step that obtains the
connection: what a connection closed in between does to it is `WriteEngine`.

### 3.8 Startup

- Lock: `Opens`, `Locks`, `Refused`, `WritesPid` are `acquire_process_lock`;
  `Unlocks`, `Unlinks`, `RemovesPid` the three steps of the release. A lock
  file is an inode with an owner; `named` is the inode the name refers to.
- Tables: `TrustsMarker`, `CreatesTables`, `Marks` in cloud mode, `CreatesSome`
  and `CreatesRest` in local mode, `TablesFail`.
- Migrations: `ReadsVersion`, `Applies`, `ApplyFails`, `ApplyConflicts`,
  `Stamps`, `StampFails`: the step and its version are two transactions.
- Hub: `SkipsHub`, `FindsHub`, `CreatesHub`, `MarksHub`, `HubFails`,
  `HubStandsIn`, `RebuildsHub`, `HubAges`.
- `StartsFlow`, `Serves`, `Records`, `InitsAgain`, `Crashes` are the program
  around it.

A conflict row of before the backfill and one of after it stand for all rows.

## 4. Runs

| Run | Specification | Properties |
| --- | --- | --- |
| `we_safety` | `Spec` | `TypeOK`, `HandledInOrder`, `SettledAccounted`, `AppliedInOrder`, `KeepsLog` (refinement of `WriteLog`) |
| `we_live` | `FairSpec` | `DrainedOnJoin`, `AcceptedDecided`, `CommittedReachCloud`, `ShutdownEnds` |
| `wt_lock` | `FairSpec` | `OneTaskRuns`, `CanceledNeverRuns`, `LockComesBack`, `TaskEnds` |
| `wt_stream` | `FairSpec` | `TypeOK`, `VerdictsAgree`, `GapsExplained`, `StreamTells` |
| `sm_pursued` | `Spec` | `UnsyncedPursued`, `NoStarvation`, `SyncedWasTrue`, `ExitRecorded` |
| `sm_live` | `FairSpec` | `ItemsEnd`, `WorkerEnds` |
| `study_run` | `Spec` | `SavedBeforeSync`, `SyncedIsCloud`, `ReworkExplained`, `ViewsAgree` |
| `iteration` | `Spec` | `HistoryBacked`, `CloudBehind`, `PadKept` |
| `rate_limit` | `FairSpec` | `LimitsKept`, `RequestEnds` |
| `profiles` | `Spec` | `TypeOK`, `OneContext`, `FreshConfig`, `Routed` |
| `startup` | `Spec` | `OneInside`, `RecordsHonest`, `BackfillOnce`, `NoStaleRefusal` |
| `pf_crossing` | `Spec` | `NoCrossing`, which the code violates (section 7) |

### Bounds

- `we_safety`: two writes that leave a trace, so that their order shows in the
  database, a direct save, two clients, a queue of one, batches of two, two
  attempts, one injected error, two boots and one recovery. A batch of two is
  the smallest that can fail in its middle; a queue of one makes a put time out;
  two boots let a crash fall between two lives; with the save from another
  client two transactions meet on the connection. Clients and writes are
  symmetric.
- `we_live`: two writes, one that the database may reject and one update
  statement, one error, one warm-up, one shutdown. No recovery: after one, an accepted write may wait for the
  next one (section 7), so that `AcceptedDecided` does not hold.
- `wt_lock`: two tasks, two threads, one cancel, one failure: exclusion needs
  two tasks, the pool must be able to run both.
- `wt_stream`: one task, one cancel, one log line (of its thread, of one other
  thread or of the loop, at any time), a queue of two and a history of two, two
  connections, at the same time or one after the other: the task emits more
  events than queue or history hold, the line may overtake, or come after the
  verdict and push it out.
- `sm_pursued`: two words (symmetric), a streak of one, one retry, a flush at
  two results, one request and one trouble. With a streak of one the
  anti-starvation rule acts after the first item; with a flush size of two a
  result can wait in the buffer while the other word is handled.
- `sm_live`: one word, two requests, one trouble. Under fairness two words
  add interleavings but no new way for an item to stay: a class with two items
  is needed only for the order, which `sm_pursued` checks.
- `study_run`: two words (symmetric), two lists, a pool of one, a queue of two,
  one fault. The second list finds what the first has left, or runs while
  the page of today's words takes a snapshot; a queue of two refuses one of two
  statements that belong together.
- `iteration`: two words (symmetric) with up to two snapshots, so that a word
  is selected by two of its rows, two runs, a queue of three, one event (a note
  of a study run, a new snapshot, an edit) and two faults, both with and without an
  op lock: a save that goes through the queue in two halves is a first fault, a
  half refused or lost a second one.
- `rate_limit`: three threads, windows of two requests in three units and three in
  five, a gap of one, two tries. Windows smaller than the number of threads are
  full at once, and the long window binds when the short one does not. The
  times go on for ever.
- `profiles`: two profiles, one of them without a file at first, two threads,
  two requests, one write, and one trouble (an edit, a deletion, a new profile, a
  failure). The crossings need one write and the request of another profile.
- `startup`: three processes (symmetric), three starts, two migrations of which the
  second fills baselines, two faults. Three are needed for the lock file: one
  that leaves, one that has the old file open, one that makes a new one.

Deadlock checking is off where the program may rest: all writes issued and
processed, all bounds spent.

### Fairness

- `WriteEngine`: weak fairness of each thread that is running (the writer, the
  sync daemon, a controller in the middle of an operation, a client in the
  middle of a call) and of the two clocks. Nobody is obliged to start a call, to
  fail, to crash or to shut down.
- `WebTasks`: weak fairness of each pool thread (a body ends), each submission
  begun, each emission begun, the loop's callbacks, and the generator of a
  connected stream. Requests, cancels and failures are free.
- `SyncManager`: weak fairness of the worker, of a caller that has read notes
  and queues them, of flushes and of a shutdown that have begun. `Worker` is
  one actor: its steps exclude each other except for choices the environment
  makes (an answer, an exception, a pause), and fairness obliges it to none of
  those in particular.
- `RateLimit`: weak fairness of the clock and of each thread in the middle of a
  request: a sleep ends, the transport has timeouts. Nothing obliges the cloud
  to accept a request.

The other modules have safety properties only.

## 5. Proofs

TLAPS checks the following for every value of the constants that meets the
named assumptions of the modules (sets of names disjoint from the "nothing"
values; positive sizes; bounds that are natural numbers).

| Theorem | Module | Statement |
| --- | --- | --- |
| `TypeCorrect` | `WriteEngine_proofs` | `Spec => []TypeOK` |
| `OrderCorrect` | `WriteEngine_proofs` | `Spec => []HandledInOrder` |
| `AccountCorrect` | `WriteEngine_proofs` | `Spec => []SettledAccounted` |
| `DrainCorrect` | `WriteEngine_proofs` | `Spec => []DrainedOnJoin` |
| `AppliedCorrect` | `WriteEngine_proofs` | `Spec => []AppliedInOrder` |
| `RefinesLog` | `WriteEngine_proofs` | `Spec => KeepsLog` |
| `Exclusion` | `WebTasks_proofs` | `Spec => []OneTaskRuns` |
| `CancelRespected` | `WebTasks_proofs` | `Spec => []CanceledNeverRuns` |
| `TypeCorrect` | `WebTasks_proofs` | `Spec => []TypeOK` |
| `OneVerdict` | `WebTasks_proofs` | `Spec => []VerdictsAgree` |
| `NoGap` | `WebTasks_proofs` | `Spec => []GapsExplained` |
| `TypeCorrect` | `SyncManager_proofs` | `Spec => []TypeOK` |
| `TurnsTaken` | `SyncManager_proofs` | `Spec => []NoStarvation` |
| `Pursuit` | `SyncManager_proofs` | `Spec => []UnsyncedPursued` |
| `SyncedTrue` | `SyncManager_proofs` | `Spec => []SyncedWasTrue` |
| `ExitKept` | `SyncManager_proofs` | `Spec => []ExitRecorded` |
| `StudyKept` | `StudyRun_proofs` | `Spec => []IInv` |
| `SavedFirst` | `StudyRun_proofs` | `Spec => []SavedBeforeSync` |
| `SyncedAgrees` | `StudyRun_proofs` | `Spec => []SyncedIsCloud` |
| `AskedOnce` | `StudyRun_proofs` | `Spec => []ReworkExplained` |
| `ViewsCorrect` | `StudyRun_proofs` | `Spec => []ViewsAgree` |
| `TypeCorrect` | `RateLimit_proofs` | `Spec => []TypeOK` |
| `Limits` | `RateLimit_proofs` | `Spec => []LimitsKept` |
| `DataRouted` | `Profiles_proofs` | `Spec => []Routed` |
| `TypeCorrect` | `Profiles_proofs` | `Spec => []TypeOK` |
| `OneWorker` | `Profiles_proofs` | `Spec => []OneContext` |
| `ConfigFresh` | `Profiles_proofs` | `Spec => []FreshConfig` |
| `HistoriesBacked` | `Iteration_proofs` | `Spec => []HistoryBacked` |
| `CloudFirst` | `Iteration_proofs` | `Spec => []CloudBehind` |
| `PadsKept` | `Iteration_proofs` | `Spec => PadKept` |
| `OneAtWork` | `Startup_proofs` | `Spec => []OneInside` |
| `RefusedByTheLiving` | `Startup_proofs` | `Spec => NoStaleRefusal` |
| `Honest` | `Startup_proofs` | `Spec => []RecordsHonest` |
| `NoSecondBackfill` | `Startup_proofs` | `Spec => []BackfillOnce` |

The arguments:

- **Engine, type.** `TypeOK` alone is not inductive: a commit needs to know
  that outside a transaction the writer has executed nothing, and a client that
  is about to put holds a queue item. `StepsMatch` says so.
- **Engine, order.** `HandledInOrder` says that what is settled, then the
  writer's batch, then the queue, is what was accepted. Given the types it is
  inductive: each step moves one item over a border, or a whole batch, or
  nothing (a crash settles batch and queue together).
- **Engine, account.** Needs `TxTraced`: the open transaction holds every item
  it has gone through; after the commit, until the writer marks the batch, the
  items are in the database. A stolen rollback, a closed handle and a recovery
  must all keep it: there the history variable `lost` grows with what they take.
- **Engine, drain.** `Stopped` says what the stop flag means at the writer's
  last steps: a writer that is leaving, or has left, was told to stop, and by
  then everything accepted before the first telling is settled
  (`HandledInOrder` turns this into a comparison of lengths). A writer that is
  started again clears the flag, and the promise begins anew.
- **Engine, applied in order.** `TxOrdered` gives for the open transaction an
  increasing map from its writes to the items of the batch it has gone through;
  `DbOrdered` a map from the writes of the database to the accepted writes. That
  map is increasing but for doubtful writes that come once more behind, and it
  goes to writes that are handled or, if doubtful, still in the batch (`Held`).
  So a batch that is applied again covers every doubtful write of its first
  application, in order, which is what makes the exception of `AppliedInOrder`
  inductive. A retry starts an empty transaction, a commit composes the two
  maps, and a rebuild restricts the second to what the cloud holds: therefore
  the invariant, and the property, speak of that prefix as well.
- **Engine, refinement.** `Log!Commit` speaks of an increasing map as well, the
  one `TxOrdered` has at the end of a batch. A commit of the writer is a commit
  of the log, one whose answer was lost a commit that leaves the line as it is,
  a push a publication, a dropped batch or a crash gives up the
  front or all of the line; every other step leaves line, log and prefix alone.
- **WebTasks, lock.** `LockKept`: a task between its submission and its release is the
  one for which the lock was taken. `RecordKept` and `EarlyKept` say where a
  thread can be when its record is new, pending, or was canceled early.
- **WebTasks, events.** `WayInv` follows an event from its number to the
  browser: the history is the events numbered last, without a gap
  (`HistoryKept`), a number on its way stands for one event (`PipeKept`), what
  a thread says stays in order (`OrderKept`), and what it has yet to say to
  a live connection comes after what that connection has heard of it
  (`ReaderKept`). So whatever is skipped was overtaken by a later number of
  another thread. What another connection takes is in `stolen`, what the full
  queue loses in `missed` or `pushed`: no hypothesis on the number of
  connections is needed.
- **WebTasks, verdicts.** Every verdict said of a task is `Decided`: by a cancel
  in time, or by the thread that has recorded it and is through. The two exclude
  each other, since an early cancel is what the thread then records.
- **SyncManager, pursuit.** `HandKept`: the worker holds an item exactly in the steps that
  handle one. `FlushKept`: a thread takes the buffer only when it has nothing
  left to write of an earlier one; otherwise `TakesBuffer` would overwrite words
  under way. `TurnKept`: the P1 items that passed a waiting one are among those
  of the streak. With them `UnsyncedPursued` is inductive; `PutKeeps` and
  `TakeKeeps` say what putting and taking do to the other items of the queue.
- **SyncManager, truth.** `AgreedKept`: what lies in the cloud or the cache with
  the note's text, and every word between the worker's result and the database
  (result, buffer, flushes), is `Vouched` for: its text has been in the cloud, or
  the note has no meanings and the cloud has held some other text.
- **SyncManager, exit.** `RecordInv`: a result that the database lacks is in a
  buffer, in a flush, in the worker's hand, or its word waits in the queue of
  a worker that still runs; nothing is buffered once the worker's last write has
  begun, and the shutdown returns with its own flush done.
- **StudyRun.** The invariant `Good(d, q)` speaks of any database and the
  statements that wait for it: the texts of a word grow along the queue
  (`TextsInOrder`), a mark has the note of its word before it (`MarksFollow`),
  the status of success has an answer of the cloud before it (`SuccessFollows`,
  `Answered`: the upload, or any interpretation for a note without meanings), and the
  words that are not excused were made at most once, with the note in sight
  (`MadeOnce`). `GoodMoves`: applying the first statement of a good queue leaves
  the rest good; a transaction of any length follows by induction on the
  number of its statements. `GoodAppends` and `NoteFits` say what may be queued,
  `DropKeeps` and `RebuildKeeps` that what is dropped or rebuilt is named in
  `lost` and `excused`. `SyncKept` and `TodoKept` say the same of the items of
  the sync worker and of the words that wait for the AI.
- **RateLimit.** The times are not in order, so a count over a window cannot be
  read off its ends. The invariant `Spaced` says instead that two bookings
  whose places in a deque lie the limit (or a multiple of it) apart are at
  least the span apart in time. A booking keeps it: its time is no earlier than
  the span after the one `limit` places before. Two bookings of one window
  therefore never have places that are equal modulo the limit, and a set
  of places without two equal remainders has at most `limit` members.
- **Profiles, routing.** `Routed` speaks of data that has landed; the invariant follows it
  from where it was saved. A task that runs and data that is queued are bound
  for the current path (`RunnersBound`, `PendingBound`); the batch of the
  writer is bound for the path of the connection it has looked at or is opening
  (`BatchBound`); and the connection is open on the path it was recorded under
  (`LabelHonest`), and on the one remote of the process (`OneRemote`): each of them, or the profile is in `moved`, or a connection
  was recorded wrongly. `OpenerKnown` keeps a second thread from changing what
  the writer is opening.
- **Profiles, contexts.** Who makes a context holds the init lock of the profile
  (`LocksKept`) and has found none published (`OneKept`); a context that runs is
  published, being made, or being closed by an eviction; a context under way or
  published has been read from the file as it is (`FreshKept`). Each holds
  but for the profiles in `leaked` and `remade`, which is why an eviction that
  forgets a lock in use breaks no other profile.
- **Iteration.** A refined text travels from the cloud over the row in hand, the
  note that was read and the statements of the queue to the database.
  `RunBehind`, `QueueBehind` and `DbBehind` say of each place that the cloud has
  the text. With an op lock the only statements of an iteration in the queue
  are those of torn saves (`QueueAtomic`), so between reading a note and writing
  it nothing but an upsert of a study run, or a torn save of the word, changes
  it (`BaseCurrent`); the write then adds the same text to history, texts and
  iteration rows. `torn` and `replaced` name the words for which this fails. `PadSeen` says that until the user
  edits it, the notepad is the one that was read. A batch is modelled by its
  effect on each word (the last statement about the word wins), which is what
  lets a batch of any length be one step of the proof.
- **Startup.** A process inside holds the flock of the file it has opened, and
  two of them hold different files only if one of these lost its name: `swept`.
  The three records are true because each is written after what it records, by
  a process that alone changes it; the exceptions are those that the history
  variables name. The backfill runs only while the version is below its step,
  and a row recorded since its commit sees it in `applied`.

Every invariant, every action property and the refinement that the passing runs
check is among these theorems. Model-checked only are the liveness properties
(`AcceptedDecided`, `CommittedReachCloud`, `ShutdownEnds`, `LockComesBack`, `TaskEnds`,
`StreamTells`, `ItemsEnd`, `WorkerEnds`, `RequestEnds`): liveness under fairness
and `ENABLED` are out of the prover's reach.

Induction: the theorems of the library that take a predicate cannot be used, so
`StudyRun_proofs` states induction of a set of natural numbers (`NaturalSteps`,
from the well-founded order of finite sets) and uses it for what a transaction
does, a recursive function over its statements.

What the proofs changed in the model:

- `Kept` of `StudyRun` asked that a lost text itself be named in `lost`. That is
  false from three lists on: a later text may replace a note, and be lost in
  its place. The property now speaks of the text or a later one; two lists, the
  bound of the run, are too few to show the difference;
- `DeriveState` had overlapping cases, read in their order by TLC but not by the
  meaning of `CASE`; they exclude each other now, as the tests of `derive_state`
  in their order do;
- `atStop` of `WriteEngine` was overwritten by a second stop of a writer that
  had left already; `DrainedOnJoin` then compared with writes that came after;
- `WriteLog` names the writes of a commit by an increasing map, which a proof can
  follow, instead of filtering the line;
- `Words` of `StudyRun` is assumed finite (a list from the cloud is).

## 6. Mutants

`PROJECT.json` names a mutant for every property of every passing run: a
definition of the model changed as a plausible bug in the code would change it
(a retry that resumes in the middle, a rollback left out, a flush skipped at
the end, one retry too many, a path that is not compared). TLC finds the
property violated in each.

## 7. Where code and documentation differ

Shown by the run `pf_crossing`: `prepare_for_task` switches the database path of
the whole process (`user_context.py:312-333`), the locks are per profile, and
queued writes carry no profile. A request for another profile, or its
`GET /api/study/today` (`routers/study.py:213`, `234`), therefore moves the
path under a running task or under queued writes, and the writer commits
them into the other database. `user_context.py:315-316` and
`routers/study.py:134` say that this does not happen. `Routed` says what does
hold: data goes into another profile's file in no other way. The cloud is
another matter: a replica is opened against the `TURSO_DB_URL` of the process
(`connection.py:175-176`, `658-667`; `ctx.turso_db_url`, `user_context.py:176-177`,
is read by nobody), so the writes of every profile are pushed to the cloud
database of the profile the process was started with, and its rows are pulled
into their files. `Routed` promises only that the writes of that profile
reach no other cloud.

Found while modelling. The models contain what bears on their properties, and
the properties are stated so that they hold all the same, with the events that
break them as named exceptions; a few entries (urllib3, exit, `gc`, the order on
the command line) are notes on code that no model contains.

Engine and connections:

- `_needs_sync` is reset after the op lock was released
  (`execution_engine.py:315-320`): a batch committed between push and reset stays
  local until the next write, even over an orderly exit (against
  `README.md:60-62`, which promises a periodic incremental sync and scheduling
  that keeps local and cloud states the same). `CommittedReachCloud` has the
  lowered flag (`unflagged`) as its exception;
- a commit whose answer is lost is applied twice when the batch is kept
  (`execution_engine.py:107`, `254-262`): rows that are inserted without a key
  that refuses a repetition are then there twice;
- `update_memory_aid` queues its write with `op_type="update"`
  (`word_repo.py:468`), which the writer counts as written and does not execute
  (`execution_engine.py:97-105`);
- the writer's second rollback takes no op lock (`execution_engine.py:194`,
  `201`) and can end another thread's transaction; the direct save then commits
  one of its two statements and reports success (against
  `notes_repo.py:474-478`); `LosesIteration` of `Iteration` is the case in which
  the note is changed and the row of the iteration is gone;
- "database is locked" is retried as a WAL conflict but the writer's list of
  errors that keep the batch does not have it (`execution_engine.py:254-265`
  against `database/README.md:171`);
- no sync at exit (`docs/architecture/decision_flow.md:76`); the sync daemon is
  not restarted after a recovery (`database/README.md:223`), no `gc.collect()`
  (`:150`), two waits instead of three (`:168`); a direct save never raises
  `_needs_sync`; after a restart `_needs_sync` is down although the replica may
  be ahead of the cloud;
- starting the writer and putting a write are two steps
  (`execution_engine.py:384`, `387`): when a recovery stops the writer between
  them, the write waits until the next one, or the shutdown, starts a writer;
- a connection is opened on the path read at one line and recorded under the
  path read at another (`connection.py:667`, `671`).

Tasks and locks:

- a heavy task canceled before it runs, or whose context or preparation fails,
  keeps the lock of its profile (`routers/study.py:117`, `122`, `138-148`,
  `tasks.py:137-146`, `226-229`);
- the holder of the profile lock is named after the submission; a task that has
  ended by then leaves a holder on a free lock (`lock.py:254-257`), and the
  profile answers 409 from then on;
- a second reader of a task's stream shares its event queue: the two split the
  events, and the one that does not get the verdict waits on heartbeats
  (`tasks.py:258`);
- the context of the logger is shared by all threads and never cleared
  (`logger.py:262`, `282-284`, `tasks.py:113`): lines of other threads go to the
  task that started last, overtake its events, and after its end may push the
  verdict out of the history, so that a browser that connects then is never told;
- the status of a task goes from canceled back to running when a thread picked
  it just before the cancel (the body is not entered) (`tasks.py:117-120`).

Sync manager and API client:

- a success waits in the buffer while a later conflict is written at once; the
  flush then overwrites the conflict (`sync_manager.py:582` against
  `DATABASE_DESIGN.md:57`, `415`);
- a note without meanings is saved as failed (`notes_repo.py:143-148`) and handed
  to the sync worker all the same (`study_workflow.py:124-134`); with an empty
  expected text any interpretation in the cloud is "found"
  (`maimemo_api.py:326`, `363-369`), so the failed note gets status 1
  (`sync_manager.py:349-356`) whatever the cloud says of the word. `SyncedWasTrue`
  and `SyncedIsCloud` have these notes as their exception;
- an idle worker never flushes, in spite of the interval (`sync_manager.py:65`,
  `547`, against `244-248`);
- the retries of urllib3 (`total=3`) send again without a booking, and a booking
  with high priority can set `_last_request_ts` back.

Study runs:

- a second snapshot of a word with the same count in one second breaks a unique
  index, and the whole batch it is in is dropped (`progress_repo.py:158`);
- a failed look-up of the states returns no rows, and the guard of
  `word_service.py:85-91` does not help after a rebuild that left an empty file:
  finished words are generated again;
- an AI entry without a name aborts the run (`study_workflow.py:50`);
- a word that is marked and has no note is reported as `sync_pending`; lists and
  counts by state see only words with a note;
- a page of words and its total are read by two queries;
- `study_workflow.py:138`, `262`, `407` and `word_service.py:174` save without
  naming a database, unlike the sync worker; `DRY_RUN` is a constant False.

Iteration:

- the query of weak words yields a row per snapshot, not per word
  (`word_repo.py:252-255` against the comment at `94`): a word may be
  refined twice in one run;
- words of level 0 are always passed over: the query does not select the column
  from which the first level is chosen;
- an iteration and its note are two writes in local mode, and when another thread
  has closed the handle (`notes_repo.py:489-497`): in local mode the second one
  may fail after the first was committed, in the queue either may be refused or
  lost, and a second iteration may read the note before the first one's update
  is applied. `HistoryBacked` has these saves (`torn`) as its exceptions;
- after a failed look-up a notepad is overwritten, or a second one made
  (`iteration_manager.py:126-155` against the comment at `140`), and a refused
  write is logged as a success;
- the interpretation of an iterated word is never uploaded.

Contexts and profiles:

- an eviction forgets the init lock while a request creates under it, and pops a
  context that a task uses; a failed warm-up leaves the workflow of a
  context running that nobody has (`user_context.py:80-95`, `195-201`);
- the deletion of a profile keeps its context; the context of a profile that was
  unknown when it was made keeps the global configuration;
- the warm-up runs once per process and profile, also for later contexts;
- the branch of `_warmup_async` for P3 items has no effect; web mode ignores the
  Turso credentials of a profile's file, see above; `schema.py:15`, `247` use the
  `DB_PATH` of the import (against `config.py:139`, `user_context.py:213`).

Start:

- the release gives up the flock before it removes the file: two later starts may
  both get in (`lock.py:92` says "only one process");
- `_is_process_alive` raises on POSIX for a dead PID (`lock.py`: the `except`
  clause names `subprocess`, imported for Windows only), so that the recovery
  of a stale lock does not work; it is not needed either, since the kernel
  frees the flock;
- a WalConflict at the commit of a migration is taken as applied; a failure
  between a step and its version runs the step again, although `V001` says that it
  does not run twice;
- a hub file rebuilt within the window of the state file gets no tables, and
  `_init_hub_schema` never makes `user_api_keys`; a local file that stands in
  for an unreachable hub marks the hub's state as fresh;
- on the command line the choice of a profile and the wizard come before the
  process lock.

## 8. Not modelled

- Local-only mode of the database in `WriteEngine`: direct SQLite calls without
  daemons. `Startup`, `Iteration` and `Profiles` have both modes.
- The front end's own reconnection policy.
- Hub users and community look-up: single reads and upserts on other databases,
  one connection per call.
- Configuration, wizard, logging, metrics, preflight, user interface and scripts:
  input and output without a protocol between actors.
- The text of prompts and answers of the AI clients, phrases of the Maimemo API.
- `database/sync_service.py`: called by an archived script only.
- Windows' locking of the process lock file.
