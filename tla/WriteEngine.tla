----------------------------- MODULE WriteEngine -----------------------------
(***************************************************************************)
(* The write and sync engine of the main database in Embedded Replica mode *)
(* (database/execution_engine.py, the connection singleton of              *)
(* database/connection.py, the corruption recovery of database/session.py).*)
(*                                                                         *)
(* Client threads put writes into one bounded queue.  The writer daemon    *)
(* collects them into a batch and commits the batch to the local replica;  *)
(* the sync daemon pushes the replica to the cloud once writes have been   *)
(* quiet.  A controller thread boots the daemons, shuts them down, warms   *)
(* up a web profile, or rebuilds a corrupt database from the cloud.        *)
(*                                                                         *)
(* Transactions and pushes on the shared connection exclude each other by  *)
(* the connection's op lock, which the writer holds while it is at "exec"  *)
(* and a direct save while it is between its statements; a push is a       *)
(* single step that needs the lock free.  Two things take no op lock: the  *)
(* writer's second rollback, which ends whatever transaction is open on    *)
(* the shared connection, and closing the connection, which may fall       *)
(* between any two steps; a handle taken before a close is "closed" when   *)
(* next used.                                                              *)
(***************************************************************************)
EXTENDS Naturals, Sequences, FiniteSets, Functions

CONSTANTS
  Writes,          \* queue items: an SQL statement with its arguments
  BadWrites,       \* the items whose statement the database may reject
  Updates,         \* the items queued with op_type="update"
  Saves,           \* direct transactions that bypass the queue
  NoItem,          \* a client that is issuing nothing
  Clients,         \* threads that call the repositories
  QueueCap,        \* queue.Queue(maxsize=...)
  BatchThreshold,  \* batch_threshold of the writer
  MaxAttempts,     \* max_retries of _execute_batch_writes
  MaxFaults,       \* bound: injected database and network errors
  MaxBoots,        \* bound: process starts
  MaxCleanups,     \* bound: orderly shutdowns
  MaxRecoveries,   \* bound: corruption recoveries
  MaxWarmups       \* bound: warm-ups of a further web profile

ASSUME WritesAssumption == /\ BadWrites \subseteq Writes
                           /\ Updates \subseteq Writes
                           /\ Writes \cap Saves = {}
                           /\ NoItem \notin Writes \cup Saves
ASSUME LimitsAssumption ==
  /\ QueueCap \in Nat \ {0}
  /\ BatchThreshold \in Nat \ {0}
  /\ MaxAttempts \in Nat \ {0}
ASSUME BoundsAssumption ==
  /\ MaxFaults \in Nat
  /\ MaxBoots \in Nat
  /\ MaxCleanups \in Nat
  /\ MaxRecoveries \in Nat
  /\ MaxWarmups \in Nat

VARIABLES
  queue,       \* _write_queue
  stopWriter,  \* _writer_daemon_stop_event
  stopSync,    \* _sync_daemon_stop_event
  needsSync,   \* _needs_sync
  recent,      \* time.time() - _last_write_time <= 5.0
  conn,        \* _main_write_conn_singleton
  handle,      \* the connection object each thread holds
  db,          \* what the local replica has committed, in order
  detached,    \* the open replica's file was moved aside by a recovery
  cloud,       \* length of the prefix of db that the cloud holds
  wpc,         \* where the writer daemon is; an error class: it was raised
  pending,     \* pending_batch of the writer daemon
  done,        \* items of the batch the open transaction has gone through
  tx,          \* what the open transaction has written
  tries,       \* retry_count of _execute_batch_writes
  aged,        \* now - last_commit_time >= timeout_seconds
  spc,         \* where the sync daemon is
  cpc,         \* where each client is
  part,        \* what the open transaction of a direct save has written
  item,        \* the write each client is issuing
  ctl,         \* where the controller thread is
  left,        \* what remains of each bound
  fresh,       \* writes and saves no client has issued yet
  accepted,    \* history: writes put into the queue, in order
  settled,     \* history: writes the writer is done with, in order
  dropped,     \* history: writes of batches the writer gave up
  lost,        \* history: writes a crash or a rebuild destroyed
  doubtful,    \* history: writes of commits that took effect and then raised
  unflagged,   \* history: the flag was lowered over commits no push has seen
  atStop,      \* history: Len(accepted) when the writer was first told to stop
  joined       \* history: the last stop saw the writer end in time

sharedVars == <<queue, stopWriter, stopSync, needsSync, recent>>
dbVars     == <<conn, handle, db, detached, cloud>>
txVars     == <<done, tx, tries>>
writerVars == <<wpc, pending, txVars, aged>>
clientVars == <<cpc, item, part, fresh>>
ctlVars    == <<ctl, atStop, joined>>
history    == <<accepted, settled, dropped, lost, doubtful, unflagged>>
vars == <<sharedVars, dbVars, writerVars, spc, clientVars, ctlVars, left, history>>

Actors  == Clients \cup {"writer", "sync", "ctl"}
Items   == Writes \cup Saves
Statements == {"iteration", "note"}   \* of a direct save
Running == ctl \notin {"down", "exited"}

(* The error classes an exception text falls into.  "wal": a WAL conflict;
   "locked": "database is locked"; "broken": the other keywords of the
   writer's broken-connection list; "other": none of them.                *)
Errors     == {"wal", "locked", "broken", "other"}
Retried    == {"wal", "locked"}     \* _execute_batch_writes tries again
BrokenConn == {"wal", "broken"}     \* the writer keeps the batch

Init ==
  /\ queue = <<>> /\ stopWriter = FALSE /\ stopSync = FALSE
  /\ needsSync = FALSE /\ recent = FALSE
  /\ conn = "none" /\ handle = [a \in Actors |-> "none"]
  /\ db = <<>> /\ detached = FALSE /\ cloud = 0
  /\ wpc = "off" /\ pending = <<>> /\ done = 0 /\ tx = <<>> /\ tries = 0
  /\ aged = FALSE
  /\ spc = "off"
  /\ cpc = [c \in Clients |-> "idle"] /\ item = [c \in Clients |-> NoItem]
  /\ part = {}
  /\ ctl = "down" /\ atStop = 0 /\ joined = FALSE
  /\ left = [faults |-> MaxFaults, boots |-> MaxBoots,
             cleanups |-> MaxCleanups, recoveries |-> MaxRecoveries, warmups |-> MaxWarmups]
  /\ fresh = Items
  /\ accepted = <<>> /\ settled = <<>> /\ dropped = {} /\ lost = {}
  /\ doubtful = {} /\ unflagged = FALSE

Spend(kind) == /\ left[kind] > 0
               /\ left' = [left EXCEPT ![kind] = @ - 1]

-----------------------------------------------------------------------------
(* The connection singleton *)

ClosedHandles == [a \in Actors |-> IF handle[a] = "live" THEN "closed" ELSE handle[a]]

\* _close_main_write_conn_singleton: no op lock is taken.
CloseConn == /\ conn' = "none"
             /\ handle' = ClosedHandles

\* A new replica connection.  If a recovery moved the database file away,
\* the file is created anew from what the cloud holds.
Connected == /\ conn' = "open"
             /\ detached' = FALSE
             /\ db' = IF detached THEN SubSeq(db, 1, cloud) ELSE db
             /\ lost' = IF detached
                        THEN lost \cup Range(SubSeq(db, cloud + 1, Len(db)))
                        ELSE lost

\* _get_main_write_conn_singleton for thread a: reuse the singleton, or create
\* it if there is none.
GetConn(a) ==
  \/ /\ conn = "open"
     /\ handle' = [handle EXCEPT ![a] = "live"]
     /\ UNCHANGED <<conn, db, detached, lost, left>>
  \/ /\ conn = "none"
     /\ handle' = [handle EXCEPT ![a] = "live"]
     /\ Connected
     /\ UNCHANGED left

Release(a) == handle' = [handle EXCEPT ![a] = "none"]

\* _start_writer_daemon and _start_sync_daemon: no-ops while the thread lives.
StartWriter == IF wpc = "off"
               THEN wpc' = "top" /\ stopWriter' = FALSE /\ aged' = FALSE
               ELSE UNCHANGED <<wpc, stopWriter, aged>>
StartSync   == IF spc = "off"
               THEN spc' = "idle" /\ stopSync' = FALSE
               ELSE UNCHANGED <<spc, stopSync>>

\* ... whose health check, made by any reader or writer, may find the
\* singleton dead and close it.
HealthCheckFails ==
  /\ conn = "open" /\ Spend("faults")
  /\ CloseConn
  /\ UNCHANGED <<sharedVars, db, detached, cloud, writerVars, spc, clientVars,
                 ctlVars, history>>

\* _main_write_conn_op_lock, held through a transaction.
OpLockHeld == \/ wpc = "exec"
              \/ \E c \in Clients : cpc[c] \in {"inserted", "updated"}

-----------------------------------------------------------------------------
(* Clients *)

\* _queue_write_operation, first call: make sure the writer runs.
Enqueue(c, w) ==
  /\ Running /\ cpc[c] = "idle" /\ w \in fresh \cap Writes
  /\ StartWriter
  /\ cpc' = [cpc EXCEPT ![c] = "put"]
  /\ item' = [item EXCEPT ![c] = w]
  /\ fresh' = fresh \ {w}
  /\ UNCHANGED <<queue, stopSync, needsSync, recent, dbVars, pending, txVars,
                 spc, part, ctlVars, left, history>>

\* _write_queue.put succeeds: the caller is told True.
Put(c) ==
  /\ cpc[c] = "put" /\ Len(queue) < QueueCap
  /\ queue' = Append(queue, item[c])
  /\ accepted' = Append(accepted, item[c])
  /\ cpc' = [cpc EXCEPT ![c] = "idle"]
  /\ item' = [item EXCEPT ![c] = NoItem]
  /\ UNCHANGED <<stopWriter, stopSync, needsSync, recent, dbVars, writerVars,
                 spc, part, fresh, ctlVars, left, settled, dropped, lost, doubtful, unflagged>>

\* Mutant of PutTimesOut: a full queue makes room by discarding its oldest write.
PutDropsOldest(c) ==
  /\ cpc[c] = "put" /\ Len(queue) = QueueCap
  /\ queue' = Append(Tail(queue), item[c])
  /\ accepted' = Append(accepted, item[c])
  /\ cpc' = [cpc EXCEPT ![c] = "idle"]
  /\ item' = [item EXCEPT ![c] = NoItem]
  /\ UNCHANGED <<stopWriter, stopSync, needsSync, recent, dbVars, writerVars,
                 spc, part, fresh, ctlVars, left, settled, dropped, lost, doubtful, unflagged>>

\* queue.Full after two seconds: the caller is told False.
PutTimesOut(c) ==
  /\ cpc[c] = "put" /\ Len(queue) = QueueCap
  /\ cpc' = [cpc EXCEPT ![c] = "idle"]
  /\ item' = [item EXCEPT ![c] = NoItem]
  /\ UNCHANGED <<sharedVars, dbVars, writerVars, spc, part, fresh, ctlVars, left, history>>

\* atomic_save_iteration_and_update_note takes the singleton ...
SaveConnect(c, s) ==
  /\ Running /\ cpc[c] = "idle" /\ s \in fresh \cap Saves
  /\ GetConn(c)
  /\ cpc' = [cpc EXCEPT ![c] = "save"]
  /\ item' = [item EXCEPT ![c] = s]
  /\ fresh' = fresh \ {s}
  /\ UNCHANGED <<sharedVars, cloud, writerVars, spc, part, ctlVars,
                 accepted, settled, dropped, doubtful, unflagged>>

\* ... takes the op lock, begins a transaction, inserts the iteration ...
SaveInserts(c) ==
  /\ cpc[c] = "save" /\ handle[c] = "live" /\ ~OpLockHeld
  /\ part' = {"iteration"}
  /\ cpc' = [cpc EXCEPT ![c] = "inserted"]
  /\ UNCHANGED <<sharedVars, dbVars, writerVars, spc, item, fresh, ctlVars, left, history>>

\* ... updates the note, in a new transaction if the first has been ended ...
SaveUpdates(c) ==
  /\ cpc[c] = "inserted" /\ handle[c] = "live"
  /\ part' = part \cup {"note"}
  /\ cpc' = [cpc EXCEPT ![c] = "updated"]
  /\ UNCHANGED <<sharedVars, dbVars, writerVars, spc, item, fresh, ctlVars, left, history>>

\* ... and commits what is there: nothing, if the transaction has been ended.
\* The caller is told True.  It does not set _needs_sync.
SaveCommits(c) ==
  /\ cpc[c] = "updated" /\ handle[c] = "live"
  /\ db' = IF part = {} THEN db ELSE Append(db, item[c])
  /\ part' = {}
  /\ cpc' = [cpc EXCEPT ![c] = "idle"]
  /\ item' = [item EXCEPT ![c] = NoItem]
  /\ Release(c)
  /\ UNCHANGED <<sharedVars, conn, detached, cloud, writerVars, spc, fresh,
                 ctlVars, left, accepted, settled, dropped, lost, doubtful, unflagged>>

\* An exception: the transaction is rolled back and the caller is told False.
\* It may come from a commit that took effect before its answer was lost.
\* (A handle that is closed before the lock is looked up sends the save down
\* the queue instead: the client is then free to issue queue writes.)
SaveFails(c) ==
  /\ \/ cpc[c] = "save" /\ ~OpLockHeld
     \/ cpc[c] \in {"inserted", "updated"}
  /\ IF handle[c] = "closed" THEN UNCHANGED left ELSE Spend("faults")
  /\ \/ UNCHANGED db
     \/ /\ cpc[c] = "updated" /\ handle[c] = "live" /\ part # {}
        /\ db' = Append(db, item[c])
  /\ part' = {}
  /\ cpc' = [cpc EXCEPT ![c] = "idle"]
  /\ item' = [item EXCEPT ![c] = NoItem]
  /\ Release(c)
  /\ UNCHANGED <<sharedVars, conn, detached, cloud, writerVars, spc, fresh,
                 ctlVars, history>>

\* What a client does once it has begun something.
ClientContinues(c) == \/ Put(c) \/ PutTimesOut(c)
                      \/ SaveInserts(c) \/ SaveUpdates(c) \/ SaveCommits(c)
                      \/ SaveFails(c)

ClientStep(c) == \/ \E w \in Writes : Enqueue(c, w)
                 \/ \E s \in Saves : SaveConnect(c, s)
                 \/ ClientContinues(c)

-----------------------------------------------------------------------------
(* The writer daemon *)

\* Mutant of ShouldCommit: no commit by age.
CommitsOnlyFull(batch) == Len(batch) >= BatchThreshold \/ (batch # <<>> /\ stopWriter)

ShouldCommit(batch) == /\ batch # <<>>
                       /\ Len(batch) >= BatchThreshold \/ aged \/ stopWriter

\* Mutant of WriterLeaves: the exit test forgets the pending batch.
LeavesWithBatch ==
  /\ wpc = "top" /\ stopWriter /\ queue = <<>>
  /\ wpc' = "leaving"
  /\ UNCHANGED <<sharedVars, dbVars, pending, txVars, aged, spc, clientVars,
                 ctlVars, left, history>>

\* The loop's exit test; the thread is still alive until it returns.
WriterLeaves ==
  /\ wpc = "top" /\ stopWriter /\ queue = <<>> /\ pending = <<>>
  /\ wpc' = "leaving"
  /\ UNCHANGED <<sharedVars, dbVars, pending, txVars, aged, spc, clientVars,
                 ctlVars, left, history>>

WriterEnds ==
  /\ wpc = "leaving"
  /\ wpc' = "off"
  /\ UNCHANGED <<sharedVars, dbVars, pending, txVars, aged, spc, clientVars,
                 ctlVars, left, history>>

\* _write_queue.get returns an item.
WriterTakes ==
  /\ wpc = "top" /\ queue # <<>>
  /\ pending' = Append(pending, Head(queue))
  /\ queue' = Tail(queue)
  /\ wpc' = IF ShouldCommit(pending') THEN "connect" ELSE "top"
  /\ UNCHANGED <<stopWriter, stopSync, needsSync, recent, dbVars, txVars, aged,
                 spc, clientVars, ctlVars, left, history>>

\* _write_queue.get raises queue.Empty and the batch is due.
WriterFlushes ==
  /\ wpc = "top" /\ queue = <<>> /\ ShouldCommit(pending)
  /\ wpc' = "connect"
  /\ UNCHANGED <<sharedVars, dbVars, pending, txVars, aged, spc, clientVars,
                 ctlVars, left, history>>

WriterConnects ==
  /\ wpc = "connect"
  /\ GetConn("writer")
  /\ wpc' = "begin"
  /\ UNCHANGED <<sharedVars, cloud, pending, txVars, aged, spc, clientVars,
                 ctlVars, accepted, settled, dropped, doubtful, unflagged>>

\* The error handler of the writer loop: destroy the connection and keep the
\* batch, or keep the connection and drop the batch.
HandleError(err) ==
  /\ wpc' = "top" /\ tries' = 0 /\ UNCHANGED <<done, tx>>
  /\ IF err \in BrokenConn
     THEN /\ conn' = "none"
          /\ handle' = [ClosedHandles EXCEPT !["writer"] = "none"]
          /\ UNCHANGED <<pending, settled, dropped>>
     ELSE /\ pending' = <<>>
          /\ settled' = settled \o pending
          /\ dropped' = dropped \cup Range(pending)
          /\ Release("writer")
          /\ UNCHANGED conn

WriterConnectFails(err) ==
  /\ wpc = "connect" /\ err \in {"broken", "other"}
  /\ conn = "none"
  /\ Spend("faults")
  /\ HandleError(err)
  /\ UNCHANGED <<sharedVars, db, detached, cloud, aged, spc, clientVars,
                 ctlVars, accepted, lost, doubtful, unflagged>>

\* BEGIN IMMEDIATE under the op lock.
WriterBegins ==
  /\ wpc = "begin" /\ handle["writer"] = "live" /\ ~OpLockHeld
  /\ wpc' = "exec"
  /\ UNCHANGED <<sharedVars, dbVars, pending, txVars, aged, spc, clientVars,
                 ctlVars, left, history>>

\* Mutant of WriterExecutes: without BEGIN every statement commits by itself.
ExecutesAutocommit ==
  /\ wpc = "exec" /\ handle["writer"] = "live"
  /\ done < Len(pending)
  /\ LET w == pending[done + 1]
     IN  db' = IF w \in Updates THEN db ELSE Append(db, w)
  /\ done' = done + 1
  /\ UNCHANGED <<sharedVars, conn, handle, detached, cloud, tx, wpc, pending, tries,
                 aged, spc, clientVars, ctlVars, left, history>>

\* The loop over the batch knows two op types and passes over any other.
WriterExecutes ==
  /\ wpc = "exec" /\ handle["writer"] = "live"
  /\ done < Len(pending)
  /\ LET w == pending[done + 1]
     IN  tx' = IF w \in Updates THEN tx ELSE Append(tx, w)
  /\ done' = done + 1
  /\ UNCHANGED <<sharedVars, dbVars, wpc, pending, tries, aged, spc, clientVars,
                 ctlVars, left, history>>

WriterCommits ==
  /\ wpc = "exec" /\ handle["writer"] = "live"
  /\ done = Len(pending)
  /\ db' = db \o tx
  /\ wpc' = "mark" /\ done' = 0 /\ tx' = <<>> /\ tries' = 0
  /\ unflagged' = FALSE
  /\ UNCHANGED <<sharedVars, conn, handle, detached, cloud, pending, aged, spc,
                 clientVars, ctlVars, left, accepted, settled, dropped, lost, doubtful>>

\* A commit takes effect, but its answer is lost and an error raised instead.
CommitsUnheard == /\ wpc = "exec" /\ done = Len(pending)
                  /\ db' = db \o tx
                  /\ doubtful' = doubtful \cup Range(tx)

\* Why a transaction fails: the database or the network, an item the database
\* rejects, or a connection another thread has closed.
Raises(err) ==
  /\ wpc = "exec" \/ (wpc = "begin" /\ ~OpLockHeld)
  /\ \/ /\ handle["writer"] = "live" /\ Spend("faults")
        /\ CommitsUnheard \/ UNCHANGED <<db, doubtful>>
     \/ /\ handle["writer"] = "live" /\ wpc = "exec" /\ err = "other"
        /\ done < Len(pending) /\ pending[done + 1] \in BadWrites \ Updates
        /\ UNCHANGED <<db, doubtful, left>>
     \/ /\ handle["writer"] = "closed" /\ err \in {"broken", "other"}
        /\ UNCHANGED <<db, doubtful, left>>

\* Mutant of WriterRetries: the retry goes on where the last attempt failed.
RetryResumes(err) ==
  /\ err \in Retried /\ tries + 1 < MaxAttempts
  /\ Raises(err)
  /\ tries' = tries + 1
  /\ wpc' = "backoff" /\ tx' = <<>>
  /\ UNCHANGED <<sharedVars, conn, handle, detached, cloud, pending, done, aged, spc, clientVars,
                 ctlVars, accepted, settled, dropped, lost, unflagged>>

\* Mutant of WriterRetries: the retry forgets to roll back.
RetryKeepsTx(err) ==
  /\ err \in Retried /\ tries + 1 < MaxAttempts
  /\ Raises(err)
  /\ tries' = tries + 1
  /\ wpc' = "backoff" /\ done' = 0
  /\ UNCHANGED <<sharedVars, conn, handle, detached, cloud, pending, tx, aged, spc, clientVars,
                 ctlVars, accepted, settled, dropped, lost, unflagged>>

\* _execute_batch_writes_unlocked rolls back, the op lock is released; if the
\* error is one that is retried, wait ...
WriterRetries(err) ==
  /\ err \in Retried /\ tries + 1 < MaxAttempts
  /\ Raises(err)
  /\ tries' = tries + 1
  /\ wpc' = "backoff" /\ done' = 0 /\ tx' = <<>>
  /\ UNCHANGED <<sharedVars, conn, handle, detached, cloud, pending, aged, spc, clientVars,
                 ctlVars, accepted, settled, dropped, lost, unflagged>>

\* Mutant of WriterRaises: the position in the batch survives the error.
RaiseKeepsPosition(err) ==
  /\ ~(err \in Retried /\ tries + 1 < MaxAttempts)
  /\ Raises(err)
  /\ wpc' = err /\ tx' = <<>>
  /\ UNCHANGED <<sharedVars, conn, handle, detached, cloud, pending, done, tries, aged, spc, clientVars,
                 ctlVars, accepted, settled, dropped, lost, unflagged>>

\* ... otherwise give the batch back to the writer's loop.
WriterRaises(err) ==
  /\ ~(err \in Retried /\ tries + 1 < MaxAttempts)
  /\ Raises(err)
  /\ wpc' = err
  /\ done' = 0 /\ tx' = <<>>
  /\ UNCHANGED <<sharedVars, conn, handle, detached, cloud, pending, tries, aged, spc, clientVars,
                 ctlVars, accepted, settled, dropped, lost, unflagged>>

\* Either way _execute_batch_writes rolls back once more, without the op lock:
\* a transaction that another thread has open on the connection ends here.
RollsBackAgain == part' = IF handle["writer"] = "live" THEN {} ELSE part

\* Try the whole batch again.
WriterTriesAgain ==
  /\ wpc = "backoff"
  /\ RollsBackAgain
  /\ wpc' = "begin"
  /\ UNCHANGED <<sharedVars, dbVars, pending, txVars, aged, spc, cpc, item, fresh,
                 ctlVars, left, history>>

WriterFails(err) ==
  /\ wpc = err
  /\ RollsBackAgain
  /\ HandleError(err)
  /\ UNCHANGED <<sharedVars, db, detached, cloud, aged, spc, cpc, item, fresh,
                 ctlVars, left, accepted, lost, doubtful, unflagged>>

\* After the commit, outside every lock.
WriterMarks ==
  /\ wpc = "mark"
  /\ settled' = settled \o pending
  /\ pending' = <<>> /\ aged' = FALSE
  /\ needsSync' = TRUE /\ recent' = TRUE
  /\ wpc' = "top"
  /\ Release("writer")
  /\ UNCHANGED <<queue, stopWriter, stopSync, conn, db, detached, cloud, txVars,
                 spc, clientVars, ctlVars, left, accepted, dropped, lost, doubtful, unflagged>>

WriterStep == \/ WriterLeaves \/ WriterEnds \/ WriterTakes \/ WriterFlushes
              \/ WriterConnects \/ WriterBegins \/ WriterExecutes
              \/ WriterCommits \/ WriterMarks \/ WriterTriesAgain
              \/ \E err \in Errors : \/ WriterConnectFails(err)
                                     \/ WriterRetries(err)
                                     \/ WriterRaises(err)
                                     \/ WriterFails(err)

-----------------------------------------------------------------------------
(* The sync daemon *)

SyncWakes ==
  /\ spc = "idle" /\ ~stopSync
  /\ spc' = "check"
  /\ UNCHANGED <<sharedVars, dbVars, writerVars, clientVars, ctlVars, left, history>>

SyncEnds ==
  /\ spc = "idle" /\ stopSync
  /\ spc' = "off"
  /\ UNCHANGED <<sharedVars, dbVars, writerVars, clientVars, ctlVars, left, history>>

SyncSkips ==
  /\ spc = "check" /\ (~needsSync \/ recent)
  /\ spc' = "idle"
  /\ UNCHANGED <<sharedVars, dbVars, writerVars, clientVars, ctlVars, left, history>>

SyncConnects ==
  /\ spc = "check" /\ needsSync /\ ~recent
  /\ GetConn("sync")
  /\ spc' = "push"
  /\ UNCHANGED <<sharedVars, cloud, writerVars, clientVars, ctlVars,
                 accepted, settled, dropped, doubtful, unflagged>>

\* conn.sync() under the op lock.
SyncPushes ==
  /\ spc = "push" /\ handle["sync"] = "live" /\ ~OpLockHeld
  /\ cloud' = Len(db)
  /\ spc' = "reset"
  /\ UNCHANGED <<sharedVars, conn, handle, db, detached, writerVars, clientVars,
                 ctlVars, left, history>>

\* Mutant of SyncFails: the exception ends the daemon.
FailureEndsSync ==
  /\ spc = "push" /\ handle["sync"] # "none"
  /\ IF handle["sync"] = "closed" THEN UNCHANGED left ELSE ~OpLockHeld /\ Spend("faults")
  /\ spc' = "off"
  /\ Release("sync")
  /\ UNCHANGED <<sharedVars, conn, db, detached, cloud, writerVars, clientVars,
                 ctlVars, history>>

\* Any exception of the attempt: the flag stays set.  The frames may have
\* reached the cloud before the error was raised.
SyncFails ==
  /\ \/ /\ spc = "check" /\ needsSync /\ ~recent /\ conn = "none"
        /\ Spend("faults") /\ UNCHANGED cloud
     \/ /\ spc = "push" /\ handle["sync"] = "closed"
        /\ UNCHANGED <<cloud, left>>
     \/ /\ spc = "push" /\ handle["sync"] = "live" /\ ~OpLockHeld
        /\ Spend("faults") /\ cloud' \in {cloud, Len(db)}
  /\ spc' = "idle"
  /\ Release("sync")
  /\ UNCHANGED <<sharedVars, conn, db, detached, writerVars, clientVars,
                 ctlVars, history>>

\* _needs_sync = False, after the op lock was released.
SyncResets ==
  /\ spc = "reset"
  /\ needsSync' = FALSE
  /\ unflagged' = (Len(db) > cloud /\ wpc # "mark")
  /\ spc' = "idle"
  /\ Release("sync")
  /\ UNCHANGED <<queue, stopWriter, stopSync, recent, conn, db, detached, cloud, writerVars,
                 clientVars, ctlVars, left, accepted, settled, dropped, lost, doubtful>>

SyncStep == \/ SyncWakes \/ SyncEnds \/ SyncSkips \/ SyncConnects
            \/ SyncPushes \/ SyncFails \/ SyncResets

-----------------------------------------------------------------------------
(* The controller: process start and end, warm-up, recovery *)

\* init_concurrent_system at process start.
Boot ==
  /\ ctl = "down" /\ Spend("boots")
  /\ ctl' = "up"
  /\ StartWriter /\ StartSync
  /\ UNCHANGED <<queue, needsSync, recent, dbVars, pending, txVars, clientVars,
                 atStop, joined, history>>

\* _warmup_sync of a further profile: close the singleton, open it again,
\* start the daemons.
WarmupCloses ==
  /\ ctl = "up" /\ Spend("warmups")
  /\ ctl' = "warmup"
  /\ CloseConn
  /\ UNCHANGED <<sharedVars, db, detached, cloud, writerVars, spc, clientVars,
                 atStop, joined, history>>

\* A failure to open is caught and ignored.
WarmupOpens ==
  /\ ctl = "warmup"
  /\ \/ GetConn("ctl")
     \/ conn = "none" /\ Spend("faults") /\ UNCHANGED <<conn, handle, db, detached, lost>>
  /\ ctl' = "up"
  /\ StartWriter /\ StartSync
  /\ UNCHANGED <<queue, needsSync, recent, cloud, pending, txVars, clientVars,
                 atStop, joined, accepted, settled, dropped, doubtful, unflagged>>

\* cleanup_concurrent_system: stop the writer and wait, stop the sync daemon
\* and wait, close the singleton.
TellWriterToStop == /\ stopWriter' = TRUE
                    /\ atStop' = IF stopWriter THEN atStop ELSE Len(accepted)

CleanupStarts ==
  /\ ctl = "up" /\ Spend("cleanups")
  /\ TellWriterToStop
  /\ joined' = FALSE /\ ctl' = "cleanup_writer"
  /\ UNCHANGED <<queue, stopSync, needsSync, recent, dbVars, writerVars, spc,
                 clientVars, history>>

\* Mutant of CleanupStopsSync: a join without a time limit.
JoinsWithoutLimit ==
  /\ ctl = "cleanup_writer" /\ wpc = "off"
  /\ joined' = TRUE
  /\ stopSync' = TRUE /\ ctl' = "cleanup_sync"
  /\ UNCHANGED <<queue, stopWriter, needsSync, recent, dbVars, writerVars, spc,
                 clientVars, atStop, left, history>>

\* The join returned because the thread ended, or because its time was up.
CleanupStopsSync ==
  /\ ctl = "cleanup_writer"
  /\ joined' = (wpc = "off")
  /\ stopSync' = TRUE /\ ctl' = "cleanup_sync"
  /\ UNCHANGED <<queue, stopWriter, needsSync, recent, dbVars, writerVars, spc,
                 clientVars, atStop, left, history>>

CleanupCloses ==
  /\ ctl = "cleanup_sync"
  /\ CloseConn
  /\ ctl' = "leaving"
  /\ UNCHANGED <<sharedVars, db, detached, cloud, writerVars, spc, clientVars,
                 atStop, joined, left, history>>

\* What the end of the process takes with it: every thread is a daemon thread.
ProcessGone ==
  /\ queue' = <<>> /\ pending' = <<>>
  /\ stopWriter' = FALSE /\ stopSync' = FALSE
  /\ needsSync' = FALSE /\ recent' = FALSE
  /\ conn' = "none" /\ handle' = [a \in Actors |-> "none"]
  /\ wpc' = "off" /\ done' = 0 /\ tx' = <<>> /\ tries' = 0
  /\ aged' = FALSE /\ spc' = "off"
  /\ cpc' = [c \in Clients |-> "idle"] /\ item' = [c \in Clients |-> NoItem]
  /\ part' = {}
  /\ settled' = settled \o pending \o queue
  /\ lost' = lost \cup (Range(pending \o queue) \ Range(db))
  /\ UNCHANGED <<db, detached, cloud, fresh, accepted, dropped, doubtful, unflagged>>

Exit ==
  /\ ctl = "leaving"
  /\ ctl' = "exited"
  /\ ProcessGone
  /\ UNCHANGED <<atStop, joined, left>>

\* The process is killed (the web server never runs the clean-up).
Crash ==
  /\ Running /\ left.boots > 0
  /\ ctl' = "down"
  /\ ProcessGone
  /\ UNCHANGED <<atStop, joined, left>>

\* _attempt_auto_recovery: stop the sync daemon and wait, stop the writer and
\* wait, close the singleton, move the file aside, connect again.
RecoveryStarts ==
  /\ ctl = "up" /\ Spend("recoveries")
  /\ stopSync' = TRUE /\ ctl' = "recover_sync"
  /\ UNCHANGED <<queue, stopWriter, needsSync, recent, dbVars, writerVars, spc,
                 clientVars, atStop, joined, history>>

RecoveryStopsWriter ==
  /\ ctl = "recover_sync"
  /\ TellWriterToStop
  /\ joined' = FALSE /\ ctl' = "recover_writer"
  /\ UNCHANGED <<queue, stopSync, needsSync, recent, dbVars, writerVars, spc,
                 clientVars, left, history>>

RecoveryCloses ==
  /\ ctl = "recover_writer"
  /\ joined' = (wpc = "off")
  /\ CloseConn
  /\ ctl' = "recover_move"
  /\ UNCHANGED <<sharedVars, db, detached, cloud, writerVars, spc, clientVars,
                 atStop, left, history>>

\* _backup_broken_database_file fails only while another thread has the file open.
RecoveryMovesFile ==
  /\ ctl = "recover_move"
  /\ detached' = TRUE \/ (conn = "open" /\ UNCHANGED detached)
  /\ ctl' = "recover_open"
  /\ UNCHANGED <<sharedVars, conn, handle, db, cloud, writerVars, spc, clientVars,
                 atStop, joined, left, history>>

\* _get_conn(do_sync=True): the connection is synced as it is taken.
RecoveryOpens ==
  /\ ctl = "recover_open" /\ ~OpLockHeld
  /\ GetConn("ctl")
  /\ cloud' = Len(db')
  /\ ctl' = "up"
  /\ UNCHANGED <<sharedVars, writerVars, spc, clientVars, atStop, joined,
                 accepted, settled, dropped, doubtful, unflagged>>

RecoveryFails ==
  /\ ctl = "recover_open" /\ conn = "none" /\ Spend("faults")
  /\ ctl' = "up"
  /\ UNCHANGED <<sharedVars, dbVars, writerVars, spc, clientVars, atStop, joined,
                 history>>

CtlStep == \/ WarmupOpens \/ CleanupStopsSync \/ CleanupCloses \/ Exit
           \/ RecoveryStopsWriter \/ RecoveryCloses \/ RecoveryMovesFile
           \/ RecoveryOpens \/ RecoveryFails

-----------------------------------------------------------------------------
(* Time *)

\* A second has passed since the writer's last commit.
Tick == /\ wpc # "off" /\ ~aged
        /\ aged' = TRUE
        /\ UNCHANGED <<sharedVars, dbVars, wpc, pending, txVars, spc, clientVars,
                       ctlVars, left, history>>

\* Five seconds have passed since the last write.
Quiet == /\ recent
         /\ recent' = FALSE
         /\ UNCHANGED <<queue, stopWriter, stopSync, needsSync, dbVars, writerVars,
                        spc, clientVars, ctlVars, left, history>>

Next == \/ \E c \in Clients : ClientStep(c)
        \/ WriterStep \/ SyncStep \/ CtlStep
        \/ Boot \/ WarmupCloses \/ CleanupStarts \/ RecoveryStarts \/ Crash
        \/ HealthCheckFails \/ Tick \/ Quiet

Spec == Init /\ [][Next]_vars

\* Every thread the code starts keeps running, waits in the code are bounded,
\* and time passes.  Nothing makes a boot, a stop, a recovery or a crash happen.
Fairness == /\ \A c \in Clients : WF_vars(ClientContinues(c))
            /\ WF_vars(WriterStep)
            /\ WF_vars(SyncStep)
            /\ WF_vars(CtlStep)
            /\ WF_vars(Tick)
            /\ WF_vars(Quiet)

FairSpec == Spec /\ Fairness

-----------------------------------------------------------------------------
(* Properties *)

FlagsOK ==
  /\ stopWriter \in BOOLEAN /\ stopSync \in BOOLEAN
  /\ needsSync \in BOOLEAN /\ recent \in BOOLEAN
  /\ detached \in BOOLEAN /\ aged \in BOOLEAN /\ joined \in BOOLEAN

Bounds == {"faults", "boots", "cleanups", "recoveries", "warmups"}

StateOK ==
  /\ queue \in Seq(Writes) /\ pending \in Seq(Writes)
  /\ conn \in {"none", "open"}
  /\ handle \in [Actors -> {"none", "live", "closed"}]
  /\ db \in Seq(Items) /\ cloud \in 0 .. Len(db)
  /\ wpc \in {"off", "top", "connect", "begin", "exec", "backoff", "mark", "leaving"} \cup Errors
  /\ done \in 0 .. Len(pending) /\ tx \in Seq(Writes) /\ tries \in Nat
  /\ spc \in {"off", "idle", "check", "push", "reset"}
  /\ cpc \in [Clients -> {"idle", "put", "save", "inserted", "updated"}]
  /\ part \subseteq Statements
  /\ item \in [Clients -> Items \cup {NoItem}]
  /\ ctl \in {"down", "up", "warmup", "cleanup_writer", "cleanup_sync", "leaving",
              "exited", "recover_sync", "recover_writer", "recover_move", "recover_open"}
  /\ left \in [Bounds -> Nat]
  /\ fresh \subseteq Items /\ atStop \in Nat
  /\ accepted \in Seq(Writes) /\ settled \in Seq(Writes)
  /\ dropped \subseteq Writes /\ lost \subseteq Items
  /\ doubtful \subseteq Writes /\ unflagged \in BOOLEAN

\* The state has its type.
TypeOK == FlagsOK /\ StateOK

\* Every write the queue took is in exactly one place, and the writer is done
\* with them in the order they were taken: no write is skipped, handled twice
\* or overtaken, through retries, dropped batches, stops and restarts of the
\* writer (_writer_daemon, _start_writer_daemon).
HandledInOrder == accepted = settled \o pending \o queue

\* A write that the writer's loop executes and that the writer is done with is
\* in the database, unless its batch was given up or a crash or a rebuild
\* destroyed it: there is no other way to lose one (_writer_daemon's pending
\* batch is cleared only after a commit or on the drop branch).
SettledAccounted == Range(settled) \ Updates \subseteq Range(db) \cup dropped \cup lost

Earlier(v, w) == \E p, q \in DOMAIN accepted :
                   p < q /\ accepted[p] = v /\ accepted[q] = w

AppliesInOrder(log) ==
  \A i, j \in DOMAIN log :
    (i < j /\ log[i] \in Writes /\ log[j] \in Writes) =>
      \/ Earlier(log[i], log[j])
      \/ /\ log[i] \in doubtful
         /\ \E k \in j .. Len(log) : log[k] = log[i]

\* The database, and what the cloud holds of it, have applied queued writes
\* in the order the queue took them and none of them twice, although a batch
\* is retried on a fresh connection after an error and other threads commit in
\* between.  Only a write whose commit took effect and then raised can be
\* applied again, and then the writes that follow it in the queue are applied
\* again behind it: the last application of each write is in order
\* (_execute_batch_writes, the kept batch of _writer_daemon).
AppliedInOrder == AppliesInOrder(db) /\ AppliesInOrder(SubSeq(db, 1, cloud))

\* When a stop finds the writer ended, every write accepted before the writer
\* was told to stop has been dealt with: it has left neither a batch nor a
\* queue behind (_stop_writer_daemon, the loop's exit test).
DrainedOnJoin ==
  (ctl \in {"cleanup_sync", "recover_move"} /\ joined) => atStop <= Len(settled)

\* The writes no commit has decided yet, oldest first.
Line == IF wpc = "mark" THEN queue ELSE pending \o queue

\* The engine keeps the promise of WriteLog: a batch leaves the line as one
\* piece from its front, what the cloud holds is never taken back, and nothing
\* committed disappears except by a rebuild from the cloud.
Log == INSTANCE WriteLog WITH
         Skipped   <- Updates,
         waiting   <- Line,
         committed <- db,
         published <- cloud
KeepsLog == Log!LogSpec

\* Every accepted write is decided while nobody stops the daemons.
AcceptedDecided == \A w \in Writes :
  (w \in Range(accepted)) ~> (w \in Range(settled))

\* A write that the writer committed reaches the cloud while the daemons run,
\* however many pushes fail before, unless the sync daemon lowers the flag over
\* it: a write committed between a push and the reset of _needs_sync, which is
\* outside the op lock, waits for the next commit (_writer_daemon, _sync_daemon).
CommittedReachCloud == \A w \in Writes :
  (wpc = "mark" /\ w \in Range(pending) \ Updates)
    ~> (w \in Range(SubSeq(db, 1, cloud)) \/ unflagged \/ stopSync \/ ~Running)

\* An orderly shutdown ends, whatever the daemons are doing and whoever still
\* enqueues (cleanup_concurrent_system).
ShutdownEnds == (ctl = "cleanup_writer") ~> (ctl \in {"exited", "down"})

=============================================================================
