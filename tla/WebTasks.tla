------------------------------- MODULE WebTasks -------------------------------
(***************************************************************************)
(* The heavy tasks of one profile in the web backend: the profile lock     *)
(* (web/backend/lock.py), the two-phase submission that takes it           *)
(* (web/backend/routers/study.py), the task registry with its thread pool  *)
(* and event queues (web/backend/tasks.py), and the event streams that     *)
(* browsers read (web/backend/routers/tasks.py).                           *)
(*                                                                         *)
(* Request handlers, the callbacks that fill the event queues and the      *)
(* stream generators all run on the event loop, one at a time: "loop" is   *)
(* one actor.  Every task body runs on a pool thread and interleaves with  *)
(* the loop; a task stands for the pool thread that runs it.  The threads  *)
(* of AI calls and of the cloud sync are others that log.  Emitting an     *)
(* event takes two steps, because the sequence number is given under the   *)
(* registry's lock and the callback is posted after the lock is released.  *)
(***************************************************************************)
EXTENDS Naturals, Sequences, FiniteSets, Functions

CONSTANTS
  Tasks,         \* task ids, each used for one submission
  NoTask,        \* no task id
  Pending,       \* PROFILE_LOCK_PLACEHOLDER
  Streams,       \* event-stream connections, numbered in the order they may open
  Others,        \* threads that log for the profile and run no task
  PoolSize,      \* max_workers of the thread pool
  QueueCap,      \* max_queue_size of an event queue
  HistoryLimit,  \* _EVENT_HISTORY_LIMIT
  MaxCancels,    \* bound: cancel requests
  MaxLogs,       \* bound: log events
  MaxFaults,     \* bound: failures before a task body is entered
  MaxOpens,      \* bound: stream connections opened
  MaxStops       \* bound: shutdowns, 0 or 1

ASSUME NamesAssumption == /\ NoTask \notin Tasks
                          /\ Pending \notin Tasks \cup {NoTask}
                          /\ "loop" \notin Tasks \cup Others
                          /\ Tasks \cap Others = {}
ASSUME SizesAssumption == /\ PoolSize \in Nat \ {0}
                          /\ QueueCap \in Nat \ {0}
                          /\ Streams \subseteq Nat
                          /\ HistoryLimit \in Nat \ {0}
                          /\ {MaxCancels, MaxLogs, MaxFaults, MaxOpens, MaxStops} \subseteq Nat

VARIABLES
  lock,       \* the task whose submission took the threading.Lock, or NoTask
  holder,     \* _profile_lock_holders: a task id, Pending or NoTask
  submitting, \* the task the loop is submitting, or NoTask
  status,     \* TaskRecord.status; "new": there is no record yet
  cancelReq,  \* TaskRecord.cancel_requested
  context,    \* the task id in the logger's context, or NoTask
  wpc,        \* where the pool thread of a task is
  raised,     \* the task body or its preparation raised an exception
  emit,       \* per actor: the event it is emitting; seq 0: not numbered yet
  nextSeq,    \* TaskRecord.next_event_seq
  events,     \* TaskRecord.event_history
  posted,     \* callbacks scheduled on the loop, in order
  eq,         \* TaskRecord.event_queue
  stream,     \* per connection: its state, task and last_event_seq
  down,       \* the application is shutting down
  left,       \* what remains of each bound
  ran,        \* history: tasks whose body was entered
  early,      \* history: tasks canceled while pending
  heard,      \* history: events sent on a connection
  stolen,     \* history: events another connection took meanwhile
  late,       \* history: connections opened after the verdict was out of reach
  missed,     \* history: events that found their queue full
  pushed      \* history: events that a status event pushed out of a full queue

lockVars   == <<lock, holder>>
recVars    == <<status, cancelReq>>
threadVars == <<wpc, raised>>
eventVars  == <<nextSeq, events>>
streamVars == <<stream, heard, stolen, late>>
vars == <<lockVars, submitting, recVars, context, threadVars, emit, eventVars, posted, eq,
          streamVars, down, left, ran, early, missed, pushed>>

Actors   == Tasks \cup {"loop"} \cup Others
Verdicts == {"done", "error", "canceled"}           \* terminal states
Status   == Verdicts \cup {"running", "cancelling"} \* kinds of status events
Kinds    == Status \cup {"log"}
NoEvent  == [task |-> NoTask, kind |-> "log", seq |-> 0, from |-> "loop"]
LoopFree == submitting = NoTask /\ emit["loop"] = NoEvent
Busy     == {t \in Tasks : wpc[t] \notin {"none", "queued", "withdrawn", "ended"}
                           \/ emit[t] # NoEvent}

Init ==
  /\ lock = NoTask /\ holder = NoTask /\ submitting = NoTask
  /\ status = [t \in Tasks |-> "new"] /\ cancelReq = [t \in Tasks |-> FALSE]
  /\ context = NoTask
  /\ wpc = [t \in Tasks |-> "none"] /\ raised = [t \in Tasks |-> FALSE]
  /\ emit = [a \in Actors |-> NoEvent]
  /\ nextSeq = [t \in Tasks |-> 1] /\ events = [t \in Tasks |-> <<>>]
  /\ posted = <<>> /\ eq = [t \in Tasks |-> <<>>]
  /\ stream = [s \in Streams |-> [state |-> "closed", task |-> NoTask, last |-> 0]]
  /\ down = FALSE
  /\ left = [cancels |-> MaxCancels, logs |-> MaxLogs, faults |-> MaxFaults,
             opens |-> MaxOpens, stops |-> MaxStops]
  /\ ran = {} /\ early = {} /\ missed = {} /\ pushed = {}
  /\ heard = [s \in Streams |-> {}] /\ stolen = [s \in Streams |-> {}] /\ late = {}

Spend(kind) == left[kind] > 0 /\ left' = [left EXCEPT ![kind] = @ - 1]

-----------------------------------------------------------------------------
(* Emitting an event: TaskRegistry._emit_event *)

Emits(a, t, kind) == emit' = [emit EXCEPT ![a] = [task |-> t, kind |-> kind, seq |-> 0, from |-> a]]

\* _EVENT_HISTORY_LIMIT: the oldest events are deleted.
Kept(h) == IF Len(h) > HistoryLimit THEN SubSeq(h, Len(h) - HistoryLimit + 1, Len(h)) ELSE h

\* Under the registry's lock: number the event and append it to the history.
Record(a) ==
  /\ emit[a] # NoEvent /\ emit[a].seq = 0
  /\ LET t == emit[a].task
         e == [emit[a] EXCEPT !.seq = nextSeq[t]]
     IN  /\ emit' = [emit EXCEPT ![a] = e]
         /\ nextSeq' = [nextSeq EXCEPT ![t] = @ + 1]
         /\ events' = [events EXCEPT ![t] = Kept(Append(@, e))]
  /\ UNCHANGED <<lockVars, submitting, recVars, context, threadVars, posted, eq, streamVars,
                 down, left, ran, early, missed, pushed>>

\* _put_event_sync: call_soon_threadsafe, after the lock was released.
Post(a) ==
  /\ emit[a] # NoEvent /\ emit[a].seq > 0
  /\ posted' = Append(posted, emit[a])
  /\ emit' = [emit EXCEPT ![a] = NoEvent]
  /\ UNCHANGED <<lockVars, submitting, recVars, context, threadVars, eventVars, eq, streamVars,
                 down, left, ran, early, missed, pushed>>

\* Mutant: status events enter a full queue as well.
EnqueueBeyond ==
  /\ LoopFree /\ posted # <<>>
  /\ posted' = Tail(posted)
  /\ LET e == Head(posted)
         q == eq[e.task]
     IN  \/ /\ Len(q) < QueueCap \/ e.kind \in Status
            /\ eq' = [eq EXCEPT ![e.task] = Append(q, e)]
            /\ UNCHANGED <<missed, pushed>>
         \/ /\ Len(q) = QueueCap /\ e.kind \notin Status
            /\ missed' = missed \cup {e}
            /\ UNCHANGED <<eq, pushed>>
  /\ UNCHANGED <<lockVars, submitting, recVars, context, threadVars, emit, eventVars, streamVars,
                 down, left, ran, early>>

\* Mutant: a full queue drops status events like any other.
EnqueueDropsAll ==
  /\ LoopFree /\ posted # <<>>
  /\ posted' = Tail(posted)
  /\ LET e == Head(posted)
         q == eq[e.task]
     IN  \/ /\ Len(q) < QueueCap
            /\ eq' = [eq EXCEPT ![e.task] = Append(q, e)]
            /\ UNCHANGED <<missed, pushed>>
         \/ /\ Len(q) = QueueCap
            /\ missed' = missed \cup {e}
            /\ UNCHANGED <<eq, pushed>>
  /\ UNCHANGED <<lockVars, submitting, recVars, context, threadVars, emit, eventVars, streamVars,
                 down, left, ran, early>>

\* The callback: a full queue drops the event, but pushes out its oldest one
\* for a status event.
Enqueue ==
  /\ LoopFree /\ posted # <<>>
  /\ posted' = Tail(posted)
  /\ LET e == Head(posted)
         q == eq[e.task]
     IN  \/ /\ Len(q) < QueueCap
            /\ eq' = [eq EXCEPT ![e.task] = Append(q, e)]
            /\ UNCHANGED <<missed, pushed>>
         \/ /\ Len(q) = QueueCap /\ e.kind \in Status
            /\ eq' = [eq EXCEPT ![e.task] = Append(Tail(q), e)]
            /\ pushed' = pushed \cup {Head(q)}
            /\ UNCHANGED missed
         \/ /\ Len(q) = QueueCap /\ e.kind \notin Status
            /\ missed' = missed \cup {e}
            /\ UNCHANGED <<eq, pushed>>
  /\ UNCHANGED <<lockVars, submitting, recVars, context, threadVars, emit, eventVars, streamVars,
                 down, left, ran, early>>

-----------------------------------------------------------------------------
(* Submitting: _submit_with_profile_lock, on the loop *)

\* claim_profile_lock_with_placeholder; a refused request changes nothing.
Claims(t) ==
  /\ LoopFree /\ ~down /\ status[t] = "new"
  /\ holder = NoTask /\ lock = NoTask
  /\ lock' = t /\ holder' = Pending /\ submitting' = t
  /\ UNCHANGED <<recVars, context, threadVars, emit, eventVars, posted, eq, streamVars, down, left,
                 ran, early, missed, pushed>>

\* TaskRegistry.submit: a record, and its wrapper in the executor's queue.
Submits(t) ==
  /\ submitting = t /\ status[t] = "new"
  /\ status' = [status EXCEPT ![t] = "pending"]
  /\ wpc' = [wpc EXCEPT ![t] = "queued"]
  /\ UNCHANGED <<lockVars, submitting, cancelReq, context, raised, emit, eventVars, posted, eq,
                 streamVars, down, left, ran, early, missed, pushed>>

\* update_profile_lock_holder, whatever has become of the lock.
NamesHolder(t) ==
  /\ submitting = t /\ status[t] # "new"
  /\ holder' = t /\ submitting' = NoTask
  /\ UNCHANGED <<lock, recVars, context, threadVars, emit, eventVars, posted, eq, streamVars, down,
                 left, ran, early, missed, pushed>>

-----------------------------------------------------------------------------
(* Canceling and shutting down, on the loop *)

\* Mutant: the record is marked, but the request is not.
CancelsUnflagged(t) ==
  /\ LoopFree /\ status[t] = "pending" /\ Spend("cancels")
  /\ status' = [status EXCEPT ![t] = "canceled"]
  /\ early' = early \cup {t}
  /\ Emits("loop", t, "canceled")
  /\ UNCHANGED <<lockVars, submitting, cancelReq, context, threadVars, eventVars, posted, eq,
                 streamVars, down, ran, missed, pushed>>

\* TaskRegistry.cancel of a task no thread has begun; Future.cancel works
\* until a pool thread has picked the task.
CancelsPending(t) ==
  /\ LoopFree /\ status[t] = "pending" /\ Spend("cancels")
  /\ cancelReq' = [cancelReq EXCEPT ![t] = TRUE]
  /\ status' = [status EXCEPT ![t] = "canceled"]
  /\ wpc' = [wpc EXCEPT ![t] = IF @ = "queued" THEN "withdrawn" ELSE @]
  /\ early' = early \cup {t}
  /\ Emits("loop", t, "canceled")
  /\ UNCHANGED <<lockVars, submitting, context, raised, eventVars, posted, eq, streamVars,
                 down, ran, missed, pushed>>

\* Mutant: the lock is freed for the next task at once.
CancelFrees(t) ==
  /\ LoopFree /\ status[t] = "running" /\ Spend("cancels")
  /\ cancelReq' = [cancelReq EXCEPT ![t] = TRUE]
  /\ lock' = NoTask /\ holder' = NoTask
  /\ Emits("loop", t, "cancelling")
  /\ UNCHANGED <<submitting, status, context, threadVars, eventVars, posted, eq, streamVars, down,
                 ran, early, missed, pushed>>

\* TaskRegistry.cancel of a running task: it is only asked.
CancelsRunning(t) ==
  /\ LoopFree /\ status[t] = "running" /\ Spend("cancels")
  /\ cancelReq' = [cancelReq EXCEPT ![t] = TRUE]
  /\ Emits("loop", t, "cancelling")
  /\ UNCHANGED <<lockVars, submitting, status, context, threadVars, eventVars, posted, eq,
                 streamVars, down, ran, early, missed, pushed>>

\* cleanup_all ... shutdown(wait=False, cancel_futures=True): what waits in the
\* executor is withdrawn, its record stays pending.
Shutdown ==
  /\ LoopFree /\ ~down /\ Spend("stops")
  /\ down' = TRUE
  /\ wpc' = [t \in Tasks |-> IF wpc[t] = "queued" THEN "withdrawn" ELSE wpc[t]]
  /\ UNCHANGED <<lockVars, submitting, recVars, context, raised, emit, eventVars, posted, eq,
                 streamVars, ran, early, missed, pushed>>

-----------------------------------------------------------------------------
(* The pool thread of a task: _wrapper around _locked_run *)

\* The wrapper first puts its task id into the logger's context, which all
\* threads share and nobody clears.
Picks(t) ==
  /\ wpc[t] = "queued" /\ Cardinality(Busy) < PoolSize
  /\ wpc' = [wpc EXCEPT ![t] = "picked"]
  /\ context' = t
  /\ UNCHANGED <<lockVars, submitting, recVars, raised, emit, eventVars, posted, eq,
                 streamVars, down, left, ran, early, missed, pushed>>

\* Mutant: the cancel request is not looked at before the body.
StartsRegardless(t) ==
  /\ wpc[t] = "picked"
  /\ status' = [status EXCEPT ![t] = "running"]
  /\ wpc' = [wpc EXCEPT ![t] = "starting"]
  /\ UNCHANGED <<lockVars, submitting, cancelReq, context, raised, emit, eventVars, posted,
                 eq, streamVars, down, left, ran, early, missed, pushed>>

\* The record is "running", even if it was canceled before; the request is
\* read in the same critical section.
Starts(t) ==
  /\ wpc[t] = "picked"
  /\ status' = [status EXCEPT ![t] = "running"]
  /\ wpc' = [wpc EXCEPT ![t] = IF cancelReq[t] THEN "stopping" ELSE "starting"]
  /\ UNCHANGED <<lockVars, submitting, cancelReq, context, raised, emit, eventVars, posted,
                 eq, streamVars, down, left, ran, early, missed, pushed>>

\* The start is logged before it is announced.
Announces(t) ==
  /\ wpc[t] \in {"starting", "stopping"} /\ emit[t] = NoEvent
  /\ wpc' = [wpc EXCEPT ![t] = IF @ = "stopping" THEN "canceled" ELSE "entering"]
  /\ Emits(t, t, "running")
  /\ UNCHANGED <<lockVars, submitting, recVars, context, raised, eventVars, posted, eq,
                 streamVars, down, left, ran, early, missed, pushed>>

\* if cancel_requested: return, without entering _locked_run.
StopsEarly(t) ==
  /\ wpc[t] = "canceled" /\ emit[t] = NoEvent
  /\ status' = [status EXCEPT ![t] = "canceled"]
  /\ wpc' = [wpc EXCEPT ![t] = "ended"]
  /\ Emits(t, t, "canceled")
  /\ UNCHANGED <<lockVars, submitting, cancelReq, context, raised, eventVars, posted, eq,
                 streamVars, down, left, ran, early, missed, pushed>>

\* Getting the user context raises before the try of _locked_run.
PreparationFails(t) ==
  /\ wpc[t] = "entering" /\ emit[t] = NoEvent /\ Spend("faults")
  /\ raised' = [raised EXCEPT ![t] = TRUE]
  /\ wpc' = [wpc EXCEPT ![t] = "finishing"]
  /\ UNCHANGED <<lockVars, submitting, recVars, context, emit, eventVars, posted, eq, streamVars,
                 down, ran, early, missed, pushed>>

EntersBody(t) ==
  /\ wpc[t] = "entering" /\ emit[t] = NoEvent
  /\ wpc' = [wpc EXCEPT ![t] = "body"]
  /\ ran' = ran \cup {t}
  /\ UNCHANGED <<lockVars, submitting, recVars, context, raised, emit, eventVars, posted, eq,
                 streamVars, down, left, early, missed, pushed>>

\* Mutant: a body that raised keeps the lock (no finally).
LeavesBodyKeeping(t) ==
  /\ wpc[t] = "body" /\ emit[t] = NoEvent
  /\ \E failed \in BOOLEAN :
       /\ raised' = [raised EXCEPT ![t] = failed]
       /\ wpc' = [wpc EXCEPT ![t] = IF failed THEN "finishing" ELSE "releasing"]
       /\ holder' = IF failed THEN holder ELSE NoTask
  /\ UNCHANGED <<lock, submitting, recVars, context, emit, eventVars, posted, eq, streamVars, down,
                 left, ran, early, missed, pushed>>

\* The body returns or raises; release_profile_lock first forgets the holder.
LeavesBody(t) ==
  /\ wpc[t] = "body" /\ emit[t] = NoEvent
  /\ \E failed \in BOOLEAN : raised' = [raised EXCEPT ![t] = failed]
  /\ wpc' = [wpc EXCEPT ![t] = "releasing"]
  /\ holder' = NoTask
  /\ UNCHANGED <<lock, submitting, recVars, context, emit, eventVars, posted, eq, streamVars, down,
                 left, ran, early, missed, pushed>>

\* lock.release() after the guard; it is harmless on a free lock.
Releases(t) ==
  /\ wpc[t] = "releasing"
  /\ lock' = NoTask
  /\ wpc' = [wpc EXCEPT ![t] = "finishing"]
  /\ UNCHANGED <<holder, submitting, recVars, context, raised, emit, eventVars, posted, eq,
                 streamVars, down, left, ran, early, missed, pushed>>

Verdict(t) == IF cancelReq[t] THEN "canceled" ELSE IF raised[t] THEN "error" ELSE "done"

\* Mutant: a canceled body that raised is not recorded as over.
FinishesQuietly(t) ==
  /\ wpc[t] = "finishing"
  /\ wpc' = [wpc EXCEPT ![t] = "ended"]
  /\ IF cancelReq[t] /\ raised[t]
     THEN UNCHANGED <<status, emit>>
     ELSE /\ status' = [status EXCEPT ![t] = Verdict(t)]
          /\ Emits(t, t, Verdict(t))
  /\ UNCHANGED <<lockVars, submitting, cancelReq, context, raised, eventVars, posted, eq,
                 streamVars, down, left, ran, early, missed, pushed>>

\* The record and the event get the verdict in one critical section.
Finishes(t) ==
  /\ wpc[t] = "finishing"
  /\ status' = [status EXCEPT ![t] = Verdict(t)]
  /\ wpc' = [wpc EXCEPT ![t] = "ended"]
  /\ Emits(t, t, Verdict(t))
  /\ UNCHANGED <<lockVars, submitting, cancelReq, context, raised, eventVars, posted, eq,
                 streamVars, down, left, ran, early, missed, pushed>>

-----------------------------------------------------------------------------
(* Log lines: the proxy that LoggerBridge puts around the logger *)

\* Any thread that logs emits to the task that the context names, also when the
\* task is another's or is over: its own thread, the loop in a request handler,
\* a thread of AI calls, the sync worker.
Logs(a) ==
  /\ context # NoTask /\ emit[a] = NoEvent /\ Spend("logs")
  /\ a = "loop" => LoopFree
  /\ a \in Tasks => wpc[a] \in {"starting", "stopping", "entering", "body"}
  /\ Emits(a, context, "log")
  /\ UNCHANGED <<lockVars, submitting, recVars, context, threadVars, eventVars, posted, eq,
                 streamVars, down, ran, early, missed, pushed>>

-----------------------------------------------------------------------------
(* Event streams: task_events and TaskRegistry.subscribe, on the loop *)

\* No queue or history has a verdict of t to send any more.
OutOfReach(t) ==
  /\ status[t] \in Verdicts
  /\ \A e \in Range(events[t]) \cup Range(eq[t]) \cup Range(posted) \cup Range(emit) :
       e.task = t => e.kind \notin Verdicts

\* A new connection takes the lowest number that is free.
NextFree(s) == stream[s].state = "closed" /\ \A r \in Streams : stream[r].state = "closed" => r >= s

\* Mutant: the replay is taken for complete up to the latest number given.
OpensAtLatest(s, t) ==
  /\ LoopFree /\ NextFree(s) /\ status[t] # "new" /\ Spend("opens")
  /\ stream' = [stream EXCEPT ![s] = [state |-> "live", task |-> t, last |-> nextSeq[t]]]
  /\ heard' = [heard EXCEPT ![s] = Range(events[t])]
  /\ late' = IF OutOfReach(t) THEN late \cup {s} ELSE late \ {s}
  /\ UNCHANGED <<lockVars, submitting, recVars, context, threadVars, emit, eventVars, posted,
                 eq, stolen, down, ran, early, missed, pushed>>

\* The generator replays the history, then subscribes to the queue.
Opens(s, t) ==
  /\ LoopFree /\ NextFree(s) /\ status[t] # "new" /\ Spend("opens")
  /\ stream' = [stream EXCEPT ![s] = [state |-> "live", task |-> t,
                  last |-> IF events[t] = <<>> THEN 0 ELSE events[t][Len(events[t])].seq]]
  /\ heard' = [heard EXCEPT ![s] = Range(events[t])]
  /\ late' = IF OutOfReach(t) THEN late \cup {s} ELSE late \ {s}
  /\ UNCHANGED <<lockVars, submitting, recVars, context, threadVars, emit, eventVars, posted,
                 eq, stolen, down, ran, early, missed, pushed>>

\* Take an event from the task's only queue; send it unless its number was
\* reached before; a verdict ends the subscription, sent or not.  No other
\* connection to the task gets the event.
Hears(s) ==
  /\ LoopFree /\ stream[s].state = "live" /\ eq[stream[s].task] # <<>>
  /\ LET t == stream[s].task
         e == Head(eq[t])
         new == e.seq > stream[s].last
     IN  /\ eq' = [eq EXCEPT ![t] = Tail(@)]
         /\ heard' = [heard EXCEPT ![s] = IF new THEN @ \cup {e} ELSE @]
         /\ stream' = [stream EXCEPT ![s] =
                         [state |-> IF e.kind \in Verdicts THEN "ended" ELSE "live",
                          task |-> t, last |-> IF new THEN e.seq ELSE @.last]]
         /\ stolen' = [x \in Streams |-> IF x # s /\ stream[x].state = "live" /\ stream[x].task = t
                                         THEN stolen[x] \cup {e} ELSE stolen[x]]
  /\ UNCHANGED <<lockVars, submitting, recVars, context, threadVars, emit, eventVars, posted,
                 late, down, left, ran, early, missed, pushed>>

\* The browser goes away, or is told that the stream is over.
Leaves(s) ==
  /\ LoopFree /\ stream[s].state # "closed"
  /\ stream' = [stream EXCEPT ![s] = [state |-> "closed", task |-> NoTask, last |-> 0]]
  /\ heard' = [heard EXCEPT ![s] = {}] /\ stolen' = [stolen EXCEPT ![s] = {}]
  /\ late' = late \ {s}
  /\ UNCHANGED <<lockVars, submitting, recVars, context, threadVars, emit, eventVars, posted,
                 eq, down, left, ran, early, missed, pushed>>

-----------------------------------------------------------------------------

Request(t) == Claims(t) \/ CancelsPending(t) \/ CancelsRunning(t)
Submission(t) == Submits(t) \/ NamesHolder(t)
Thread(t)  == \/ Picks(t) \/ Starts(t) \/ Announces(t) \/ StopsEarly(t)
              \/ PreparationFails(t) \/ EntersBody(t) \/ LeavesBody(t) \/ Releases(t) \/ Finishes(t)
Emission(a) == Record(a) \/ Post(a)

Next == \/ \E t \in Tasks : Request(t) \/ Submission(t) \/ Thread(t)
        \/ \E a \in Actors : Emission(a) \/ Logs(a)
        \/ Enqueue \/ Shutdown
        \/ \E s \in Streams, t \in Tasks : Opens(s, t)
        \/ \E s \in Streams : Hears(s) \/ Leaves(s)

Spec == Init /\ [][Next]_vars

\* Pool threads run, the loop runs its callbacks and generators, and task
\* bodies end.  Nobody has to send a request or to stay connected.
Fairness == /\ \A t \in Tasks : WF_vars(Thread(t)) /\ WF_vars(Submission(t))
            /\ \A a \in Actors : WF_vars(Emission(a))
            /\ WF_vars(Enqueue)
            /\ \A s \in Streams : WF_vars(Hears(s))
FairSpec == Spec /\ Fairness

-----------------------------------------------------------------------------
(* Properties *)

Event == [task : Tasks, kind : Kinds, seq : Nat, from : Actors]
StreamState == [state : {"closed", "live", "ended"}, task : Tasks \cup {NoTask}, last : Nat]
ThreadState == {"none", "queued", "withdrawn", "picked", "starting", "stopping", "canceled",
                "entering", "body", "releasing", "finishing", "ended"}

\* The type of every variable.
TypeOK ==
  /\ lock \in Tasks \cup {NoTask} /\ holder \in Tasks \cup {NoTask, Pending}
  /\ submitting \in Tasks \cup {NoTask}
  /\ status \in [Tasks -> Verdicts \cup {"new", "pending", "running"}]
  /\ cancelReq \in [Tasks -> BOOLEAN] /\ raised \in [Tasks -> BOOLEAN]
  /\ wpc \in [Tasks -> ThreadState] /\ context \in Tasks \cup {NoTask}
  /\ emit \in [Actors -> Event \cup {NoEvent}]
  /\ nextSeq \in [Tasks -> Nat] /\ events \in [Tasks -> Seq(Event)]
  /\ posted \in Seq(Event) /\ eq \in [Tasks -> Seq(Event)]
  /\ \A t \in Tasks : Len(eq[t]) <= QueueCap /\ Len(events[t]) <= HistoryLimit
  /\ stream \in [Streams -> StreamState]
  /\ down \in BOOLEAN
  /\ left \in [{"cancels", "logs", "faults", "opens", "stops"} -> Nat]
  /\ ran \subseteq Tasks /\ early \subseteq Tasks
  /\ heard \in [Streams -> SUBSET Event] /\ stolen \in [Streams -> SUBSET Event]
  /\ late \subseteq Streams /\ missed \subseteq Event /\ pushed \subseteq Event

\* Two heavy tasks of one profile never run at the same time, whichever of
\* their submissions, cancellations and releases overlap (profile lock).
OneTaskRuns == \A t, u \in Tasks : wpc[t] = "body" /\ wpc[u] = "body" => t = u

\* A task that was canceled before a thread had begun it never enters its
\* body, however the request races with the pool (TaskRegistry.cancel).
CanceledNeverRuns == early \cap ran = {}

\* Whoever reads the status events of a task, replayed or live, never meets two
\* different verdicts, and a task whose thread is through has the verdict that
\* was announced.
Announced(t) == {e.kind : e \in {x \in Range(events[t]) \cup Range(eq[t]) : x.kind \in Verdicts}}
VerdictsAgree ==
  \A t \in Tasks : /\ Cardinality(Announced(t)) <= 1
                   /\ wpc[t] = "ended" => Announced(t) \subseteq {status[t]}

\* Between replay and live events a browser misses nothing silently: on a live
\* stream, an event of the history was sent, or is still on its way, or fell
\* victim to the full queue, or went to another connection of the same task, or
\* was overtaken by a later-numbered event of another thread, which was sent:
\* the events of one thread stay in order.
OnItsWay(e) == e \in Range(posted) \cup Range(eq[e.task]) \cup Range(emit)
Overtaken(e, s) == \E f \in heard[s] : f.seq > e.seq /\ f.from # e.from
GapsExplained ==
  \A s \in Streams :
    stream[s].state = "live" =>
      \A e \in Range(events[stream[s].task]) :
        \/ e \in heard[s] \cup stolen[s] \cup missed \cup pushed
        \/ OnItsWay(e) \/ Overtaken(e, s)

\* A task whose body was entered gives the lock of the profile back, also when
\* the body raises or the task is canceled meanwhile (finally in _locked_run).
LockComesBack == \A t \in Tasks : (t \in ran) ~> (lock # t)

\* Every submitted task reaches a verdict, unless the application goes down.
TaskEnds == \A t \in Tasks : (status[t] = "pending") ~> (status[t] \in Verdicts \/ down)

\* A browser that is connected when the task has its verdict, or that connects
\* later, is sent the verdict or disconnected, and not left watching a task that
\* is over.  There are three ways out of this, which the code has: later log
\* lines had pushed the verdict out of the history before it connected, a late
\* status event pushed it out of a full queue, or another connection took it.
Watches(s, t) == stream[s].state = "live" /\ stream[s].task = t
Told(s, t) == \E e \in heard[s] : e.task = t /\ e.kind \in Verdicts
Lost(s, t) == \E e \in pushed \cup stolen[s] : e.task = t /\ e.kind \in Verdicts
StreamTells ==
  \A s \in Streams, t \in Tasks :
    (Watches(s, t) /\ status[t] \in Verdicts /\ wpc[t] \in {"ended", "withdrawn"})
      ~> (Told(s, t) \/ ~Watches(s, t) \/ s \in late \/ Lost(s, t))

=============================================================================
