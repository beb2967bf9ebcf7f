--------------------------- MODULE WebTasks_proofs ---------------------------
(***************************************************************************)
(* Theorems of WebTasks, for any number of tasks, connections, threads,    *)
(* events and requests: the profile lock excludes two bodies at once, a    *)
(* task canceled in time never runs, its verdicts agree, and no reader     *)
(* misses an event without a reason.                                       *)
(***************************************************************************)
EXTENDS WebTasks, SequenceTheorems, FiniteSetTheorems, TLAPS

-----------------------------------------------------------------------------
(* The inductive invariant *)

\* The part of the type invariant that the argument needs.
Typed == /\ wpc \in [Tasks -> ThreadState]
         /\ status \in [Tasks -> Verdicts \cup {"new", "pending", "running"}]
         /\ cancelReq \in [Tasks -> BOOLEAN]
         /\ submitting \in Tasks \cup {NoTask}

\* Who is being submitted or has a thread that has not released yet still owns
\* the lock.
NeedsLock(t) == wpc[t] \in {"queued", "picked", "starting", "entering", "body", "releasing"}
LockKept == /\ \A t \in Tasks : NeedsLock(t) => lock = t
            /\ \A t \in Tasks : submitting = t /\ status[t] = "new" => lock = t

\* A record that no thread has begun: where its thread can be.
RecordKept == \A t \in Tasks :
  /\ status[t] = "new" => wpc[t] = "none" /\ t \notin ran
  /\ status[t] = "pending" => wpc[t] \in {"queued", "picked", "withdrawn"} /\ t \notin ran

\* A task canceled while pending: where its thread can be.
EarlyKept == \A t \in early :
  /\ t \in Tasks /\ cancelReq[t] /\ t \notin ran
  /\ wpc[t] \in {"withdrawn", "picked", "stopping", "canceled", "ended"}

IInv == Typed /\ LockKept /\ RecordKept /\ EarlyKept

\* The steps that move none of the variables of the invariant.
Aside == \/ \E a \in Actors : Emission(a) \/ Logs(a)
         \/ Enqueue
         \/ \E t \in Tasks : NamesHolder(t) /\ status[t] # "new"
         \/ \E s \in Streams, t \in Tasks : Opens(s, t)
         \/ \E s \in Streams : Hears(s) \/ Leaves(s)

-----------------------------------------------------------------------------

\* The invariant holds at the start.
LEMMA InvInit == Init => IInv
BY NamesAssumption
   DEF Init, IInv, Typed, LockKept, NeedsLock, RecordKept, EarlyKept, ThreadState, Verdicts

\* Steps that move none of its variables, or only end a submission, keep the
\* invariant.
LEMMA InvAside == ASSUME IInv, Aside \/ UNCHANGED vars PROVE IInv'
<1>1. /\ UNCHANGED <<wpc, status, cancelReq, lock, ran, early>>
      /\ submitting' \in {submitting, NoTask}
  BY DEF Aside, Emission, Record, Post, Enqueue, NamesHolder, Logs, Opens, Hears, Leaves,
         vars, lockVars, recVars, threadVars, eventVars, streamVars
<1> QED
  BY <1>1, NamesAssumption DEF IInv, Typed, LockKept, NeedsLock, RecordKept, EarlyKept

\* Submitting a task keeps the invariant.
LEMMA InvSubmit ==
  ASSUME IInv, NEW t \in Tasks, Claims(t) \/ Submits(t)
  PROVE  IInv'
<1> USE DEF IInv, Typed, LockKept, NeedsLock, RecordKept, EarlyKept, ThreadState, Verdicts
<1>1. CASE Claims(t)
  BY <1>1, NamesAssumption DEF Claims, recVars, threadVars
<1>2. CASE Submits(t)
  BY <1>2 DEF Submits, lockVars
<1> QED BY <1>1, <1>2

\* Canceling a task, or going down, keeps the invariant.
LEMMA InvCancel ==
  ASSUME IInv, \/ \E t \in Tasks : CancelsPending(t) \/ CancelsRunning(t)
               \/ Shutdown
  PROVE  IInv'
<1> USE DEF IInv, Typed, LockKept, NeedsLock, RecordKept, EarlyKept, ThreadState, Verdicts
<1>1. ASSUME NEW t \in Tasks, CancelsPending(t) PROVE IInv'
  BY <1>1 DEF CancelsPending, lockVars
<1>2. ASSUME NEW t \in Tasks, CancelsRunning(t) PROVE IInv'
  BY <1>2 DEF CancelsRunning, lockVars, threadVars
<1>3. CASE Shutdown
  BY <1>3 DEF Shutdown, lockVars, recVars
<1> QED BY <1>1, <1>2, <1>3

\* The steps of a pool thread keep the invariant: only the owner of the lock
\* frees it, and only a thread that saw no request enters the body.
LEMMA InvThread ==
  ASSUME IInv, NEW t \in Tasks, Thread(t)
  PROVE  IInv'
<1> USE DEF IInv, Typed, LockKept, NeedsLock, RecordKept, EarlyKept, ThreadState, Verdicts
<1>1. CASE Picks(t)
  BY <1>1 DEF Picks, lockVars, recVars
<1>2. CASE Starts(t)
  BY <1>2 DEF Starts, lockVars
<1>3. CASE StopsEarly(t)
  BY <1>3 DEF StopsEarly, lockVars
<1>9. CASE Announces(t)
  BY <1>9 DEF Announces, lockVars, recVars
<1>4. CASE PreparationFails(t)
  BY <1>4 DEF PreparationFails, lockVars, recVars
<1>5. CASE EntersBody(t)
  BY <1>5 DEF EntersBody, lockVars, recVars
<1>6. CASE LeavesBody(t)
  BY <1>6 DEF LeavesBody, recVars
<1>7. CASE Releases(t)
  BY <1>7 DEF Releases, recVars
<1>8. CASE Finishes(t)
  BY <1>8 DEF Finishes, Verdict, lockVars
<1> QED BY <1>1, <1>2, <1>3, <1>4, <1>5, <1>6, <1>7, <1>8, <1>9 DEF Thread

\* Every step keeps the invariant.
LEMMA InvStep == IInv /\ [Next]_vars => IInv'
<1> SUFFICES ASSUME IInv, [Next]_vars PROVE IInv'
  OBVIOUS
<1>1. ASSUME NEW t \in Tasks, Request(t) \/ Submission(t) \/ Thread(t) PROVE IInv'
  <2>1. CASE Claims(t) \/ Submits(t)
    BY <2>1, InvSubmit
  <2>2. CASE CancelsPending(t) \/ CancelsRunning(t)
    BY <2>2, InvCancel
  <2>3. CASE NamesHolder(t)
    BY <2>3, InvAside DEF Aside, NamesHolder
  <2>4. CASE Thread(t)
    BY <2>4, InvThread
  <2> QED BY <1>1, <2>1, <2>2, <2>3, <2>4 DEF Request, Submission
<1>2. CASE (\E a \in Actors : Emission(a) \/ Logs(a)) \/ Enqueue \/ UNCHANGED vars
  BY <1>2, InvAside DEF Aside
<1>3. CASE Shutdown
  BY <1>3, InvCancel
<1>4. CASE \/ \E s \in Streams, t \in Tasks : Opens(s, t)
           \/ \E s \in Streams : Hears(s) \/ Leaves(s)
  BY <1>4, InvAside DEF Aside
<1> QED BY <1>1, <1>2, <1>3, <1>4 DEF Next

\* The invariant holds throughout.
LEMMA InvCorrect == Spec => []IInv
BY InvInit, InvStep, PTL DEF Spec

\* Two heavy tasks of one profile never run at the same time: whoever is in its
\* body owns the profile lock, and only its owner frees it.
THEOREM Exclusion == Spec => []OneTaskRuns
<1>1. IInv => OneTaskRuns
  BY DEF IInv, LockKept, NeedsLock, OneTaskRuns
<1> QED BY <1>1, InvCorrect, PTL

\* A task canceled before a thread had begun it never enters its body, however
\* the request races with the pool thread.
THEOREM CancelRespected == Spec => []CanceledNeverRuns
<1>1. IInv => CanceledNeverRuns
  BY DEF IInv, EarlyKept, CanceledNeverRuns
<1> QED BY <1>1, InvCorrect, PTL

-----------------------------------------------------------------------------
(* Types *)

\* A history that is full forgets its oldest event for the new one.
LEMMA KeptIs ==
  ASSUME NEW S, NEW h \in Seq(S), Len(h) <= HistoryLimit, NEW e \in S
  PROVE  LET k == Kept(Append(h, e))
         IN  /\ k \in Seq(S) /\ Len(k) \in 1 .. HistoryLimit
             /\ Len(k) = Len(h) + 1 \/ Len(k) = Len(h)
             /\ \A i \in 1 .. Len(k) :
                  k[i] = IF i = Len(k) THEN e ELSE h[i + Len(h) + 1 - Len(k)]
<1> DEFINE g == Append(h, e)
<1>1. /\ g \in Seq(S) /\ Len(g) = Len(h) + 1
      /\ \A i \in 1 .. Len(g) : g[i] = IF i = Len(g) THEN e ELSE h[i]
  OBVIOUS
<1>2. HistoryLimit \in Nat /\ HistoryLimit > 0 /\ Len(h) \in Nat
  BY SizesAssumption
<1> HIDE DEF g
<1>3. CASE Len(g) > HistoryLimit
  <2>1. Len(g) = HistoryLimit + 1 /\ Kept(g) = SubSeq(g, 2, HistoryLimit + 1)
    BY <1>1, <1>2, <1>3 DEF Kept
  <2>2. /\ SubSeq(g, 2, HistoryLimit + 1) \in Seq(S)
        /\ Len(SubSeq(g, 2, HistoryLimit + 1)) = HistoryLimit
        /\ \A i \in 1 .. HistoryLimit : SubSeq(g, 2, HistoryLimit + 1)[i] = g[i + 1]
    BY <1>1, <1>2, <2>1
  <2> QED BY <1>1, <1>2, <2>1, <2>2 DEF g
<1>4. CASE ~(Len(g) > HistoryLimit)
  <2>1. Kept(g) = g
    BY <1>4 DEF Kept
  <2> QED BY <1>1, <1>2, <1>4, <2>1 DEF g
<1> QED BY <1>3, <1>4

\* It holds the new event besides some of the old ones.
LEMMA RangeKept ==
  ASSUME NEW S, NEW h \in Seq(S), Len(h) <= HistoryLimit, NEW e \in S
  PROVE  Range(Kept(Append(h, e))) \subseteq Range(h) \cup {e}
<1> DEFINE k == Kept(Append(h, e))
<1>1. /\ k \in Seq(S)
      /\ Len(k) = Len(h) + 1 \/ Len(k) = Len(h)
      /\ \A i \in 1 .. Len(k) :
           k[i] = IF i = Len(k) THEN e ELSE h[i + Len(h) + 1 - Len(k)]
  BY KeptIs, Zenon
<1> HIDE DEF k
<1>2. ASSUME NEW i \in 1 .. Len(k), i # Len(k) PROVE k[i] \in Range(h)
  <2>1. i + Len(h) + 1 - Len(k) \in 1 .. Len(h) /\ k[i] = h[i + Len(h) + 1 - Len(k)]
    BY <1>1, <1>2
  <2> QED BY <2>1 DEF Range
<1>3. Range(k) = {k[i] : i \in 1 .. Len(k)}
  BY <1>1 DEF Range
<1> QED BY <1>1, <1>2, <1>3 DEF k

\* What is bounded.
Bounds == {"cancels", "logs", "faults", "opens", "stops"}

\* The state is typed, and a live connection has a task.
TypeInv == TypeOK /\ \A s \in Streams : stream[s].state = "live" => stream[s].task \in Tasks

\* The process starts in a well-typed state.
LEMMA TypeInit == Init => TypeInv
<1> SUFFICES ASSUME Init PROVE TypeInv
  OBVIOUS
<1>1. {MaxCancels, MaxLogs, MaxFaults, MaxOpens, MaxStops} \subseteq Nat /\ QueueCap \in Nat
      /\ HistoryLimit \in Nat
  BY SizesAssumption
<1>2. left \in [Bounds -> Nat]
  BY <1>1 DEF Init, Bounds
<1>3. <<>> \in Seq(Event) /\ Len(<<>>) = 0
  OBVIOUS
<1>4. /\ wpc \in [Tasks -> ThreadState] /\ emit \in [Actors -> Event \cup {NoEvent}]
      /\ events \in [Tasks -> Seq(Event)] /\ eq \in [Tasks -> Seq(Event)]
      /\ nextSeq \in [Tasks -> Nat] /\ posted \in Seq(Event)
      /\ \A t \in Tasks : Len(eq[t]) <= QueueCap /\ Len(events[t]) <= HistoryLimit
  <2>1. "none" \in ThreadState
    BY DEF ThreadState
  <2> QED BY <1>1, <1>3, <2>1, SizesAssumption DEF Init
<1>5. /\ stream \in [Streams -> StreamState] /\ heard \in [Streams -> SUBSET Event]
      /\ stolen \in [Streams -> SUBSET Event]
      /\ \A s \in Streams : stream[s].state = "closed"
  BY DEF Init, StreamState
<1> QED BY <1>2, <1>4, <1>5 DEF Init, TypeInv, TypeOK, Bounds

\* Spending from a bound leaves the bounds natural numbers.
LEMMA SpendType ==
  ASSUME TypeOK, NEW k \in Bounds, Spend(k)
  PROVE  left' \in [Bounds -> Nat]
<1>1. left \in [Bounds -> Nat] /\ left[k] > 0 /\ left' = [left EXCEPT ![k] = left[k] - 1]
  BY DEF TypeOK, Spend, Bounds
<1>2. left[k] - 1 \in Nat
  BY <1>1
<1> QED BY <1>1, <1>2

\* An event that is emitted is an event.
LEMMA EmitsType ==
  ASSUME TypeOK, NEW a \in Actors, NEW t \in Tasks, NEW k \in Kinds, Emits(a, t, k)
  PROVE  emit' \in [Actors -> Event \cup {NoEvent}]
BY DEF TypeOK, Emits, Event

\* Submitting, canceling and shutting down keep the types.
LEMMA RequestType ==
  ASSUME TypeOK, (\E t \in Tasks : Request(t) \/ Submission(t)) \/ Shutdown
  PROVE  TypeOK'
<1> USE DEF TypeOK, Bounds, lockVars, recVars, threadVars, eventVars, streamVars
<1>1. ASSUME NEW t \in Tasks, Claims(t) PROVE TypeOK'
  BY <1>1 DEF Claims
<1>2. ASSUME NEW t \in Tasks, CancelsPending(t) PROVE TypeOK'
  <2>1. emit' \in [Actors -> Event \cup {NoEvent}]
    BY <1>2, EmitsType DEF CancelsPending, Actors, Kinds, Status, Verdicts
  <2>2. left' \in [Bounds -> Nat]
    BY <1>2, SpendType DEF CancelsPending
  <2> QED BY <1>2, <2>1, <2>2 DEF CancelsPending, Verdicts, ThreadState
<1>3. ASSUME NEW t \in Tasks, CancelsRunning(t) PROVE TypeOK'
  <2>1. emit' \in [Actors -> Event \cup {NoEvent}]
    BY <1>3, EmitsType DEF CancelsRunning, Actors, Kinds, Status
  <2>2. left' \in [Bounds -> Nat]
    BY <1>3, SpendType DEF CancelsRunning
  <2> QED BY <1>3, <2>1, <2>2 DEF CancelsRunning
<1>4. ASSUME NEW t \in Tasks, Submits(t) PROVE TypeOK'
  BY <1>4 DEF Submits, ThreadState
<1>5. ASSUME NEW t \in Tasks, NamesHolder(t) PROVE TypeOK'
  BY <1>5 DEF NamesHolder
<1>6. CASE Shutdown
  <2>1. left' \in [Bounds -> Nat]
    BY <1>6, SpendType DEF Shutdown
  <2> QED BY <1>6, <2>1 DEF Shutdown, ThreadState
<1> QED BY <1>1, <1>2, <1>3, <1>4, <1>5, <1>6 DEF Request, Submission

\* The thread of a task keeps the types.
LEMMA ThreadType ==
  ASSUME TypeOK, NEW t \in Tasks, Thread(t)
  PROVE  TypeOK'
<1> USE DEF TypeOK, Bounds, lockVars, recVars, threadVars, eventVars, streamVars
<1>1. CASE Picks(t)
  BY <1>1 DEF Picks, ThreadState
<1>2. CASE Starts(t)
  BY <1>2 DEF Starts, ThreadState
<1>9. CASE Announces(t)
  <2>1. emit' \in [Actors -> Event \cup {NoEvent}]
    BY <1>9, EmitsType DEF Announces, Actors, Kinds, Status
  <2> QED BY <1>9, <2>1 DEF Announces, ThreadState
<1>3. CASE StopsEarly(t)
  <2>1. emit' \in [Actors -> Event \cup {NoEvent}]
    BY <1>3, EmitsType DEF StopsEarly, Actors, Kinds, Status, Verdicts
  <2> QED BY <1>3, <2>1 DEF StopsEarly, ThreadState, Verdicts
<1>4. CASE PreparationFails(t)
  <2>1. left' \in [Bounds -> Nat]
    BY <1>4, SpendType DEF PreparationFails
  <2> QED BY <1>4, <2>1 DEF PreparationFails, ThreadState
<1>5. CASE EntersBody(t)
  BY <1>5 DEF EntersBody, ThreadState
<1>6. CASE LeavesBody(t)
  BY <1>6 DEF LeavesBody, ThreadState
<1>7. CASE Releases(t)
  BY <1>7 DEF Releases, ThreadState
<1>8. CASE Finishes(t)
  <2>1. Verdict(t) \in Verdicts
    BY DEF Verdict, Verdicts
  <2>2. emit' \in [Actors -> Event \cup {NoEvent}]
    BY <1>8, <2>1, EmitsType DEF Finishes, Actors, Kinds, Status
  <2> QED BY <1>8, <2>1, <2>2 DEF Finishes, ThreadState
<1> QED BY <1>1, <1>2, <1>3, <1>4, <1>5, <1>6, <1>7, <1>8, <1>9 DEF Thread

\* Logging, numbering, posting and queueing an event keep the types.
LEMMA EmissionType ==
  ASSUME TypeOK, (\E a \in Actors : Emission(a) \/ Logs(a)) \/ Enqueue
  PROVE  TypeOK'
<1>4. ASSUME NEW a \in Actors, Logs(a) PROVE TypeOK'
  <2>1. emit' \in [Actors -> Event \cup {NoEvent}]
    <3>1. context \in Tasks
      BY <1>4 DEF Logs, TypeOK
    <3>2. PICK t \in Tasks : t = context
      BY <3>1
    <3> QED BY <1>4, <3>2, EmitsType DEF Logs, Kinds
  <2>2. left' \in [Bounds -> Nat]
    BY <1>4, SpendType DEF Logs, Bounds
  <2> QED BY <1>4, <2>1, <2>2 DEF Logs, TypeOK, Bounds, lockVars, recVars, threadVars,
          eventVars, streamVars
<1> USE DEF lockVars, recVars, threadVars, eventVars, streamVars
<1>1. ASSUME NEW a \in Actors, Record(a) PROVE TypeOK'
  <2> DEFINE t == emit[a].task
             e == [emit[a] EXCEPT !.seq = nextSeq[t]]
  <2>1. emit[a] \in Event
    BY <1>1 DEF TypeOK, Record
  <2>2. t \in Tasks /\ nextSeq[t] \in Nat
    BY <2>1 DEF TypeOK, Event
  <2>3. e \in Event
    BY <2>1, <2>2 DEF Event
  <2>4. events[t] \in Seq(Event) /\ Len(events[t]) <= HistoryLimit
    BY <2>2 DEF TypeOK
  <2>5. /\ emit' = [emit EXCEPT ![a] = e] /\ nextSeq' = [nextSeq EXCEPT ![t] = nextSeq[t] + 1]
        /\ events' = [events EXCEPT ![t] = Kept(Append(events[t], e))]
    BY <1>1 DEF Record
  <2>6. Kept(Append(events[t], e)) \in Seq(Event)
        /\ Len(Kept(Append(events[t], e))) <= HistoryLimit
    <3> HIDE DEF e, t
    <3>1. Len(Kept(Append(events[t], e))) \in 1 .. HistoryLimit
          /\ Kept(Append(events[t], e)) \in Seq(Event)
      BY <2>3, <2>4, KeptIs
    <3> QED BY <3>1, SizesAssumption
  <2> HIDE DEF t, e
  <2>7. emit' \in [Actors -> Event \cup {NoEvent}]
    BY <2>3, <2>5 DEF TypeOK
  <2>8. nextSeq' \in [Tasks -> Nat]
    BY <2>2, <2>5 DEF TypeOK
  <2>9. events' \in [Tasks -> Seq(Event)] /\ \A u \in Tasks : Len(events'[u]) <= HistoryLimit
    BY <2>2, <2>5, <2>6 DEF TypeOK
  <2> QED BY <1>1, <2>7, <2>8, <2>9 DEF TypeOK, Record
<1>2. ASSUME NEW a \in Actors, Post(a) PROVE TypeOK'
  <2>1. /\ emit \in [Actors -> Event \cup {NoEvent}] /\ posted \in Seq(Event)
        /\ emit[a] # NoEvent /\ posted' = Append(posted, emit[a])
        /\ emit' = [emit EXCEPT ![a] = NoEvent]
    BY <1>2 DEF TypeOK, Post
  <2>2. emit' \in [Actors -> Event \cup {NoEvent}] /\ posted' \in Seq(Event)
    BY <2>1
  <2> QED BY <1>2, <2>2 DEF TypeOK, Post
<1>3. CASE Enqueue
  <2> DEFINE e == Head(posted)
             q == eq[e.task]
  <2>1. /\ posted \in Seq(Event) /\ posted # <<>> /\ posted' = Tail(posted)
        /\ e \in Event /\ Tail(posted) \in Seq(Event)
    BY <1>3 DEF Enqueue, TypeOK
  <2>2. e.task \in Tasks
    BY <2>1 DEF Event
  <2>3. q \in Seq(Event) /\ Len(q) <= QueueCap /\ QueueCap \in Nat /\ QueueCap > 0
    BY <2>2, SizesAssumption DEF TypeOK
  <2>4. /\ eq' = eq \/ \E r \in Seq(Event) : /\ Len(r) <= QueueCap
                                             /\ eq' = [eq EXCEPT ![e.task] = r]
        /\ missed' \subseteq Event /\ pushed' \subseteq Event
    <3>1. CASE /\ Len(q) < QueueCap /\ eq' = [eq EXCEPT ![e.task] = Append(q, e)]
               /\ missed' = missed /\ pushed' = pushed
      <4>1. Append(q, e) \in Seq(Event) /\ Len(Append(q, e)) <= QueueCap
        BY <2>1, <2>3, <3>1
      <4> QED BY <3>1, <4>1 DEF TypeOK
    <3>2. CASE /\ Len(q) = QueueCap /\ eq' = [eq EXCEPT ![e.task] = Append(Tail(q), e)]
               /\ missed' = missed /\ pushed' = pushed \cup {Head(q)}
      <4>1. Append(Tail(q), e) \in Seq(Event) /\ Len(Append(Tail(q), e)) <= QueueCap
            /\ Head(q) \in Event
        BY <2>1, <2>3, <3>2
      <4> QED BY <3>2, <4>1 DEF TypeOK
    <3>3. CASE eq' = eq /\ missed' = missed \cup {e} /\ pushed' = pushed
      BY <2>1, <3>3 DEF TypeOK
    <3> QED BY <1>3, <3>1, <3>2, <3>3 DEF Enqueue
  <2> HIDE DEF e, q
  <2>5. eq' \in [Tasks -> Seq(Event)] /\ \A t \in Tasks : Len(eq'[t]) <= QueueCap
    BY <2>2, <2>4 DEF TypeOK
  <2> QED BY <1>3, <2>1, <2>4, <2>5 DEF TypeOK, Enqueue
<1> QED BY <1>1, <1>2, <1>3, <1>4 DEF Emission

\* The event streams keep the types.
LEMMA StreamType ==
  ASSUME TypeInv, NEW s \in Streams, (\E t \in Tasks : Opens(s, t)) \/ Hears(s) \/ Leaves(s)
  PROVE  TypeInv'
<1> USE DEF lockVars, recVars, threadVars, eventVars, streamVars
<1>0. TypeOK /\ \A r \in Streams : stream[r].state = "live" => stream[r].task \in Tasks
  BY DEF TypeInv
<1>1. ASSUME NEW t \in Tasks, Opens(s, t) PROVE TypeInv'
  <2>1. left' \in [Bounds -> Nat]
    BY <1>1, <1>0, SpendType DEF Opens, Bounds
  <2>2. events[t] \in Seq(Event) /\ \A e \in Range(events[t]) : e \in Event
    BY <1>0 DEF TypeOK, Range
  <2>3. Range(events[t]) \subseteq Event
    BY <2>2
  <2>4. (IF events[t] = <<>> THEN 0 ELSE events[t][Len(events[t])].seq) \in Nat
    <3>1. CASE events[t] # <<>>
      <4>1. events[t][Len(events[t])] \in Event
        BY <2>2, <3>1
      <4> QED BY <3>1, <4>1 DEF Event
    <3> QED BY <3>1
  <2> DEFINE l == IF events[t] = <<>> THEN 0 ELSE events[t][Len(events[t])].seq
  <2>5. [state |-> "live", task |-> t, last |-> l] \in StreamState
    BY <2>4 DEF StreamState
  <2>6. /\ stream' = [stream EXCEPT ![s] = [state |-> "live", task |-> t, last |-> l]]
        /\ heard' = [heard EXCEPT ![s] = Range(events[t])] /\ late' \subseteq Streams
    BY <1>1, <1>0 DEF Opens, TypeOK
  <2> HIDE DEF l
  <2>7. stream' \in [Streams -> StreamState] /\ heard' \in [Streams -> SUBSET Event]
        /\ \A r \in Streams : stream'[r].state = "live" => stream'[r].task \in Tasks
    BY <1>0, <2>3, <2>5, <2>6 DEF TypeOK
  <2> QED BY <1>1, <1>0, <2>1, <2>6, <2>7 DEF TypeInv, TypeOK, Opens, Bounds
<1>2. CASE Hears(s)
  <2> DEFINE t == stream[s].task
             e == Head(eq[t])
             x == [state |-> IF e.kind \in Verdicts THEN "ended" ELSE "live", task |-> t,
                   last |-> IF e.seq > stream[s].last THEN e.seq ELSE stream[s].last]
  <2>1. stream[s] \in StreamState /\ t \in Tasks /\ eq[t] # <<>>
    BY <1>2, <1>0 DEF TypeOK, Hears
  <2>2. eq[t] \in Seq(Event) /\ Len(eq[t]) <= QueueCap
    BY <1>0, <2>1 DEF TypeOK
  <2>3. e \in Event /\ Tail(eq[t]) \in Seq(Event) /\ Len(Tail(eq[t])) <= QueueCap
    <3> HIDE DEF t
    <3> QED BY <2>1, <2>2, SizesAssumption
  <2>4. e.seq \in Nat /\ stream[s].last \in Nat
    BY <2>1, <2>3 DEF Event, StreamState
  <2>5. x \in StreamState /\ x.task = t
    <3> HIDE DEF e, t
    <3> QED BY <2>1, <2>4 DEF StreamState
  <2>6. /\ eq' = [eq EXCEPT ![t] = Tail(eq[t])] /\ stream' = [stream EXCEPT ![s] = x]
        /\ heard' = [heard EXCEPT ![s] = IF e.seq > stream[s].last
                                         THEN heard[s] \cup {e} ELSE heard[s]]
        /\ stolen' = [r \in Streams |-> IF r # s /\ stream[r].state = "live" /\ stream[r].task = t
                                        THEN stolen[r] \cup {e} ELSE stolen[r]]
    BY <1>2 DEF Hears
  <2> HIDE DEF x, e, t
  <2>7. eq' \in [Tasks -> Seq(Event)] /\ \A u \in Tasks : Len(eq'[u]) <= QueueCap
    BY <1>0, <2>1, <2>3, <2>6 DEF TypeOK
  <2>8. stream' \in [Streams -> StreamState] /\ heard' \in [Streams -> SUBSET Event]
        /\ stolen' \in [Streams -> SUBSET Event]
        /\ \A r \in Streams : stream'[r].state = "live" => stream'[r].task \in Tasks
    BY <1>0, <2>1, <2>3, <2>4, <2>5, <2>6 DEF TypeOK
  <2> QED BY <1>2, <1>0, <2>7, <2>8 DEF TypeInv, TypeOK, Hears
<1>3. CASE Leaves(s)
  BY <1>3 DEF Leaves, TypeInv, TypeOK, StreamState
<1> QED BY <1>1, <1>2, <1>3

\* Every step keeps the types.
LEMMA TypeStep == TypeInv /\ [Next]_vars => TypeInv'
<1> SUFFICES ASSUME TypeInv, [Next]_vars PROVE TypeInv'
  OBVIOUS
<1>1. ASSUME TypeOK', UNCHANGED stream PROVE TypeInv'
  BY <1>1 DEF TypeInv
<1>2. TypeOK
  BY DEF TypeInv
<1>3. ASSUME NEW t \in Tasks, Request(t) \/ Submission(t) \/ Thread(t)
      PROVE  TypeInv'
  <2>1. UNCHANGED stream
    BY <1>3 DEF Request, Submission, Thread, Claims, CancelsPending, CancelsRunning,
       Submits, NamesHolder, Picks, Starts, Announces, StopsEarly, PreparationFails, EntersBody,
       LeavesBody, Releases, Finishes, streamVars
  <2> QED BY <1>1, <1>2, <1>3, <2>1, RequestType, ThreadType
<1>4. CASE Shutdown
  <2>1. UNCHANGED stream
    BY <1>4 DEF Shutdown, streamVars
  <2> QED BY <1>1, <1>2, <1>4, <2>1, RequestType
<1>5. CASE (\E a \in Actors : Emission(a) \/ Logs(a)) \/ Enqueue
  <2>1. UNCHANGED stream
    BY <1>5 DEF Emission, Logs, Record, Post, Enqueue, streamVars
  <2> QED BY <1>1, <1>2, <1>5, <2>1, EmissionType
<1>6. CASE \/ \E s \in Streams, t \in Tasks : Opens(s, t)
           \/ \E s \in Streams : Hears(s) \/ Leaves(s)
  BY <1>6, StreamType
<1>7. CASE UNCHANGED vars
  BY <1>2, <1>7 DEF vars, lockVars, recVars, threadVars, eventVars, streamVars, TypeInv, TypeOK
<1> QED BY <1>3, <1>4, <1>5, <1>6, <1>7 DEF Next

\* The variables keep their types, queues and histories their limits, for any
\* number of tasks, connections and events.
THEOREM TypeCorrect == Spec => []TypeOK
<1>1. TypeInv => TypeOK
  BY DEF TypeInv
<1> QED BY <1>1, TypeInit, TypeStep, PTL DEF Spec


-----------------------------------------------------------------------------
(* The way of an event: emitted, posted, queued, heard *)

\* The numbered events of a task that no connection has taken yet.
Posted(t) == {x \in Range(posted) : x.task = t}
Emitted(t) == {x \in {emit[a] : a \in Actors} : x.task = t /\ x.seq > 0}
Pipe(t) == Range(eq[t]) \cup Posted(t) \cup Emitted(t)

\* An event knows its emitter; a thread that is about to emit is not emitting.
EmitKept ==
  /\ \A a \in Actors : emit[a] # NoEvent => emit[a].from = a
  /\ \A t \in Tasks :
       wpc[t] \in {"none", "queued", "withdrawn", "picked", "releasing", "finishing"}
         => emit[t] = NoEvent

\* A history is what was numbered last, without a gap.
Gapless(h, n) == /\ Len(h) < n
                 /\ \A i \in 1 .. Len(h) : h[i].seq = n - 1 - Len(h) + i
HistoryKept ==
  \A t \in Tasks : /\ Gapless(events[t], nextSeq[t])
                   /\ \A e \in Range(events[t]) : e.task = t

\* A number stands for one event.
PipeKept ==
  \A t \in Tasks : \A x \in Pipe(t) :
    /\ x.task = t /\ x.seq > 0 /\ x.seq < nextSeq[t]
    /\ \A e \in Range(events[t]) : e.seq = x.seq => e = x

\* What one thread emits to a task stays in order on its way to the browser.
InOrder(q) == \A i, j \in 1 .. Len(q) :
                i < j /\ q[i].task = q[j].task /\ q[i].from = q[j].from => q[i].seq < q[j].seq
Before(A, B) == \A x \in A, y \in B : x.from = y.from => x.seq < y.seq
OrderKept ==
  /\ InOrder(posted)
  /\ \A t \in Tasks : /\ InOrder(eq[t])
                      /\ Before(Range(eq[t]), Posted(t))
                      /\ Before(Range(eq[t]) \cup Posted(t), Emitted(t))

\* A connection has heard the number it has reached, what a thread has yet to
\* say to it comes after what it has heard of the thread, and of the history it
\* has missed nothing without a reason.
Reader(s, t) ==
  /\ stream[s].last < nextSeq[t]
  /\ \A f \in heard[s] : f.seq <= stream[s].last
  /\ stream[s].last > 0 => \E f \in heard[s] : f.seq = stream[s].last
  /\ \A f \in heard[s], e \in Range(events[t]) :
       /\ e.seq = f.seq => e = f
       /\ e \in Pipe(t) /\ e.from = f.from /\ e \notin heard[s] => f.seq < e.seq
  /\ \A e \in Range(events[t]) : \/ e \in heard[s] \cup stolen[s] \cup missed \cup pushed
                                 \/ e \in Pipe(t)
                                 \/ Overtaken(e, s)
ReaderKept == \A s \in Streams : stream[s].state = "live" => Reader(s, stream[s].task)

WayInv == HistoryKept /\ PipeKept /\ OrderKept /\ ReaderKept

-----------------------------------------------------------------------------

\* The elements of a sequence.
LEMMA RangeIn == ASSUME NEW S, NEW q \in Seq(S) PROVE Range(q) \subseteq S
BY DEF Range

\* ... with one more at the end.
LEMMA RangeAppend ==
  ASSUME NEW S, NEW q \in Seq(S), NEW x \in S
  PROVE  Range(Append(q, x)) = Range(q) \cup {x}
<1>1. /\ Len(Append(q, x)) = Len(q) + 1
      /\ \A i \in 1 .. Len(q) + 1 : Append(q, x)[i] = IF i = Len(q) + 1 THEN x ELSE q[i]
  OBVIOUS
<1>2. Append(q, x) \in Seq(S)
  OBVIOUS
<1>3. Range(Append(q, x)) = {Append(q, x)[i] : i \in 1 .. Len(q) + 1}
  BY <1>1, <1>2 DEF Range
<1>4. Range(q) = {q[i] : i \in 1 .. Len(q)}
  BY DEF Range
<1>5. /\ Len(q) + 1 \in 1 .. Len(q) + 1
      /\ \A i \in 1 .. Len(q) : i \in 1 .. Len(q) + 1 /\ i # Len(q) + 1
      /\ \A j \in 1 .. Len(q) + 1 : j # Len(q) + 1 => j \in 1 .. Len(q)
  OBVIOUS
<1> HIDE DEF Range
<1> QED BY <1>1, <1>3, <1>4, <1>5

\* ... with the first and the others apart.
LEMMA RangeHeadTail ==
  ASSUME NEW S, NEW q \in Seq(S), q # <<>>
  PROVE  /\ Head(q) \in S /\ Tail(q) \in Seq(S) /\ Head(q) = q[1]
         /\ Len(Tail(q)) = Len(q) - 1 /\ \A i \in 1 .. Len(q) - 1 : Tail(q)[i] = q[i + 1]
         /\ Range(q) = {Head(q)} \cup Range(Tail(q))
<1>1. /\ Head(q) \in S /\ Tail(q) \in Seq(S) /\ Head(q) = q[1]
      /\ Len(Tail(q)) = Len(q) - 1 /\ \A i \in 1 .. Len(q) - 1 : Tail(q)[i] = q[i + 1]
  OBVIOUS
<1>2. Range(Tail(q)) \subseteq Range(q) /\ Head(q) \in Range(q)
  <2>1. \A i \in 1 .. Len(q) - 1 : i + 1 \in 1 .. Len(q)
    OBVIOUS
  <2>2. DOMAIN Tail(q) = 1 .. Len(q) - 1 /\ DOMAIN q = 1 .. Len(q) /\ 1 \in 1 .. Len(q)
    BY <1>1
  <2> QED BY <1>1, <2>1, <2>2 DEF Range
<1>3. Range(q) \subseteq {Head(q)} \cup Range(Tail(q))
  <2> SUFFICES ASSUME NEW i \in 1 .. Len(q), i # 1 PROVE q[i] \in Range(Tail(q))
    BY <1>1 DEF Range
  <2>1. i - 1 \in 1 .. Len(q) - 1 /\ Tail(q)[i - 1] = q[i]
    BY <1>1
  <2>2. DOMAIN Tail(q) = 1 .. Len(q) - 1
    BY <1>1
  <2> QED BY <2>1, <2>2 DEF Range
<1> QED BY <1>1, <1>2, <1>3

\* A gapless history in which an event is numbered stays gapless.
LEMMA GaplessKept ==
  ASSUME NEW h \in Seq(Event), NEW n \in Nat, Gapless(h, n), Len(h) <= HistoryLimit,
         NEW e \in Event, e.seq = n
  PROVE  LET k == Kept(Append(h, e))
         IN  /\ k \in Seq(Event) /\ Gapless(k, n + 1)
             /\ Range(k) \subseteq Range(h) \cup {e} /\ e \in Range(k)
<1> DEFINE k == Kept(Append(h, e))
           d == Len(h) + 1 - Len(k)
<1>0. /\ k \in Seq(Event) /\ Len(k) \in 1 .. HistoryLimit
      /\ Len(k) = Len(h) + 1 \/ Len(k) = Len(h)
      /\ \A i \in 1 .. Len(k) : k[i] = IF i = Len(k) THEN e ELSE h[i + Len(h) + 1 - Len(k)]
  BY KeptIs, Zenon
<1>1. /\ k \in Seq(Event) /\ Len(k) \in Nat /\ Len(k) >= 1
      /\ Len(k) = Len(h) + 1 \/ Len(k) = Len(h)
      /\ \A i \in 1 .. Len(k) : k[i] = IF i = Len(k) THEN e ELSE h[i + Len(h) + 1 - Len(k)]
  <2> HIDE DEF k
  <2> QED BY <1>0, SizesAssumption
<1> HIDE DEF k
<1>2. /\ Len(h) \in Nat /\ Len(h) < n /\ d \in {0, 1}
      /\ \A i \in 1 .. Len(h) : h[i].seq = n - 1 - Len(h) + i
  <2>1. d \in {0, 1} /\ Len(h) \in Nat
    BY <1>1
  <2> QED BY <2>1 DEF Gapless
<1>3. \A i \in 1 .. Len(k) - 1 : i + d \in 1 .. Len(h) /\ k[i] = h[i + d]
  <2> SUFFICES ASSUME NEW i \in 1 .. Len(k) - 1
               PROVE  i + d \in 1 .. Len(h) /\ k[i] = h[i + d]
    OBVIOUS
  <2>1. i \in 1 .. Len(k) /\ i # Len(k) /\ i + d = i + Len(h) + 1 - Len(k)
    BY <1>1, <1>2
  <2>2. i + d \in 1 .. Len(h)
    BY <1>1, <1>2
  <2>3. k[i] = h[i + Len(h) + 1 - Len(k)]
    BY <1>1, <2>1
  <2> QED BY <2>1, <2>2, <2>3
<1>4. k[Len(k)] = e
  BY <1>1
<1>5. Gapless(k, n + 1)
  <2>1. Len(k) < n + 1
    BY <1>1, <1>2
  <2>2. ASSUME NEW i \in 1 .. Len(k) PROVE k[i].seq = n + 1 - 1 - Len(k) + i
    <3>1. CASE i = Len(k)
      BY <1>1, <1>4, <3>1
    <3>2. CASE i # Len(k)
      <4>1. i \in 1 .. Len(k) - 1
        BY <1>1, <3>2
      <4>2. i + d \in 1 .. Len(h) /\ k[i] = h[i + d]
        BY <1>3, <4>1
      <4>3. h[i + d].seq = n - 1 - Len(h) + (i + d)
        BY <1>2, <4>2
      <4> QED BY <1>1, <1>2, <4>2, <4>3
    <3> QED BY <3>1, <3>2
  <2> QED BY <2>1, <2>2 DEF Gapless
<1>6. Range(h) = {h[i] : i \in 1 .. Len(h)} /\ Range(k) = {k[i] : i \in 1 .. Len(k)}
  BY <1>1 DEF Range
<1>7. Range(k) \subseteq Range(h) \cup {e} /\ e \in Range(k)
  <2>1. Len(k) \in 1 .. Len(k) /\ \A i \in 1 .. Len(k) : i = Len(k) \/ i \in 1 .. Len(k) - 1
    BY <1>1
  <2>2. \A i \in 1 .. Len(k) : k[i] \in Range(h) \cup {e}
    BY <1>3, <1>4, <1>6, <2>1
  <2> QED BY <1>4, <1>6, <2>1, <2>2
<1> QED BY <1>1, <1>5, <1>7 DEF k

\* In a gapless history a number stands for one event.
LEMMA GaplessNumbers ==
  ASSUME NEW h \in Seq(Event), NEW n \in Nat, Gapless(h, n)
  PROVE  \A e, f \in Range(h) : /\ e.seq \in Nat /\ e.seq < n /\ e.seq >= n - Len(h)
                                /\ e.seq = f.seq => e = f
<1>1. Range(h) = {h[i] : i \in 1 .. Len(h)} /\ Len(h) \in Nat /\ Len(h) < n
  BY DEF Range, Gapless
<1>2. \A i \in 1 .. Len(h) : h[i].seq = n - 1 - Len(h) + i
  BY DEF Gapless
<1> QED BY <1>1, <1>2


-----------------------------------------------------------------------------
(* No gap without a reason *)

GapInv == TypeInv /\ IInv /\ EmitKept /\ WayInv

\* What moves no event, or only begins to emit one.
Begins(a, t, k) == emit[a] = NoEvent /\ Emits(a, t, k)
Still == /\ UNCHANGED <<nextSeq, events, posted, eq, stream, heard, stolen, missed, pushed>>
         /\ \/ UNCHANGED emit
            \/ \E a \in Actors, t \in Tasks, k \in Kinds : Begins(a, t, k)

\* At the start no event is under way.
LEMMA GapInit == Init => GapInv
<1> SUFFICES ASSUME Init PROVE GapInv
  OBVIOUS
<1>1. EmitKept
  BY NamesAssumption DEF Init, EmitKept, Actors
<1>2. \A t \in Tasks : Range(events[t]) = {} /\ Range(eq[t]) = {} /\ nextSeq[t] = 1
                       /\ events[t] = <<>> /\ eq[t] = <<>>
  BY DEF Init, Range
<1>3. \A t \in Tasks : Posted(t) = {} /\ Emitted(t) = {}
  BY DEF Init, Range, Posted, Emitted, NoEvent
<1>4. \A t \in Tasks : Pipe(t) = {}
  BY <1>2, <1>3, Zenon DEF Pipe
<1>5. HistoryKept /\ PipeKept
  BY <1>2, <1>4 DEF HistoryKept, PipeKept, Gapless
<1>6. OrderKept
  BY <1>2, <1>3 DEF OrderKept, InOrder, Before, Init
<1>7. ReaderKept
  BY DEF Init, ReaderKept
<1> QED BY <1>1, <1>5, <1>6, <1>7, TypeInit, InvInit DEF GapInv, WayInv

\* An actor that begins to emit keeps the rules, if its thread may.
LEMMA BeginsKeeps ==
  ASSUME TypeOK, EmitKept, NEW a \in Actors, NEW t \in Tasks, NEW k \in Kinds, Begins(a, t, k),
         UNCHANGED <<nextSeq, events, posted, eq, stream, heard, stolen, missed, pushed>>,
         \A u \in Tasks :
           wpc'[u] \in {"none", "queued", "withdrawn", "picked", "releasing", "finishing"}
             => u # a /\ emit[u] = NoEvent
  PROVE  EmitKept' /\ Still
<1>1. Still
  BY DEF Still
<1>2. /\ emit'[a].from = a
      /\ \A b \in Actors : b # a => emit'[b] = emit[b]
  BY DEF Begins, Emits, TypeOK
<1>3. Tasks \subseteq Actors
  BY DEF Actors
<1> QED BY <1>1, <1>2, <1>3 DEF EmitKept

\* A request leaves the events alone, but for the announcement it begins.
LEMMA RequestEmits ==
  ASSUME GapInv, (\E t \in Tasks : Request(t) \/ Submission(t)) \/ Shutdown
  PROVE  EmitKept' /\ Still
<1> USE DEF lockVars, recVars, threadVars, eventVars, streamVars
<1>1. TypeOK /\ EmitKept /\ RecordKept /\ "loop" \in Actors /\ "loop" \notin Tasks
      /\ Tasks \subseteq Actors /\ wpc \in [Tasks -> ThreadState]
  BY NamesAssumption DEF GapInv, TypeInv, TypeOK, IInv, Actors
<1>2. ASSUME NEW t \in Tasks, Claims(t) \/ NamesHolder(t) PROVE EmitKept' /\ Still
  BY <1>1, <1>2 DEF Claims, NamesHolder, EmitKept, Still
<1>3. ASSUME NEW t \in Tasks, Submits(t) PROVE EmitKept' /\ Still
  BY <1>1, <1>3 DEF Submits, EmitKept, Still, RecordKept
<1>4. ASSUME NEW t \in Tasks, CancelsPending(t) PROVE EmitKept' /\ Still
  <2>1. Begins("loop", t, "canceled") /\ "canceled" \in Kinds
    BY <1>4 DEF CancelsPending, Begins, LoopFree, Kinds, Status, Verdicts
  <2>2. \A u \in Tasks :
           wpc'[u] \in {"none", "queued", "withdrawn", "picked", "releasing", "finishing"}
             => u # "loop" /\ emit[u] = NoEvent
    BY <1>1, <1>4 DEF CancelsPending, EmitKept
  <2>3. UNCHANGED <<nextSeq, events, posted, eq, stream, heard, stolen, missed, pushed>>
    BY <1>4 DEF CancelsPending
  <2> QED BY <1>1, <2>1, <2>2, <2>3, BeginsKeeps
<1>5. ASSUME NEW t \in Tasks, CancelsRunning(t) PROVE EmitKept' /\ Still
  <2>1. Begins("loop", t, "cancelling") /\ "cancelling" \in Kinds
    BY <1>5 DEF CancelsRunning, Begins, LoopFree, Kinds, Status, Verdicts
  <2>2. \A u \in Tasks :
           wpc'[u] \in {"none", "queued", "withdrawn", "picked", "releasing", "finishing"}
             => u # "loop" /\ emit[u] = NoEvent
    BY <1>1, <1>5 DEF CancelsRunning, EmitKept
  <2>3. UNCHANGED <<nextSeq, events, posted, eq, stream, heard, stolen, missed, pushed>>
    BY <1>5 DEF CancelsRunning
  <2> QED BY <1>1, <2>1, <2>2, <2>3, BeginsKeeps
<1>6. CASE Shutdown
  BY <1>1, <1>6 DEF Shutdown, EmitKept, Still
<1> QED BY <1>2, <1>3, <1>4, <1>5, <1>6 DEF Request, Submission

\* So does the thread of a task.
LEMMA ThreadEmits ==
  ASSUME GapInv, NEW t \in Tasks, Thread(t)
  PROVE  EmitKept' /\ Still
<1> USE DEF lockVars, recVars, threadVars, eventVars, streamVars
<1>1. TypeOK /\ EmitKept /\ t \in Actors /\ Tasks \subseteq Actors
      /\ wpc \in [Tasks -> ThreadState]
  BY DEF GapInv, TypeInv, TypeOK, Actors
<1>2. ASSUME NEW k \in Kinds, emit[t] = NoEvent, Emits(t, t, k),
             UNCHANGED <<nextSeq, events, posted, eq, stream, heard, stolen, missed, pushed>>,
             NEW w \in {"canceled", "entering", "ended"}, wpc' = [wpc EXCEPT ![t] = w]
      PROVE  EmitKept' /\ Still
  <2>1. \A u \in Tasks :
           wpc'[u] \in {"none", "queued", "withdrawn", "picked", "releasing", "finishing"}
             => u # t /\ emit[u] = NoEvent
    BY <1>1, <1>2 DEF EmitKept
  <2> QED BY <1>1, <1>2, <2>1, BeginsKeeps DEF Begins
<1>3. CASE Announces(t)
  <2>1. "running" \in Kinds
    BY DEF Kinds, Status
  <2>2. PICK w \in {"canceled", "entering"} : wpc' = [wpc EXCEPT ![t] = w]
    BY <1>3 DEF Announces
  <2> QED BY <1>2, <1>3, <2>1, <2>2 DEF Announces
<1>4. CASE StopsEarly(t)
  <2>1. "canceled" \in Kinds
    BY DEF Kinds, Status, Verdicts
  <2> QED BY <1>2, <1>4, <2>1 DEF StopsEarly
<1>5. CASE Finishes(t)
  <2>1. emit[t] = NoEvent /\ Verdict(t) \in Kinds
    BY <1>1, <1>5 DEF Finishes, EmitKept, Kinds, Status, Verdicts, Verdict
  <2> QED BY <1>2, <1>5, <2>1 DEF Finishes
<1>6. CASE \/ Picks(t) \/ Starts(t) \/ PreparationFails(t) \/ EntersBody(t) \/ LeavesBody(t)
           \/ Releases(t)
  <2>1. /\ UNCHANGED <<emit, nextSeq, events, posted, eq, stream, heard, stolen, missed, pushed>>
        /\ emit[t] = NoEvent
        /\ \E w : wpc' = [wpc EXCEPT ![t] = w]
    BY <1>1, <1>6 DEF Picks, Starts, PreparationFails, EntersBody, LeavesBody, Releases, EmitKept
  <2> QED BY <1>1, <2>1 DEF EmitKept, Still
<1> QED BY <1>3, <1>4, <1>5, <1>6 DEF Thread

\* So does anyone who logs.
LEMMA LogsEmits ==
  ASSUME GapInv, NEW a \in Actors, Logs(a)
  PROVE  EmitKept' /\ Still
<1>1. TypeOK /\ EmitKept
  BY DEF GapInv, TypeInv
<1>2. PICK t \in Tasks : t = context
  BY <1>1 DEF Logs, TypeOK
<1>3. Begins(a, t, "log") /\ "log" \in Kinds
  BY <1>2 DEF Logs, Begins, Kinds
<1>4. UNCHANGED <<nextSeq, events, posted, eq, stream, heard, stolen, missed, pushed, wpc>>
  BY DEF Logs, eventVars, streamVars, threadVars
<1>5. \A u \in Tasks :
        wpc'[u] \in {"none", "queued", "withdrawn", "picked", "releasing", "finishing"}
          => u # a /\ emit[u] = NoEvent
  BY <1>1, <1>4 DEF Logs, EmitKept
<1> QED BY <1>1, <1>3, <1>4, <1>5, BeginsKeeps

\* Where events only get lost or stay, the numbers stay those of one event each.
LEMMA PipeShrinks ==
  ASSUME HistoryKept, PipeKept, UNCHANGED <<nextSeq, events>>,
         \A t \in Tasks : Pipe(t)' \subseteq Pipe(t)
  PROVE  HistoryKept' /\ PipeKept'
<1>1. HistoryKept'
  BY DEF HistoryKept
<1>2. ASSUME NEW t \in Tasks, NEW x \in Pipe(t)'
      PROVE  (/\ x.task = t /\ x.seq > 0 /\ x.seq < nextSeq[t]
              /\ \A e \in Range(events[t]) : e.seq = x.seq => e = x)'
  <2>1. x \in Pipe(t)
    BY <1>2
  <2> QED BY <2>1 DEF PipeKept
<1> QED BY <1>1, <1>2 DEF PipeKept

\* What leaves the way of a connection that stays as it is has to be missed,
\* pushed out or stolen.
LEMMA ReaderStays ==
  ASSUME NEW s \in Streams, NEW t \in Tasks, Reader(s, t),
         UNCHANGED <<nextSeq, events>>, stream'[s] = stream[s], heard'[s] = heard[s],
         stolen[s] \subseteq stolen'[s], missed \subseteq missed', pushed \subseteq pushed',
         Pipe(t)' \subseteq Pipe(t),
         Pipe(t) \subseteq Pipe(t)' \cup missed' \cup pushed' \cup stolen'[s]
  PROVE  Reader(s, t)'
<1>1. \A e : Overtaken(e, s) => Overtaken(e, s)'
  BY DEF Overtaken
<1>2. \A e \in Range(events[t]) : \/ e \in heard[s] \cup stolen[s] \cup missed \cup pushed
                                  \/ e \in Pipe(t)
                                  \/ Overtaken(e, s)
  BY DEF Reader
<1>3. \A e \in Range(events'[t]) : \/ e \in heard'[s] \cup stolen'[s] \cup missed' \cup pushed'
                                   \/ e \in Pipe(t)'
                                   \/ Overtaken(e, s)'
  BY <1>1, <1>2
<1>4. /\ stream[s].last < nextSeq[t]
      /\ \A f \in heard[s] : f.seq <= stream[s].last
      /\ stream[s].last > 0 => \E f \in heard[s] : f.seq = stream[s].last
      /\ \A f \in heard[s], e \in Range(events[t]) :
           /\ e.seq = f.seq => e = f
           /\ e \in Pipe(t) /\ e.from = f.from /\ e \notin heard[s] => f.seq < e.seq
  BY DEF Reader
<1>5. /\ stream'[s].last < nextSeq'[t]
      /\ \A f \in heard'[s] : f.seq <= stream'[s].last
      /\ stream'[s].last > 0 => \E f \in heard'[s] : f.seq = stream'[s].last
      /\ \A f \in heard'[s], e \in Range(events'[t]) :
           /\ e.seq = f.seq => e = f
           /\ e \in Pipe(t)' /\ e.from = f.from /\ e \notin heard'[s] => f.seq < e.seq
  BY <1>4
<1> QED BY <1>3, <1>5 DEF Reader

\* So for all connections, where none moves.
LEMMA ReadersStay ==
  ASSUME TypeInv, ReaderKept, UNCHANGED <<nextSeq, events, stream, heard, stolen>>,
         missed \subseteq missed', pushed \subseteq pushed',
         \A t \in Tasks : /\ Pipe(t)' \subseteq Pipe(t)
                          /\ Pipe(t) \subseteq Pipe(t)' \cup missed' \cup pushed'
  PROVE  ReaderKept'
<1> SUFFICES ASSUME NEW s \in Streams, stream[s].state = "live" PROVE Reader(s, stream[s].task)'
  BY DEF ReaderKept
<1>1. PICK t \in Tasks : t = stream[s].task
  BY DEF TypeInv
<1>2. Reader(s, t)
  BY <1>1 DEF ReaderKept
<1>3. Reader(s, t)'
  BY <1>2, ReaderStays
<1> QED BY <1>1, <1>3 DEF Reader

\* Steps that move no event keep everything about the way of events.
LEMMA StillKeeps ==
  ASSUME TypeInv, WayInv, Still \/ UNCHANGED vars, TypeOK'
  PROVE  WayInv'
<1>1. UNCHANGED <<nextSeq, events, posted, eq, stream, heard, stolen, missed, pushed>>
  BY DEF Still, vars, eventVars, streamVars
<1>2. ASSUME NEW t \in Tasks PROVE Emitted(t)' = Emitted(t) /\ Posted(t)' = Posted(t)
  <2>1. CASE UNCHANGED emit
    BY <1>1, <2>1 DEF Emitted, Posted
  <2>2. ASSUME NEW a \in Actors, NEW u \in Tasks, NEW k \in Kinds, Begins(a, u, k)
        PROVE  Emitted(t)' = Emitted(t)
    <3>1. /\ emit[a].seq = 0 /\ emit'[a].seq = 0
          /\ \A b \in Actors : b # a => emit'[b] = emit[b]
      BY <2>2 DEF Begins, Emits, NoEvent, TypeInv, TypeOK
    <3> QED BY <3>1 DEF Emitted
  <2>3. Posted(t)' = Posted(t)
    BY <1>1 DEF Posted
  <2> QED BY <2>1, <2>2, <2>3 DEF Still, vars
<1>3. \A t \in Tasks : Pipe(t)' = Pipe(t)
  BY <1>1, <1>2, Zenon DEF Pipe
<1>4. OrderKept'
  <2>1. InOrder(posted') /\ \A t \in Tasks : InOrder(eq'[t])
    BY <1>1 DEF WayInv, OrderKept, InOrder
  <2>2. ASSUME NEW t \in Tasks
        PROVE  (/\ Before(Range(eq[t]), Posted(t))
                /\ Before(Range(eq[t]) \cup Posted(t), Emitted(t)))'
    <3>1. /\ Before(Range(eq[t]), Posted(t))
          /\ Before(Range(eq[t]) \cup Posted(t), Emitted(t))
      BY DEF WayInv, OrderKept
    <3> QED BY <1>1, <1>2, <3>1 DEF Before
  <2> QED BY <2>1, <2>2 DEF OrderKept, InOrder
<1>5. HistoryKept' /\ PipeKept'
  BY <1>1, <1>3, PipeShrinks DEF WayInv
<1>6. ReaderKept'
  BY <1>1, <1>3, ReadersStay DEF WayInv
<1> QED BY <1>4, <1>5, <1>6 DEF WayInv

\* The steps of the way leave the rules of emitting alone.
LEMMA WayEmits ==
  ASSUME GapInv, \/ \E a \in Actors : Emission(a)
                 \/ Enqueue
                 \/ \E s \in Streams, t \in Tasks : Opens(s, t)
                 \/ \E s \in Streams : Hears(s) \/ Leaves(s)
                 \/ UNCHANGED vars
  PROVE  EmitKept'
<1>1. TypeOK /\ EmitKept /\ Tasks \subseteq Actors
  BY DEF GapInv, TypeInv, Actors
<1>2. ASSUME NEW a \in Actors, Record(a) PROVE EmitKept'
  <2>1. emit[a] \in Event /\ emit[a] # NoEvent
    BY <1>1, <1>2 DEF Record, TypeOK
  <2>2. PICK n : emit' = [emit EXCEPT ![a] = [emit[a] EXCEPT !.seq = n]]
    BY <1>2 DEF Record
  <2>3. emit'[a].from = emit[a].from
    BY <1>1, <2>1, <2>2 DEF Event, TypeOK
  <2>4. \A b \in Actors : b # a => emit'[b] = emit[b]
    BY <1>1, <2>2 DEF TypeOK
  <2>5. wpc' = wpc
    BY <1>2 DEF Record, threadVars
  <2> QED BY <1>1, <2>1, <2>3, <2>4, <2>5 DEF EmitKept
<1>3. ASSUME NEW a \in Actors, Post(a) PROVE EmitKept'
  BY <1>1, <1>3 DEF Post, EmitKept, TypeOK, threadVars
<1>4. CASE UNCHANGED <<emit, wpc>>
  BY <1>1, <1>4 DEF EmitKept
<1> QED
  BY <1>2, <1>3, <1>4 DEF Emission, Enqueue, Opens, Hears, Leaves, vars, threadVars

\* Numbering an event: it comes after everything of its task, and the history
\* forgets at most its oldest event for it.
LEMMA RecordKeeps ==
  ASSUME TypeInv, WayInv, NEW a \in Actors, Record(a)
  PROVE  WayInv'
<1>0. PICK t \in Tasks : t = emit[a].task
  <2>1. emit[a] \in Event
    BY DEF Record, TypeInv, TypeOK
  <2> QED BY <2>1 DEF Event
<1> DEFINE n == nextSeq[t]
           e == [emit[a] EXCEPT !.seq = n]
           h == events[t]
           k == Kept(Append(h, e))
<1>1. /\ TypeOK /\ emit[a] \in Event /\ emit[a].seq = 0
      /\ HistoryKept /\ PipeKept /\ OrderKept /\ ReaderKept
  BY DEF Record, TypeInv, TypeOK, WayInv
<1>2. t \in Tasks /\ n \in Nat /\ h \in Seq(Event) /\ Len(h) <= HistoryLimit
  BY <1>1 DEF TypeOK
<1>3. e \in Event /\ e.task = t /\ e.seq = n
  BY <1>0, <1>1, <1>2 DEF Event
<1>4. /\ emit' = [emit EXCEPT ![a] = e] /\ nextSeq' = [nextSeq EXCEPT ![t] = n + 1]
      /\ events' = [events EXCEPT ![t] = k]
      /\ UNCHANGED <<posted, eq, stream, heard, stolen, missed, pushed>>
  BY <1>0 DEF Record, streamVars
<1> HIDE DEF n, e, h, k
<1>5. Gapless(h, n) /\ \A x \in Range(h) : x.task = t
  BY <1>1, <1>2 DEF HistoryKept, h, n
<1>6. n > 0 /\ \A x \in Range(h) : x.seq \in Nat /\ x.seq < n
  <2>1. \A x \in Range(h) : x.seq \in Nat /\ x.seq < n
    BY <1>2, <1>5, GaplessNumbers
  <2>2. Len(h) < n /\ Len(h) \in Nat
    BY <1>2, <1>5 DEF Gapless
  <2> QED BY <1>2, <2>1, <2>2
<1>7. Gapless(k, n + 1) /\ Range(k) \subseteq Range(h) \cup {e} /\ e \in Range(k)
  BY <1>2, <1>3, <1>5, GaplessKept, Zenon DEF k
<1>8. /\ nextSeq'[t] = n + 1 /\ events'[t] = k
      /\ \A u \in Tasks : u # t => nextSeq'[u] = nextSeq[u] /\ events'[u] = events[u]
  BY <1>1, <1>2, <1>4 DEF TypeOK
<1>9. /\ Emitted(t)' = Emitted(t) \cup {e}
      /\ \A u \in Tasks : u # t => Emitted(u)' = Emitted(u)
      /\ \A u \in Tasks : Posted(u)' = Posted(u)
  <2>1. emit'[a] = e /\ \A b \in Actors : b # a => emit'[b] = emit[b]
    BY <1>1, <1>4 DEF TypeOK
  <2>2. emit[a].seq = 0 /\ e.task = t /\ e.seq > 0
    BY <1>1, <1>3, <1>6
  <2> QED BY <1>4, <2>1, <2>2 DEF Emitted, Posted
<1>10. Pipe(t)' = Pipe(t) \cup {e} /\ \A u \in Tasks : u # t => Pipe(u)' = Pipe(u)
  BY <1>4, <1>9 DEF Pipe
<1>11. \A x \in Pipe(t) : /\ x.task = t /\ x.seq > 0 /\ x.seq < n
                          /\ \A y \in Range(h) : y.seq = x.seq => y = x
  BY <1>1, <1>2 DEF PipeKept, h, n
<1>12. HistoryKept'
  BY <1>1, <1>3, <1>5, <1>7, <1>8 DEF HistoryKept
<1>13. PipeKept'
  <2>1. \A x \in Pipe(t)' : /\ x.task = t /\ x.seq > 0 /\ x.seq < n + 1
                            /\ \A y \in Range(k) : y.seq = x.seq => y = x
    <3>1. ASSUME NEW x \in Pipe(t) PROVE x.seq < n + 1 /\ \A y \in Range(k) : y.seq = x.seq => y = x
      <4>1. x \in Range(eq[t]) \/ x \in Range(posted) \/ x \in {emit[b] : b \in Actors}
        BY <3>1 DEF Pipe, Posted, Emitted
      <4>2. x \in Event \cup {NoEvent}
        BY <1>1, <1>2, <4>1, RangeIn DEF TypeOK
      <4>3. x.seq \in Nat
        BY <4>2 DEF Event, NoEvent
      <4> QED BY <1>2, <1>3, <1>7, <1>11, <3>1, <4>3
    <3>2. \A y \in Range(k) : y.seq = e.seq => y = e
      BY <1>2, <1>3, <1>6, <1>7
    <3> QED BY <1>2, <1>3, <1>6, <1>10, <1>11, <3>1, <3>2
  <2>2. ASSUME NEW u \in Tasks, NEW x \in Pipe(u)'
        PROVE  (/\ x.task = u /\ x.seq > 0 /\ x.seq < nextSeq[u]
                /\ \A y \in Range(events[u]) : y.seq = x.seq => y = x)'
    <3>1. CASE u = t
      BY <1>8, <2>1, <2>2, <3>1
    <3>2. CASE u # t
      BY <1>1, <1>8, <1>10, <2>2, <3>2 DEF PipeKept
    <3> QED BY <3>1, <3>2
  <2> QED BY <2>2 DEF PipeKept
<1>14. OrderKept'
  <2>1. InOrder(posted') /\ \A u \in Tasks : InOrder(eq'[u])
    BY <1>1, <1>4 DEF OrderKept, InOrder
  <2>2. ASSUME NEW u \in Tasks
        PROVE  (/\ Before(Range(eq[u]), Posted(u))
                /\ Before(Range(eq[u]) \cup Posted(u), Emitted(u)))'
    <3>1. /\ Before(Range(eq[u]), Posted(u))
          /\ Before(Range(eq[u]) \cup Posted(u), Emitted(u))
      BY <1>1 DEF OrderKept
    <3>2. CASE u = t
      <4>1. \A x \in Range(eq[t]) \cup Posted(t) : x.seq < e.seq
        BY <1>3, <1>11 DEF Pipe
      <4> QED BY <1>4, <1>9, <3>1, <3>2, <4>1 DEF Before
    <3>3. CASE u # t
      BY <1>4, <1>9, <3>1, <3>3 DEF Before
    <3> QED BY <3>2, <3>3
  <2> QED BY <2>1, <2>2 DEF OrderKept, InOrder
<1>15. ASSUME NEW s \in Streams, stream[s].state = "live", NEW u \in Tasks, u = stream[s].task
       PROVE  Reader(s, u)'
  <2>1. Reader(s, u)
    BY <1>1, <1>15 DEF ReaderKept
  <2>2. stream[s].last \in Nat /\ heard[s] \subseteq Event /\ \A f \in heard[s] : f.seq \in Nat
    <3>1. stream[s] \in StreamState /\ heard[s] \in SUBSET Event
      BY <1>1 DEF TypeOK
    <3> QED BY <3>1 DEF StreamState, Event
  <2>3. CASE u # t
    <3>1. Pipe(u)' = Pipe(u) /\ events'[u] = events[u] /\ nextSeq'[u] = nextSeq[u]
      BY <1>8, <1>10, <2>3
    <3>2. \A x : Overtaken(x, s) => Overtaken(x, s)'
      BY <1>4 DEF Overtaken
    <3> QED BY <1>4, <2>1, <3>1, <3>2 DEF Reader
  <2>4. CASE u = t
    <3>1. /\ stream[s].last < n
          /\ \A f \in heard[s] : f.seq <= stream[s].last
          /\ stream[s].last > 0 => \E f \in heard[s] : f.seq = stream[s].last
          /\ \A f \in heard[s], x \in Range(h) :
               /\ x.seq = f.seq => x = f
               /\ x \in Pipe(t) /\ x.from = f.from /\ x \notin heard[s] => f.seq < x.seq
          /\ \A x \in Range(h) : \/ x \in heard[s] \cup stolen[s] \cup missed \cup pushed
                                 \/ x \in Pipe(t)
                                 \/ Overtaken(x, s)
      BY <2>1, <2>4 DEF Reader, h, n
    <3>2. \A f \in heard[s] : f.seq < n
      BY <1>2, <2>2, <3>1
    <3>3. ASSUME NEW f \in heard[s], NEW x \in Range(k)
          PROVE  /\ x.seq = f.seq => x = f
                 /\ x \in Pipe(t)' /\ x.from = f.from /\ x \notin heard[s] => f.seq < x.seq
      <4>1. CASE x = e
        BY <1>2, <1>3, <2>2, <3>2, <3>3, <4>1
      <4>2. CASE x # e
        BY <1>7, <1>10, <3>1, <3>3, <4>2
      <4> QED BY <4>1, <4>2
    <3>4. ASSUME NEW x \in Range(k)
          PROVE  \/ x \in heard[s] \cup stolen[s] \cup missed \cup pushed
                 \/ x \in Pipe(t)'
                 \/ Overtaken(x, s)'
      <4>1. Overtaken(x, s) => Overtaken(x, s)'
        BY <1>4 DEF Overtaken
      <4> QED BY <1>7, <1>10, <3>1, <3>4, <4>1
    <3>5. stream[s].last < n + 1
      BY <1>2, <2>2, <3>1
    <3>6. UNCHANGED <<stream, heard, stolen, missed, pushed>>
      BY <1>4
    <3> QED BY <1>8, <2>4, <3>1, <3>3, <3>4, <3>5, <3>6 DEF Reader
  <2> QED BY <2>3, <2>4
<1>16. ReaderKept'
  <2> SUFFICES ASSUME NEW s \in Streams, stream'[s].state = "live" PROVE Reader(s, stream[s].task)'
    BY DEF ReaderKept
  <2>1. stream' = stream
    BY <1>4
  <2>2. PICK u \in Tasks : u = stream[s].task
    BY <2>1 DEF TypeInv
  <2>3. Reader(s, u)'
    BY <1>15, <2>1, <2>2
  <2> QED BY <2>1, <2>2, <2>3 DEF Reader
<1> QED BY <1>12, <1>13, <1>14, <1>16 DEF WayInv

\* Posting an event: it comes after everything its thread said before.
LEMMA PostKeeps ==
  ASSUME TypeInv, EmitKept, WayInv, NEW a \in Actors, Post(a)
  PROVE  WayInv'
<1>1. /\ TypeOK /\ HistoryKept /\ PipeKept /\ OrderKept /\ ReaderKept /\ posted \in Seq(Event)
      /\ UNCHANGED <<nextSeq, events, eq, stream, heard, stolen, missed, pushed>>
  BY DEF Post, TypeInv, TypeOK, WayInv, eventVars, streamVars
<1>2. PICK x \in Event : /\ x = emit[a] /\ x # NoEvent /\ x.seq > 0
                         /\ posted' = Append(posted, x)
                         /\ emit' = [emit EXCEPT ![a] = NoEvent]
  BY <1>1 DEF Post, TypeOK
<1>3. PICK t \in Tasks : t = x.task
  BY <1>2 DEF Event
<1>4. Range(posted') = Range(posted) \cup {x}
  BY <1>1, <1>2, RangeAppend
<1>5. emit'[a] = NoEvent /\ \A b \in Actors : b # a => emit'[b] = emit[b]
  BY <1>1, <1>2 DEF TypeOK
<1>6. /\ Posted(t)' = Posted(t) \cup {x} /\ \A u \in Tasks : u # t => Posted(u)' = Posted(u)
      /\ x \in Emitted(t)
      /\ \A u \in Tasks : /\ Emitted(u)' \subseteq Emitted(u)
                         /\ Emitted(u) \subseteq Emitted(u)' \cup {x}
      /\ \A u \in Tasks : u # t => Emitted(u)' = Emitted(u)
  <2>1. Posted(t)' = Posted(t) \cup {x} /\ \A u \in Tasks : u # t => Posted(u)' = Posted(u)
    BY <1>3, <1>4 DEF Posted
  <2>2. NoEvent.seq = 0
    BY DEF NoEvent
  <2>3. x \in Emitted(t)
    BY <1>2, <1>3 DEF Emitted
  <2>4. \A u \in Tasks : /\ Emitted(u)' \subseteq Emitted(u)
                         /\ Emitted(u) \subseteq Emitted(u)' \cup {x}
    BY <1>2, <1>5, <2>2 DEF Emitted
  <2>5. \A u \in Tasks : u # t => Emitted(u)' = Emitted(u)
    BY <1>2, <1>3, <1>5, <2>2 DEF Emitted
  <2> QED BY <2>1, <2>3, <2>4, <2>5
<1>7. \A u \in Tasks : Pipe(u)' = Pipe(u)
  <2>1. Pipe(t)' = Pipe(t)
    BY <1>1, <1>6 DEF Pipe
  <2>2. \A u \in Tasks : u # t => Pipe(u)' = Pipe(u)
    BY <1>1, <1>6 DEF Pipe
  <2> QED BY <2>1, <2>2
<1>8. \A y \in Emitted(t)' : y.from # x.from
  <2>1. SUFFICES ASSUME NEW y \in Emitted(t)' PROVE y.from # x.from
    OBVIOUS
  <2>2. PICK b \in Actors : y = emit'[b] /\ y.seq > 0
    BY DEF Emitted
  <2>3. NoEvent.seq = 0
    BY DEF NoEvent
  <2>4. b # a /\ y = emit[b] /\ y # NoEvent
    BY <1>5, <2>2, <2>3
  <2> QED BY <1>2, <2>4 DEF EmitKept
<1>9. OrderKept'
  <2>1. InOrder(posted')
    <3>1. /\ Len(posted') = Len(posted) + 1
          /\ \A i \in 1 .. Len(posted') : posted'[i] = IF i = Len(posted) + 1 THEN x ELSE posted[i]
      BY <1>1, <1>2
    <3>2. ASSUME NEW i \in 1 .. Len(posted'), NEW j \in 1 .. Len(posted'), i < j,
                 posted'[i].task = posted'[j].task, posted'[i].from = posted'[j].from
          PROVE  posted'[i].seq < posted'[j].seq
      <4>1. i \in 1 .. Len(posted) /\ posted'[i] = posted[i]
        BY <1>1, <3>1, <3>2
      <4>2. CASE j = Len(posted) + 1
        <5>1. posted[i] \in Posted(t)
          BY <1>1, <1>3, <3>1, <3>2, <4>1, <4>2 DEF Posted, Range
        <5> QED BY <1>1, <1>6, <3>1, <3>2, <4>1, <4>2, <5>1 DEF OrderKept, Before
      <4>3. CASE j # Len(posted) + 1
        <5>1. j \in 1 .. Len(posted) /\ posted'[j] = posted[j]
          BY <1>1, <3>1, <4>3
        <5> QED BY <1>1, <3>2, <4>1, <5>1 DEF OrderKept, InOrder
      <4> QED BY <4>2, <4>3
    <3> QED BY <3>2 DEF InOrder
  <2>2. \A u \in Tasks : InOrder(eq'[u])
    BY <1>1 DEF OrderKept, InOrder
  <2>3. ASSUME NEW u \in Tasks
        PROVE  (/\ Before(Range(eq[u]), Posted(u))
                /\ Before(Range(eq[u]) \cup Posted(u), Emitted(u)))'
    <3>1. /\ Before(Range(eq[u]), Posted(u))
          /\ Before(Range(eq[u]) \cup Posted(u), Emitted(u))
      BY <1>1 DEF OrderKept
    <3>2. CASE u = t
      BY <1>1, <1>6, <1>8, <3>1, <3>2 DEF Before
    <3>3. CASE u # t
      BY <1>1, <1>6, <3>1, <3>3 DEF Before
    <3> QED BY <3>2, <3>3
  <2> QED BY <2>1, <2>2, <2>3 DEF OrderKept, InOrder
<1>10. HistoryKept' /\ PipeKept'
  BY <1>1, <1>7, PipeShrinks
<1>11. ReaderKept'
  BY <1>1, <1>7, ReadersStay
<1> QED BY <1>9, <1>10, <1>11 DEF WayInv

\* An order that holds in a sequence holds without its first element.
LEMMA InOrderTail ==
  ASSUME NEW q \in Seq(Event), q # <<>>, InOrder(q)
  PROVE  /\ InOrder(Tail(q))
         /\ \A y \in Range(Tail(q)) :
              Head(q).task = y.task /\ Head(q).from = y.from => Head(q).seq < y.seq
<1>1. /\ Head(q) = q[1] /\ Len(Tail(q)) = Len(q) - 1 /\ Len(q) \in Nat
      /\ Tail(q) \in Seq(Event) /\ \A i \in 1 .. Len(q) - 1 : Tail(q)[i] = q[i + 1]
  BY RangeHeadTail
<1>2. \A i \in 1 .. Len(q) - 1 : i + 1 \in 1 .. Len(q) /\ 1 \in 1 .. Len(q) /\ 1 < i + 1
  BY <1>1
<1>3. InOrder(Tail(q))
  BY <1>1, <1>2 DEF InOrder
<1>4. Range(Tail(q)) = {Tail(q)[i] : i \in 1 .. Len(q) - 1}
  <2>1. DOMAIN Tail(q) = 1 .. Len(q) - 1
    BY <1>1
  <2> QED BY <2>1, Zenon DEF Range
<1> QED BY <1>1, <1>2, <1>3, <1>4 DEF InOrder

\* It holds with one more element that comes after them all.
LEMMA InOrderAppend ==
  ASSUME NEW q \in Seq(Event), InOrder(q), NEW x \in Event,
         \A y \in Range(q) : y.task = x.task /\ y.from = x.from => y.seq < x.seq
  PROVE  InOrder(Append(q, x))
<1>1. /\ Len(Append(q, x)) = Len(q) + 1 /\ Len(q) \in Nat
      /\ \A i \in 1 .. Len(q) + 1 : Append(q, x)[i] = IF i = Len(q) + 1 THEN x ELSE q[i]
  OBVIOUS
<1>2. \A i \in 1 .. Len(q) : q[i] \in Range(q)
  BY DEF Range
<1> DEFINE p == Append(q, x)
<1> HIDE DEF p
<1>3. ASSUME NEW i \in 1 .. Len(p), NEW j \in 1 .. Len(p), i < j,
             p[i].task = p[j].task, p[i].from = p[j].from
      PROVE  p[i].seq < p[j].seq
  <2>1. i \in 1 .. Len(q) /\ p[i] = q[i]
    BY <1>1, <1>3 DEF p
  <2>2. CASE j = Len(q) + 1
    BY <1>1, <1>2, <1>3, <2>1, <2>2 DEF p
  <2>3. CASE j # Len(q) + 1
    <3>1. j \in 1 .. Len(q) /\ p[j] = q[j]
      BY <1>1, <1>3, <2>3 DEF p
    <3> QED BY <1>3, <2>1, <3>1 DEF InOrder
  <2> QED BY <2>2, <2>3
<1> QED BY <1>3 DEF InOrder, p

\* Queueing an event: it goes from the front of the callbacks to the end of the
\* queue; what a full queue drops is missed.
LEMMA EnqueueKeeps ==
  ASSUME TypeInv, WayInv, Enqueue
  PROVE  WayInv'
<1>1. /\ TypeOK /\ HistoryKept /\ PipeKept /\ OrderKept /\ ReaderKept
      /\ posted \in Seq(Event) /\ posted # <<>> /\ posted' = Tail(posted)
      /\ UNCHANGED <<nextSeq, events, stream, heard, stolen, emit>>
  BY DEF Enqueue, TypeInv, TypeOK, WayInv, eventVars, streamVars
<1>2. PICK x \in Event : /\ x = Head(posted) /\ Tail(posted) \in Seq(Event)
                         /\ Range(posted) = {x} \cup Range(posted')
  BY <1>1, RangeHeadTail
<1>3. PICK t \in Tasks : t = x.task
  BY <1>2 DEF Event
<1>4. PICK q \in Seq(Event) : q = eq[t] /\ InOrder(q)
  BY <1>1 DEF TypeOK, OrderKept
<1>5. /\ Posted(t) = Posted(t)' \cup {x} /\ \A u \in Tasks : u # t => Posted(u)' = Posted(u)
      /\ \A u \in Tasks : Emitted(u)' = Emitted(u)
  BY <1>1, <1>2, <1>3 DEF Posted, Emitted
<1>6. \A y \in Range(q) : y.from = x.from => y.seq < x.seq
  BY <1>1, <1>4, <1>5 DEF OrderKept, Before
<1>7. InOrder(posted') /\ \A y \in Posted(t)' : x.from = y.from => x.seq < y.seq
  <2>1. /\ InOrder(Tail(posted))
        /\ \A y \in Range(Tail(posted)) :
             x.task = y.task /\ x.from = y.from => x.seq < y.seq
    BY <1>1, <1>2, InOrderTail DEF OrderKept
  <2> QED BY <1>1, <1>3, <2>1 DEF Posted
<1>8. \E r \in Seq(Event) :
        /\ eq' = [eq EXCEPT ![t] = r] /\ missed \subseteq missed' /\ pushed \subseteq pushed'
        /\ Range(r) \subseteq Range(q) \cup {x}
        /\ Range(q) \cup {x} \subseteq Range(r) \cup missed' \cup pushed'
        /\ InOrder(r)
  <2>1. CASE eq' = [eq EXCEPT ![t] = Append(q, x)] /\ missed' = missed /\ pushed' = pushed
    <3>1. Append(q, x) \in Seq(Event) /\ Range(Append(q, x)) = Range(q) \cup {x}
      BY RangeAppend
    <3>2. InOrder(Append(q, x))
      BY <1>4, <1>6, InOrderAppend
    <3> QED BY <2>1, <3>1, <3>2
  <2>2. CASE /\ Len(q) = QueueCap /\ eq' = [eq EXCEPT ![t] = Append(Tail(q), x)]
             /\ missed' = missed /\ pushed' = pushed \cup {Head(q)}
    <3>1. q # <<>>
      BY <2>2, SizesAssumption
    <3>2. PICK p \in Seq(Event) : p = Tail(q) /\ Range(q) = {Head(q)} \cup Range(p)
      BY <3>1, RangeHeadTail
    <3>3. Append(p, x) \in Seq(Event) /\ Range(Append(p, x)) = Range(p) \cup {x}
      BY RangeAppend
    <3>4. InOrder(p)
      BY <1>4, <3>1, <3>2, InOrderTail
    <3>5. InOrder(Append(p, x))
      BY <1>6, <3>2, <3>4, InOrderAppend
    <3> QED BY <2>2, <3>2, <3>3, <3>5
  <2>3. CASE eq' = eq /\ missed' = missed \cup {x} /\ pushed' = pushed
    <3>1. eq' = [eq EXCEPT ![t] = q]
      BY <1>1, <1>4, <2>3 DEF TypeOK
    <3> QED BY <1>4, <2>3, <3>1
  <2>4. \/ eq' = [eq EXCEPT ![t] = Append(q, x)] /\ missed' = missed /\ pushed' = pushed
        \/ /\ Len(q) = QueueCap /\ eq' = [eq EXCEPT ![t] = Append(Tail(q), x)]
           /\ missed' = missed /\ pushed' = pushed \cup {Head(q)}
        \/ eq' = eq /\ missed' = missed \cup {x} /\ pushed' = pushed
    BY <1>2, <1>3, <1>4 DEF Enqueue
  <2> QED BY <2>1, <2>2, <2>3, <2>4
<1>9. PICK r \in Seq(Event) :
        /\ eq' = [eq EXCEPT ![t] = r] /\ missed \subseteq missed' /\ pushed \subseteq pushed'
        /\ Range(r) \subseteq Range(q) \cup {x}
        /\ Range(q) \cup {x} \subseteq Range(r) \cup missed' \cup pushed'
        /\ InOrder(r)
  BY <1>8
<1>10. eq'[t] = r /\ \A u \in Tasks : u # t => eq'[u] = eq[u]
  BY <1>1, <1>9 DEF TypeOK
<1>11. \A u \in Tasks : /\ Pipe(u)' \subseteq Pipe(u)
                         /\ Pipe(u) \subseteq Pipe(u)' \cup missed' \cup pushed'
  <2>1. Pipe(t)' \subseteq Pipe(t) /\ Pipe(t) \subseteq Pipe(t)' \cup missed' \cup pushed'
    BY <1>4, <1>5, <1>9, <1>10 DEF Pipe
  <2>2. \A u \in Tasks : u # t => Pipe(u)' = Pipe(u)
    BY <1>5, <1>10 DEF Pipe
  <2> QED BY <2>1, <2>2
<1>12. OrderKept'
  <2>1. \A u \in Tasks : InOrder(eq'[u])
    BY <1>1, <1>9, <1>10 DEF OrderKept
  <2>2. ASSUME NEW u \in Tasks
        PROVE  (/\ Before(Range(eq[u]), Posted(u))
                /\ Before(Range(eq[u]) \cup Posted(u), Emitted(u)))'
    <3>1. /\ Before(Range(eq[u]), Posted(u))
          /\ Before(Range(eq[u]) \cup Posted(u), Emitted(u))
      BY <1>1 DEF OrderKept
    <3>2. CASE u = t
      BY <1>4, <1>5, <1>7, <1>9, <1>10, <3>1, <3>2 DEF Before
    <3>3. CASE u # t
      BY <1>5, <1>10, <3>1, <3>3 DEF Before
    <3> QED BY <3>2, <3>3
  <2> QED BY <1>7, <2>1, <2>2 DEF OrderKept, InOrder
<1>13. HistoryKept' /\ PipeKept'
  BY <1>1, <1>11, PipeShrinks
<1>14. ReaderKept'
  BY <1>1, <1>9, <1>11, ReadersStay
<1> QED BY <1>12, <1>13, <1>14 DEF WayInv

\* A connection that opens has heard the whole history.
LEMMA OpensKeeps ==
  ASSUME TypeInv, WayInv, NEW s \in Streams, NEW t \in Tasks, Opens(s, t)
  PROVE  WayInv'
<1> DEFINE h == events[t]
           l == IF h = <<>> THEN 0 ELSE h[Len(h)].seq
<1>1. /\ TypeOK /\ HistoryKept /\ PipeKept /\ OrderKept /\ ReaderKept
      /\ UNCHANGED <<nextSeq, events, posted, eq, emit, stolen, missed, pushed>>
      /\ stream' = [stream EXCEPT ![s] = [state |-> "live", task |-> t, last |-> l]]
      /\ heard' = [heard EXCEPT ![s] = Range(h)]
  BY DEF Opens, TypeInv, WayInv, eventVars
<1>2. h \in Seq(Event) /\ Gapless(h, nextSeq[t]) /\ nextSeq[t] \in Nat
  BY <1>1 DEF TypeOK, HistoryKept
<1> HIDE DEF h, l
<1>3. \A i \in 1 .. Len(h) : h[i].seq = nextSeq[t] - 1 - Len(h) + i
  BY <1>2 DEF Gapless
<1>4. /\ l \in Nat /\ l < nextSeq[t]
      /\ l > 0 => \E f \in Range(h) : f.seq = l
      /\ \A f \in Range(h) : f.seq <= l
  <2>1. Len(h) < nextSeq[t] /\ Len(h) \in Nat
    BY <1>2 DEF Gapless
  <2>2. CASE h = <<>>
    BY <1>2, <2>1, <2>2 DEF l, Range
  <2>3. CASE h # <<>>
    <3>1. Len(h) \in 1 .. Len(h) /\ l = nextSeq[t] - 1
      BY <1>2, <1>3, <2>1, <2>3 DEF l
    <3>2. Range(h) = {h[i] : i \in 1 .. Len(h)}
      BY <1>2 DEF Range
    <3>3. h[Len(h)] \in Range(h) /\ h[Len(h)].seq = l
      BY <2>3, <3>1, <3>2 DEF l
    <3>4. \A e \in Range(h) : e.seq <= l
      BY <1>2, <1>3, <2>1, <3>1, <3>2
    <3> QED BY <1>2, <2>1, <3>1, <3>3, <3>4
  <2> QED BY <2>2, <2>3
<1>5. \A u \in Tasks : Pipe(u)' = Pipe(u) /\ Emitted(u)' = Emitted(u) /\ Posted(u)' = Posted(u)
  BY <1>1 DEF Pipe, Emitted, Posted
<1>6. OrderKept'
  BY <1>1, <1>5 DEF OrderKept, InOrder, Before
<1>7. HistoryKept' /\ PipeKept'
  BY <1>1, <1>5, PipeShrinks
<1>8. /\ stream'[s] = [state |-> "live", task |-> t, last |-> l] /\ heard'[s] = Range(h)
      /\ \A r \in Streams : r # s => stream'[r] = stream[r] /\ heard'[r] = heard[r]
  BY <1>1 DEF TypeOK
<1>9. Reader(s, t)'
  <2>1. \A f \in Range(h), e \in Range(h) : e.seq = f.seq => e = f
    BY <1>2, GaplessNumbers
  <2>2. events'[t] = h /\ nextSeq'[t] = nextSeq[t] /\ stream'[s].last = l
    BY <1>1, <1>8 DEF h
  <2> QED BY <1>4, <1>8, <2>1, <2>2 DEF Reader
<1>10. ASSUME NEW r \in Streams, NEW u \in Tasks, r # s, stream[r].state = "live",
              u = stream[r].task
       PROVE  Reader(r, u)'
  <2>1. Reader(r, u)
    BY <1>1, <1>10 DEF ReaderKept
  <2> QED BY <1>1, <1>5, <1>8, <1>10, <2>1, ReaderStays
<1>11. ReaderKept'
  <2> SUFFICES ASSUME NEW r \in Streams, NEW u, stream'[r].state = "live", u = stream'[r].task
               PROVE  Reader(r, u)'
    BY DEF ReaderKept, Reader
  <2>1. CASE r = s
    BY <1>8, <1>9, <2>1
  <2>2. CASE r # s
    BY <1>8, <1>10, <2>2 DEF TypeInv
  <2> QED BY <2>1, <2>2
<1> QED BY <1>6, <1>7, <1>11 DEF WayInv

\* A connection takes an event: what it does not send, because it has reached a
\* later number, another thread has overtaken; from the others it is stolen.
LEMMA HearsKeeps ==
  ASSUME TypeInv, WayInv, NEW s \in Streams, Hears(s)
  PROVE  WayInv'
<1>1. /\ TypeOK /\ HistoryKept /\ PipeKept /\ OrderKept /\ ReaderKept
      /\ stream[s].state = "live" /\ stream[s] \in StreamState
      /\ UNCHANGED <<nextSeq, events, posted, emit, missed, pushed>>
  BY DEF Hears, TypeInv, TypeOK, WayInv, eventVars
<1>2. PICK t \in Tasks : t = stream[s].task
  BY <1>1 DEF TypeInv
<1>3. PICK q \in Seq(Event) : q = eq[t] /\ q # <<>> /\ InOrder(q)
  BY <1>1, <1>2 DEF TypeOK, OrderKept, Hears
<1>4. PICK x \in Event, p \in Seq(Event) :
        x = Head(q) /\ p = Tail(q) /\ Range(q) = {x} \cup Range(p)
  <2>1. /\ Head(q) \in Event /\ Tail(q) \in Seq(Event)
        /\ Range(q) = {Head(q)} \cup Range(Tail(q))
    BY <1>3, RangeHeadTail
  <2> QED BY <2>1, Zenon
<1>5. InOrder(p) /\ \A y \in Range(p) : x.task = y.task /\ x.from = y.from => x.seq < y.seq
  BY <1>3, <1>4, InOrderTail
<1>6. PICK l \in Nat : l = stream[s].last
  BY <1>1 DEF StreamState
<1>7. /\ eq'[t] = p /\ \A u \in Tasks : u # t => eq'[u] = eq[u]
      /\ heard'[s] = IF x.seq > l THEN heard[s] \cup {x} ELSE heard[s]
      /\ stream'[s] = [state |-> IF x.kind \in Verdicts THEN "ended" ELSE "live", task |-> t,
                       last |-> IF x.seq > l THEN x.seq ELSE l]
      /\ stolen'[s] = stolen[s]
      /\ \A r \in Streams : r # s => /\ stream'[r] = stream[r] /\ heard'[r] = heard[r]
                                     /\ stolen[r] \subseteq stolen'[r]
                                     /\ stream[r].state = "live" /\ stream[r].task = t
                                          => x \in stolen'[r]
  <2>1. eq' = [eq EXCEPT ![t] = p]
    BY <1>2, <1>3, <1>4 DEF Hears
  <2>2. heard'[s] = IF x.seq > l THEN heard[s] \cup {x} ELSE heard[s]
    BY <1>1, <1>2, <1>3, <1>4, <1>6 DEF Hears, TypeOK
  <2>3. stream'[s] = [state |-> IF x.kind \in Verdicts THEN "ended" ELSE "live", task |-> t,
                      last |-> IF x.seq > l THEN x.seq ELSE l]
    BY <1>1, <1>2, <1>3, <1>4, <1>6 DEF Hears, TypeOK
  <2>4. \A r \in Streams : r # s => stream'[r] = stream[r] /\ heard'[r] = heard[r]
    BY <1>1 DEF Hears, TypeOK
  <2>5. stolen' = [r \in Streams |-> IF r # s /\ stream[r].state = "live" /\ stream[r].task = t
                                     THEN stolen[r] \cup {x} ELSE stolen[r]]
    BY <1>2, <1>3, <1>4 DEF Hears
  <2> QED BY <1>1, <2>1, <2>2, <2>3, <2>4, <2>5 DEF TypeOK
<1>8. /\ \A u \in Tasks : Posted(u)' = Posted(u) /\ Emitted(u)' = Emitted(u)
      /\ Pipe(t) = Pipe(t)' \cup {x}
      /\ \A u \in Tasks : Pipe(u)' \subseteq Pipe(u)
      /\ \A u \in Tasks : u # t => Pipe(u)' = Pipe(u)
  <2>1. \A u \in Tasks : Posted(u)' = Posted(u) /\ Emitted(u)' = Emitted(u)
    BY <1>1 DEF Posted, Emitted
  <2>2. Pipe(t) = Pipe(t)' \cup {x}
    BY <1>3, <1>4, <1>7, <2>1 DEF Pipe
  <2>3. \A u \in Tasks : u # t => Pipe(u)' = Pipe(u)
    BY <1>7, <2>1 DEF Pipe
  <2> QED BY <2>1, <2>2, <2>3
<1>9. OrderKept'
  <2>1. \A u \in Tasks : InOrder(eq'[u])
    BY <1>1, <1>5, <1>7 DEF OrderKept
  <2>2. ASSUME NEW u \in Tasks
        PROVE  (/\ Before(Range(eq[u]), Posted(u))
                /\ Before(Range(eq[u]) \cup Posted(u), Emitted(u)))'
    <3>1. /\ Before(Range(eq[u]), Posted(u))
          /\ Before(Range(eq[u]) \cup Posted(u), Emitted(u))
      BY <1>1 DEF OrderKept
    <3>2. CASE u = t
      BY <1>3, <1>4, <1>7, <1>8, <3>1, <3>2 DEF Before
    <3>3. CASE u # t
      BY <1>7, <1>8, <3>1, <3>3 DEF Before
    <3> QED BY <3>2, <3>3
  <2> QED BY <1>1, <2>1, <2>2 DEF OrderKept, InOrder
<1>10. HistoryKept' /\ PipeKept'
  BY <1>1, <1>8, PipeShrinks
<1>11. /\ l < nextSeq[t]
       /\ \A f \in heard[s] : f.seq <= l
       /\ l > 0 => \E f \in heard[s] : f.seq = l
       /\ \A f \in heard[s], e \in Range(events[t]) :
            /\ e.seq = f.seq => e = f
            /\ e \in Pipe(t) /\ e.from = f.from /\ e \notin heard[s] => f.seq < e.seq
       /\ \A e \in Range(events[t]) : \/ e \in heard[s] \cup stolen[s] \cup missed \cup pushed
                                      \/ e \in Pipe(t)
                                      \/ Overtaken(e, s)
  BY <1>1, <1>2, <1>6 DEF ReaderKept, Reader
<1>12. /\ x \in Pipe(t) /\ x.task = t /\ x.seq \in Nat /\ x.seq > 0 /\ x.seq < nextSeq[t]
       /\ \A e \in Range(events[t]) : e.seq = x.seq => e = x
  BY <1>1, <1>8 DEF PipeKept, Event
<1>13. \A f \in heard[s] : f.seq \in Nat
  BY <1>1 DEF TypeOK, Event
<1>14. /\ \A e : Overtaken(e, s) => Overtaken(e, s)'
       /\ stream'[s].task = t /\ stream'[s].last = IF x.seq > l THEN x.seq ELSE l
  BY <1>7 DEF Overtaken
<1>15. Reader(s, t)'
  <2>1. CASE x.seq > l
    <3>1. heard'[s] = heard[s] \cup {x} /\ stream'[s].last = x.seq
      BY <1>7, <1>14, <2>1
    <3>2. \A f \in heard'[s] : f.seq <= x.seq
      BY <1>11, <1>12, <1>13, <2>1, <3>1
    <3>3. ASSUME NEW f \in heard'[s], NEW e \in Range(events[t])
          PROVE  /\ e.seq = f.seq => e = f
                 /\ e \in Pipe(t)' /\ e.from = f.from /\ e \notin heard'[s] => f.seq < e.seq
      <4>1. CASE f \in heard[s]
        BY <1>8, <1>11, <3>1, <3>3, <4>1
      <4>2. CASE f = x
        <5>1. e.seq = f.seq => e = f
          BY <1>12, <4>2
        <5>2. ASSUME e \in Pipe(t)', e.from = x.from PROVE x.seq < e.seq
          <6>1. e \in Range(p) \/ e \in Posted(t) \/ e \in Emitted(t)
            BY <1>7, <1>8, <5>2 DEF Pipe
          <6>2. e.task = t
            BY <1>1, <3>3 DEF HistoryKept
          <6>3. x \in Range(eq[t])
            BY <1>3, <1>4
          <6> QED BY <1>1, <1>5, <1>12, <5>2, <6>1, <6>2, <6>3 DEF OrderKept, Before
        <5> QED BY <4>2, <5>1, <5>2
      <4> QED BY <3>1, <3>3, <4>1, <4>2
    <3>4. \A e \in Range(events[t]) :
            \/ e \in heard'[s] \cup stolen'[s] \cup missed' \cup pushed'
            \/ e \in Pipe(t)'
            \/ Overtaken(e, s)'
      BY <1>1, <1>7, <1>8, <1>11, <1>14, <3>1
    <3>5. \E f \in heard'[s] : f.seq = x.seq
      BY <3>1
    <3> QED BY <1>1, <1>12, <3>1, <3>2, <3>3, <3>4, <3>5 DEF Reader
  <2>2. CASE ~(x.seq > l)
    <3>1. heard'[s] = heard[s] /\ stream'[s].last = l
      BY <1>7, <1>14, <2>2
    <3>2. ASSUME x \in Range(events[t]), x \notin heard[s] PROVE Overtaken(x, s)
      <4>1. l > 0 /\ x.seq <= l
        BY <1>12, <2>2
      <4>2. PICK f \in heard[s] : f.seq = l
        BY <1>11, <4>1
      <4>3. f.from # x.from
        BY <1>11, <1>12, <1>13, <3>2, <4>1, <4>2
      <4>4. x.seq # f.seq
        BY <1>11, <3>2
      <4> QED BY <1>12, <1>13, <4>1, <4>2, <4>3, <4>4 DEF Overtaken
    <3>3. \A e \in Range(events[t]) :
            \/ e \in heard'[s] \cup stolen'[s] \cup missed' \cup pushed'
            \/ e \in Pipe(t)'
            \/ Overtaken(e, s)'
      BY <1>1, <1>7, <1>8, <1>11, <1>14, <3>1, <3>2
    <3>4. \A f \in heard'[s], e \in Range(events'[t]) :
            /\ e.seq = f.seq => e = f
            /\ e \in Pipe(t)' /\ e.from = f.from /\ e \notin heard'[s] => f.seq < e.seq
      BY <1>1, <1>8, <1>11, <3>1
    <3> QED BY <1>1, <1>11, <3>1, <3>3, <3>4 DEF Reader
  <2> QED BY <2>1, <2>2
<1>16. ASSUME NEW r \in Streams, NEW u \in Tasks, r # s, stream[r].state = "live",
              u = stream[r].task
       PROVE  Reader(r, u)'
  <2>1. Reader(r, u)
    BY <1>1, <1>16 DEF ReaderKept
  <2>2. Pipe(u) \subseteq Pipe(u)' \cup missed' \cup pushed' \cup stolen'[r]
    BY <1>7, <1>8, <1>16
  <2> QED BY <1>1, <1>7, <1>8, <1>16, <2>1, <2>2, ReaderStays
<1>17. ReaderKept'
  <2> SUFFICES ASSUME NEW r \in Streams, NEW u, stream'[r].state = "live", u = stream'[r].task
               PROVE  Reader(r, u)'
    BY DEF ReaderKept, Reader
  <2>1. CASE r = s
    BY <1>14, <1>15, <2>1
  <2>2. CASE r # s
    BY <1>7, <1>16, <2>2 DEF TypeInv
  <2> QED BY <2>1, <2>2
<1> QED BY <1>9, <1>10, <1>17 DEF WayInv

\* A connection that closes asks for nothing.
LEMMA LeavesKeeps ==
  ASSUME TypeInv, WayInv, NEW s \in Streams, Leaves(s)
  PROVE  WayInv'
<1>1. /\ TypeOK /\ UNCHANGED <<nextSeq, events, posted, eq, emit, missed, pushed>>
      /\ stream' = [stream EXCEPT ![s] = [state |-> "closed", task |-> NoTask, last |-> 0]]
      /\ heard' = [heard EXCEPT ![s] = {}] /\ stolen' = [stolen EXCEPT ![s] = {}]
  BY DEF Leaves, TypeInv, eventVars
<1>2. \A u \in Tasks : Pipe(u)' = Pipe(u) /\ Emitted(u)' = Emitted(u) /\ Posted(u)' = Posted(u)
  BY <1>1 DEF Pipe, Emitted, Posted
<1>3. OrderKept'
  BY <1>1, <1>2 DEF WayInv, OrderKept, InOrder, Before
<1>4. HistoryKept' /\ PipeKept'
  BY <1>1, <1>2, PipeShrinks DEF WayInv
<1>5. ReaderKept'
  <2> SUFFICES ASSUME NEW r \in Streams, NEW u, stream'[r].state = "live", u = stream'[r].task
               PROVE  Reader(r, u)'
    BY DEF ReaderKept, Reader
  <2>1. /\ stream'[r] = stream[r] /\ heard'[r] = heard[r] /\ stolen'[r] = stolen[r]
        /\ stream[r].state = "live" /\ u = stream[r].task /\ u \in Tasks
    BY <1>1 DEF TypeInv, TypeOK
  <2>2. Reader(r, u)
    BY <2>1 DEF WayInv, ReaderKept
  <2> QED BY <1>1, <1>2, <2>1, <2>2, ReaderStays
<1> QED BY <1>3, <1>4, <1>5 DEF WayInv

\* Every step keeps the invariant.
LEMMA GapStep == GapInv /\ [Next]_vars => GapInv'
<1> SUFFICES ASSUME GapInv, [Next]_vars PROVE GapInv'
  OBVIOUS
<1>1. TypeInv /\ IInv /\ EmitKept /\ WayInv /\ TypeInv' /\ IInv' /\ TypeOK'
  BY TypeStep, InvStep DEF GapInv, TypeInv
<1>2. ASSUME Still, EmitKept' PROVE GapInv'
  BY <1>1, <1>2, StillKeeps DEF GapInv
<1>3. ASSUME NEW t \in Tasks, Request(t) \/ Submission(t) \/ Thread(t)
      PROVE  GapInv'
  BY <1>2, <1>3, RequestEmits, ThreadEmits
<1>4. CASE Shutdown
  BY <1>2, <1>4, RequestEmits
<1>5. ASSUME NEW a \in Actors, Emission(a) \/ Logs(a) PROVE GapInv'
  <2>1. CASE Emission(a)
    BY <1>1, <2>1, WayEmits, RecordKeeps, PostKeeps DEF GapInv, Emission
  <2>2. CASE Logs(a)
    BY <1>2, <2>2, LogsEmits
  <2> QED BY <1>5, <2>1, <2>2
<1>6. CASE Enqueue
  BY <1>1, <1>6, WayEmits, EnqueueKeeps DEF GapInv
<1>7. ASSUME NEW s \in Streams, NEW t \in Tasks, Opens(s, t) PROVE GapInv'
  BY <1>1, <1>7, WayEmits, OpensKeeps DEF GapInv
<1>8. ASSUME NEW s \in Streams, Hears(s) \/ Leaves(s) PROVE GapInv'
  BY <1>1, <1>8, WayEmits, HearsKeeps, LeavesKeeps DEF GapInv
<1>9. CASE UNCHANGED vars
  BY <1>1, <1>9, WayEmits, StillKeeps DEF GapInv
<1> QED BY <1>3, <1>4, <1>5, <1>6, <1>7, <1>8, <1>9 DEF Next

\* What actors emit.
LEMMA RangeEmit == TypeOK => Range(emit) = {emit[a] : a \in Actors}
BY DEF TypeOK, Range

\* Between replay and live events no reader misses an event without a reason,
\* however many threads log to its task: what it was not sent is on its way, did
\* not fit the full queue, went to another reader, or was overtaken by a
\* later-numbered event of another thread (task_events, TaskRegistry.subscribe).
THEOREM NoGap == Spec => []GapsExplained
<1>1. GapInv => GapsExplained
  <2> SUFFICES ASSUME GapInv, NEW s \in Streams, stream[s].state = "live",
                      NEW e \in Range(events[stream[s].task])
               PROVE  \/ e \in heard[s] \cup stolen[s] \cup missed \cup pushed
                      \/ OnItsWay(e) \/ Overtaken(e, s)
    BY DEF GapsExplained
  <2>1. PICK t \in Tasks : t = stream[s].task
    BY DEF GapInv, TypeInv
  <2>2. e.task = t
    BY <2>1 DEF GapInv, WayInv, HistoryKept
  <2>3. e \in Pipe(t) => OnItsWay(e)
    <3>1. Range(emit) = {emit[a] : a \in Actors}
      BY RangeEmit DEF GapInv, TypeInv
    <3> QED BY <2>2, <3>1 DEF Pipe, Posted, Emitted, OnItsWay
  <2>4. Reader(s, t)
    BY <2>1 DEF GapInv, WayInv, ReaderKept
  <2> QED BY <2>1, <2>3, <2>4 DEF Reader
<1>2. Init => GapInv
  BY GapInit
<1>3. GapInv /\ [Next]_vars => GapInv'
  BY GapStep
<1> QED BY <1>1, <1>2, <1>3, PTL DEF Spec


-----------------------------------------------------------------------------
(* One verdict *)

\* What has been, or is about to be, said of a task.
Said(t) == {x.kind : x \in Range(events[t]) \cup Range(eq[t]) \cup Posted(t)
                             \cup {y \in {emit[a] : a \in Actors} : y.task = t}}

\* A verdict of a task: a request has canceled it in time, or its thread is
\* through and has recorded the verdict.
Decided(t, k) == \/ t \in early /\ k = "canceled"
                 \/ wpc[t] = "ended" /\ k = status[t]
VerdictKept == \A t \in Tasks :
  /\ \A k \in Said(t) \cap Verdicts : Decided(t, k)
  /\ t \in early /\ wpc[t] = "ended" => status[t] = "canceled"

VerdictInv == TypeInv /\ IInv /\ VerdictKept

\* At the start nothing is said.
LEMMA VerdictInit == Init => VerdictInv
<1> SUFFICES ASSUME Init PROVE VerdictInv
  OBVIOUS
<1>1. \A t \in Tasks : Range(events[t]) = {} /\ Range(eq[t]) = {} /\ Posted(t) = {}
  BY DEF Init, Range, Posted
<1>2. \A t \in Tasks, a \in Actors : emit[a].task # t
  BY NamesAssumption DEF Init, NoEvent
<1>3. \A t \in Tasks : Said(t) = {}
  BY <1>1, <1>2 DEF Said
<1>4. \A t \in Tasks : wpc[t] = "none"
  BY DEF Init
<1> QED BY <1>3, <1>4, TypeInit, InvInit DEF VerdictInv, VerdictKept

\* What is said of a task grows by what an actor begins to emit.
LEMMA EmitsSays ==
  ASSUME TypeOK, NEW a \in Actors, NEW t \in Tasks, NEW k, Emits(a, t, k),
         UNCHANGED <<events, eq, posted>>
  PROVE  /\ Said(t)' \subseteq Said(t) \cup {k}
         /\ \A u \in Tasks : u # t => Said(u)' \subseteq Said(u)
<1>1. /\ emit'[a].task = t /\ emit'[a].kind = k
      /\ \A b \in Actors : b # a => emit'[b] = emit[b]
  BY DEF Emits, TypeOK
<1> QED BY <1>1 DEF Said, Posted

\* Nothing new is said on the way of an event.
LEMMA WaySays ==
  ASSUME TypeInv, NEW t \in Tasks,
         \/ \E a \in Actors : Emission(a)
         \/ Enqueue
         \/ \E s \in Streams : Hears(s)
         \/ UNCHANGED <<emit, events, posted, eq>>
  PROVE  Said(t)' \subseteq Said(t)
<1>0. TypeOK /\ posted \in Seq(Event)
  BY DEF TypeInv, TypeOK
<1>1. ASSUME NEW a \in Actors, Record(a) PROVE Said(t)' \subseteq Said(t)
  <2>1. PICK e \in Event, u \in Tasks :
          /\ u = emit[a].task /\ e.task = u /\ e.kind = emit[a].kind
          /\ emit' = [emit EXCEPT ![a] = e]
          /\ events' = [events EXCEPT ![u] = Kept(Append(events[u], e))]
    <3>1. emit[a] \in Event
      BY <1>0, <1>1 DEF Record, TypeOK
    <3>2. PICK u \in Tasks : u = emit[a].task
      BY <3>1 DEF Event
    <3>3. PICK n \in Nat : n = nextSeq[u]
      BY <1>0 DEF TypeOK
    <3>4. PICK e \in Event : e = [emit[a] EXCEPT !.seq = n]
      BY <3>1 DEF Event
    <3>5. e.task = u /\ e.kind = emit[a].kind
      BY <3>1, <3>2, <3>4 DEF Event
    <3> QED BY <1>1, <3>2, <3>3, <3>4, <3>5 DEF Record
  <2>2. events[u] \in Seq(Event) /\ Len(events[u]) <= HistoryLimit
    BY <1>0 DEF TypeOK
  <2>3. Range(Kept(Append(events[u], e))) \subseteq Range(events[u]) \cup {e}
    BY <2>2, RangeKept
  <2>4. \A x \in Range(events'[t]) : x \in Range(events[t]) \/ (t = u /\ x = e)
    <3>1. \A v \in Tasks : v # u => events'[v] = events[v]
      BY <1>0, <2>1 DEF TypeOK
    <3>2. events'[u] = Kept(Append(events[u], e))
      BY <1>0, <2>1 DEF TypeOK
    <3> QED BY <2>3, <3>1, <3>2
  <2>5. emit'[a] = e /\ \A b \in Actors : b # a => emit'[b] = emit[b]
    BY <1>0, <2>1 DEF TypeOK
  <2>6. UNCHANGED <<posted, eq>>
    BY <1>1 DEF Record
  <2>7. Posted(t)' = Posted(t)
    BY <2>6 DEF Posted
  <2>8. t = u => emit[a].kind \in Said(t)
    BY <2>1 DEF Said
  <2> QED BY <2>1, <2>4, <2>5, <2>6, <2>7, <2>8 DEF Said
<1>2. ASSUME NEW a \in Actors, Post(a) PROVE Said(t)' \subseteq Said(t)
  <2>1. emit[a] \in Event /\ posted' = Append(posted, emit[a])
    BY <1>0, <1>2 DEF Post, TypeOK
  <2>2. Range(posted') = Range(posted) \cup {emit[a]}
    BY <1>0, <2>1, RangeAppend
  <2>3. /\ UNCHANGED <<events, eq>> /\ emit'[a].task = NoTask
        /\ \A b \in Actors : b # a => emit'[b] = emit[b]
    BY <1>0, <1>2 DEF Post, TypeOK, NoEvent, eventVars
  <2> QED BY <2>2, <2>3, NamesAssumption DEF Said, Posted
<1>3. CASE Enqueue
  <2>1. /\ Head(posted) \in Event /\ posted' = Tail(posted) /\ UNCHANGED <<emit, events>>
        /\ Range(posted) = {Head(posted)} \cup Range(posted')
    BY <1>0, <1>3, RangeHeadTail DEF Enqueue, eventVars
  <2>2. PICK e \in Event, u \in Tasks : e = Head(posted) /\ u = e.task
    BY <2>1 DEF Event
  <2>3. PICK q \in Seq(Event) : q = eq[u]
    BY <1>0 DEF TypeOK
  <2>4. \/ eq' = eq
        \/ eq' = [eq EXCEPT ![u] = Append(q, e)]
        \/ Len(q) = QueueCap /\ eq' = [eq EXCEPT ![u] = Append(Tail(q), e)]
    BY <1>3, <2>2, <2>3 DEF Enqueue
  <2>5. Range(Append(q, e)) = Range(q) \cup {e}
    BY RangeAppend
  <2>6. ASSUME Len(q) = QueueCap PROVE Range(Append(Tail(q), e)) \subseteq Range(q) \cup {e}
    <3>1. q # <<>>
      BY <2>6, SizesAssumption
    <3>2. PICK p \in Seq(Event) : p = Tail(q) /\ Range(p) \subseteq Range(q)
      BY <3>1, RangeHeadTail
    <3>3. Range(Append(p, e)) = Range(p) \cup {e}
      BY RangeAppend
    <3> QED BY <3>2, <3>3
  <2>7. \A x \in Range(eq'[t]) : x \in Range(eq[t]) \/ (t = u /\ x = e)
    <3>1. CASE t = u
      <4>1. \/ eq'[u] = q \/ eq'[u] = Append(q, e)
            \/ Len(q) = QueueCap /\ eq'[u] = Append(Tail(q), e)
        BY <1>0, <2>3, <2>4 DEF TypeOK
      <4> QED BY <2>3, <2>5, <2>6, <3>1, <4>1
    <3>2. CASE t # u
      <4>1. eq'[t] = eq[t]
        BY <1>0, <2>4, <3>2 DEF TypeOK
      <4> QED BY <4>1
    <3> QED BY <3>1, <3>2
  <2>8. t = u => e \in Posted(t)
    BY <2>1, <2>2 DEF Posted
  <2>9. Posted(t)' \subseteq Posted(t)
    BY <2>1 DEF Posted
  <2> QED BY <2>1, <2>7, <2>8, <2>9 DEF Said
<1>4. ASSUME NEW s \in Streams, Hears(s) PROVE Said(t)' \subseteq Said(t)
  <2>1. PICK u \in Tasks : u = stream[s].task
    BY <1>4 DEF Hears, TypeInv
  <2>2. PICK q \in Seq(Event) : q = eq[u]
    BY <1>0 DEF TypeOK
  <2>3. q # <<>> /\ eq' = [eq EXCEPT ![u] = Tail(q)] /\ UNCHANGED <<emit, events, posted>>
    BY <1>4, <2>1, <2>2 DEF Hears, eventVars
  <2>4. Range(Tail(q)) \subseteq Range(q)
    BY <2>3, RangeHeadTail
  <2>5. Range(eq'[t]) \subseteq Range(eq[t])
    BY <1>0, <2>2, <2>3, <2>4 DEF TypeOK
  <2> QED BY <2>3, <2>5 DEF Said, Posted
<1>5. CASE UNCHANGED <<emit, events, posted, eq>>
  BY <1>5 DEF Said, Posted
<1> QED BY <1>1, <1>2, <1>3, <1>4, <1>5 DEF Emission

\* A thread that is through, and a record it has closed, stay as they are; a
\* task canceled in time stays canceled.
LEMMA DecidedStays ==
  ASSUME IInv, NEW u \in Tasks,
         \/ \E t \in Tasks : Request(t) \/ Submission(t) \/ Thread(t)
         \/ \E a \in Actors : Logs(a)
         \/ Shutdown
  PROVE  /\ \A k : Decided(u, k) => Decided(u, k)'
         /\ u \in early' /\ wpc'[u] = "ended" => u \in early
         /\ wpc[u] = "ended" => wpc'[u] = "ended" /\ status'[u] = status[u]
<1>1. Typed /\ RecordKept /\ EarlyKept
  BY DEF IInv
<1>2. /\ early \subseteq early'
      /\ u \in early' /\ wpc'[u] = "ended" => u \in early
      /\ wpc[u] = "ended" => wpc'[u] = "ended" /\ status'[u] = status[u]
  <2>1. ASSUME NEW t \in Tasks, Request(t) \/ Submission(t)
        PROVE  /\ early \subseteq early'
               /\ u \in early' /\ wpc'[u] = "ended" => u \in early
               /\ wpc[u] = "ended" => wpc'[u] = "ended" /\ status'[u] = status[u]
    BY <1>1, <2>1 DEF Request, Submission, Claims, CancelsPending, CancelsRunning, Submits,
       NamesHolder, Typed, RecordKept, recVars, threadVars
  <2>2. ASSUME NEW t \in Tasks, Thread(t)
        PROVE  /\ early \subseteq early'
               /\ u \in early' /\ wpc'[u] = "ended" => u \in early
               /\ wpc[u] = "ended" => wpc'[u] = "ended" /\ status'[u] = status[u]
    BY <1>1, <2>2 DEF Thread, Picks, Starts, Announces, StopsEarly, PreparationFails, EntersBody,
       LeavesBody, Releases, Finishes, Typed, recVars, threadVars
  <2>3. CASE Shutdown
    BY <1>1, <2>3 DEF Shutdown, Typed, recVars
  <2>4. ASSUME NEW a \in Actors, Logs(a)
        PROVE  /\ early \subseteq early'
               /\ u \in early' /\ wpc'[u] = "ended" => u \in early
               /\ wpc[u] = "ended" => wpc'[u] = "ended" /\ status'[u] = status[u]
    BY <2>4 DEF Logs, recVars, threadVars
  <2> QED BY <2>1, <2>2, <2>3, <2>4
<1>3. ASSUME NEW k, Decided(u, k) PROVE Decided(u, k)'
  BY <1>2, <1>3 DEF Decided
<1> QED BY <1>2, <1>3

\* Every step keeps the invariant.
LEMMA VerdictStep == VerdictInv /\ [Next]_vars => VerdictInv'
<1> SUFFICES ASSUME VerdictInv, [Next]_vars PROVE VerdictInv'
  OBVIOUS
<1>1. TypeInv /\ TypeOK /\ IInv /\ VerdictKept /\ TypeInv' /\ IInv' /\ Tasks \subseteq Actors
      /\ "loop" \in Actors
  BY TypeStep, InvStep DEF VerdictInv, TypeInv, Actors
<1>2. CASE \/ \E a \in Actors : Emission(a)
           \/ Enqueue
           \/ \E s \in Streams, t \in Tasks : Opens(s, t)
           \/ \E s \in Streams : Hears(s) \/ Leaves(s)
           \/ UNCHANGED vars
  <2>1. UNCHANGED <<early, wpc, status>>
    BY <1>2 DEF Emission, Record, Post, Enqueue, Opens, Hears, Leaves, vars, recVars, threadVars
  <2>2. \A t \in Tasks : Said(t)' \subseteq Said(t)
    <3>1. \/ \E a \in Actors : Emission(a)
          \/ Enqueue
          \/ \E s \in Streams : Hears(s)
          \/ UNCHANGED <<emit, events, posted, eq>>
      BY <1>2 DEF Opens, Leaves, vars, eventVars
    <3> QED BY <1>1, <3>1, WaySays
  <2> QED BY <1>1, <2>1, <2>2 DEF VerdictInv, VerdictKept, Decided
<1>3. ASSUME \/ \E t \in Tasks : Request(t) \/ Submission(t) \/ Thread(t)
             \/ \E a \in Actors : Logs(a)
             \/ Shutdown,
             NEW a \in Actors, NEW t \in Tasks, NEW k, Emits(a, t, k),
             UNCHANGED <<events, eq, posted>>, k \in Verdicts => Decided(t, k)',
             \A u \in Tasks : u \in early /\ wpc'[u] = "ended" /\ wpc[u] # "ended"
                                => status'[u] = "canceled"
      PROVE  VerdictInv'
  <2>1. \A u \in Tasks : /\ \A l : Decided(u, l) => Decided(u, l)'
                         /\ u \in early' /\ wpc'[u] = "ended" => u \in early
                         /\ wpc[u] = "ended" => wpc'[u] = "ended" /\ status'[u] = status[u]
    BY <1>1, <1>3, DecidedStays
  <2>2. /\ Said(t)' \subseteq Said(t) \cup {k}
        /\ \A u \in Tasks : u # t => Said(u)' \subseteq Said(u)
    BY <1>1, <1>3, EmitsSays
  <2>3. ASSUME NEW u \in Tasks
        PROVE  (/\ \A l \in Said(u) \cap Verdicts : Decided(u, l)
                /\ u \in early /\ wpc[u] = "ended" => status[u] = "canceled")'
    <3>1. ASSUME NEW l \in Said(u)' \cap Verdicts PROVE Decided(u, l)'
      <4>1. CASE l \in Said(u)
        BY <1>1, <2>1, <3>1, <4>1 DEF VerdictKept
      <4>2. CASE l \notin Said(u)
        BY <1>3, <2>2, <3>1, <4>2
      <4> QED BY <4>1, <4>2
    <3> QED BY <1>1, <1>3, <2>1, <3>1 DEF VerdictKept
  <2> QED BY <1>1, <2>3 DEF VerdictInv, VerdictKept
<1>4. ASSUME NEW t \in Tasks, Request(t) \/ Submission(t) \/ Thread(t)
      PROVE  VerdictInv'
  <2> USE DEF lockVars, recVars, threadVars, eventVars, streamVars
  <2>0. Typed /\ EarlyKept
    BY <1>1 DEF IInv
  <2>1. CASE CancelsPending(t)
    <3>1. Emits("loop", t, "canceled") /\ UNCHANGED <<events, eq, posted>> /\ t \in early'
          /\ \A u \in Tasks : wpc'[u] = "ended" => wpc[u] = "ended"
      BY <2>0, <2>1 DEF CancelsPending, Typed
    <3> QED BY <1>1, <1>3, <1>4, <3>1 DEF Decided
  <2>2. CASE CancelsRunning(t)
    <3>1. Emits("loop", t, "cancelling") /\ UNCHANGED <<events, eq, posted, wpc>>
      BY <2>2 DEF CancelsRunning
    <3> QED BY <1>1, <1>3, <1>4, <3>1 DEF Verdicts
  <2>3. CASE Announces(t)
    <3>1. Emits(t, t, "running") /\ UNCHANGED <<events, eq, posted>>
          /\ \A u \in Tasks : wpc'[u] = "ended" => wpc[u] = "ended"
      BY <2>0, <2>3 DEF Announces, Typed
    <3> QED BY <1>1, <1>3, <1>4, <3>1 DEF Verdicts
  <2>4. CASE StopsEarly(t)
    <3>1. Emits(t, t, "canceled") /\ UNCHANGED <<events, eq, posted>>
          /\ wpc'[t] = "ended" /\ status'[t] = "canceled"
          /\ \A u \in Tasks : u # t => wpc'[u] = wpc[u]
      BY <2>0, <2>4 DEF StopsEarly, Typed
    <3>2. \A u \in Tasks : u \in early /\ wpc'[u] = "ended" /\ wpc[u] # "ended"
                             => status'[u] = "canceled"
      BY <3>1
    <3> QED BY <1>1, <1>3, <1>4, <3>1, <3>2 DEF Decided
  <2>5. CASE Finishes(t)
    <3>1. Emits(t, t, Verdict(t)) /\ UNCHANGED <<events, eq, posted>>
          /\ wpc'[t] = "ended" /\ status'[t] = Verdict(t) /\ wpc[t] = "finishing"
          /\ \A u \in Tasks : u # t => wpc'[u] = wpc[u]
      BY <2>0, <2>5 DEF Finishes, Typed
    <3>2. \A u \in Tasks : u \in early /\ wpc'[u] = "ended" /\ wpc[u] # "ended"
                             => status'[u] = "canceled"
      BY <2>0, <3>1 DEF EarlyKept
    <3>3. PICK k : k = Verdict(t)
      OBVIOUS
    <3>4. Decided(t, k)'
      BY <3>1, <3>3 DEF Decided
    <3> QED BY <1>1, <1>3, <1>4, <3>1, <3>2, <3>3, <3>4
  <2>7. CASE \/ Claims(t) \/ Submission(t) \/ Picks(t) \/ Starts(t) \/ PreparationFails(t)
             \/ EntersBody(t) \/ LeavesBody(t) \/ Releases(t)
    <3>1. UNCHANGED <<emit, events, eq, posted>>
          /\ \A u \in Tasks : wpc'[u] = "ended" => wpc[u] = "ended"
      BY <2>0, <2>7 DEF Claims, Submission, Submits, NamesHolder, Picks, Starts,
         PreparationFails, EntersBody, LeavesBody, Releases, Typed
    <3>2. \A u \in Tasks : Said(u)' \subseteq Said(u)
      BY <1>1, <3>1, WaySays
    <3>3. \A u \in Tasks : /\ \A k : Decided(u, k) => Decided(u, k)'
                           /\ u \in early' /\ wpc'[u] = "ended" => u \in early
                           /\ wpc[u] = "ended" => wpc'[u] = "ended" /\ status'[u] = status[u]
      BY <1>1, <1>4, DecidedStays
    <3>4. ASSUME NEW u \in Tasks
          PROVE  (/\ \A l \in Said(u) \cap Verdicts : Decided(u, l)
                  /\ u \in early /\ wpc[u] = "ended" => status[u] = "canceled")'
      BY <1>1, <3>1, <3>2, <3>3 DEF VerdictKept
    <3> QED BY <1>1, <3>4 DEF VerdictInv, VerdictKept
  <2> QED BY <1>4, <2>1, <2>2, <2>3, <2>4, <2>5, <2>7 DEF Request, Thread
<1>6. ASSUME NEW a \in Actors, Logs(a) PROVE VerdictInv'
  <2>1. PICK t \in Tasks : t = context
    BY <1>1, <1>6 DEF Logs, TypeOK
  <2>2. Emits(a, t, "log") /\ UNCHANGED <<events, eq, posted, wpc>>
    BY <1>6, <2>1 DEF Logs, eventVars, threadVars
  <2> QED BY <1>1, <1>3, <1>6, <2>2 DEF Verdicts
<1>5. CASE Shutdown
  <2>1. UNCHANGED <<emit, events, eq, posted, early, status>>
        /\ \A u \in Tasks : wpc'[u] = "ended" <=> wpc[u] = "ended"
    BY <1>1, <1>5 DEF Shutdown, eventVars, recVars, IInv, Typed
  <2>2. \A u \in Tasks : Said(u)' \subseteq Said(u)
    BY <1>1, <2>1, WaySays
  <2> QED BY <1>1, <2>1, <2>2 DEF VerdictInv, VerdictKept, Decided
<1> QED BY <1>2, <1>4, <1>5, <1>6 DEF Next

\* Of a task no two different verdicts are announced, and what its thread leaves
\* in the record is what was announced, however cancel requests race with it.
THEOREM OneVerdict == Spec => []VerdictsAgree
<1>1. VerdictInv => VerdictsAgree
  <2> SUFFICES ASSUME VerdictInv, NEW t \in Tasks
               PROVE  /\ Cardinality(Announced(t)) <= 1
                      /\ wpc[t] = "ended" => Announced(t) \subseteq {status[t]}
    BY DEF VerdictsAgree
  <2>1. \A k \in Announced(t) : Decided(t, k)
    BY DEF VerdictInv, VerdictKept, Announced, Said
  <2>2. t \in early /\ wpc[t] = "ended" => status[t] = "canceled"
    BY DEF VerdictInv, VerdictKept
  <2>3. \A k, l \in Announced(t) : k = l
    BY <2>1, <2>2 DEF Decided
  <2>6. wpc[t] = "ended" => Announced(t) \subseteq {status[t]}
    BY <2>1, <2>2 DEF Decided
  <2>4. CASE Announced(t) = {}
    BY <2>4, <2>6, FS_EmptySet
  <2>5. CASE Announced(t) # {}
    <3>1. PICK k : Announced(t) = {k}
      BY <2>3, <2>5
    <3>2. Cardinality({k}) = 1
      BY FS_Singleton
    <3> QED BY <2>6, <3>1, <3>2
  <2> QED BY <2>4, <2>5, <2>6
<1> QED BY <1>1, VerdictInit, VerdictStep, PTL DEF Spec
=============================================================================
