--------------------------- MODULE SyncManager_proofs ---------------------------
(***************************************************************************)
(* The sync manager forgets no unsynced note, starves no retry, calls no   *)
(* note synced that the cloud has not held, and exits with its results     *)
(* written, for any words, limits and amount of trouble.                   *)
(***************************************************************************)
EXTENDS SyncManager, TLAPS

-----------------------------------------------------------------------------
(* The inductive invariant *)

\* The worker holds an item exactly while it handles one.
HandKept == hand # NoItem <=> wpc \in {"taken", "create", "recheck", "result"}

\* A thread takes the buffer only when it has written what it took before.
FlushKept == /\ flush["worker"] # NoFlush => wpc \in {"write", "lastWrite"}
             /\ phase = "stop" => flush["caller"] = NoFlush

\* The P1 items that passed a waiting one are among those of the streak.
TurnKept == passed <= streak

IInv == TypeOK /\ HandKept /\ FlushKept /\ TurnKept /\ UnsyncedPursued

-----------------------------------------------------------------------------
(* Lemmas about the queue *)

\* Putting an item into a class keeps the type of the queue.
LEMMA PutType ==
  ASSUME NEW q \in [Prios -> Seq(QueueItem)], NEW p \in Prios, NEW x \in QueueItem
  PROVE  Put(q, p, x) \in [Prios -> Seq(QueueItem)]
BY DEF Put

\* After a put, the item is in its class, and whatever was in a class is still.
LEMMA PutKeeps ==
  ASSUME NEW q \in [Prios -> Seq(QueueItem)], NEW p \in Prios, NEW x \in QueueItem
  PROVE  /\ \E i \in 1..Len(Put(q, p, x)[p]) : Put(q, p, x)[p][i] = x
         /\ \A r \in Prios : \A i \in 1..Len(q[r]) :
              i \in 1..Len(Put(q, p, x)[r]) /\ Put(q, p, x)[r][i] = q[r][i]
<1>1. /\ Put(q, p, x)[p] = Append(q[p], x)
      /\ \A r \in Prios \ {p} : Put(q, p, x)[r] = q[r]
  BY DEF Put
<1>2. /\ Len(Append(q[p], x)) = Len(q[p]) + 1
      /\ Append(q[p], x)[Len(q[p]) + 1] = x
      /\ \A i \in 1..Len(q[p]) : Append(q[p], x)[i] = q[p][i]
  OBVIOUS
<1>3. Len(q[p]) \in Nat
  OBVIOUS
<1>4. \E i \in 1..Len(Put(q, p, x)[p]) : Put(q, p, x)[p][i] = x
  BY <1>1, <1>2, <1>3
<1>5. ASSUME NEW r \in Prios, NEW i \in 1..Len(q[r])
      PROVE  i \in 1..Len(Put(q, p, x)[r]) /\ Put(q, p, x)[r][i] = q[r][i]
  <2>1. CASE r = p
    BY <2>1, <1>1, <1>2, <1>3
  <2>2. CASE r # p
    BY <2>2, <1>1
  <2> QED
    BY <2>1, <2>2
<1> QED
  BY <1>4, <1>5

\* Taking the head of a class removes no other item.
LEMMA TakeKeeps ==
  ASSUME NEW q \in [Prios -> Seq(QueueItem)], NEW p \in Prios, q[p] # <<>>
  PROVE  /\ Head(q[p]) \in QueueItem
         /\ [q EXCEPT ![p] = Tail(@)] \in [Prios -> Seq(QueueItem)]
         /\ \A r \in Prios : \A i \in 1..Len(q[r]) :
              \/ r = p /\ q[r][i] = Head(q[p])
              \/ \E j \in 1..Len([q EXCEPT ![p] = Tail(@)][r]) :
                   [q EXCEPT ![p] = Tail(@)][r][j] = q[r][i]
<1> DEFINE t == [q EXCEPT ![p] = Tail(@)]
<1>1. t[p] = Tail(q[p]) /\ \A r \in Prios \ {p} : t[r] = q[r]
  OBVIOUS
<1>2. /\ Head(q[p]) \in QueueItem /\ Head(q[p]) = q[p][1]
      /\ Tail(q[p]) \in Seq(QueueItem) /\ Len(Tail(q[p])) = Len(q[p]) - 1
      /\ \A i \in 1..Len(q[p]) : i > 1 => Tail(q[p])[i - 1] = q[p][i]
  OBVIOUS
<1>3. t \in [Prios -> Seq(QueueItem)]
  BY <1>2
<1>4. ASSUME NEW r \in Prios, NEW i \in 1..Len(q[r])
      PROVE  \/ r = p /\ q[r][i] = Head(q[p])
             \/ \E j \in 1..Len(t[r]) : t[r][j] = q[r][i]
  <2>1. CASE r # p
    BY <2>1, <1>1
  <2>2. CASE r = p /\ i = 1
    BY <2>2, <1>2
  <2>3. CASE r = p /\ i # 1
    <3>1. i - 1 \in 1..Len(t[r]) /\ t[r][i - 1] = q[r][i]
      BY <2>3, <1>1, <1>2
    <3> QED
      BY <3>1
  <2> QED
    BY <2>1, <2>2, <2>3
<1> QED
  BY <1>2, <1>3, <1>4
-----------------------------------------------------------------------------
(* The type invariant *)

\* The initial states have the type.
LEMMA TypeInit == Init => TypeOK
<1> SUFFICES ASSUME Init PROVE TypeOK
  OBVIOUS
<1>1. queue \in [Prios -> Seq(QueueItem)] /\ buffer \in Seq(Words)
  BY DEF Init
<1>2. flush \in [Flushers -> [step : {"none", "mark", "status"}, words : Seq(Words)]]
  BY DEF Init, NoFlush
<1>3. left \in [{"requests", "trouble"} -> Nat]
  BY SizesAssumption DEF Init
<1>4. streak \in 0..StarveLimit /\ passed \in Nat
  BY SizesAssumption DEF Init
<1>5. /\ note \in [Words -> NoteStates] /\ cloud \in [Words -> {"empty", "same", "other"}]
      /\ cache \in [Words -> Answers \cup {"no"}]
      /\ latest \in [Words -> {"none", "synced", "conflict", "failed"}]
  BY DEF Init, NoteStates
<1> QED
  BY <1>1, <1>2, <1>3, <1>4, <1>5 DEF Init, TypeOK, Results, WorkerStates

\* The callers' steps keep the type.
LEMMA TypeCallers ==
  ASSUME TypeOK, Warmup \/ Retry \/ Queues \/ \E w \in Words : SavesNote(w)
  PROVE  TypeOK'
<1>1. ASSUME NEW w \in Words, SavesNote(w) PROVE TypeOK'
  <2>1. note' \in [Words -> NoteStates] /\ blank' \subseteq Words
    BY <1>1 DEF TypeOK, SavesNote, NoteStates
  <2> QED BY <1>1, <2>1 DEF TypeOK, SavesNote, Prios, P1, apiVars, workVars, bufVars, histVars
<1>2. ASSUME NEW st, NEW p \in Prios, Collects(st, p) PROVE TypeOK'
  <2>1. todo' \subseteq [word : Words, prio : Prios]
    BY <1>2 DEF TypeOK, Collects
  <2>2. left' \in [{"requests", "trouble"} -> Nat]
    BY <1>2 DEF TypeOK, Collects, Spend
  <2> QED
    BY <1>2, <2>1, <2>2 DEF TypeOK, Collects, vars, dbVars, apiVars, queueVars, workVars, bufVars, histVars
<1>3. CASE Queues
  <2>1. PICK x \in todo : /\ todo' = todo \ {x}
                          /\ queue' = Put(queue, x.prio, [word |-> x.word, retry |-> 0])
                          /\ lost' \in {lost, lost \ {x.word}}
                          /\ UNCHANGED <<dbVars, apiVars, streak, passed, workVars, bufVars,
                                         latest, phase, left>>
    BY <1>3 DEF Queues
  <2>2. x.prio \in Prios /\ [word |-> x.word, retry |-> 0] \in QueueItem
    BY SizesAssumption DEF TypeOK, QueueItem
  <2>3. queue' \in [Prios -> Seq(QueueItem)]
    BY <2>1, <2>2, PutType DEF TypeOK
  <2> QED
    BY <2>1, <2>3 DEF TypeOK, vars, dbVars, apiVars, queueVars, workVars, bufVars, histVars
<1> QED
  BY <1>1, <1>2, <1>3 DEF Warmup, Retry, P2, P3, Prios

\* A held item has its fields.
LEMMA Held ==
  ASSUME TypeOK, HandKept, wpc \in {"taken", "create", "recheck", "result"}
  PROVE  /\ hand \in HandItem /\ hand.word \in Words /\ hand.prio \in Prios
         /\ hand.retry \in 0..MaxRetries /\ hand # NoItem
BY DEF TypeOK, HandKept, HandItem

\* Taking an item, in detail.
LEMMA TakesDetail ==
  ASSUME TypeOK, NEW p \in Prios, Holds(p), Takes(p)
  PROVE  /\ queue' \in [Prios -> Seq(QueueItem)]
         /\ hand' \in HandItem /\ hand' # NoItem
         /\ hand'.word = Head(queue[p]).word
<1>1. Head(queue[p]) \in QueueItem /\ queue' \in [Prios -> Seq(QueueItem)]
  BY TakeKeeps DEF TypeOK, Takes, Holds
<1>2. hand' = [word |-> Head(queue[p]).word, prio |-> p, retry |-> Head(queue[p]).retry]
  BY DEF Takes
<1>3. hand' \in HandItem
  BY <1>1, <1>2 DEF QueueItem, HandItem
<1>4. HandItem \subseteq [word : Words, prio : 1..3, retry : Nat]
  BY SizesAssumption DEF HandItem, Prios, P1, P2, P3
<1> QED
  BY <1>1, <1>2, <1>3, <1>4, NoItemAssumption

\* The worker's steps up to the result keep the type.
LEMMA TypeWorker1 ==
  ASSUME TypeOK, HandKept,
         TakesP1 \/ TakesOther \/ Pauses \/ Looks \/ Creates \/ LooksAgain \/ Raises
  PROVE  TypeOK'
<1>1. CASE TakesP1
  <2>1. P1 \in Prios /\ Holds(P1) /\ Takes(P1)
    BY <1>1 DEF TakesP1, Prios
  <2>2. queue' \in [Prios -> Seq(QueueItem)] /\ hand' \in HandItem
    BY <2>1, TakesDetail
  <2>3. streak' \in 0..StarveLimit /\ passed' \in Nat
    BY <1>1, SizesAssumption DEF TakesP1, TypeOK
  <2> QED
    BY <1>1, <2>1, <2>2, <2>3 DEF TypeOK, Takes, WorkerStates, vars, dbVars, apiVars, queueVars, workVars, bufVars, histVars
<1>2. CASE TakesOther
  <2>1. Other \in Prios /\ Holds(Other) /\ Takes(Other)
    BY <1>2 DEF TakesOther, Prios, Other
  <2>2. queue' \in [Prios -> Seq(QueueItem)] /\ hand' \in HandItem
    BY <2>1, TakesDetail
  <2>3. streak' \in 0..StarveLimit /\ passed' \in Nat
    BY <1>2, SizesAssumption DEF TakesOther, TypeOK
  <2> QED
    BY <1>2, <2>1, <2>2, <2>3 DEF TypeOK, Takes, WorkerStates, vars, dbVars, apiVars, queueVars, workVars, bufVars, histVars
<1>3. CASE Pauses
  <2>1. [word |-> hand.word, retry |-> hand.retry] \in QueueItem
    BY <1>3, Held DEF Pauses, QueueItem
  <2>2. queue' \in [Prios -> Seq(QueueItem)]
    BY <1>3, <2>1, PutType DEF Pauses, TypeOK, Prios
  <2> QED
    BY <1>3, <2>2 DEF TypeOK, Pauses, WorkerStates, vars, dbVars, apiVars, queueVars, workVars, bufVars, histVars
<1>4. CASE Looks
  <2>1. cache' \in [Words -> Answers \cup {"no"}] /\ result' \in Results /\ wpc' \in WorkerStates
    <3>1. PICK answer \in Answers \cup {"none"} :
            /\ Listing(hand.word, answer)
            /\ IF limited \/ answer \in {"none", "same", "other"}
               THEN Returns(Classify(hand.word, answer)) ELSE wpc' = "create" /\ UNCHANGED result
      BY <1>4 DEF Looks
    <3>2. Classify(hand.word, answer) \in {"synced", "conflict", "transient"}
      BY DEF Classify
    <3>3. result' \in Results /\ wpc' \in WorkerStates
      BY <3>1, <3>2 DEF TypeOK, Returns, Results, WorkerStates
    <3>4. cache' \in [Words -> Answers \cup {"no"}]
      BY <3>1, <1>4, Held DEF TypeOK, Looks, Listing, Answers
    <3> QED
      BY <3>3, <3>4
  <2> QED
    BY <1>4, <2>1 DEF TypeOK, Looks, vars, dbVars, apiVars, queueVars, workVars, bufVars, histVars
<1>5. CASE Creates
  <2>1. hand.word \in Words
    BY <1>5, Held DEF Creates
  <2>2. cache' \in [Words -> Answers \cup {"no"}]
    BY <1>5 DEF TypeOK, Creates
  <2>3. cloud' \in [Words -> {"empty", "same", "other"}]
    BY <1>5 DEF TypeOK, Creates
  <2>4. wpc' \in WorkerStates /\ result' \in Results /\ limited' \in BOOLEAN
    BY <1>5 DEF TypeOK, Creates, Returns, Results, WorkerStates
  <2>6. left' = left \/ Spend("trouble")
    BY <1>5 DEF Creates
  <2>7. left' \in [{"requests", "trouble"} -> Nat]
    BY <2>6 DEF TypeOK, Spend
  <2>5. agreed' \subseteq Words
    BY <1>5 DEF TypeOK, Creates
  <2> QED
    BY <1>5, <2>2, <2>3, <2>4, <2>5, <2>7 DEF TypeOK, Creates, vars, dbVars, apiVars, queueVars, workVars, bufVars, histVars
<1>6. CASE LooksAgain
  <2>1. PICK answer \in Answers \cup {"none"} :
          Listing(hand.word, answer) /\ Returns(Classify(hand.word, answer))
    BY <1>6 DEF LooksAgain
  <2>2. Classify(hand.word, answer) \in {"synced", "conflict", "transient"}
    BY DEF Classify
  <2>3. result' \in Results /\ wpc' \in WorkerStates
    BY <2>1, <2>2 DEF Returns, Results, WorkerStates
  <2>4. cache' \in [Words -> Answers \cup {"no"}]
    BY <2>1, <1>6, Held DEF TypeOK, LooksAgain, Listing, Answers
  <2> QED
    BY <1>6, <2>3, <2>4 DEF TypeOK, LooksAgain, vars, dbVars, apiVars, queueVars, workVars, bufVars, histVars
<1>7. CASE Raises
  <2>1. hand.word \in Words
    BY <1>7, Held DEF Raises
  <2>2. left' \in [{"requests", "trouble"} -> Nat]
    BY <1>7 DEF TypeOK, Raises, Spend
  <2> QED
    BY <1>7, <2>1, <2>2 DEF TypeOK, Raises, Results, WorkerStates, vars, dbVars, apiVars, queueVars, workVars, bufVars, histVars
<1> QED
  BY <1>1, <1>2, <1>3, <1>4, <1>5, <1>6, <1>7

\* The worker's steps on a result keep the type.
LEMMA TypeWorker2 ==
  ASSUME TypeOK, HandKept, Buffers \/ MarksConflict \/ MarksInvalid \/ Retries \/ GivesUp
  PROVE  TypeOK'
<1>1. hand.word \in Words /\ hand.prio \in Prios /\ hand.retry \in 0..MaxRetries
  BY Held DEF Buffers, MarksConflict, MarksInvalid, Retries, GivesUp
<1>2. CASE Buffers
  BY <1>1, <1>2 DEF TypeOK, Buffers, Drops, Results, WorkerStates, vars, dbVars, apiVars, queueVars, workVars, bufVars, histVars
<1>3. CASE MarksConflict
  <2>1. left' \in [{"requests", "trouble"} -> Nat]
    BY <1>3 DEF TypeOK, MarksConflict, Spend
  <2>2. note' \in [Words -> NoteStates] /\ processed' \subseteq Words /\ lost' \subseteq Words
    BY <1>1, <1>3 DEF TypeOK, MarksConflict, NoteStates
  <2> QED
    BY <1>1, <1>3, <2>1, <2>2 DEF TypeOK, MarksConflict, Drops, Results, WorkerStates, vars, dbVars, apiVars, queueVars, workVars, bufVars, histVars
<1>4. ASSUME NEW st \in {"conflict", "failed"}, WritesStatus(st)
      PROVE  /\ left' \in [{"requests", "trouble"} -> Nat]
             /\ note' \in [Words -> NoteStates] /\ lost' \subseteq Words
             /\ latest' \in [Words -> {"none", "synced", "conflict", "failed"}]
  BY <1>1, <1>4 DEF TypeOK, WritesStatus, MayRefuse, Spend, NoteStates
<1>5. CASE MarksInvalid
  <2>1. WritesStatus("failed")
    BY <1>5 DEF MarksInvalid
  <2> QED
    BY <1>4, <1>5, <2>1 DEF TypeOK, MarksInvalid, Drops, Results, WorkerStates, vars, dbVars, apiVars, queueVars, workVars, bufVars, histVars
<1>6. CASE Retries
  <2>1. [word |-> hand.word, retry |-> hand.retry + 1] \in QueueItem
    BY <1>1, <1>6, SizesAssumption DEF Retries, QueueItem
  <2>2. queue' \in [Prios -> Seq(QueueItem)]
    BY <1>1, <1>6, <2>1, PutType DEF TypeOK, Retries
  <2> QED
    BY <1>6, <2>2 DEF TypeOK, Retries, Drops, Results, WorkerStates, vars, dbVars, apiVars, queueVars, workVars, bufVars, histVars
<1>7. CASE GivesUp
  <2>1. WritesStatus("failed")
    BY <1>7 DEF GivesUp
  <2> QED
    BY <1>4, <1>7, <2>1 DEF TypeOK, GivesUp, Drops, Results, WorkerStates, vars, dbVars, apiVars, queueVars, workVars, bufVars, histVars
<1> QED
  BY <1>2, <1>3, <1>5, <1>6, <1>7

\* Flushes, shutdown, restarts and the user's edits keep the type.
LEMMA TypeRest ==
  ASSUME TypeOK,
         \/ SkipsFlush \/ Flushes \/ Leaves \/ LastFlush \/ CallerFlushes \/ Stops \/ Shutdown
         \/ Restarts
         \/ \E f \in Flushers : FlushStep(f)
         \/ \E w \in Words : EditsCloud(w)
         \/ UNCHANGED vars
  PROVE  TypeOK'
<1>1. ASSUME NEW f \in Flushers, TakesBuffer(f)
      PROVE  /\ buffer' \in Seq(Words)
             /\ flush' \in [Flushers -> [step : {"none", "mark", "status"}, words : Seq(Words)]]
  BY <1>1 DEF TypeOK, TakesBuffer, NoFlush
<1>2. "worker" \in Flushers /\ "caller" \in Flushers
  BY DEF Flushers
<1>3. CASE SkipsFlush \/ Leaves \/ Stops \/ ShutdownReturns \/ UNCHANGED vars
  BY <1>3 DEF TypeOK, SkipsFlush, Leaves, Stops, ShutdownReturns, WorkerStates, vars, dbVars, apiVars, queueVars, workVars, bufVars, histVars
<1>4. CASE Flushes \/ LastFlush
  <2>1. TakesBuffer("worker")
    BY <1>4 DEF Flushes, LastFlush
  <2> QED
    BY <1>1, <1>2, <1>4, <2>1 DEF TypeOK, Flushes, LastFlush, WorkerStates, vars, dbVars, apiVars, queueVars, workVars, bufVars, histVars
<1>5. CASE CallerFlushes \/ Joins
  <2>1. TakesBuffer("caller")
    BY <1>5 DEF CallerFlushes, Joins
  <2> QED
    BY <1>1, <1>2, <1>5, <2>1 DEF TypeOK, CallerFlushes, Joins, vars, dbVars, apiVars, queueVars, workVars, bufVars, histVars
<1>6. ASSUME NEW f \in Flushers, FlushMarks(f) PROVE TypeOK'
  <2>1. Range(flush[f].words) \subseteq Words
    BY DEF TypeOK, Range
  <2>2. processed' \subseteq Words /\ left' \in [{"requests", "trouble"} -> Nat]
    BY <1>6, <2>1 DEF TypeOK, FlushMarks, MayRefuse, Spend
  <2>3. flush' \in [Flushers -> [step : {"none", "mark", "status"}, words : Seq(Words)]]
    BY <1>6 DEF TypeOK, FlushMarks
  <2> QED
    BY <1>6, <2>2, <2>3 DEF TypeOK, FlushMarks, vars, dbVars, apiVars, queueVars, workVars, bufVars, histVars
<1>7. ASSUME NEW f \in Flushers, FlushStatuses(f) PROVE TypeOK'
  <2>1. Range(flush[f].words) \subseteq Words
    BY DEF TypeOK, Range
  <2>2. /\ note' \in [Words -> NoteStates] /\ lost' \subseteq Words
        /\ left' \in [{"requests", "trouble"} -> Nat]
    BY <1>7, <2>1 DEF TypeOK, FlushStatuses, MayRefuse, Spend, NoteStates
  <2>3. flush' \in [Flushers -> [step : {"none", "mark", "status"}, words : Seq(Words)]]
    BY <1>7 DEF TypeOK, FlushStatuses, NoFlush
  <2>4. wpc' \in WorkerStates
    BY <1>7 DEF TypeOK, FlushStatuses, AfterWrite, WorkerStates
  <2> QED
    BY <1>7, <2>2, <2>3, <2>4 DEF TypeOK, FlushStatuses, vars, dbVars, apiVars, queueVars, workVars, bufVars, histVars
<1>8. CASE Restarts
  <2>1. left' \in [{"requests", "trouble"} -> Nat]
    BY <1>8 DEF TypeOK, Restarts, Spend
  <2>2. queue' \in [Prios -> Seq(QueueItem)] /\ buffer' \in Seq(Words)
    BY <1>8 DEF Restarts
  <2>3. flush' \in [Flushers -> [step : {"none", "mark", "status"}, words : Seq(Words)]]
    BY <1>8 DEF Restarts, NoFlush
  <2>4. todo' \subseteq [word : Words, prio : Prios]
    BY <1>8 DEF Restarts, Prios
  <2>5. streak' \in 0..StarveLimit /\ passed' \in Nat
    BY <1>8, SizesAssumption DEF Restarts
  <2>6. /\ cache' \in [Words -> Answers \cup {"no"}]
        /\ latest' \in [Words -> {"none", "synced", "conflict", "failed"}]
    BY <1>8 DEF Restarts
  <2> QED
    BY <1>8, <2>1, <2>2, <2>3, <2>4, <2>5, <2>6
       DEF TypeOK, Restarts, Results, WorkerStates, dbVars
<1>9. ASSUME NEW w \in Words, EditsCloud(w) PROVE TypeOK'
  <2>1. left' \in [{"requests", "trouble"} -> Nat]
    BY <1>9 DEF TypeOK, EditsCloud, Spend
  <2> QED
    BY <1>9, <2>1 DEF TypeOK, EditsCloud, vars, dbVars, apiVars, queueVars, workVars, bufVars, histVars
<1> QED
  BY <1>3, <1>4, <1>5, <1>6, <1>7, <1>8, <1>9 DEF Shutdown, FlushStep

-----------------------------------------------------------------------------
(* The shape of the worker's state *)

\* The initial states have the shape.
LEMMA ShapeInit == Init => HandKept /\ FlushKept /\ TurnKept
BY DEF Init, HandKept, FlushKept, TurnKept, Flushers

\* A flush in progress has something to write.
LEMMA Writing ==
  ASSUME FlushKept, NEW f \in Flushers, FlushStep(f)
  PROVE  flush[f] # NoFlush /\ (f = "worker" => wpc \in {"write", "lastWrite"})
BY DEF FlushStep, FlushMarks, FlushStatuses, NoFlush, FlushKept

\* The worker's steps keep the hand in order.
LEMMA HandWorker == ASSUME TypeOK, HandKept, Worker PROVE HandKept'
<1>1. CASE TakesP1 \/ TakesOther
  <2>1. \E p \in Prios : Holds(p) /\ Takes(p)
    BY <1>1 DEF TakesP1, TakesOther, Prios, Other
  <2>2. hand' # NoItem /\ wpc' = "taken"
    BY <2>1, TakesDetail DEF Takes
  <2> QED
    BY <2>2 DEF HandKept
<1>2. CASE Pauses
  BY <1>2 DEF Pauses, HandKept
<1>3. CASE Looks \/ Creates \/ LooksAgain
  <2>1. hand' = hand /\ wpc \in {"taken", "create", "recheck"} /\ wpc' \in {"result", "create", "recheck"}
    <3>1. CASE Looks
      BY <3>1 DEF Looks, Returns, workVars
    <3>2. CASE Creates
      BY <3>2 DEF Creates, Returns
    <3>3. CASE LooksAgain
      BY <3>3 DEF LooksAgain, Returns
    <3> QED
      BY <1>3, <3>1, <3>2, <3>3
  <2> QED
    BY <2>1 DEF HandKept
<1>4. CASE Raises
  BY <1>4 DEF Raises, HandKept
<1>5. CASE Buffers \/ MarksConflict \/ MarksInvalid \/ Retries \/ GivesUp
  <2>1. Drops("flush") \/ Drops("idle")
    BY <1>5 DEF Buffers, MarksConflict, MarksInvalid, Retries, GivesUp
  <2> QED
    BY <2>1 DEF Drops, HandKept
<1>6. CASE SkipsFlush \/ Flushes \/ Leaves \/ LastFlush
  BY <1>6 DEF SkipsFlush, Flushes, Leaves, LastFlush, HandKept
<1> QED
  BY <1>1, <1>2, <1>3, <1>4, <1>5, <1>6 DEF Worker

\* Every step keeps the hand in order.
LEMMA HandStep == ASSUME TypeOK, HandKept, FlushKept, [Next]_vars PROVE HandKept'
<1>1. CASE Worker
  BY <1>1, HandWorker
<1>2. CASE Queues \/ Warmup \/ Retry \/ CallerFlushes \/ Stops \/ Shutdown \/ UNCHANGED vars
  BY <1>2 DEF Queues, Warmup, Retry, Collects, CallerFlushes, Stops, Shutdown, Joins, ShutdownReturns,
              HandKept, vars, workVars
<1>3. CASE Restarts
  BY <1>3 DEF Restarts, HandKept
<1>4. ASSUME NEW f \in Flushers, FlushStep(f) PROVE HandKept'
  <2>1. flush[f] # NoFlush /\ (f = "worker" => wpc \in {"write", "lastWrite"})
    BY <1>4, Writing
  <2>2. CASE FlushMarks(f)
    BY <2>2 DEF FlushMarks, HandKept, workVars
  <2>3. CASE FlushStatuses(f)
    BY <2>1, <2>3 DEF FlushStatuses, AfterWrite, HandKept
  <2> QED
    BY <1>4, <2>2, <2>3 DEF FlushStep
<1>5. ASSUME NEW w \in Words, SavesNote(w) \/ EditsCloud(w) PROVE HandKept'
  BY <1>5 DEF SavesNote, EditsCloud, HandKept, workVars
<1> QED
  BY <1>1, <1>2, <1>3, <1>4, <1>5 DEF Next

\* Every step leaves a thread's flush to that thread.
LEMMA FlushKeptStep == ASSUME TypeOK, FlushKept, [Next]_vars PROVE FlushKept'
<1>1. CASE \/ Warmup \/ Retry \/ Queues \/ TakesP1 \/ TakesOther \/ Pauses \/ Looks \/ Creates
           \/ LooksAgain \/ Raises \/ Buffers \/ MarksConflict \/ MarksInvalid \/ Retries \/ GivesUp
           \/ SkipsFlush \/ Leaves \/ \E w \in Words : SavesNote(w) \/ EditsCloud(w)
  <2>1. flush' = flush /\ phase' = phase /\ (wpc' = wpc \/ wpc \notin {"write", "lastWrite"})
    <3>1. CASE Warmup \/ Retry \/ Queues \/ \E w \in Words : SavesNote(w) \/ EditsCloud(w)
      BY <3>1 DEF Warmup, Retry, Collects, Queues, SavesNote, EditsCloud, bufVars, workVars
    <3>2. CASE TakesP1 \/ TakesOther \/ Pauses
      BY <3>2 DEF TakesP1, TakesOther, Takes, Pauses, bufVars
    <3>3. CASE Looks \/ Creates \/ LooksAgain \/ Raises
      BY <3>3 DEF Looks, Creates, LooksAgain, Raises, bufVars
    <3>4. CASE Buffers \/ MarksConflict \/ MarksInvalid \/ Retries \/ GivesUp \/ SkipsFlush \/ Leaves
      BY <3>4 DEF Buffers, MarksConflict, MarksInvalid, Retries, GivesUp, SkipsFlush, Leaves, bufVars
    <3> QED
      BY <1>1, <3>1, <3>2, <3>3, <3>4
  <2> QED
    BY <2>1 DEF FlushKept
<1>2. CASE Flushes \/ LastFlush
  <2>1. "worker" \in Flushers /\ flush["worker"] = NoFlush /\ phase' = phase
    BY <1>2 DEF Flushes, LastFlush, FlushKept, Flushers
  <2>2. flush'["caller"] = flush["caller"]
    BY <1>2 DEF Flushes, LastFlush, TakesBuffer, Flushers, TypeOK
  <2>3. flush'["worker"] # NoFlush => wpc' \in {"write", "lastWrite"}
    <3>1. CASE Flushes
      BY <3>1 DEF Flushes
    <3>2. CASE LastFlush
      BY <3>2, <2>1 DEF LastFlush, TakesBuffer, TypeOK
    <3> QED
      BY <1>2, <3>1, <3>2
  <2> QED
    BY <2>1, <2>2, <2>3 DEF FlushKept
<1>3. CASE CallerFlushes \/ Joins
  <2>1. flush'["worker"] = flush["worker"]
    BY <1>3 DEF CallerFlushes, Joins, TakesBuffer, Flushers, TypeOK
  <2> QED
    BY <1>3, <2>1 DEF CallerFlushes, Joins, FlushKept, workVars
<1>4. CASE Stops \/ ShutdownReturns \/ UNCHANGED vars
  BY <1>4 DEF Stops, ShutdownReturns, FlushKept, bufVars, workVars, vars
<1>5. CASE Restarts
  BY <1>5 DEF Restarts, FlushKept, Flushers
<1>6. ASSUME NEW f \in Flushers, FlushStep(f) PROVE FlushKept'
  <2>1. flush[f] # NoFlush /\ (f = "worker" => wpc \in {"write", "lastWrite"})
    BY <1>6, Writing
  <2>2. phase' = phase /\ \A g \in Flushers \ {f} : flush'[g] = flush[g]
    BY <1>6 DEF FlushStep, FlushMarks, FlushStatuses, TypeOK
  <2>3. wpc' = wpc \/ (f = "worker" /\ flush'[f] = NoFlush)
    BY <1>6 DEF FlushStep, FlushMarks, FlushStatuses, AfterWrite, TypeOK, workVars
  <2> QED
    BY <2>1, <2>2, <2>3 DEF FlushKept, Flushers
<1> QED
  BY <1>1, <1>2, <1>3, <1>4, <1>5, <1>6 DEF Next, Worker, Shutdown

\* Every step counts an item that passes as one of the streak.
LEMMA TurnStep == ASSUME TypeOK, TurnKept, [Next]_vars PROVE TurnKept'
<1>1. CASE TakesP1
  <2>1. passed \in Nat /\ streak \in Nat /\ StarveLimit \in Nat /\ passed <= streak
    BY SizesAssumption DEF TypeOK, TurnKept
  <2>2. CASE Holds(P2) \/ Holds(P3)
    <3>1. streak < StarveLimit /\ streak' = streak + 1 /\ passed' = passed + 1
      BY <1>1, <2>2 DEF TakesP1
    <3> QED
      BY <2>1, <3>1 DEF TurnKept
  <2>3. CASE ~(Holds(P2) \/ Holds(P3))
    <3>1. passed' = 0 /\ streak' \in {streak, streak + 1}
      BY <1>1, <2>3 DEF TakesP1
    <3> QED
      BY <2>1, <3>1 DEF TurnKept
  <2> QED
    BY <2>2, <2>3
<1>2. CASE TakesOther \/ Restarts
  BY <1>2 DEF TakesOther, Restarts, TurnKept
<1>3. CASE \/ Warmup \/ Retry \/ Queues \/ \E w \in Words : SavesNote(w) \/ EditsCloud(w)
           \/ UNCHANGED vars
  BY <1>3 DEF Warmup, Retry, Collects, Queues, SavesNote, EditsCloud, TurnKept, queueVars, vars
<1>4. CASE Pauses \/ Looks \/ Creates \/ LooksAgain \/ Raises
  BY <1>4 DEF Pauses, Looks, Creates, LooksAgain, Raises, TurnKept, queueVars
<1>5. CASE Buffers \/ MarksConflict \/ MarksInvalid \/ Retries \/ GivesUp
  BY <1>5 DEF Buffers, MarksConflict, MarksInvalid, Retries, GivesUp, TurnKept, queueVars
<1>6. CASE SkipsFlush \/ Flushes \/ Leaves \/ LastFlush \/ CallerFlushes \/ Stops \/ Shutdown
  BY <1>6 DEF SkipsFlush, Flushes, Leaves, LastFlush, CallerFlushes, Stops, Shutdown, Joins,
              ShutdownReturns, TurnKept, queueVars
<1>7. ASSUME NEW f \in Flushers, FlushStep(f) PROVE TurnKept'
  BY <1>7 DEF FlushStep, FlushMarks, FlushStatuses, TurnKept, queueVars
<1> QED
  BY <1>1, <1>2, <1>3, <1>4, <1>5, <1>6, <1>7 DEF Next, Worker

\* Every step keeps the type.
LEMMA TypeStep == ASSUME TypeOK, HandKept, [Next]_vars PROVE TypeOK'
BY TypeCallers, TypeWorker1, TypeWorker2, TypeRest DEF Next, Worker

-----------------------------------------------------------------------------
(* No unsynced note is forgotten *)

\* A step that leaves notes, requests, queue, hand and buffers alone.
LEMMA Aside ==
  ASSUME UnsyncedPursued, UNCHANGED <<note, todo, queue, hand, buffer, flush, lost>>
  PROVE  UnsyncedPursued'
BY DEF UnsyncedPursued, OnItsWay, Queued, InHand, Range

\* A step that only adds to what callers have read.
LEMMA Adds ==
  ASSUME UnsyncedPursued, todo \subseteq todo', UNCHANGED <<queue, hand, buffer, flush, lost>>,
         \A w \in Words : note'[w] = "unsynced" => note[w] = "unsynced" \/ \E x \in todo' : x.word = w
  PROVE  UnsyncedPursued'
BY DEF UnsyncedPursued, OnItsWay, Queued, InHand, Range

\* A step that puts an item into a class.
LEMMA PutInto ==
  ASSUME TypeOK, NEW p \in Prios, NEW x \in QueueItem, queue' = Put(queue, p, x)
  PROVE  /\ \E i \in 1..Len(queue'[p]) : queue'[p][i] = x
         /\ \A r \in Prios : \A i \in 1..Len(queue[r]) :
              i \in 1..Len(queue'[r]) /\ queue'[r][i] = queue[r][i]
<1>1. queue \in [Prios -> Seq(QueueItem)]
  BY DEF TypeOK
<1>2. /\ \E i \in 1..Len(Put(queue, p, x)[p]) : Put(queue, p, x)[p][i] = x
      /\ \A r \in Prios : \A i \in 1..Len(queue[r]) :
           i \in 1..Len(Put(queue, p, x)[r]) /\ Put(queue, p, x)[r][i] = queue[r][i]
  BY <1>1, PutKeeps, Zenon
<1> QED
  BY <1>2, Zenon

\* Callers' steps.
LEMMA PursuedCallers ==
  ASSUME TypeOK, UnsyncedPursued, Warmup \/ Retry \/ Queues \/ \E w \in Words : SavesNote(w)
  PROVE  UnsyncedPursued'
<1>1. ASSUME NEW v \in Words, SavesNote(v) PROVE UnsyncedPursued'
  <2>1. \A w \in Words : note'[w] = "unsynced" => note[w] = "unsynced" \/ w = v
    BY <1>1 DEF SavesNote, TypeOK
  <2>2. [word |-> v, prio |-> P1] \in todo' /\ [word |-> v, prio |-> P1].word = v
    BY <1>1 DEF SavesNote
  <2>3. todo \subseteq todo' /\ UNCHANGED <<queue, hand, buffer, flush, lost>>
    BY <1>1 DEF SavesNote, workVars, bufVars, histVars
  <2> QED
    BY <2>1, <2>2, <2>3, Adds
<1>2. CASE Warmup \/ Retry
  <2>1. todo \subseteq todo' /\ UNCHANGED <<note, queue, hand, buffer, flush, lost>>
    BY <1>2 DEF Warmup, Retry, Collects, dbVars, workVars, bufVars, histVars
  <2> QED
    BY <2>1, Adds
<1>3. CASE Queues
  <2>1. PICK x \in todo : /\ todo' = todo \ {x}
                          /\ queue' = Put(queue, x.prio, [word |-> x.word, retry |-> 0])
                          /\ lost' \in {lost, lost \ {x.word}}
                          /\ UNCHANGED <<note, hand, buffer, flush>>
    BY <1>3 DEF Queues, dbVars, workVars, bufVars
  <2> DEFINE item == [word |-> x.word, retry |-> 0]
  <2>2. x.prio \in Prios /\ item \in QueueItem
    BY SizesAssumption DEF TypeOK, QueueItem
  <2>3. /\ \E i \in 1..Len(queue'[x.prio]) : queue'[x.prio][i] = item
        /\ \A r \in Prios : \A i \in 1..Len(queue[r]) :
             i \in 1..Len(queue'[r]) /\ queue'[r][i] = queue[r][i]
    BY <2>1, <2>2, PutInto
  <2>5. ASSUME NEW w \in Words, note'[w] = "unsynced", w \notin lost' PROVE OnItsWay(w)'
    <3>1. CASE w = x.word
      <4>1. \E i \in 1..Len(queue'[x.prio]) : queue'[x.prio][i].word = w
        BY <2>3, <3>1
      <4> QED
        BY <2>2, <4>1 DEF OnItsWay, Queued
    <3>2. CASE w # x.word
      <4>1. OnItsWay(w)
        BY <2>1, <2>5, <3>2 DEF UnsyncedPursued
      <4>2. \A y \in todo : y.word = w => y \in todo'
        BY <2>1, <3>2
      <4>3. \A r \in Prios : Queued(w, r) => Queued(w, r)'
        BY <2>3 DEF Queued
      <4> QED
        BY <2>1, <4>1, <4>2, <4>3 DEF OnItsWay, InHand, Range
    <3> QED
      BY <3>1, <3>2
  <2> QED
    BY <2>5 DEF UnsyncedPursued
<1> QED
  BY <1>1, <1>2, <1>3

\* The worker takes the item it finds.
LEMMA PursuedTakes ==
  ASSUME TypeOK, HandKept, UnsyncedPursued, wpc = "idle", NEW p \in Prios, Holds(p), Takes(p)
  PROVE  UnsyncedPursued'
<1>1. hand = NoItem
  BY DEF HandKept
<1>2. hand' # NoItem /\ hand'.word = Head(queue[p]).word
  BY TakesDetail
<1>3. UNCHANGED <<note, todo, buffer, flush, lost>> /\ queue' = [queue EXCEPT ![p] = Tail(@)]
  BY DEF Takes, dbVars, bufVars, histVars
<1>4. \A r \in Prios : \A i \in 1..Len(queue[r]) :
         \/ queue[r][i] = Head(queue[p])
         \/ \E j \in 1..Len(queue'[r]) : queue'[r][j] = queue[r][i]
  <2>1. queue \in [Prios -> Seq(QueueItem)] /\ queue[p] # <<>>
    BY DEF TypeOK, Holds
  <2>2. \A r \in Prios : \A i \in 1..Len(queue[r]) :
           \/ r = p /\ queue[r][i] = Head(queue[p])
           \/ \E j \in 1..Len([queue EXCEPT ![p] = Tail(@)][r]) :
                [queue EXCEPT ![p] = Tail(@)][r][j] = queue[r][i]
    BY <2>1, TakeKeeps, Zenon
  <2> QED
    BY <1>3, <2>2, Zenon
<1>5. ASSUME NEW w \in Words, note'[w] = "unsynced", w \notin lost' PROVE OnItsWay(w)'
  <2>1. OnItsWay(w)
    BY <1>3, <1>5 DEF UnsyncedPursued
  <2>2. ASSUME NEW r \in Prios, Queued(w, r) PROVE InHand(w)' \/ Queued(w, r)'
    <3>1. PICK i \in 1..Len(queue[r]) : queue[r][i].word = w
      BY <2>2 DEF Queued
    <3>2. CASE queue[r][i] = Head(queue[p])
      BY <1>2, <3>1, <3>2 DEF InHand
    <3>3. CASE \E j \in 1..Len(queue'[r]) : queue'[r][j] = queue[r][i]
      BY <3>1, <3>3 DEF Queued
    <3> QED
      BY <1>4, <3>2, <3>3
  <2> QED
    BY <1>1, <1>3, <2>1, <2>2 DEF OnItsWay, InHand, Range
<1> QED
  BY <1>5 DEF UnsyncedPursued

\* The worker puts the item in its hand back into a class.
LEMMA PursuedPuts ==
  ASSUME TypeOK, UnsyncedPursued, NEW p \in Prios, NEW x \in QueueItem, x.word = hand.word,
         queue' = Put(queue, p, x), UNCHANGED <<note, todo, buffer, flush, lost>>
  PROVE  UnsyncedPursued'
<1>1. /\ \E i \in 1..Len(queue'[p]) : queue'[p][i] = x
      /\ \A r \in Prios : \A i \in 1..Len(queue[r]) :
           i \in 1..Len(queue'[r]) /\ queue'[r][i] = queue[r][i]
  BY PutInto
<1>3. ASSUME NEW w \in Words, note'[w] = "unsynced", w \notin lost' PROVE OnItsWay(w)'
  <2>1. OnItsWay(w)
    BY <1>3 DEF UnsyncedPursued
  <2>2. \A r \in Prios : Queued(w, r) => Queued(w, r)'
    BY <1>1 DEF Queued
  <2>3. InHand(w) => Queued(w, p)'
    BY <1>1 DEF InHand, Queued
  <2> QED
    BY <2>1, <2>2, <2>3 DEF OnItsWay, Range
<1> QED
  BY <1>3 DEF UnsyncedPursued

\* The worker is done with the item in its hand, whose word needs no more.
LEMMA PursuedDone ==
  ASSUME UnsyncedPursued, UNCHANGED <<todo, queue, buffer, flush>>, lost \subseteq lost',
         \A w \in Words : note'[w] = "unsynced" /\ w \notin lost' => note[w] = "unsynced" /\ w # hand.word
  PROVE  UnsyncedPursued'
BY DEF UnsyncedPursued, OnItsWay, Queued, InHand, Range

\* A thread without a flush takes the buffer.
LEMMA PursuedTakesBuffer ==
  ASSUME TypeOK, UnsyncedPursued, NEW f \in Flushers, flush[f] = NoFlush, TakesBuffer(f),
         UNCHANGED <<note, todo, queue, hand, lost>>
  PROVE  UnsyncedPursued'
<1>1. Range(NoFlush.words) = {} /\ (Range(buffer) # {} => buffer # <<>>)
  BY DEF Range, NoFlush
<1>2. buffer # <<>> => flush'[f].words = buffer
  BY DEF TakesBuffer, TypeOK
<1>3. \A g \in Flushers \ {f} : flush'[g] = flush[g]
  BY DEF TakesBuffer, TypeOK
<1>4. ASSUME NEW w \in Words, note'[w] = "unsynced", w \notin lost' PROVE OnItsWay(w)'
  <2>1. OnItsWay(w)
    BY <1>4 DEF UnsyncedPursued
  <2>2. w \in Range(buffer) => w \in Range(flush'[f].words)
    BY <1>1, <1>2
  <2>3. \A g \in Flushers : w \in Range(flush[g].words) => w \in Range(flush'[g].words)
    BY <1>1, <1>3
  <2> QED
    BY <2>1, <2>2, <2>3 DEF OnItsWay, Queued, InHand
<1> QED
  BY <1>4 DEF UnsyncedPursued

\* The worker's steps.
LEMMA PursuedWorker == ASSUME TypeOK, HandKept, FlushKept, UnsyncedPursued, Worker PROVE UnsyncedPursued'
<1>1. CASE TakesP1
  <2>1. wpc = "idle" /\ P1 \in Prios /\ Holds(P1) /\ Takes(P1)
    BY <1>1 DEF TakesP1, Prios
  <2> QED
    BY <2>1, PursuedTakes
<1>2. CASE TakesOther
  <2>1. wpc = "idle" /\ Other \in Prios /\ Holds(Other) /\ Takes(Other)
    BY <1>2 DEF TakesOther, Prios, Other
  <2> QED
    BY <2>1, PursuedTakes
<1>3. CASE Pauses
  <2> DEFINE x == [word |-> hand.word, retry |-> hand.retry]
  <2>1. x \in QueueItem /\ x.word = hand.word /\ P3 \in Prios
    BY <1>3, Held DEF Pauses, QueueItem, Prios
  <2>2. queue' = Put(queue, P3, x) /\ UNCHANGED <<note, todo, buffer, flush, lost>>
    BY <1>3 DEF Pauses, dbVars, bufVars, histVars
  <2> QED
    BY <2>1, <2>2, PursuedPuts
<1>4. CASE Retries
  <2> DEFINE x == [word |-> hand.word, retry |-> hand.retry + 1]
  <2>1. x \in QueueItem /\ x.word = hand.word /\ hand.prio \in Prios
    BY <1>4, Held, SizesAssumption DEF Retries, QueueItem
  <2>2. queue' = Put(queue, hand.prio, x) /\ UNCHANGED <<note, todo, buffer, flush, lost>>
    BY <1>4 DEF Retries, dbVars, bufVars, histVars
  <2> QED
    BY <2>1, <2>2, PursuedPuts
<1>5. CASE Looks \/ Creates \/ LooksAgain
  <2>1. UNCHANGED <<note, todo, queue, hand, buffer, flush, lost>>
    BY <1>5 DEF Looks, Creates, LooksAgain, dbVars, queueVars, bufVars, histVars
  <2> QED
    BY <2>1, Aside
<1>6. CASE SkipsFlush \/ Leaves
  <2>1. UNCHANGED <<note, todo, queue, hand, buffer, flush, lost>>
    BY <1>6 DEF SkipsFlush, Leaves, dbVars, queueVars, bufVars, histVars
  <2> QED
    BY <2>1, Aside
<1>7. CASE Raises
  <2>1. UNCHANGED <<note, todo, queue, buffer, flush>> /\ lost' = lost \cup {hand.word}
    BY <1>7 DEF Raises, dbVars, queueVars, bufVars
  <2> QED
    BY <2>1, PursuedDone
<1>8. CASE MarksConflict
  <2>1. UNCHANGED <<todo, queue, buffer, flush>>
    BY <1>8 DEF MarksConflict, queueVars, bufVars
  <2>2. \/ note' = [note EXCEPT ![hand.word] = "conflict"] /\ lost' = lost
        \/ note' = note /\ lost' = lost \cup {hand.word}
    BY <1>8 DEF MarksConflict
  <2>3. \A w \in Words : note'[w] = "unsynced" /\ w \notin lost' => note[w] = "unsynced" /\ w # hand.word
    BY <2>2 DEF TypeOK
  <2> QED
    BY <2>1, <2>2, <2>3, PursuedDone
<1>9. CASE MarksInvalid \/ GivesUp
  <2>1. UNCHANGED <<todo, queue, buffer, flush>> /\ WritesStatus("failed")
    BY <1>9 DEF MarksInvalid, GivesUp, queueVars, bufVars
  <2>2. \/ note' = [note EXCEPT ![hand.word] = "failed"] /\ lost' = lost
        \/ note' = note /\ lost' = lost \cup {hand.word}
    BY <2>1 DEF WritesStatus, MayRefuse
  <2>3. \A w \in Words : note'[w] = "unsynced" /\ w \notin lost' => note[w] = "unsynced" /\ w # hand.word
    BY <2>2 DEF TypeOK
  <2> QED
    BY <2>1, <2>2, <2>3, PursuedDone
<1>10. CASE Buffers
  <2>1. hand.word \in Words
    BY <1>10, Held DEF Buffers
  <2>2. UNCHANGED <<note, todo, queue, flush, lost>> /\ buffer' = Append(buffer, hand.word)
    BY <1>10 DEF Buffers, dbVars, queueVars
  <2>3. Range(buffer) \cup {hand.word} \subseteq Range(buffer')
    <3>1. buffer \in Seq(Words) /\ Len(buffer) \in Nat /\ DOMAIN buffer = 1..Len(buffer)
      BY DEF TypeOK
    <3>2. /\ DOMAIN buffer' = 1..Len(buffer) + 1 /\ buffer'[Len(buffer) + 1] = hand.word
          /\ \A i \in 1..Len(buffer) : buffer'[i] = buffer[i]
      BY <2>1, <2>2, <3>1
    <3>3. Len(buffer) + 1 \in DOMAIN buffer' /\ DOMAIN buffer \subseteq DOMAIN buffer'
      BY <3>1, <3>2
    <3> QED
      BY <3>1, <3>2, <3>3 DEF Range
  <2> QED
    BY <2>2, <2>3 DEF UnsyncedPursued, OnItsWay, Queued, InHand
<1>11. CASE Flushes \/ LastFlush
  <2>1. "worker" \in Flushers /\ flush["worker"] = NoFlush /\ TakesBuffer("worker")
    BY <1>11 DEF Flushes, LastFlush, FlushKept, Flushers
  <2>2. UNCHANGED <<note, todo, queue, hand, lost>>
    BY <1>11 DEF Flushes, LastFlush, dbVars, queueVars, histVars
  <2> QED
    BY <2>1, <2>2, PursuedTakesBuffer
<1> QED
  BY <1>1, <1>2, <1>3, <1>4, <1>5, <1>6, <1>7, <1>8, <1>9, <1>10, <1>11 DEF Worker

\* The steps of a flush.
LEMMA PursuedFlush ==
  ASSUME TypeOK, UnsyncedPursued, NEW f \in Flushers, FlushStep(f)
  PROVE  UnsyncedPursued'
<1>1. CASE FlushMarks(f)
  <2>1. UNCHANGED <<note, todo, queue, hand, buffer, lost>>
    BY <1>1 DEF FlushMarks, queueVars, workVars, histVars
  <2>2. \A g \in Flushers : flush'[g].words = flush[g].words
    BY <1>1 DEF FlushMarks, TypeOK
  <2> QED
    BY <2>1, <2>2 DEF UnsyncedPursued, OnItsWay, Queued, InHand, Range
<1>2. CASE FlushStatuses(f)
  <2> DEFINE ws == Range(flush[f].words)
  <2>1. UNCHANGED <<todo, queue, hand, buffer>> /\ \A g \in Flushers \ {f} : flush'[g] = flush[g]
    BY <1>2 DEF FlushStatuses, TypeOK, queueVars
  <2>2. \/ note' = [w \in Words |-> IF w \in ws THEN "synced" ELSE note[w]] /\ lost' = lost
        \/ note' = note /\ lost' = lost \cup ws
    BY <1>2 DEF FlushStatuses, MayRefuse
  <2>3. ASSUME NEW w \in Words, note'[w] = "unsynced", w \notin lost' PROVE OnItsWay(w)'
    <3>1. w \notin ws /\ OnItsWay(w)
      BY <2>2, <2>3 DEF UnsyncedPursued
    <3>2. \A g \in Flushers : w \in Range(flush[g].words) => w \in Range(flush'[g].words)
      BY <2>1, <3>1
    <3> QED
      BY <2>1, <3>1, <3>2 DEF OnItsWay, Queued, InHand
  <2> QED
    BY <2>3 DEF UnsyncedPursued
<1> QED
  BY <1>1, <1>2 DEF FlushStep

\* Shutdown, restarts and the user's edits.
LEMMA PursuedRest ==
  ASSUME TypeOK, FlushKept, UnsyncedPursued,
         CallerFlushes \/ Stops \/ Shutdown \/ Restarts \/ (\E w \in Words : EditsCloud(w)) \/ UNCHANGED vars
  PROVE  UnsyncedPursued'
<1>1. CASE CallerFlushes \/ Joins
  <2>1. "caller" \in Flushers /\ flush["caller"] = NoFlush /\ TakesBuffer("caller")
    BY <1>1 DEF CallerFlushes, Joins, FlushKept, Flushers
  <2>2. UNCHANGED <<note, todo, queue, hand, lost>>
    BY <1>1 DEF CallerFlushes, Joins, dbVars, queueVars, workVars, histVars
  <2> QED
    BY <2>1, <2>2, PursuedTakesBuffer
<1>2. CASE Stops \/ ShutdownReturns \/ (\E w \in Words : EditsCloud(w)) \/ UNCHANGED vars
  <2>1. UNCHANGED <<note, todo, queue, hand, buffer, flush, lost>>
    BY <1>2 DEF Stops, ShutdownReturns, EditsCloud, dbVars, queueVars, workVars, bufVars, histVars, vars
  <2> QED
    BY <2>1, Aside
<1>3. CASE Restarts
  <2>1. note' = note /\ todo' = [word : {w \in Words : note[w] = "unsynced"}, prio : {P1}]
    BY <1>3 DEF Restarts, dbVars
  <2>2. ASSUME NEW w \in Words, note[w] = "unsynced" PROVE \E x \in todo' : x.word = w
    <3>1. [word |-> w, prio |-> P1] \in todo'
      BY <2>1, <2>2
    <3> QED
      BY <3>1
  <2> QED
    BY <2>1, <2>2 DEF UnsyncedPursued, OnItsWay
<1> QED
  BY <1>1, <1>2, <1>3 DEF Shutdown

-----------------------------------------------------------------------------
(* The theorems *)

\* The invariant holds at first and is kept.
LEMMA InvInit == Init => IInv
BY TypeInit, ShapeInit DEF Init, IInv, UnsyncedPursued

LEMMA InvStep == IInv /\ [Next]_vars => IInv'
<1> SUFFICES ASSUME IInv, [Next]_vars PROVE IInv'
  OBVIOUS
<1>1. TypeOK' /\ HandKept' /\ FlushKept' /\ TurnKept'
  BY TypeStep, HandStep, FlushKeptStep, TurnStep DEF IInv
<1>2. UnsyncedPursued'
  BY PursuedCallers, PursuedWorker, PursuedFlush, PursuedRest DEF IInv, Next
<1> QED
  BY <1>1, <1>2 DEF IInv

\* Every behaviour keeps the types of queue, buffers, flushes and notes.
THEOREM TypeCorrect == Spec => []TypeOK
BY InvInit, InvStep, PTL DEF Spec, IInv

\* At most StarveLimit new notes pass a waiting retry or warm-up item
\* (_apply_starvation_policy), whatever the worker and the callers queue.
THEOREM TurnsTaken == Spec => []NoStarvation
<1>1. IInv => NoStarvation
  BY SizesAssumption DEF IInv, TypeOK, TurnKept, NoStarvation
<1> QED
  BY <1>1, InvInit, InvStep, PTL DEF Spec

\* A note with status 0 is wanted, queued, in hand or buffered, unless an
\* exception or a refused write hit it (queue_maimemo_sync, _worker).
THEOREM Pursuit == Spec => []UnsyncedPursued
BY InvInit, InvStep, PTL DEF Spec, IInv

-----------------------------------------------------------------------------
(* Only agreement counts as synced *)

\* Wherever a note counts as synced, in the database, in a buffered result, in
\* the worker's hand or in a cached answer, the cloud has held its text, or the
\* note has none and the cloud has held another.
Vouched == agreed \cup (blank \cap foreign)
AgreedKept ==
  /\ SyncedWasTrue
  /\ \A w \in Words : cloud[w] = "same" \/ cache[w] = "same" => w \in agreed
  /\ \A w \in Words : cloud[w] = "other" \/ cache[w] = "other" => w \in foreign
  /\ result = "synced" => wpc = "result" /\ hand.word \in Vouched
  /\ Range(buffer) \subseteq Vouched
  /\ \A f \in Flushers : Range(flush[f].words) \subseteq Vouched

\* A step that adds no synced note, answer or result.
LEMMA AgreedAside ==
  ASSUME AgreedKept, agreed \subseteq agreed', foreign \subseteq foreign', blank \subseteq blank',
         \A w \in Words : note'[w] = "synced" => note[w] = "synced",
         \A w \in Words : cloud'[w] = "same" => cloud[w] = "same" \/ w \in agreed',
         \A w \in Words : cloud'[w] = "other" => cloud[w] = "other" \/ w \in foreign',
         \A w \in Words : cache'[w] \in {"same", "other"} => cache'[w] = cache[w],
         result' = "synced" => result = "synced" /\ hand' = hand /\ wpc' = wpc,
         UNCHANGED <<buffer, flush>>
  PROVE  AgreedKept'
BY DEF AgreedKept, SyncedWasTrue, Vouched, Range

\* Appending adds the one element.
LEMMA RangeAppend ==
  ASSUME NEW S, NEW s \in Seq(S), NEW x \in S
  PROVE  Range(Append(s, x)) = Range(s) \cup {x}
<1>1. Range(Append(s, x)) \subseteq Range(s) \cup {x}
  BY DEF Range
<1>2. Range(s) \subseteq Range(Append(s, x))
  BY DEF Range
<1>3. x \in Range(Append(s, x))
  <2>1. Len(s) + 1 \in DOMAIN Append(s, x) /\ Append(s, x)[Len(s) + 1] = x
    OBVIOUS
  <2> QED BY <2>1 DEF Range
<1> QED BY <1>1, <1>2, <1>3

\* A flush that begins moves the buffer, all of it, and touches no other flush.
LEMMA BufferTaken ==
  ASSUME TypeOK, NEW f \in Flushers, flush[f] = NoFlush, TakesBuffer(f)
  PROVE  /\ buffer' = <<>> /\ Range(buffer') = {}
         /\ Range(flush'[f].words) = Range(buffer)
         /\ \A g \in Flushers \ {f} : flush'[g] = flush[g]
<1>1. Range(<<>>) = {} /\ NoFlush.words = <<>>
  BY DEF Range, NoFlush
<1>2. buffer' = <<>> /\ \A g \in Flushers \ {f} : flush'[g] = flush[g]
  BY DEF TakesBuffer, TypeOK
<1>3. flush'[f] = IF buffer = <<>> THEN NoFlush ELSE [step |-> "mark", words |-> buffer]
  BY DEF TakesBuffer, TypeOK
<1>4. flush'[f].words = buffer
  BY <1>1, <1>3
<1> QED BY <1>1, <1>2, <1>4

\* ... so it keeps what the buffers hold agreed.
LEMMA AgreedTakesBuffer ==
  ASSUME TypeOK, AgreedKept, NEW f \in Flushers, flush[f] = NoFlush, TakesBuffer(f),
         UNCHANGED <<note, blank, cloud, cache, agreed, foreign, result, hand>>,
         wpc # "result" \/ wpc' = wpc
  PROVE  AgreedKept'
<1>1. /\ Range(buffer') = {} /\ Range(flush'[f].words) = Range(buffer)
      /\ \A g \in Flushers \ {f} : flush'[g] = flush[g]
  BY BufferTaken
<1>2. \A g \in Flushers : Range(flush'[g].words) \subseteq Vouched'
  BY <1>1 DEF AgreedKept, Vouched
<1> QED BY <1>1, <1>2 DEF AgreedKept, SyncedWasTrue, Vouched

\* A look at the cloud calls a note synced only if the answer, fresh or cached,
\* is its own text.
LEMMA AgreedLooks ==
  ASSUME TypeOK, HandKept, AgreedKept, Looks \/ LooksAgain
  PROVE  AgreedKept'
<1> USE DEF dbVars, bufVars
<1>1. hand.word \in Words /\ hand' = hand /\ UNCHANGED <<note, blank, cloud, agreed, foreign, buffer, flush>>
  BY Held DEF Looks, LooksAgain
<1>2. wpc # "result" /\ hand \in HandItem
  BY Held DEF Looks, LooksAgain
<1>3. PICK answer \in Answers \cup {"none"} :
        /\ Listing(hand.word, answer)
        /\ Returns(Classify(hand.word, answer)) \/ result' = result
  BY DEF Looks, LooksAgain
<1>4. answer = "same" => hand.word \in agreed
  BY <1>1, <1>3 DEF Listing, AgreedKept
<1>7. answer = "other" => hand.word \in foreign
  BY <1>1, <1>3 DEF Listing, AgreedKept
<1>5. \A w \in Words : /\ cache'[w] = "same" => w \in agreed
                       /\ cache'[w] = "other" => w \in foreign
  BY <1>1, <1>3, <1>4, <1>7 DEF Listing, AgreedKept, TypeOK
<1>6. result' = "synced" => wpc' = "result" /\ hand.word \in Vouched
  BY <1>2, <1>3, <1>4, <1>7 DEF Returns, Classify, AgreedKept, Vouched
<1>8. Vouched' = Vouched
  BY <1>1 DEF Vouched
<1>9. SyncedWasTrue' /\ Range(buffer') \subseteq Vouched'
      /\ \A f \in Flushers : Range(flush'[f].words) \subseteq Vouched'
  BY <1>1, <1>8 DEF AgreedKept, SyncedWasTrue
<1>10. \A w \in Words : cloud'[w] = "same" \/ cache'[w] = "same" => w \in agreed'
  BY <1>1, <1>5 DEF AgreedKept
<1>11. \A w \in Words : cloud'[w] = "other" \/ cache'[w] = "other" => w \in foreign'
  BY <1>1, <1>5 DEF AgreedKept
<1>12. result' = "synced" => wpc' = "result" /\ hand'.word \in Vouched'
  BY <1>1, <1>6, <1>8
<1> QED BY <1>9, <1>10, <1>11, <1>12 DEF AgreedKept

\* Every step of the worker, a caller, a flush or the user.
LEMMA AgreedStep ==
  ASSUME IInv, AgreedKept, [Next]_vars
  PROVE  AgreedKept'
<1> USE DEF dbVars, apiVars, queueVars, workVars, bufVars, histVars, vars
<1>1. TypeOK /\ HandKept /\ FlushKept
  BY DEF IInv
<1>10. ASSUME UNCHANGED <<note, blank, cloud, cache, agreed, foreign, buffer, flush>>,
              (wpc # "result" /\ result' = result) \/ UNCHANGED <<wpc, result, hand>>
       PROVE  AgreedKept'
  <2>1. result' = "synced" => result = "synced" /\ hand' = hand /\ wpc' = wpc
    BY <1>10 DEF AgreedKept
  <2> QED BY <1>10, <2>1, AgreedAside
<1>2. CASE \/ Queues \/ Warmup \/ Retry \/ Stops \/ ShutdownReturns \/ UNCHANGED vars
           \/ SkipsFlush \/ Leaves \/ TakesP1 \/ TakesOther \/ Pauses
  BY <1>2, <1>10 DEF Queues, Warmup, Retry, Collects, Stops, ShutdownReturns, SkipsFlush,
     Leaves, TakesP1, TakesOther, Takes, Pauses
<1>3. ASSUME NEW w \in Words, SavesNote(w) PROVE AgreedKept'
  <2>1. UNCHANGED <<cloud, cache, agreed, foreign, result, hand, wpc, buffer, flush>>
    BY <1>3 DEF SavesNote
  <2>3. blank \subseteq blank'
    BY <1>3 DEF SavesNote
  <2>2. \A v \in Words : note'[v] = "synced" => note[v] = "synced"
    BY <1>1, <1>3 DEF SavesNote, TypeOK
  <2> QED BY <2>1, <2>2, <2>3, AgreedAside
<1>4. ASSUME NEW w \in Words, EditsCloud(w) PROVE AgreedKept'
  <2>1. /\ UNCHANGED <<note, blank, cache, result, hand, wpc, buffer, flush>>
        /\ agreed \subseteq agreed' /\ foreign \subseteq foreign'
    BY <1>4 DEF EditsCloud
  <2>2. \A v \in Words : cloud'[v] = "same" => cloud[v] = "same" \/ v \in agreed'
    BY <1>1, <1>4 DEF EditsCloud, TypeOK
  <2>3. \A v \in Words : cloud'[v] = "other" => cloud[v] = "other" \/ v \in foreign'
    BY <1>1, <1>4 DEF EditsCloud, TypeOK
  <2> QED BY <2>1, <2>2, <2>3, AgreedAside
<1>5. CASE Creates
  <2>1. /\ UNCHANGED <<note, blank, foreign, hand, buffer, flush>> /\ hand.word \in Words
        /\ agreed' = agreed \cup {w \in Words : cloud'[w] = "same"}
        /\ cache' = [cache EXCEPT ![hand.word] = "no"]
        /\ wpc = "create"
    BY <1>1, <1>5, Held DEF Creates
  <2>2. result' = result \/ result' \in {"invalid", "transient"}
    BY <1>5 DEF Creates, Returns
  <2>3. result' # "synced"
    BY <2>1, <2>2 DEF AgreedKept
  <2>4. \A w \in Words : cache'[w] \in {"same", "other"} => cache'[w] = cache[w]
    BY <1>1, <2>1 DEF TypeOK
  <2>5. \A w \in Words : cloud'[w] = "other" => cloud[w] = "other"
    BY <1>1, <1>5 DEF Creates, TypeOK
  <2> QED BY <2>1, <2>3, <2>4, <2>5, AgreedAside
<1>6. CASE Looks \/ LooksAgain
  BY <1>1, <1>6, AgreedLooks
<1>7. CASE Raises \/ MarksConflict \/ MarksInvalid \/ Retries \/ GivesUp
  <2>1. UNCHANGED <<blank, cloud, cache, agreed, foreign, buffer, flush>> /\ result' = "none"
    BY <1>7 DEF Raises, MarksConflict, MarksInvalid, Retries, GivesUp, Drops
  <2>2. \/ note' = note
        \/ note' \in {[note EXCEPT ![hand.word] = st] : st \in {"conflict", "failed"}}
    BY <1>7 DEF Raises, MarksConflict, MarksInvalid, Retries, GivesUp, WritesStatus, MayRefuse
  <2>3. \A w \in Words : note'[w] = "synced" => note[w] = "synced"
    BY <1>1, <2>2 DEF TypeOK
  <2> QED BY <2>1, <2>3, AgreedAside
<1>8. CASE Buffers
  <2>1. /\ result = "synced" /\ result' = "none" /\ buffer' = Append(buffer, hand.word)
        /\ UNCHANGED <<note, blank, cloud, cache, agreed, foreign, flush>> /\ hand.word \in Words
    BY <1>1, <1>8, Held DEF Buffers, Drops
  <2>2. Range(buffer') = Range(buffer) \cup {hand.word}
    BY <1>1, <2>1, RangeAppend DEF TypeOK
  <2>3. Range(buffer') \subseteq Vouched'
    BY <2>1, <2>2 DEF AgreedKept, Vouched
  <2> QED BY <2>1, <2>3 DEF AgreedKept, SyncedWasTrue, Vouched
<1>9. CASE Flushes \/ LastFlush
  <2>1. "worker" \in Flushers /\ flush["worker"] = NoFlush /\ TakesBuffer("worker")
    BY <1>1, <1>9 DEF Flushes, LastFlush, FlushKept, Flushers
  <2>2. UNCHANGED <<note, blank, cloud, cache, agreed, foreign, result, hand>> /\ wpc # "result"
    BY <1>9 DEF Flushes, LastFlush
  <2> QED BY <1>1, <2>1, <2>2, AgreedTakesBuffer
<1>11. CASE CallerFlushes \/ Joins
  <2>1. "caller" \in Flushers /\ flush["caller"] = NoFlush /\ TakesBuffer("caller")
    BY <1>1, <1>11 DEF CallerFlushes, Joins, FlushKept, Flushers
  <2>2. UNCHANGED <<note, blank, cloud, cache, agreed, foreign, result, hand, wpc>>
    BY <1>11 DEF CallerFlushes, Joins
  <2> QED BY <1>1, <2>1, <2>2, AgreedTakesBuffer
<1>12. ASSUME NEW f \in Flushers, FlushMarks(f) PROVE AgreedKept'
  <2>1. UNCHANGED <<note, blank, cloud, cache, agreed, foreign, result, hand, wpc, buffer>>
    BY <1>12 DEF FlushMarks
  <2>2. \A g \in Flushers : flush'[g].words = flush[g].words
    BY <1>1, <1>12 DEF FlushMarks, TypeOK
  <2> QED BY <2>1, <2>2 DEF AgreedKept, SyncedWasTrue, Vouched, Range
<1>13. ASSUME NEW f \in Flushers, FlushStatuses(f) PROVE AgreedKept'
  <2>1. /\ UNCHANGED <<blank, cloud, cache, agreed, foreign, result, hand, buffer>>
        /\ \A g \in Flushers \ {f} : flush'[g] = flush[g]
        /\ flush'[f] = NoFlush
    BY <1>1, <1>13 DEF FlushStatuses, TypeOK
  <2>2. Range(flush[f].words) \subseteq Vouched /\ Range(NoFlush.words) = {}
    BY DEF AgreedKept, NoFlush, Range
  <2>3. \/ note' = [w \in Words |-> IF w \in Range(flush[f].words) THEN "synced" ELSE note[w]]
        \/ note' = note
    BY <1>13 DEF FlushStatuses, MayRefuse
  <2>4. \A w \in Words : note'[w] = "synced" => w \in Vouched'
    BY <2>1, <2>2, <2>3 DEF AgreedKept, SyncedWasTrue, Vouched
  <2>5. \A g \in Flushers : Range(flush'[g].words) \subseteq Vouched'
    BY <2>1, <2>2 DEF AgreedKept, Vouched
  <2>6. wpc # "result" \/ wpc' = wpc
    BY <1>1, <1>13, Writing DEF FlushStep, FlushStatuses, AfterWrite
  <2> QED BY <2>1, <2>4, <2>5, <2>6 DEF AgreedKept, SyncedWasTrue, Vouched
<1>14. CASE Restarts
  <2>1. /\ UNCHANGED <<note, blank, cloud, agreed, foreign>> /\ result' = "none"
        /\ cache' = [w \in Words |-> "no"]
        /\ buffer' = <<>> /\ flush' = [f \in Flushers |-> NoFlush]
    BY <1>14 DEF Restarts
  <2>2. Range(<<>>) = {} /\ NoFlush.words = <<>>
    BY DEF Range, NoFlush
  <2>3. Range(buffer') = {} /\ \A f \in Flushers : Range(flush'[f].words) = {}
    BY <2>1, <2>2
  <2> QED BY <2>1, <2>3 DEF AgreedKept, SyncedWasTrue, Vouched
<1> QED BY <1>2, <1>3, <1>4, <1>5, <1>6, <1>7, <1>8, <1>9, <1>11, <1>12, <1>13, <1>14
     DEF Next, Worker, Shutdown, FlushStep

-----------------------------------------------------------------------------
(* What a shutdown leaves in memory *)

\* Every word that callers, the queue or the worker hold has a note.
KnownKept ==
  /\ \A x \in todo : note[x.word] # "none"
  /\ \A p \in Prios : \A i \in 1..Len(queue[p]) : note[queue[p][i].word] # "none"
  /\ hand # NoItem => note[hand.word] # "none"
  /\ \A w \in Words : latest[w] # "none" => note[w] # "none"

\* A result of this process that is not in the database yet is in a buffer, or
\* its word is on its way through a worker that still runs.
InMemory(w) == \/ w \in Range(buffer)
               \/ \E f \in Flushers : w \in Range(flush[f].words)
               \/ InHand(w)
               \/ ~WorkerGone /\ \E p \in Prios : Queued(w, p)

RecordKept == \A w \in Words :
  latest[w] # "none" /\ w \notin lost /\ note[w] = "unsynced" => InMemory(w)

\* Nothing is buffered once the worker has begun its last write, and shutdown
\* returns with its own flush done.
EmptiedKept == /\ wpc \in {"lastWrite", "ended"} => buffer = <<>>
               /\ phase = "down" => flush["caller"] = NoFlush

RecordInv == KnownKept /\ RecordKept /\ EmptiedKept

\* What a class holds after a put is the item or was there before.
LEMMA PutAdds ==
  ASSUME TypeOK, NEW p \in Prios, NEW x \in QueueItem, queue' = Put(queue, p, x)
  PROVE  \A r \in Prios : \A i \in 1..Len(queue'[r]) :
           queue'[r][i] = x \/ \E j \in 1..Len(queue[r]) : queue[r][j] = queue'[r][i]
<1>1. queue \in [Prios -> Seq(QueueItem)]
  BY DEF TypeOK
<1>2. queue'[p] = Append(queue[p], x) /\ \A r \in Prios \ {p} : queue'[r] = queue[r]
  BY <1>1 DEF Put
<1>3. \A i \in 1..Len(Append(queue[p], x)) :
         \/ Append(queue[p], x)[i] = x
         \/ i \in 1..Len(queue[p]) /\ Append(queue[p], x)[i] = queue[p][i]
  <2>1. queue[p] \in Seq(QueueItem)
    BY <1>1
  <2> QED BY <2>1
<1> QED BY <1>2, <1>3

\* What a class holds after its head was taken was there before.
LEMMA TakeAdds ==
  ASSUME TypeOK, NEW p \in Prios, Holds(p), queue' = [queue EXCEPT ![p] = Tail(@)]
  PROVE  /\ \E j \in 1..Len(queue[p]) : queue[p][j] = Head(queue[p])
         /\ \A r \in Prios : \A i \in 1..Len(queue'[r]) :
              \E j \in 1..Len(queue[r]) : queue[r][j] = queue'[r][i]
<1>1. queue \in [Prios -> Seq(QueueItem)] /\ queue[p] \in Seq(QueueItem) /\ queue[p] # <<>>
  BY DEF TypeOK, Holds
<1>2. queue'[p] = Tail(queue[p]) /\ \A r \in Prios \ {p} : queue'[r] = queue[r]
  BY <1>1
<1>3. 1 \in 1..Len(queue[p]) /\ queue[p][1] = Head(queue[p])
  BY <1>1
<1>4. \A i \in 1..Len(Tail(queue[p])) :
         i + 1 \in 1..Len(queue[p]) /\ queue[p][i + 1] = Tail(queue[p])[i]
  BY <1>1
<1>5. \A i \in 1..Len(Tail(queue[p])) :
         \E j \in 1..Len(queue[p]) : queue[p][j] = Tail(queue[p])[i]
  BY <1>4
<1>6. \A r \in Prios : \A i \in 1..Len(queue'[r]) :
         \E j \in 1..Len(queue[r]) : queue[r][j] = queue'[r][i]
  BY <1>2, <1>5
<1> QED BY <1>3, <1>6

\* A step that adds no word to what is known and takes away no note.
LEMMA KnownAside ==
  ASSUME TypeOK, KnownKept, UNCHANGED queue,
         \A w \in Words : note[w] # "none" => note'[w] # "none",
         \A x \in todo' : x \in todo \/ note'[x.word] # "none",
         hand' = hand \/ hand' = NoItem,
         \A w \in Words : latest'[w] # "none" => latest[w] # "none" \/ note'[w] # "none"
  PROVE  KnownKept'
<1>1. \A x \in todo : x.word \in Words
  BY DEF TypeOK
<1>2. \A p \in Prios : \A i \in 1..Len(queue[p]) : queue[p][i].word \in Words
  <2>1. ASSUME NEW p \in Prios, NEW i \in 1..Len(queue[p]) PROVE queue[p][i] \in QueueItem
    <3>1. queue[p] \in Seq(QueueItem)
      BY DEF TypeOK
    <3> QED BY <3>1
  <2> QED BY <2>1 DEF QueueItem
<1>3. hand # NoItem => hand.word \in Words
  BY DEF TypeOK, HandItem
<1>4. \A x \in todo' : note'[x.word] # "none"
  <2>1. \A x \in todo : note'[x.word] # "none"
    BY <1>1 DEF KnownKept
  <2> QED BY <2>1
<1>5. \A p \in Prios : \A i \in 1..Len(queue'[p]) : note'[queue'[p][i].word] # "none"
  BY <1>2 DEF KnownKept
<1>6. hand' # NoItem => note'[hand'.word] # "none"
  BY <1>3 DEF KnownKept
<1>7. \A w \in Words : latest'[w] # "none" => note'[w] # "none"
  BY DEF KnownKept
<1> QED BY <1>4, <1>5, <1>6, <1>7 DEF KnownKept

\* A step that puts an item into a class.
LEMMA KnownPuts ==
  ASSUME TypeOK, KnownKept, NEW p \in Prios, NEW x \in QueueItem, note[x.word] # "none",
         queue' = Put(queue, p, x), todo' \subseteq todo, hand' = hand \/ hand' = NoItem,
         UNCHANGED <<note, latest>>
  PROVE  KnownKept'
<1>1. \A r \in Prios : \A i \in 1..Len(queue'[r]) :
         queue'[r][i] = x \/ \E j \in 1..Len(queue[r]) : queue[r][j] = queue'[r][i]
  BY PutAdds
<1>2. \A r \in Prios : \A i \in 1..Len(queue'[r]) : note'[queue'[r][i].word] # "none"
  BY <1>1 DEF KnownKept
<1> QED BY <1>2 DEF KnownKept

\* A step that takes an item from its class.
LEMMA KnownTakes ==
  ASSUME TypeOK, KnownKept, NEW p \in Prios, Holds(p), Takes(p)
  PROVE  KnownKept'
<1>1. /\ queue' = [queue EXCEPT ![p] = Tail(@)] /\ UNCHANGED <<note, todo, latest>>
  BY DEF Takes, dbVars, histVars
<1>2. hand'.word = Head(queue[p]).word
  BY TakesDetail
<1>3. /\ \E j \in 1..Len(queue[p]) : queue[p][j] = Head(queue[p])
      /\ \A r \in Prios : \A i \in 1..Len(queue'[r]) :
           \E j \in 1..Len(queue[r]) : queue[r][j] = queue'[r][i]
  BY <1>1, TakeAdds
<1>4. note'[hand'.word] # "none"
  BY <1>1, <1>2, <1>3 DEF KnownKept
<1>5. \A r \in Prios : \A i \in 1..Len(queue'[r]) : note'[queue'[r][i].word] # "none"
  BY <1>1, <1>3 DEF KnownKept
<1> QED BY <1>1, <1>4, <1>5 DEF KnownKept

\* Every step works on words that have notes.
LEMMA KnownStep ==
  ASSUME IInv, KnownKept, [Next]_vars
  PROVE  KnownKept'
<1> USE DEF dbVars, apiVars, queueVars, workVars, bufVars, histVars, vars
<1>1. TypeOK /\ HandKept /\ FlushKept
  BY DEF IInv
<1>2. CASE \/ Stops \/ Shutdown \/ UNCHANGED vars \/ SkipsFlush \/ Flushes \/ Leaves
           \/ LastFlush \/ CallerFlushes \/ Looks \/ Creates \/ LooksAgain \/ Raises
  <2>1. UNCHANGED <<note, todo, queue, latest>> /\ (hand' = hand \/ hand' = NoItem)
    BY <1>2 DEF Stops, Shutdown, Joins, ShutdownReturns, SkipsFlush, Flushes, Leaves,
       LastFlush, CallerFlushes, Looks, Creates, LooksAgain, Raises
  <2> QED BY <1>1, <2>1, KnownAside
<1>3. ASSUME NEW w \in Words, SavesNote(w) \/ EditsCloud(w) PROVE KnownKept'
  <2>1. UNCHANGED <<queue, hand, latest>>
    BY <1>3 DEF SavesNote, EditsCloud
  <2>2. /\ \A v \in Words : note[v] # "none" => note'[v] # "none"
        /\ \A x \in todo' : x \in todo \/ note'[x.word] # "none"
    BY <1>1, <1>3 DEF SavesNote, EditsCloud, TypeOK
  <2> QED BY <1>1, <2>1, <2>2, KnownAside
<1>4. CASE Warmup \/ Retry
  <2>1. PICK st \in {"unsynced", "conflict", "failed"} :
          /\ UNCHANGED <<note, queue, hand, latest>>
          /\ \E p \in Prios : todo' = todo \cup [word : {w \in Words : note[w] = st}, prio : {p}]
    BY <1>4 DEF Warmup, Retry, Collects, Prios
  <2>2. \A x \in todo' : x \in todo \/ note'[x.word] # "none"
    BY <2>1
  <2> QED BY <1>1, <2>1, <2>2, KnownAside
<1>5. CASE Queues
  <2>1. PICK x \in todo : /\ todo' = todo \ {x}
                          /\ queue' = Put(queue, x.prio, [word |-> x.word, retry |-> 0])
                          /\ UNCHANGED <<note, hand, latest>>
    BY <1>5 DEF Queues
  <2>4. x.word \in Words /\ 0 \in 0..MaxRetries
    BY <1>1, <2>1, SizesAssumption DEF TypeOK
  <2>5. [word |-> x.word, retry |-> 0] \in QueueItem
    BY <2>4 DEF QueueItem
  <2>2. PICK i \in QueueItem : i = [word |-> x.word, retry |-> 0]
    BY <2>5
  <2>3. x.prio \in Prios /\ note[i.word] # "none" /\ todo' \subseteq todo
    BY <1>1, <2>1, <2>2 DEF TypeOK, KnownKept
  <2> QED BY <1>1, <2>1, <2>2, <2>3, KnownPuts
<1>6. CASE TakesP1 \/ TakesOther
  <2>1. \E p \in Prios : Holds(p) /\ Takes(p)
    BY <1>6 DEF TakesP1, TakesOther, Prios, Other
  <2> QED BY <1>1, <2>1, KnownTakes
<1>7. CASE Pauses \/ Retries
  <2>1. hand \in HandItem /\ hand.word \in Words /\ hand.retry \in 0..MaxRetries
        /\ hand.prio \in Prios /\ note[hand.word] # "none"
    BY <1>1, <1>7, Held DEF Pauses, Retries, KnownKept
  <2>2. \E p \in Prios, r \in 0..MaxRetries :
          queue' = Put(queue, p, [word |-> hand.word, retry |-> r])
    BY <1>7, <2>1, SizesAssumption DEF Pauses, Retries, Prios
  <2>3. PICK p \in Prios, x \in QueueItem :
          queue' = Put(queue, p, x) /\ x.word = hand.word
    BY <2>1, <2>2 DEF QueueItem
  <2>4. UNCHANGED <<note, todo, latest>> /\ hand' = NoItem
    BY <1>7 DEF Pauses, Retries, Drops
  <2> QED BY <1>1, <2>1, <2>3, <2>4, KnownPuts
<1>8. CASE Buffers \/ MarksConflict \/ MarksInvalid \/ GivesUp
  <2>1. /\ UNCHANGED <<todo, queue>> /\ hand' = NoItem
        /\ hand.word \in Words /\ note[hand.word] # "none"
    BY <1>1, <1>8, Held DEF Buffers, MarksConflict, MarksInvalid, GivesUp, Drops, KnownKept
  <2>2. \/ note' = note
        \/ note' \in {[note EXCEPT ![hand.word] = st] : st \in {"conflict", "failed"}}
    BY <1>8 DEF Buffers, MarksConflict, MarksInvalid, GivesUp, WritesStatus, MayRefuse
  <2>3. latest' \in {[latest EXCEPT ![hand.word] = st] : st \in {"synced", "conflict", "failed"}}
    BY <1>8 DEF Buffers, MarksConflict, MarksInvalid, GivesUp, WritesStatus
  <2>4. \A w \in Words : note[w] # "none" => note'[w] # "none"
    BY <1>1, <2>2 DEF TypeOK
  <2>5. \A w \in Words : latest'[w] # "none" => latest[w] # "none" \/ note'[w] # "none"
    BY <1>1, <2>1, <2>3, <2>4 DEF TypeOK
  <2> QED BY <1>1, <2>1, <2>4, <2>5, KnownAside
<1>9. ASSUME NEW f \in Flushers, FlushStep(f) PROVE KnownKept'
  <2>1. UNCHANGED <<todo, queue, hand, latest>>
    BY <1>9 DEF FlushStep, FlushMarks, FlushStatuses
  <2>2. \A w \in Words : note[w] # "none" => note'[w] # "none"
    BY <1>1, <1>9 DEF FlushStep, FlushMarks, FlushStatuses, MayRefuse, TypeOK
  <2> QED BY <1>1, <2>1, <2>2, KnownAside
<1>10. CASE Restarts
  <2>1. /\ note' = note /\ todo' = [word : {w \in Words : note[w] = "unsynced"}, prio : {P1}]
        /\ queue' = [p \in Prios |-> <<>>] /\ hand' = NoItem
        /\ latest' = [w \in Words |-> "none"]
    BY <1>10 DEF Restarts
  <2>2. \A x \in todo' : note'[x.word] # "none"
    BY <2>1
  <2> QED BY <2>1, <2>2 DEF KnownKept
<1> QED BY <1>2, <1>3, <1>4, <1>5, <1>6, <1>7, <1>8, <1>9, <1>10
     DEF Next, Worker, FlushStep

\* Every step keeps the buffer empty after the worker's last flush.
LEMMA EmptiedStep ==
  ASSUME IInv, EmptiedKept, [Next]_vars
  PROVE  EmptiedKept'
<1> USE DEF dbVars, apiVars, queueVars, workVars, bufVars, histVars, vars
<1>1. TypeOK /\ HandKept /\ FlushKept
  BY DEF IInv
<1>2. CASE \/ Queues \/ Warmup \/ Retry \/ Stops \/ UNCHANGED vars
           \/ \E w \in Words : SavesNote(w) \/ EditsCloud(w)
  <2>1. UNCHANGED <<wpc, buffer, flush>> /\ (phase' = phase \/ phase' = "stop")
    BY <1>2 DEF Queues, Warmup, Retry, Collects, Stops, SavesNote, EditsCloud
  <2> QED BY <2>1 DEF EmptiedKept
<1>3. CASE \/ TakesP1 \/ TakesOther \/ Pauses \/ Looks \/ Creates \/ LooksAgain \/ Raises
           \/ MarksConflict \/ MarksInvalid \/ Retries \/ GivesUp \/ Buffers \/ SkipsFlush \/ Leaves
  <2>1. wpc' \notin {"lastWrite", "ended"} /\ UNCHANGED <<flush, phase>>
    BY <1>3 DEF TakesP1, TakesOther, Takes, Pauses, Looks, Creates, LooksAgain, Raises, Returns,
       MarksConflict, MarksInvalid, Retries, GivesUp, Buffers, Drops, SkipsFlush, Leaves
  <2> QED BY <2>1 DEF EmptiedKept
<1>4. CASE Flushes \/ LastFlush
  <2>1. "worker" \in Flushers /\ flush["worker"] = NoFlush /\ TakesBuffer("worker")
        /\ phase' = phase
    BY <1>1, <1>4 DEF Flushes, LastFlush, FlushKept, Flushers
  <2>2. buffer' = <<>> /\ flush'["caller"] = flush["caller"]
    BY <1>1, <2>1, BufferTaken DEF Flushers
  <2> QED BY <2>1, <2>2 DEF EmptiedKept
<1>5. CASE CallerFlushes \/ Joins
  <2>1. buffer' = <<>> /\ phase' # "down"
    BY <1>5 DEF CallerFlushes, Joins, TakesBuffer
  <2> QED BY <2>1 DEF EmptiedKept
<1>6. CASE ShutdownReturns
  BY <1>6 DEF ShutdownReturns, EmptiedKept
<1>7. ASSUME NEW f \in Flushers, FlushStep(f) PROVE EmptiedKept'
  <2>1. flush[f] # NoFlush /\ (f = "worker" => wpc \in {"write", "lastWrite"})
    BY <1>1, <1>7, Writing
  <2>2. UNCHANGED <<buffer, phase>> /\ (wpc' = wpc \/ f = "worker")
    BY <1>7 DEF FlushStep, FlushMarks, FlushStatuses, AfterWrite
  <2>3. wpc' \in {"lastWrite", "ended"} => wpc \in {"lastWrite", "ended"}
    BY <1>7, <2>1, <2>2 DEF FlushStep, FlushMarks, FlushStatuses, AfterWrite
  <2>4. \A g \in Flushers \ {f} : flush'[g] = flush[g]
    BY <1>1, <1>7 DEF FlushStep, FlushMarks, FlushStatuses, TypeOK
  <2>5. phase = "down" => f # "caller"
    BY <2>1 DEF EmptiedKept
  <2> QED BY <2>2, <2>3, <2>4, <2>5 DEF EmptiedKept, Flushers
<1>8. CASE Restarts
  BY <1>8 DEF Restarts, EmptiedKept
<1> QED BY <1>2, <1>3, <1>4, <1>5, <1>6, <1>7, <1>8 DEF Next, Worker, Shutdown

\* A step after which every result still owed was owed before and stays in memory.
LEMMA RecordCarried ==
  ASSUME RecordKept,
         \A w \in Words : latest'[w] # "none" /\ w \notin lost' /\ note'[w] = "unsynced" =>
           /\ latest[w] # "none" /\ w \notin lost /\ note[w] = "unsynced"
           /\ InMemory(w) => InMemory(w)'
  PROVE  RecordKept'
BY DEF RecordKept

\* A step that puts an item into a class keeps what the queue holds.
LEMMA PutQueued ==
  ASSUME TypeOK, NEW p \in Prios, NEW x \in QueueItem, queue' = Put(queue, p, x)
  PROVE  /\ Queued(x.word, p)'
         /\ \A w \in Words : \A r \in Prios : Queued(w, r) => Queued(w, r)'
<1>1. /\ \E i \in 1..Len(queue'[p]) : queue'[p][i] = x
      /\ \A r \in Prios : \A i \in 1..Len(queue[r]) :
           i \in 1..Len(queue'[r]) /\ queue'[r][i] = queue[r][i]
  BY PutInto
<1> QED BY <1>1 DEF Queued

\* Callers: what they queue reaches the worker, unless it has gone.
LEMMA RecordCallers ==
  ASSUME IInv, KnownKept, RecordKept,
         Warmup \/ Retry \/ Queues \/ \E w \in Words : SavesNote(w)
  PROVE  RecordKept'
<1> USE DEF dbVars, apiVars, queueVars, workVars, bufVars, histVars, vars
<1>1. TypeOK
  BY DEF IInv
<1>2. CASE Warmup \/ Retry
  <2>1. UNCHANGED <<note, latest, lost, buffer, flush, hand, wpc, queue>>
    BY <1>2 DEF Warmup, Retry, Collects
  <2> QED BY <2>1, RecordCarried DEF InMemory, InHand, Queued, WorkerGone
<1>3. ASSUME NEW v \in Words, SavesNote(v) PROVE RecordKept'
  <2>1. UNCHANGED <<latest, lost, buffer, flush, hand, wpc, queue>> /\ note[v] = "none"
    BY <1>3 DEF SavesNote
  <2>2. \A w \in Words : note'[w] = "unsynced" => note[w] = "unsynced" \/ w = v
    BY <1>1, <1>3 DEF SavesNote, TypeOK
  <2>3. latest[v] = "none"
    BY <2>1 DEF KnownKept
  <2> QED BY <2>1, <2>2, <2>3, RecordCarried DEF InMemory, InHand, Queued, WorkerGone
<1>4. CASE Queues
  <2>1. PICK x \in todo : /\ queue' = Put(queue, x.prio, [word |-> x.word, retry |-> 0])
                          /\ lost' = IF WorkerGone THEN lost ELSE lost \ {x.word}
                          /\ UNCHANGED <<note, hand, latest, wpc, buffer, flush>>
    BY <1>4 DEF Queues
  <2>2. x.word \in Words /\ x.prio \in Prios /\ 0 \in 0..MaxRetries
    BY <1>1, <2>1, SizesAssumption DEF TypeOK
  <2>3. [word |-> x.word, retry |-> 0] \in QueueItem
    BY <2>2 DEF QueueItem
  <2>4. PICK i \in QueueItem : i = [word |-> x.word, retry |-> 0]
    BY <2>3
  <2>5. /\ Queued(x.word, x.prio)'
        /\ \A w \in Words : \A r \in Prios : Queued(w, r) => Queued(w, r)'
    <3>1. queue' = Put(queue, x.prio, i) /\ i.word = x.word
      BY <2>1, <2>4
    <3>2. Queued(i.word, x.prio)'
          /\ \A w \in Words : \A r \in Prios : Queued(w, r) => Queued(w, r)'
      BY <1>1, <2>2, <3>1, PutQueued
    <3> QED BY <3>1, <3>2 DEF Queued
  <2>6. WorkerGone' <=> WorkerGone
    BY <2>1 DEF WorkerGone
  <2>7. ASSUME NEW w \in Words, latest'[w] # "none", w \notin lost', note'[w] = "unsynced"
        PROVE  InMemory(w)'
    <3>1. CASE w = x.word /\ ~WorkerGone
      BY <2>2, <2>5, <2>6, <3>1 DEF InMemory
    <3>2. CASE w # x.word \/ WorkerGone
      <4>1. InMemory(w)
        BY <2>1, <2>7, <3>2 DEF RecordKept
      <4> QED BY <2>1, <2>5, <2>6, <4>1 DEF InMemory, InHand
    <3> QED BY <3>1, <3>2
  <2> QED BY <2>7 DEF RecordKept
<1> QED BY <1>2, <1>3, <1>4

\* The worker takes an item, or puts one back.
LEMMA RecordMoves ==
  ASSUME IInv, RecordKept, TakesP1 \/ TakesOther \/ Pauses \/ Retries
  PROVE  RecordKept'
<1> USE DEF dbVars, apiVars, queueVars, workVars, bufVars, histVars, vars
<1>1. TypeOK /\ HandKept
  BY DEF IInv
<1>2. CASE TakesP1 \/ TakesOther
  <2>1. PICK p \in Prios : wpc = "idle" /\ Holds(p) /\ Takes(p)
    BY <1>2 DEF TakesP1, TakesOther, Prios, Other
  <2>2. hand = NoItem /\ hand' # NoItem /\ hand'.word = Head(queue[p]).word
    BY <1>1, <2>1, TakesDetail DEF HandKept
  <2>3. UNCHANGED <<note, latest, lost, buffer, flush>> /\ wpc' = "taken"
    BY <2>1 DEF Takes
  <2>4. \A r \in Prios : \A i \in 1..Len(queue[r]) :
           \/ queue[r][i] = Head(queue[p])
           \/ \E j \in 1..Len(queue'[r]) : queue'[r][j] = queue[r][i]
    <3>1. queue \in [Prios -> Seq(QueueItem)] /\ queue[p] # <<>>
          /\ queue' = [queue EXCEPT ![p] = Tail(@)]
      BY <1>1, <2>1 DEF TypeOK, Holds, Takes
    <3>2. \A r \in Prios : \A i \in 1..Len(queue[r]) :
             \/ r = p /\ queue[r][i] = Head(queue[p])
             \/ \E j \in 1..Len([queue EXCEPT ![p] = Tail(@)][r]) :
                  [queue EXCEPT ![p] = Tail(@)][r][j] = queue[r][i]
      BY <3>1, TakeKeeps, Zenon
    <3> QED BY <3>1, <3>2, Zenon
  <2>5. ASSUME NEW w \in Words, NEW r \in Prios, Queued(w, r) PROVE InHand(w)' \/ Queued(w, r)'
    <3>1. PICK i \in 1..Len(queue[r]) : queue[r][i].word = w
      BY <2>5 DEF Queued
    <3> QED BY <2>2, <2>4, <3>1 DEF InHand, Queued
  <2>6. ~WorkerGone'
    BY <2>3 DEF WorkerGone
  <2>7. \A w \in Words : InMemory(w) => InMemory(w)'
    BY <2>2, <2>3, <2>5, <2>6 DEF InMemory, InHand
  <2> QED BY <2>3, <2>7, RecordCarried
<1>3. CASE Pauses \/ Retries
  <2>1. hand.word \in Words /\ hand.retry \in 0..MaxRetries /\ hand.prio \in Prios
    BY <1>1, <1>3, Held DEF Pauses, Retries
  <2>2. \E p \in Prios, r \in 0..MaxRetries :
          queue' = Put(queue, p, [word |-> hand.word, retry |-> r])
    <3>1. CASE Pauses
      BY <2>1, <3>1 DEF Pauses, Prios
    <3>2. CASE Retries
      <4>1. /\ queue' = Put(queue, hand.prio, [word |-> hand.word, retry |-> hand.retry + 1])
            /\ hand.retry + 1 \in 0..MaxRetries
        BY <2>1, <3>2, SizesAssumption DEF Retries
      <4> QED BY <2>1, <4>1
    <3> QED BY <1>3, <3>1, <3>2
  <2>3. PICK p \in Prios, x \in QueueItem :
          queue' = Put(queue, p, x) /\ x.word = hand.word
    BY <2>1, <2>2 DEF QueueItem
  <2>4. UNCHANGED <<note, latest, lost, buffer, flush>> /\ wpc' = "idle"
    BY <1>3 DEF Pauses, Retries, Drops
  <2>5. /\ Queued(x.word, p)'
        /\ \A w \in Words : \A r \in Prios : Queued(w, r) => Queued(w, r)'
    BY <1>1, <2>3, PutQueued
  <2>6. ~WorkerGone'
    BY <2>4 DEF WorkerGone
  <2>7. \A w \in Words : InHand(w) => Queued(w, p)'
    BY <2>3, <2>5 DEF InHand, Queued
  <2>8. \A w \in Words : InMemory(w) => InMemory(w)'
    BY <2>4, <2>5, <2>6, <2>7 DEF InMemory
  <2> QED BY <2>4, <2>8, RecordCarried
<1> QED BY <1>2, <1>3

\* The worker acts on the item in its hand.
LEMMA RecordWorker ==
  ASSUME IInv, RecordKept, Worker
  PROVE  RecordKept'
<1> USE DEF dbVars, apiVars, queueVars, workVars, bufVars, histVars, vars
<1>1. TypeOK /\ HandKept /\ FlushKept
  BY DEF IInv
<1>2. CASE TakesP1 \/ TakesOther \/ Pauses \/ Retries
  BY <1>2, RecordMoves
<1>3. CASE Looks \/ Creates \/ LooksAgain \/ SkipsFlush
  <2>1. UNCHANGED <<note, latest, lost, buffer, flush, hand, queue>>
        /\ wpc' \in {"create", "recheck", "result", "idle"}
    BY <1>3 DEF Looks, Creates, LooksAgain, Returns, SkipsFlush
  <2> QED BY <2>1, RecordCarried DEF InMemory, InHand, Queued, WorkerGone
<1>4. CASE Leaves
  <2>1. UNCHANGED <<note, latest, lost, buffer, flush, hand, queue>>
        /\ \A p \in Prios : queue[p] = <<>>
    BY <1>4 DEF Leaves, QueueEmpty
  <2>2. \A w \in Words : \A p \in Prios : ~Queued(w, p)
    BY <2>1 DEF Queued
  <2> QED BY <2>1, <2>2, RecordCarried DEF InMemory, InHand
<1>5. CASE Raises \/ MarksConflict \/ MarksInvalid \/ GivesUp
  <2>1. /\ UNCHANGED <<queue, buffer, flush>> /\ wpc' \in {"flush", "idle"}
        /\ hand.word \in Words
    BY <1>1, <1>5, Held DEF Raises, MarksConflict, MarksInvalid, GivesUp, Drops
  <2>2. \/ /\ note' \in {[note EXCEPT ![hand.word] = st] : st \in {"conflict", "failed"}}
           /\ lost' = lost
        \/ note' = note /\ lost' = lost \cup {hand.word}
    BY <1>5 DEF Raises, MarksConflict, MarksInvalid, GivesUp, WritesStatus, MayRefuse
  <2>3. \/ latest' = latest
        \/ latest' \in {[latest EXCEPT ![hand.word] = st] : st \in {"conflict", "failed"}}
    BY <1>5 DEF Raises, MarksConflict, MarksInvalid, GivesUp, WritesStatus
  <2>4. \A w \in Words : note'[w] = "unsynced" /\ w \notin lost' =>
           w # hand.word /\ note[w] = "unsynced" /\ w \notin lost
    BY <1>1, <2>2 DEF TypeOK
  <2>5. \A w \in Words : w # hand.word => latest'[w] = latest[w]
    BY <1>1, <2>3 DEF TypeOK
  <2>6. \A w \in Words : w # hand.word /\ InMemory(w) => InMemory(w)'
    BY <2>1 DEF InMemory, InHand, Queued, WorkerGone
  <2> QED BY <2>4, <2>5, <2>6, RecordCarried
<1>6. CASE Buffers
  <2>1. /\ UNCHANGED <<note, lost, queue, flush>> /\ wpc' = "flush"
        /\ hand.word \in Words /\ buffer' = Append(buffer, hand.word)
        /\ latest' = [latest EXCEPT ![hand.word] = "synced"]
    BY <1>1, <1>6, Held DEF Buffers, Drops
  <2>2. Range(buffer') = Range(buffer) \cup {hand.word}
    BY <1>1, <2>1, RangeAppend DEF TypeOK
  <2>3. ASSUME NEW w \in Words, latest'[w] # "none", w \notin lost', note'[w] = "unsynced"
        PROVE  InMemory(w)'
    <3>1. CASE w = hand.word
      BY <2>2, <3>1 DEF InMemory
    <3>2. CASE w # hand.word
      <4>1. InMemory(w)
        BY <1>1, <2>1, <2>3, <3>2 DEF RecordKept, TypeOK
      <4> QED BY <2>1, <2>2, <3>2, <4>1 DEF InMemory, InHand, Queued, WorkerGone
    <3> QED BY <3>1, <3>2
  <2> QED BY <2>3 DEF RecordKept
<1>7. CASE Flushes \/ LastFlush
  <2>1. "worker" \in Flushers /\ flush["worker"] = NoFlush /\ TakesBuffer("worker")
    BY <1>1, <1>7 DEF Flushes, LastFlush, FlushKept, Flushers
  <2>2. /\ Range(flush'["worker"].words) = Range(buffer)
        /\ \A g \in Flushers \ {"worker"} : flush'[g] = flush[g]
    BY <1>1, <2>1, BufferTaken
  <2>3. UNCHANGED <<note, latest, lost, hand, queue>> /\ (WorkerGone' => WorkerGone)
    BY <1>7 DEF Flushes, LastFlush, WorkerGone
  <2>4. Range(flush["worker"].words) = {}
    BY <2>1 DEF NoFlush, Range
  <2>5. \A w \in Words : InMemory(w) => InMemory(w)'
    BY <2>1, <2>2, <2>3, <2>4 DEF InMemory, InHand, Queued
  <2> QED BY <2>3, <2>5, RecordCarried
<1> QED BY <1>2, <1>3, <1>4, <1>5, <1>6, <1>7 DEF Worker

\* The steps of a flush, of a shutdown, a restart and of the user.
LEMMA RecordRest ==
  ASSUME IInv, RecordKept,
         \/ CallerFlushes \/ Stops \/ Shutdown \/ Restarts \/ UNCHANGED vars
         \/ \E f \in Flushers : FlushStep(f)
         \/ \E w \in Words : EditsCloud(w)
  PROVE  RecordKept'
<1> USE DEF dbVars, apiVars, queueVars, workVars, bufVars, histVars, vars
<1>1. TypeOK /\ HandKept /\ FlushKept
  BY DEF IInv
<1>2. CASE Stops \/ ShutdownReturns \/ UNCHANGED vars \/ \E w \in Words : EditsCloud(w)
  <2>1. UNCHANGED <<note, latest, lost, buffer, flush, hand, queue, wpc>>
    BY <1>2 DEF Stops, ShutdownReturns, EditsCloud
  <2> QED BY <2>1, RecordCarried DEF InMemory, InHand, Queued, WorkerGone
<1>3. CASE CallerFlushes \/ Joins
  <2>1. "caller" \in Flushers /\ flush["caller"] = NoFlush /\ TakesBuffer("caller")
    BY <1>1, <1>3 DEF CallerFlushes, Joins, FlushKept, Flushers
  <2>2. /\ Range(flush'["caller"].words) = Range(buffer)
        /\ \A g \in Flushers \ {"caller"} : flush'[g] = flush[g]
    BY <1>1, <2>1, BufferTaken
  <2>3. UNCHANGED <<note, latest, lost, hand, queue, wpc>>
    BY <1>3 DEF CallerFlushes, Joins
  <2>4. Range(flush["caller"].words) = {}
    BY <2>1 DEF NoFlush, Range
  <2>5. \A w \in Words : InMemory(w) => InMemory(w)'
    BY <2>1, <2>2, <2>3, <2>4 DEF InMemory, InHand, Queued, WorkerGone
  <2> QED BY <2>3, <2>5, RecordCarried
<1>4. ASSUME NEW f \in Flushers, FlushMarks(f) PROVE RecordKept'
  <2>1. UNCHANGED <<note, latest, lost, buffer, hand, queue, wpc>>
    BY <1>4 DEF FlushMarks
  <2>2. \A g \in Flushers : flush'[g].words = flush[g].words
    BY <1>1, <1>4 DEF FlushMarks, TypeOK
  <2>3. \A w \in Words : InMemory(w) => InMemory(w)'
    BY <2>1, <2>2 DEF InMemory, InHand, Queued, WorkerGone, Range
  <2> QED BY <2>1, <2>3, RecordCarried
<1>5. ASSUME NEW f \in Flushers, FlushStatuses(f) PROVE RecordKept'
  <2>1. UNCHANGED <<latest, buffer, hand, queue>> /\ \A g \in Flushers \ {f} : flush'[g] = flush[g]
    BY <1>1, <1>5 DEF FlushStatuses, TypeOK
  <2> DEFINE ws == Range(flush[f].words)
  <2>2. \/ note' = [w \in Words |-> IF w \in ws THEN "synced" ELSE note[w]] /\ lost' = lost
        \/ note' = note /\ lost' = lost \cup ws
    BY <1>5 DEF FlushStatuses, MayRefuse
  <2>3. \A w \in Words : note'[w] = "unsynced" /\ w \notin lost' =>
           w \notin ws /\ note[w] = "unsynced" /\ w \notin lost
    BY <2>2
  <2>4. WorkerGone' => WorkerGone
    BY <1>1, <1>5, Writing DEF FlushStep, FlushStatuses, AfterWrite, WorkerGone
  <2>5. \A w \in Words : w \notin ws /\ InMemory(w) => InMemory(w)'
    BY <2>1, <2>4 DEF InMemory, InHand, Queued
  <2> HIDE DEF ws
  <2> QED BY <2>1, <2>3, <2>5, RecordCarried
<1>6. CASE Restarts
  <2>1. latest' = [w \in Words |-> "none"]
    BY <1>6 DEF Restarts
  <2> QED BY <2>1 DEF RecordKept
<1> QED BY <1>2, <1>3, <1>4, <1>5, <1>6 DEF Shutdown, FlushStep

\* The initial states, where there is no result yet and nothing is buffered.
LEMMA RecordInit == Init => AgreedKept /\ RecordInv
<1> SUFFICES ASSUME Init PROVE AgreedKept /\ RecordInv
  OBVIOUS
<1>1. Range(<<>>) = {} /\ NoFlush.words = <<>>
  BY DEF Range, NoFlush
<1>2. /\ note = [w \in Words |-> "none"] /\ cloud \in [Words -> {"empty", "other"}]
      /\ foreign = {w \in Words : cloud[w] = "other"}
      /\ cache = [w \in Words |-> "no"] /\ result = "none" /\ buffer = <<>>
      /\ flush = [f \in Flushers |-> NoFlush] /\ latest = [w \in Words |-> "none"]
      /\ todo = {} /\ queue = [p \in Prios |-> <<>>] /\ hand = NoItem
      /\ phase = "up" /\ wpc = "idle"
  BY DEF Init
<1>3. AgreedKept
  BY <1>1, <1>2 DEF AgreedKept, SyncedWasTrue, Vouched
<1>4. KnownKept /\ EmptiedKept /\ RecordKept
  BY <1>2 DEF KnownKept, EmptiedKept, RecordKept
<1> QED BY <1>3, <1>4 DEF RecordInv

\* Every step keeps what is known, in memory and agreed.
LEMMA RecordStep == IInv /\ RecordInv /\ [Next]_vars => RecordInv'
<1> SUFFICES ASSUME IInv, RecordInv, [Next]_vars PROVE RecordInv'
  OBVIOUS
<1>1. KnownKept' /\ EmptiedKept'
  BY KnownStep, EmptiedStep DEF RecordInv
<1>2. RecordKept'
  BY RecordCallers, RecordWorker, RecordRest DEF RecordInv, Next
<1> QED BY <1>1, <1>2 DEF RecordInv

-----------------------------------------------------------------------------
(* The theorems about results *)

\* A note counts as synced only if the cloud has held its text, or it has none
\* and the cloud has held another (sync_interpretation), whatever was cached,
\* buffered, limited or retried.
THEOREM SyncedTrue == Spec => []SyncedWasTrue
<1>1. Init => IInv /\ AgreedKept
  BY InvInit, RecordInit
<1>2. IInv /\ AgreedKept /\ [Next]_vars => (IInv /\ AgreedKept)'
  BY InvStep, AgreedStep
<1>3. AgreedKept => SyncedWasTrue
  BY DEF AgreedKept
<1> QED BY <1>1, <1>2, <1>3, PTL DEF Spec

\* When shutdown has returned and the worker has ended, every result of the
\* process is in the database, unless an exception or a refused write hit it
\* (shutdown, _worker, _flush_pending_writes).
THEOREM ExitKept == Spec => []ExitRecorded
<1>1. Init => IInv /\ RecordInv
  BY InvInit, RecordInit
<1>2. IInv /\ RecordInv /\ [Next]_vars => (IInv /\ RecordInv)'
  BY InvStep, RecordStep
<1>3. IInv /\ RecordInv => ExitRecorded
  <2> SUFFICES ASSUME IInv, RecordInv, phase = "down", wpc = "ended", NEW w \in Words, latest[w] # "none",
                      w \notin lost, note[w] = "unsynced"
               PROVE  FALSE
    BY DEF ExitRecorded
  <2>2. InMemory(w)
    BY DEF RecordInv, RecordKept
  <2>3. buffer = <<>> /\ flush["caller"] = NoFlush /\ flush["worker"] = NoFlush
        /\ hand = NoItem /\ WorkerGone
    BY DEF RecordInv, EmptiedKept, IInv, FlushKept, HandKept, WorkerGone
  <2>4. Range(<<>>) = {} /\ NoFlush.words = <<>>
    BY DEF Range, NoFlush
  <2> QED BY <2>2, <2>3, <2>4 DEF InMemory, InHand, Flushers
<1> QED BY <1>1, <1>2, <1>3, PTL DEF Spec

=============================================================================
