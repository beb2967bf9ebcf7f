------------------------------ MODULE SyncManager ------------------------------
(***************************************************************************)
(* The background synchronisation of generated notes with the Maimemo      *)
(* cloud (core/sync_manager.py): the priority queue, the worker thread     *)
(* with its anti-starvation rule, its retries and its buffered writes,     *)
(* flushes from other threads and the shutdown; with the look-up and       *)
(* creation of an interpretation (core/maimemo_api.py) and the places      *)
(* that queue notes (study_workflow.py, study_flow.py, user_context.py,    *)
(* routers/sync.py).                                                       *)
(*                                                                         *)
(* A note is written once per word, and every caller queues it with        *)
(* force_sync, so the worker trusts the item and reads no note.  The       *)
(* database shows a write as soon as it is accepted: the write engine      *)
(* applies accepted writes in order (module WriteEngine), and what it      *)
(* refuses is a refusal here.                                              *)
(***************************************************************************)
EXTENDS Naturals, Sequences, Functions

CONSTANTS
  Words,       \* voc_ids
  NoItem,      \* no queue item
  StarveLimit, \* consecutive P1 items after which another one is due (5)
  MaxRetries,  \* retries of a transient failure (3)
  FlushSize,   \* buffered results that force a flush (_flush_batch_size / 2)
  MaxRequests, \* bound: warm-ups and retry requests
  MaxTrouble   \* bound: restarts, exceptions, refused writes, refused creations
               \* and changes a user makes in the Maimemo app, taken together

ASSUME NoItemAssumption == NoItem \notin [word : Words, prio : 1..3, retry : Nat]
ASSUME SizesAssumption == /\ {StarveLimit, FlushSize} \subseteq Nat \ {0}
                          /\ MaxRetries \in Nat
                          /\ {MaxRequests, MaxTrouble} \subseteq Nat

VARIABLES
  note,      \* ai_word_notes: no row, or the meaning of its sync_status
  blank,     \* words whose note has no meanings: the text to sync is empty
  processed, \* processed_words
  cloud,     \* the user's interpretation of a word in the Maimemo cloud
  cache,     \* _interpretations_cache: the answer kept for a word
  limited,   \* creation_limit_reached
  todo,      \* what callers have read and are about to queue
  queue,     \* sync_queue: per priority, in order of the sequence numbers
  streak,    \* _consecutive_p1_count, counted up to StarveLimit
  wpc,       \* where the worker is
  hand,      \* the item it holds, or NoItem
  result,    \* what sync_interpretation returned
  buffer,    \* _pending_status and _pending_synced
  flush,     \* per flushing thread: what it has taken, and its next write
  phase,     \* of the process: up, stop, joined, down
  left,      \* what remains of each bound
  latest,    \* history: the last result of a word since the process began
  lost,      \* history: words hit by an exception or a refused write
  passed,    \* history: P1 items taken in a row while another one waited
  agreed,    \* history: words whose local text the cloud has held
  foreign    \* history: words for which the cloud has held another text

dbVars    == <<note, blank, processed>>
apiVars   == <<cloud, cache, limited, agreed, foreign>>
queueVars == <<todo, queue, streak, passed>>
workVars  == <<wpc, hand, result>>
bufVars   == <<buffer, flush>>
histVars  == <<latest, lost>>
vars == <<dbVars, apiVars, queueVars, workVars, bufVars, histVars, phase, left>>

P1 == 1
P2 == 2
P3 == 3
Prios    == {P1, P2, P3}
Flushers == {"worker", "caller"}
NoFlush  == [step |-> "none", words |-> <<>>]

Init ==
  /\ note = [w \in Words |-> "none"] /\ blank = {} /\ processed = {}
  /\ cloud \in [Words -> {"empty", "other"}]
  /\ agreed = {} /\ foreign = {w \in Words : cloud[w] = "other"}
  /\ left = [requests |-> MaxRequests, trouble |-> MaxTrouble]
  /\ todo = {} /\ queue = [p \in Prios |-> <<>>] /\ streak = 0 /\ passed = 0
  /\ wpc = "idle" /\ hand = NoItem /\ result = "none"
  /\ buffer = <<>> /\ flush = [f \in Flushers |-> NoFlush]
  /\ cache = [w \in Words |-> "no"] /\ limited = FALSE
  /\ phase = "up"
  /\ latest = [w \in Words |-> "none"] /\ lost = {}

Spend(kind) == left[kind] > 0 /\ left' = [left EXCEPT ![kind] = @ - 1]

\* A write of the database layer is accepted, or refused and only logged.
MayRefuse(accepted, refused) == \/ accepted /\ UNCHANGED left
                                \/ refused /\ Spend("trouble")

-----------------------------------------------------------------------------
(* Callers *)

\* _process_results: the notes of an AI batch are saved with status 0, then
\* handed to the sync manager; a refused save hands over nothing.  A note
\* without meanings is saved as failed, and handed over all the same.
SavesNote(w) ==
  /\ phase = "up" /\ note[w] = "none"
  /\ \/ note' = [note EXCEPT ![w] = "unsynced"] /\ UNCHANGED blank
     \/ note' = [note EXCEPT ![w] = "failed"] /\ blank' = blank \cup {w}
  /\ todo' = todo \cup {[word |-> w, prio |-> P1]}
  /\ UNCHANGED <<processed, apiVars, queue, streak, passed, workVars, bufVars, histVars, phase, left>>

\* A later warm-up of the profile reads all unsynced notes (P3); the retry
\* requests read all conflicting, or all failed ones (P2).
Collects(status, prio) ==
  /\ phase = "up" /\ Spend("requests")
  /\ todo' = todo \cup [word : {w \in Words : note[w] = status}, prio : {prio}]
  /\ UNCHANGED <<dbVars, apiVars, queue, streak, passed, workVars, bufVars, histVars, phase>>

Warmup == Collects("unsynced", P3)
Retry  == Collects("conflict", P2) \/ Collects("failed", P2)

Put(q, prio, item) == [q EXCEPT ![prio] = Append(@, item)]

WorkerGone == wpc \in {"final", "lastWrite", "ended"}

\* queue_maimemo_sync
Queues ==
  \E x \in todo :
    /\ todo' = todo \ {x}
    /\ queue' = Put(queue, x.prio, [word |-> x.word, retry |-> 0])
    /\ lost' = IF WorkerGone THEN lost ELSE lost \ {x.word}
    /\ UNCHANGED <<dbVars, apiVars, streak, passed, workVars, bufVars, latest, phase, left>>

-----------------------------------------------------------------------------
(* The worker takes an item: _take_next_item, _apply_starvation_policy *)

Holds(p) == queue[p] # <<>>
\* The lowest class of the queue after P1, which the policy lets through.
Other == IF Holds(P2) THEN P2 ELSE P3

Takes(p) ==
  /\ hand' = [word |-> Head(queue[p]).word, prio |-> p, retry |-> Head(queue[p]).retry]
  /\ queue' = [queue EXCEPT ![p] = Tail(@)]
  /\ wpc' = "taken"
  /\ UNCHANGED <<dbVars, apiVars, todo, result, bufVars, histVars, phase, left>>

\* Mutant: one P1 too many passes.
TakesP1Late ==
  /\ wpc = "idle" /\ Holds(P1)
  /\ streak <= StarveLimit \/ ~(Holds(P2) \/ Holds(P3))
  /\ streak' = IF streak <= StarveLimit THEN streak + 1 ELSE streak
  /\ passed' = IF Holds(P2) \/ Holds(P3) THEN passed + 1 ELSE 0
  /\ Takes(P1)

\* A P1 is taken unless StarveLimit of them came in a row and another waits.
TakesP1 ==
  /\ wpc = "idle" /\ Holds(P1)
  /\ streak < StarveLimit \/ ~(Holds(P2) \/ Holds(P3))
  /\ streak' = IF streak < StarveLimit THEN streak + 1 ELSE streak
  /\ passed' = IF Holds(P2) \/ Holds(P3) THEN passed + 1 ELSE 0
  /\ Takes(P1)

\* No P1 is there, or the policy puts the P1s back in their places.
TakesOther ==
  /\ wpc = "idle" /\ (Holds(P2) \/ Holds(P3))
  /\ Holds(P1) => streak = StarveLimit
  /\ streak' = 0 /\ passed' = 0
  /\ Takes(Other)

\* An item of an inactive profile waits while the system is not idle.
Pauses ==
  /\ wpc = "taken" /\ hand.prio = P3
  /\ queue' = Put(queue, P3, [word |-> hand.word, retry |-> hand.retry])
  /\ hand' = NoItem /\ wpc' = "idle"
  /\ UNCHANGED <<dbVars, apiVars, todo, streak, passed, result, bufVars, histVars, phase, left>>

-----------------------------------------------------------------------------
(* sync_interpretation *)

Answers == {"error", "empty", "same", "other"}

\* list_interpretations: the cached answer while it is fresh, or a request
\* that the cloud answers, or that ends in an error, which is cached as well,
\* or that gets no answer.
Listing(w, answer) ==
  \/ answer = cache[w] /\ UNCHANGED cache
  \/ answer \in {cloud[w], "error"} /\ cache' = [cache EXCEPT ![w] = answer]
  \/ answer = "none" /\ UNCHANGED cache

\* Mutant: an answer without an interpretation counts as agreement.
ClassifyOptimist(w, answer) == CASE answer = "other" -> "conflict"
                              [] answer = "none" -> "transient"
                              [] OTHER -> "synced"

\* _classify_interpretation_list: without a text to compare with, whatever
\* interpretation there is counts as found.
Classify(w, answer) ==
  CASE answer = "same" \/ (answer = "other" /\ w \in blank) -> "synced"
    [] answer = "other" /\ w \notin blank -> "conflict"
    [] OTHER -> "transient"

Returns(r) == result' = r /\ wpc' = "result"

\* After the creation limit the cloud is only read; else only an answer that
\* names no interpretation, be it an error, leads to a creation.
Looks ==
  /\ wpc = "taken"
  /\ \E answer \in Answers \cup {"none"} :
       /\ Listing(hand.word, answer)
       /\ IF limited \/ answer \in {"none", "same", "other"}
          THEN Returns(Classify(hand.word, answer))
          ELSE wpc' = "create" /\ UNCHANGED result
  /\ UNCHANGED <<dbVars, cloud, limited, agreed, foreign, queueVars, hand, bufVars, histVars, phase, left>>

\* create_interpretation forgets the cached answer.  The cloud creates the
\* text if it has none, but the answer may be lost, in which case the request
\* is sent again and finds the text there; or it refuses.
Creates ==
  /\ wpc = "create"
  /\ cache' = [cache EXCEPT ![hand.word] = "no"]
  /\ \/ \* created, or there is one: look again
        /\ cloud' = [cloud EXCEPT ![hand.word] = IF @ = "empty" THEN "same" ELSE @]
        /\ wpc' = "recheck" /\ UNCHANGED <<limited, result, left>>
     \/ \* the limit is reached: look again
        /\ Spend("trouble")
        /\ limited' = TRUE /\ wpc' = "recheck" /\ UNCHANGED <<cloud, result>>
     \/ \* the id is invalid
        /\ cloud[hand.word] = "empty" /\ Returns("invalid") /\ UNCHANGED <<cloud, limited, left>>
     \/ \* refused, or no answer, with or without a creation
        /\ cloud' \in {cloud, [cloud EXCEPT ![hand.word] = IF @ = "empty" THEN "same" ELSE @]}
        /\ Returns("transient") /\ UNCHANGED <<limited, left>>
  /\ agreed' = agreed \cup {w \in Words : cloud'[w] = "same"}
  /\ UNCHANGED <<dbVars, foreign, queueVars, hand, bufVars, histVars, phase>>

LooksAgain ==
  /\ wpc = "recheck"
  /\ \E answer \in Answers \cup {"none"} :
       Listing(hand.word, answer) /\ Returns(Classify(hand.word, answer))
  /\ UNCHANGED <<dbVars, cloud, limited, agreed, foreign, queueVars, hand, bufVars, histVars, phase, left>>

\* An exception is logged and the item is gone.
Raises ==
  /\ wpc \in {"taken", "create", "recheck"} /\ Spend("trouble")
  /\ lost' = lost \cup {hand.word}
  /\ hand' = NoItem /\ result' = "none" /\ wpc' = "flush"
  /\ UNCHANGED <<dbVars, apiVars, queueVars, bufVars, latest, phase>>

-----------------------------------------------------------------------------
(* The worker acts on the result *)

Drops(next) == hand' = NoItem /\ result' = "none" /\ wpc' = next

\* The status is written when the flush comes.
Buffers ==
  /\ wpc = "result" /\ result = "synced"
  /\ buffer' = Append(buffer, hand.word)
  /\ latest' = [latest EXCEPT ![hand.word] = "synced"]
  /\ Drops("flush")
  /\ UNCHANGED <<dbVars, apiVars, queueVars, flush, lost, phase, left>>

\* set_note_sync_status, at once.
WritesStatus(status) ==
  /\ latest' = [latest EXCEPT ![hand.word] = status]
  /\ MayRefuse(note' = [note EXCEPT ![hand.word] = status] /\ UNCHANGED lost,
               lost' = lost \cup {hand.word} /\ UNCHANGED note)

\* mark_processed, then the status; each may be refused.
MarksConflict ==
  /\ wpc = "result" /\ result = "conflict"
  /\ latest' = [latest EXCEPT ![hand.word] = "conflict"]
  /\ \E marked, written \in BOOLEAN :
       /\ IF marked /\ written THEN UNCHANGED left ELSE Spend("trouble")
       /\ processed' = IF marked THEN processed \cup {hand.word} ELSE processed
       /\ note' = IF written THEN [note EXCEPT ![hand.word] = "conflict"] ELSE note
       /\ lost' = IF written THEN lost ELSE lost \cup {hand.word}
  /\ Drops("flush")
  /\ UNCHANGED <<blank, apiVars, queueVars, bufVars, phase>>

\* invalid_res_id; the check for a flush is skipped.
MarksInvalid ==
  /\ wpc = "result" /\ result = "invalid"
  /\ WritesStatus("failed")
  /\ Drops("idle")
  /\ UNCHANGED <<blank, processed, apiVars, queueVars, bufVars, phase>>

\* Mutant: the retry count stays.
RetriesForever ==
  /\ wpc = "result" /\ result = "transient" /\ hand.retry < MaxRetries
  /\ queue' = Put(queue, hand.prio, [word |-> hand.word, retry |-> hand.retry])
  /\ Drops("idle")
  /\ UNCHANGED <<dbVars, apiVars, todo, streak, passed, bufVars, histVars, phase, left>>

\* A transient failure: back to the end of its class, with one retry less.
Retries ==
  /\ wpc = "result" /\ result = "transient" /\ hand.retry < MaxRetries
  /\ queue' = Put(queue, hand.prio, [word |-> hand.word, retry |-> hand.retry + 1])
  /\ Drops("idle")
  /\ UNCHANGED <<dbVars, apiVars, todo, streak, passed, bufVars, histVars, phase, left>>

\* Mutant: an item that used up its retries is dropped.
GivesUpQuietly ==
  /\ wpc = "result" /\ result = "transient" /\ hand.retry = MaxRetries
  /\ Drops("flush")
  /\ UNCHANGED <<dbVars, apiVars, queueVars, bufVars, histVars, phase, left>>

\* sync_incomplete: the retries are used up.
GivesUp ==
  /\ wpc = "result" /\ result = "transient" /\ hand.retry = MaxRetries
  /\ WritesStatus("failed")
  /\ Drops("flush")
  /\ UNCHANGED <<blank, processed, apiVars, queueVars, bufVars, phase>>

-----------------------------------------------------------------------------
(* Flushing: _flush_pending_writes, by the worker or by another thread *)

\* Under the flush lock: take the buffer.  An empty one ends the flush.
TakesBuffer(f) ==
  /\ flush' = [flush EXCEPT ![f] = IF buffer = <<>> THEN NoFlush
                                   ELSE [step |-> "mark", words |-> buffer]]
  /\ buffer' = <<>>

\* _maybe_flush, at the end of a round: enough results, or enough time since
\* the last flush.
SkipsFlush ==
  /\ wpc = "flush" /\ Len(buffer) < FlushSize
  /\ wpc' = "idle"
  /\ UNCHANGED <<dbVars, apiVars, queueVars, hand, result, bufVars, histVars, phase, left>>

Flushes ==
  /\ wpc = "flush" /\ buffer # <<>>
  /\ TakesBuffer("worker") /\ wpc' = "write"
  /\ UNCHANGED <<dbVars, apiVars, queueVars, hand, result, histVars, phase, left>>

\* flush_pending_syncs: the end of a study run, or the flush request.
CallerFlushes ==
  /\ phase = "up" /\ flush["caller"] = NoFlush /\ buffer # <<>>
  /\ TakesBuffer("caller")
  /\ UNCHANGED <<dbVars, apiVars, queueVars, workVars, histVars, phase, left>>

\* mark_processed_batch; a refusal is logged and the statuses follow.
FlushMarks(f) ==
  /\ flush[f].step = "mark"
  /\ flush' = [flush EXCEPT ![f].step = "status"]
  /\ MayRefuse(processed' = processed \cup Range(flush[f].words), UNCHANGED processed)
  /\ UNCHANGED <<note, blank, apiVars, queueVars, workVars, buffer, histVars, phase>>

AfterWrite(f) == IF f = "worker" THEN wpc' = IF wpc = "lastWrite" THEN "ended" ELSE "idle"
                 ELSE UNCHANGED wpc

\* update_sync_status_batch: whatever the notes say by now.
FlushStatuses(f) ==
  /\ flush[f].step = "status"
  /\ flush' = [flush EXCEPT ![f] = NoFlush]
  /\ LET ws == Range(flush[f].words)
     IN  MayRefuse(note' = [w \in Words |-> IF w \in ws THEN "synced" ELSE note[w]] /\ UNCHANGED lost,
                   lost' = lost \cup ws /\ UNCHANGED note)
  /\ AfterWrite(f)
  /\ UNCHANGED <<blank, processed, apiVars, queueVars, hand, result, buffer, latest, phase>>

-----------------------------------------------------------------------------
(* Shutdown and restart *)

QueueEmpty == \A p \in Prios : queue[p] = <<>>

\* Mutant: the worker waits for its results to be flushed.
LeavesFlushed ==
  /\ wpc = "idle" /\ phase # "up" /\ QueueEmpty /\ buffer = <<>>
  /\ wpc' = "final"
  /\ UNCHANGED <<dbVars, apiVars, queueVars, hand, result, bufVars, histVars, phase, left>>

\* The worker ends its loop when it is told to and finds the queue empty.
Leaves ==
  /\ wpc = "idle" /\ phase # "up" /\ QueueEmpty
  /\ wpc' = "final"
  /\ UNCHANGED <<dbVars, apiVars, queueVars, hand, result, bufVars, histVars, phase, left>>

\* Mutant: the worker ends without a last flush.
EndsUnflushed ==
  /\ wpc = "final"
  /\ wpc' = "ended"
  /\ UNCHANGED <<dbVars, apiVars, queueVars, hand, result, bufVars, histVars, phase, left>>

\* The flush before the end of the thread.
LastFlush ==
  /\ wpc = "final"
  /\ TakesBuffer("worker")
  /\ wpc' = IF buffer = <<>> THEN "ended" ELSE "lastWrite"
  /\ UNCHANGED <<dbVars, apiVars, queueVars, hand, result, histVars, phase, left>>

Stops ==
  /\ phase = "up" /\ flush["caller"] = NoFlush
  /\ phase' = "stop"
  /\ UNCHANGED <<dbVars, apiVars, queueVars, workVars, bufVars, histVars, left>>

\* join returns when the worker has ended or five seconds have passed.
Joins ==
  /\ phase = "stop"
  /\ phase' = "joined" /\ TakesBuffer("caller")
  /\ UNCHANGED <<dbVars, apiVars, queueVars, workVars, histVars, left>>

ShutdownReturns ==
  /\ phase = "joined" /\ flush["caller"] = NoFlush
  /\ phase' = "down"
  /\ UNCHANGED <<dbVars, apiVars, queueVars, workVars, bufVars, histVars, left>>

\* The process ends in whatever state it is, and a new one queues the notes
\* that are still unsynced (StudyFlowManager.run, or the first warm-up).
Restarts ==
  /\ Spend("trouble")
  /\ UNCHANGED <<dbVars, cloud, agreed, foreign>>
  /\ todo' = [word : {w \in Words : note[w] = "unsynced"}, prio : {P1}]
  /\ queue' = [p \in Prios |-> <<>>] /\ streak' = 0 /\ passed' = 0
  /\ wpc' = "idle" /\ hand' = NoItem /\ result' = "none"
  /\ buffer' = <<>> /\ flush' = [f \in Flushers |-> NoFlush]
  /\ cache' = [w \in Words |-> "no"] /\ limited' = FALSE
  /\ phase' = "up"
  /\ latest' = [w \in Words |-> "none"] /\ lost' = {}

-----------------------------------------------------------------------------
(* Outside *)

\* The user creates, changes or deletes an interpretation in the app.
EditsCloud(w) ==
  /\ Spend("trouble")
  /\ \E c \in {"empty", "same", "other"} \ {cloud[w]} :
       /\ cloud' = [cloud EXCEPT ![w] = c]
       /\ agreed' = IF c = "same" THEN agreed \cup {w} ELSE agreed
       /\ foreign' = IF c = "other" THEN foreign \cup {w} ELSE foreign
  /\ UNCHANGED <<dbVars, cache, limited, queueVars, workVars, bufVars, histVars, phase>>

-----------------------------------------------------------------------------

Worker == \/ TakesP1 \/ TakesOther \/ Pauses \/ Looks \/ Creates \/ LooksAgain \/ Raises
          \/ Buffers \/ MarksConflict \/ MarksInvalid \/ Retries \/ GivesUp
          \/ SkipsFlush \/ Flushes \/ Leaves \/ LastFlush
FlushStep(f) == FlushMarks(f) \/ FlushStatuses(f)
Shutdown == Joins \/ ShutdownReturns

Next == \/ Worker \/ Queues \/ Warmup \/ Retry \/ CallerFlushes \/ Stops \/ Shutdown \/ Restarts
        \/ \E f \in Flushers : FlushStep(f)
        \/ \E w \in Words : SavesNote(w) \/ EditsCloud(w)

Spec == Init /\ [][Next]_vars

\* The worker runs, callers queue what they have read, flushes and a shutdown
\* that has begun go on.  Nobody has to save, request, flush or stop anything.
Fairness == /\ WF_vars(Worker) /\ WF_vars(Queues) /\ WF_vars(Shutdown)
            /\ \A f \in Flushers : WF_vars(FlushStep(f))
FairSpec == Spec /\ Fairness

-----------------------------------------------------------------------------
(* Properties *)

NoteStates == {"none", "unsynced", "synced", "conflict", "failed"}
Results    == {"none", "synced", "conflict", "invalid", "transient"}
WorkerStates == {"idle", "taken", "create", "recheck", "result", "flush", "write", "final",
                 "lastWrite", "ended"}
QueueItem == [word : Words, retry : 0..MaxRetries]
HandItem  == [word : Words, prio : Prios, retry : 0..MaxRetries]

\* The type of every variable.
TypeOK ==
  /\ note \in [Words -> NoteStates] /\ blank \subseteq Words /\ processed \subseteq Words
  /\ cloud \in [Words -> {"empty", "same", "other"}]
  /\ agreed \subseteq Words /\ foreign \subseteq Words
  /\ cache \in [Words -> Answers \cup {"no"}] /\ limited \in BOOLEAN
  /\ todo \subseteq [word : Words, prio : Prios]
  /\ queue \in [Prios -> Seq(QueueItem)]
  /\ streak \in 0..StarveLimit /\ passed \in Nat
  /\ wpc \in WorkerStates /\ hand \in HandItem \cup {NoItem} /\ result \in Results
  /\ buffer \in Seq(Words)
  /\ flush \in [Flushers -> [step : {"none", "mark", "status"}, words : Seq(Words)]]
  /\ phase \in {"up", "stop", "joined", "down"}
  /\ left \in [{"requests", "trouble"} -> Nat]
  /\ latest \in [Words -> {"none", "synced", "conflict", "failed"}] /\ lost \subseteq Words

Queued(w, p) == \E i \in 1..Len(queue[p]) : queue[p][i].word = w
InHand(w)    == hand # NoItem /\ hand.word = w
OnItsWay(w) == \/ \E x \in todo : x.word = w
               \/ \E p \in Prios : Queued(w, p)
               \/ InHand(w)
               \/ w \in Range(buffer)
               \/ \E f \in Flushers : w \in Range(flush[f].words)

\* A note whose status is still 0 is never forgotten: its sync is wanted,
\* queued, under way, or its result waits to be written, in this process or
\* again after a restart; only an exception or a refused write strands it.
UnsyncedPursued == \A w \in Words : note[w] = "unsynced" /\ w \notin lost => OnItsWay(w)

\* A retry or warm-up item waits for at most StarveLimit new notes in a row
\* (_apply_starvation_policy), however retries and callers fill the queue.
NoStarvation == passed <= StarveLimit

\* A note is marked synced only if the user's cloud has held its text
\* (sync_interpretation), whatever was cached, failed, limited or retried.  The
\* exception is a note without meanings: for it another text is good enough, so
\* that it is marked synced although the cloud may never have held what it says.
SyncedWasTrue ==
  \A w \in Words : note[w] = "synced" => w \in agreed \/ (w \in blank /\ w \in foreign)

\* When shutdown has returned and the worker has ended, no result of this
\* process is left in memory only, whichever of the two flushed last.
ExitRecorded == phase = "down" /\ wpc = "ended" =>
                  \A w \in Words : latest[w] # "none" /\ w \notin lost => note[w] # "unsynced"

\* A note queued as new, or for a retry, comes out of the queue for good after
\* finitely many attempts, unless the worker has ended.
Urgent(w) == Queued(w, P1) \/ Queued(w, P2) \/ (InHand(w) /\ hand.prio # P3)
ItemsEnd  == \A w \in Words : Urgent(w) ~> (~Urgent(w) \/ wpc = "ended")

\* Once shutdown has begun the worker works the queue off and ends, unless an
\* item of an inactive profile keeps it going (or the process is restarted).
WorkerEnds == (phase # "up") ~> (wpc = "ended" \/ phase = "up" \/ Holds(P3)
                                 \/ (hand # NoItem /\ hand.prio = P3))

=============================================================================
