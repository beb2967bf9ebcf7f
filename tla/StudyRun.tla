-------------------------------- MODULE StudyRun --------------------------------
(***************************************************************************)
(* One run of process_word_list (core/study_workflow.py) for a list of     *)
(* words: the snapshot of the learning progress, the look-up of the word   *)
(* states (database/word_repo.py, core/word_service.py), the AI calls on a *)
(* small thread pool (core/mimo_client.py, core/gemini_client.py), the     *)
(* notes saved in the order of the list (database/notes_repo.py) and       *)
(* handed to the sync worker.  Runs of one profile follow one another, by  *)
(* the profile lock (module WebTasks); GET /today (web/backend/routers/    *)
(* study.py) takes snapshots at any time.                                  *)
(*                                                                         *)
(* Every write goes through the queue of the write engine.  Here a batch   *)
(* of it is committed whole or dropped whole, which module WriteEngine     *)
(* shows of the engine.  The sync worker is reduced to what it does to a   *)
(* word (module SyncManager has its queue, retries and buffer).  Batches   *)
(* of the AI hold one word (BATCH_SIZE = 1, the default).                  *)
(***************************************************************************)
EXTENDS Integers, Sequences, FiniteSets, SequencesExt

CONSTANTS
  Words,     \* voc_ids
  Counts,    \* values of review_count
  PoolSize,  \* AI_PIPELINE_WORKERS
  QueueCap,  \* room of the write queue
  MaxLists,  \* bound: lists fetched from the cloud, by runs and by GET /today
  MaxFaults  \* bound: failed reads, refused creations, lost batches, crashes

ASSUME SizesAssumption == {PoolSize, QueueCap} \subseteq Nat \ {0}
ASSUME WordsAssumption == IsFiniteSet(Words)

VARIABLES
  db,       \* the database
  accepted, \* statements the write queue has taken, in order
  pc,       \* where the run is
  list,     \* its words, until their states are known
  rows,     \* the snapshot rows it is about to queue
  todo,     \* words whose AI result it has not consumed, in order
  fut,      \* per word: its AI request
  today,    \* GET /today: <<>>, or <<the snapshot rows it is about to queue>>
  toSync,   \* sync_queue: words with the text to upload
  buffer,   \* results of the sync worker that are not written yet
  cloud,    \* the user's interpretation of a word in the Maimemo cloud
  left,     \* what remains of each bound
  empty,    \* texts that were generated without meanings: <<word, text>>
  made,     \* history: texts generated for a word
  lost,     \* history: accepted notes that a dropped batch or a crash took
  excused   \* history: words that a run could not know to be done

syncVars == <<toSync, buffer, cloud>>
histVars == <<empty, made, lost, excused>>
vars == <<db, accepted, pc, list, rows, todo, fut, today, syncVars, left, histVars>>

NoText == 0   \* no note, no interpretation
Theirs == -1  \* an interpretation that the user wrote in the Maimemo app
NoNote == [text |-> NoText, status |-> 0]

-----------------------------------------------------------------------------
(* Word states *)

States == {"not_started", "local_ready", "synced", "conflict", "failed"}

\* Mutant: only processed_words is looked at.
DeriveByMark(d, w) == IF w \in d.processed THEN "local_ready" ELSE "not_started"

\* derive_state on the row that the UNION of the two LEFT JOINs yields; a word
\* without a row is not started.  Its tests come one after the other, here the cases
\* exclude one another.
DeriveState(d, w) ==
  LET n == d.note[w]
  IN CASE n # NoNote /\ n.status = 2 -> "conflict"
       [] n # NoNote /\ n.status = 5 -> "failed"
       [] n # NoNote /\ n.status = 1 -> "synced"
       [] n.status \notin {1, 2, 5} /\ (w \in d.processed \/ (n # NoNote /\ n.status = 0))
            -> "local_ready"
       [] OTHER -> "not_started"

(* What pages and counters show: SQL over the note rows, left-joined with
   processed_words. *)

NoteRows(d) == {w \in Words : d.note[w] # NoNote}

\* Mutant: the clause of LOCAL_READY without its NOT IN.
WhereLoose(d, w, st) ==
  CASE st = "conflict"    -> d.note[w].status = 2
    [] st = "failed"      -> d.note[w].status = 5
    [] st = "synced"      -> d.note[w].status = 1
    [] st = "local_ready" -> w \in d.processed \/ d.note[w].status = 0
    [] st = "not_started" -> FALSE

\* state_to_where_clause on a note row, whose status is not NULL.
Where(d, w, st) ==
  CASE st = "conflict"    -> d.note[w].status = 2
    [] st = "failed"      -> d.note[w].status = 5
    [] st = "synced"      -> d.note[w].status = 1
    [] st = "local_ready" -> (w \in d.processed \/ d.note[w].status = 0)
                             /\ d.note[w].status \notin {1, 2, 5}
    [] st = "not_started" -> FALSE

ListByState(d, st)  == {w \in NoteRows(d) : Where(d, w, st)}
CountByState(d, st) == Cardinality(ListByState(d, st))

\* The word list of the web page, filtered by sync_status, and its total.
NotesPage(d, st)  == {w \in NoteRows(d) : d.note[w].status = st}
CountNotes(d, st) == Cardinality(NotesPage(d, st))

FilterUnprocessed(d, S) == (S \ d.processed) \ NoteRows(d)

SyncStatus(d)  == [conflicts |-> ListByState(d, "conflict"), failed |-> ListByState(d, "failed"),
                   depth |-> CountByState(d, "local_ready")]
Summary(d)     == [total |-> Cardinality({w \in Words : d.latest[w] # 0}),
                   processed |-> Cardinality(d.processed),
                   notes |-> Cardinality(NoteRows(d)),
                   depth |-> CountByState(d, "local_ready")]
OpsMonitor(d)  == [depth |-> CountNotes(d, 0), conflicts |-> CountByState(d, "conflict")]

\* The row that a run reports for a word it passes over: a word without a note
\* counts as one that waits for its upload.
SkippedRow(d, w) == CASE d.note[w].status = 0 -> "sync_pending"
                      [] d.note[w].status = 2 -> "sync_conflict"
                      [] d.note[w].status = 5 -> "sync_failed"
                      [] d.note[w].status = 1 -> "skipped"

\* The notes of historic runs that processed_words lacks.
Unmarked(d, S) == {w \in S \ d.processed : d.note[w] # NoNote /\ d.note[w].status = 0}

-----------------------------------------------------------------------------
(* Statements, and what they do to the database.  NOTE_UPSERT_SQL and
   PROCESSED_UPSERT_SQL replace a row; an UPDATE hits no row of a word without
   a note; a snapshot becomes the latest row of its word. *)

Snaps(R)            == [op |-> "snaps", rows |-> R]
SaveNote(w, x, st)  == [op |-> "note", word |-> w, text |-> x, status |-> st]
Mark(S)             == [op |-> "mark", words |-> S]
SetStatus(S, st)    == [op |-> "status", words |-> S, status |-> st]

Apply(d, s) ==
  CASE s.op = "snaps"  -> [d EXCEPT !.latest = [w \in Words |->
                             IF \E r \in s.rows : r[1] = w
                             THEN (CHOOSE r \in s.rows : r[1] = w)[2] ELSE @[w]],
                                    !.second = @ \cup s.rows]
    [] s.op = "note"   -> [d EXCEPT !.note[s.word] = [text |-> s.text, status |-> s.status]]
    [] s.op = "mark"   -> [d EXCEPT !.processed = @ \cup s.words]
    [] s.op = "status" -> [d EXCEPT !.note = [w \in Words |->
                             IF w \in s.words /\ @[w] # NoNote
                             THEN [@[w] EXCEPT !.status = s.status] ELSE @[w]]]

Init ==
  /\ made \in [Words -> {0, 1}]
  /\ db = [note      |-> [w \in Words |-> IF made[w] = 1 THEN [text |-> 1, status |-> 0]
                                          ELSE NoNote],
           processed |-> {},
           latest    |-> [w \in Words |-> 0],
           second    |-> {}]
  /\ accepted = <<>> /\ pc = "idle" /\ list = {} /\ rows = {} /\ todo = <<>>
  /\ fut = [w \in Words |-> "none"]
  /\ today = <<>> /\ toSync = <<>> /\ buffer = <<>>
  /\ cloud \in [Words -> {NoText, Theirs}]
  /\ left = [lists |-> MaxLists, faults |-> MaxFaults]
  /\ empty = {} /\ lost = {} /\ excused = {}

Spend(what) == left[what] > 0 /\ left' = [left EXCEPT ![what] = @ - 1]

-----------------------------------------------------------------------------
(* The write queue and the writer *)

Room(n)    == Len(accepted) + n <= QueueCap
Enqueue(s) == accepted' = IF Room(1) THEN Append(accepted, s) ELSE accepted

\* Calls one after the other; a full queue refuses what does not fit.
EnqueueBoth(s, t) == accepted' = IF Room(2) THEN accepted \o <<s, t>>
                                 ELSE IF Room(1) THEN Append(accepted, s) ELSE accepted

Prefix(k)      == SubSeq(accepted, 1, k)
Rest(k)        == SubSeq(accepted, k + 1, Len(accepted))
NotesOf(items) == {<<s.word, s.text>> : s \in {x \in ToSet(items) : x.op = "note"}}
SnapsOf(items) == {i \in DOMAIN items : items[i].op = "snaps"}

\* idx_progress_unique: (voc_id, created_at, review_count), created_at in seconds
\* and set when the row is inserted.
Collides(k) == LET p == Prefix(k)
               IN \/ \E i \in SnapsOf(p) : p[i].rows \cap db.second # {}
                  \/ \E i, j \in SnapsOf(p) : i # j /\ p[i].rows \cap p[j].rows # {}

\* The writer commits the next k statements as one transaction; d[i] is the database
\* after i of them.
Commits(k) ==
  /\ k \in 1..Len(accepted) /\ ~Collides(k)
  /\ LET d[i \in 0..k] == IF i = 0 THEN db ELSE Apply(d[i - 1], accepted[i])
     IN db' = d[k]
  /\ accepted' = Rest(k)
  /\ UNCHANGED <<pc, list, rows, todo, fut, today, syncVars, left, histVars>>

Drop(k) ==
  /\ accepted' = Rest(k)
  /\ lost' = lost \cup NotesOf(Prefix(k))
  /\ excused' = excused \cup {n[1] : n \in NotesOf(Prefix(k))}
  /\ UNCHANGED <<db, pc, list, rows, todo, fut, today, syncVars, empty, made>>

\* A duplicate snapshot is an IntegrityError: the writer drops the whole batch,
\* whatever else is in it.
CollisionDrops(k) == k \in 1..Len(accepted) /\ Collides(k) /\ Drop(k) /\ UNCHANGED left

\* So does any other error that does not name a broken connection.
ErrorDrops(k) == k \in 1..Len(accepted) /\ ~Collides(k) /\ Spend("faults") /\ Drop(k)

SecondPasses ==
  /\ db.second # {}
  /\ db' = [db EXCEPT !.second = {}]
  /\ UNCHANGED <<accepted, pc, list, rows, todo, fut, today, syncVars, left, histVars>>

-----------------------------------------------------------------------------
(* Snapshots: log_progress_snapshots reads the latest rows and queues the words
   that differ. *)

\* What is left of a list of the cloud without the items that lack a voc_id or a
\* spelling.
Lists == SUBSET Words \ {{}}

Changed(d, S, count) == {<<w, count[w]>> : w \in {v \in S : d.latest[v] # count[v]}}

\* get_today on the loop has an answer of the cloud, and has read the rows.
TodayReads ==
  /\ today = <<>> /\ Spend("lists")
  /\ \E S \in Lists, count \in [Words -> Counts] : today' = <<Changed(db, S, count)>>
  /\ UNCHANGED <<db, accepted, pc, list, rows, todo, fut, syncVars, histVars>>

TodayQueues ==
  /\ today # <<>>
  /\ IF today[1] = {} THEN UNCHANGED accepted ELSE Enqueue(Snaps(today[1]))
  /\ today' = <<>>
  /\ UNCHANGED <<db, pc, list, rows, todo, fut, syncVars, left, histVars>>

\* process_word_list begins with a list from the cloud, in a task of the web backend
\* (process_today, process_future), or from the menu of the command line.  Its
\* counts may come from query_study_records, and be old: the menu shows what
\* it has fetched and waits for the user.
Begins(S, count) ==
  /\ pc = "idle" /\ Spend("lists")
  /\ list' = S /\ rows' = Changed(db, S, count)
  /\ pc' = "snapshots"
  /\ UNCHANGED <<db, accepted, todo, fut, today, syncVars, histVars>>

Starts     == \E S \in Lists, count \in [Words -> Counts] : Begins(S, count)

QueuesSnaps ==
  /\ pc = "snapshots"
  /\ IF rows = {} THEN UNCHANGED accepted ELSE Enqueue(Snaps(rows))
  /\ rows' = {} /\ pc' = "states"
  /\ UNCHANGED <<db, list, todo, fut, today, syncVars, left, histVars>>

-----------------------------------------------------------------------------
(* Word states, and what is left to do *)

Ends == /\ pc' = "idle" /\ list' = {} /\ todo' = <<>>
        /\ fut' = [w \in Words |-> "none"]

\* The words of a run whose note is accepted and not applied yet.
Unapplied(S) == {w \in S : \E n \in NotesOf(accepted) : n[1] = w}

\* partition_by_processability: only words that are not started go to the AI.
Partition(new) ==
  IF new = {} THEN Ends
  ELSE /\ pc' = "ai" /\ todo' = SetToSeq(new)
       /\ fut' = [w \in Words |-> IF w \in new THEN "queued" ELSE "none"]
       /\ list' = {}

ReadsStates ==
  /\ pc = "states"
  /\ IF Unmarked(db, list) = {} THEN UNCHANGED accepted ELSE Enqueue(Mark(Unmarked(db, list)))
  /\ Partition({w \in list : DeriveState(db, w) = "not_started"})
  /\ excused' = excused \cup Unapplied(list)
  /\ UNCHANGED <<db, rows, today, syncVars, left, empty, made, lost>>

\* get_word_states_in_batch returns {} when the query fails for another reason
\* than corruption, and every word counts as not started.
ReadsBlind ==
  /\ pc = "states" /\ Spend("faults")
  /\ Partition(list)
  /\ excused' = excused \cup list
  /\ UNCHANGED <<db, accepted, rows, today, syncVars, empty, made, lost>>

\* The row of a note when it is saved; none for a word without a text.
Row(w, x) == IF x = NoText THEN NoNote
             ELSE [text |-> x, status |-> IF <<w, x>> \in empty THEN 5 ELSE 0]

\* Texts that a replica may hold of each word.
Older == {t \in [Words -> UNION {0..made[w] : w \in Words}] :
            \A w \in Words : t[w] <= db.note[w].text}

\* A corrupt file is moved away: a new one has the rows that the Turso replica
\* holds, or empty tables where there is none.  The replica has the rows of the
\* words in K, and of the others a text as it was saved, or nothing.
Rebuilt(K, old) == [note      |-> [w \in Words |-> IF w \in K THEN db.note[w] ELSE Row(w, old[w])],
                    processed |-> db.processed \cap K,
                    latest    |-> [w \in Words |-> IF w \in K THEN db.latest[w] ELSE 0],
                    second    |-> {r \in db.second : r[1] \in K}]

\* The session asks once more after a rebuild.
ReadsRebuilt ==
  /\ pc = "states" /\ Spend("faults")
  /\ \E K \in SUBSET Words, old \in Older :
       LET new == Rebuilt(K, old)
           gone == {w \in NoteRows(db) : new.note[w].text < db.note[w].text}
       IN /\ db' = new
          /\ lost' = lost \cup {<<w, db.note[w].text>> : w \in gone}
          /\ excused' = excused \cup gone \cup Unapplied(list)
          /\ IF Unmarked(new, list) = {} THEN UNCHANGED accepted
             ELSE Enqueue(Mark(Unmarked(new, list)))
          /\ Partition({w \in list : DeriveState(new, w) = "not_started"})
  /\ UNCHANGED <<rows, today, syncVars, empty, made>>

\* No connection after all attempts, where force_cloud_mode forbids the local file;
\* or corruption that the rebuild did not mend.
NoDatabase == Spend("faults")

\* Then the look-up returns None, and the run raises.
StatesFail ==
  /\ pc = "states" /\ NoDatabase
  /\ Ends
  /\ UNCHANGED <<db, accepted, rows, today, syncVars, histVars>>

-----------------------------------------------------------------------------
(* AI requests on the pool *)

Calling == {w \in Words : fut[w] = "calling"}
Results == {"note", "empty note", "none", "nameless"}

AiVarsOnly == UNCHANGED <<db, accepted, pc, list, rows, todo, today, syncVars, left, histVars>>

\* The pool takes the requests in order.
AiCalls(w) ==
  /\ fut[w] = "queued" /\ Cardinality(Calling) < PoolSize
  /\ w = SelectSeq(todo, LAMBDA v : fut[v] = "queued")[1]
  /\ fut' = [fut EXCEPT ![w] = "calling"]
  /\ AiVarsOnly

\* An error of every attempt (MAX_RETRIES): the pool thread gives the word up.  Until
\* then an error leaves the request as it is: the thread waits and asks again.
AiFails(w) ==
  /\ fut[w] = "calling"
  /\ fut' = [fut EXCEPT ![w] = "none"]
  /\ AiVarsOnly

\* An answer: a note, one whose meaning is empty after cleaning, nothing for this
\* word (a text that does not parse, another spelling), or an entry without a spelling.
AiAnswers(w) ==
  /\ fut[w] = "calling"
  /\ \E r \in Results : fut' = [fut EXCEPT ![w] = r]
  /\ AiVarsOnly

-----------------------------------------------------------------------------
(* The results, in the order of the list *)

Current == Head(todo)
Done(w) == fut[w] \in Results

ConsumesNothing ==
  /\ pc = "ai" /\ todo # <<>> /\ fut[Current] = "none"
  /\ todo' = Tail(todo)
  /\ UNCHANGED <<db, accepted, pc, list, rows, fut, today, syncVars, left, histVars>>

\* build_note_upsert_args: an empty note is saved as failed.
NewNote    == SaveNote(Current, made[Current] + 1, IF fut[Current] = "note" THEN 0 ELSE 5)
Saves      == /\ pc = "ai" /\ todo # <<>> /\ fut[Current] \in {"note", "empty note"}
              /\ Enqueue(NewNote)
              /\ made' = [made EXCEPT ![Current] = @ + 1]
              /\ empty' = IF fut[Current] = "note" THEN empty
                          ELSE empty \cup {<<Current, made[Current] + 1>>}
              /\ todo' = Tail(todo) /\ fut' = [fut EXCEPT ![Current] = "none"]
HandsOver  == toSync' = Append(toSync, [word |-> Current, text |-> made[Current] + 1])

\* Mutant: the sync item is queued although the note was refused.
ConsumesUnchecked ==
  /\ Saves /\ HandsOver
  /\ UNCHANGED <<db, pc, list, rows, today, buffer, cloud, left, lost, excused>>

\* _process_results: the note is saved, then handed to the sync worker.  When the
\* queue was full the note is gone, and the batch is not synchronised.  The row of
\* statistics that save_ai_batch queues before is read by nothing here.
ConsumesNote ==
  /\ Saves
  /\ IF Room(1) THEN HandsOver /\ UNCHANGED excused
     ELSE excused' = excused \cup {Current} /\ UNCHANGED toSync
  /\ UNCHANGED <<db, pc, list, rows, today, buffer, cloud, left, lost>>

\* An entry without a spelling makes _process_results raise.
ConsumesNameless ==
  /\ pc = "ai" /\ todo # <<>> /\ fut[Current] = "nameless"
  /\ pc' = "raised"
  /\ UNCHANGED <<db, accepted, list, rows, todo, fut, today, syncVars, left, histVars>>

\* Then the rest of the run is given up, once the pool has made its calls.
Raises ==
  /\ pc = "raised"
  /\ \A w \in Words : fut[w] \notin {"queued", "calling"}
  /\ Ends
  /\ UNCHANGED <<db, accepted, rows, today, syncVars, left, histVars>>

\* flush_pending_syncs writes the results that the worker has buffered.
Flush == LET S == {buffer[i].word : i \in DOMAIN buffer}
         IN /\ IF S = {} THEN UNCHANGED accepted ELSE EnqueueBoth(Mark(S), SetStatus(S, 1))
            /\ buffer' = <<>>

Finishes ==
  /\ pc = "ai" /\ todo = <<>>
  /\ Flush
  /\ Ends
  /\ UNCHANGED <<db, rows, today, toSync, cloud, left, histVars>>

-----------------------------------------------------------------------------
(* The sync worker: sync_interpretation of a word, and its result *)

Item    == Head(toSync)
IsEmpty == <<Item.word, Item.text>> \in empty

\* Mutant: any interpretation in the cloud counts as success.
UploadsBlind ==
  /\ toSync # <<>>
  /\ cloud' = [cloud EXCEPT ![Item.word] = IF @ = NoText THEN Item.text ELSE @]
  /\ buffer' = Append(buffer, Item)
  /\ toSync' = Tail(toSync)
  /\ UNCHANGED <<db, accepted, pc, list, rows, todo, fut, today, left, histVars>>

\* The interpretation is created, or is there.  For a note without meanings nothing is
\* expected, and any interpretation that is there counts as the one.
Uploads ==
  /\ toSync # <<>> /\ (IsEmpty \/ cloud[Item.word] \in {NoText, Item.text})
  /\ cloud' = [cloud EXCEPT ![Item.word] = IF @ = NoText THEN Item.text ELSE @]
  /\ buffer' = Append(buffer, Item)
  /\ toSync' = Tail(toSync)
  /\ UNCHANGED <<db, accepted, pc, list, rows, todo, fut, today, left, histVars>>

\* A different interpretation: mark_processed and status 2 at once.
FindsConflict ==
  /\ toSync # <<>> /\ ~IsEmpty /\ cloud[Item.word] \notin {NoText, Item.text}
  /\ EnqueueBoth(Mark({Item.word}), SetStatus({Item.word}, 2))
  /\ toSync' = Tail(toSync)
  /\ UNCHANGED <<db, pc, list, rows, todo, fut, today, buffer, cloud, left, histVars>>

\* Refused for good, or failed once too often: status 5.
UploadFails ==
  /\ toSync # <<>> /\ Spend("faults")
  /\ Enqueue(SetStatus({Item.word}, 5))
  /\ toSync' = Tail(toSync)
  /\ UNCHANGED <<db, pc, list, rows, todo, fut, today, buffer, cloud, histVars>>

\* The worker flushes its buffer itself when it is full or old.
WorkerFlushes ==
  /\ buffer # <<>> /\ Flush
  /\ UNCHANGED <<db, pc, list, rows, todo, fut, today, toSync, cloud, left, histVars>>

-----------------------------------------------------------------------------
(* A crash, and the start after it: notes with status 0 are queued again. *)

Unsynced(d) == {w \in Words : d.note[w] # NoNote /\ d.note[w].status = 0}

Crashes ==
  /\ Spend("faults")
  /\ accepted' = <<>> /\ rows' = {} /\ today' = <<>> /\ buffer' = <<>>
  /\ Ends
  /\ lost' = lost \cup NotesOf(accepted)
  /\ excused' = excused \cup {n[1] : n \in NotesOf(accepted)}
  /\ toSync' = [i \in 1..Cardinality(Unsynced(db)) |->
                 LET w == SetToSeq(Unsynced(db))[i] IN [word |-> w, text |-> db.note[w].text]]
  /\ UNCHANGED <<db, cloud, empty, made>>

-----------------------------------------------------------------------------
Ai(w)  == AiCalls(w) \/ AiFails(w) \/ AiAnswers(w)
Run    == \/ QueuesSnaps \/ ReadsStates \/ ReadsBlind \/ ReadsRebuilt \/ StatesFail
          \/ ConsumesNothing \/ ConsumesNote \/ ConsumesNameless
          \/ Raises \/ Finishes
Writer == SecondPasses \/ \E k \in 1..Len(accepted) : Commits(k) \/ CollisionDrops(k) \/ ErrorDrops(k)
Sync   == Uploads \/ FindsConflict \/ UploadFails \/ WorkerFlushes
Next   == \/ Starts \/ Run \/ TodayReads \/ TodayQueues \/ Writer \/ Sync \/ Crashes
          \/ \E w \in Words : Ai(w)
Spec   == Init /\ [][Next]_vars

-----------------------------------------------------------------------------
(* Properties *)

\* The text x of w, or a later one that replaced it, is saved, will be, or was lost
\* after the queue had accepted it.
Kept(w, x) == \/ db.note[w].text >= x
              \/ \E n \in NotesOf(accepted) \cup lost : n[1] = w /\ n[2] >= x

\* What is handed to the sync worker, lies in its buffer, is in the cloud or marked
\* as processed has its note behind it: a refused save cancels the upload
\* (_process_results), although writer, worker and run go on by themselves.
SavedBeforeSync ==
  /\ \A i \in DOMAIN toSync : Kept(toSync[i].word, toSync[i].text)
  /\ \A i \in DOMAIN buffer : Kept(buffer[i].word, buffer[i].text)
  /\ \A w \in Words : cloud[w] # Theirs => Kept(w, cloud[w])
  /\ \A w \in db.processed : \E x \in 1..made[w] : Kept(w, x)

\* A note with status 1 is what the cloud holds, whatever was refused, dropped or
\* interrupted; unless its word was generated again behind the program's back.  Of a
\* note without meanings it says only that the cloud holds some interpretation.
SyncedIsCloud ==
  \A w \in Words \ excused :
    db.note[w] # NoNote /\ db.note[w].status = 1 =>
      \/ cloud[w] = db.note[w].text
      \/ <<w, db.note[w].text>> \in empty /\ cloud[w] # NoText

\* What Python derives (derive_state), what the SQL of the lists and counters selects
\* (state_to_where_clause) and what a restart would queue agree: a word that a run
\* passes over stands in the one list of its state, and the run reports it so,
\* unless its note was lost; the three depths of the sync queue are the number
\* of notes that a restart queues.
ViewsAgree ==
  /\ \A w \in Words \ excused : \A st \in States \ {"not_started"} :
       DeriveState(db, w) = st <=> w \in ListByState(db, st)
  /\ FilterUnprocessed(db, Words) = {w \in Words : DeriveState(db, w) = "not_started"}
  /\ \A w \in NoteRows(db) : (SkippedRow(db, w) = "sync_pending") = (w \in Unsynced(db))
  /\ \A n \in {SyncStatus(db).depth, Summary(db).depth, OpsMonitor(db).depth} :
       n = Cardinality(Unsynced(db))

\* The AI is asked for a word once.  A second text is made only for a word that
\* the run could not know to be done: its note was still in the queue, refused or
\* lost, or the look-up of the states had failed.
ReworkExplained == \A w \in Words \ excused : made[w] <= 1

=============================================================================
