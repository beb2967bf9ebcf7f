------------------------------- MODULE Iteration -------------------------------
(***************************************************************************)
(* One run of IterationManager.run_iteration (core/iteration_manager.py):  *)
(* weak words are selected (core/weak_word_filter.py, query_weak_words of  *)
(* database/word_repo.py), the AI writes a stronger memory aid for those   *)
(* that make no progress, the aid becomes a note in the Maimemo cloud, the *)
(* level and history of the word are read, extended and written back       *)
(* (database/notes_repo.py), and the word joins the user's notepad.        *)
(*                                                                         *)
(* Runs of a profile follow one another, by the profile lock (module       *)
(* WebTasks); notes of an earlier study run may still lie in the write     *)
(* queue (module StudyRun), whose writer shares the connection (module     *)
(* WriteEngine), the user learns and edits the notepad, and new snapshots  *)
(* of the progress arrive, at any time.  Every word has a note and is      *)
(* marked as processed: the selection returns no other.                    *)
(***************************************************************************)
EXTENDS Integers, Sequences, FiniteSets, SequencesExt

CONSTANTS
  Words,        \* voc_ids
  Progress,     \* initial snapshots of a word: a set of sequences
  Learned,      \* snapshots that may arrive later
  QueueCap,     \* room of the write queue
  MaxRuns,      \* bound: iterations
  MaxEvents,    \* bound: snapshots, notes of study runs and edits of the notepad
  MaxFaults     \* bound: failed requests, writes and batches, crashes

Snapshots == [fam : Nat, reviews : Nat]

ASSUME CapAssumption == QueueCap \in Nat \ {0}
ASSUME SnapsAssumption == Progress \subseteq Seq(Snapshots) /\ Learned \subseteq Snapshots

VARIABLES
  atomic,    \* the connection has an op_lock and a writer (a cloud replica), or neither (local)
  snaps,     \* word_progress_history: the snapshots of a word, in order
  note,      \* ai_word_notes: level, history, refined texts of a word
  iters,     \* ai_word_iterations: pairs of a word and a text
  queue,     \* accepted statements of the write queue
  pc,        \* where the run is
  todo,      \* selected rows it has not handled
  now,       \* the row it handles
  base,      \* the note it has read for that row
  additions, \* notepad_additions
  seen,      \* what it has read of the notepads
  cloud,     \* notes in the Maimemo cloud: pairs of a word and a text
  pads,      \* contents of the notepads with the program's title, the first one is found
  left,      \* what remains of each bound
  replaced,  \* history: words whose note an upsert, or a statement of a queued save, replaced
  torn,      \* history: words of a save that was not one transaction
  padRead,   \* history: the notepad that the run will write is the one it has read
  byUser     \* history: words that the user wrote into the notepad

runVars  == <<pc, todo, now, base, additions, seen>>
dbVars   == <<snaps, note, iters, queue>>
padVars  == <<pads, padRead, byUser>>
excuses  == <<replaced, torn>>
vars == <<atomic, dbVars, runVars, cloud, padVars, left, excuses>>

None == -1          \* NULL
Fresh == [level |-> 0, hist |-> <<>>, texts |-> {}]  \* a note after NOTE_UPSERT_SQL
NoRow == [word |-> None]

Spend(what) == left[what] > 0 /\ left' = [left EXCEPT ![what] = @ - 1]

-----------------------------------------------------------------------------
(* Selection.  Familiarity is in tenths, a score in thousandths. *)

\* query_weak_words: the LEFT JOIN with word_progress_history yields a row for
\* every snapshot of a word, not for its latest.
Rows == UNION {IF snaps[w] = <<>>
               THEN {[word |-> w, at |-> 0, level |-> note[w].level, fam |-> None, reviews |-> 0]}
               ELSE {[word |-> w, at |-> i, level |-> note[w].level,
                      fam |-> snaps[w][i].fam, reviews |-> snaps[w][i].reviews]
                     : i \in DOMAIN snaps[w]}
               : w \in Words}

Fam(r) == IF r.fam = None THEN 0 ELSE r.fam

\* calculate_weak_score, and the same sum in query_weak_words; old: not updated for
\* more than 30 days.
WeakScore(r, old) ==
    (IF Fam(r) < 30 THEN (30 - Fam(r)) * 1333 ELSE 0)
  + (CASE r.reviews < 5 -> 20000 [] r.reviews \in 5..9 -> 15000
       [] r.reviews \in 10..19 -> 10000 [] r.reviews \in 20..29 -> 5000 [] OTHER -> 0)
  + (IF r.word \in old THEN 10000 ELSE 0)
  + (IF r.level > 5 THEN 10000 ELSE r.level * 2000)

\* get_dynamic_threshold and min_review_threshold, by the study frequency.
Stats == {[threshold |-> 25, reviews |-> 1], [threshold |-> 35, reviews |-> 3]}
         \cup {[threshold |-> t, reviews |-> 3] : t \in {27, 30, 33}}

\* By score, else by category (urgent and normal), else a scan without a threshold
\* of reviews.
Selected(st, old) ==
  LET known      == {r \in Rows : r.reviews >= st.reviews}
      byScore    == {r \in known : WeakScore(r, old) >= 50000}
      byCategory == {r \in known : Fam(r) < st.threshold}
      byScan     == {r \in Rows : WeakScore(r, old) >= st.threshold * 1000}
  IN IF byScore # {} THEN byScore ELSE IF byCategory # {} THEN byCategory ELSE byScan

-----------------------------------------------------------------------------
(* The database.  Statements go to the writer's queue, or are committed at once
   where there is none. *)

Row(w, x)      == [op |-> "row", word |-> w, text |-> x]
State(w, n)    == [op |-> "state", word |-> w, note |-> n]
Upsert(w)      == [op |-> "upsert", word |-> w]
Room(q)        == Len(q) < QueueCap
Put(q, s)      == IF Room(q) THEN Append(q, s) ELSE q

Of(op, k) == {queue[i] : i \in {j \in 1..k : queue[j].op = op}}

\* Of the next k statements, the last one that writes the note of w.
LastFor(w, k) == LET S == {j \in 1..k : queue[j].op # "row" /\ queue[j].word = w}
                 IN {j \in S : \A i \in S : i <= j}

NoteAfter(w, k) ==
  IF LastFor(w, k) = {} THEN note[w]
  ELSE LET s == queue[CHOOSE j \in LastFor(w, k) : TRUE]
       IN IF s.op = "state" THEN s.note ELSE Fresh

\* _execute_write_sql_sync: one statement, one transaction.
Apply(s) ==
  /\ note' = CASE s.op = "row"    -> note
              [] s.op = "state"  -> [note EXCEPT ![s.word] = s.note]
              [] s.op = "upsert" -> [note EXCEPT ![s.word] = Fresh]
  /\ iters' = IF s.op = "row" THEN iters \cup {<<s.word, s.text>>} ELSE iters

\* dispatch_write: accepted or refused by the queue, or committed, or an error.
Dispatch(s) ==
  \/ /\ atomic /\ queue' = Put(queue, s)
     /\ UNCHANGED <<note, iters, left>>
  \/ /\ ~atomic /\ Apply(s)
     /\ UNCHANGED <<queue, left>>
  \/ /\ ~atomic /\ Spend("faults")
     /\ UNCHANGED <<note, iters, queue>>

\* The writer commits the next k statements, or drops them.
Commits(k) ==
  /\ note' = [w \in Words |-> NoteAfter(w, k)]
  /\ iters' = iters \cup {<<s.word, s.text>> : s \in Of("row", k)}
  /\ replaced' = replaced \cup {s.word : s \in Of("upsert", k)}
  /\ queue' = SubSeq(queue, k + 1, Len(queue))
  /\ UNCHANGED <<atomic, snaps, runVars, cloud, padVars, left, torn>>

Drops(k) ==
  /\ Spend("faults")
  /\ queue' = SubSeq(queue, k + 1, Len(queue))
  /\ UNCHANGED <<atomic, snaps, note, iters, runVars, cloud, padVars, excuses>>

Writer == \E k \in 1..Len(queue) : Commits(k) \/ Drops(k)

-----------------------------------------------------------------------------
(* Around the run: a study run has saved a note (no iteration is running then),
   the user has learned a word, or added one to the notepad. *)

StudySaves ==
  /\ pc = "idle" /\ Spend("events") /\ Room(queue)
  /\ \E w \in Words :
       IF atomic
       THEN queue' = Append(queue, Upsert(w)) /\ UNCHANGED <<note, iters, replaced>>
       ELSE Apply(Upsert(w)) /\ replaced' = replaced \cup {w} /\ UNCHANGED queue
  /\ UNCHANGED <<atomic, snaps, runVars, cloud, padVars, torn>>

Learns ==
  /\ Spend("events")
  /\ \E w \in Words, s \in Learned : snaps' = [snaps EXCEPT ![w] = Append(@, s)]
  /\ UNCHANGED <<atomic, note, iters, queue, runVars, cloud, padVars, excuses>>

Edits ==
  /\ pads # <<>> /\ Spend("events")
  /\ \E w \in Words \ Head(pads) : /\ pads' = [pads EXCEPT ![1] = @ \cup {w}]
                                   /\ byUser' = byUser \cup {w}
  /\ padRead' = FALSE
  /\ UNCHANGED <<atomic, dbVars, runVars, cloud, excuses>>

-----------------------------------------------------------------------------
(* The run *)

Init ==
  /\ atomic \in BOOLEAN
  /\ snaps \in [Words -> Progress]
  /\ note \in [Words -> {Fresh, [Fresh EXCEPT !.level = 1],
                         [Fresh EXCEPT !.level = 1, !.hist = <<[level |-> 1, fam |-> 5, text |-> 0]>>]}]
  /\ iters = {} /\ queue = <<>> /\ pc = "idle" /\ todo = {} /\ now = NoRow /\ base = Fresh
  /\ additions = {} /\ seen = [found |-> FALSE, words |-> {}] /\ cloud = {}
  /\ pads \in {<<>>} \cup {<<P>> : P \in SUBSET Words}
  /\ left = [runs |-> MaxRuns, events |-> MaxEvents, faults |-> MaxFaults]
  /\ replaced = {} /\ torn = {} /\ padRead = FALSE
  /\ byUser = UNION ToSet(pads)

Begins ==
  /\ pc = "idle" /\ Spend("runs")
  /\ \E st \in Stats, old \in SUBSET Words : todo' = Selected(st, old)
  /\ pc' = IF todo' = {} THEN "idle" ELSE "words"
  /\ additions' = {}
  /\ UNCHANGED <<atomic, dbVars, now, base, seen, cloud, padVars, excuses>>

LastFam(w) == IF note[w].hist = <<>> THEN 0 ELSE Last(note[w].hist).fam

\* The loop takes a row, the best score first; any order here.  A row of level 0 has
\* no memory_aid to choose from (the query does not select it) and is passed over; so
\* is a row without a familiarity, which raises, and one that shows progress since the
\* last entry of the history.
PassesOver ==
  /\ pc = "words"
  /\ \E r \in todo :
       /\ r.level = 0 \/ r.fam = None \/ r.fam > LastFam(r.word) + 1
       /\ todo' = todo \ {r}
  /\ UNCHANGED <<atomic, dbVars, pc, now, base, additions, seen, cloud, padVars, left, excuses>>

Refinable == {r \in todo : r.level > 0 /\ r.fam # None /\ r.fam <= LastFam(r.word) + 1}
NewText   == Cardinality(cloud) + 1

\* Mutant: the state is written although create_note failed.
RefinesUnsent ==
  /\ pc = "words"
  /\ \E r \in Refinable : todo' = todo \ {r} /\ now' = [r EXCEPT !.at = NewText]
  /\ pc' = "read"
  /\ UNCHANGED <<atomic, dbVars, base, additions, seen, cloud, padVars, left, excuses>>

\* The AI fails, answers something else than a list, or create_note fails: the word
\* stays as it is.
RefineFails ==
  /\ pc = "words" /\ Spend("faults")
  /\ \E r \in Refinable : todo' = todo \ {r}
  /\ UNCHANGED <<atomic, dbVars, pc, now, base, additions, seen, cloud, padVars, excuses>>

\* The AI has a new text, and create_note puts it into the cloud.  (at: the text.)
Refines ==
  /\ pc = "words"
  /\ \E r \in Refinable : /\ todo' = todo \ {r}
                          /\ now' = [r EXCEPT !.at = NewText]
                          /\ cloud' = cloud \cup {<<r.word, NewText>>}
  /\ pc' = "read"
  /\ UNCHANGED <<atomic, dbVars, base, additions, seen, padVars, left, excuses>>

\* _update_it_state reads the latest familiarity, the history and the text, ...
ReadsState ==
  /\ pc = "read"
  /\ base' = note[now.word]
  /\ now' = [now EXCEPT !.fam = IF snaps[now.word] = <<>> THEN 0 ELSE Last(snaps[now.word]).fam]
  /\ pc' = "write"
  /\ UNCHANGED <<atomic, dbVars, todo, additions, seen, cloud, padVars, left, excuses>>

\* ... appends the entry, puts the new text before the old one, ...
Updated == [level |-> now.level + 1,
            hist  |-> Append(base.hist, [level |-> now.level + 1, fam |-> now.fam, text |-> now.at]),
            texts |-> base.texts \cup {now.at}]

NextWord == /\ pc' = "words" /\ now' = NoRow /\ base' = Fresh
            /\ additions' = additions \cup {now.word}
            /\ UNCHANGED <<atomic, snaps, todo, seen, cloud, padVars>>

\* Mutant: an error after the first statement commits what is there.
WriteFailsHalf ==
  /\ pc = "write" /\ atomic /\ Spend("faults")
  /\ iters' = iters \cup {<<now.word, now.at>>}
  /\ NextWord
  /\ UNCHANGED <<note, queue, excuses>>

\* ... and writes iteration and note in one transaction, or rolls both back.  (With
\* the same effect and the answer True: the writer, whose batch has met a conflict,
\* rolls back without the op_lock after the second statement.)
WriteFails ==
  /\ pc = "write" /\ atomic /\ Spend("faults")
  /\ NextWord
  /\ UNCHANGED <<note, iters, queue, excuses>>

WritesAtomically ==
  /\ pc = "write" /\ atomic
  /\ note' = [note EXCEPT ![now.word] = Updated]
  /\ iters' = iters \cup {<<now.word, now.at>>}
  /\ NextWord
  /\ UNCHANGED <<queue, left, excuses>>

\* That rollback comes between the two statements: it takes the iteration, and the note
\* is committed in a transaction of its own.
LosesIteration ==
  /\ pc = "write" /\ atomic /\ queue # <<>> /\ Spend("faults")
  /\ note' = [note EXCEPT ![now.word] = Updated]
  /\ torn' = torn \cup {now.word}
  /\ NextWord
  /\ UNCHANGED <<iters, queue, replaced>>

\* Without an op_lock, which the local mode has not, and a handle that another thread has
\* closed has lost: two statements, each for itself, ...
WritesRow ==
  /\ pc = "write"
  /\ \/ ~atomic /\ Dispatch(Row(now.word, now.at))
     \/ /\ atomic /\ Spend("faults")
        /\ queue' = Put(queue, Row(now.word, now.at))
        /\ UNCHANGED <<note, iters>>
  /\ pc' = "apart"
  /\ torn' = torn \cup {now.word} /\ replaced' = replaced \cup {now.word}
  /\ UNCHANGED <<atomic, snaps, todo, now, base, additions, seen, cloud, padVars>>

\* ... the second one whatever became of the first.
WritesState ==
  /\ pc = "apart" /\ Dispatch(State(now.word, Updated))
  /\ NextWord
  /\ UNCHANGED excuses

-----------------------------------------------------------------------------
(* The notepad *)

\* All rows are handled.  list_notepads and get_notepad of the first notepad with the
\* program's title: a failed request looks like no notepad, or like an empty one.
ReadsPad ==
  /\ pc = "words" /\ todo = {} /\ additions # {}
  /\ pc' = "pad"
  /\ seen' = [found |-> pads # <<>>, words |-> IF pads = <<>> THEN {} ELSE Head(pads)]
  /\ padRead' = TRUE
  /\ UNCHANGED <<atomic, dbVars, todo, now, base, additions, cloud, pads, byUser, left, excuses>>

ReadsPadBlind ==
  /\ pc = "words" /\ todo = {} /\ additions # {} /\ Spend("faults")
  /\ pc' = "pad"
  /\ \E found \in {FALSE, pads # <<>>} : seen' = [found |-> found, words |-> {}]
  /\ padRead' = FALSE
  /\ UNCHANGED <<atomic, dbVars, todo, now, base, additions, cloud, pads, byUser, excuses>>

Over == /\ pc' = "idle" /\ additions' = {} /\ seen' = [found |-> FALSE, words |-> {}]
        /\ UNCHANGED <<atomic, dbVars, todo, now, base, cloud, byUser, excuses>>

\* Nothing to add, or nothing new to add.
EndsWithoutPad ==
  /\ \/ pc = "words" /\ todo = {} /\ additions = {}
     \/ pc = "pad" /\ additions \subseteq seen.words
  /\ Over
  /\ UNCHANGED <<pads, padRead, left>>

\* Mutant: the notepad is written with the new words alone.
WritesPadNew ==
  /\ pc = "pad" /\ ~(additions \subseteq seen.words)
  /\ pads' = IF seen.found THEN [pads EXCEPT ![1] = additions] ELSE Append(pads, additions)
  /\ Over
  /\ UNCHANGED <<padRead, left>>

\* The merged list replaces the content, or a new notepad is created.
WritesPad ==
  /\ pc = "pad" /\ ~(additions \subseteq seen.words)
  /\ pads' = IF seen.found THEN [pads EXCEPT ![1] = seen.words \cup additions]
             ELSE Append(pads, additions)
  /\ Over
  /\ UNCHANGED <<padRead, left>>

\* A refused request is logged as a success.
PadRefused ==
  /\ pc = "pad" /\ ~(additions \subseteq seen.words) /\ Spend("faults")
  /\ Over
  /\ UNCHANGED <<pads, padRead>>

Crashes ==
  /\ Spend("faults")
  /\ pc' = "idle" /\ todo' = {} /\ now' = NoRow /\ base' = Fresh /\ additions' = {}
  /\ seen' = [found |-> FALSE, words |-> {}] /\ queue' = <<>>
  /\ UNCHANGED <<atomic, snaps, note, iters, cloud, padVars, excuses>>

-----------------------------------------------------------------------------
Next == \/ Writer \/ StudySaves \/ Learns \/ Edits \/ Begins \/ PassesOver
        \/ RefineFails \/ Refines \/ ReadsState \/ WriteFails \/ WritesAtomically
        \/ LosesIteration \/ WritesRow \/ WritesState \/ ReadsPad \/ ReadsPadBlind \/ EndsWithoutPad \/ WritesPad
        \/ PadRefused \/ Crashes
Spec == Init /\ [][Next]_vars

-----------------------------------------------------------------------------
(* Properties *)

TextsOf(n) == {n.hist[i].text : i \in DOMAIN n.hist} \ {0}
ItersOf(w) == {p[2] : p \in {q \in iters : q[1] = w}}

\* With the op_lock, every entry of a history has its row in ai_word_iterations, unless
\* a save of the word was torn (its row rolled back by the writer, or both statements
\* sent through the queue); every row has its entry and its text in the note, unless
\* an upsert or a queued statement replaced the note; the level of a note is always
\* that of its last entry.  (atomic_save_iteration_and_update_note, against failing
\* statements, dropped batches, crashes, and words that are handled twice in a run.)
HistoryBacked ==
  atomic => \A w \in Words :
    /\ w \notin torn => TextsOf(note[w]) \subseteq ItersOf(w)
    /\ w \notin replaced => ItersOf(w) \subseteq TextsOf(note[w]) \cap note[w].texts
    /\ note[w].hist # <<>> => note[w].level = Last(note[w].hist).level

\* Whatever the database says of a refinement, and every word that the program puts
\* into a notepad, is backed by a note in the cloud.
CloudBehind ==
  /\ iters \subseteq cloud
  /\ \A w \in Words : TextsOf(note[w]) \subseteq {p[2] : p \in {q \in cloud : q[1] = w}}
  /\ \A i \in DOMAIN pads : \A w \in pads[i] \ byUser : \E p \in cloud : p[1] = w

\* A notepad loses no word to a run that could read it (and that the user did not
\* edit in between).
PadKept == [][padRead => \A i \in DOMAIN pads : pads[i] \subseteq pads'[i]]_vars

=============================================================================
