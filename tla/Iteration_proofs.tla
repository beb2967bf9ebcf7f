--------------------------- MODULE Iteration_proofs ---------------------------
(***************************************************************************)
(* Proofs about Iteration, for any words, snapshots, room of the queue and *)
(* numbers of runs, events and faults.                                     *)
(*                                                                         *)
(* A refined text travels from the cloud over the row in hand, the note    *)
(* that is read, and the statements of the queue to the database; the      *)
(* invariant says of each of these places that the cloud has the text, and *)
(* of the note in hand that it is the one in the database, unless an       *)
(* upsert or a queued statement has replaced that one meanwhile.           *)
(***************************************************************************)
EXTENDS Iteration, FiniteSetTheorems, SequenceTheorems, TLAPS

Entries == [level : Nat, fam : Int, text : Nat]
Notes   == [level : Nat, hist : Seq(Entries), texts : SUBSET Nat]
RowSet  == [word : Words, at : Nat, level : Nat, fam : Int, reviews : Nat]

Statements == {Row(w, x) : w \in Words, x \in Nat} \cup {State(w, n) : w \in Words, n \in Notes}
              \cup {Upsert(w) : w \in Words}

DbTypes ==
  /\ atomic \in BOOLEAN
  /\ snaps \in [Words -> Seq(Snapshots)]
  /\ note \in [Words -> Notes]
  /\ queue \in Seq(Statements)
  /\ cloud \in SUBSET (Words \X Nat) /\ IsFiniteSet(cloud)

RunTypes ==
  /\ pc \in {"idle", "words", "read", "write", "apart", "pad"}
  /\ todo \subseteq RowSet
  /\ pc \in {"read", "write", "apart"} => now \in RowSet
  /\ base \in Notes
  /\ additions \subseteq Words
  /\ seen \in [found : BOOLEAN, words : SUBSET Words]
  /\ pads \in Seq(SUBSET Words)
  /\ byUser \subseteq Words

CloudTexts(w) == {p[2] : p \in {q \in cloud : q[1] = w}}
CloudWords    == {p[1] : p \in cloud}

LevelRight(n) == n.hist # <<>> => n.level = Last(n.hist).level

(* The texts under way are in the cloud. *)
QueueBehind ==
  \A i \in DOMAIN queue :
    /\ queue[i].op = "row" => <<queue[i].word, queue[i].text>> \in cloud
    /\ queue[i].op = "state" => /\ TextsOf(queue[i].note) \subseteq CloudTexts(queue[i].word)
                                /\ LevelRight(queue[i].note)

RunBehind ==
  /\ pc \in {"read", "write", "apart"} => <<now.word, now.at>> \in cloud /\ now.at # 0
  /\ pc \in {"write", "apart"} => TextsOf(base) \subseteq CloudTexts(now.word)
  /\ additions \subseteq CloudWords

DbBehind ==
  /\ iters \subseteq cloud
  /\ \A w \in Words : TextsOf(note[w]) \subseteq CloudTexts(w)

PadsBehind ==
  /\ seen.words \subseteq byUser \cup CloudWords
  /\ \A i \in DOMAIN pads : pads[i] \subseteq byUser \cup CloudWords

(* With an op_lock the queue holds, but for study runs, only torn saves. *)
QueueAtomic == atomic => \A i \in DOMAIN queue :
                           queue[i].op # "upsert" => queue[i].word \in torn \cap replaced

BaseCurrent ==
  /\ atomic /\ pc = "write" =>
       /\ now.word \notin torn => TextsOf(base) \subseteq ItersOf(now.word)
       /\ now.word \notin replaced => base = note[now.word]
  /\ pc = "apart" => now.word \in torn \cap replaced

(* What the run will write is what the notepad holds. *)
PadSeen == pc = "pad" /\ padRead => /\ seen.found = (pads # <<>>)
                                    /\ pads # <<>> => seen.words = Head(pads)

IInv == /\ DbTypes /\ RunTypes
        /\ QueueBehind /\ RunBehind /\ DbBehind /\ PadsBehind
        /\ QueueAtomic /\ BaseCurrent /\ HistoryBacked
        /\ PadSeen

-----------------------------------------------------------------------------
(* Lemmas. *)

LEMMA FreshNote == Fresh \in Notes /\ TextsOf(Fresh) = {} /\ Fresh.hist = <<>>
  BY DEF Fresh, Notes, TextsOf

LEMMA StatementIs ==
  ASSUME NEW s \in Statements
  PROVE  /\ s.op \in {"row", "state", "upsert"} /\ s.word \in Words
         /\ s.op = "row" => s.text \in Nat
         /\ s.op = "state" => s.note \in Notes
  BY DEF Statements, Row, State, Upsert

LEMMA NewTextIs == DbTypes => NewText \in Nat \ {0}
  BY FS_CardinalityType DEF DbTypes, NewText

LEMMA UpdatedIs ==
  ASSUME base \in Notes, now \in RowSet, now.at # 0
  PROVE  /\ Updated \in Notes
         /\ TextsOf(Updated) = TextsOf(base) \cup {now.at}
         /\ Updated.hist # <<>> /\ Updated.level = Last(Updated.hist).level
         /\ Updated.texts = base.texts \cup {now.at}
  <1> DEFINE e == [level |-> now.level + 1, fam |-> now.fam, text |-> now.at]
             h == Append(base.hist, e)
  <1>1. e \in Entries /\ base.hist \in Seq(Entries)
    BY DEF Entries, RowSet, Notes
  <1>2. h \in Seq(Entries) /\ Len(h) = Len(base.hist) + 1 /\ Len(base.hist) \in Nat
        /\ DOMAIN h = 1..Len(base.hist) + 1 /\ DOMAIN base.hist = 1..Len(base.hist)
        /\ h[Len(base.hist) + 1] = e /\ \A i \in 1..Len(base.hist) : h[i] = base.hist[i]
    BY <1>1
  <1>3. Updated = [level |-> now.level + 1, hist |-> h, texts |-> base.texts \cup {now.at}]
    BY DEF Updated
  <1>4. Updated \in Notes
    BY <1>2, <1>3 DEF Notes, RowSet
  <1>5. Last(h) = e /\ h # <<>>
    BY <1>2 DEF Last
  <1>6. TextsOf(Updated) = {h[i].text : i \in DOMAIN h} \ {0}
    BY <1>3 DEF TextsOf
  <1>7. {h[i].text : i \in DOMAIN h} = {base.hist[i].text : i \in DOMAIN base.hist} \cup {now.at}
    <2> HIDE DEF h
    <2>1. e.text = now.at
      OBVIOUS
    <2> HIDE DEF e
    <2> QED BY <1>2, <2>1
  <1>8. TextsOf(base) = {base.hist[i].text : i \in DOMAIN base.hist} \ {0}
    BY DEF TextsOf
  <1>9. TextsOf(Updated) = TextsOf(base) \cup {now.at}
    <2> HIDE DEF h, e
    <2> QED BY <1>6, <1>7, <1>8
  <1>10. Updated.hist = h /\ Updated.level = e.level /\ Updated.texts = base.texts \cup {now.at}
    BY <1>3
  <1> QED BY <1>4, <1>5, <1>9, <1>10

LEMMA RowsTyped ==
  ASSUME DbTypes, NEW st \in Stats, NEW old
  PROVE  Selected(st, old) \subseteq RowSet
  <1>1. Rows \subseteq RowSet
    <2> SUFFICES ASSUME NEW w \in Words, NEW r \in
                   IF snaps[w] = <<>>
                   THEN {[word |-> w, at |-> 0, level |-> note[w].level, fam |-> None,
                          reviews |-> 0]}
                   ELSE {[word |-> w, at |-> i, level |-> note[w].level,
                          fam |-> snaps[w][i].fam, reviews |-> snaps[w][i].reviews]
                         : i \in DOMAIN snaps[w]}
                 PROVE  r \in RowSet
      BY DEF Rows
    <2>1. note[w].level \in Nat /\ snaps[w] \in Seq(Snapshots)
      BY DEF DbTypes, Notes
    <2>2. CASE snaps[w] = <<>>
      BY <2>1, <2>2 DEF RowSet, None
    <2>3. CASE snaps[w] # <<>>
      <3>1. PICK i \in DOMAIN snaps[w] :
              r = [word |-> w, at |-> i, level |-> note[w].level,
                   fam |-> snaps[w][i].fam, reviews |-> snaps[w][i].reviews]
        BY <2>3
      <3>2. i \in Nat /\ snaps[w][i] \in Snapshots
        BY <2>1
      <3> QED BY <2>1, <3>1, <3>2 DEF RowSet, Snapshots
    <2> QED BY <2>2, <2>3
  <1> QED BY <1>1 DEF Selected

(* A step that leaves database, queue and cloud alone. *)
LEMMA DataSame ==
  ASSUME IInv, UNCHANGED <<atomic, note, iters, queue, cloud, excuses>>
  PROVE  /\ QueueBehind' /\ DbBehind' /\ QueueAtomic' /\ HistoryBacked'
         /\ \A w : CloudTexts(w)' = CloudTexts(w) /\ ItersOf(w)' = ItersOf(w)
         /\ CloudWords' = CloudWords
  <1>1. /\ \A w : CloudTexts(w)' = CloudTexts(w) /\ ItersOf(w)' = ItersOf(w)
        /\ CloudWords' = CloudWords
    BY DEF CloudTexts, ItersOf, CloudWords
  <1>2. QueueBehind' /\ DbBehind' /\ QueueAtomic'
    BY <1>1 DEF IInv, QueueBehind, DbBehind, QueueAtomic, excuses
  <1>3. HistoryBacked'
    BY <1>1 DEF IInv, HistoryBacked, excuses
  <1> QED BY <1>1, <1>2, <1>3

LEMMA SnapsKept == DbTypes /\ UNCHANGED <<atomic, snaps, note, queue, cloud>> => DbTypes'
  BY DEF DbTypes

-----------------------------------------------------------------------------
(* The steps of the run that write nothing to the database. *)

LEMMA LearnsKeeps ==
  ASSUME IInv, Learns
  PROVE  IInv'
  <1>1. UNCHANGED <<atomic, note, iters, queue, cloud, excuses, runVars, padVars>>
    BY DEF Learns
  <1>2. DbTypes'
    <2>1. PICK w \in Words, x \in Learned : snaps' = [snaps EXCEPT ![w] = Append(@, x)]
      BY DEF Learns
    <2>2. Append(snaps[w], x) \in Seq(Snapshots)
      BY <2>1, SnapsAssumption DEF IInv, DbTypes
    <2> QED BY <1>1, <2>1, <2>2 DEF IInv, DbTypes
  <1>3. RunTypes' /\ RunBehind' /\ PadsBehind' /\ BaseCurrent' /\ PadSeen'
    BY <1>1, DataSame DEF IInv, runVars, padVars, RunTypes, RunBehind, PadsBehind, BaseCurrent, excuses,
       PadSeen
  <1> QED BY <1>1, <1>2, <1>3, DataSame DEF IInv

LEMMA EditsKeeps ==
  ASSUME IInv, Edits
  PROVE  IInv'
  <1>1. UNCHANGED <<atomic, dbVars, cloud, excuses, runVars>> /\ padRead' = FALSE
    BY DEF Edits
  <1>2. PICK w \in Words : /\ pads' = [pads EXCEPT ![1] = @ \cup {w}]
                           /\ byUser' = byUser \cup {w}
    BY DEF Edits
  <1>3. pads # <<>> /\ pads \in Seq(SUBSET Words)
    BY DEF IInv, RunTypes, Edits
  <1>4. DOMAIN pads' = DOMAIN pads /\ pads' \in Seq(SUBSET Words)
        /\ \A i \in DOMAIN pads : pads'[i] \subseteq pads[i] \cup {w}
    BY <1>2, <1>3
  <1>5. RunTypes' /\ RunBehind' /\ BaseCurrent' /\ PadSeen'
    BY <1>1, <1>2, <1>4, DataSame DEF IInv, dbVars, runVars, RunTypes, RunBehind, BaseCurrent, excuses,
       PadSeen
  <1>6. PadsBehind'
    BY <1>1, <1>2, <1>4, DataSame DEF IInv, dbVars, runVars, PadsBehind
  <1> QED BY <1>1, <1>5, <1>6, DataSame, SnapsKept DEF IInv, dbVars

LEMMA BeginsKeeps ==
  ASSUME IInv, Begins
  PROVE  IInv'
  <1>1. UNCHANGED <<atomic, dbVars, now, base, seen, cloud, padVars, excuses>>
        /\ additions' = {} /\ pc' \in {"idle", "words"}
    BY DEF Begins
  <1>2. todo' \subseteq RowSet
    BY RowsTyped DEF Begins, IInv
  <1>3. RunTypes' /\ RunBehind' /\ PadsBehind' /\ BaseCurrent' /\ PadSeen'
    BY <1>1, <1>2, DataSame DEF IInv, dbVars, padVars, RunTypes, RunBehind, PadsBehind,
       BaseCurrent, excuses, PadSeen
  <1> QED BY <1>1, <1>3, DataSame, SnapsKept DEF IInv, dbVars

LEMMA SkipsKeep ==
  ASSUME IInv, PassesOver \/ RefineFails
  PROVE  IInv'
  <1>1. UNCHANGED <<atomic, dbVars, pc, now, base, additions, seen, cloud, padVars, excuses>>
        /\ todo' \subseteq todo
    BY DEF PassesOver, RefineFails
  <1>2. RunTypes' /\ RunBehind' /\ PadsBehind' /\ BaseCurrent' /\ PadSeen'
    BY <1>1, DataSame DEF IInv, dbVars, padVars, RunTypes, RunBehind, PadsBehind, BaseCurrent, excuses,
       PadSeen
  <1> QED BY <1>1, <1>2, DataSame, SnapsKept DEF IInv, dbVars

LEMMA ReadsStateKeeps ==
  ASSUME IInv, ReadsState
  PROVE  IInv'
  <1>1. UNCHANGED <<atomic, dbVars, todo, additions, seen, cloud, padVars, excuses>>
        /\ pc = "read" /\ pc' = "write" /\ base' = note[now.word] /\ now \in RowSet
    BY DEF ReadsState, IInv, RunTypes
  <1>2. now.word \in Words /\ base' \in Notes
    BY <1>1 DEF IInv, DbTypes, RowSet
  <1>3. now' \in RowSet /\ now'.word = now.word /\ now'.at = now.at
    <2>1. PICK f : now' = [now EXCEPT !.fam = f] /\ f \in Int
      <3>1. CASE snaps[now.word] = <<>>
        <4>1. now' = [now EXCEPT !.fam = 0] /\ 0 \in Int
          BY <3>1 DEF ReadsState
        <4> QED BY <4>1
      <3>2. CASE snaps[now.word] # <<>>
        <4>1. Last(snaps[now.word]) \in Snapshots
          BY <1>2, <3>2 DEF IInv, DbTypes, Last
        <4> QED BY <3>2, <4>1 DEF ReadsState, Snapshots
      <3> QED BY <3>1, <3>2
    <2> QED BY <1>1, <2>1 DEF RowSet
  <1>4. RunTypes' /\ PadsBehind' /\ PadSeen'
    BY <1>1, <1>2, <1>3, DataSame DEF IInv, dbVars, padVars, RunTypes, PadsBehind, PadSeen
  <1>5. RunBehind'
    BY <1>1, <1>2, <1>3, DataSame DEF IInv, dbVars, RunBehind, DbBehind
  <1>6. BaseCurrent'
    BY <1>1, <1>2, <1>3, DataSame DEF IInv, dbVars, BaseCurrent, excuses, HistoryBacked
  <1> QED BY <1>1, <1>4, <1>5, <1>6, DataSame, SnapsKept DEF IInv, dbVars

(* NextWord: the word in hand joins the additions. *)
LEMMA NextWordTyped ==
  ASSUME IInv, pc \in {"read", "write", "apart"}, NextWord
  PROVE  RunTypes'
  <1>1. now.word \in Words
    BY DEF IInv, RunTypes, RowSet
  <1> QED BY <1>1, FreshNote DEF NextWord, IInv, RunTypes, padVars

LEMMA WriteFailsKeeps ==
  ASSUME IInv, WriteFails
  PROVE  IInv'
  <1>1. UNCHANGED <<atomic, dbVars, todo, seen, cloud, padVars, excuses>>
        /\ pc = "write" /\ pc' = "words" /\ base' = Fresh
        /\ additions' = additions \cup {now.word}
    BY DEF WriteFails, NextWord, dbVars
  <1>2. RunTypes'
    BY <1>1, NextWordTyped DEF WriteFails, padVars
  <1>3. RunBehind'
    BY <1>1, DataSame DEF IInv, dbVars, RunBehind, CloudWords
  <1>4. PadsBehind' /\ BaseCurrent' /\ PadSeen'
    BY <1>1, DataSame DEF IInv, dbVars, padVars, PadsBehind, BaseCurrent, excuses, PadSeen
  <1> QED BY <1>1, <1>2, <1>3, <1>4, DataSame, SnapsKept DEF IInv, dbVars

LEMMA PadStepsKeep ==
  ASSUME IInv, ReadsPad \/ ReadsPadBlind \/ EndsWithoutPad \/ PadRefused
  PROVE  IInv'
  <1>1. /\ UNCHANGED <<atomic, dbVars, todo, now, base, cloud, pads, byUser, excuses>>
        /\ additions' \in {additions, {}}
        /\ pc' \in {"idle", "pad"}
    BY DEF ReadsPad, ReadsPadBlind, EndsWithoutPad, PadRefused, Over
  <1>2. /\ seen' \in [found : BOOLEAN, words : SUBSET Words]
        /\ seen'.words = {} \/ (pads # <<>> /\ seen'.words = Head(pads))
        /\ pc' = "pad" /\ padRead' => /\ seen'.found = (pads # <<>>)
                                      /\ pads # <<>> => seen'.words = Head(pads)
    <2>1. CASE ReadsPad
      BY <2>1 DEF ReadsPad, IInv, RunTypes
    <2>2. CASE ReadsPadBlind
      <3>1. PICK found \in {FALSE, pads # <<>>} : seen' = [found |-> found, words |-> {}]
        BY <2>2 DEF ReadsPadBlind
      <3>2. found \in BOOLEAN /\ padRead' = FALSE
        BY <2>2 DEF ReadsPadBlind
      <3> QED BY <3>1, <3>2
    <2>3. CASE EndsWithoutPad \/ PadRefused
      <3>1. seen' = [found |-> FALSE, words |-> {}] /\ pc' = "idle"
        BY <2>3 DEF EndsWithoutPad, PadRefused, Over
      <3> QED BY <3>1
    <2> QED BY <2>1, <2>2, <2>3
  <1>3. pads # <<>> => Head(pads) = pads[1] /\ 1 \in DOMAIN pads
    BY DEF IInv, RunTypes
  <1>4. RunTypes' /\ RunBehind' /\ BaseCurrent'
    BY <1>1, <1>2, DataSame DEF IInv, dbVars, RunTypes, RunBehind, BaseCurrent, excuses
  <1>5. PadsBehind'
    BY <1>1, <1>2, <1>3, DataSame DEF IInv, dbVars, PadsBehind
  <1>6. PadSeen'
    BY <1>1, <1>2 DEF PadSeen
  <1> QED BY <1>1, <1>4, <1>5, <1>6, DataSame, SnapsKept DEF IInv, dbVars

LEMMA WritesPadKeeps ==
  ASSUME IInv, WritesPad
  PROVE  IInv'
  <1>1. /\ UNCHANGED <<atomic, dbVars, todo, now, base, cloud, byUser, excuses>>
        /\ additions' = {} /\ pc' = "idle" /\ seen' = [found |-> FALSE, words |-> {}]
    BY DEF WritesPad, Over
  <1>2. pads \in Seq(SUBSET Words) /\ additions \subseteq Words /\ seen.words \subseteq Words
    BY DEF IInv, RunTypes
  <1>3. /\ pads' \in Seq(SUBSET Words)
        /\ \A i \in DOMAIN pads' : pads'[i] \subseteq seen.words \cup additions
                                   \/ (i \in DOMAIN pads /\ pads'[i] = pads[i])
    <2>1. CASE seen.found
      <3>1. pads' = [pads EXCEPT ![1] = seen.words \cup additions]
        BY <2>1 DEF WritesPad
      <3>2. pads' \in Seq(SUBSET Words) /\ DOMAIN pads' = DOMAIN pads
        <4> DEFINE S == SUBSET Words
                   A == seen.words \cup additions
        <4>1. A \in S /\ pads \in Seq(S)
          BY <1>2
        <4> HIDE DEF S, A
        <4>2. pads \in [1..Len(pads) -> S] /\ Len(pads) \in Nat
          BY <4>1
        <4>3. [pads EXCEPT ![1] = A] \in [1..Len(pads) -> S]
          BY <4>1, <4>2
        <4>4. [pads EXCEPT ![1] = A] \in Seq(S) /\ DOMAIN [pads EXCEPT ![1] = A] = DOMAIN pads
          BY <4>2, <4>3
        <4> QED BY <3>1, <4>4 DEF S, A
      <3>3. \A i \in DOMAIN pads : pads'[i] = IF i = 1 THEN seen.words \cup additions ELSE pads[i]
        BY <1>2, <3>1
      <3> QED BY <3>2, <3>3
    <2>2. CASE ~ seen.found
      BY <1>2, <2>2 DEF WritesPad
    <2> QED BY <2>1, <2>2
  <1>4. RunTypes' /\ RunBehind' /\ BaseCurrent' /\ PadSeen'
    BY <1>1, <1>3, DataSame DEF IInv, dbVars, RunTypes, RunBehind, BaseCurrent, excuses, PadSeen
  <1>5. PadsBehind'
    BY <1>1, <1>3, DataSame DEF IInv, dbVars, PadsBehind, RunBehind
  <1> QED BY <1>1, <1>4, <1>5, DataSame, SnapsKept DEF IInv, dbVars

-----------------------------------------------------------------------------
(* The steps that write to cloud, queue or database. *)

LEMMA RefinesKeeps ==
  ASSUME IInv, Refines
  PROVE  IInv'
  <1>1. PICK r \in Refinable : /\ todo' = todo \ {r}
                               /\ now' = [r EXCEPT !.at = NewText]
                               /\ cloud' = cloud \cup {<<r.word, NewText>>}
    BY DEF Refines
  <1>2. UNCHANGED <<atomic, dbVars, base, additions, seen, padVars, excuses>>
        /\ pc = "words" /\ pc' = "read"
    BY DEF Refines
  <1>3. r \in RowSet /\ NewText \in Nat \ {0}
    BY NewTextIs DEF Refinable, IInv, RunTypes
  <1>4. now' \in RowSet /\ now'.word = r.word /\ now'.at = NewText /\ r.word \in Words
    BY <1>1, <1>3 DEF RowSet
  <1>5. cloud \subseteq cloud' /\ CloudWords \subseteq CloudWords'
        /\ \A w : CloudTexts(w) \subseteq CloudTexts(w)'
    BY <1>1 DEF CloudWords, CloudTexts
  <1>6. DbTypes'
    <2>1. IsFiniteSet(cloud')
      BY <1>1, FS_AddElement DEF IInv, DbTypes
    <2>2. cloud' \in SUBSET (Words \X Nat)
      BY <1>1, <1>3, <1>4 DEF IInv, DbTypes
    <2> QED BY <1>2, <2>1, <2>2 DEF IInv, DbTypes, dbVars
  <1>7. RunTypes'
    BY <1>1, <1>2, <1>4 DEF IInv, RunTypes, padVars
  <1>8. RunBehind'
    BY <1>1, <1>2, <1>3, <1>4, <1>5 DEF IInv, RunBehind
  <1>9. QueueBehind' /\ DbBehind' /\ PadsBehind'
    BY <1>2, <1>5 DEF IInv, QueueBehind, DbBehind, PadsBehind, dbVars, padVars
  <1>10. QueueAtomic' /\ BaseCurrent' /\ PadSeen'
    BY <1>2 DEF IInv, QueueAtomic, BaseCurrent, excuses, PadSeen, dbVars, padVars
  <1>11. HistoryBacked'
    BY <1>2 DEF IInv, HistoryBacked, ItersOf, dbVars, excuses
  <1> QED BY <1>6, <1>7, <1>8, <1>9, <1>10, <1>11 DEF IInv

(* What may happen to the queue: it grows by statements that are behind the   *)
(* cloud, or loses some of its first ones.                                     *)
LEMMA QueueShrinks ==
  ASSUME IInv, NEW k \in 1..Len(queue), queue' = SubSeq(queue, k + 1, Len(queue)),
         UNCHANGED <<atomic, cloud, torn>>, replaced \subseteq replaced'
  PROVE  queue' \in Seq(Statements) /\ QueueBehind' /\ QueueAtomic'
  <1>1. queue \in Seq(Statements)
    BY DEF IInv, DbTypes
  <1>2. queue' \in Seq(Statements) /\ \A i \in DOMAIN queue' : i + k \in DOMAIN queue
                                                              /\ queue'[i] = queue[i + k]
    <2> HIDE DEF Statements
    <2> QED BY <1>1
  <1>3. \A w : CloudTexts(w)' = CloudTexts(w)
    BY DEF CloudTexts
  <1> QED BY <1>2, <1>3 DEF IInv, QueueBehind, QueueAtomic

LEMMA QueueGrows ==
  ASSUME NEW q \in Seq(Statements), NEW s \in Statements
  PROVE  /\ Append(q, s) \in Seq(Statements)
         /\ \A i \in DOMAIN Append(q, s) : \/ i \in DOMAIN q /\ Append(q, s)[i] = q[i]
                                           \/ Append(q, s)[i] = s
  <1> HIDE DEF Statements
  <1> QED OBVIOUS

LEMMA DropsKeeps ==
  ASSUME IInv, NEW k \in 1..Len(queue), Drops(k)
  PROVE  IInv'
  <1>1. UNCHANGED <<atomic, snaps, note, iters, runVars, cloud, padVars, excuses>>
        /\ queue' = SubSeq(queue, k + 1, Len(queue))
    BY DEF Drops
  <1>2. queue' \in Seq(Statements) /\ QueueBehind' /\ QueueAtomic'
    BY <1>1, QueueShrinks DEF excuses
  <1>3. DbTypes'
    BY <1>1, <1>2 DEF IInv, DbTypes
  <1>4. CloudWords' = CloudWords
        /\ \A w : CloudTexts(w)' = CloudTexts(w) /\ ItersOf(w)' = ItersOf(w)
    BY <1>1 DEF CloudWords, CloudTexts, ItersOf
  <1>5. RunTypes' /\ RunBehind' /\ PadsBehind' /\ BaseCurrent' /\ PadSeen'
    BY <1>1, <1>4 DEF IInv, runVars, padVars, RunTypes, RunBehind, PadsBehind, BaseCurrent, excuses, PadSeen
  <1>6. DbBehind' /\ HistoryBacked'
    BY <1>1, <1>4 DEF IInv, DbBehind, HistoryBacked, excuses
  <1> QED BY <1>2, <1>3, <1>5, <1>6 DEF IInv

LEMMA StudySavesKeeps ==
  ASSUME IInv, StudySaves
  PROVE  IInv'
  <1>1. UNCHANGED <<atomic, snaps, iters, runVars, cloud, padVars, torn>>
        /\ replaced \subseteq replaced' /\ pc = "idle"
    BY DEF StudySaves, Apply, Upsert
  <1>2. PICK w \in Words : IF atomic
                           THEN queue' = Append(queue, Upsert(w)) /\ UNCHANGED <<note, replaced>>
                           ELSE UNCHANGED queue /\ note' = [note EXCEPT ![w] = Fresh]
    BY DEF StudySaves, Apply, Upsert
  <1>3. Upsert(w) \in Statements /\ Upsert(w).op = "upsert"
    BY DEF Statements, Upsert
  <1>4. queue' \in Seq(Statements) /\ \A i \in DOMAIN queue' :
          \/ i \in DOMAIN queue /\ queue'[i] = queue[i]
          \/ queue'[i].op = "upsert"
    BY <1>2, <1>3, QueueGrows DEF IInv, DbTypes
  <1>5. note' \in [Words -> Notes] /\ \A v \in Words : note'[v] \in {note[v], Fresh}
    BY <1>2, FreshNote DEF IInv, DbTypes
  <1>6. DbTypes'
    BY <1>1, <1>4, <1>5 DEF IInv, DbTypes
  <1>7. CloudWords' = CloudWords
        /\ \A v : CloudTexts(v)' = CloudTexts(v) /\ ItersOf(v)' = ItersOf(v)
    BY <1>1 DEF CloudWords, CloudTexts, ItersOf
  <1>8. QueueBehind' /\ QueueAtomic'
    BY <1>1, <1>4, <1>7 DEF IInv, QueueBehind, QueueAtomic
  <1>9. RunTypes' /\ RunBehind' /\ PadsBehind' /\ BaseCurrent' /\ PadSeen'
    BY <1>1, <1>7 DEF IInv, runVars, padVars, RunTypes, RunBehind, PadsBehind, BaseCurrent, PadSeen
  <1>10. DbBehind'
    BY <1>1, <1>5, <1>7, FreshNote DEF IInv, DbBehind
  <1>11. HistoryBacked'
    BY <1>1, <1>2, <1>7 DEF IInv, HistoryBacked
  <1> QED BY <1>6, <1>8, <1>9, <1>10, <1>11 DEF IInv

(* What a batch makes of a note: the last statement's, or nothing new. *)
LEMMA NoteAfterIs ==
  ASSUME IInv, NEW w \in Words, NEW k \in 1..Len(queue)
  PROVE  /\ NoteAfter(w, k) \in Notes
         /\ TextsOf(NoteAfter(w, k)) \subseteq CloudTexts(w)
         /\ LevelRight(note[w]) => LevelRight(NoteAfter(w, k))
         /\ atomic => \/ NoteAfter(w, k) = note[w]
                      \/ NoteAfter(w, k) = Fresh /\ \E s \in Of("upsert", k) : s.word = w
                      \/ w \in torn \cap replaced
  <1>1. CASE LastFor(w, k) = {}
    BY <1>1 DEF NoteAfter, IInv, DbTypes, DbBehind
  <1>2. CASE LastFor(w, k) # {}
    <2> DEFINE j == CHOOSE i \in LastFor(w, k) : TRUE
    <2>1. j \in LastFor(w, k)
      BY <1>2
    <2>2. j \in 1..k /\ queue[j].op # "row" /\ queue[j].word = w
      BY <2>1 DEF LastFor
    <2> HIDE DEF j
    <2>3. j \in DOMAIN queue /\ queue[j] \in Statements
      <3>1. queue \in Seq(Statements)
        BY DEF IInv, DbTypes
      <3> HIDE DEF Statements
      <3> QED BY <2>2, <3>1
    <2>4. queue[j].op \in {"state", "upsert"} /\ (queue[j].op = "state" => queue[j].note \in Notes)
      BY <2>2, <2>3, StatementIs
    <2>5. NoteAfter(w, k) = IF queue[j].op = "state" THEN queue[j].note ELSE Fresh
      BY <1>2 DEF NoteAfter, j
    <2>6. CASE queue[j].op = "state"
      BY <2>2, <2>3, <2>4, <2>5, <2>6 DEF IInv, QueueBehind, QueueAtomic
    <2>7. CASE queue[j].op = "upsert"
      <3>1. queue[j] \in Of("upsert", k)
        BY <2>2, <2>7 DEF Of
      <3>2. LevelRight(Fresh)
        BY FreshNote DEF LevelRight
      <3> QED BY <2>2, <2>5, <2>7, <3>1, <3>2, FreshNote
    <2> QED BY <2>4, <2>6, <2>7
  <1> QED BY <1>1, <1>2

LEMMA CommitsKeeps ==
  ASSUME IInv, NEW k \in 1..Len(queue), Commits(k)
  PROVE  IInv'
  <1>1. UNCHANGED <<atomic, snaps, runVars, cloud, padVars, torn>>
        /\ queue' = SubSeq(queue, k + 1, Len(queue))
        /\ note' = [w \in Words |-> NoteAfter(w, k)]
        /\ iters' = iters \cup {<<s.word, s.text>> : s \in Of("row", k)}
        /\ replaced' = replaced \cup {s.word : s \in Of("upsert", k)}
    BY DEF Commits
  <1>2. queue' \in Seq(Statements) /\ QueueBehind' /\ QueueAtomic'
    BY <1>1, QueueShrinks DEF excuses
  <1>3. DbTypes'
    BY <1>1, <1>2, NoteAfterIs DEF IInv, DbTypes
  <1>4. CloudWords' = CloudWords /\ \A w : CloudTexts(w)' = CloudTexts(w)
    BY <1>1 DEF CloudWords, CloudTexts
  <1>5. RunTypes' /\ RunBehind' /\ PadsBehind' /\ PadSeen'
    BY <1>1, <1>4 DEF IInv, runVars, padVars, RunTypes, RunBehind, PadsBehind, PadSeen
  <1>6. \A s \in Of("row", k) : <<s.word, s.text>> \in cloud
    <2>1. DOMAIN queue = 1..Len(queue) /\ Len(queue) \in Nat
      BY DEF IInv, DbTypes
    <2> QED BY <2>1 DEF IInv, QueueBehind, Of
  <1>7. DbBehind'
    BY <1>1, <1>4, <1>6, NoteAfterIs DEF IInv, DbBehind
  <1>8. ASSUME atomic, NEW w \in Words
        PROVE  /\ ItersOf(w) \subseteq ItersOf(w)'
               /\ w \notin torn \cap replaced => ItersOf(w)' = ItersOf(w)
    <2>1. DOMAIN queue = 1..Len(queue) /\ Len(queue) \in Nat
      BY DEF IInv, DbTypes
    <2>2. \A s \in Of("row", k) : s.word \in torn \cap replaced
      BY <1>8, <2>1 DEF IInv, QueueAtomic, Of
    <2> DEFINE N == {<<s.word, s.text>> : s \in Of("row", k)}
    <2>3. iters' = iters \cup N /\ \A p \in N : p[1] \in torn \cap replaced
      BY <1>1, <2>2
    <2> HIDE DEF N
    <2> QED BY <2>3 DEF ItersOf
  <1>9. ASSUME atomic, NEW w \in Words
        PROVE  \/ note'[w] = note[w]
               \/ note'[w] = Fresh /\ w \in replaced'
               \/ w \in torn \cap replaced
    BY <1>1, <1>9, NoteAfterIs
  <1>10. HistoryBacked'
    <2> SUFFICES ASSUME atomic, NEW w \in Words
                 PROVE  /\ w \notin torn => TextsOf(note'[w]) \subseteq ItersOf(w)'
                        /\ w \notin replaced' => ItersOf(w)' \subseteq TextsOf(note'[w])
                                                                  \cap note'[w].texts
                        /\ note'[w].hist # <<>> => note'[w].level = Last(note'[w].hist).level
      BY <1>1 DEF HistoryBacked
    <2>1. LevelRight(note'[w])
      <3>1. LevelRight(note[w])
        BY DEF IInv, HistoryBacked, LevelRight
      <3> QED BY <1>1, <3>1, NoteAfterIs
    <2>2. CASE w \in torn \cap replaced
      BY <1>1, <2>1, <2>2 DEF LevelRight
    <2>3. CASE w \notin torn \cap replaced /\ note'[w] = note[w]
      BY <1>1, <1>8, <2>1, <2>3 DEF IInv, HistoryBacked, LevelRight
    <2>4. CASE note'[w] = Fresh /\ w \in replaced'
      BY <2>1, <2>4, FreshNote DEF LevelRight
    <2> QED BY <1>9, <2>2, <2>3, <2>4
  <1>11. BaseCurrent'
    <2>1. pc = "apart" => now.word \in torn \cap replaced'
      BY <1>1 DEF IInv, BaseCurrent
    <2> DEFINE I == {p[2] : p \in {q \in iters' : q[1] = now.word}}
    <2>2. ASSUME atomic, pc = "write"
          PROVE  /\ now.word \notin torn => TextsOf(base) \subseteq I
                 /\ now.word \notin replaced' => base = note'[now.word]
      <3>1. now.word \in Words
        BY <2>2 DEF IInv, RunTypes, RowSet
      <3>2. PICK w : w = now.word
        OBVIOUS
      <3>3. ItersOf(w) \subseteq ItersOf(w)'
        BY <1>8, <2>2, <3>1, <3>2
      <3>4. w \notin replaced' => note'[w] = note[w]
        BY <1>1, <1>9, <2>2, <3>1, <3>2
      <3>5. /\ w \notin torn => TextsOf(base) \subseteq ItersOf(w)
            /\ w \notin replaced => base = note[w]
        BY <2>2, <3>2 DEF IInv, BaseCurrent
      <3>6. /\ w \notin torn => TextsOf(base) \subseteq ItersOf(w)'
            /\ w \notin replaced' => base = note'[w]
        BY <1>1, <3>3, <3>4, <3>5
      <3>7. ItersOf(w)' = I
        BY <3>2 DEF ItersOf
      <3> HIDE DEF I
      <3> QED BY <3>2, <3>6, <3>7
    <2>3. now' = now /\ pc' = pc /\ base' = base /\ torn' = torn /\ atomic' = atomic
      BY <1>1 DEF runVars
    <2> QED BY <2>1, <2>2, <2>3 DEF BaseCurrent, ItersOf
  <1> QED BY <1>2, <1>3, <1>5, <1>7, <1>10, <1>11 DEF IInv

LEMMA WritesKeeps ==
  ASSUME IInv, WritesAtomically \/ LosesIteration
  PROVE  IInv'
  <1>1. UNCHANGED <<atomic, snaps, queue, todo, seen, cloud, padVars, replaced>>
        /\ pc = "write" /\ pc' = "words" /\ base' = Fresh /\ atomic
        /\ additions' = additions \cup {now.word}
        /\ note' = [note EXCEPT ![now.word] = Updated]
        /\ torn \subseteq torn'
    BY DEF WritesAtomically, LosesIteration, NextWord, excuses
  <1>2. \/ iters' = iters \cup {<<now.word, now.at>>}
        \/ UNCHANGED iters /\ now.word \in torn'
    BY DEF WritesAtomically, LosesIteration
  <1>3. /\ now \in RowSet /\ now.word \in Words /\ base \in Notes
        /\ <<now.word, now.at>> \in cloud /\ now.at # 0
    BY <1>1 DEF IInv, RunTypes, RunBehind, RowSet
  <1>4. /\ Updated \in Notes
        /\ TextsOf(Updated) = TextsOf(base) \cup {now.at}
        /\ Updated.hist # <<>> /\ Updated.level = Last(Updated.hist).level
        /\ Updated.texts = base.texts \cup {now.at}
    BY <1>3, UpdatedIs
  <1>5. CloudWords' = CloudWords /\ \A w : CloudTexts(w)' = CloudTexts(w)
    BY <1>1 DEF CloudWords, CloudTexts
  <1>6. now.at \in CloudTexts(now.word) /\ iters' \subseteq cloud'
    BY <1>1, <1>2, <1>3 DEF CloudTexts, IInv, DbBehind
  <1>7. /\ \A w : /\ ItersOf(w) \subseteq ItersOf(w)'
                  /\ ItersOf(w)' \subseteq ItersOf(w) \cup {now.at}
                  /\ w # now.word => ItersOf(w)' = ItersOf(w)
        /\ \A w : w = now.word /\ w \notin torn' => now.at \in ItersOf(w)'
    <2>1. CASE UNCHANGED iters /\ now.word \in torn'
      BY <2>1 DEF ItersOf
    <2>2. CASE iters' = iters \cup {<<now.word, now.at>>}
      <3> DEFINE p == <<now.word, now.at>>
      <3>1. p[1] = now.word /\ p[2] = now.at
        OBVIOUS
      <3> HIDE DEF p
      <3>2. iters' = iters \cup {p}
        BY <2>2 DEF p
      <3>3. \A w : /\ ItersOf(w) = {q[2] : q \in {q \in iters : q[1] = w}}
                   /\ ItersOf(w)' = {q[2] : q \in {q \in iters' : q[1] = w}}
        BY DEF ItersOf
      <3>4. \A w : w = now.word => p \in {q \in iters' : q[1] = w}
        BY <3>1, <3>2
      <3>5. \A w : w = now.word => now.at \in ItersOf(w)'
        BY <3>1, <3>3, <3>4
      <3>6. \A w : /\ ItersOf(w) \subseteq ItersOf(w)'
                   /\ ItersOf(w)' \subseteq ItersOf(w) \cup {now.at}
                   /\ w # now.word => ItersOf(w)' = ItersOf(w)
        <4> SUFFICES ASSUME NEW w
                     PROVE  /\ ItersOf(w) \subseteq ItersOf(w)'
                            /\ ItersOf(w)' \subseteq ItersOf(w) \cup {now.at}
                            /\ w # now.word => ItersOf(w)' = ItersOf(w)
          OBVIOUS
        <4>1. {q \in iters : q[1] = w} \subseteq {q \in iters' : q[1] = w}
              /\ {q \in iters' : q[1] = w} \subseteq {q \in iters : q[1] = w} \cup {p}
              /\ (w # now.word => {q \in iters' : q[1] = w} = {q \in iters : q[1] = w})
          BY <3>1, <3>2
        <4>2. PICK A, B : A = {q \in iters : q[1] = w} /\ B = {q \in iters' : q[1] = w}
          OBVIOUS
        <4>3. ItersOf(w) = {q[2] : q \in A} /\ ItersOf(w)' = {q[2] : q \in B}
          BY <3>3, <4>2
        <4>4. A \subseteq B /\ B \subseteq A \cup {p} /\ (w # now.word => B = A)
          BY <4>1, <4>2
        <4>5. {q[2] : q \in A} \subseteq {q[2] : q \in B}
              /\ {q[2] : q \in B} \subseteq {q[2] : q \in A} \cup {now.at}
          BY <3>1, <4>4
        <4>6. w # now.word => {q[2] : q \in B} = {q[2] : q \in A}
          BY <4>4
        <4> QED BY <4>3, <4>5, <4>6
      <3> QED BY <3>5, <3>6
    <2> QED BY <1>2, <2>1, <2>2
  <1>8. DbTypes'
    BY <1>1, <1>3, <1>4 DEF IInv, DbTypes
  <1>9. RunTypes'
    BY <1>1, NextWordTyped DEF WritesAtomically, LosesIteration, padVars
  <1>10. RunBehind'
    BY <1>1, <1>3, <1>5 DEF IInv, RunBehind, CloudWords
  <1>11. QueueBehind' /\ QueueAtomic' /\ PadsBehind' /\ PadSeen' /\ BaseCurrent'
    BY <1>1, <1>5 DEF IInv, QueueBehind, QueueAtomic, PadsBehind, PadSeen, BaseCurrent, padVars
  <1>12. \A w \in Words : note'[w] = IF w = now.word THEN Updated ELSE note[w]
    BY <1>1 DEF IInv, DbTypes
  <1>13. DbBehind'
    BY <1>1, <1>3, <1>4, <1>5, <1>6, <1>12 DEF IInv, DbBehind, RunBehind
  <1>14. HistoryBacked'
    <2> SUFFICES ASSUME NEW w \in Words
                 PROVE  /\ w \notin torn' => TextsOf(note'[w]) \subseteq ItersOf(w)'
                        /\ w \notin replaced => ItersOf(w)' \subseteq TextsOf(note'[w])
                                                                 \cap note'[w].texts
                        /\ note'[w].hist # <<>> => note'[w].level = Last(note'[w].hist).level
      BY <1>1 DEF HistoryBacked
    <2>1. CASE w = now.word
      <3>1. (w \notin torn' => TextsOf(base) \subseteq ItersOf(w))
            /\ (w \notin replaced => ItersOf(w) \subseteq TextsOf(base) \cap base.texts)
        BY <1>1, <2>1 DEF IInv, BaseCurrent, HistoryBacked
      <3>2. /\ note'[w] = Updated
            /\ ItersOf(w) \subseteq ItersOf(w)' /\ ItersOf(w)' \subseteq ItersOf(w) \cup {now.at}
            /\ w \notin torn' => now.at \in ItersOf(w)'
        BY <1>7, <1>12, <2>1
      <3>3. TextsOf(note'[w]) = TextsOf(base) \cup {now.at}
            /\ note'[w].texts = base.texts \cup {now.at}
            /\ (note'[w].hist # <<>> => note'[w].level = Last(note'[w].hist).level)
        BY <1>4, <3>2
      <3> QED BY <3>1, <3>2, <3>3
    <2>2. CASE w # now.word
      BY <1>1, <1>7, <1>12, <2>2 DEF IInv, HistoryBacked
    <2> QED BY <2>1, <2>2
  <1> QED BY <1>8, <1>9, <1>10, <1>11, <1>13, <1>14 DEF IInv

LEMMA PutIs ==
  ASSUME NEW q \in Seq(Statements), NEW s \in Statements
  PROVE  /\ Put(q, s) \in Seq(Statements)
         /\ \A i \in DOMAIN Put(q, s) : \/ i \in DOMAIN q /\ Put(q, s)[i] = q[i]
                                        \/ Put(q, s)[i] = s
  BY QueueGrows DEF Put

(* A statement of a torn save, on its way through the queue or by itself.     *)
LEMMA DispatchKeeps ==
  ASSUME IInv, NEW s \in Statements, s.op \in {"row", "state"},
         s.op = "row" => <<s.word, s.text>> \in cloud,
         s.op = "state" => TextsOf(s.note) \subseteq CloudTexts(s.word) /\ LevelRight(s.note),
         s.word \in torn' \cap replaced', torn \subseteq torn', replaced \subseteq replaced',
         UNCHANGED <<atomic, snaps, cloud>>,
         Dispatch(s) \/ (queue' = Put(queue, s) /\ UNCHANGED <<note, iters>>)
  PROVE  DbTypes' /\ QueueBehind' /\ DbBehind' /\ QueueAtomic' /\ HistoryBacked'
  <1>1. s.word \in Words /\ (s.op = "state" => s.note \in Notes)
    BY StatementIs
  <1>2. \A w : CloudTexts(w)' = CloudTexts(w)
    BY DEF CloudTexts
  <1>3. CASE queue' = Put(queue, s) /\ UNCHANGED <<note, iters>>
    <2>1. queue' \in Seq(Statements) /\ \A i \in DOMAIN queue' :
            (i \in DOMAIN queue /\ queue'[i] = queue[i]) \/ queue'[i] = s
      BY <1>3, PutIs DEF IInv, DbTypes
    <2>2. QueueBehind' /\ QueueAtomic'
      BY <1>2, <2>1 DEF IInv, QueueBehind, QueueAtomic
    <2>3. \A w : ItersOf(w)' = ItersOf(w)
      BY <1>3 DEF ItersOf
    <2>4. DbBehind' /\ HistoryBacked'
      BY <1>2, <1>3, <2>3 DEF IInv, DbBehind, HistoryBacked
    <2> QED BY <1>3, <2>1, <2>2, <2>4 DEF IInv, DbTypes
  <1>4. CASE ~ atomic /\ UNCHANGED queue
    <2>1. QueueBehind' /\ QueueAtomic' /\ HistoryBacked'
      BY <1>2, <1>4 DEF IInv, QueueBehind, QueueAtomic, HistoryBacked
    <2>2. /\ note' = note \/ (s.op = "state" /\ note' = [note EXCEPT ![s.word] = s.note])
          /\ iters' = iters \/ (s.op = "row" /\ iters' = iters \cup {<<s.word, s.text>>})
      BY <1>4 DEF Dispatch, Apply
    <2>3. note' \in [Words -> Notes]
          /\ \A w \in Words : note'[w] = note[w] \/ (w = s.word /\ s.op = "state" /\ note'[w] = s.note)
      BY <1>1, <2>2 DEF IInv, DbTypes
    <2>4. DbTypes'
      BY <1>4, <2>3 DEF IInv, DbTypes
    <2>5. DbBehind'
      BY <1>2, <2>2, <2>3 DEF IInv, DbBehind
    <2> QED BY <2>1, <2>4, <2>5
  <1> QED BY <1>3, <1>4 DEF Dispatch

LEMMA WritesRowKeeps ==
  ASSUME IInv, WritesRow
  PROVE  IInv'
  <1>1. /\ UNCHANGED <<atomic, snaps, todo, now, base, additions, seen, cloud, padVars>>
        /\ pc = "write" /\ pc' = "apart"
        /\ torn' = torn \cup {now.word} /\ replaced' = replaced \cup {now.word}
    BY DEF WritesRow
  <1>2. PICK s : s = Row(now.word, now.at)
    OBVIOUS
  <1>3. Dispatch(s) \/ (queue' = Put(queue, s) /\ UNCHANGED <<note, iters>>)
    BY <1>2 DEF WritesRow
  <1>4. /\ now \in RowSet /\ now.word \in Words /\ now.at \in Nat
        /\ <<now.word, now.at>> \in cloud /\ now.at # 0
    BY <1>1 DEF IInv, RunTypes, RunBehind, RowSet
  <1>5. s \in Statements /\ s.op = "row" /\ s.word = now.word /\ s.text = now.at
    BY <1>2, <1>4 DEF Statements, Row
  <1>6. DbTypes' /\ QueueBehind' /\ DbBehind' /\ QueueAtomic' /\ HistoryBacked'
    BY <1>1, <1>3, <1>4, <1>5, DispatchKeeps
  <1>7. CloudWords' = CloudWords /\ \A w : CloudTexts(w)' = CloudTexts(w)
    BY <1>1 DEF CloudWords, CloudTexts
  <1>8. RunTypes' /\ PadsBehind' /\ PadSeen' /\ BaseCurrent'
    BY <1>1, <1>4, <1>7 DEF IInv, RunTypes, PadsBehind, PadSeen, BaseCurrent, padVars
  <1>9. RunBehind'
    BY <1>1, <1>4, <1>7 DEF IInv, RunBehind
  <1> QED BY <1>6, <1>8, <1>9 DEF IInv

LEMMA WritesStateKeeps ==
  ASSUME IInv, WritesState
  PROVE  IInv'
  <1>1. /\ UNCHANGED <<atomic, snaps, todo, seen, cloud, padVars, replaced, torn>>
        /\ pc = "apart" /\ pc' = "words" /\ base' = Fresh
        /\ additions' = additions \cup {now.word}
    BY DEF WritesState, NextWord, excuses
  <1>2. PICK s : s = State(now.word, Updated)
    OBVIOUS
  <1>3. Dispatch(s)
    BY <1>2 DEF WritesState
  <1>4. /\ now \in RowSet /\ now.word \in Words /\ base \in Notes
        /\ <<now.word, now.at>> \in cloud /\ now.at # 0
    BY <1>1 DEF IInv, RunTypes, RunBehind, RowSet
  <1>5. /\ Updated \in Notes /\ TextsOf(Updated) = TextsOf(base) \cup {now.at}
        /\ LevelRight(Updated)
    BY <1>4, UpdatedIs DEF LevelRight
  <1>6. TextsOf(Updated) \subseteq CloudTexts(now.word)
    BY <1>1, <1>4, <1>5 DEF IInv, RunBehind, CloudTexts
  <1>7. s \in Statements /\ s.op = "state" /\ s.word = now.word /\ s.note = Updated
    BY <1>2, <1>4, <1>5 DEF Statements, State
  <1>8. now.word \in torn \cap replaced
    BY <1>1 DEF IInv, BaseCurrent
  <1>9. DbTypes' /\ QueueBehind' /\ DbBehind' /\ QueueAtomic' /\ HistoryBacked'
    BY <1>1, <1>3, <1>5, <1>6, <1>7, <1>8, DispatchKeeps
  <1>10. CloudWords' = CloudWords /\ \A w : CloudTexts(w)' = CloudTexts(w)
    BY <1>1 DEF CloudWords, CloudTexts
  <1>11. RunTypes'
    BY <1>1, NextWordTyped DEF WritesState, padVars
  <1>12. RunBehind'
    BY <1>1, <1>4, <1>10 DEF IInv, RunBehind, CloudWords
  <1>13. PadsBehind' /\ PadSeen' /\ BaseCurrent'
    BY <1>1, <1>10 DEF IInv, PadsBehind, PadSeen, BaseCurrent, padVars
  <1> QED BY <1>9, <1>11, <1>12, <1>13 DEF IInv

LEMMA CrashesKeeps ==
  ASSUME IInv, Crashes
  PROVE  IInv'
  <1>1. UNCHANGED <<atomic, snaps, note, iters, cloud, padVars, excuses>>
        /\ pc' = "idle" /\ todo' = {} /\ base' = Fresh /\ additions' = {} /\ queue' = <<>>
        /\ seen' = [found |-> FALSE, words |-> {}]
    BY DEF Crashes
  <1>2. CloudWords' = CloudWords /\ \A w : CloudTexts(w)' = CloudTexts(w)
                                          /\ ItersOf(w)' = ItersOf(w)
    BY <1>1 DEF CloudWords, CloudTexts, ItersOf
  <1>3. queue' \in Seq(Statements) /\ DOMAIN queue' = {}
    BY <1>1
  <1>4. DbTypes'
    BY <1>1, <1>3 DEF IInv, DbTypes
  <1>5. RunTypes' /\ RunBehind' /\ BaseCurrent' /\ PadSeen'
    BY <1>1, FreshNote DEF IInv, RunTypes, RunBehind, BaseCurrent, excuses, PadSeen, padVars
  <1>6. QueueBehind' /\ QueueAtomic'
    BY <1>3 DEF QueueBehind, QueueAtomic
  <1>7. PadsBehind' /\ DbBehind' /\ HistoryBacked'
    BY <1>1, <1>2 DEF IInv, PadsBehind, DbBehind, HistoryBacked, padVars, excuses
  <1> QED BY <1>4, <1>5, <1>6, <1>7 DEF IInv

-----------------------------------------------------------------------------
LEMMA NoteExcept ==
  ASSUME NEW L, NEW H, NEW T, NEW n \in [level : L, hist : H, texts : T],
         NEW x \in L, NEW y \in H
  PROVE  LET m == [n EXCEPT !.level = x]
             k == [n EXCEPT !.level = x, !.hist = y]
         IN /\ m \in [level : L, hist : H, texts : T] /\ m.hist = n.hist
            /\ k \in [level : L, hist : H, texts : T]
            /\ k.level = x /\ k.hist = y /\ k.texts = n.texts
  OBVIOUS

LEMMA InitEstablishes == Init => IInv
  <1> SUFFICES ASSUME Init
               PROVE  IInv
    OBVIOUS
  <1>1. /\ iters = {} /\ queue = <<>> /\ pc = "idle" /\ todo = {} /\ base = Fresh
        /\ additions = {} /\ seen = [found |-> FALSE, words |-> {}] /\ cloud = {}
        /\ atomic \in BOOLEAN /\ byUser = UNION ToSet(pads)
        /\ pads \in {<<>>} \cup {<<P>> : P \in SUBSET Words}
    BY DEF Init
  <1>2. \A w \in Words : note[w] \in Notes /\ TextsOf(note[w]) = {}
          /\ (note[w].hist # <<>> => note[w].level = Last(note[w].hist).level)
    <2> DEFINE e == [level |-> 1, fam |-> 5, text |-> 0]
               n == [Fresh EXCEPT !.level = 1, !.hist = <<e>>]
    <2>1. Fresh \in Notes /\ Fresh.hist = <<>> /\ Fresh.texts = {}
      <3>1. <<>> \in Seq(Entries)
        OBVIOUS
      <3> QED BY <3>1 DEF Fresh, Notes
    <2>2. [Fresh EXCEPT !.level = 1] \in Notes /\ [Fresh EXCEPT !.level = 1].hist = <<>>
      <3> HIDE DEF Fresh
      <3>1. <<>> \in Seq(Entries) /\ 1 \in Nat
        OBVIOUS
      <3> QED BY <2>1, <3>1, NoteExcept DEF Notes
    <2>3. TextsOf(Fresh) = {} /\ TextsOf([Fresh EXCEPT !.level = 1]) = {}
      <3> HIDE DEF Fresh
      <3>1. DOMAIN <<>> = {}
        OBVIOUS
      <3> QED BY <2>1, <2>2, <3>1 DEF TextsOf
    <2>4. n \in Notes /\ TextsOf(n) = {} /\ n.level = Last(n.hist).level
      <3>1. n.hist = <<e>> /\ n.level = 1 /\ n.texts = {} /\ n \in Notes
        <4>1. <<e>> \in Seq(Entries) /\ 1 \in Nat
          BY DEF Entries
        <4> HIDE DEF Fresh, e
        <4> QED BY <2>1, <4>1, NoteExcept DEF Notes
      <3>2. DOMAIN <<e>> = {1} /\ <<e>>[1] = e /\ Len(<<e>>) = 1 /\ e.text = 0 /\ e.level = 1
        OBVIOUS
      <3> HIDE DEF n, e
      <3>3. {n.hist[i].text : i \in DOMAIN n.hist} = {0}
        BY <3>1, <3>2
      <3>4. Last(n.hist) = e
        BY <3>1, <3>2 DEF Last
      <3> QED BY <3>1, <3>2, <3>3, <3>4 DEF TextsOf
    <2> HIDE DEF n
    <2>5. \A w \in Words : note[w] \in {Fresh, [Fresh EXCEPT !.level = 1], n}
      BY DEF Init, n
    <2> HIDE DEF Fresh
    <2> QED BY <2>1, <2>2, <2>3, <2>4, <2>5
  <1>3. DbTypes
    <2>1. snaps \in [Words -> Seq(Snapshots)]
      BY SnapsAssumption DEF Init
    <2>2. note \in [Words -> Notes]
      BY <1>2 DEF Init
    <2>3. IsFiniteSet(cloud)
      BY <1>1, FS_EmptySet
    <2>4. queue \in Seq(Statements)
      BY <1>1
    <2> QED BY <1>1, <2>1, <2>2, <2>3, <2>4 DEF DbTypes
  <1>4. pads \in Seq(SUBSET Words) /\ \A i \in DOMAIN pads : pads[i] \subseteq byUser
    <2>1. CASE pads = <<>>
      BY <2>1
    <2>2. ASSUME NEW P \in SUBSET Words, pads = <<P>>
          PROVE  pads \in Seq(SUBSET Words) /\ \A i \in DOMAIN pads : pads[i] \subseteq byUser
      <3>1. DOMAIN pads = {1} /\ pads[1] = P
        BY <2>2
      <3>2. pads[1] \in ToSet(pads)
        BY <3>1 DEF ToSet
      <3>3. P \subseteq byUser
        BY <1>1, <3>1, <3>2
      <3> QED BY <2>2, <3>1, <3>3
    <2> QED BY <1>1, <2>1, <2>2
  <1>5. byUser \subseteq Words
    <2>1. \A i \in DOMAIN pads : pads[i] \subseteq Words
      BY <1>4
    <2> QED BY <1>1, <2>1 DEF ToSet
  <1>6. RunTypes
    BY <1>1, <1>4, <1>5, FreshNote DEF RunTypes
  <1>7. QueueBehind /\ QueueAtomic
    BY <1>1 DEF QueueBehind, QueueAtomic
  <1>8. RunBehind /\ BaseCurrent /\ PadSeen
    BY <1>1 DEF RunBehind, BaseCurrent, excuses, PadSeen
  <1>9. DbBehind /\ PadsBehind
    BY <1>1, <1>2, <1>4 DEF DbBehind, PadsBehind
  <1>10. HistoryBacked
    <2>1. \A w : ItersOf(w) = {}
      BY <1>1 DEF ItersOf
    <2> QED BY <1>2, <2>1 DEF HistoryBacked
  <1> QED BY <1>3, <1>6, <1>7, <1>8, <1>9, <1>10 DEF IInv

LEMMA NextKeeps == IInv /\ [Next]_vars => IInv'
  <1> SUFFICES ASSUME IInv, [Next]_vars
               PROVE  IInv'
    OBVIOUS
  <1>1. CASE Writer
    BY <1>1, CommitsKeeps, DropsKeeps DEF Writer
  <1>2. CASE StudySaves \/ Learns \/ Edits \/ Begins
    BY <1>2, StudySavesKeeps, LearnsKeeps, EditsKeeps, BeginsKeeps
  <1>3. CASE PassesOver \/ RefineFails \/ Refines \/ ReadsState
    BY <1>3, SkipsKeep, RefinesKeeps, ReadsStateKeeps
  <1>4. CASE WriteFails \/ WritesAtomically \/ LosesIteration \/ WritesRow \/ WritesState
    BY <1>4, WriteFailsKeeps, WritesKeeps, WritesRowKeeps, WritesStateKeeps
  <1>5. CASE ReadsPad \/ ReadsPadBlind \/ EndsWithoutPad \/ WritesPad \/ PadRefused
    BY <1>5, PadStepsKeep, WritesPadKeeps
  <1>6. CASE Crashes
    BY <1>6, CrashesKeeps
  <1>7. CASE UNCHANGED vars
    <2>1. UNCHANGED <<atomic, dbVars, runVars, cloud, padVars, excuses>>
      BY <1>7 DEF vars
    <2>2. RunTypes' /\ RunBehind' /\ PadsBehind' /\ BaseCurrent' /\ PadSeen'
      BY <2>1, DataSame DEF IInv, dbVars, runVars, padVars, RunTypes, RunBehind, PadsBehind,
         BaseCurrent, excuses, PadSeen
    <2> QED BY <2>1, <2>2, DataSame, SnapsKept DEF IInv, dbVars
  <1> QED BY <1>1, <1>2, <1>3, <1>4, <1>5, <1>6, <1>7 DEF Next

(* Where every refined text is, and what the run has in hand: the invariant    *)
(* that carries the three properties below.                                    *)
THEOREM Inductive == Spec => []IInv
  BY InitEstablishes, NextKeeps, PTL DEF Spec

(* With an op_lock, levels, histories, iteration rows and texts of a note stay   *)
(* together, whatever fails and however often a run handles a word, but for      *)
(* words of which a save was torn or a note replaced                             *)
(* (atomic_save_iteration_and_update_note, _update_it_state).                    *)
THEOREM HistoriesBacked == Spec => []HistoryBacked
  BY Inductive, PTL DEF IInv

(* What the database says of a refinement, and what the program writes into a   *)
(* notepad, has its note in the cloud (run_iteration calls create_note first).   *)
THEOREM CloudFirst == Spec => []CloudBehind
  <1>1. IInv => CloudBehind
    <2> SUFFICES ASSUME IInv
                 PROVE  CloudBehind
      OBVIOUS
    <2>1. \A i \in DOMAIN pads : \A w \in pads[i] \ byUser : \E p \in cloud : p[1] = w
      BY DEF IInv, PadsBehind, CloudWords
    <2> QED BY <2>1 DEF IInv, DbBehind, CloudBehind, CloudTexts
  <1> QED BY <1>1, Inductive, PTL

(* A notepad loses no word to a run that could read it (_sync_weak_words_notepad). *)
THEOREM PadsKept == Spec => PadKept
  <1> DEFINE Grows == padRead => \A i \in DOMAIN pads : pads[i] \subseteq pads'[i]
  <1>1. IInv /\ [Next]_vars => [Grows]_vars
    <2> SUFFICES ASSUME IInv, [Next]_vars, padRead, NEW i \in DOMAIN pads
                 PROVE  pads[i] \subseteq pads'[i]
      OBVIOUS
    <2>1. CASE UNCHANGED pads
      BY <2>1
    <2>2. CASE Edits
      <3>1. PICK w \in Words : pads' = [pads EXCEPT ![1] = @ \cup {w}]
        BY <2>2 DEF Edits
      <3> QED BY <3>1 DEF IInv, RunTypes
    <2>3. CASE WritesPad
      <3>1. seen.found = (pads # <<>>) /\ (pads # <<>> => seen.words = Head(pads))
        BY <2>3 DEF IInv, PadSeen, WritesPad
      <3>2. pads \in Seq(SUBSET Words) /\ pads # <<>> /\ Head(pads) = pads[1]
        BY DEF IInv, RunTypes
      <3>3. pads' = [pads EXCEPT ![1] = pads[1] \cup additions]
        BY <2>3, <3>1, <3>2 DEF WritesPad
      <3> QED BY <3>2, <3>3
    <2> QED
      BY <2>1, <2>2, <2>3
         DEF Next, vars, Writer, Commits, Drops, StudySaves, Learns, Begins, PassesOver,
             RefineFails, Refines, ReadsState, WriteFails, WritesAtomically, LosesIteration,
             WritesRow, WritesState, NextWord,
             ReadsPad, ReadsPadBlind, EndsWithoutPad, PadRefused, Crashes, padVars
  <1> QED BY <1>1, Inductive, PTL DEF Spec, PadKept

=============================================================================
