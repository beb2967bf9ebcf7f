---------------------------- MODULE StudyRun_proofs ----------------------------
(***************************************************************************)
(* Proofs about StudyRun, for any finite set of words, any size of the     *)
(* pool and of the queue and any number of lists and faults.               *)
(*                                                                         *)
(* The invariant relates a database and the statements that wait for it,   *)
(* Good(d, q), so that a transaction is followed one statement at a time:  *)
(* each database after i of its statements is good for the rest of them.   *)
(***************************************************************************)
EXTENDS StudyRun, SequenceTheorems, FiniteSetTheorems, WellFoundedInduction, TLAPS

NoteRecords == [text : Nat, status : {0, 1, 2, 5}]
SnapRows    == Words \X Counts
Databases   == [note : [Words -> NoteRecords], processed : SUBSET Words,
                latest : [Words -> Counts \cup {0}], second : SUBSET SnapRows]
Items       == [word : Words, text : Nat]

NoteStatements   == [op : {"note"}, word : Words, text : Nat, status : {0, 5}]
StatusStatements == [op : {"status"}, words : SUBSET Words, status : {1, 2, 5}]
Statements == [op : {"snaps"}, rows : SUBSET SnapRows] \cup NoteStatements
              \cup [op : {"mark"}, words : SUBSET Words] \cup StatusStatements

QueueTypes ==
  /\ db \in Databases /\ accepted \in Seq(Statements)
  /\ rows \in SUBSET SnapRows /\ today \in {<<>>} \cup {<<R>> : R \in SUBSET SnapRows}

RunTypes ==
  /\ list \in SUBSET Words /\ todo \in Seq(Words)
  /\ toSync \in Seq(Items) /\ buffer \in Seq(Items)
  /\ cloud \in [Words -> Int] /\ made \in [Words -> Nat]
  /\ lost \in SUBSET (Words \X Nat) /\ excused \in SUBSET Words

Types == QueueTypes /\ RunTypes

-----------------------------------------------------------------------------
(* A database d and the statements q that wait for it. *)

NoteAt(q, i, w) == i \in DOMAIN q /\ q[i].op = "note" /\ q[i].word = w

\* Kept, of d and q.
KeptIn(d, q, w, x) ==
  \/ d.note[w].text >= x
  \/ \E i \in DOMAIN q : NoteAt(q, i, w) /\ q[i].text >= x
  \/ \E n \in lost : n[1] = w /\ n[2] >= x

\* A note of w is saved, or will be.
Noted(d, q, w) == d.note[w] # NoNote \/ \E i \in DOMAIN q : NoteAt(q, i, w)

\* Every note is one that was made, and the waiting ones are newer, in order.
TextsInOrder(d, q) ==
  /\ \A w \in Words : d.note[w].text <= made[w] /\ (d.note[w].text = 0 => d.note[w] = NoNote)
  /\ \A i \in DOMAIN q, w \in Words : NoteAt(q, i, w) =>
       /\ d.note[w].text < q[i].text /\ q[i].text <= made[w]
       /\ \A j \in DOMAIN q : j < i /\ NoteAt(q, j, w) => q[j].text < q[i].text

\* A mark follows the note of its word.
MarksFollow(d, q) ==
  /\ \A w \in d.processed : KeptIn(d, q, w, 1) /\ (w \in excused \/ d.note[w] # NoNote)
  /\ \A i \in DOMAIN q : q[i].op = "mark" => \A w \in q[i].words :
       /\ KeptIn(d, q, w, 1)
       /\ w \in excused \/ d.note[w] # NoNote \/ \E j \in DOMAIN q : j < i /\ NoteAt(q, j, w)

\* The cloud holds a text of w that was uploaded, or w was generated without meanings
\* and the cloud holds some text.
Answered(w) == \/ cloud[w] >= 1
               \/ cloud[w] # NoText /\ \E x \in 1..made[w] : <<w, x>> \in empty

\* The status of success follows the upload.
SuccessFollows(d, q) ==
  /\ \A w \in Words : d.note[w].status = 1 => Answered(w)
  /\ \A i \in DOMAIN q : q[i].op = "status" /\ q[i].status = 1 =>
       \A w \in q[i].words : Answered(w)

\* A word is made once and its note is in sight, unless it is excused.
MadeOnce(d, q) == \A w \in Words \ excused :
  made[w] <= 1 /\ (made[w] = 1 => Noted(d, q, w))

Good(d, q) ==
  /\ d \in Databases /\ q \in Seq(Statements)
  /\ TextsInOrder(d, q) /\ MarksFollow(d, q) /\ SuccessFollows(d, q) /\ MadeOnce(d, q)

\* A word that waits for its AI result is waiting once, and has no text yet.
TodoKept ==
  /\ \A i, j \in DOMAIN todo : todo[i] = todo[j] => i = j
  /\ \A i \in DOMAIN todo : todo[i] \in excused \/ made[todo[i]] = 0

\* What the sync worker has was made and is kept, and what it buffers is in the cloud.
SyncKept(d, q) ==
  /\ \A i \in DOMAIN toSync : /\ toSync[i].text \in 1..made[toSync[i].word]
                              /\ KeptIn(d, q, toSync[i].word, toSync[i].text)
  /\ \A i \in DOMAIN buffer : /\ buffer[i].text \in 1..made[buffer[i].word]
                              /\ KeptIn(d, q, buffer[i].word, buffer[i].text)
                              /\ Answered(buffer[i].word)
  /\ \A w \in Words : cloud[w] = Theirs \/ (cloud[w] \in 0..made[w] /\ KeptIn(d, q, w, cloud[w]))

LostMade == \A n \in lost : n[2] <= made[n[1]]

IInv == /\ Types /\ Good(db, accepted) /\ TodoKept /\ SyncKept(db, accepted) /\ LostMade

-----------------------------------------------------------------------------
(* Transactions, by induction on the number of statements. *)

\* A set of natural numbers has a least one.
LEMMA LeastNatural ==
  ASSUME NEW T \in SUBSET Nat, T # {}
  PROVE  \E m \in T : \A n \in T : m <= n
<1> DEFINE F == {0..n : n \in T}
<1>1. \A n \in Nat : 0..n \in FiniteSubsetsOf(Nat)
  <2> SUFFICES ASSUME NEW n \in Nat PROVE 0..n \in FiniteSubsetsOf(Nat)
    OBVIOUS
  <2>1. IsFiniteSet(0..n)
    BY FS_Interval
  <2>2. 0..n \subseteq Nat
    OBVIOUS
  <2> QED BY <2>1, <2>2 DEF FiniteSubsetsOf
<1>2. F \subseteq FiniteSubsetsOf(Nat) /\ F # {}
  BY <1>1
<1>3. PICK x \in F : \A y \in F : ~ (<<y, x>> \in StrictSubsetOrdering(Nat))
  <2> HIDE DEF F
  <2>1. IsWellFoundedOn(StrictSubsetOrdering(Nat), FiniteSubsetsOf(Nat))
    BY FS_StrictSubsetOrderingWellFounded
  <2> QED BY <1>2, <2>1, WFMin
<1>4. PICK m \in T : x = 0..m
  OBVIOUS
<1>5. ASSUME NEW n \in T, n < m PROVE FALSE
  <2>1. 0..n \subseteq 0..m /\ m \in 0..m /\ m \notin 0..n
    BY <1>5
  <2>2. 0..n \in SUBSET Nat /\ 0..m \in SUBSET Nat /\ 0..n # 0..m
    BY <2>1
  <2>3. <<0..n, 0..m>> \in StrictSubsetOrdering(Nat)
    BY <2>1, <2>2 DEF StrictSubsetOrdering
  <2> QED BY <1>3, <1>4, <2>3
<1>6. \A n \in T : m \in Nat /\ n \in Nat /\ ~ (n < m)
  BY <1>5
<1> QED BY <1>6

\* Induction over the natural numbers, stated of a set.
LEMMA NaturalSteps ==
  ASSUME NEW T, 0 \in T, \A n \in Nat : n \in T => n + 1 \in T
  PROVE  Nat \subseteq T
<1> SUFFICES ASSUME NEW b \in Nat \ T PROVE FALSE
  OBVIOUS
<1>1. PICK m \in Nat \ T : \A n \in Nat \ T : m <= n
  BY LeastNatural
<1>2. m - 1 \in Nat /\ (m - 1) + 1 = m /\ ~ (m <= m - 1)
  BY <1>1
<1>3. m - 1 \in T
  BY <1>1, <1>2
<1> QED BY <1>1, <1>2, <1>3

\* The databases of a transaction follow one another.
LEMMA TransactionSteps ==
  ASSUME NEW k \in Nat
  PROVE  LET d[i \in 0..k] == IF i = 0 THEN db ELSE Apply(d[i - 1], accepted[i])
         IN d[0] = db /\ \A i \in 1..k : d[i] = Apply(d[i - 1], accepted[i])
<1> DEFINE Follows(f, n) == f = [i \in 0..n |-> IF i = 0 THEN db ELSE Apply(f[i - 1], accepted[i])]
           T == {n \in Nat : \E f : Follows(f, n)}
<1>1. 0 \in T
  <2> DEFINE f == [i \in 0..0 |-> db]
  <2>1. \A i \in 0..0 : i = 0
    OBVIOUS
  <2>2. f = [i \in 0..0 |-> IF i = 0 THEN db ELSE Apply(f[i - 1], accepted[i])]
    BY <2>1
  <2>3. Follows(f, 0)
    BY <2>2
  <2> QED BY <2>3
<1>2. ASSUME NEW n \in Nat, n \in T PROVE n + 1 \in T
  <2>1. PICK f : f = [i \in 0..n |-> IF i = 0 THEN db ELSE Apply(f[i - 1], accepted[i])]
    BY <1>2
  <2> DEFINE g == [i \in 0..(n + 1) |-> IF i = 0 THEN db ELSE Apply(f[i - 1], accepted[i])]
  <2>2. \A i \in 0..n : g[i] = f[i]
    <3>1. \A i \in 0..n : i \in 0..(n + 1)
      OBVIOUS
    <3>2. \A i \in 0..n : f[i] = IF i = 0 THEN db ELSE Apply(f[i - 1], accepted[i])
      BY <2>1
    <3> QED BY <3>1, <3>2
  <2>3. \A i \in 0..(n + 1) : i # 0 => i - 1 \in 0..n
    OBVIOUS
  <2>4. \A i \in 0..(n + 1) : i # 0 => g[i - 1] = f[i - 1]
    BY <2>2, <2>3
  <2>5. g = [i \in 0..(n + 1) |-> IF i = 0 THEN db ELSE Apply(g[i - 1], accepted[i])]
    BY <2>4
  <2> HIDE DEF g
  <2>6. \E h : h = [i \in 0..(n + 1) |-> IF i = 0 THEN db ELSE Apply(h[i - 1], accepted[i])]
    BY <2>5
  <2> QED BY <2>6
<1>3. \E f : Follows(f, k)
  <2>1. k \in T
    <3> HIDE DEF T
    <3> QED BY <1>1, <1>2, NaturalSteps
  <2> QED BY <2>1
<1> DEFINE d[i \in 0..k] == IF i = 0 THEN db ELSE Apply(d[i - 1], accepted[i])
<1>4. d = [i \in 0..k |-> IF i = 0 THEN db ELSE Apply(d[i - 1], accepted[i])]
  BY <1>3
<1>5. d[0] = db /\ \A i \in 1..k : d[i] = Apply(d[i - 1], accepted[i])
  <2> HIDE DEF d
  <2>1. 0 \in 0..k /\ \A i \in 1..k : i \in 0..k /\ i # 0
    OBVIOUS
  <2> QED BY <1>4, <2>1
<1> QED BY <1>5

\* What one statement does to a database.
LEMMA StatementApplied ==
  ASSUME NEW d \in Databases, NEW s \in Statements
  PROVE  /\ Apply(d, s) \in Databases
         /\ \A w \in Words :
              IF s.op = "note" /\ s.word = w
              THEN Apply(d, s).note[w] = [text |-> s.text, status |-> s.status]
              ELSE IF s.op = "status" /\ w \in s.words /\ d.note[w] # NoNote
              THEN Apply(d, s).note[w] = [text |-> d.note[w].text, status |-> s.status]
              ELSE Apply(d, s).note[w] = d.note[w]
         /\ Apply(d, s).processed = d.processed \cup (IF s.op = "mark" THEN s.words ELSE {})
<1> DEFINE e == Apply(d, s)
<1>1. CASE s \in [op : {"snaps"}, rows : SUBSET SnapRows]
  <2>1. s.op = "snaps" /\ s.rows \in SUBSET SnapRows
    BY <1>1
  <2>2. e = [d EXCEPT !.latest = [w \in Words |->
                             IF \E r \in s.rows : r[1] = w
                             THEN (CHOOSE r \in s.rows : r[1] = w)[2] ELSE @[w]],
                                    !.second = @ \cup s.rows]
    BY <2>1 DEF Apply
  <2>3. \A w \in Words : (\E r \in s.rows : r[1] = w) =>
            (CHOOSE r \in s.rows : r[1] = w)[2] \in Counts
    BY <2>1 DEF SnapRows
  <2> DEFINE h == [w \in Words |-> IF \E r \in s.rows : r[1] = w
                                   THEN (CHOOSE r \in s.rows : r[1] = w)[2] ELSE d.latest[w]]
  <2>4. d.latest \in [Words -> Counts \cup {0}] /\ d.second \cup s.rows \in SUBSET SnapRows
    BY <2>1 DEF Databases
  <2>5. h \in [Words -> Counts \cup {0}]
    BY <2>3, <2>4
  <2>6. e = [d EXCEPT !.latest = h, !.second = d.second \cup s.rows]
    BY <2>2
  <2>7. e \in Databases /\ e.note = d.note /\ e.processed = d.processed
    <3> HIDE DEF e, h
    <3> QED BY <2>4, <2>5, <2>6 DEF Databases
  <2> HIDE DEF e, h
  <2> QED BY <2>1, <2>7 DEF e
<1>2. CASE s \in NoteStatements
  <2>1. s.op = "note" /\ s.word \in Words /\ s.text \in Nat /\ s.status \in {0, 5}
    BY <1>2 DEF NoteStatements
  <2>2. e = [d EXCEPT !.note[s.word] = [text |-> s.text, status |-> s.status]]
    BY <2>1 DEF Apply
  <2>3. [text |-> s.text, status |-> s.status] \in NoteRecords
    BY <2>1 DEF NoteRecords
  <2>4. /\ e \in Databases /\ e.processed = d.processed
        /\ e.note = [d.note EXCEPT ![s.word] = [text |-> s.text, status |-> s.status]]
    BY <2>1, <2>2, <2>3 DEF Databases
  <2>5. d.note \in [Words -> NoteRecords]
    BY DEF Databases
  <2> HIDE DEF e
  <2> QED BY <2>1, <2>4, <2>5 DEF e
<1>3. CASE s \in [op : {"mark"}, words : SUBSET Words]
  <2>1. s.op = "mark" /\ s.words \in SUBSET Words
    BY <1>3
  <2>2. e = [d EXCEPT !.processed = @ \cup s.words]
    BY <2>1 DEF Apply
  <2>3. e \in Databases /\ e.note = d.note /\ e.processed = d.processed \cup s.words
    BY <2>1, <2>2 DEF Databases
  <2> HIDE DEF e
  <2> QED BY <2>1, <2>3 DEF e
<1>4. CASE s \in StatusStatements
  <2>1. s.op = "status" /\ s.words \in SUBSET Words /\ s.status \in {1, 2, 5}
    BY <1>4 DEF StatusStatements
  <2>2. e = [d EXCEPT !.note = [w \in Words |->
                             IF w \in s.words /\ @[w] # NoNote
                             THEN [@[w] EXCEPT !.status = s.status] ELSE @[w]]]
    BY <2>1 DEF Apply
  <2>3. d.note \in [Words -> NoteRecords]
    BY DEF Databases
  <2>4. \A w \in Words : /\ [d.note[w] EXCEPT !.status = s.status]
                             = [text |-> d.note[w].text, status |-> s.status]
                         /\ [text |-> d.note[w].text, status |-> s.status] \in NoteRecords
    BY <2>1, <2>3 DEF NoteRecords
  <2> DEFINE h == [w \in Words |-> IF w \in s.words /\ d.note[w] # NoNote
                                   THEN [text |-> d.note[w].text, status |-> s.status]
                                   ELSE d.note[w]]
  <2>5. [w \in Words |-> IF w \in s.words /\ d.note[w] # NoNote
                         THEN [d.note[w] EXCEPT !.status = s.status] ELSE d.note[w]] = h
    BY <2>4
  <2>6. e = [d EXCEPT !.note = h]
    BY <2>2, <2>5
  <2>7. h \in [Words -> NoteRecords]
    BY <2>3, <2>4
  <2>8. e \in Databases /\ e.note = h /\ e.processed = d.processed
    <3> HIDE DEF h, e
    <3> QED BY <2>6, <2>7 DEF Databases
  <2>9. \A w \in Words : h[w] = IF w \in s.words /\ d.note[w] # NoNote
                                THEN [text |-> d.note[w].text, status |-> s.status]
                                ELSE d.note[w]
    OBVIOUS
  <2> HIDE DEF e, h
  <2> QED BY <2>1, <2>8, <2>9 DEF e
<1> QED BY <1>1, <1>2, <1>3, <1>4 DEF Statements

-----------------------------------------------------------------------------
(* One statement is applied. *)

\* What the next statement does to a good database, seen from its notes.
Moves(d, q, e) ==
  /\ e \in Databases
  /\ \A w \in Words : NoteAt(q, 1, w) => /\ e.note[w].text = q[1].text
                                         /\ e.note[w] # NoNote /\ e.note[w].text # 0
  /\ \A w \in Words : ~ NoteAt(q, 1, w) => /\ e.note[w].text = d.note[w].text
                                           /\ d.note[w] # NoNote <=> e.note[w] # NoNote
  /\ \A w \in Words : e.note[w].status = 1 =>
       d.note[w].status = 1 \/ (q[1].op = "status" /\ q[1].status = 1 /\ w \in q[1].words)
  /\ \A w \in e.processed : w \in d.processed \/ (q[1].op = "mark" /\ w \in q[1].words)

\* The next statement of a good queue moves its database so.
LEMMA StatementMoves ==
  ASSUME NEW d, NEW q, Good(d, q), q # << >>
  PROVE  Moves(d, q, Apply(d, q[1]))
<1>1. d \in Databases /\ q \in Seq(Statements) /\ 1 \in DOMAIN q /\ q[1] \in Statements
  BY DEF Good
<1>2. PICK e : e = Apply(d, q[1])
  OBVIOUS
<1>3. /\ e \in Databases
      /\ \A w \in Words :
              IF q[1].op = "note" /\ q[1].word = w
              THEN e.note[w] = [text |-> q[1].text, status |-> q[1].status]
              ELSE IF q[1].op = "status" /\ w \in q[1].words /\ d.note[w] # NoNote
              THEN e.note[w] = [text |-> d.note[w].text, status |-> q[1].status]
              ELSE e.note[w] = d.note[w]
      /\ e.processed = d.processed \cup (IF q[1].op = "mark" THEN q[1].words ELSE {})
  <2>1. PICK s \in Statements : s = q[1]
    BY <1>1
  <2> QED BY <1>1, <1>2, <2>1, StatementApplied
<1>4. \A w \in Words : d.note[w] \in NoteRecords /\ e.note[w] \in NoteRecords
  BY <1>1, <1>3 DEF Databases
<1>5. ASSUME NEW w \in Words, NoteAt(q, 1, w)
      PROVE  e.note[w].text = q[1].text /\ e.note[w] # NoNote /\ e.note[w].text # 0
  <2>1. q[1].op = "note" /\ q[1].word = w
    BY <1>5 DEF NoteAt
  <2>2. d.note[w].text < q[1].text /\ d.note[w].text \in Nat
    BY <1>1, <1>4, <1>5 DEF Good, TextsInOrder, NoteRecords
  <2>3. e.note[w].text = q[1].text /\ e.note[w].text \in Nat
    BY <1>3, <1>4, <2>1 DEF NoteRecords
  <2>4. e.note[w].text # 0
    BY <2>2, <2>3
  <2> QED BY <2>3, <2>4 DEF NoNote, NoText
<1>6. ASSUME NEW w \in Words, ~ NoteAt(q, 1, w)
      PROVE  e.note[w].text = d.note[w].text /\ (d.note[w] # NoNote <=> e.note[w] # NoNote)
  <2>1. ~ (q[1].op = "note" /\ q[1].word = w)
    BY <1>1, <1>6 DEF NoteAt
  <2>2. CASE q[1].op = "status" /\ w \in q[1].words /\ d.note[w] # NoNote
    <3>1. q[1].status \in {1, 2, 5}
      BY <1>1, <2>2 DEF Statements, StatusStatements, NoteStatements
    <3>2. e.note[w] = [text |-> d.note[w].text, status |-> q[1].status]
      BY <1>3, <2>1, <2>2
    <3> QED BY <2>2, <3>1, <3>2 DEF NoNote
  <2>3. CASE ~ (q[1].op = "status" /\ w \in q[1].words /\ d.note[w] # NoNote)
    BY <1>3, <2>1, <2>3
  <2> QED BY <2>2, <2>3
<1>7. ASSUME NEW w \in Words, e.note[w].status = 1
      PROVE  d.note[w].status = 1 \/ (q[1].op = "status" /\ q[1].status = 1 /\ w \in q[1].words)
  <2>1. CASE q[1].op = "note" /\ q[1].word = w
    <3>1. q[1].status \in {0, 5}
      BY <1>1, <2>1 DEF Statements, StatusStatements, NoteStatements
    <3> QED BY <1>3, <1>7, <2>1, <3>1
  <2>2. CASE ~ (q[1].op = "note" /\ q[1].word = w) /\ q[1].op = "status" /\ w \in q[1].words
             /\ d.note[w] # NoNote
    <3>1. e.note[w] = [text |-> d.note[w].text, status |-> q[1].status]
      BY <1>3, <2>2
    <3> QED BY <1>7, <2>2, <3>1
  <2>3. CASE ~ (q[1].op = "note" /\ q[1].word = w) /\ ~ (q[1].op = "status" /\ w \in q[1].words
             /\ d.note[w] # NoNote)
    <3>1. e.note[w] = d.note[w]
      BY <1>3, <2>3
    <3> QED BY <1>7, <3>1
  <2> QED BY <2>1, <2>2, <2>3
<1>8. \A w \in e.processed : w \in d.processed \/ (q[1].op = "mark" /\ w \in q[1].words)
  BY <1>3
<1> QED BY <1>2, <1>3, <1>5, <1>6, <1>7, <1>8 DEF Moves

\* The statements that are left.
LEMMA TailAt ==
  ASSUME NEW q \in Seq(Statements), q # << >>
  PROVE  /\ Tail(q) \in Seq(Statements)
         /\ \A i \in DOMAIN Tail(q) : i \in Nat \ {0} /\ i + 1 \in DOMAIN q /\ Tail(q)[i] = q[i + 1]
         /\ \A i \in DOMAIN q : i # 1 => i - 1 \in DOMAIN Tail(q) /\ Tail(q)[i - 1] = q[i]
  OBVIOUS

\* What is kept stays kept when a statement is applied.
LEMMA KeptMoves ==
  ASSUME NEW d, NEW q, Good(d, q), q # << >>, NEW e, Moves(d, q, e),
         NEW w \in Words, NEW x \in Int, KeptIn(d, q, w, x)
  PROVE  KeptIn(e, Tail(q), w, x)
<1>1. d \in Databases /\ q \in Seq(Statements) /\ e \in Databases
  BY DEF Good, Moves
<1>2. d.note[w].text \in Nat /\ e.note[w].text \in Nat /\ d.note[w].text <= e.note[w].text
  <2>1. d.note[w].text \in Nat /\ e.note[w].text \in Nat
    BY <1>1 DEF Databases, NoteRecords
  <2>2. CASE NoteAt(q, 1, w)
    <3>1. 1 \in DOMAIN q /\ d.note[w].text < q[1].text
      BY <2>2 DEF Good, TextsInOrder, NoteAt
    <3>2. e.note[w].text = q[1].text
      BY <2>2 DEF Moves
    <3> QED BY <2>1, <3>1, <3>2
  <2>3. CASE ~ NoteAt(q, 1, w)
    BY <2>1, <2>3 DEF Moves
  <2> QED BY <2>1, <2>2, <2>3
<1>3. CASE d.note[w].text >= x
  BY <1>2, <1>3 DEF KeptIn
<1>4. ASSUME NEW i \in DOMAIN q, NoteAt(q, i, w), q[i].text >= x
      PROVE  KeptIn(e, Tail(q), w, x)
  <2>1. CASE i = 1
    BY <1>4, <2>1 DEF Moves, KeptIn
  <2>2. CASE i # 1
    <3>1. i - 1 \in DOMAIN Tail(q) /\ Tail(q)[i - 1] = q[i]
      BY <1>1, <2>2, TailAt
    <3> QED BY <1>4, <3>1 DEF KeptIn, NoteAt
  <2> QED BY <2>1, <2>2
<1>5. CASE \E n \in lost : n[1] = w /\ n[2] >= x
  BY <1>5 DEF KeptIn
<1> QED BY <1>3, <1>4, <1>5 DEF KeptIn

\* A note is in sight before and after its statement is applied.
LEMMA NotedMoves ==
  ASSUME NEW d, NEW q, Good(d, q), q # << >>, NEW e, Moves(d, q, e), NEW w \in Words
  PROVE  /\ Noted(d, q, w) => Noted(e, Tail(q), w)
         /\ d.note[w] # NoNote => e.note[w] # NoNote
<1>1. q \in Seq(Statements)
  BY DEF Good
<1>2. d.note[w] # NoNote => e.note[w] # NoNote
  BY DEF Moves
<1>3. ASSUME NEW i \in DOMAIN q, NoteAt(q, i, w) PROVE Noted(e, Tail(q), w)
  <2>1. CASE i = 1
    BY <1>3, <2>1 DEF Moves, Noted
  <2>2. CASE i # 1
    <3>1. i - 1 \in DOMAIN Tail(q) /\ Tail(q)[i - 1] = q[i]
      BY <1>1, <2>2, TailAt
    <3> QED BY <1>3, <3>1 DEF Noted, NoteAt
  <2> QED BY <2>1, <2>2
<1> QED BY <1>2, <1>3 DEF Noted

\* The order of the texts when a statement is applied.
LEMMA TextsMove ==
  ASSUME NEW d, NEW q, Good(d, q), q # << >>, NEW e, Moves(d, q, e)
  PROVE  TextsInOrder(e, Tail(q))
<1>1. d \in Databases /\ q \in Seq(Statements) /\ e \in Databases /\ TextsInOrder(d, q)
  BY DEF Good, Moves
<1>2. ASSUME NEW w \in Words
      PROVE  e.note[w].text <= made[w] /\ (e.note[w].text = 0 => e.note[w] = NoNote)
  <2>1. CASE NoteAt(q, 1, w)
    <3>1. 1 \in DOMAIN q
      BY <2>1 DEF NoteAt
    <3> QED BY <1>1, <2>1, <3>1 DEF Moves, TextsInOrder
  <2>2. CASE ~ NoteAt(q, 1, w)
    BY <1>1, <2>2 DEF Moves, TextsInOrder
  <2> QED BY <2>1, <2>2
<1>3. ASSUME NEW i \in DOMAIN Tail(q), NEW w \in Words, NoteAt(Tail(q), i, w)
      PROVE  /\ e.note[w].text < Tail(q)[i].text /\ Tail(q)[i].text <= made[w]
             /\ \A j \in DOMAIN Tail(q) : j < i /\ NoteAt(Tail(q), j, w) =>
                    Tail(q)[j].text < Tail(q)[i].text
  <2>1. i \in Nat \ {0} /\ i + 1 \in DOMAIN q /\ Tail(q)[i] = q[i + 1] /\ 1 < i + 1
    BY <1>1, TailAt
  <2>2. NoteAt(q, i + 1, w)
    BY <1>3, <2>1 DEF NoteAt
  <2>3. /\ d.note[w].text < q[i + 1].text /\ q[i + 1].text <= made[w]
        /\ \A j \in DOMAIN q : j < i + 1 /\ NoteAt(q, j, w) => q[j].text < q[i + 1].text
    BY <1>1, <2>1, <2>2 DEF TextsInOrder
  <2>4. e.note[w].text < q[i + 1].text
    <3>1. CASE NoteAt(q, 1, w)
      <4>1. 1 \in DOMAIN q
        BY <3>1 DEF NoteAt
      <4> QED BY <2>1, <2>3, <3>1, <4>1 DEF Moves
    <3> QED BY <2>3, <3>1 DEF Moves
  <2>5. ASSUME NEW j \in DOMAIN Tail(q), j < i, NoteAt(Tail(q), j, w)
        PROVE  Tail(q)[j].text < Tail(q)[i].text
    <3>1. j \in Nat \ {0} /\ j + 1 \in DOMAIN q /\ Tail(q)[j] = q[j + 1]
      BY <1>1, TailAt
    <3>2. j + 1 < i + 1 /\ NoteAt(q, j + 1, w)
      BY <2>1, <2>5, <3>1 DEF NoteAt
    <3> QED BY <2>1, <2>3, <3>1, <3>2
  <2> QED BY <2>1, <2>3, <2>4, <2>5
<1> QED BY <1>2, <1>3 DEF TextsInOrder

\* Marks when a statement is applied.
LEMMA MarksMove ==
  ASSUME NEW d, NEW q, Good(d, q), q # << >>, NEW e, Moves(d, q, e)
  PROVE  MarksFollow(e, Tail(q))
<1>1. d \in Databases /\ q \in Seq(Statements) /\ e \in Databases /\ MarksFollow(d, q)
  BY DEF Good, Moves
<1>2. 1 \in DOMAIN q /\ 1 \in Int
  BY <1>1
<1>3. ASSUME NEW w \in e.processed
      PROVE  KeptIn(e, Tail(q), w, 1) /\ (w \in excused \/ e.note[w] # NoNote)
  <2>1. w \in Words
    BY <1>1 DEF Databases
  <2>2. CASE w \in d.processed
    BY <1>1, <1>2, <2>1, <2>2, KeptMoves, NotedMoves DEF MarksFollow
  <2>3. CASE q[1].op = "mark" /\ w \in q[1].words
    <3>1. /\ KeptIn(d, q, w, 1)
          /\ w \in excused \/ d.note[w] # NoNote \/ \E j \in DOMAIN q : j < 1 /\ NoteAt(q, j, w)
      BY <1>1, <1>2, <2>3 DEF MarksFollow
    <3>2. \A j \in DOMAIN q : ~ (j < 1)
      BY <1>1
    <3> QED BY <1>2, <2>1, <3>1, <3>2, KeptMoves, NotedMoves
  <2> QED BY <2>2, <2>3 DEF Moves
<1>4. ASSUME NEW i \in DOMAIN Tail(q), Tail(q)[i].op = "mark", NEW w \in Tail(q)[i].words
      PROVE  /\ KeptIn(e, Tail(q), w, 1)
             /\ \/ w \in excused \/ e.note[w] # NoNote
                \/ \E j \in DOMAIN Tail(q) : j < i /\ NoteAt(Tail(q), j, w)
  <2>1. i \in Nat \ {0} /\ i + 1 \in DOMAIN q /\ Tail(q)[i] = q[i + 1]
    BY <1>1, TailAt
  <2>2. w \in Words
    <3>1. q[i + 1] \in Statements
      BY <1>1, <2>1
    <3> QED BY <1>4, <2>1, <3>1 DEF Statements, NoteStatements, StatusStatements
  <2>3. /\ KeptIn(d, q, w, 1)
        /\ w \in excused \/ d.note[w] # NoNote \/ \E j \in DOMAIN q : j < i + 1 /\ NoteAt(q, j, w)
    BY <1>1, <1>4, <2>1 DEF MarksFollow
  <2>4. KeptIn(e, Tail(q), w, 1)
    BY <1>2, <2>2, <2>3, KeptMoves
  <2>5. ASSUME NEW j \in DOMAIN q, j < i + 1, NoteAt(q, j, w)
        PROVE  e.note[w] # NoNote \/ \E l \in DOMAIN Tail(q) : l < i /\ NoteAt(Tail(q), l, w)
    <3>1. CASE j = 1
      BY <2>2, <2>5, <3>1 DEF Moves
    <3>2. CASE j # 1
      <4>1. j - 1 \in DOMAIN Tail(q) /\ Tail(q)[j - 1] = q[j] /\ j \in Nat /\ j - 1 < i
        BY <1>1, <2>1, <2>5, <3>2, TailAt
      <4>2. NoteAt(Tail(q), j - 1, w)
        BY <2>5, <4>1 DEF NoteAt
      <4> QED BY <4>1, <4>2
    <3> QED BY <3>1, <3>2
  <2> QED BY <2>2, <2>3, <2>4, <2>5, NotedMoves
<1> QED BY <1>3, <1>4 DEF MarksFollow

\* A good database is good for the rest once its next statement is applied.
LEMMA GoodMoves ==
  ASSUME NEW d, NEW q, Good(d, q), q # << >>
  PROVE  Good(Apply(d, q[1]), Tail(q))
<1>1. PICK e : e = Apply(d, q[1])
  OBVIOUS
<1>2. Moves(d, q, e)
  BY <1>1, StatementMoves
<1>3. e \in Databases /\ q \in Seq(Statements) /\ Tail(q) \in Seq(Statements)
  BY <1>2, TailAt DEF Moves, Good
<1>4. TextsInOrder(e, Tail(q)) /\ MarksFollow(e, Tail(q))
  BY <1>2, TextsMove, MarksMove
<1>5. SuccessFollows(e, Tail(q))
  <2>1. \A w \in Words : e.note[w].status = 1 => Answered(w)
    <3>1. 1 \in DOMAIN q
      BY <1>3
    <3> QED BY <1>2, <3>1 DEF Moves, Good, SuccessFollows
  <2>2. \A i \in DOMAIN Tail(q) : Tail(q)[i].op = "status" /\ Tail(q)[i].status = 1 =>
           \A w \in Tail(q)[i].words : Answered(w)
    BY <1>3, TailAt DEF Good, SuccessFollows
  <2> QED BY <2>1, <2>2 DEF SuccessFollows
<1>6. MadeOnce(e, Tail(q))
  BY <1>2, NotedMoves DEF Good, MadeOnce
<1> QED BY <1>1, <1>3, <1>4, <1>5, <1>6 DEF Good

-----------------------------------------------------------------------------
(* One statement is queued. *)

\* A statement other than a note may be queued.
Fits(d, q, s) ==
  /\ s \in Statements /\ s.op # "note"
  /\ s.op = "mark" => \A w \in s.words :
       KeptIn(d, q, w, 1) /\ (w \in excused \/ Noted(d, q, w))
  /\ s.op = "status" /\ s.status = 1 => \A w \in s.words : Answered(w)

\* What was kept is kept.
KeptOn == \A w \in Words, x \in Int :
  KeptIn(db, accepted, w, x) => KeptIn(db, accepted, w, x)'

\* The positions of a queue with one more statement.
LEMMA AppendAt ==
  ASSUME NEW q \in Seq(Statements), NEW s \in Statements
  PROVE  /\ Append(q, s) \in Seq(Statements)
         /\ \A i \in DOMAIN q : i \in DOMAIN Append(q, s) /\ Append(q, s)[i] = q[i] /\ i < Len(q) + 1
         /\ \A i \in DOMAIN Append(q, s) : i \in Nat \ {0} /\
              \/ i \in DOMAIN q /\ Append(q, s)[i] = q[i]
              \/ i = Len(q) + 1 /\ Append(q, s)[i] = s
  OBVIOUS

\* A statement that fits may be queued.
LEMMA GoodAppends ==
  ASSUME NEW d, NEW q, Good(d, q), NEW s, Fits(d, q, s)
  PROVE  /\ Good(d, Append(q, s))
         /\ \A w \in Words, x \in Int : KeptIn(d, q, w, x) => KeptIn(d, Append(q, s), w, x)
         /\ \A w : Noted(d, q, w) => Noted(d, Append(q, s), w)
<1>1. d \in Databases /\ q \in Seq(Statements) /\ s \in Statements /\ s.op # "note"
  BY DEF Good, Fits
<1>2. PICK r : r = Append(q, s)
  OBVIOUS
<1>3. /\ r \in Seq(Statements)
      /\ \A i \in DOMAIN q : i \in DOMAIN r /\ r[i] = q[i] /\ i < Len(q) + 1
      /\ \A i \in DOMAIN r : i \in Nat \ {0} /\ \/ i \in DOMAIN q /\ r[i] = q[i]
                                                \/ i = Len(q) + 1 /\ r[i] = s
  BY <1>1, <1>2, AppendAt
<1>4. /\ \A i \in DOMAIN q : \A w : NoteAt(q, i, w) => NoteAt(r, i, w)
      /\ \A i \in DOMAIN r : \A w : NoteAt(r, i, w) => i \in DOMAIN q /\ NoteAt(q, i, w)
  BY <1>1, <1>3 DEF NoteAt
<1>5. \A w \in Words, x \in Int : KeptIn(d, q, w, x) => KeptIn(d, r, w, x)
  BY <1>3, <1>4 DEF KeptIn
<1>6. \A w : Noted(d, q, w) => Noted(d, r, w)
  BY <1>3, <1>4 DEF Noted
<1>7. TextsInOrder(d, r)
  <2>1. ASSUME NEW i \in DOMAIN r, NEW w \in Words, NoteAt(r, i, w)
        PROVE  /\ d.note[w].text < r[i].text /\ r[i].text <= made[w]
               /\ \A j \in DOMAIN r : j < i /\ NoteAt(r, j, w) => r[j].text < r[i].text
    <3>1. i \in DOMAIN q /\ NoteAt(q, i, w) /\ r[i] = q[i]
      BY <1>3, <1>4, <2>1
    <3>2. \A j \in DOMAIN r : NoteAt(r, j, w) => j \in DOMAIN q /\ NoteAt(q, j, w) /\ r[j] = q[j]
      BY <1>3, <1>4
    <3> QED BY <3>1, <3>2 DEF Good, TextsInOrder
  <2> QED BY <2>1 DEF Good, TextsInOrder
<1>8. MarksFollow(d, r)
  <2>1. ASSUME NEW w \in d.processed
        PROVE  KeptIn(d, r, w, 1) /\ (w \in excused \/ d.note[w] # NoNote)
    <3>1. w \in Words
      BY <1>1 DEF Databases
    <3> QED BY <1>5, <3>1 DEF Good, MarksFollow
  <2>2. ASSUME NEW i \in DOMAIN r, r[i].op = "mark", NEW w \in r[i].words
        PROVE  /\ KeptIn(d, r, w, 1)
               /\ w \in excused \/ d.note[w] # NoNote \/ \E j \in DOMAIN r : j < i /\ NoteAt(r, j, w)
    <3>1. w \in Words
      BY <1>3, <2>2 DEF Statements, NoteStatements, StatusStatements
    <3>2. CASE i \in DOMAIN q /\ r[i] = q[i]
      <4>1. /\ KeptIn(d, q, w, 1)
            /\ w \in excused \/ d.note[w] # NoNote \/ \E j \in DOMAIN q : j < i /\ NoteAt(q, j, w)
        BY <2>2, <3>2 DEF Good, MarksFollow
      <4> QED BY <1>3, <1>4, <1>5, <3>1, <4>1
    <3>3. CASE i = Len(q) + 1 /\ r[i] = s
      <4>1. KeptIn(d, q, w, 1) /\ (w \in excused \/ Noted(d, q, w))
        BY <2>2, <3>3 DEF Fits
      <4> QED BY <1>3, <1>4, <1>5, <3>1, <3>3, <4>1 DEF Noted
    <3> QED BY <1>3, <3>2, <3>3
  <2> QED BY <2>1, <2>2 DEF MarksFollow
<1>9. SuccessFollows(d, r)
  BY <1>3 DEF Good, SuccessFollows, Fits
<1>10. MadeOnce(d, r)
  BY <1>6 DEF Good, MadeOnce
<1> QED BY <1>1, <1>2, <1>3, <1>5, <1>6, <1>7, <1>8, <1>9, <1>10 DEF Good

\* What the cloud has answered stays so.
LEMMA AnsweredStays ==
  ASSUME \A w \in Words : made[w] \in Nat /\ made'[w] \in Nat /\ made[w] <= made'[w],
         empty \subseteq empty', NEW w \in Words, cloud'[w] = cloud[w] \/ cloud'[w] \in Nat \ {0},
         Answered(w)
  PROVE  Answered(w)'
<1>1. CASE cloud'[w] \in Nat \ {0}
  BY <1>1 DEF Answered
<1>2. CASE cloud'[w] = cloud[w]
  BY <1>2 DEF Answered
<1> QED BY <1>1, <1>2

\* So it does when the cloud and the texts stay.
LEMMA AnsweredKept ==
  ASSUME UNCHANGED <<cloud, empty, made>>
  PROVE  \A w : Answered(w) <=> Answered(w)'
BY DEF Answered

\* Losses and excuses that are added, and uploads, break nothing.
LEMMA GoodGrows ==
  ASSUME Good(db', accepted'), made' = made, lost \subseteq lost', excused \subseteq excused',
         \A w \in Words : Answered(w) => Answered(w)'
  PROVE  /\ Good(db, accepted)'
         /\ \A w, x : KeptIn(db', accepted', w, x) => KeptIn(db, accepted, w, x)'
<1>1. \A w, x : KeptIn(db', accepted', w, x) => KeptIn(db, accepted, w, x)'
  BY DEF KeptIn
<1>2. db' \in Databases /\ accepted' \in Seq(Statements)
  BY DEF Good
<1>3. TextsInOrder(db, accepted)'
  BY DEF Good, TextsInOrder
<1>4. MarksFollow(db, accepted)'
  BY <1>1 DEF Good, MarksFollow
<1>5. SuccessFollows(db, accepted)'
  <2>1. \A w \in Words : db'.note[w].status = 1 => Answered(w)'
    BY DEF Good, SuccessFollows
  <2>2. ASSUME NEW i \in DOMAIN accepted', accepted'[i].op = "status", accepted'[i].status = 1,
               NEW w \in accepted'[i].words
        PROVE  Answered(w)'
    <3>1. accepted'[i] \in Statements
      BY <1>2
    <3>2. w \in Words
      BY <2>2, <3>1 DEF Statements, StatusStatements, NoteStatements
    <3> QED BY <2>2, <3>2 DEF Good, SuccessFollows
  <2> QED BY <2>1, <2>2 DEF SuccessFollows
<1>6. MadeOnce(db, accepted)'
  BY DEF Good, MadeOnce, Noted
<1> QED BY <1>1, <1>2, <1>3, <1>4, <1>5, <1>6 DEF Good

Grows == /\ db' = db /\ made' = made /\ lost \subseteq lost' /\ excused \subseteq excused'
         /\ \A w \in Words : Answered(w) => Answered(w)'

\* Nothing is queued.
LEMMA QueuedNone ==
  ASSUME Good(db, accepted), Grows, accepted' = accepted
  PROVE  Good(db, accepted)' /\ KeptOn
<1>1. Good(db', accepted')
  BY DEF Grows
<1>2. \A w, x : KeptIn(db, accepted, w, x) => KeptIn(db', accepted', w, x)
  BY DEF Grows
<1> QED BY <1>1, <1>2, GoodGrows DEF KeptOn, Grows

\* One statement is queued, or refused by a full queue.
LEMMA QueuedOne ==
  ASSUME Good(db, accepted), Grows, NEW s, Fits(db, accepted, s), Enqueue(s)
  PROVE  Good(db, accepted)' /\ KeptOn
<1>1. CASE accepted' = accepted
  BY <1>1, QueuedNone
<1>2. CASE accepted' = Append(accepted, s)
  <2>1. Good(db, Append(accepted, s)) /\ \A w \in Words, x \in Int :
           KeptIn(db, accepted, w, x) => KeptIn(db, Append(accepted, s), w, x)
    BY GoodAppends
  <2>2. Good(db', accepted') /\ \A w \in Words, x \in Int :
           KeptIn(db, accepted, w, x) => KeptIn(db', accepted', w, x)
    BY <1>2, <2>1 DEF Grows
  <2> QED BY <2>2, GoodGrows DEF KeptOn, Grows
<1> QED BY <1>1, <1>2 DEF Enqueue

\* A mark and a status are queued, or the mark alone, or neither.
LEMMA QueuedBoth ==
  ASSUME Good(db, accepted), Grows, NEW s, Fits(db, accepted, s),
         NEW t \in StatusStatements, Fits(db, accepted, t), EnqueueBoth(s, t)
  PROVE  Good(db, accepted)' /\ KeptOn
<1>1. accepted \in Seq(Statements) /\ s \in Statements /\ t \in Statements
  BY DEF Good, Fits
<1>2. CASE accepted' = accepted
  BY <1>2, QueuedNone
<1>3. CASE accepted' = Append(accepted, s)
  <2>2. Good(db, Append(accepted, s)) /\ \A w \in Words, x \in Int :
           KeptIn(db, accepted, w, x) => KeptIn(db, Append(accepted, s), w, x)
    BY GoodAppends
  <2>3. Good(db', accepted') /\ \A w \in Words, x \in Int :
           KeptIn(db, accepted, w, x) => KeptIn(db', accepted', w, x)
    BY <1>3, <2>2 DEF Grows
  <2> QED BY <2>3, GoodGrows DEF KeptOn, Grows
<1>4. CASE accepted' = accepted \o <<s, t>>
  <2>1. accepted \o <<s, t>> = Append(Append(accepted, s), t)
    BY <1>1
  <2>2. PICK q : q = Append(accepted, s)
    OBVIOUS
  <2>3. Good(db, q) /\ \A w \in Words, x \in Int :
           KeptIn(db, accepted, w, x) => KeptIn(db, q, w, x)
    BY <2>2, GoodAppends
  <2>4. Fits(db, q, t)
    <3>1. t.op = "status"
      BY DEF StatusStatements
    <3> QED BY <3>1 DEF Fits
  <2>5. Good(db, Append(q, t)) /\ \A w \in Words, x \in Int :
           KeptIn(db, q, w, x) => KeptIn(db, Append(q, t), w, x)
    BY <2>3, <2>4, GoodAppends
  <2>6. Good(db', accepted') /\ \A w \in Words, x \in Int :
           KeptIn(db, accepted, w, x) => KeptIn(db', accepted', w, x)
    BY <1>4, <2>1, <2>2, <2>3, <2>5 DEF Grows
  <2> QED BY <2>6, GoodGrows DEF KeptOn, Grows
<1> QED BY <1>2, <1>3, <1>4 DEF EnqueueBoth

-----------------------------------------------------------------------------
(* The writer commits or drops statements. *)

\* What is left after i statements, and after one more.
LEMMA RestAt ==
  ASSUME NEW a \in Seq(Statements), NEW i \in Nat, i < Len(a), NEW q, q = SubSeq(a, i + 1, Len(a))
  PROVE  q # << >> /\ q[1] = a[i + 1] /\ Tail(q) = SubSeq(a, i + 1 + 1, Len(a))
<1>1. i + 1 \in 1..Len(a) /\ Len(a) \in (i + 1)..Len(a)
  OBVIOUS
<1>2. Head(q) = a[i + 1] /\ Tail(q) = SubSeq(a, i + 1 + 1, Len(a))
  BY <1>1, HeadTailOfSubSeq
<1>3. /\ q \in Seq(Statements)
      /\ \A j \in DOMAIN a : j > i => j - i \in DOMAIN q /\ q[j - i] = a[j]
  OBVIOUS
<1>4. i + 1 \in DOMAIN a /\ i + 1 > i /\ (i + 1) - i = 1
  BY <1>1
<1>5. 1 \in DOMAIN q /\ q[1] = a[i + 1]
  BY <1>3, <1>4
<1>6. q # << >>
  BY <1>3, <1>5
<1> QED BY <1>2, <1>5, <1>6

\* A transaction keeps the database good, and what was kept.
LEMMA CommitKeeps ==
  ASSUME Good(db, accepted), NEW k, Commits(k)
  PROVE  Good(db, accepted)' /\ KeptOn
<1>1. accepted \in Seq(Statements) /\ k \in 1..Len(accepted) /\ Len(accepted) \in Nat /\ k \in Nat
  BY DEF Good, Commits
<1> DEFINE d[i \in 0..k] == IF i = 0 THEN db ELSE Apply(d[i - 1], accepted[i])
<1>2. db' = d[k]
  BY DEF Commits
<1>3. d[0] = db /\ \A i \in 1..k : d[i] = Apply(d[i - 1], accepted[i])
  BY <1>1, TransactionSteps
<1> HIDE DEF d
<1> DEFINE q(i) == SubSeq(accepted, i + 1, Len(accepted))
           After(i) == /\ Good(d[i], q(i))
                       /\ \A w \in Words, x \in Int :
                            KeptIn(db, accepted, w, x) => KeptIn(d[i], q(i), w, x)
           T == {i \in Nat : i <= k => After(i)}
<1>4. 0 \in T
  <2>1. q(0) = accepted
    BY <1>1
  <2>2. Good(d[0], q(0)) /\ \A w \in Words, x \in Int :
           KeptIn(db, accepted, w, x) => KeptIn(d[0], q(0), w, x)
    BY <1>3, <2>1
  <2> QED BY <2>2
<1>5. ASSUME NEW i \in Nat, i \in T PROVE i + 1 \in T
  <2> SUFFICES ASSUME i + 1 <= k PROVE After(i + 1)
    OBVIOUS
  <2>1. i < Len(accepted) /\ i + 1 \in 1..k /\ (i + 1) - 1 = i /\ i <= k
    BY <1>1
  <2>2. After(i)
    BY <1>5, <2>1
  <2> HIDE DEF T
  <2>3. PICK r : r = q(i)
    OBVIOUS
  <2>4. r # << >> /\ r[1] = accepted[i + 1] /\ Tail(r) = q(i + 1)
    BY <1>1, <2>1, <2>3, RestAt
  <2>5. PICK c : c = d[i]
    OBVIOUS
  <2>6. d[i + 1] = Apply(c, r[1])
    BY <1>3, <2>1, <2>4, <2>5
  <2>7. Good(c, r) /\ \A w \in Words, x \in Int : KeptIn(db, accepted, w, x) => KeptIn(c, r, w, x)
    BY <2>2, <2>3, <2>5
  <2>8. Good(d[i + 1], q(i + 1))
    BY <2>4, <2>6, <2>7, GoodMoves
  <2>9. ASSUME NEW w \in Words, NEW x \in Int, KeptIn(db, accepted, w, x)
        PROVE  KeptIn(d[i + 1], q(i + 1), w, x)
    <3>1. Moves(c, r, d[i + 1])
      BY <2>4, <2>6, <2>7, StatementMoves
    <3>2. KeptIn(c, r, w, x)
      BY <2>7, <2>9
    <3>3. KeptIn(d[i + 1], Tail(r), w, x)
      BY <2>4, <2>7, <3>1, <3>2, KeptMoves
    <3> QED BY <2>4, <3>3
  <2> QED BY <2>8, <2>9
<1>6. After(k)
  <2>1. k \in T
    <3> HIDE DEF T
    <3> QED BY <1>1, <1>4, <1>5, NaturalSteps
  <2> QED BY <1>1, <2>1
<1>7. accepted' = q(k)
  BY DEF Commits, Rest
<1>8. Good(db', accepted') /\ \A w \in Words, x \in Int :
        KeptIn(db, accepted, w, x) => KeptIn(db', accepted', w, x)
  BY <1>2, <1>6, <1>7
<1>9. UNCHANGED <<empty, made, lost, excused, cloud>>
  BY DEF Commits, syncVars, histVars
<1>10. \A w \in Words : Answered(w) => Answered(w)'
  BY <1>9 DEF Answered
<1> QED BY <1>8, <1>9, <1>10, GoodGrows DEF KeptOn

\* The notes among the next statements.
LEMMA NotesAt ==
  ASSUME NEW q \in Seq(Statements)
  PROVE  \A n : n \in NotesOf(q) <=> \E i \in DOMAIN q : q[i].op = "note" /\ n = <<q[i].word, q[i].text>>
  BY DEF NotesOf, ToSet

\* What is left of the notes when the next k statements are dropped.
LEMMA DropAt ==
  ASSUME NEW a \in Seq(Statements), NEW k \in 0..Len(a), NEW r, r = SubSeq(a, k + 1, Len(a))
  PROVE  /\ r \in Seq(Statements) /\ k \in Nat
         /\ \A i \in DOMAIN r : i \in Nat \ {0} /\ i + k \in DOMAIN a /\ r[i] = a[i + k]
         /\ \A i \in DOMAIN a : i > k => i - k \in DOMAIN r /\ r[i - k] = a[i]
         /\ \A i \in DOMAIN a : i <= k /\ a[i].op = "note" =>
              <<a[i].word, a[i].text>> \in NotesOf(SubSeq(a, 1, k))
<1>1. /\ r \in Seq(Statements) /\ k \in Nat
      /\ \A i \in DOMAIN r : i \in Nat \ {0} /\ i + k \in DOMAIN a /\ r[i] = a[i + k]
      /\ \A i \in DOMAIN a : i > k => i - k \in DOMAIN r /\ r[i - k] = a[i]
  OBVIOUS
<1>2. /\ SubSeq(a, 1, k) \in Seq(Statements)
      /\ \A i \in DOMAIN a : i <= k => i \in DOMAIN SubSeq(a, 1, k) /\ SubSeq(a, 1, k)[i] = a[i]
  OBVIOUS
<1> QED BY <1>1, <1>2, NotesAt

\* A batch that is dropped takes its notes along: they are lost, and their words excused.
LEMMA DropKeeps ==
  ASSUME Types, Good(db, accepted), NEW k \in 0..Len(accepted), accepted' = Rest(k),
         lost' = lost \cup NotesOf(Prefix(k)),
         excused' = excused \cup {n[1] : n \in NotesOf(Prefix(k))}, UNCHANGED <<db, empty, made, cloud>>
  PROVE  Good(db, accepted)' /\ KeptOn
<1>1. PICK a \in Seq(Statements) : a = accepted
  BY DEF Good
<1>2. PICK r : r = accepted'
  OBVIOUS
<1>3. r = SubSeq(a, k + 1, Len(a)) /\ k \in 0..Len(a)
  BY <1>1, <1>2 DEF Rest
<1>4. /\ r \in Seq(Statements) /\ k \in Nat
      /\ \A i \in DOMAIN r : i \in Nat \ {0} /\ i + k \in DOMAIN a /\ r[i] = a[i + k]
      /\ \A i \in DOMAIN a : i > k => i - k \in DOMAIN r /\ r[i - k] = a[i]
      /\ \A i \in DOMAIN a : i <= k /\ a[i].op = "note" =>
           <<a[i].word, a[i].text>> \in NotesOf(SubSeq(a, 1, k))
  BY <1>3, DropAt
<1>5. /\ lost' = lost \cup NotesOf(SubSeq(a, 1, k)) /\ db' = db /\ made' = made /\ cloud' = cloud
      /\ excused' = excused \cup {n[1] : n \in NotesOf(SubSeq(a, 1, k))}
  BY <1>1 DEF Prefix
<1>6. ASSUME NEW i \in DOMAIN a, NEW w, NoteAt(a, i, w)
      PROVE  \/ <<w, a[i].text>> \in lost' /\ w \in excused'
             \/ i > k /\ i - k \in DOMAIN r /\ NoteAt(r, i - k, w) /\ r[i - k] = a[i]
  <2>1. a[i].op = "note" /\ a[i].word = w /\ i \in Int /\ k \in Int
    BY <1>4, <1>6 DEF NoteAt
  <2>2. CASE i <= k
    <3>1. <<w, a[i].text>> \in NotesOf(SubSeq(a, 1, k))
      BY <1>4, <2>1, <2>2
    <3>2. <<w, a[i].text>>[1] = w
      OBVIOUS
    <3>3. w \in {n[1] : n \in NotesOf(SubSeq(a, 1, k))}
      BY <3>1, <3>2
    <3> QED BY <1>5, <3>1, <3>3
  <2>3. CASE i > k
    BY <1>4, <2>1, <2>3 DEF NoteAt
  <2> QED BY <2>1, <2>2, <2>3
<1>7. \A i \in DOMAIN r : \A w : NoteAt(r, i, w) => NoteAt(a, i + k, w)
  BY <1>4 DEF NoteAt
<1>8. ASSUME NEW w, NEW x, KeptIn(db, accepted, w, x) PROVE KeptIn(db, accepted, w, x)'
  <2>1. CASE db.note[w].text >= x
    BY <1>5, <2>1 DEF KeptIn
  <2>2. ASSUME NEW i \in DOMAIN a, NoteAt(a, i, w), a[i].text >= x
        PROVE  KeptIn(db, accepted, w, x)'
    <3>1. CASE <<w, a[i].text>> \in lost'
      <4>1. PICK n \in lost' : n = <<w, a[i].text>>
        BY <3>1
      <4>2. n[1] = w /\ n[2] >= x
        BY <2>2, <4>1
      <4> QED BY <4>2 DEF KeptIn
    <3>2. CASE i - k \in DOMAIN r /\ NoteAt(r, i - k, w) /\ r[i - k] = a[i]
      BY <1>2, <2>2, <3>2 DEF KeptIn
    <3> QED BY <1>6, <2>2, <3>1, <3>2
  <2>3. CASE \E n \in lost : n[1] = w /\ n[2] >= x
    BY <1>5, <2>3 DEF KeptIn
  <2> QED BY <1>1, <1>8, <2>1, <2>2, <2>3 DEF KeptIn
<1>9. TextsInOrder(db, accepted)'
  <2>1. \A w \in Words : db'.note[w].text <= made'[w] /\ (db'.note[w].text = 0 => db'.note[w] = NoNote)
    BY <1>5 DEF Good, TextsInOrder
  <2>2. ASSUME NEW i \in DOMAIN r, NEW w \in Words, NoteAt(r, i, w)
        PROVE  /\ db'.note[w].text < r[i].text /\ r[i].text <= made'[w]
               /\ \A j \in DOMAIN r : j < i /\ NoteAt(r, j, w) => r[j].text < r[i].text
    <3>1. i \in Nat /\ i + k \in DOMAIN a /\ r[i] = a[i + k] /\ NoteAt(a, i + k, w)
      BY <1>4, <1>7, <2>2
    <3>2. /\ db.note[w].text < a[i + k].text /\ a[i + k].text <= made[w]
          /\ \A j \in DOMAIN a : j < i + k /\ NoteAt(a, j, w) => a[j].text < a[i + k].text
      BY <1>1, <3>1 DEF Good, TextsInOrder
    <3>3. ASSUME NEW j \in DOMAIN r, j < i, NoteAt(r, j, w) PROVE r[j].text < r[i].text
      <4>1. j \in Nat /\ j + k \in DOMAIN a /\ r[j] = a[j + k] /\ NoteAt(a, j + k, w)
        BY <1>4, <1>7, <3>3
      <4>2. j + k < i + k
        BY <1>4, <3>1, <3>3, <4>1
      <4> QED BY <3>1, <3>2, <4>1, <4>2
    <3> QED BY <1>5, <3>1, <3>2, <3>3
  <2> QED BY <1>2, <2>1, <2>2 DEF TextsInOrder
<1>10. MarksFollow(db, accepted)'
  <2>1. ASSUME NEW w \in db'.processed
        PROVE  KeptIn(db, accepted, w, 1)' /\ (w \in excused' \/ db'.note[w] # NoNote)
    BY <1>5, <1>8, <2>1 DEF Good, MarksFollow
  <2>2. ASSUME NEW i \in DOMAIN r, r[i].op = "mark", NEW w \in r[i].words
        PROVE  /\ KeptIn(db, accepted, w, 1)'
               /\ \/ w \in excused' \/ db'.note[w] # NoNote
                  \/ \E j \in DOMAIN r : j < i /\ NoteAt(r, j, w)
    <3>1. i \in Nat /\ i + k \in DOMAIN a /\ r[i] = a[i + k]
      BY <1>4
    <3>2. /\ KeptIn(db, a, w, 1)
          /\ w \in excused \/ db.note[w] # NoNote \/ \E j \in DOMAIN a : j < i + k /\ NoteAt(a, j, w)
      BY <1>1, <2>2, <3>1 DEF Good, MarksFollow
    <3>3. ASSUME NEW j \in DOMAIN a, j < i + k, NoteAt(a, j, w)
          PROVE  w \in excused' \/ \E l \in DOMAIN r : l < i /\ NoteAt(r, l, w)
      <4>1. CASE j > k /\ j - k \in DOMAIN r /\ NoteAt(r, j - k, w)
        <5>1. j - k < i
          BY <1>4, <3>1, <3>3
        <5> QED BY <4>1, <5>1
      <4> QED BY <1>6, <3>3, <4>1
    <3> QED BY <1>1, <1>5, <1>8, <3>2, <3>3
  <2> QED BY <1>2, <2>1, <2>2 DEF MarksFollow
<1>11. SuccessFollows(db, accepted)'
  <2>1. \A i \in DOMAIN r : r[i].op = "status" /\ r[i].status = 1 =>
           \A w \in r[i].words : Answered(w)'
    BY <1>1, <1>4, <1>5 DEF Good, SuccessFollows, Answered
  <2>2. \A w \in Words : db'.note[w].status = 1 => Answered(w)'
    BY <1>5 DEF Good, SuccessFollows, Answered
  <2> QED BY <1>2, <2>1, <2>2 DEF SuccessFollows
<1>12. MadeOnce(db, accepted)'
  <2> SUFFICES ASSUME NEW w \in Words \ excused'
               PROVE  made'[w] <= 1 /\ (made'[w] = 1 => Noted(db, accepted, w)')
    BY DEF MadeOnce
  <2>1. w \in Words \ excused
    BY <1>5
  <2>2. made[w] <= 1 /\ (made[w] = 1 => Noted(db, a, w))
    BY <1>1, <2>1 DEF Good, MadeOnce
  <2>3. ASSUME NEW i \in DOMAIN a, NoteAt(a, i, w) PROVE \E l \in DOMAIN r : NoteAt(r, l, w)
    BY <1>6, <2>3
  <2> QED BY <1>2, <1>5, <2>2, <2>3 DEF Noted
<1>13. db' \in Databases /\ accepted' \in Seq(Statements)
  BY <1>2, <1>4, <1>5 DEF Good
<1> QED BY <1>8, <1>9, <1>10, <1>11, <1>12, <1>13 DEF Good, KeptOn

-----------------------------------------------------------------------------
(* A note is saved or refused; the database is built anew. *)

\* A note of the run is newer than all others of its word.
LEMMA NoteFits ==
  ASSUME Types, Good(db, accepted), NEW v \in Words, NEW s \in Statements,
         s.op = "note", s.word = v, s.text = made[v] + 1,
         made' = [made EXCEPT ![v] = @ + 1], empty \subseteq empty', UNCHANGED <<db, cloud, lost>>,
         excused' = excused, v \in excused \/ made[v] = 0,
         accepted' = Append(accepted, s)
  PROVE  /\ Good(db, accepted)' /\ KeptOn
         /\ KeptIn(db, accepted, v, made[v])'
<1>1. PICK a \in Seq(Statements) : a = accepted
  BY DEF Good
<1>2. PICK r : r = accepted'
  OBVIOUS
<1>3. /\ r \in Seq(Statements)
      /\ \A i \in DOMAIN a : i \in DOMAIN r /\ r[i] = a[i] /\ i < Len(a) + 1
      /\ \A i \in DOMAIN r : i \in Nat \ {0} /\ \/ i \in DOMAIN a /\ r[i] = a[i]
                                                \/ i = Len(a) + 1 /\ r[i] = s
  BY <1>1, <1>2, AppendAt
<1>4. Len(a) + 1 \in DOMAIN r /\ r[Len(a) + 1] = s
  BY <1>1, <1>2
<1>5. made \in [Words -> Nat] /\ db \in Databases
  BY DEF Types, RunTypes, QueueTypes
<1>6. /\ \A w \in Words : made[w] <= made'[w] /\ made'[w] \in Nat /\ made[w] \in Nat
      /\ \A w \in Words : w # v => made'[w] = made[w]
      /\ made'[v] = made[v] + 1
  BY <1>5
<1>7. \A w \in Words : db.note[w].text \in Nat
  BY <1>5 DEF Databases, NoteRecords
<1>8. /\ \A i \in DOMAIN a : \A w : NoteAt(a, i, w) => NoteAt(r, i, w)
      /\ \A i \in DOMAIN r : \A w : NoteAt(r, i, w) =>
           \/ i \in DOMAIN a /\ NoteAt(a, i, w) /\ r[i] = a[i]
           \/ i = Len(a) + 1 /\ w = v /\ r[i] = s
  BY <1>3 DEF NoteAt
<1>9. \A i \in DOMAIN a : \A w : NoteAt(a, i, w) => a[i].text \in Nat
  BY <1>1 DEF NoteAt, Statements, NoteStatements, StatusStatements
<1>10. \A w, x : KeptIn(db, accepted, w, x) => KeptIn(db, accepted, w, x)'
  BY <1>1, <1>2, <1>3, <1>8 DEF KeptIn
<1>11. KeptIn(db, accepted, v, made[v])'
  <2>1. PICK i \in DOMAIN r : r[i] = s
    BY <1>4
  <2>2. NoteAt(r, i, v)
    BY <2>1 DEF NoteAt
  <2>3. r[i].text >= made'[v]
    BY <1>6, <2>1
  <2>4. \E j \in DOMAIN accepted' : NoteAt(accepted', j, v) /\ accepted'[j].text >= made'[v]
    BY <1>2, <2>2, <2>3
  <2> QED BY <2>4 DEF KeptIn
<1>12. TextsInOrder(db, accepted)'
  <2>1. \A w \in Words : db'.note[w].text <= made'[w] /\ (db'.note[w].text = 0 => db'.note[w] = NoNote)
    BY <1>6, <1>7 DEF Good, TextsInOrder
  <2>2. ASSUME NEW i \in DOMAIN r, NEW w \in Words, NoteAt(r, i, w)
        PROVE  /\ db'.note[w].text < r[i].text /\ r[i].text <= made'[w]
               /\ \A j \in DOMAIN r : j < i /\ NoteAt(r, j, w) => r[j].text < r[i].text
    <3>1. CASE i \in DOMAIN a /\ NoteAt(a, i, w) /\ r[i] = a[i]
      <4>1. /\ db.note[w].text < a[i].text /\ a[i].text <= made[w]
            /\ \A j \in DOMAIN a : j < i /\ NoteAt(a, j, w) => a[j].text < a[i].text
        BY <1>1, <3>1 DEF Good, TextsInOrder
      <4>2. r[i].text <= made'[w]
        BY <1>6, <1>9, <3>1, <4>1
      <4>3. ASSUME NEW j \in DOMAIN r, j < i, NoteAt(r, j, w) PROVE r[j].text < r[i].text
        <5>1. j # Len(a) + 1
          BY <1>3, <3>1, <4>3
        <5> QED BY <1>8, <3>1, <4>1, <4>3, <5>1
      <4> QED BY <3>1, <4>1, <4>2, <4>3
    <3>2. CASE i = Len(a) + 1 /\ w = v /\ r[i] = s
      <4>1. db.note[w].text < r[i].text /\ r[i].text <= made'[w]
        BY <1>6, <1>7, <3>2 DEF Good, TextsInOrder
      <4>2. ASSUME NEW j \in DOMAIN r, j < i, NoteAt(r, j, w) PROVE r[j].text < r[i].text
        <5>1. j # Len(a) + 1
          BY <1>3, <3>2, <4>2
        <5>2. j \in DOMAIN a /\ NoteAt(a, j, w) /\ r[j] = a[j]
          BY <1>8, <4>2, <5>1
        <5>3. a[j].text <= made[w] /\ a[j].text \in Nat
          BY <1>1, <1>9, <5>2 DEF Good, TextsInOrder
        <5> QED BY <1>6, <3>2, <5>2, <5>3
      <4> QED BY <4>1, <4>2
    <3> QED BY <1>8, <2>2, <3>1, <3>2
  <2> QED BY <1>2, <2>1, <2>2 DEF TextsInOrder
<1>13. MarksFollow(db, accepted)'
  <2>1. ASSUME NEW w \in db'.processed
        PROVE  KeptIn(db, accepted, w, 1)' /\ (w \in excused' \/ db'.note[w] # NoNote)
    BY <1>10, <2>1 DEF Good, MarksFollow
  <2>2. ASSUME NEW i \in DOMAIN r, r[i].op = "mark", NEW w \in r[i].words
        PROVE  /\ KeptIn(db, accepted, w, 1)'
               /\ \/ w \in excused' \/ db'.note[w] # NoNote
                  \/ \E j \in DOMAIN r : j < i /\ NoteAt(r, j, w)
    <3>1. i \in DOMAIN a /\ r[i] = a[i]
      BY <1>3, <2>2
    <3>2. /\ KeptIn(db, a, w, 1)
          /\ w \in excused \/ db.note[w] # NoNote \/ \E j \in DOMAIN a : j < i /\ NoteAt(a, j, w)
      BY <1>1, <2>2, <3>1 DEF Good, MarksFollow
    <3> QED BY <1>1, <1>3, <1>8, <1>10, <3>2
  <2> QED BY <1>2, <2>1, <2>2 DEF MarksFollow
<1>14. SuccessFollows(db, accepted)'
  <2>1. \A i \in DOMAIN r : r[i].op = "status" /\ r[i].status = 1 =>
           \A w \in r[i].words : Answered(w)'
    <3> SUFFICES ASSUME NEW i \in DOMAIN r, r[i].op = "status", r[i].status = 1,
                        NEW w \in r[i].words
                 PROVE  Answered(w)'
      OBVIOUS
    <3>1. i \in DOMAIN a /\ r[i] = a[i] /\ a[i] \in Statements
      BY <1>1, <1>3
    <3>2. w \in Words
      BY <3>1 DEF Statements, StatusStatements, NoteStatements
    <3>3. Answered(w)
      BY <1>1, <3>1 DEF Good, SuccessFollows
    <3> QED BY <1>6, <3>2, <3>3, AnsweredStays
  <2>2. \A w \in Words : db'.note[w].status = 1 => Answered(w)'
    BY <1>6, AnsweredStays DEF Good, SuccessFollows
  <2> QED BY <1>2, <2>1, <2>2 DEF SuccessFollows
<1>15. MadeOnce(db, accepted)'
  <2> SUFFICES ASSUME NEW w \in Words \ excused'
               PROVE  made'[w] <= 1 /\ (made'[w] = 1 => Noted(db, accepted, w)')
    BY DEF MadeOnce
  <2>1. CASE w = v
    <3>1. made'[w] = 1
      BY <1>6, <2>1
    <3>2. NoteAt(r, Len(a) + 1, w)
      BY <1>4, <2>1 DEF NoteAt
    <3> QED BY <1>2, <1>4, <3>1, <3>2 DEF Noted
  <2>2. CASE w # v
    <3>1. made'[w] = made[w] /\ made[w] <= 1 /\ (made[w] = 1 => Noted(db, a, w))
      BY <1>1, <1>6, <2>2 DEF Good, MadeOnce
    <3> QED BY <1>2, <1>3, <1>8, <3>1 DEF Noted
  <2> QED BY <2>1, <2>2
<1>16. db' \in Databases /\ accepted' \in Seq(Statements)
  BY <1>2, <1>3 DEF Good
<1> QED BY <1>10, <1>11, <1>12, <1>13, <1>14, <1>15, <1>16 DEF Good, KeptOn

\* A note that the queue refuses: its text was made and is gone, its word excused.
LEMMA NoteRefused ==
  ASSUME Types, Good(db, accepted), NEW v \in Words,
         made' = [made EXCEPT ![v] = @ + 1], empty \subseteq empty',
         UNCHANGED <<db, accepted, cloud, lost>>, excused' = excused \cup {v}
  PROVE  Good(db, accepted)' /\ KeptOn
<1>1. made \in [Words -> Nat] /\ db \in Databases /\ accepted \in Seq(Statements)
  BY DEF Types, RunTypes, QueueTypes
<1>2. /\ \A w \in Words : made[w] <= made'[w] /\ made'[w] \in Nat /\ made[w] \in Nat
      /\ \A w \in Words : w # v => made'[w] = made[w]
  BY <1>1
<1>3. \A w, x : KeptIn(db, accepted, w, x) => KeptIn(db, accepted, w, x)'
  BY DEF KeptIn
<1>4. TextsInOrder(db, accepted)'
  <2>1. \A w \in Words : db.note[w].text \in Nat
    BY <1>1 DEF Databases, NoteRecords
  <2>2. \A i \in DOMAIN accepted : \A w : NoteAt(accepted, i, w) => accepted[i].text \in Nat
    BY <1>1 DEF NoteAt, Statements, NoteStatements, StatusStatements
  <2>3. \A w \in Words : db'.note[w].text <= made'[w] /\ (db'.note[w].text = 0 => db'.note[w] = NoNote)
    BY <1>2, <2>1 DEF Good, TextsInOrder
  <2>4. ASSUME NEW i \in DOMAIN accepted, NEW w \in Words, NoteAt(accepted, i, w)
        PROVE  /\ db.note[w].text < accepted[i].text /\ accepted[i].text <= made'[w]
               /\ \A j \in DOMAIN accepted : j < i /\ NoteAt(accepted, j, w) =>
                    accepted[j].text < accepted[i].text
    <3>1. /\ db.note[w].text < accepted[i].text /\ accepted[i].text <= made[w]
          /\ \A j \in DOMAIN accepted : j < i /\ NoteAt(accepted, j, w) =>
               accepted[j].text < accepted[i].text
      BY <2>4 DEF Good, TextsInOrder
    <3>2. accepted[i].text <= made'[w]
      BY <1>2, <2>2, <2>4, <3>1
    <3> QED BY <3>1, <3>2
  <2> QED BY <2>3, <2>4 DEF TextsInOrder
<1>5. MarksFollow(db, accepted)'
  BY <1>3 DEF Good, MarksFollow
<1>6. SuccessFollows(db, accepted)'
  <2>1. \A w \in Words : Answered(w) => Answered(w)'
    BY <1>2, AnsweredStays
  <2>2. \A i \in DOMAIN accepted : accepted[i].op = "status" => accepted[i].words \subseteq Words
    BY <1>1 DEF Statements, StatusStatements, NoteStatements
  <2> QED BY <2>1, <2>2 DEF Good, SuccessFollows
<1>7. MadeOnce(db, accepted)'
  BY <1>2 DEF Good, MadeOnce, Noted
<1> QED BY <1>1, <1>3, <1>4, <1>5, <1>6, <1>7 DEF Good, KeptOn

\* The rows that an old replica holds.
LEMMA OlderRows ==
  ASSUME Types, NEW old \in Older
  PROVE  \A w \in Words : /\ old[w] \in Nat /\ old[w] <= db.note[w].text
                          /\ Row(w, old[w]).text = old[w] /\ Row(w, old[w]).status # 1
                          /\ old[w] = 0 <=> Row(w, old[w]) = NoNote
<1> SUFFICES ASSUME NEW w \in Words
             PROVE  /\ old[w] \in Nat /\ old[w] <= db.note[w].text
                    /\ Row(w, old[w]).text = old[w] /\ Row(w, old[w]).status # 1
                    /\ old[w] = 0 <=> Row(w, old[w]) = NoNote
  OBVIOUS
<1>1. old[w] <= db.note[w].text /\ old[w] \in UNION {0..made[v] : v \in Words}
  BY DEF Older
<1>2. old[w] \in Nat
  BY <1>1 DEF Types, RunTypes
<1>3. /\ Row(w, old[w]).text = old[w] /\ Row(w, old[w]).status # 1
      /\ old[w] = 0 <=> Row(w, old[w]) = NoNote
  BY <1>2 DEF Row, NoNote, NoText
<1> QED BY <1>1, <1>2, <1>3

\* A corrupt file is rebuilt: the notes that are gone are lost, and their words excused.
LEMMA RebuildKeeps ==
  ASSUME Types, NEW q, Good(db, q), NEW K \in SUBSET Words, NEW old \in Older,
         db' = Rebuilt(K, old), accepted' = q, UNCHANGED <<empty, made, cloud>>,
         NEW gone, gone = {w \in NoteRows(db) : db'.note[w].text < db.note[w].text},
         lost' = lost \cup {<<w, db.note[w].text>> : w \in gone},
         gone \cup excused \subseteq excused'
  PROVE  /\ Good(db, accepted)'
         /\ \A w \in Words, x \in Int : KeptIn(db, q, w, x) => KeptIn(db, accepted, w, x)'
<1>1. db \in Databases /\ q \in Seq(Statements)
  BY DEF Types, QueueTypes, Good
<1>2. PICK e : e = db'
  OBVIOUS
<1>3. /\ e.note = [w \in Words |-> IF w \in K THEN db.note[w] ELSE Row(w, old[w])]
      /\ e.processed = db.processed \cap K
      /\ e.latest = [w \in Words |-> IF w \in K THEN db.latest[w] ELSE 0]
      /\ e.second = {r \in db.second : r[1] \in K}
      /\ e = [note |-> e.note, processed |-> e.processed, latest |-> e.latest, second |-> e.second]
  BY <1>2 DEF Rebuilt
<1>0. \A w \in Words : /\ old[w] \in Nat /\ old[w] <= db.note[w].text
                       /\ Row(w, old[w]).text = old[w] /\ Row(w, old[w]).status # 1
                       /\ old[w] = 0 <=> Row(w, old[w]) = NoNote
  BY OlderRows
<1>4. e \in Databases
  <2>1. \A w \in Words : Row(w, old[w]) \in NoteRecords
    BY <1>0 DEF Row, NoNote, NoText, NoteRecords
  <2>2. e.note \in [Words -> NoteRecords]
    BY <1>1, <1>3, <2>1 DEF Databases
  <2>3. e.latest \in [Words -> Counts \cup {0}]
    BY <1>1, <1>3 DEF Databases
  <2>4. e.processed \in SUBSET Words /\ e.second \in SUBSET SnapRows
    BY <1>1, <1>3 DEF Databases
  <2> QED BY <1>3, <2>2, <2>3, <2>4 DEF Databases
<1>5. \A w \in Words :
        /\ e.note[w].text <= db.note[w].text
        /\ e.note[w].text < db.note[w].text => w \in excused' /\ <<w, db.note[w].text>> \in lost'
        /\ e.note[w] = db.note[w] \/ e.note[w].status # 1
        /\ e.note[w].text = 0 => e.note[w] = NoNote
  <2> SUFFICES ASSUME NEW w \in Words
               PROVE  /\ e.note[w].text <= db.note[w].text
                      /\ e.note[w].text < db.note[w].text =>
                           w \in excused' /\ <<w, db.note[w].text>> \in lost'
                      /\ e.note[w] = db.note[w] \/ e.note[w].status # 1
                      /\ e.note[w].text = 0 => e.note[w] = NoNote
    OBVIOUS
  <2>1. db.note[w].text \in Nat /\ (db.note[w].text = 0 => db.note[w] = NoNote)
    BY <1>1 DEF Databases, NoteRecords, Good, TextsInOrder
  <2>2. CASE w \in K
    BY <1>3, <2>1, <2>2
  <2>3. CASE w \notin K
    <3>1. e.note[w] = Row(w, old[w])
      BY <1>3, <2>3
    <3>2. e.note[w].text < db.note[w].text => db.note[w] # NoNote
      BY <1>0, <2>1, <3>1 DEF NoNote, NoText
    <3>3. e.note[w].text < db.note[w].text => w \in gone
      BY <1>2, <3>2 DEF NoteRows
    <3> QED BY <1>0, <3>1, <3>3
  <2> QED BY <2>2, <2>3
<1>6. \A w \in Words : /\ db.note[w].text \in Nat /\ e.note[w].text \in Nat
                       /\ db.note[w] # NoNote => db.note[w].text # 0
                       /\ e.note[w] = NoNote => e.note[w].text = 0
  BY <1>1, <1>4 DEF Databases, NoteRecords, NoNote, NoText, Good, TextsInOrder
<1>7. ASSUME NEW w \in Words, NEW x \in Int, KeptIn(db, q, w, x) PROVE KeptIn(db, accepted, w, x)'
  <2>1. CASE db.note[w].text >= x
    <3>1. CASE e.note[w].text >= x
      BY <1>2, <3>1 DEF KeptIn
    <3>2. CASE <<w, db.note[w].text>> \in lost'
      <4>1. PICK n \in lost' : n = <<w, db.note[w].text>>
        BY <3>2
      <4>2. n[1] = w /\ n[2] >= x
        BY <2>1, <4>1
      <4> QED BY <4>2 DEF KeptIn
    <3> QED BY <1>5, <1>6, <2>1, <3>1, <3>2
  <2>2. CASE \E i \in DOMAIN q : NoteAt(q, i, w) /\ q[i].text >= x
    BY <2>2 DEF KeptIn
  <2>3. CASE \E n \in lost : n[1] = w /\ n[2] >= x
    BY <2>3 DEF KeptIn
  <2> QED BY <1>7, <2>1, <2>2, <2>3 DEF KeptIn
<1>12. ASSUME NEW w \in Words, w \notin excused', db.note[w] # NoNote PROVE e.note[w] # NoNote
  <2>1. e.note[w].text <= db.note[w].text /\ ~ (e.note[w].text < db.note[w].text)
    BY <1>5, <1>12
  <2>2. /\ e.note[w].text \in Nat /\ db.note[w].text \in Nat /\ db.note[w].text # 0
        /\ e.note[w] = NoNote => e.note[w].text = 0
    BY <1>6, <1>12
  <2> QED BY <2>1, <2>2
<1>8. TextsInOrder(db, accepted)'
  <2>1. ASSUME NEW w \in Words
        PROVE  e.note[w].text <= made[w] /\ (e.note[w].text = 0 => e.note[w] = NoNote)
                 /\ e.note[w].text <= db.note[w].text
    <3>1. db.note[w].text <= made[w] /\ made[w] \in Nat
      BY DEF Good, TextsInOrder, Types, RunTypes
    <3>2. /\ e.note[w].text <= db.note[w].text /\ (e.note[w].text = 0 => e.note[w] = NoNote)
          /\ e.note[w].text \in Nat /\ db.note[w].text \in Nat
      BY <1>5, <1>6
    <3> QED BY <3>1, <3>2
  <2>2. ASSUME NEW i \in DOMAIN q, NEW w \in Words, NoteAt(q, i, w)
        PROVE  /\ e.note[w].text < q[i].text /\ q[i].text <= made[w]
               /\ \A j \in DOMAIN q : j < i /\ NoteAt(q, j, w) => q[j].text < q[i].text
    <3>1. /\ db.note[w].text < q[i].text /\ q[i].text <= made[w]
          /\ \A j \in DOMAIN q : j < i /\ NoteAt(q, j, w) => q[j].text < q[i].text
      BY <2>2 DEF Good, TextsInOrder
    <3>2. q[i].text \in Nat
      BY <1>1, <2>2 DEF NoteAt, Statements, NoteStatements, StatusStatements
    <3> QED BY <1>6, <2>1, <3>1, <3>2
  <2> QED BY <1>2, <2>1, <2>2 DEF TextsInOrder
<1>9. MarksFollow(db, accepted)'
  <2>1. ASSUME NEW w \in e.processed
        PROVE  KeptIn(db, accepted, w, 1)' /\ (w \in excused' \/ e.note[w] # NoNote)
    <3>1. w \in db.processed /\ w \in K /\ w \in Words
      BY <1>1, <1>3 DEF Databases
    <3>2. KeptIn(db, q, w, 1) /\ (w \in excused \/ db.note[w] # NoNote)
      BY <3>1 DEF Good, MarksFollow
    <3> QED BY <1>3, <1>7, <3>1, <3>2
  <2>2. ASSUME NEW i \in DOMAIN q, q[i].op = "mark", NEW w \in q[i].words
        PROVE  /\ KeptIn(db, accepted, w, 1)'
               /\ \/ w \in excused' \/ e.note[w] # NoNote
                  \/ \E j \in DOMAIN q : j < i /\ NoteAt(q, j, w)
    <3>1. w \in Words
      BY <1>1, <2>2 DEF Statements, NoteStatements, StatusStatements
    <3>2. /\ KeptIn(db, q, w, 1)
          /\ w \in excused \/ db.note[w] # NoNote \/ \E j \in DOMAIN q : j < i /\ NoteAt(q, j, w)
      BY <2>2 DEF Good, MarksFollow
    <3>3. KeptIn(db, accepted, w, 1)'
      BY <1>7, <3>1, <3>2
    <3>4. w \in excused' \/ (db.note[w] # NoNote => e.note[w] # NoNote)
      BY <1>12, <3>1
    <3>5. CASE w \in excused'
      BY <3>3, <3>5
    <3>6. CASE db.note[w] # NoNote => e.note[w] # NoNote
      <4>1. w \in excused \/ e.note[w] # NoNote \/ \E j \in DOMAIN q : j < i /\ NoteAt(q, j, w)
        BY <3>2, <3>6
      <4>2. excused \subseteq excused'
        OBVIOUS
      <4> QED BY <3>3, <4>1, <4>2
    <3> QED BY <3>4, <3>5, <3>6
  <2> QED BY <1>2, <2>1, <2>2 DEF MarksFollow
<1>10. SuccessFollows(db, accepted)'
  <2>1. ASSUME NEW w \in Words, e.note[w].status = 1 PROVE Answered(w)
    <3>1. e.note[w] = db.note[w]
      BY <1>5, <2>1
    <3> QED BY <2>1, <3>1 DEF Good, SuccessFollows
  <2>2. \A w : Answered(w) => Answered(w)'
    BY DEF Answered
  <2> QED BY <1>2, <2>1, <2>2 DEF Good, SuccessFollows
<1>11. MadeOnce(db, accepted)'
  <2> SUFFICES ASSUME NEW w \in Words \ excused'
               PROVE  made'[w] <= 1 /\ (made'[w] = 1 => Noted(db, accepted, w)')
    BY DEF MadeOnce
  <2>1. db.note[w] # NoNote => e.note[w] # NoNote
    BY <1>12
  <2>2. made[w] <= 1 /\ (made[w] = 1 => Noted(db, q, w))
    BY DEF Good, MadeOnce
  <2> QED BY <1>2, <2>1, <2>2 DEF Noted
<1> QED BY <1>1, <1>2, <1>4, <1>7, <1>8, <1>9, <1>10, <1>11 DEF Good

-----------------------------------------------------------------------------
(* What the run and the sync worker hold. *)

\* The sequence that a set is made into.
LEMMA SetToSeqOf ==
  ASSUME NEW S, IsFiniteSet(S)
  PROVE  /\ Cardinality(S) \in Nat
         /\ SetToSeq(S) \in [1..Cardinality(S) -> S]
         /\ \A i, j \in 1..Cardinality(S) : SetToSeq(S)[i] = SetToSeq(S)[j] => i = j
<1>1. Cardinality(S) \in Nat /\ ExistsBijection(1..Cardinality(S), S)
  BY FS_CardinalityType
<1>2. PICK f \in Bijection(1..Cardinality(S), S) : TRUE
  BY <1>1 DEF ExistsBijection
<1>3. f \in [1..Cardinality(S) -> S] /\ IsInjective(f)
  BY <1>2 DEF Bijection, Injection, IsInjective
<1>4. SetToSeq(S) \in [1..Cardinality(S) -> S] /\ IsInjective(SetToSeq(S))
  BY <1>3 DEF SetToSeq
<1> QED BY <1>1, <1>4 DEF IsInjective

\* The statements that are not notes.
LEMMA StatementTypes ==
  /\ \A R \in SUBSET SnapRows : Snaps(R) \in Statements /\ Snaps(R).op = "snaps"
  /\ \A S \in SUBSET Words : /\ Mark(S) \in Statements /\ Mark(S).op = "mark"
                             /\ Mark(S).words = S
  /\ \A S \in SUBSET Words, st \in {1, 2, 5} :
       /\ SetStatus(S, st) \in StatusStatements /\ SetStatus(S, st) \in Statements
       /\ SetStatus(S, st).op = "status"
       /\ SetStatus(S, st).words = S /\ SetStatus(S, st).status = st
BY DEF Snaps, Mark, SetStatus, Statements, StatusStatements

\* An item of the sync worker: its text was made and is kept.
ItemKept(it) == it \in Items /\ it.text \in 1..made[it.word] /\ KeptIn(db, accepted, it.word, it.text)

\* ItemKept is what SyncKept says of the items.
LEMMA SyncItems ==
  ASSUME Types
  PROVE  SyncKept(db, accepted) <=>
           /\ \A i \in DOMAIN toSync : ItemKept(toSync[i])
           /\ \A i \in DOMAIN buffer : ItemKept(buffer[i]) /\ Answered(buffer[i].word)
           /\ \A w \in Words : cloud[w] = Theirs \/ (cloud[w] \in 0..made[w]
                                                     /\ KeptIn(db, accepted, w, cloud[w]))
<1>1. /\ \A i \in DOMAIN toSync : toSync[i] \in Items
      /\ \A i \in DOMAIN buffer : buffer[i] \in Items
  BY DEF Types, RunTypes
<1> QED BY <1>1 DEF SyncKept, ItemKept

\* An item stays kept.
LEMMA ItemStays ==
  ASSUME Types, KeptOn, \A w \in Words : made'[w] \in Nat /\ made[w] <= made'[w],
         NEW it, ItemKept(it)
  PROVE  ItemKept(it)'
<1>1. it \in Items /\ it.word \in Words /\ it.text \in Nat /\ it.text \in Int
  BY DEF ItemKept, Items
<1>2. made[it.word] \in Nat
  BY <1>1 DEF Types, RunTypes
<1>3. KeptIn(db, accepted, it.word, it.text)'
  BY <1>1 DEF ItemKept, KeptOn
<1> QED BY <1>1, <1>2, <1>3 DEF ItemKept

\* The items and the cloud after a step.
LEMMA SyncStays ==
  ASSUME Types, Types', SyncKept(db, accepted), KeptOn,
         \A w \in Words : made'[w] \in Nat /\ made[w] <= made'[w], empty \subseteq empty',
         \A i \in DOMAIN toSync' : \E it : it = toSync'[i]
            /\ ((\E j \in DOMAIN toSync : it = toSync[j]) \/ ItemKept(it)'),
         \A i \in DOMAIN buffer' : \E it : it = buffer'[i]
            /\ \/ \E j \in DOMAIN buffer : it = buffer[j]
               \/ ItemKept(it)' /\ Answered(it.word)',
         \A w \in Words : \/ cloud'[w] = cloud[w]
                          \/ cloud'[w] \in 1..made'[w] /\ KeptIn(db, accepted, w, cloud[w])'
  PROVE  SyncKept(db, accepted)'
<1>1. /\ \A i \in DOMAIN toSync : ItemKept(toSync[i])
      /\ \A i \in DOMAIN buffer : ItemKept(buffer[i]) /\ Answered(buffer[i].word)
      /\ \A w \in Words : cloud[w] = Theirs \/ (cloud[w] \in 0..made[w]
                                                /\ KeptIn(db, accepted, w, cloud[w]))
  BY SyncItems
<1>2. /\ cloud \in [Words -> Int] /\ cloud' \in [Words -> Int] /\ made \in [Words -> Nat]
      /\ \A i \in DOMAIN toSync' : toSync'[i] \in Items
      /\ \A i \in DOMAIN buffer' : buffer'[i] \in Items
  BY DEF Types, RunTypes
<1>3. \A w \in Words : Answered(w) => Answered(w)'
  <2>1. \A w \in Words : made[w] \in Nat /\ (cloud'[w] = cloud[w] \/ cloud'[w] \in Nat \ {0})
    BY <1>2
  <2> QED BY <2>1, AnsweredStays
<1>4. ASSUME NEW i \in DOMAIN toSync' PROVE ItemKept(toSync[i])'
  <2>1. PICK it : it = toSync'[i] /\ ((\E j \in DOMAIN toSync : it = toSync[j]) \/ ItemKept(it)')
    BY <1>4
  <2>2. ItemKept(it)'
    BY <1>1, <2>1, ItemStays
  <2> QED BY <2>1, <2>2 DEF ItemKept
<1>5. ASSUME NEW i \in DOMAIN buffer' PROVE ItemKept(buffer[i])' /\ Answered(buffer[i].word)'
  <2>1. PICK it : it = buffer'[i] /\ \/ \E j \in DOMAIN buffer : it = buffer[j]
                                     \/ ItemKept(it)' /\ Answered(it.word)'
    BY <1>5
  <2>2. it \in Items /\ it.word \in Words
    BY <1>2, <2>1 DEF Items
  <2>3. ItemKept(it)' /\ Answered(it.word)'
    <3>1. CASE \E j \in DOMAIN buffer : it = buffer[j]
      <4>1. ItemKept(it) /\ Answered(it.word)
        BY <1>1, <3>1
      <4> QED BY <1>3, <2>2, <4>1, ItemStays
    <3> QED BY <2>1, <3>1
  <2> QED BY <2>1, <2>3 DEF ItemKept
<1>6. ASSUME NEW w \in Words
      PROVE  cloud'[w] = Theirs \/ (cloud'[w] \in 0..made'[w] /\ KeptIn(db, accepted, w, cloud[w])')
  <2>1. PICK c \in Int : c = cloud[w]
    BY <1>2
  <2>2. CASE cloud'[w] = cloud[w]
    <3>1. c = Theirs \/ (c \in 0..made[w] /\ KeptIn(db, accepted, w, c))
      BY <1>1, <2>1
    <3>2. CASE KeptIn(db, accepted, w, c)
      <4>1. KeptIn(db, accepted, w, c)'
        BY <3>2 DEF KeptOn
      <4>2. KeptIn(db, accepted, w, cloud[w])'
        BY <2>1, <2>2, <4>1 DEF KeptIn
      <4>3. c \in 0..made[w] => c \in 0..made'[w]
        BY <1>2
      <4> QED BY <2>1, <2>2, <3>1, <4>2, <4>3
    <3> QED BY <2>1, <2>2, <3>1, <3>2
  <2>3. CASE cloud'[w] \in 1..made'[w] /\ KeptIn(db, accepted, w, cloud[w])'
    BY <1>2, <2>3
  <2> QED BY <2>2, <2>3
<1>7. (\A i \in DOMAIN toSync : ItemKept(toSync[i]))'
  BY <1>4
<1> QED BY <1>2, <1>4, <1>5, <1>6 DEF SyncKept, ItemKept

\* The words that wait for a result, when one is consumed, or all are dropped.
LEMMA TodoStays ==
  ASSUME Types, TodoKept, made' = made, excused \subseteq excused',
         \/ todo' = todo \/ (todo # << >> /\ todo' = Tail(todo)) \/ todo' = << >>
  PROVE  TodoKept'
<1>1. todo \in Seq(Words)
  BY DEF Types, RunTypes
<1>2. CASE todo' = todo
  BY <1>2 DEF TodoKept
<1>3. CASE todo # << >> /\ todo' = Tail(todo)
  <2>1. \A i \in DOMAIN todo' : i \in Nat /\ i + 1 \in DOMAIN todo /\ todo'[i] = todo[i + 1]
    BY <1>1, <1>3
  <2>2. ASSUME NEW i \in DOMAIN todo', NEW j \in DOMAIN todo', todo'[i] = todo'[j] PROVE i = j
    <3>1. i + 1 = j + 1 /\ i \in Nat /\ j \in Nat
      BY <2>1, <2>2 DEF TodoKept
    <3> QED BY <3>1
  <2>3. \A i \in DOMAIN todo' : todo'[i] \in excused' \/ made'[todo'[i]] = 0
    BY <2>1 DEF TodoKept
  <2> QED BY <2>2, <2>3 DEF TodoKept
<1>4. CASE todo' = << >>
  BY <1>4 DEF TodoKept
<1> QED BY <1>2, <1>3, <1>4

\* The step leaves the sync worker and the history alone, but for excuses.
LEMMA StepAside ==
  ASSUME IInv, Types', Good(db, accepted)', KeptOn, TodoKept', UNCHANGED <<syncVars, empty, made, lost>>
  PROVE  IInv'
<1>1. SyncKept(db, accepted)'
  <2>1. made' = made /\ made \in [Words -> Nat]
    BY DEF IInv, Types, RunTypes
  <2>2. toSync' = toSync /\ buffer' = buffer /\ cloud' = cloud
    BY DEF syncVars
  <2>3. \A w \in Words : made'[w] \in Nat /\ made[w] <= made'[w]
    BY <2>1
  <2>4. /\ \A i \in DOMAIN toSync' : \E it : it = toSync'[i]
            /\ ((\E j \in DOMAIN toSync : it = toSync[j]) \/ ItemKept(it)')
        /\ \A i \in DOMAIN buffer' : \E it : it = buffer'[i]
            /\ \/ \E j \in DOMAIN buffer : it = buffer[j]
               \/ ItemKept(it)' /\ Answered(it.word)'
    BY <2>2
  <2> QED BY <2>2, <2>3, <2>4, SyncStays DEF IInv
<1>2. LostMade'
  BY DEF IInv, LostMade
<1> QED BY <1>1, <1>2 DEF IInv

-----------------------------------------------------------------------------
(* The steps, one after the other. *)

\* Steps that touch neither database nor queue nor the worker's data.
LEMMA AsideKeeps ==
  ASSUME IInv, UNCHANGED <<db, accepted, syncVars, empty, made, lost>>, excused \subseteq excused',
         excused' \in SUBSET Words, list' \in SUBSET Words,
         rows' \in SUBSET SnapRows, today' \in {<< >>} \cup {<<R>> : R \in SUBSET SnapRows},
         todo' \in Seq(Words), TodoKept'
  PROVE  IInv'
<1>1. Types'
  BY DEF IInv, Types, QueueTypes, RunTypes, syncVars
<1>2. Grows
  BY AnsweredKept DEF Grows, syncVars
<1>3. Good(db, accepted)' /\ KeptOn
  BY <1>2, QueuedNone DEF IInv
<1> QED BY <1>1, <1>3, StepAside

\* The types of what the run keeps.
LEMMA RunKnown ==
  ASSUME IInv
  PROVE  /\ db \in Databases /\ accepted \in Seq(Statements) /\ todo \in Seq(Words)
         /\ rows \in SUBSET SnapRows /\ today \in {<< >>} \cup {<<R>> : R \in SUBSET SnapRows}
         /\ list \in SUBSET Words /\ excused \in SUBSET Words /\ made \in [Words -> Nat]
         /\ toSync \in Seq(Items) /\ buffer \in Seq(Items) /\ cloud \in [Words -> Int]
BY DEF IInv, Types, QueueTypes, RunTypes

\* The rows of a snapshot.
LEMMA ChangedRows ==
  ASSUME NEW d, NEW S \in SUBSET Words, NEW count \in [Words -> Counts]
  PROVE  Changed(d, S, count) \in SUBSET SnapRows
BY DEF Changed, SnapRows

\* A run ends.
LEMMA EndsKeeps ==
  ASSUME IInv, Ends, UNCHANGED <<db, accepted, rows, today, syncVars, empty, made, lost>>,
         excused \subseteq excused', excused' \in SUBSET Words
  PROVE  IInv'
<1>1. list' = {} /\ todo' = << >> /\ made' = made
  BY DEF Ends
<1>2. TodoKept'
  BY <1>1, TodoStays DEF IInv
<1>3. todo' \in Seq(Words)
  BY <1>1
<1> QED BY <1>1, <1>2, <1>3, RunKnown, AsideKeeps

\* Lists that come from the cloud, AI calls, and what ends without a word.
LEMMA QuietKeeps ==
  ASSUME IInv,
         \/ Starts \/ StatesFail \/ ConsumesNothing \/ ConsumesNameless \/ Raises \/ TodayReads
         \/ \E w \in Words : Ai(w)
  PROVE  IInv'
<1>0. IInv /\ Types /\ TodoKept
  BY DEF IInv
<1>1. CASE Starts
  <2>1. PICK S \in Lists, count \in [Words -> Counts] : Begins(S, count)
    BY <1>1 DEF Starts
  <2>2. /\ list' = S /\ rows' = Changed(db, S, count) /\ S \in SUBSET Words
        /\ UNCHANGED <<db, accepted, todo, today, syncVars, empty, made, lost, excused>>
    BY <2>1 DEF Begins, Lists, histVars
  <2>3. rows' \in SUBSET SnapRows
    BY <2>2, ChangedRows
  <2>4. TodoKept'
    BY <1>0, <2>2, TodoStays
  <2> QED BY <1>0, <2>2, <2>3, <2>4, RunKnown, AsideKeeps
<1>2. CASE StatesFail
  BY <1>0, <1>2, RunKnown, EndsKeeps DEF StatesFail, histVars
<1>3. CASE ConsumesNothing
  <2>1. /\ todo # << >> /\ todo' = Tail(todo)
        /\ UNCHANGED <<db, accepted, list, rows, today, syncVars, empty, made, lost, excused>>
    BY <1>3 DEF ConsumesNothing, histVars
  <2>2. TodoKept'
    BY <1>0, <2>1, TodoStays
  <2>3. todo' \in Seq(Words)
    BY <2>1, RunKnown
  <2> QED BY <1>0, <2>1, <2>2, <2>3, RunKnown, AsideKeeps
<1>4. CASE ConsumesNameless
  <2>1. UNCHANGED <<db, accepted, list, rows, today, todo, syncVars, empty, made, lost, excused>>
    BY <1>4 DEF ConsumesNameless, histVars
  <2>2. TodoKept'
    BY <1>0, <2>1, TodoStays
  <2> QED BY <1>0, <2>1, <2>2, RunKnown, AsideKeeps
<1>5. CASE Raises
  BY <1>0, <1>5, RunKnown, EndsKeeps DEF Raises, histVars
<1>6. CASE TodayReads
  <2>1. /\ UNCHANGED <<db, accepted, list, rows, todo, syncVars, empty, made, lost, excused>>
        /\ \E S \in Lists, count \in [Words -> Counts] : today' = <<Changed(db, S, count)>>
    BY <1>6 DEF TodayReads, histVars
  <2>2. PICK S \in Lists, count \in [Words -> Counts] : today' = <<Changed(db, S, count)>>
    BY <2>1
  <2>3. Changed(db, S, count) \in SUBSET SnapRows
    BY ChangedRows DEF Lists
  <2>4. today' \in {<< >>} \cup {<<R>> : R \in SUBSET SnapRows}
    BY <2>2, <2>3
  <2>5. TodoKept'
    BY <1>0, <2>1, TodoStays
  <2> QED BY <1>0, <2>1, <2>4, <2>5, RunKnown, AsideKeeps
<1>7. ASSUME NEW w \in Words, Ai(w) PROVE IInv'
  <2>1. UNCHANGED <<db, accepted, list, rows, todo, today, syncVars, empty, made, lost, excused>>
    BY <1>7 DEF Ai, AiCalls, AiFails, AiAnswers, AiVarsOnly, histVars
  <2>2. TodoKept'
    BY <1>0, <2>1, TodoStays
  <2> QED BY <1>0, <2>1, <2>2, RunKnown, AsideKeeps
<1> QED BY <1>1, <1>2, <1>3, <1>4, <1>5, <1>6, <1>7

\* A step that queues and else leaves the database and the worker alone.
LEMMA QueueKeeps ==
  ASSUME IInv, UNCHANGED <<db, list, todo, syncVars, empty, made, lost, excused>>,
         rows' \in SUBSET SnapRows, today' \in {<< >>} \cup {<<R>> : R \in SUBSET SnapRows},
         accepted' = accepted \/ \E R \in SUBSET SnapRows : Enqueue(Snaps(R))
  PROVE  IInv'
<1>1. Grows
  BY AnsweredKept DEF Grows, syncVars
<1>2. Good(db, accepted)' /\ KeptOn
  <2>1. CASE accepted' = accepted
    BY <1>1, <2>1, QueuedNone DEF IInv
  <2>2. ASSUME NEW R \in SUBSET SnapRows, Enqueue(Snaps(R)) PROVE Good(db, accepted)' /\ KeptOn
    <3>1. Fits(db, accepted, Snaps(R))
      BY StatementTypes DEF Fits
    <3> QED BY <1>1, <2>2, <3>1, QueuedOne DEF IInv
  <2> QED BY <2>1, <2>2
<1>3. TodoKept'
  BY TodoStays DEF IInv
<1>4. Types'
  <2>1. accepted' \in Seq(Statements)
    BY <1>2 DEF Good
  <2> QED BY <2>1 DEF IInv, Types, QueueTypes, RunTypes, syncVars
<1> QED BY <1>2, <1>3, <1>4, StepAside

\* Snapshots are queued.
LEMMA SnapsKeep ==
  ASSUME IInv, QueuesSnaps \/ TodayQueues
  PROVE  IInv'
<1>1. CASE QueuesSnaps
  <2>1. /\ UNCHANGED <<db, list, todo, syncVars, empty, made, lost, excused, today>> /\ rows' = {}
        /\ (accepted' = accepted \/ Enqueue(Snaps(rows)))
    BY <1>1 DEF QueuesSnaps, histVars
  <2> QED BY <2>1, RunKnown, QueueKeeps
<1>2. CASE TodayQueues
  <2>1. /\ UNCHANGED <<db, list, todo, syncVars, empty, made, lost, excused, rows>> /\ today' = << >>
        /\ (accepted' = accepted \/ Enqueue(Snaps(today[1]))) /\ today # << >>
    BY <1>2 DEF TodayQueues, histVars
  <2>2. PICK R \in SUBSET SnapRows : today = <<R>>
    BY <2>1, RunKnown
  <2>3. today[1] = R
    BY <2>2
  <2> QED BY <2>1, <2>3, RunKnown, QueueKeeps
<1> QED BY <1>1, <1>2

\* The writer.
LEMMA WriterKeeps ==
  ASSUME IInv, Writer
  PROVE  IInv'
<1>1. CASE SecondPasses
  <2>1. /\ db' = [db EXCEPT !.second = {}]
        /\ UNCHANGED <<accepted, list, rows, todo, today, syncVars, empty, made, lost, excused>>
    BY <1>1 DEF SecondPasses, histVars
  <2>2. db' \in Databases /\ db'.note = db.note /\ db'.processed = db.processed
    BY <2>1, RunKnown DEF Databases
  <2>3. KeptOn
    BY <2>1, <2>2 DEF KeptOn, KeptIn
  <2>4. Good(db, accepted)'
    <3>1. cloud' = cloud
      BY <2>1 DEF syncVars
    <3>2. TextsInOrder(db, accepted)'
      BY <2>1, <2>2 DEF IInv, Good, TextsInOrder
    <3>3. MarksFollow(db, accepted)'
      BY <2>1, <2>2 DEF IInv, Good, MarksFollow, KeptIn
    <3>4. SuccessFollows(db, accepted)'
      <4>1. \A w : Answered(w) <=> Answered(w)'
        BY <2>1, <3>1, AnsweredKept
      <4> QED BY <2>1, <2>2, <4>1 DEF IInv, Good, SuccessFollows
    <3>5. MadeOnce(db, accepted)'
      BY <2>1, <2>2 DEF IInv, Good, MadeOnce, Noted
    <3> QED BY <2>1, <2>2, <3>2, <3>3, <3>4, <3>5, RunKnown DEF Good
  <2>5. TodoKept'
    BY <2>1, TodoStays DEF IInv
  <2>6. Types'
    BY <2>1, <2>2 DEF IInv, Types, QueueTypes, RunTypes, syncVars
  <2> QED BY <2>1, <2>3, <2>4, <2>5, <2>6, StepAside
<1>2. ASSUME NEW k \in 1..Len(accepted), Commits(k) PROVE IInv'
  <2>1. UNCHANGED <<list, rows, todo, today, syncVars, empty, made, lost, excused>>
    BY <1>2 DEF Commits, histVars
  <2>2. Good(db, accepted)' /\ KeptOn
    BY <1>2, CommitKeeps DEF IInv
  <2>3. TodoKept'
    BY <2>1, TodoStays DEF IInv
  <2>4. Types'
    <3>1. db' \in Databases /\ accepted' \in Seq(Statements)
      BY <2>2 DEF Good
    <3> QED BY <2>1, <3>1 DEF IInv, Types, QueueTypes, RunTypes, syncVars
  <2> QED BY <2>1, <2>2, <2>3, <2>4, StepAside
<1>3. ASSUME NEW k \in 1..Len(accepted), Drop(k) PROVE IInv'
  <2>1. /\ UNCHANGED <<db, list, rows, todo, today, syncVars, empty, made>>
        /\ lost' = lost \cup NotesOf(Prefix(k))
        /\ excused' = excused \cup {n[1] : n \in NotesOf(Prefix(k))}
    BY <1>3 DEF Drop
  <2>2. Good(db, accepted)' /\ KeptOn
    <3>1. k \in 0..Len(accepted) /\ accepted' = Rest(k) /\ cloud' = cloud
      BY <1>3, RunKnown DEF Drop, syncVars
    <3> QED BY <2>1, <3>1, DropKeeps DEF IInv
  <2>3. TodoKept'
    BY <2>1, TodoStays DEF IInv
  <2>4. \A n \in NotesOf(Prefix(k)) : n \in Words \X Nat /\ n[2] <= made[n[1]]
    <3>1. Prefix(k) \in Seq(Statements) /\ \A i \in DOMAIN Prefix(k) :
             i \in DOMAIN accepted /\ Prefix(k)[i] = accepted[i] /\ accepted[i] \in Statements
      BY RunKnown DEF Prefix
    <3>2. ASSUME NEW n \in NotesOf(Prefix(k)) PROVE n \in Words \X Nat /\ n[2] <= made[n[1]]
      <4>1. PICK i \in DOMAIN Prefix(k) :
              Prefix(k)[i].op = "note" /\ n = <<Prefix(k)[i].word, Prefix(k)[i].text>>
        BY <3>1, <3>2, NotesAt
      <4>2. /\ i \in DOMAIN accepted /\ accepted[i].op = "note" /\ accepted[i] \in Statements
            /\ n = <<accepted[i].word, accepted[i].text>>
        BY <3>1, <4>1
      <4>3. accepted[i].word \in Words /\ accepted[i].text \in Nat
        BY <4>2 DEF Statements, NoteStatements, StatusStatements
      <4>4. accepted[i].text <= made[accepted[i].word]
        BY <4>2, <4>3 DEF IInv, Good, TextsInOrder, NoteAt
      <4> QED BY <4>2, <4>3, <4>4
    <3> QED BY <3>2
  <2>5. lost \in SUBSET (Words \X Nat) /\ lost' \in SUBSET (Words \X Nat)
    BY <2>1, <2>4 DEF IInv, Types, RunTypes
  <2>6. excused' \in SUBSET Words
    BY <2>1, <2>4, RunKnown
  <2>7. LostMade'
    BY <2>1, <2>4 DEF IInv, LostMade
  <2>8. Types'
    <3>1. db' \in Databases /\ accepted' \in Seq(Statements)
      BY <2>2 DEF Good
    <3> QED BY <2>1, <2>5, <2>6, <3>1 DEF IInv, Types, QueueTypes, RunTypes, syncVars
  <2>9. SyncKept(db, accepted)'
    <3>1. \A w \in Words : made'[w] \in Nat /\ made[w] <= made'[w]
      BY <2>1, RunKnown
    <3>2. toSync' = toSync /\ buffer' = buffer /\ cloud' = cloud
      BY <2>1 DEF syncVars
    <3>3. /\ \A i \in DOMAIN toSync' : \E it : it = toSync'[i]
              /\ ((\E j \in DOMAIN toSync : it = toSync[j]) \/ ItemKept(it)')
          /\ \A i \in DOMAIN buffer' : \E it : it = buffer'[i]
              /\ \/ \E j \in DOMAIN buffer : it = buffer[j]
                 \/ ItemKept(it)' /\ Answered(it.word)'
      BY <3>2
    <3> QED BY <2>1, <2>2, <2>8, <3>1, <3>2, <3>3, SyncStays DEF IInv
  <2> QED BY <2>2, <2>3, <2>7, <2>8, <2>9 DEF IInv
<1> QED BY <1>1, <1>2, <1>3 DEF Writer, CollisionDrops, ErrorDrops

\* What is kept of a later text is kept of the first.
LEMMA KeptFirst ==
  ASSUME IInv, NEW w \in Words, NEW x \in Nat, x >= 1, KeptIn(db, accepted, w, x)
  PROVE  KeptIn(db, accepted, w, 1)
<1>1. db.note[w].text \in Nat
  BY RunKnown DEF Databases, NoteRecords
<1>2. \A i \in DOMAIN accepted : NoteAt(accepted, i, w) => accepted[i].text \in Nat
  <2>1. accepted \in Seq(Statements)
    BY RunKnown
  <2> QED BY <2>1 DEF NoteAt, Statements, NoteStatements, StatusStatements
<1>3. \A n \in lost : n[2] \in Nat
  BY DEF IInv, Types, RunTypes
<1>4. CASE db.note[w].text >= x
  BY <1>1, <1>4 DEF KeptIn
<1>5. ASSUME NEW i \in DOMAIN accepted, NoteAt(accepted, i, w), accepted[i].text >= x
      PROVE  KeptIn(db, accepted, w, 1)
  <2>1. accepted[i].text >= 1
    BY <1>2, <1>5
  <2> QED BY <1>5, <2>1 DEF KeptIn
<1>6. ASSUME NEW n \in lost, n[1] = w, n[2] >= x PROVE KeptIn(db, accepted, w, 1)
  <2>1. n[2] >= 1
    BY <1>3, <1>6
  <2> QED BY <1>6, <2>1 DEF KeptIn
<1> QED BY <1>4, <1>5, <1>6 DEF KeptIn

\* The word of an item may be marked.
LEMMA ItemFits ==
  ASSUME IInv, NEW it, ItemKept(it)
  PROVE  /\ it.word \in Words /\ it.text \in Nat /\ it.text >= 1 /\ it.text <= made[it.word]
         /\ KeptIn(db, accepted, it.word, 1)
         /\ it.word \in excused \/ Noted(db, accepted, it.word)
<1>1. it.word \in Words /\ it.text \in Nat /\ it.text >= 1 /\ it.text <= made[it.word]
  BY RunKnown DEF ItemKept, Items
<1>2. KeptIn(db, accepted, it.word, 1)
  BY <1>1, KeptFirst DEF ItemKept
<1>3. it.word \notin excused => made[it.word] = 1
  <2>1. made[it.word] \in Nat
    BY <1>1, RunKnown
  <2>2. it.word \notin excused => made[it.word] <= 1
    BY <1>1 DEF IInv, Good, MadeOnce
  <2> QED BY <1>1, <2>1, <2>2
<1> QED BY <1>1, <1>2, <1>3 DEF IInv, Good, MadeOnce

\* The items of the worker.
LEMMA ItemsKept ==
  ASSUME IInv
  PROVE  /\ \A i \in DOMAIN toSync : ItemKept(toSync[i])
         /\ \A i \in DOMAIN buffer : ItemKept(buffer[i]) /\ Answered(buffer[i].word)
BY SyncItems DEF IInv

\* The words whose note is saved may be marked.
LEMMA UnmarkedFits ==
  ASSUME IInv, NEW S \in SUBSET Words, \A w \in S : db.note[w] # NoNote
  PROVE  Fits(db, accepted, Mark(S))
<1>1. ASSUME NEW w \in S PROVE KeptIn(db, accepted, w, 1) /\ Noted(db, accepted, w)
  <2>1. db.note[w].text \in Nat /\ db.note[w].text # 0
    BY RunKnown DEF Databases, NoteRecords, IInv, Good, TextsInOrder
  <2>2. db.note[w].text >= 1
    BY <2>1
  <2> QED BY <2>2 DEF KeptIn, Noted
<1> QED BY <1>1, StatementTypes DEF Fits

\* A flush of the results that are buffered.
LEMMA FlushKeeps ==
  ASSUME IInv, Flush, UNCHANGED <<db, rows, today, toSync, cloud, empty, made, lost, excused>>,
         list' \in SUBSET Words, todo' \in Seq(Words), TodoKept'
  PROVE  IInv'
<1> DEFINE S == {buffer[i].word : i \in DOMAIN buffer}
<1>1. Grows
  BY AnsweredKept DEF Grows
<1>2. \A w \in S : /\ w \in Words /\ KeptIn(db, accepted, w, 1) /\ Answered(w)
                   /\ w \in excused \/ Noted(db, accepted, w)
  BY ItemsKept, ItemFits
<1>3. S \in SUBSET Words
  BY <1>2
<1>4. buffer' = << >> /\ (accepted' = accepted \/ EnqueueBoth(Mark(S), SetStatus(S, 1)))
  BY DEF Flush
<1> HIDE DEF S
<1>5. Good(db, accepted)' /\ KeptOn
  <2>1. CASE accepted' = accepted
    BY <1>1, <2>1, QueuedNone DEF IInv
  <2>2. CASE EnqueueBoth(Mark(S), SetStatus(S, 1))
    <3>1. PICK t \in StatusStatements : t = SetStatus(S, 1)
      BY <1>3, StatementTypes
    <3>2. PICK s : s = Mark(S)
      OBVIOUS
    <3>3. Fits(db, accepted, s)
      BY <1>2, <1>3, <3>2, StatementTypes DEF Fits
    <3>4. Fits(db, accepted, t)
      BY <1>2, <1>3, <3>1, StatementTypes DEF Fits
    <3>5. EnqueueBoth(s, t)
      BY <2>2, <3>1, <3>2
    <3> QED BY <1>1, <3>3, <3>4, <3>5, QueuedBoth DEF IInv
  <2> QED BY <1>4, <2>1, <2>2
<1>6. Types'
  <2>1. accepted' \in Seq(Statements) /\ buffer' \in Seq(Items)
    BY <1>4, <1>5 DEF Good
  <2> QED BY <2>1 DEF IInv, Types, QueueTypes, RunTypes
<1>7. SyncKept(db, accepted)'
  <2>1. \A w \in Words : made'[w] \in Nat /\ made[w] <= made'[w]
    BY RunKnown
  <2>2. /\ \A i \in DOMAIN toSync' : \E it : it = toSync'[i]
            /\ ((\E j \in DOMAIN toSync : it = toSync[j]) \/ ItemKept(it)')
        /\ \A i \in DOMAIN buffer' : \E it : it = buffer'[i]
            /\ \/ \E j \in DOMAIN buffer : it = buffer[j]
               \/ ItemKept(it)' /\ Answered(it.word)'
    BY <1>4
  <2> QED BY <1>5, <1>6, <2>1, <2>2, SyncStays DEF IInv
<1>8. LostMade'
  BY DEF IInv, LostMade
<1> QED BY <1>5, <1>6, <1>7, <1>8 DEF IInv

\* The run ends with a flush, and the worker flushes by itself.
LEMMA FlushesKeep ==
  ASSUME IInv, Finishes \/ WorkerFlushes
  PROVE  IInv'
<1>1. CASE Finishes
  <2>1. /\ Flush /\ UNCHANGED <<db, rows, today, toSync, cloud, empty, made, lost, excused>>
        /\ list' = {} /\ todo' = << >>
    BY <1>1 DEF Finishes, Ends, histVars
  <2>2. TodoKept'
    BY <2>1, TodoStays DEF IInv
  <2> QED BY <2>1, <2>2, FlushKeeps
<1>2. CASE WorkerFlushes
  <2>1. Flush /\ UNCHANGED <<db, rows, today, toSync, cloud, empty, made, lost, excused, list, todo>>
    BY <1>2 DEF WorkerFlushes, histVars
  <2>2. TodoKept'
    BY <2>1, TodoStays DEF IInv
  <2> QED BY <2>1, <2>2, FlushKeeps, RunKnown
<1> QED BY <1>1, <1>2

\* An upload, or an interpretation that is found to be the same.
LEMMA UploadKeeps ==
  ASSUME IInv, Uploads
  PROVE  IInv'
<1>1. /\ toSync # << >> /\ toSync' = Tail(toSync) /\ buffer' = Append(buffer, Item)
      /\ cloud' = [cloud EXCEPT ![Item.word] = IF @ = NoText THEN Item.text ELSE @]
      /\ <<Item.word, Item.text>> \in empty \/ cloud[Item.word] \in {NoText, Item.text}
      /\ UNCHANGED <<db, accepted, list, rows, todo, today, empty, made, lost, excused>>
  BY DEF Uploads, IsEmpty, histVars
<1>2. PICK it : it = toSync[1]
  OBVIOUS
<1>3. /\ ItemKept(it) /\ it \in Items /\ it.word \in Words /\ it.text \in Nat /\ it.text >= 1
      /\ it.text <= made[it.word] /\ Item = it
  BY <1>1, <1>2, ItemsKept, ItemFits, RunKnown DEF Item, ItemKept
<1>4. /\ cloud' \in [Words -> Int]
      /\ \A w \in Words : w # it.word => cloud'[w] = cloud[w]
      /\ cloud'[it.word] = IF cloud[it.word] = NoText THEN it.text ELSE cloud[it.word]
      /\ it.text \in 1..made[it.word] /\ made[it.word] \in Nat
  <2>1. /\ it.text \in 1..made[it.word] /\ made[it.word] \in Nat /\ it.text \in Int
        /\ it.word \in Words /\ cloud \in [Words -> Int]
    BY <1>3, RunKnown DEF ItemKept
  <2>2. cloud' = [cloud EXCEPT ![it.word] = IF @ = NoText THEN it.text ELSE @]
    BY <1>1, <1>3
  <2> QED BY <2>1, <2>2
<1>5. Grows /\ Answered(it.word)'
  <2>1. \A w \in Words : Answered(w) => Answered(w)'
    <3> SUFFICES ASSUME NEW w \in Words, Answered(w) PROVE Answered(w)'
      OBVIOUS
    <3>1. cloud'[w] = cloud[w] \/ cloud'[w] \in Nat \ {0}
      BY <1>4
    <3>2. \A v \in Words : made[v] \in Nat /\ made'[v] \in Nat /\ made[v] <= made'[v]
      BY <1>1, RunKnown
    <3> QED BY <1>1, <3>1, <3>2, AnsweredStays
  <2>2. Answered(it.word)'
    <3>1. CASE cloud[it.word] \in {NoText, it.text}
      <4>1. cloud'[it.word] >= 1
        BY <1>4, <3>1 DEF NoText
      <4> QED BY <4>1 DEF Answered
    <3>2. CASE <<it.word, it.text>> \in empty /\ cloud[it.word] # NoText
      <4>1. cloud'[it.word] # NoText /\ it.text \in 1..made'[it.word]
        BY <1>1, <1>4, <3>2
      <4>2. <<it.word, it.text>> \in empty'
        BY <1>1, <3>2
      <4> QED BY <4>1, <4>2 DEF Answered
    <3> QED BY <1>1, <1>3, <3>1, <3>2
  <2> QED BY <1>1, <2>1, <2>2 DEF Grows
<1>6. Good(db, accepted)' /\ KeptOn
  BY <1>1, <1>5, QueuedNone DEF IInv
<1>7. \A w \in Words : made'[w] \in Nat /\ made[w] <= made'[w]
  BY <1>1, RunKnown
<1>8. ItemKept(it)'
  BY <1>3, <1>6, <1>7, ItemStays DEF IInv
<1>9. Types'
  <2>1. toSync' \in Seq(Items) /\ buffer' \in Seq(Items)
    BY <1>1, <1>3, RunKnown
  <2> QED BY <1>1, <1>4, <2>1 DEF IInv, Types, QueueTypes, RunTypes
<1>10. SyncKept(db, accepted)'
  <2>1. \A i \in DOMAIN toSync' : \E j \in DOMAIN toSync : toSync'[i] = toSync[j]
    <3>1. \A i \in DOMAIN toSync' : i + 1 \in DOMAIN toSync /\ toSync'[i] = toSync[i + 1]
      BY <1>1, RunKnown
    <3> QED BY <3>1
  <2>2. \A i \in DOMAIN buffer' : buffer'[i] = it \/ \E j \in DOMAIN buffer : buffer'[i] = buffer[j]
    <3>1. \A i \in DOMAIN buffer' : buffer'[i] = it \/ (i \in DOMAIN buffer /\ buffer'[i] = buffer[i])
      BY <1>1, <1>3, RunKnown
    <3> QED BY <3>1
  <2>3. \A i \in DOMAIN buffer' : \E u : u = buffer'[i]
            /\ \/ \E j \in DOMAIN buffer : u = buffer[j]
               \/ ItemKept(u)' /\ Answered(u.word)'
    BY <1>5, <1>8, <2>2
  <2>4. \A w \in Words : \/ cloud'[w] = cloud[w]
                         \/ cloud'[w] \in 1..made'[w] /\ KeptIn(db, accepted, w, cloud[w])'
    <3> SUFFICES ASSUME NEW w \in Words, w = it.word, cloud'[w] = it.text
                 PROVE  cloud'[w] \in 1..made'[w] /\ KeptIn(db, accepted, w, cloud[w])'
      BY <1>4
    <3>1. cloud'[w] \in 1..made'[w]
      BY <1>1, <1>4
    <3>2. KeptIn(db, accepted, w, cloud[w])'
      BY <1>8 DEF ItemKept, KeptIn
    <3> QED BY <3>1, <3>2
  <2> QED BY <1>1, <1>6, <1>7, <1>9, <2>1, <2>3, <2>4, SyncStays DEF IInv
<1>11. TodoKept' /\ LostMade'
  BY <1>1, TodoStays DEF IInv, LostMade
<1> QED BY <1>6, <1>9, <1>10, <1>11 DEF IInv

\* A conflict or a failure takes the item and queues its status.
LEMMA StatusKeeps ==
  ASSUME IInv, FindsConflict \/ UploadFails
  PROVE  IInv'
<1>1. /\ toSync # << >> /\ toSync' = Tail(toSync)
      /\ UNCHANGED <<db, list, rows, todo, today, buffer, cloud, empty, made, lost, excused>>
  BY DEF FindsConflict, UploadFails, histVars
<1>2. PICK it : it = toSync[1]
  OBVIOUS
<1>3. /\ ItemKept(it) /\ it.word \in Words /\ Item = it
      /\ KeptIn(db, accepted, it.word, 1) /\ (it.word \in excused \/ Noted(db, accepted, it.word))
  BY <1>1, <1>2, ItemsKept, ItemFits, RunKnown DEF Item
<1>4. Grows
  BY <1>1, AnsweredKept DEF Grows
<1>5. PICK S \in SUBSET Words : S = {it.word}
  BY <1>3
<1>6. Good(db, accepted)' /\ KeptOn
  <2>1. CASE FindsConflict
    <3>1. PICK t \in StatusStatements : t = SetStatus(S, 2)
      BY <1>5, StatementTypes
    <3>2. PICK s : s = Mark(S)
      OBVIOUS
    <3>3. Fits(db, accepted, s)
      BY <1>3, <1>5, <3>2, StatementTypes DEF Fits
    <3>4. Fits(db, accepted, t)
      BY <1>5, <3>1, StatementTypes DEF Fits
    <3>5. EnqueueBoth(s, t)
      BY <1>3, <1>5, <2>1, <3>1, <3>2 DEF FindsConflict
    <3> QED BY <1>4, <3>3, <3>4, <3>5, QueuedBoth DEF IInv
  <2>2. CASE UploadFails
    <3>1. PICK t \in StatusStatements : t = SetStatus(S, 5)
      BY <1>5, StatementTypes
    <3>2. Fits(db, accepted, t)
      BY <1>5, <3>1, StatementTypes DEF Fits
    <3>3. Enqueue(t)
      BY <1>3, <1>5, <2>2, <3>1 DEF UploadFails
    <3> QED BY <1>4, <3>2, <3>3, QueuedOne DEF IInv
  <2> QED BY <2>1, <2>2
<1>7. \A w \in Words : made'[w] \in Nat /\ made[w] <= made'[w]
  BY <1>1, RunKnown
<1>8. Types'
  <2>1. toSync' \in Seq(Items) /\ accepted' \in Seq(Statements)
    BY <1>1, <1>6, RunKnown DEF Good
  <2> QED BY <1>1, <2>1 DEF IInv, Types, QueueTypes, RunTypes
<1>9. SyncKept(db, accepted)'
  <2>1. \A i \in DOMAIN toSync' : \E j \in DOMAIN toSync : toSync'[i] = toSync[j]
    <3>1. \A i \in DOMAIN toSync' : i + 1 \in DOMAIN toSync /\ toSync'[i] = toSync[i + 1]
      BY <1>1, RunKnown
    <3> QED BY <3>1
  <2>2. \A i \in DOMAIN buffer' : \E u : u = buffer'[i]
            /\ \/ \E j \in DOMAIN buffer : u = buffer[j]
               \/ ItemKept(u)' /\ Answered(u.word)'
    BY <1>1
  <2> QED BY <1>1, <1>6, <1>7, <1>8, <2>1, <2>2, SyncStays DEF IInv
<1>10. TodoKept' /\ LostMade'
  BY <1>1, TodoStays DEF IInv, LostMade
<1> QED BY <1>6, <1>8, <1>9, <1>10 DEF IInv

\* The words that go to the AI.
LEMMA PartitionKeeps ==
  ASSUME IInv, NEW new \in SUBSET Words, Partition(new), made' = made, excused \subseteq excused',
         \A w \in new : w \in excused' \/ made[w] = 0
  PROVE  TodoKept' /\ todo' \in Seq(Words) /\ list' \in SUBSET Words
<1>1. CASE new = {}
  <2>1. todo' = << >> /\ list' = {}
    BY <1>1 DEF Partition, Ends
  <2> QED BY <2>1, TodoStays DEF IInv
<1>2. CASE new # {}
  <2>1. todo' = SetToSeq(new) /\ list' = {}
    BY <1>2 DEF Partition
  <2>2. IsFiniteSet(new)
    BY WordsAssumption, FS_Subset
  <2>3. /\ Cardinality(new) \in Nat /\ todo' \in [1..Cardinality(new) -> new]
        /\ \A i, j \in 1..Cardinality(new) : todo'[i] = todo'[j] => i = j
    BY <2>1, <2>2, SetToSeqOf
  <2>4. DOMAIN todo' = 1..Cardinality(new) /\ \A i \in DOMAIN todo' : todo'[i] \in new
    BY <2>3
  <2>5. todo' \in Seq(Words)
    BY <2>3
  <2> QED BY <2>1, <2>3, <2>4, <2>5, RunKnown DEF TodoKept
<1> QED BY <1>1, <1>2

\* A word whose state is not started has no note.
LEMMA NotStarted ==
  ASSUME NEW d \in Databases, NEW w \in Words
  PROVE  DeriveState(d, w) = "not_started" <=> d.note[w] = NoNote /\ w \notin d.processed
<1>1. PICK n \in NoteRecords : n = d.note[w]
  BY DEF Databases
<1>2. n.status \in {0, 1, 2, 5} /\ (n = NoNote => n.status = 0)
  BY <1>1 DEF NoteRecords, NoNote
<1> QED BY <1>1, <1>2 DEF DeriveState

\* The words of a list that have no note, and none on the way, were never made.
LEMMA NeverMade ==
  ASSUME IInv, NEW S \in SUBSET Words, NEW w \in S, w \notin excused, w \notin Unapplied(S),
         db.note[w] = NoNote
  PROVE  made[w] = 0
<1>1. \A i \in DOMAIN accepted : ~ NoteAt(accepted, i, w)
  <2> SUFFICES ASSUME NEW i \in DOMAIN accepted, NoteAt(accepted, i, w) PROVE FALSE
    OBVIOUS
  <2>1. accepted \in Seq(Statements)
    BY RunKnown
  <2>2. PICK n : n = <<accepted[i].word, accepted[i].text>>
    OBVIOUS
  <2>3. n \in NotesOf(accepted)
    BY <2>1, <2>2, NotesAt DEF NoteAt
  <2>4. n[1] = w
    BY <2>2 DEF NoteAt
  <2> QED BY <2>3, <2>4 DEF Unapplied
<1>2. made[w] \in Nat /\ made[w] <= 1 /\ (made[w] = 1 => Noted(db, accepted, w))
  BY RunKnown DEF IInv, Good, MadeOnce
<1> QED BY <1>1, <1>2 DEF Noted

\* The look-up of the states.
LEMMA StatesKeep ==
  ASSUME IInv, ReadsStates \/ ReadsBlind
  PROVE  IInv'
<1>1. CASE ReadsStates
  <2> DEFINE M   == Unmarked(db, list)
             new == {w \in list : DeriveState(db, w) = "not_started"}
  <2>1. /\ UNCHANGED <<db, rows, today, syncVars, empty, made, lost>>
        /\ excused' = excused \cup Unapplied(list) /\ Partition(new)
        /\ accepted' = accepted \/ Enqueue(Mark(M))
    BY <1>1 DEF ReadsStates
  <2>2. M \in SUBSET Words /\ \A w \in M : db.note[w] # NoNote
    BY RunKnown DEF Unmarked
  <2>3. Unapplied(list) \in SUBSET Words
    BY RunKnown DEF Unapplied
  <2>4. Grows
    BY <2>1, AnsweredKept DEF Grows, syncVars
  <2>5. \A w \in new : w \in list /\ db.note[w] = NoNote
    BY NotStarted, RunKnown
  <2>6. new \in SUBSET Words /\ \A w \in new : w \in excused' \/ made[w] = 0
    BY <2>1, <2>5, NeverMade, RunKnown
  <2> HIDE DEF M, new
  <2>7. Good(db, accepted)' /\ KeptOn
    <3>1. CASE accepted' = accepted
      BY <2>4, <3>1, QueuedNone DEF IInv
    <3>2. CASE Enqueue(Mark(M))
      <4>1. Fits(db, accepted, Mark(M))
        BY <2>2, UnmarkedFits
      <4> QED BY <2>4, <3>2, <4>1, QueuedOne DEF IInv
    <3> QED BY <2>1, <3>1, <3>2
  <2>8. TodoKept' /\ todo' \in Seq(Words) /\ list' \in SUBSET Words
    BY <2>1, <2>6, PartitionKeeps
  <2>9. Types'
    <3>1. accepted' \in Seq(Statements) /\ excused' \in SUBSET Words
      BY <2>1, <2>3, <2>7, RunKnown DEF Good
    <3> QED BY <2>1, <2>8, <3>1 DEF IInv, Types, QueueTypes, RunTypes, syncVars
  <2> QED BY <2>1, <2>7, <2>8, <2>9, StepAside
<1>2. CASE ReadsBlind
  <2>1. /\ UNCHANGED <<db, accepted, rows, today, syncVars, empty, made, lost>>
        /\ excused' = excused \cup list /\ Partition(list)
    BY <1>2 DEF ReadsBlind
  <2>2. TodoKept' /\ todo' \in Seq(Words) /\ list' \in SUBSET Words
    BY <2>1, PartitionKeeps, RunKnown
  <2> QED BY <2>1, <2>2, AsideKeeps, RunKnown
<1> QED BY <1>1, <1>2

\* The look-up that finds a corrupt file.
LEMMA RebuiltKeeps ==
  ASSUME IInv, ReadsRebuilt
  PROVE  IInv'
<1>1. /\ UNCHANGED <<rows, today, syncVars, empty, made>>
      /\ \E K \in SUBSET Words, old \in Older :
           LET new == Rebuilt(K, old)
               gone == {w \in NoteRows(db) : new.note[w].text < db.note[w].text}
           IN /\ db' = new
              /\ lost' = lost \cup {<<w, db.note[w].text>> : w \in gone}
              /\ excused' = excused \cup gone \cup Unapplied(list)
              /\ IF Unmarked(new, list) = {} THEN UNCHANGED accepted
                 ELSE Enqueue(Mark(Unmarked(new, list)))
              /\ Partition({w \in list : DeriveState(new, w) = "not_started"})
  BY DEF ReadsRebuilt
<1>2. PICK K \in SUBSET Words, old \in Older :
           LET new == Rebuilt(K, old)
               gone == {w \in NoteRows(db) : new.note[w].text < db.note[w].text}
           IN /\ db' = new
              /\ lost' = lost \cup {<<w, db.note[w].text>> : w \in gone}
              /\ excused' = excused \cup gone \cup Unapplied(list)
              /\ IF Unmarked(new, list) = {} THEN UNCHANGED accepted
                 ELSE Enqueue(Mark(Unmarked(new, list)))
              /\ Partition({w \in list : DeriveState(new, w) = "not_started"})
  BY <1>1
<1> DEFINE M   == Unmarked(db', list)
           new == {w \in list : DeriveState(db', w) = "not_started"}
<1> DEFINE Gone == {w \in NoteRows(db) : db'.note[w].text < db.note[w].text}
<1>3. /\ db' = Rebuilt(K, old) /\ Partition(new)
      /\ lost' = lost \cup {<<w, db.note[w].text>> : w \in Gone}
      /\ excused' = (excused \cup Gone) \cup Unapplied(list)
      /\ accepted' = accepted \/ Enqueue(Mark(M))
  BY <1>2
<1>4. /\ \A w \in Words : db'.note[w] = IF w \in K THEN db.note[w] ELSE Row(w, old[w])
      /\ db'.processed = db.processed \cap K
  BY <1>3 DEF Rebuilt
<1>0. \A w \in Words : db'.note[w] # NoNote => db.note[w] # NoNote
  <2> SUFFICES ASSUME NEW w \in Words, db'.note[w] # NoNote, w \notin K PROVE db.note[w] # NoNote
    BY <1>4
  <2>1. db'.note[w] = Row(w, old[w])
    BY <1>4
  <2>2. old[w] # 0 /\ old[w] \in Nat /\ old[w] <= db.note[w].text
    BY <2>1, OlderRows DEF IInv
  <2> QED BY <2>2 DEF NoNote, NoText
<1>5. M \in SUBSET Words /\ \A w \in M : db.note[w] # NoNote
  <2>1. M \subseteq list /\ \A w \in M : db'.note[w] # NoNote
    BY DEF Unmarked
  <2> QED BY <1>0, <2>1, RunKnown
<1> HIDE DEF M
<1>6. PICK q : q = accepted'
  OBVIOUS
<1>7. Good(db, q) /\ \A w \in Words, x \in Int : KeptIn(db, accepted, w, x) => KeptIn(db, q, w, x)
  <2>1. CASE q = accepted
    BY <2>1 DEF IInv
  <2>2. CASE q = Append(accepted, Mark(M))
    <3>1. PICK s : s = Mark(M)
      OBVIOUS
    <3>2. Fits(db, accepted, s)
      BY <1>5, <3>1, UnmarkedFits
    <3> QED BY <2>2, <3>1, <3>2, GoodAppends DEF IInv
  <2> QED BY <1>3, <1>6, <2>1, <2>2 DEF Enqueue
<1>8. Good(db, accepted)' /\ KeptOn
  <2>1. cloud' = cloud /\ made' = made
    BY <1>1 DEF syncVars
  <2>2. PICK g : g = Gone
    OBVIOUS
  <2>3. /\ Good(db, accepted)'
        /\ \A w \in Words, x \in Int : KeptIn(db, q, w, x) => KeptIn(db, accepted, w, x)'
    <3>1. /\ g = {w \in NoteRows(db) : db'.note[w].text < db.note[w].text}
          /\ lost' = lost \cup {<<w, db.note[w].text>> : w \in g}
          /\ g \cup excused \subseteq excused' /\ UNCHANGED <<empty, made, cloud>>
      BY <1>1, <1>3, <2>1, <2>2
    <3> HIDE DEF Gone
    <3> QED BY <1>3, <1>6, <1>7, <3>1, RebuildKeeps DEF IInv
  <2> QED BY <1>7, <2>3 DEF KeptOn
<1>9. db' \in Databases /\ accepted' \in Seq(Statements)
  BY <1>8 DEF Good
<1>10. ASSUME NEW w \in new PROVE w \in Words /\ (w \in excused' \/ made[w] = 0)
  <2>1. w \in list /\ w \in Words
    BY RunKnown
  <2>2. db'.note[w] = NoNote
    BY <1>9, <1>10, <2>1, NotStarted
  <2>3. db.note[w] = NoNote \/ w \in Gone
    <3>1. db.note[w] # NoNote => db.note[w].text \in Nat \ {0}
      BY <2>1, RunKnown DEF Databases, NoteRecords, IInv, Good, TextsInOrder
    <3>2. db'.note[w].text = 0
      BY <2>2 DEF NoNote, NoText
    <3> QED BY <2>1, <3>1, <3>2 DEF NoteRows
  <2>4. CASE w \in excused'
    BY <2>1, <2>4
  <2>5. CASE w \notin excused'
    <3>1. db.note[w] = NoNote /\ w \notin excused /\ w \notin Unapplied(list)
      BY <1>3, <2>3, <2>5
    <3> QED BY <2>1, <3>1, NeverMade, RunKnown
  <2> QED BY <2>4, <2>5
<1>11. TodoKept' /\ todo' \in Seq(Words) /\ list' \in SUBSET Words
  <2>1. new \in SUBSET Words /\ \A w \in new : w \in excused' \/ made[w] = 0
    BY <1>10
  <2>2. Partition(new) /\ made' = made /\ excused \subseteq excused'
    BY <1>1, <1>3
  <2> HIDE DEF new
  <2> QED BY <2>1, <2>2, PartitionKeeps
<1>12. \A w \in NoteRows(db) : w \in Words /\ db.note[w].text \in Nat /\ db.note[w].text <= made[w]
  BY RunKnown DEF NoteRows, Databases, NoteRecords, IInv, Good, TextsInOrder
<1>13. lost' \in SUBSET (Words \X Nat) /\ LostMade'
  <2>1. ASSUME NEW n \in lost' PROVE n \in Words \X Nat /\ n[2] <= made[n[1]]
    <3>1. CASE n \in lost
      BY <3>1 DEF IInv, Types, RunTypes, LostMade
    <3>2. ASSUME NEW w \in Gone, n = <<w, db.note[w].text>>
          PROVE  n \in Words \X Nat /\ n[2] <= made[n[1]]
      BY <1>12, <3>2
    <3> QED BY <1>3, <2>1, <3>1, <3>2
  <2> QED BY <1>1, <2>1 DEF LostMade
<1>14. excused' \in SUBSET Words
  BY <1>3, RunKnown DEF Unapplied, NoteRows
<1>15. Types'
  BY <1>1, <1>9, <1>11, <1>13, <1>14 DEF IInv, Types, QueueTypes, RunTypes, syncVars
<1>16. SyncKept(db, accepted)'
  <2>1. \A w \in Words : made'[w] \in Nat /\ made[w] <= made'[w]
    BY <1>1, RunKnown
  <2>2. toSync' = toSync /\ buffer' = buffer /\ cloud' = cloud
    BY <1>1 DEF syncVars
  <2>3. /\ \A i \in DOMAIN toSync' : \E it : it = toSync'[i]
            /\ ((\E j \in DOMAIN toSync : it = toSync[j]) \/ ItemKept(it)')
        /\ \A i \in DOMAIN buffer' : \E it : it = buffer'[i]
            /\ \/ \E j \in DOMAIN buffer : it = buffer[j]
               \/ ItemKept(it)' /\ Answered(it.word)'
    BY <2>2
  <2> QED BY <1>1, <1>8, <1>15, <2>1, <2>2, <2>3, SyncStays DEF IInv
<1> QED BY <1>8, <1>11, <1>13, <1>15, <1>16 DEF IInv

\* A note is saved, or refused by a full queue.
LEMMA NoteKeeps ==
  ASSUME IInv, ConsumesNote
  PROVE  IInv'
<1>1. /\ todo # << >> /\ todo' = Tail(todo) /\ fut[Current] \in {"note", "empty note"}
      /\ Enqueue(NewNote) /\ made' = [made EXCEPT ![Current] = @ + 1]
      /\ UNCHANGED <<db, list, rows, today, buffer, cloud, lost>> /\ empty \subseteq empty'
      /\ \/ Room(1) /\ toSync' = Append(toSync, [word |-> Current, text |-> made[Current] + 1])
            /\ excused' = excused
         \/ ~ Room(1) /\ excused' = excused \cup {Current} /\ toSync' = toSync
  BY DEF ConsumesNote, Saves, HandsOver
<1>2. PICK v : v = Current
  OBVIOUS
<1>3. /\ v \in Words /\ v = todo[1] /\ 1 \in DOMAIN todo
      /\ \A i \in DOMAIN todo' : i \in Nat \ {0} /\ i + 1 \in DOMAIN todo /\ todo'[i] = todo[i + 1]
      /\ todo' \in Seq(Words)
  <2>1. todo \in Seq(Words) /\ todo # << >> /\ todo' = Tail(todo) /\ v = Head(todo)
    BY <1>1, <1>2, RunKnown DEF Current
  <2> QED BY <2>1
<1>4. v \in excused \/ made[v] = 0
  BY <1>3 DEF IInv, TodoKept
<1>5. \A i \in DOMAIN todo' : todo'[i] # v /\ todo'[i] \in Words
  <2> SUFFICES ASSUME NEW i \in DOMAIN todo' PROVE todo'[i] # v /\ todo'[i] \in Words
    OBVIOUS
  <2>1. i + 1 # 1 /\ i + 1 \in DOMAIN todo /\ todo'[i] = todo[i + 1]
    BY <1>3
  <2>2. todo[i + 1] # todo[1]
    BY <1>3, <2>1 DEF IInv, TodoKept
  <2> QED BY <1>3, <2>1, <2>2, RunKnown
<1>6. /\ made' \in [Words -> Nat] /\ made'[v] = made[v] + 1
      /\ \A w \in Words : w # v => made'[w] = made[w]
      /\ \A w \in Words : made'[w] \in Nat /\ made[w] <= made'[w]
  <2>1. made \in [Words -> Nat] /\ v \in Words /\ made' = [made EXCEPT ![v] = @ + 1]
    BY <1>1, <1>2, <1>3, RunKnown
  <2> QED BY <2>1
<1>7. excused' \in SUBSET Words /\ excused \subseteq excused'
  BY <1>1, <1>2, <1>3, RunKnown
<1>8. TodoKept'
  <2>1. ASSUME NEW i \in DOMAIN todo', NEW j \in DOMAIN todo', todo'[i] = todo'[j] PROVE i = j
    <3>1. todo[i + 1] = todo[j + 1] /\ i + 1 \in DOMAIN todo /\ j + 1 \in DOMAIN todo
      BY <1>3, <2>1
    <3>2. i + 1 = j + 1
      BY <3>1 DEF IInv, TodoKept
    <3> QED BY <1>3, <3>2
  <2>2. ASSUME NEW i \in DOMAIN todo' PROVE todo'[i] \in excused' \/ made'[todo'[i]] = 0
    <3>1. todo'[i] \in excused \/ made[todo'[i]] = 0
      BY <1>3 DEF IInv, TodoKept
    <3> QED BY <1>5, <1>6, <1>7, <3>1
  <2> QED BY <2>1, <2>2 DEF TodoKept
<1>9. LostMade'
  <2>1. ASSUME NEW n \in lost PROVE n[2] <= made'[n[1]]
    <3>1. n[1] \in Words /\ n[2] \in Nat /\ n[2] <= made[n[1]]
      BY DEF IInv, LostMade, Types, RunTypes
    <3>2. made[n[1]] \in Nat
      BY <3>1, RunKnown
    <3> QED BY <1>6, <3>1, <3>2
  <2> QED BY <1>1, <2>1 DEF LostMade
<1>10. CASE Room(1)
  <2>1. PICK s : s = NewNote
    OBVIOUS
  <2>2. s \in Statements /\ s.op = "note" /\ s.word = v /\ s.text = made[v] + 1
    <3>1. made[v] + 1 \in Nat
      BY <1>3, RunKnown
    <3>2. s = [op |-> "note", word |-> v, text |-> made[v] + 1,
               status |-> IF fut[v] = "note" THEN 0 ELSE 5]
      BY <1>2, <2>1 DEF NewNote, SaveNote
    <3>3. s \in NoteStatements
      BY <1>3, <3>1, <3>2 DEF NoteStatements
    <3> QED BY <3>2, <3>3 DEF Statements
  <2>3. accepted' = Append(accepted, s) /\ excused' = excused
    BY <1>1, <1>10, <2>1 DEF Enqueue
  <2>4. /\ Good(db, accepted)' /\ KeptOn /\ KeptIn(db, accepted, v, made[v])'
    BY <1>1, <1>2, <1>3, <1>4, <2>2, <2>3, NoteFits DEF IInv
  <2>5. PICK it : it = [word |-> v, text |-> made[v] + 1]
    OBVIOUS
  <2>6. it \in Items /\ it.word = v /\ it.text = made'[v] /\ it.text \in 1..made'[it.word]
    BY <1>3, <1>6, <2>5, RunKnown DEF Items
  <2>7. ItemKept(it)'
    <3>1. KeptIn(db, accepted, it.word, it.text)'
      BY <2>4, <2>6 DEF KeptIn
    <3> QED BY <2>6, <3>1 DEF ItemKept
  <2>8. toSync' = Append(toSync, it)
    BY <1>1, <1>2, <1>10, <2>5
  <2>9. /\ toSync' \in Seq(Items)
        /\ \A i \in DOMAIN toSync' : toSync'[i] = it \/ (i \in DOMAIN toSync /\ toSync'[i] = toSync[i])
    BY <2>6, <2>8, RunKnown
  <2>10. Types'
    <3>1. accepted' \in Seq(Statements)
      BY <2>4 DEF Good
    <3> QED BY <1>1, <1>3, <1>6, <1>7, <2>9, <3>1 DEF IInv, Types, QueueTypes, RunTypes
  <2>11. SyncKept(db, accepted)'
    <3>1. \A i \in DOMAIN toSync' : \E u : u = toSync'[i]
              /\ ((\E j \in DOMAIN toSync : u = toSync[j]) \/ ItemKept(u)')
      BY <2>7, <2>9
    <3>2. \A i \in DOMAIN buffer' : \E u : u = buffer'[i]
              /\ \/ \E j \in DOMAIN buffer : u = buffer[j]
                 \/ ItemKept(u)' /\ Answered(u.word)'
      BY <1>1
    <3> QED BY <1>1, <1>6, <2>4, <2>10, <3>1, <3>2, SyncStays DEF IInv
  <2>12. LostMade'
    BY <1>9
  <2> QED BY <1>8, <2>4, <2>10, <2>11, <2>12 DEF IInv
<1>11. CASE ~ Room(1)
  <2>1. accepted' = accepted /\ excused' = excused \cup {v} /\ toSync' = toSync
    BY <1>1, <1>2, <1>11 DEF Enqueue
  <2>2. Good(db, accepted)' /\ KeptOn
    BY <1>1, <1>2, <1>3, <2>1, NoteRefused DEF IInv
  <2>3. Types'
    BY <1>1, <1>3, <1>6, <1>7, <2>1 DEF IInv, Types, QueueTypes, RunTypes
  <2>4. SyncKept(db, accepted)'
    <3>1. \A i \in DOMAIN toSync' : \E u : u = toSync'[i]
              /\ ((\E j \in DOMAIN toSync : u = toSync[j]) \/ ItemKept(u)')
      BY <2>1
    <3>2. \A i \in DOMAIN buffer' : \E u : u = buffer'[i]
              /\ \/ \E j \in DOMAIN buffer : u = buffer[j]
                 \/ ItemKept(u)' /\ Answered(u.word)'
      BY <1>1
    <3> QED BY <1>1, <1>6, <2>2, <2>3, <3>1, <3>2, SyncStays DEF IInv
  <2>5. LostMade'
    BY <1>9
  <2> QED BY <1>8, <2>2, <2>3, <2>4, <2>5 DEF IInv
<1> QED BY <1>10, <1>11

\* A crash, and the start after it.
LEMMA CrashKeeps ==
  ASSUME IInv, Crashes
  PROVE  IInv'
<1>1. /\ accepted' = << >> /\ rows' = {} /\ today' = << >> /\ buffer' = << >>
      /\ list' = {} /\ todo' = << >>
      /\ lost' = lost \cup NotesOf(accepted)
      /\ excused' = excused \cup {n[1] : n \in NotesOf(accepted)}
      /\ toSync' = [i \in 1..Cardinality(Unsynced(db)) |->
                 LET w == SetToSeq(Unsynced(db))[i] IN [word |-> w, text |-> db.note[w].text]]
      /\ UNCHANGED <<db, cloud, empty, made>>
  BY DEF Crashes, Ends
<1>2. Len(accepted) \in 0..Len(accepted) /\ SubSeq(accepted, 1, Len(accepted)) = accepted
  BY RunKnown, SubSeqFull
<1>3. accepted' = Rest(Len(accepted)) /\ Prefix(Len(accepted)) = accepted
  <2>1. accepted \in Seq(Statements)
    BY RunKnown
  <2>2. SubSeq(accepted, Len(accepted) + 1, Len(accepted)) = << >>
    BY <2>1, SubSeqEmpty
  <2> QED BY <1>1, <1>2, <2>2 DEF Rest, Prefix
<1>4. Good(db, accepted)' /\ KeptOn
  <2>1. PICK k \in 0..Len(accepted) : k = Len(accepted)
    BY <1>2
  <2>2. accepted' = Rest(k) /\ Prefix(k) = accepted
    BY <1>3, <2>1
  <2> QED BY <1>1, <2>2, DropKeeps DEF IInv
<1>5. \A n \in NotesOf(accepted) : n \in Words \X Nat /\ n[2] <= made[n[1]]
  <2>1. accepted \in Seq(Statements) /\ \A i \in DOMAIN accepted : accepted[i] \in Statements
    BY RunKnown
  <2>2. ASSUME NEW n \in NotesOf(accepted) PROVE n \in Words \X Nat /\ n[2] <= made[n[1]]
    <3>1. PICK i \in DOMAIN accepted :
            accepted[i].op = "note" /\ n = <<accepted[i].word, accepted[i].text>>
      BY <2>1, <2>2, NotesAt
    <3>2. accepted[i].word \in Words /\ accepted[i].text \in Nat
      BY <2>1, <3>1 DEF Statements, NoteStatements, StatusStatements
    <3>3. accepted[i].text <= made[accepted[i].word]
      BY <3>1, <3>2 DEF IInv, Good, TextsInOrder, NoteAt
    <3> QED BY <3>1, <3>2, <3>3
  <2> QED BY <2>2
<1>6. lost' \in SUBSET (Words \X Nat) /\ excused' \in SUBSET Words /\ LostMade'
  BY <1>1, <1>5 DEF IInv, Types, RunTypes, LostMade
<1> DEFINE U == Unsynced(db)
<1>7. U \in SUBSET Words /\ \A w \in U : db.note[w] # NoNote
  BY DEF Unsynced
<1>8. /\ Cardinality(U) \in Nat /\ SetToSeq(U) \in [1..Cardinality(U) -> U]
  <2>1. IsFiniteSet(U)
    BY <1>7, WordsAssumption, FS_Subset
  <2> HIDE DEF U
  <2> QED BY <2>1, SetToSeqOf
<1>9. \A w \in U : [word |-> w, text |-> db.note[w].text] \in Items
                   /\ db.note[w].text \in 1..made[w]
  <2> SUFFICES ASSUME NEW w \in U PROVE [word |-> w, text |-> db.note[w].text] \in Items
                   /\ db.note[w].text \in 1..made[w]
    OBVIOUS
  <2>1. w \in Words /\ db.note[w].text \in Nat /\ made[w] \in Nat
    BY <1>7, RunKnown DEF Databases, NoteRecords
  <2>2. db.note[w].text # 0 /\ db.note[w].text <= made[w]
    BY <1>7, <2>1 DEF IInv, Good, TextsInOrder
  <2> QED BY <2>1, <2>2 DEF Items
<1>10. toSync' = [i \in 1..Cardinality(U) |->
                    [word |-> SetToSeq(U)[i], text |-> db.note[SetToSeq(U)[i]].text]]
  BY <1>1
<1> HIDE DEF U
<1>11. toSync' \in Seq(Items) /\ DOMAIN toSync' = 1..Cardinality(U)
  BY <1>8, <1>9, <1>10
<1>12. Types'
  <2>1. db' \in Databases /\ accepted' \in Seq(Statements)
    BY <1>4 DEF Good
  <2> QED BY <1>1, <1>6, <1>11, <2>1 DEF IInv, Types, QueueTypes, RunTypes
<1>13. ASSUME NEW i \in DOMAIN toSync' PROVE \E u : u = toSync'[i] /\ ItemKept(u)'
  <2>1. PICK w \in U : w = SetToSeq(U)[i]
    BY <1>8, <1>11, <1>13
  <2>2. PICK u : u = [word |-> w, text |-> db.note[w].text]
    OBVIOUS
  <2>3. u = toSync'[i]
    BY <1>10, <1>11, <1>13, <2>1, <2>2
  <2>4. /\ u \in Items /\ u.word = w /\ u.text = db'.note[w].text /\ u.text \in 1..made'[u.word]
        /\ u.text \in Int
    BY <1>1, <1>9, <2>2
  <2>5. KeptIn(db, accepted, u.word, u.text)'
    BY <2>4 DEF KeptIn
  <2>6. ItemKept(u)'
    BY <2>4, <2>5 DEF ItemKept
  <2> QED BY <2>3, <2>6
<1>14. SyncKept(db, accepted)'
  <2>1. \A w \in Words : made'[w] \in Nat /\ made[w] <= made'[w]
    BY <1>1, RunKnown
  <2>2. /\ \A i \in DOMAIN toSync' : \E it : it = toSync'[i]
            /\ ((\E j \in DOMAIN toSync : it = toSync[j]) \/ ItemKept(it)')
        /\ \A i \in DOMAIN buffer' : \E it : it = buffer'[i]
            /\ \/ \E j \in DOMAIN buffer : it = buffer[j]
               \/ ItemKept(it)' /\ Answered(it.word)'
    BY <1>1, <1>13
  <2> QED BY <1>1, <1>4, <1>12, <2>1, <2>2, SyncStays DEF IInv
<1>15. TodoKept'
  BY <1>1, TodoStays DEF IInv
<1> QED BY <1>4, <1>6, <1>12, <1>14, <1>15 DEF IInv

-----------------------------------------------------------------------------
(* The invariant, and what follows from it. *)

\* A run starts on notes that wait for their upload.
LEMMA InitKeeps ==
  ASSUME Init
  PROVE  IInv
<1>1. /\ made \in [Words -> {0, 1}] /\ accepted = << >> /\ list = {} /\ rows = {} /\ todo = << >>
      /\ today = << >> /\ lost = {} /\ excused = {} /\ buffer = << >> /\ toSync = << >>
      /\ cloud \in [Words -> {NoText, Theirs}]
  BY DEF Init
<1>2. made \in [Words -> Nat] /\ cloud \in [Words -> Int]
  BY <1>1 DEF NoText, Theirs
<1>3. /\ db.note = [w \in Words |-> IF made[w] = 1 THEN [text |-> 1, status |-> 0] ELSE NoNote]
      /\ db.processed = {} /\ db.latest = [w \in Words |-> 0] /\ db.second = {}
      /\ db = [note |-> db.note, processed |-> db.processed, latest |-> db.latest,
               second |-> db.second]
  BY DEF Init
<1>4. db \in Databases
  <2>1. db.note \in [Words -> NoteRecords]
    BY <1>3 DEF NoteRecords, NoNote, NoText
  <2>2. db.latest \in [Words -> Counts \cup {0}] /\ db.processed \in SUBSET Words
        /\ db.second \in SUBSET SnapRows
    BY <1>3
  <2> QED BY <1>3, <2>1, <2>2 DEF Databases
<1>5. Types
  BY <1>1, <1>2, <1>4 DEF Types, QueueTypes, RunTypes
<1>6. \A w \in Words : /\ made[w] = 0 \/ made[w] = 1
                       /\ made[w] = 1 => db.note[w] = [text |-> 1, status |-> 0]
                       /\ made[w] = 0 => db.note[w] = NoNote
  BY <1>1, <1>3
<1>7. \A w \in Words : /\ db.note[w].text = made[w] /\ db.note[w].status = 0
                       /\ made[w] = 1 => db.note[w] # NoNote
                       /\ made[w] = 0 => db.note[w] = NoNote
  BY <1>6 DEF NoNote, NoText
<1>8. TextsInOrder(db, accepted)
  BY <1>1, <1>7 DEF TextsInOrder, NoteAt
<1>9. MarksFollow(db, accepted)
  BY <1>1, <1>3 DEF MarksFollow
<1>10. SuccessFollows(db, accepted) /\ MadeOnce(db, accepted)
  BY <1>1, <1>6, <1>7 DEF SuccessFollows, MadeOnce, Noted
<1>11. Good(db, accepted)
  BY <1>1, <1>4, <1>8, <1>9, <1>10 DEF Good
<1>12. TodoKept /\ LostMade
  BY <1>1 DEF TodoKept, LostMade
<1>13. SyncKept(db, accepted)
  <2>1. ASSUME NEW w \in Words
        PROVE  cloud[w] = Theirs \/ (cloud[w] \in 0..made[w] /\ KeptIn(db, accepted, w, cloud[w]))
    BY <1>1, <1>2, <1>7 DEF KeptIn, NoText, Theirs
  <2> QED BY <1>1, <2>1 DEF SyncKept
<1> QED BY <1>5, <1>11, <1>12, <1>13 DEF IInv

\* Every step of the run, of the writer and of the sync worker keeps the invariant.
LEMMA NextKeeps ==
  ASSUME IInv, [Next]_vars
  PROVE  IInv'
<1>1. CASE Starts \/ TodayReads
  BY <1>1, QuietKeeps
<1>2. CASE \E w \in Words : Ai(w)
  BY <1>2, QuietKeeps
<1>3. CASE TodayQueues
  BY <1>3, SnapsKeep
<1>4. CASE Run
  <2>1. CASE QueuesSnaps
    BY <2>1, SnapsKeep
  <2>2. CASE ReadsStates \/ ReadsBlind
    BY <2>2, StatesKeep
  <2>3. CASE ReadsRebuilt
    BY <2>3, RebuiltKeeps
  <2>4. CASE StatesFail \/ ConsumesNothing \/ ConsumesNameless \/ Raises
    BY <2>4, QuietKeeps
  <2>5. CASE ConsumesNote
    BY <2>5, NoteKeeps
  <2>6. CASE Finishes
    BY <2>6, FlushesKeep
  <2> QED BY <1>4, <2>1, <2>2, <2>3, <2>4, <2>5, <2>6 DEF Run
<1>5. CASE Writer
  BY <1>5, WriterKeeps
<1>6. CASE Sync
  BY <1>6, UploadKeeps, StatusKeeps, FlushesKeep DEF Sync
<1>7. CASE Crashes
  BY <1>7, CrashKeeps
<1>8. CASE UNCHANGED vars
  <2>1. /\ UNCHANGED <<db, accepted, list, rows, todo, today, syncVars, empty, made, lost, excused>>
    BY <1>8 DEF vars, histVars
  <2>2. TodoKept'
    BY <2>1, TodoStays DEF IInv
  <2> QED BY <2>1, <2>2, RunKnown, AsideKeeps
<1> QED BY <1>1, <1>2, <1>3, <1>4, <1>5, <1>6, <1>7, <1>8 DEF Next

\* The notes, marks and statuses follow one another in every state: saved or waiting
\* in order, marked after they are saved, successful after they are uploaded.
THEOREM StudyKept == Spec => []IInv
<1>1. Init => IInv
  BY InitKeeps
<1>2. IInv /\ [Next]_vars => IInv'
  BY NextKeeps
<1> QED BY <1>1, <1>2, PTL DEF Spec

\* What the property Kept says, of the database and what waits for it.
LEMMA KeptSays ==
  ASSUME Types, NEW w \in Words, NEW x \in Int, KeptIn(db, accepted, w, x)
  PROVE  Kept(w, x)
<1>1. accepted \in Seq(Statements)
  BY DEF Types, QueueTypes
<1>2. CASE db.note[w].text >= x
  BY <1>2 DEF Kept
<1>3. CASE \E i \in DOMAIN accepted : NoteAt(accepted, i, w) /\ accepted[i].text >= x
  <2>1. PICK i \in DOMAIN accepted : NoteAt(accepted, i, w) /\ accepted[i].text >= x
    BY <1>3
  <2>2. PICK n : n = <<accepted[i].word, accepted[i].text>>
    OBVIOUS
  <2>3. n \in NotesOf(accepted)
    BY <1>1, <2>1, <2>2, NotesAt DEF NoteAt
  <2>4. n[1] = w /\ n[2] >= x
    BY <2>1, <2>2 DEF NoteAt
  <2> QED BY <2>3, <2>4 DEF Kept
<1>4. CASE \E n \in lost : n[1] = w /\ n[2] >= x
  BY <1>4 DEF Kept
<1> QED BY <1>2, <1>3, <1>4 DEF KeptIn

\* A text that is kept was made.
LEMMA KeptMade ==
  ASSUME IInv, NEW w \in Words, KeptIn(db, accepted, w, 1)
  PROVE  made[w] >= 1
<1>1. made \in [Words -> Nat] /\ db \in Databases /\ accepted \in Seq(Statements)
      /\ lost \in SUBSET (Words \X Nat)
  BY DEF IInv, Types, QueueTypes, RunTypes
<1>2. TextsInOrder(db, accepted) /\ LostMade
  BY DEF IInv, Good
<1>3. db.note[w].text \in Nat /\ made[w] \in Nat
  BY <1>1 DEF Databases, NoteRecords
<1>4. CASE db.note[w].text >= 1
  BY <1>2, <1>3, <1>4 DEF TextsInOrder
<1>5. CASE \E i \in DOMAIN accepted : NoteAt(accepted, i, w) /\ accepted[i].text >= 1
  <2>1. PICK i \in DOMAIN accepted : NoteAt(accepted, i, w) /\ accepted[i].text >= 1
    BY <1>5
  <2>2. accepted[i] \in Statements /\ accepted[i].op = "note"
    BY <1>1, <2>1 DEF NoteAt
  <2>3. accepted[i].text \in Nat
    BY <2>2 DEF Statements, NoteStatements, StatusStatements
  <2> QED BY <1>2, <1>3, <2>1, <2>3 DEF TextsInOrder
<1>6. CASE \E n \in lost : n[1] = w /\ n[2] >= 1
  BY <1>1, <1>2, <1>3, <1>6 DEF LostMade
<1> QED BY <1>4, <1>5, <1>6 DEF KeptIn

\* Whatever is handed to the sync worker, buffered, uploaded or marked has its note
\* behind it, however writer, worker and run interleave, and whatever is dropped.
THEOREM SavedFirst == Spec => []SavedBeforeSync
<1>1. IInv => SavedBeforeSync
  <2> SUFFICES ASSUME IInv PROVE SavedBeforeSync
    OBVIOUS
  <2>0. Types /\ MarksFollow(db, accepted) /\ SyncKept(db, accepted)
    BY DEF IInv, Good
  <2>1. ASSUME NEW i \in DOMAIN toSync PROVE Kept(toSync[i].word, toSync[i].text)
    <3>1. PICK it : it = toSync[i]
      OBVIOUS
    <3>2. it \in Items /\ KeptIn(db, accepted, it.word, it.text)
      BY <3>1, ItemsKept DEF ItemKept
    <3> QED BY <2>0, <3>1, <3>2, KeptSays DEF Items
  <2>2. ASSUME NEW i \in DOMAIN buffer PROVE Kept(buffer[i].word, buffer[i].text)
    <3>1. PICK it : it = buffer[i]
      OBVIOUS
    <3>2. it \in Items /\ KeptIn(db, accepted, it.word, it.text)
      BY <3>1, ItemsKept DEF ItemKept
    <3> QED BY <2>0, <3>1, <3>2, KeptSays DEF Items
  <2>3. ASSUME NEW w \in Words, cloud[w] # Theirs PROVE Kept(w, cloud[w])
    BY <2>0, <2>3, KeptSays, RunKnown DEF SyncKept
  <2>4. ASSUME NEW w \in db.processed PROVE \E x \in 1..made[w] : Kept(w, x)
    <3>1. w \in Words /\ made[w] \in Nat
      BY RunKnown DEF Databases
    <3>2. KeptIn(db, accepted, w, 1)
      BY <2>0 DEF MarksFollow
    <3>3. made[w] >= 1 /\ Kept(w, 1)
      BY <2>0, <3>1, <3>2, KeptMade, KeptSays
    <3> QED BY <3>1, <3>3
  <2> QED BY <2>1, <2>2, <2>3, <2>4 DEF SavedBeforeSync
<1> QED BY <1>1, StudyKept, PTL

\* A note with the status of success is what the cloud holds; of a note without meanings
\* the cloud holds some interpretation.
THEOREM SyncedAgrees == Spec => []SyncedIsCloud
<1>1. IInv => SyncedIsCloud
  <2> SUFFICES ASSUME IInv, NEW w \in Words \ excused,
                      db.note[w] # NoNote, db.note[w].status = 1
               PROVE  \/ cloud[w] = db.note[w].text
                      \/ <<w, db.note[w].text>> \in empty /\ cloud[w] # NoText
    BY DEF SyncedIsCloud
  <2>1. /\ TextsInOrder(db, accepted) /\ SuccessFollows(db, accepted) /\ MadeOnce(db, accepted)
        /\ SyncKept(db, accepted)
    BY DEF IInv, Good
  <2>2. /\ db.note[w] \in NoteRecords /\ db.note[w].text \in Nat
        /\ made[w] \in Nat /\ cloud[w] \in Int
    BY RunKnown DEF Databases, NoteRecords
  <2>3. made[w] <= 1 /\ Answered(w)
    BY <2>1 DEF MadeOnce, SuccessFollows
  <2>4. db.note[w].text = 1
    BY <2>1, <2>2, <2>3 DEF TextsInOrder
  <2>5. CASE cloud[w] >= 1
    <3>1. cloud[w] = 1
      BY <2>1, <2>2, <2>3, <2>5 DEF SyncKept, Theirs
    <3> QED BY <2>4, <3>1
  <2>6. CASE cloud[w] # NoText /\ \E x \in 1..made[w] : <<w, x>> \in empty
    BY <2>2, <2>3, <2>4, <2>6
  <2> QED BY <2>3, <2>5, <2>6 DEF Answered
<1> QED BY <1>1, StudyKept, PTL

\* The AI is asked for a word once, unless the run could not know that it was done.
THEOREM AskedOnce == Spec => []ReworkExplained
<1>1. IInv => ReworkExplained
  BY DEF IInv, Good, MadeOnce, ReworkExplained
<1> QED BY <1>1, StudyKept, PTL

\* What Python derives, what the SQL selects and what a restart would queue agree, in
\* every database of whatever notes and marks, but for the words that lost a note.
THEOREM ViewsCorrect == Spec => []ViewsAgree
<1>1. IInv => ViewsAgree
  <2> SUFFICES ASSUME IInv PROVE ViewsAgree
    OBVIOUS
  <2>1. \A w \in Words : /\ db.note[w] \in NoteRecords
                         /\ db.note[w].status \in {0, 1, 2, 5}
    BY RunKnown DEF Databases, NoteRecords
  <2>2. \A w \in db.processed \ excused : db.note[w] # NoNote
    BY DEF IInv, Good, MarksFollow
  <2>3. ASSUME NEW w \in Words \ excused, NEW st \in States \ {"not_started"}
        PROVE  DeriveState(db, w) = st <=> w \in ListByState(db, st)
    <3>1. w \in db.processed => db.note[w] # NoNote
      BY <2>2
    <3>2. CASE db.note[w] = NoNote
      BY <3>1, <3>2 DEF DeriveState, ListByState, NoteRows, States
    <3>3. CASE db.note[w] # NoNote
      <4>1. w \in ListByState(db, st) <=> Where(db, w, st)
        BY <3>3 DEF ListByState, NoteRows
      <4>2. db.note[w].status \in {0, 1, 2, 5}
        BY <2>1
      <4>3. /\ Where(db, w, "conflict") <=> db.note[w].status = 2
            /\ Where(db, w, "failed") <=> db.note[w].status = 5
            /\ Where(db, w, "synced") <=> db.note[w].status = 1
        BY DEF Where
      <4>4. Where(db, w, "local_ready") <=> db.note[w].status = 0
        BY <4>2 DEF Where
      <4>5. /\ DeriveState(db, w) = "conflict" <=> db.note[w].status = 2
            /\ DeriveState(db, w) = "failed" <=> db.note[w].status = 5
            /\ DeriveState(db, w) = "synced" <=> db.note[w].status = 1
            /\ DeriveState(db, w) = "local_ready" <=> db.note[w].status = 0
        BY <3>3, <4>2 DEF DeriveState
      <4>6. st \in {"conflict", "failed", "synced", "local_ready"}
        BY DEF States
      <4> QED BY <4>1, <4>3, <4>4, <4>5, <4>6
    <3> QED BY <3>2, <3>3
  <2>4. FilterUnprocessed(db, Words) = {w \in Words : DeriveState(db, w) = "not_started"}
    BY RunKnown, NotStarted DEF FilterUnprocessed, NoteRows
  <2>5. ASSUME NEW w \in NoteRows(db)
        PROVE  (SkippedRow(db, w) = "sync_pending") = (w \in Unsynced(db))
    <3>1. w \in Words /\ db.note[w] # NoNote /\ db.note[w].status \in {0, 1, 2, 5}
      BY <2>1 DEF NoteRows
    <3>2. w \in Unsynced(db) <=> db.note[w].status = 0
      BY <3>1 DEF Unsynced
    <3>3. SkippedRow(db, w) = "sync_pending" <=> db.note[w].status = 0
      BY <3>1 DEF SkippedRow
    <3> QED BY <3>2, <3>3
  <2>6. ListByState(db, "local_ready") = Unsynced(db) /\ NotesPage(db, 0) = Unsynced(db)
    BY <2>1 DEF ListByState, NotesPage, NoteRows, Where, Unsynced
  <2>7. /\ CountByState(db, "local_ready") = Cardinality(Unsynced(db))
        /\ CountNotes(db, 0) = Cardinality(Unsynced(db))
    BY <2>6, Zenon DEF CountByState, CountNotes
  <2>8. \A n \in {SyncStatus(db).depth, Summary(db).depth, OpsMonitor(db).depth} :
          n = Cardinality(Unsynced(db))
    BY <2>7 DEF SyncStatus, Summary, OpsMonitor
  <2> QED BY <2>3, <2>4, <2>5, <2>8 DEF ViewsAgree
<1> QED BY <1>1, StudyKept, PTL

=============================================================================
