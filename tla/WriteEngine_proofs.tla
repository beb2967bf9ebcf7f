------------------------- MODULE WriteEngine_proofs -------------------------
(***************************************************************************)
(* Theorems of WriteEngine for every number of writes, clients, queue      *)
(* slots, retries, faults, restarts and recoveries.                        *)
(***************************************************************************)
EXTENDS WriteEngine, SequenceTheorems, TLAPS

-----------------------------------------------------------------------------
(* What sequences hold *)

\* The empty sequence holds nothing.
LEMMA RangeEmpty == Range(<<>>) = {}
BY DEF Range

\* A sequence over S holds elements of S.
LEMMA RangeSeq == ASSUME NEW S, NEW s \in Seq(S) PROVE Range(s) \subseteq S
BY DEF Range

\* Concatenation holds what its parts hold.
LEMMA RangeConcat ==
  ASSUME NEW S, NEW s \in Seq(S), NEW t \in Seq(S)
  PROVE  Range(s \o t) = Range(s) \cup Range(t)
<1>1. Range(s \o t) \subseteq Range(s) \cup Range(t)
  BY DEF Range
<1>2. Range(s) \subseteq Range(s \o t)
  BY DEF Range
<1>3. Range(t) \subseteq Range(s \o t)
  <2> SUFFICES ASSUME NEW i \in 1 .. Len(t) PROVE t[i] \in Range(s \o t)
    BY DEF Range
  <2>1. Len(s) + i \in 1 .. Len(s \o t) /\ (s \o t)[Len(s) + i] = t[i]
    OBVIOUS
  <2> QED BY <2>1 DEF Range
<1> QED BY <1>1, <1>2, <1>3

\* Appending adds the one element.
LEMMA RangeAppend ==
  ASSUME NEW S, NEW s \in Seq(S), NEW x \in S
  PROVE  Range(Append(s, x)) = Range(s) \cup {x}
<1>1. Range(Append(s, x)) \subseteq Range(s) \cup {x}
  BY DEF Range
<1>2. Range(s) \subseteq Range(Append(s, x))
  BY DEF Range
<1>3. x \in Range(Append(s, x))
  <2>1. Len(s) + 1 \in DOMAIN Append(s, x) /\ Append(s, x)[Len(s) + 1] = x
    OBVIOUS
  <2> QED BY <2>1 DEF Range
<1> QED BY <1>1, <1>2, <1>3

\* Cutting a sequence in two loses no element.
LEMMA RangeCut ==
  ASSUME NEW S, NEW s \in Seq(S), NEW n \in 0 .. Len(s)
  PROVE  /\ SubSeq(s, 1, n) \in Seq(S) /\ Len(SubSeq(s, 1, n)) = n
         /\ Range(SubSeq(s, n + 1, Len(s))) \subseteq S
         /\ Range(s) \subseteq Range(SubSeq(s, 1, n))
                               \cup Range(SubSeq(s, n + 1, Len(s)))
<1> DEFINE front == SubSeq(s, 1, n)
           rest  == SubSeq(s, n + 1, Len(s))
<1>1. /\ front \in Seq(S) /\ Len(front) = n
      /\ \A i \in 1 .. n : front[i] = s[i]
  OBVIOUS
<1>2. /\ rest \in Seq(S) /\ Len(rest) = Len(s) - n
      /\ \A i \in 1 .. Len(s) - n : rest[i] = s[n + i]
  OBVIOUS
<1>3. ASSUME NEW i \in 1 .. Len(s) PROVE s[i] \in Range(front) \cup Range(rest)
  <2>1. CASE i \in 1 .. n
    BY <1>1, <2>1 DEF Range
  <2>2. CASE i \notin 1 .. n
    <3>1. i - n \in 1 .. Len(s) - n /\ rest[i - n] = s[i]
      BY <1>2, <2>2
    <3>2. DOMAIN rest = 1 .. Len(s) - n
      BY <1>2
    <3> HIDE DEF rest
    <3> QED BY <3>1, <3>2 DEF Range
  <2> QED BY <2>1, <2>2
<1>4. Range(rest) \subseteq S
  BY <1>2, RangeSeq
<1>5. Range(s) \subseteq Range(front) \cup Range(rest)
  BY <1>3 DEF Range
<1> QED BY <1>1, <1>4, <1>5

-----------------------------------------------------------------------------
(* Type correctness *)

\* Outside its transaction the writer has executed nothing, and a client that
\* is about to enqueue holds a queue item, one inside a direct save a save.
StepsMatch == /\ wpc # "exec" => done = 0 /\ tx = <<>>
              /\ \A c \in Clients : cpc[c] = "put" => item[c] \in Writes
              /\ \A c \in Clients :
                   cpc[c] \in {"save", "inserted", "updated"} => item[c] \in Saves

TypeInv == TypeOK /\ StepsMatch

\* A process that has not started is in a well-typed state (Init).
LEMMA TypeInit == Init => TypeInv
<1> SUFFICES ASSUME Init PROVE TypeInv
  OBVIOUS
<1> USE WritesAssumption, BoundsAssumption DEF Init
<1>1. /\ queue \in Seq(Writes) /\ pending \in Seq(Writes)
      /\ db \in Seq(Items) /\ cloud \in 0 .. Len(db)
      /\ done \in 0 .. Len(pending) /\ tx \in Seq(Writes)
      /\ accepted \in Seq(Writes) /\ settled \in Seq(Writes)
  OBVIOUS
<1>2. /\ stopWriter \in BOOLEAN /\ stopSync \in BOOLEAN
      /\ needsSync \in BOOLEAN /\ recent \in BOOLEAN
      /\ detached \in BOOLEAN /\ aged \in BOOLEAN /\ joined \in BOOLEAN
  OBVIOUS
<1>3. left \in [Bounds -> Nat]
  BY DEF Bounds
<1>4. /\ handle \in [Actors -> {"none", "live", "closed"}]
      /\ cpc \in [Clients -> {"idle", "put", "save", "inserted", "updated"}]
      /\ item \in [Clients -> Items \cup {NoItem}]
  OBVIOUS
<1>5. StepsMatch
  BY DEF StepsMatch
<1> QED BY <1>1, <1>2, <1>3, <1>4, <1>5 DEF TypeInv, TypeOK, FlagsOK, StateOK

\* A new connection, also to a rebuilt file, leaves a well-typed database
\* whose log is no shorter than what the cloud holds (_get_main_write_conn_singleton).
LEMMA ConnectedType ==
  ASSUME StateOK, Connected
  PROVE  /\ conn' \in {"none", "open"} /\ db' \in Seq(Items)
         /\ lost' \subseteq Items
         /\ cloud \in 0 .. Len(db')
<1>1. cloud \in 0 .. Len(db) /\ db \in Seq(Items) /\ lost \subseteq Items
  BY DEF StateOK
<1>2. /\ SubSeq(db, 1, cloud) \in Seq(Items) /\ Len(SubSeq(db, 1, cloud)) = cloud
      /\ Range(SubSeq(db, cloud + 1, Len(db))) \subseteq Items
  BY <1>1, RangeCut
<1>3. conn' \in {"none", "open"}
  BY DEF Connected
<1>5. db' \in Seq(Items) /\ cloud \in 0 .. Len(db')
  BY <1>1, <1>2 DEF Connected
<1>6. lost' \subseteq Items
  BY <1>1, <1>2 DEF Connected
<1> QED BY <1>3, <1>5, <1>6

\* So does taking the singleton, whether it exists or not.
LEMMA GetConnType ==
  ASSUME StateOK, NEW a \in Actors, GetConn(a)
  PROVE  /\ conn' \in {"none", "open"} /\ db' \in Seq(Items)
         /\ handle' \in [Actors -> {"none", "live", "closed"}]
         /\ lost' \subseteq Items
         /\ left' = left
         /\ cloud \in 0 .. Len(db')
BY ConnectedType DEF StateOK, GetConn

\* Spending from a bound leaves the bounds natural numbers.
LEMMA SpendType ==
  ASSUME StateOK, NEW k \in Bounds, Spend(k)
  PROVE  left' \in [Bounds -> Nat]
BY DEF StateOK, Spend

\* A transaction that fails leaves a well-typed database, whether or not its
\* commit took effect.
LEMMA RaisesType ==
  ASSUME StateOK, NEW e, Raises(e)
  PROVE  /\ left' \in [Bounds -> Nat]
         /\ db' \in Seq(Items) /\ cloud \in 0 .. Len(db')
         /\ doubtful' \subseteq Writes
<1>1. /\ db \in Seq(Items) /\ tx \in Seq(Writes) /\ tx \in Seq(Items)
      /\ cloud \in 0 .. Len(db) /\ doubtful \subseteq Writes
      /\ left \in [Bounds -> Nat]
  BY DEF StateOK, Items
<1>2. "faults" \in Bounds
  BY DEF Bounds
<1>3. left' \in [Bounds -> Nat]
  BY <1>1, <1>2, SpendType DEF Raises
<1>4. CASE UNCHANGED <<db, doubtful>>
  BY <1>1, <1>3, <1>4
<1>5. CASE CommitsUnheard
  <2>1. Range(tx) \subseteq Writes
    BY <1>1, RangeSeq
  <2> QED BY <1>1, <1>3, <1>5, <2>1 DEF CommitsUnheard
<1> QED BY <1>4, <1>5 DEF Raises

\* The end of the process leaves a well-typed state behind.
LEMMA ProcessGoneType ==
  ASSUME TypeInv, ProcessGone, UNCHANGED <<atStop, left>>, ctl' \in {"down", "exited"}
  PROVE  StateOK' /\ StepsMatch'
<1>1. /\ pending \o queue \in Seq(Writes) /\ settled \o pending \o queue \in Seq(Writes)
      /\ lost \subseteq Items
  BY DEF TypeInv, TypeOK, StateOK
<1>2. Range(pending \o queue) \subseteq Writes
  BY <1>1, RangeSeq
<1>3. settled' \in Seq(Writes) /\ lost' \subseteq Items
  BY <1>1, <1>2 DEF ProcessGone, Items
<1>4. /\ queue' \in Seq(Writes) /\ pending' \in Seq(Writes) /\ tx' \in Seq(Writes)
      /\ done' \in 0 .. Len(pending') /\ tries' \in Nat
      /\ conn' = "none" /\ wpc' = "off" /\ spc' = "off"
      /\ done' = 0 /\ tx' = <<>>
  BY DEF ProcessGone
<1>5. /\ handle' \in [Actors -> {"none", "live", "closed"}]
      /\ cpc' \in [Clients -> {"idle", "put", "save", "inserted", "updated"}]
      /\ item' \in [Clients -> Items \cup {NoItem}]
      /\ \A c \in Clients : cpc'[c] = "idle"
      /\ part' \subseteq Statements
  BY DEF ProcessGone
<1>6. UNCHANGED <<db, cloud, fresh, accepted, dropped, doubtful, unflagged, atStop, left>>
  BY DEF ProcessGone
<1>7. StateOK'
  BY <1>3, <1>4, <1>5, <1>6 DEF TypeInv, TypeOK, StateOK
<1> QED BY <1>4, <1>5, <1>7 DEF StepsMatch

\* The writer's error handler leaves a well-typed state behind.
LEMMA HandleErrorType ==
  ASSUME TypeInv, wpc # "exec", NEW e, HandleError(e), left' \in [Bounds -> Nat],
         UNCHANGED <<queue, db, cloud, spc, cpc, item, fresh, ctl, atStop, accepted,
                     lost, doubtful, unflagged>>,
         part' \subseteq Statements
  PROVE  StateOK' /\ StepsMatch'
<1>1. /\ pending \in Seq(Writes) /\ settled \o pending \in Seq(Writes)
      /\ dropped \subseteq Writes /\ Range(pending) \subseteq Writes
  BY RangeSeq DEF TypeInv, TypeOK, StateOK
<1>2. /\ conn' \in {"none", "open"}
      /\ handle' \in [Actors -> {"none", "live", "closed"}]
      /\ wpc' = "top" /\ tries' = 0
  BY DEF TypeInv, TypeOK, StateOK, HandleError, ClosedHandles, Release
<1>6. done' = 0 /\ tx' = <<>>
  BY DEF TypeInv, StepsMatch, HandleError
<1>3. /\ pending' \in Seq(Writes) /\ settled' \in Seq(Writes) /\ dropped' \subseteq Writes
  <2>1. CASE UNCHANGED <<pending, settled, dropped>>
    BY <2>1 DEF TypeInv, TypeOK, StateOK
  <2>2. CASE /\ pending' = <<>> /\ settled' = settled \o pending
             /\ dropped' = dropped \cup Range(pending)
    BY <1>1, <2>2
  <2> QED BY <2>1, <2>2 DEF HandleError
<1>4. done' \in 0 .. Len(pending') /\ tx' \in Seq(Writes) /\ tries' \in Nat
  BY <1>2, <1>3, <1>6
<1>5. StateOK'
  BY <1>2, <1>3, <1>4 DEF TypeInv, TypeOK, StateOK
<1> QED BY <1>2, <1>5, <1>6 DEF TypeInv, StepsMatch

\* The flags are assigned flag values and nothing else.
LEMMA FlagsStep ==
  ASSUME FlagsOK, Next
  PROVE  FlagsOK'
<1> USE DEF FlagsOK
<1>1. CASE \E c \in Clients, w \in Writes : Enqueue(c, w)
  BY <1>1 DEF Enqueue, StartWriter, dbVars, txVars, ctlVars, history
<1>2. CASE \E c \in Clients : Put(c)
  BY <1>2 DEF Put, dbVars, writerVars, ctlVars, txVars
<1>3. CASE \E c \in Clients : PutTimesOut(c)
  BY <1>3 DEF PutTimesOut, sharedVars, dbVars, writerVars, ctlVars, history,
       txVars
<1>4. CASE \E c \in Clients, s \in Saves : SaveConnect(c, s)
  BY <1>4 DEF SaveConnect, GetConn, sharedVars, writerVars, ctlVars, Connected,
       txVars
<1>5. CASE \E c \in Clients : SaveCommits(c)
  BY <1>5 DEF SaveCommits, sharedVars, writerVars, ctlVars, history, txVars
<1>6. CASE \E c \in Clients : SaveFails(c)
  BY <1>6 DEF SaveFails, sharedVars, writerVars, ctlVars, history, txVars
<1>7. CASE WriterLeaves
  BY <1>7 DEF WriterLeaves, sharedVars, dbVars, txVars, clientVars, ctlVars,
       history
<1>8. CASE WriterEnds
  BY <1>8 DEF WriterEnds, sharedVars, dbVars, txVars, clientVars, ctlVars,
       history
<1>9. CASE WriterTakes
  BY <1>9 DEF WriterTakes, dbVars, txVars, clientVars, ctlVars, history
<1>10. CASE WriterFlushes
  BY <1>10 DEF WriterFlushes, sharedVars, dbVars, txVars, clientVars, ctlVars,
       history
<1>11. CASE WriterConnects
  BY <1>11 DEF WriterConnects, GetConn, sharedVars, txVars, clientVars, ctlVars,
       Connected
<1>12. CASE WriterBegins
  BY <1>12 DEF WriterBegins, sharedVars, dbVars, txVars, clientVars, ctlVars,
       history
<1>13. CASE WriterExecutes
  BY <1>13 DEF WriterExecutes, sharedVars, dbVars, clientVars, ctlVars, history
<1>14. CASE WriterCommits
  BY <1>14 DEF WriterCommits, sharedVars, clientVars, ctlVars, history
<1>15. CASE WriterMarks
  BY <1>15 DEF WriterMarks, txVars, clientVars, ctlVars
<1>16. CASE \E e \in Errors : WriterConnectFails(e)
  BY <1>16 DEF WriterConnectFails, HandleError, sharedVars, clientVars, ctlVars
<1>17. CASE \E e \in Errors : WriterRetries(e)
  BY <1>17 DEF WriterRetries, sharedVars, dbVars, clientVars, ctlVars, history
<1>18. CASE \E e \in Errors : WriterFails(e)
  BY <1>18 DEF WriterFails, HandleError, sharedVars, clientVars, ctlVars
<1>19. CASE SyncWakes
  BY <1>19 DEF SyncWakes, sharedVars, dbVars, writerVars, clientVars, ctlVars,
       history, txVars
<1>20. CASE SyncEnds
  BY <1>20 DEF SyncEnds, sharedVars, dbVars, writerVars, clientVars, ctlVars,
       history, txVars
<1>21. CASE SyncSkips
  BY <1>21 DEF SyncSkips, sharedVars, dbVars, writerVars, clientVars, ctlVars,
       history, txVars
<1>22. CASE SyncConnects
  BY <1>22 DEF SyncConnects, GetConn, sharedVars, writerVars, clientVars,
       ctlVars, Connected, txVars
<1>23. CASE SyncPushes
  BY <1>23 DEF SyncPushes, sharedVars, writerVars, clientVars, ctlVars, history,
       txVars
<1>24. CASE SyncFails
  BY <1>24 DEF SyncFails, sharedVars, writerVars, clientVars, ctlVars, history,
       txVars
<1>25. CASE SyncResets
  BY <1>25 DEF SyncResets, writerVars, clientVars, ctlVars, history, txVars
<1>26. CASE WarmupOpens
  BY <1>26 DEF WarmupOpens, GetConn, StartWriter, StartSync, txVars, clientVars,
       Connected
<1>27. CASE CleanupStopsSync
  BY <1>27 DEF CleanupStopsSync, dbVars, writerVars, clientVars, history, txVars
<1>28. CASE CleanupCloses
  BY <1>28 DEF CleanupCloses, sharedVars, writerVars, clientVars, history,
       txVars
<1>29. CASE Exit
  BY <1>29 DEF Exit, ProcessGone
<1>30. CASE RecoveryStopsWriter
  BY <1>30 DEF RecoveryStopsWriter, TellWriterToStop, dbVars, writerVars,
       clientVars, history, txVars
<1>31. CASE RecoveryCloses
  BY <1>31 DEF RecoveryCloses, sharedVars, writerVars, clientVars, history,
       txVars
<1>32. CASE RecoveryMovesFile
  BY <1>32 DEF RecoveryMovesFile, sharedVars, writerVars, clientVars, history,
       txVars
<1>33. CASE RecoveryOpens
  BY <1>33 DEF RecoveryOpens, GetConn, sharedVars, writerVars, clientVars,
       Connected, txVars
<1>34. CASE RecoveryFails
  BY <1>34 DEF RecoveryFails, sharedVars, dbVars, writerVars, clientVars,
       history, txVars
<1>35. CASE Boot
  BY <1>35 DEF Boot, StartWriter, StartSync, dbVars, txVars, clientVars, history
<1>36. CASE WarmupCloses
  BY <1>36 DEF WarmupCloses, sharedVars, writerVars, clientVars, history, txVars
<1>37. CASE CleanupStarts
  BY <1>37 DEF CleanupStarts, TellWriterToStop, dbVars, writerVars, clientVars,
       history, txVars
<1>38. CASE RecoveryStarts
  BY <1>38 DEF RecoveryStarts, dbVars, writerVars, clientVars, history, txVars
<1>39. CASE Crash
  BY <1>39 DEF Crash, ProcessGone
<1>40. CASE HealthCheckFails
  BY <1>40 DEF HealthCheckFails, sharedVars, writerVars, clientVars, ctlVars,
       history, txVars
<1>41. CASE Tick
  BY <1>41 DEF Tick, sharedVars, dbVars, txVars, clientVars, ctlVars, history
<1>42. CASE Quiet
  BY <1>42 DEF Quiet, dbVars, writerVars, clientVars, ctlVars, history, txVars
<1>43. CASE \E c \in Clients : SaveInserts(c)
  BY <1>43 DEF SaveInserts, sharedVars, dbVars, writerVars, ctlVars, history, txVars
<1>44. CASE \E c \in Clients : SaveUpdates(c)
  BY <1>44 DEF SaveUpdates, sharedVars, dbVars, writerVars, ctlVars, history, txVars
<1>45. CASE \E e \in Errors : WriterRaises(e)
  BY <1>45 DEF WriterRaises, sharedVars, dbVars, clientVars, ctlVars, history
<1>46. CASE WriterTriesAgain
  BY <1>46 DEF WriterTriesAgain, sharedVars, dbVars, txVars, ctlVars, history
<1> QED BY <1>1, <1>2, <1>3, <1>4, <1>5, <1>6, <1>7, <1>8, <1>9, <1>10, <1>11,
       <1>12, <1>13, <1>14, <1>15, <1>16, <1>17, <1>18, <1>19, <1>20, <1>21,
       <1>22, <1>23, <1>24, <1>25, <1>26, <1>27, <1>28, <1>29, <1>30, <1>31,
       <1>32, <1>33, <1>34, <1>35, <1>36, <1>37, <1>38, <1>39, <1>40, <1>41,
       <1>42, <1>43, <1>44, <1>45, <1>46
    DEF Next, ClientStep, ClientContinues, WriterStep, SyncStep, CtlStep

\* Every step of every thread keeps the typed part of the state typed.
LEMMA StateStep ==
  ASSUME TypeInv, Next
  PROVE  StateOK' /\ StepsMatch'
<1> USE WritesAssumption, LimitsAssumption
    DEF TypeInv, TypeOK, StateOK, StepsMatch, Items, Actors, Bounds
<1>1. CASE \E c \in Clients, w \in Writes : Enqueue(c, w)
  BY <1>1 DEF Enqueue, Running, StartWriter, dbVars, txVars, ctlVars, history
<1>2. CASE \E c \in Clients : Put(c)
  BY <1>2 DEF Put, dbVars, writerVars, ctlVars, txVars
<1>3. CASE \E c \in Clients : PutTimesOut(c)
  BY <1>3 DEF PutTimesOut, sharedVars, dbVars, writerVars, ctlVars, history,
       txVars
<1>4. CASE \E c \in Clients, s \in Saves : SaveConnect(c, s)
  BY <1>4, GetConnType DEF SaveConnect, Running, sharedVars, writerVars,
       ctlVars, txVars
<1>5. CASE \E c \in Clients : SaveCommits(c)
  BY <1>5 DEF SaveCommits, OpLockHeld, Release, sharedVars, writerVars, ctlVars,
       history, txVars
<1>6. CASE \E c \in Clients : SaveFails(c)
  <2>1. left' \in [Bounds -> Nat]
    BY <1>6, SpendType DEF SaveFails
  <2>2. /\ handle' \in [Actors -> {"none", "live", "closed"}]
        /\ cpc' \in [Clients -> {"idle", "put", "save", "inserted", "updated"}]
        /\ item' \in [Clients -> Items \cup {NoItem}] /\ part' \subseteq Statements
    BY <1>6 DEF SaveFails, Release
  <2>3. StepsMatch'
    BY <1>6 DEF SaveFails, writerVars, txVars
  <2>4. db' \in Seq(Items) /\ cloud' \in 0 .. Len(db')
    <3>1. PICK c \in Clients : SaveFails(c)
      BY <1>6
    <3>2. db' = db \/ (cpc[c] = "updated" /\ db' = Append(db, item[c]))
      BY <3>1 DEF SaveFails
    <3>3. cpc[c] = "updated" => item[c] \in Items
      OBVIOUS
    <3>4. UNCHANGED cloud
      BY <3>1 DEF SaveFails
    <3>5. CASE db' = db
      BY <3>4, <3>5
    <3>6. CASE cpc[c] = "updated" /\ db' = Append(db, item[c])
      BY <3>3, <3>4, <3>6
    <3> QED BY <3>2, <3>5, <3>6
  <2> QED BY <1>6, <2>1, <2>2, <2>3, <2>4 DEF SaveFails, sharedVars, writerVars, ctlVars,
         history, txVars
<1>7. CASE WriterLeaves
  BY <1>7 DEF WriterLeaves, sharedVars, dbVars, txVars, clientVars, ctlVars,
       history
<1>8. CASE WriterEnds
  BY <1>8 DEF WriterEnds, sharedVars, dbVars, txVars, clientVars, ctlVars,
       history
<1>9. CASE WriterTakes
  BY <1>9 DEF WriterTakes, ShouldCommit, dbVars, txVars, clientVars, ctlVars,
       history
<1>10. CASE WriterFlushes
  BY <1>10 DEF WriterFlushes, ShouldCommit, sharedVars, dbVars, txVars,
       clientVars, ctlVars, history
<1>11. CASE WriterConnects
  BY <1>11, GetConnType DEF WriterConnects, sharedVars, txVars, clientVars,
       ctlVars
<1>12. CASE WriterBegins
  BY <1>12 DEF WriterBegins, sharedVars, dbVars, txVars, clientVars, ctlVars,
       history
<1>13. CASE WriterExecutes
  <2>1. done' \in 0 .. Len(pending') /\ tx' \in Seq(Writes) /\ UNCHANGED pending
    BY <1>13 DEF WriterExecutes
  <2>2. StepsMatch'
    BY <1>13 DEF WriterExecutes, clientVars
  <2> QED BY <1>13, <2>1, <2>2 DEF WriterExecutes, sharedVars, dbVars, clientVars,
         ctlVars, history
<1>14. CASE WriterCommits
  <2>1. db' \in Seq(Items) /\ cloud' \in 0 .. Len(db') /\ done' \in 0 .. Len(pending')
    BY <1>14 DEF WriterCommits
  <2>2. StepsMatch'
    BY <1>14 DEF WriterCommits, clientVars
  <2>3. /\ UNCHANGED <<queue, pending, conn, handle, spc, cpc, part, item, ctl, left, fresh,
                       atStop, accepted, settled, dropped, lost, doubtful>>
        /\ wpc' = "mark" /\ done' = 0 /\ tx' = <<>> /\ tries' = 0 /\ unflagged' = FALSE
    BY <1>14 DEF WriterCommits, sharedVars, clientVars, ctlVars
  <2>4. pending' \in Seq(Writes) /\ queue' \in Seq(Writes) /\ tx' \in Seq(Writes)
    BY <2>3
  <2>5. StateOK'
    BY <2>1, <2>3, <2>4
  <2> QED BY <2>2, <2>5
<1>15. CASE WriterMarks
  BY <1>15 DEF WriterMarks, Release, txVars, clientVars, ctlVars
<1>16. CASE \E e \in Errors : WriterConnectFails(e)
  <2>1. PICK e \in Errors : WriterConnectFails(e)
    BY <1>16
  <2>2. HandleError(e) /\ Spend("faults") /\ wpc # "exec"
    BY <2>1 DEF WriterConnectFails
  <2>3. left' \in [Bounds -> Nat]
    BY <2>2, SpendType
  <2>4. /\ UNCHANGED <<queue, db, cloud, spc, cpc, item, fresh, ctl, atStop, accepted,
                       lost, doubtful, unflagged>>
        /\ part' \subseteq Statements
    BY <2>1 DEF WriterConnectFails, sharedVars, clientVars, ctlVars
  <2> HIDE DEF TypeInv, StateOK, StepsMatch
  <2> QED BY <2>2, <2>3, <2>4, HandleErrorType
<1>17. CASE \E e \in Errors : WriterRetries(e)
  <2>1. /\ left' \in [Bounds -> Nat] /\ db' \in Seq(Items) /\ cloud \in 0 .. Len(db')
        /\ doubtful' \subseteq Writes
    BY <1>17, RaisesType DEF WriterRetries
  <2>2. done' = 0 /\ tx' = <<>> /\ tries' \in Nat /\ wpc' = "backoff"
    BY <1>17 DEF WriterRetries
  <2>3. StepsMatch'
    BY <1>17, <2>2 DEF WriterRetries, clientVars
  <2> QED BY <1>17, <2>1, <2>2, <2>3 DEF WriterRetries, sharedVars, dbVars, clientVars,
         ctlVars, history
<1>18. CASE \E e \in Errors : WriterFails(e)
  <2>1. PICK e \in Errors : WriterFails(e)
    BY <1>18
  <2>2. HandleError(e) /\ UNCHANGED left /\ wpc # "exec"
    BY <2>1 DEF WriterFails, Errors
  <2>3. left' \in [Bounds -> Nat]
    BY <2>2
  <2>4. /\ UNCHANGED <<queue, db, cloud, spc, cpc, item, fresh, ctl, atStop, accepted,
                       lost, doubtful, unflagged>>
        /\ part' \subseteq Statements
    BY <2>1 DEF WriterFails, RollsBackAgain, sharedVars, ctlVars
  <2> HIDE DEF TypeInv, StateOK, StepsMatch
  <2> QED BY <2>2, <2>3, <2>4, HandleErrorType
<1>19. CASE SyncWakes
  BY <1>19 DEF SyncWakes, sharedVars, dbVars, writerVars, clientVars, ctlVars,
       history, txVars
<1>20. CASE SyncEnds
  BY <1>20 DEF SyncEnds, sharedVars, dbVars, writerVars, clientVars, ctlVars,
       history, txVars
<1>21. CASE SyncSkips
  BY <1>21 DEF SyncSkips, sharedVars, dbVars, writerVars, clientVars, ctlVars,
       history, txVars
<1>22. CASE SyncConnects
  BY <1>22, GetConnType DEF SyncConnects, sharedVars, writerVars, clientVars,
       ctlVars, txVars
<1>23. CASE SyncPushes
  BY <1>23 DEF SyncPushes, OpLockHeld, sharedVars, writerVars, clientVars,
       ctlVars, history, txVars
<1>24. CASE SyncFails
  <2>1. cloud' \in {cloud, Len(db)} /\ left' \in [Bounds -> Nat]
    BY <1>24, SpendType DEF SyncFails
  <2>2. UNCHANGED <<db, pending, done, tx, cpc, item, wpc>>
    BY <1>24 DEF SyncFails, sharedVars, writerVars, txVars, clientVars
  <2>3. handle' \in [Actors -> {"none", "live", "closed"}]
    BY <1>24 DEF SyncFails, Release
  <2>4. StepsMatch'
    BY <2>2
  <2>5. spc' = "idle" /\ UNCHANGED <<queue, conn, tries, part, fresh, ctl, atStop,
                                     accepted, settled, dropped, lost, doubtful, unflagged>>
    BY <1>24 DEF SyncFails, sharedVars, writerVars, txVars, clientVars, ctlVars, history
  <2>6. cloud' \in 0 .. Len(db')
    BY <2>1, <2>2
  <2>7. StateOK'
    BY <2>1, <2>2, <2>3, <2>5, <2>6
  <2> QED BY <2>4, <2>7
<1>25. CASE SyncResets
  BY <1>25 DEF SyncResets, Release, writerVars, clientVars, ctlVars, history,
       txVars
<1>26. CASE WarmupOpens
  BY <1>26, GetConnType, SpendType DEF WarmupOpens, StartWriter, StartSync,
       txVars, clientVars
<1>27. CASE CleanupStopsSync
  BY <1>27 DEF CleanupStopsSync, dbVars, writerVars, clientVars, history, txVars
<1>28. CASE CleanupCloses
  BY <1>28 DEF CleanupCloses, CloseConn, sharedVars, writerVars, clientVars,
       history, ClosedHandles, txVars
<1>29. CASE Exit
  <2>1. ProcessGone /\ UNCHANGED <<atStop, left>> /\ ctl' \in {"down", "exited"}
    BY <1>29 DEF Exit
  <2> HIDE DEF TypeInv, StateOK, StepsMatch
  <2> QED BY <2>1, ProcessGoneType
<1>30. CASE RecoveryStopsWriter
  BY <1>30 DEF RecoveryStopsWriter, TellWriterToStop, dbVars, writerVars,
       clientVars, history, txVars
<1>31. CASE RecoveryCloses
  BY <1>31 DEF RecoveryCloses, CloseConn, sharedVars, writerVars, clientVars,
       history, ClosedHandles, txVars
<1>32. CASE RecoveryMovesFile
  BY <1>32 DEF RecoveryMovesFile, sharedVars, writerVars, clientVars, history,
       txVars
<1>33. CASE RecoveryOpens
  <2>1. db' \in Seq(Items) /\ cloud' \in 0 .. Len(db')
    BY <1>33, GetConnType DEF RecoveryOpens
  <2> QED BY <1>33, <2>1, GetConnType DEF RecoveryOpens, sharedVars, writerVars,
         txVars, clientVars
<1>34. CASE RecoveryFails
  BY <1>34, SpendType DEF RecoveryFails, sharedVars, dbVars, writerVars,
       clientVars, history, txVars
<1>35. CASE Boot
  BY <1>35, SpendType DEF Boot, StartWriter, StartSync, dbVars, txVars,
       clientVars, history
<1>36. CASE WarmupCloses
  BY <1>36, SpendType DEF WarmupCloses, CloseConn, sharedVars, writerVars,
       clientVars, history, ClosedHandles, txVars
<1>37. CASE CleanupStarts
  <2>1. left' \in [Bounds -> Nat] /\ atStop' \in Nat
    BY <1>37, SpendType DEF CleanupStarts, TellWriterToStop
  <2>2. StepsMatch'
    BY <1>37 DEF CleanupStarts, writerVars, txVars, clientVars
  <2> QED BY <1>37, <2>1, <2>2 DEF CleanupStarts, dbVars, writerVars, clientVars,
         history, txVars
<1>38. CASE RecoveryStarts
  BY <1>38, SpendType DEF RecoveryStarts, dbVars, writerVars, clientVars,
       history, txVars
<1>39. CASE Crash
  <2>1. ProcessGone /\ UNCHANGED <<atStop, left>> /\ ctl' \in {"down", "exited"}
    BY <1>39 DEF Crash
  <2> HIDE DEF TypeInv, StateOK, StepsMatch
  <2> QED BY <2>1, ProcessGoneType
<1>40. CASE HealthCheckFails
  BY <1>40, SpendType DEF HealthCheckFails, CloseConn, sharedVars, writerVars,
       clientVars, ctlVars, history, ClosedHandles, txVars
<1>41. CASE Tick
  BY <1>41 DEF Tick, sharedVars, dbVars, txVars, clientVars, ctlVars, history
<1>42. CASE Quiet
  BY <1>42 DEF Quiet, dbVars, writerVars, clientVars, ctlVars, history, txVars
<1>43. CASE \E c \in Clients : SaveInserts(c)
  BY <1>43 DEF SaveInserts, Statements, sharedVars, dbVars, writerVars, ctlVars,
       history, txVars
<1>44. CASE \E c \in Clients : SaveUpdates(c)
  BY <1>44 DEF SaveUpdates, Statements, sharedVars, dbVars, writerVars, ctlVars,
       history, txVars
<1>45. CASE \E e \in Errors : WriterRaises(e)
  <2>1. /\ left' \in [Bounds -> Nat] /\ db' \in Seq(Items) /\ cloud \in 0 .. Len(db')
        /\ doubtful' \subseteq Writes
    BY <1>45, RaisesType DEF WriterRaises
  <2>2. done' = 0 /\ tx' = <<>> /\ wpc' \in Errors
    BY <1>45 DEF WriterRaises
  <2>3. StepsMatch'
    BY <1>45, <2>2 DEF WriterRaises, clientVars
  <2> QED BY <1>45, <2>1, <2>2, <2>3 DEF WriterRaises, sharedVars, dbVars, clientVars,
         ctlVars, history
<1>46. CASE WriterTriesAgain
  BY <1>46 DEF WriterTriesAgain, RollsBackAgain, sharedVars, dbVars, txVars, ctlVars,
       history
<1> QED BY <1>1, <1>2, <1>3, <1>4, <1>5, <1>6, <1>7, <1>8, <1>9, <1>10, <1>11,
       <1>12, <1>13, <1>14, <1>15, <1>16, <1>17, <1>18, <1>19, <1>20, <1>21,
       <1>22, <1>23, <1>24, <1>25, <1>26, <1>27, <1>28, <1>29, <1>30, <1>31,
       <1>32, <1>33, <1>34, <1>35, <1>36, <1>37, <1>38, <1>39, <1>40, <1>41,
       <1>42, <1>43, <1>44, <1>45, <1>46
    DEF Next, ClientStep, ClientContinues, WriterStep, SyncStep, CtlStep

\* The type invariant with its strengthening is inductive.
LEMMA TypeInvStep == TypeInv /\ [Next]_vars => TypeInv'
<1> SUFFICES ASSUME TypeInv, [Next]_vars PROVE TypeInv'
  OBVIOUS
<1>1. CASE Next
  BY <1>1, FlagsStep, StateStep DEF TypeInv, TypeOK
<1>2. CASE UNCHANGED vars
  <2>1. FlagsOK'
    BY <1>2 DEF TypeInv, TypeOK, FlagsOK, vars, sharedVars, dbVars, writerVars, ctlVars
  <2>2. StateOK' /\ StepsMatch'
    BY <1>2 DEF TypeInv, TypeOK, StateOK, StepsMatch, vars, sharedVars, dbVars,
       writerVars, txVars, clientVars, ctlVars, history
  <2> QED BY <2>1, <2>2 DEF TypeInv, TypeOK
<1> QED BY <1>1, <1>2

\* In every reachable state the engine's variables have their types: in
\* particular the cloud never claims more of the log than the database has.
THEOREM TypeCorrect == Spec => []TypeOK
<1>1. TypeInv => TypeOK
  BY DEF TypeInv
<1> QED BY <1>1, TypeInit, TypeInvStep, PTL DEF Spec

-----------------------------------------------------------------------------
(* Order of handling *)

\* A put at the end of the queue is a put at the end of the whole line.
LEMMA AppendLast ==
  ASSUME NEW S, NEW s \in Seq(S), NEW t \in Seq(S), NEW x \in S
  PROVE  s \o Append(t, x) = Append(s \o t, x)
OBVIOUS

\* Moving the head of the queue to the end of the batch leaves the line as it is.
LEMMA MoveHead ==
  ASSUME NEW S, NEW s \in Seq(S), NEW t \in Seq(S), t # <<>>
  PROVE  Append(s, Head(t)) \o Tail(t) = s \o t
OBVIOUS

\* An empty batch or queue adds nothing to the line.
LEMMA EmptyRight ==
  ASSUME NEW S, NEW s \in Seq(S)
  PROVE  s \o <<>> = s
OBVIOUS

\* The steps that leave the queue and the batch alone.
Elsewhere == UNCHANGED <<queue, pending, accepted, settled>>

\* Which steps leave the line alone: all but those of the queue, the batch and
\* the end of the process.
LEMMA ElsewhereSteps ==
  ASSUME Next
  PROVE  \/ Elsewhere
         \/ \E c \in Clients : Put(c)
         \/ WriterTakes \/ WriterMarks
         \/ \E e \in Errors : HandleError(e) /\ UNCHANGED <<queue, accepted>>
         \/ ProcessGone
<1> USE DEF Elsewhere, sharedVars, dbVars, writerVars, txVars, clientVars, ctlVars, history
<1>1. ASSUME NEW c \in Clients, ClientStep(c)
      PROVE  Elsewhere \/ Put(c)
  BY <1>1 DEF ClientStep, ClientContinues, Enqueue, PutTimesOut, SaveConnect,
     SaveInserts, SaveUpdates, SaveCommits, SaveFails
<1>2. CASE WriterLeaves \/ WriterEnds \/ WriterFlushes \/ WriterConnects
           \/ WriterBegins \/ WriterExecutes \/ WriterCommits \/ WriterTriesAgain
  BY <1>2 DEF WriterLeaves, WriterEnds, WriterFlushes, WriterConnects, WriterBegins,
     WriterExecutes, WriterCommits, WriterTriesAgain
<1>3. ASSUME NEW e \in Errors, \/ WriterConnectFails(e) \/ WriterRetries(e)
                               \/ WriterRaises(e) \/ WriterFails(e)
      PROVE  Elsewhere \/ (HandleError(e) /\ UNCHANGED <<queue, accepted>>)
  BY <1>3 DEF WriterConnectFails, WriterRetries, WriterRaises, WriterFails
<1>4. CASE SyncStep
  BY <1>4 DEF SyncStep, SyncWakes, SyncEnds, SyncSkips, SyncConnects, SyncPushes,
     SyncFails, SyncResets
<1>5. CASE CtlStep
  BY <1>5 DEF CtlStep, WarmupOpens, CleanupStopsSync, CleanupCloses, Exit,
     RecoveryStopsWriter, RecoveryCloses, RecoveryMovesFile, RecoveryOpens, RecoveryFails
<1>6. CASE Boot \/ WarmupCloses \/ CleanupStarts \/ RecoveryStarts \/ Crash
  BY <1>6 DEF Boot, WarmupCloses, CleanupStarts, RecoveryStarts, Crash
<1>7. CASE HealthCheckFails \/ Tick \/ Quiet
  BY <1>7 DEF HealthCheckFails, Tick, Quiet
<1> QED BY <1>1, <1>2, <1>3, <1>4, <1>5, <1>6, <1>7 DEF Next, WriterStep

\* Every step keeps the writes handled in the order they were accepted.
LEMMA OrderStep ==
  ASSUME TypeInv, HandledInOrder, Next
  PROVE  HandledInOrder'
<1>1. /\ queue \in Seq(Writes) /\ pending \in Seq(Writes) /\ settled \in Seq(Writes)
      /\ accepted = (settled \o pending) \o queue
      /\ settled \o pending \in Seq(Writes)
  BY DEF TypeInv, TypeOK, StateOK, HandledInOrder
<1>2. CASE Elsewhere
  BY <1>2 DEF Elsewhere, HandledInOrder
<1>3. ASSUME NEW c \in Clients, Put(c) PROVE HandledInOrder'
  <2>1. /\ item[c] \in Writes
        /\ queue' = Append(queue, item[c]) /\ accepted' = Append(accepted, item[c])
        /\ UNCHANGED <<settled, pending>>
    BY <1>3 DEF Put, TypeInv, StepsMatch, writerVars
  <2>2. (settled \o pending) \o Append(queue, item[c]) = Append(accepted, item[c])
    BY <1>1, <2>1, AppendLast
  <2> QED BY <2>1, <2>2 DEF HandledInOrder
<1>4. CASE WriterTakes
  <2>1. /\ queue # <<>> /\ pending' = Append(pending, Head(queue)) /\ queue' = Tail(queue)
        /\ Head(queue) \in Writes /\ Tail(queue) \in Seq(Writes)
        /\ UNCHANGED <<settled, accepted>>
    BY <1>1, <1>4 DEF WriterTakes, history
  <2>2. settled \o Append(pending, Head(queue)) = Append(settled \o pending, Head(queue))
    BY <1>1, <2>1, AppendLast
  <2>3. Append(settled \o pending, Head(queue)) \o Tail(queue) = accepted
    BY <1>1, <2>1, MoveHead
  <2> QED BY <2>1, <2>2, <2>3 DEF HandledInOrder
<1>5. ASSUME pending' = <<>>, settled' = settled \o pending, UNCHANGED <<queue, accepted>>
      PROVE  HandledInOrder'
  <2>1. (settled \o pending) \o <<>> = settled \o pending
    BY <1>1, EmptyRight
  <2> QED BY <1>1, <1>5, <2>1 DEF HandledInOrder
<1>6. CASE WriterMarks
  BY <1>5, <1>6 DEF WriterMarks
<1>7. ASSUME NEW e \in Errors, HandleError(e), UNCHANGED <<queue, accepted>>
      PROVE  HandledInOrder'
  <2>1. CASE e \in BrokenConn
    BY <1>7, <2>1 DEF HandleError, HandledInOrder
  <2>2. CASE e \notin BrokenConn
    BY <1>5, <1>7, <2>2 DEF HandleError
  <2> QED BY <2>1, <2>2
<1>8. CASE ProcessGone
  <2>1. /\ queue' = <<>> /\ pending' = <<>> /\ accepted' = accepted
        /\ settled' = accepted
    BY <1>1, <1>8 DEF ProcessGone
  <2>2. accepted \in Seq(Writes)
    BY DEF TypeInv, TypeOK, StateOK
  <2>3. accepted \o <<>> = accepted
    BY <2>2, EmptyRight
  <2> QED BY <2>1, <2>3 DEF HandledInOrder
<1> QED BY ElsewhereSteps, <1>2, <1>3, <1>4, <1>6, <1>7, <1>8

\* Every accepted write stays in exactly one place and is handled in the order
\* of acceptance, for any number of clients, retries, stops, crashes and
\* recoveries: the queue, the writer's batch and its history make up what was
\* accepted.
THEOREM OrderCorrect == Spec => []HandledInOrder
<1>1. Init => HandledInOrder
  BY EmptyRight DEF Init, HandledInOrder
<1>2. TypeInv /\ HandledInOrder /\ [Next]_vars => HandledInOrder'
  <2> SUFFICES ASSUME TypeInv, HandledInOrder, [Next]_vars PROVE HandledInOrder'
    OBVIOUS
  <2>1. CASE UNCHANGED vars
    BY <2>1 DEF vars, sharedVars, writerVars, history, HandledInOrder
  <2> QED BY <2>1, OrderStep
<1> QED BY <1>1, <1>2, TypeInit, TypeInvStep, PTL DEF Spec

-----------------------------------------------------------------------------
(* What becomes of a handled write *)

Traced == Range(db) \cup lost

\* The open transaction holds every item it has gone through that the writer's
\* loop executes; after the commit they are in the database.
TxTraced ==
  /\ wpc = "exec" => \A k \in 1 .. done : pending[k] \in Updates \cup Range(tx)
  /\ wpc = "mark" => Range(pending) \ Updates \subseteq Traced

AccountInv == SettledAccounted /\ TxTraced

\* A rebuild on connecting records in lost what it takes out of the database.
LEMMA GetConnTraced ==
  ASSUME TypeInv, NEW a, GetConn(a)
  PROVE  Traced \subseteq Traced'
<1>1. db \in Seq(Items) /\ cloud \in 0 .. Len(db)
  BY DEF TypeInv, TypeOK, StateOK
<1>2. Range(db) \subseteq Range(SubSeq(db, 1, cloud)) \cup Range(SubSeq(db, cloud + 1, Len(db)))
  BY <1>1, RangeCut
<1>3. CASE UNCHANGED <<db, lost>>
  BY <1>3 DEF Traced
<1>4. CASE /\ db' = SubSeq(db, 1, cloud)
           /\ lost' = lost \cup Range(SubSeq(db, cloud + 1, Len(db)))
  BY <1>2, <1>4 DEF Traced
<1> QED BY <1>3, <1>4 DEF GetConn, Connected

\* No step makes a committed or destroyed write vanish without a trace.
LEMMA TracedStep ==
  ASSUME TypeInv, Next
  PROVE  Traced \subseteq Traced' /\ dropped \subseteq dropped'
<1> USE DEF sharedVars, dbVars, writerVars, txVars, clientVars, ctlVars, history
<1>1. db \in Seq(Items) /\ tx \in Seq(Items)
  BY DEF TypeInv, TypeOK, StateOK, Items
<1>2. ASSUME UNCHANGED <<db, lost>>, dropped \subseteq dropped'
      PROVE  Traced \subseteq Traced' /\ dropped \subseteq dropped'
  BY <1>2 DEF Traced
<1>3. ASSUME NEW a, GetConn(a), UNCHANGED dropped
      PROVE  Traced \subseteq Traced' /\ dropped \subseteq dropped'
  BY <1>3, GetConnTraced
<1>4. ASSUME NEW c \in Clients, ClientStep(c)
      PROVE  Traced \subseteq Traced' /\ dropped \subseteq dropped'
  <2>1. CASE SaveCommits(c)
    <3>1. item[c] \in Items
      BY <2>1, WritesAssumption DEF SaveCommits, TypeInv, StepsMatch, Items
    <3> QED BY <1>1, <2>1, <3>1, RangeAppend DEF SaveCommits, Traced
  <2>2. ASSUME NEW s \in Saves, SaveConnect(c, s)
        PROVE  Traced \subseteq Traced' /\ dropped \subseteq dropped'
    BY <1>3, <2>2 DEF SaveConnect
  <2>3. CASE \/ \E w \in Writes : Enqueue(c, w)
            \/ Put(c) \/ PutTimesOut(c)
            \/ SaveInserts(c) \/ SaveUpdates(c)
    BY <1>2, <2>3 DEF Enqueue, Put, PutTimesOut, SaveInserts, SaveUpdates
  <2>4. CASE SaveFails(c)
    <3>1. db' = db \/ (item[c] \in Items /\ db' = Append(db, item[c]))
      BY <2>4 DEF SaveFails, TypeInv, StepsMatch, Items
    <3>2. UNCHANGED <<lost, dropped>>
      BY <2>4 DEF SaveFails
    <3> QED BY <1>1, <3>1, <3>2, RangeAppend DEF Traced
  <2> QED BY <1>4, <2>1, <2>2, <2>3, <2>4 DEF ClientStep, ClientContinues
<1>5. CASE WriterStep
  <2>1. CASE WriterCommits
    BY <1>1, <2>1, RangeConcat DEF WriterCommits, Traced
  <2>2. CASE WriterConnects
    BY <1>3, <2>2 DEF WriterConnects
  <2>3. ASSUME NEW e \in Errors, WriterConnectFails(e) \/ WriterFails(e)
        PROVE  Traced \subseteq Traced' /\ dropped \subseteq dropped'
    BY <1>2, <2>3 DEF WriterConnectFails, WriterFails, HandleError
  <2>5. ASSUME NEW e \in Errors, WriterRetries(e) \/ WriterRaises(e)
        PROVE  Traced \subseteq Traced' /\ dropped \subseteq dropped'
    <3>1. (db' = db \/ db' = db \o tx) /\ UNCHANGED <<lost, dropped>>
      BY <2>5 DEF WriterRetries, WriterRaises, Raises, CommitsUnheard
    <3>2. Range(db) \subseteq Range(db \o tx)
      BY <1>1, RangeConcat
    <3> QED BY <3>1, <3>2 DEF Traced
  <2>4. CASE WriterLeaves \/ WriterEnds \/ WriterTakes \/ WriterFlushes
             \/ WriterBegins \/ WriterExecutes \/ WriterMarks \/ WriterTriesAgain
    BY <1>2, <2>4 DEF WriterLeaves, WriterEnds, WriterTakes, WriterFlushes,
       WriterBegins, WriterExecutes, WriterMarks, WriterTriesAgain
  <2> QED BY <1>5, <2>1, <2>2, <2>3, <2>4, <2>5 DEF WriterStep
<1>6. CASE SyncStep
  <2>1. CASE SyncConnects
    BY <1>3, <2>1 DEF SyncConnects
  <2>2. CASE SyncWakes \/ SyncEnds \/ SyncSkips \/ SyncPushes \/ SyncFails \/ SyncResets
    BY <1>2, <2>2 DEF SyncWakes, SyncEnds, SyncSkips, SyncPushes, SyncFails, SyncResets
  <2> QED BY <1>6, <2>1, <2>2 DEF SyncStep
<1>7. CASE ProcessGone
  BY <1>7 DEF ProcessGone, Traced
<1>8. CASE CtlStep
  <2>1. CASE WarmupOpens \/ RecoveryOpens
    BY <1>2, <1>3, <2>1 DEF WarmupOpens, RecoveryOpens
  <2>2. CASE Exit
    BY <1>7, <2>2 DEF Exit
  <2>3. CASE CleanupStopsSync \/ CleanupCloses \/ RecoveryStopsWriter \/ RecoveryCloses
             \/ RecoveryMovesFile \/ RecoveryFails
    BY <1>2, <2>3 DEF CleanupStopsSync, CleanupCloses, RecoveryStopsWriter,
       RecoveryCloses, RecoveryMovesFile, RecoveryFails
  <2> QED BY <1>8, <2>1, <2>2, <2>3 DEF CtlStep
<1>9. CASE Crash
  BY <1>7, <1>9 DEF Crash
<1>10. CASE Boot \/ WarmupCloses \/ CleanupStarts \/ RecoveryStarts
            \/ HealthCheckFails \/ Tick \/ Quiet
  BY <1>2, <1>10 DEF Boot, WarmupCloses, CleanupStarts, RecoveryStarts,
     HealthCheckFails, Tick, Quiet
<1> QED BY <1>4, <1>5, <1>6, <1>8, <1>9, <1>10 DEF Next

\* The steps that take no part in a transaction.
LEMMA TransactionSteps ==
  ASSUME TypeInv, Next
  PROVE  \/ wpc' \notin {"exec", "mark"}
         \/ UNCHANGED <<wpc, pending, done, tx>>
         \/ WriterBegins \/ WriterExecutes \/ WriterCommits
<1> USE DEF sharedVars, dbVars, writerVars, txVars, clientVars, ctlVars, history
<1>1. ASSUME NEW c \in Clients, ClientStep(c)
      PROVE  wpc' \notin {"exec", "mark"} \/ UNCHANGED <<wpc, pending, done, tx>>
  BY <1>1 DEF ClientStep, ClientContinues, Enqueue, Put, PutTimesOut, SaveConnect,
     SaveInserts, SaveUpdates, SaveCommits, SaveFails, StartWriter
<1>2. CASE WriterLeaves \/ WriterEnds \/ WriterTakes \/ WriterFlushes \/ WriterConnects
           \/ WriterMarks \/ WriterTriesAgain
  BY <1>2 DEF WriterLeaves, WriterEnds, WriterTakes, WriterFlushes, WriterConnects,
     WriterMarks, WriterTriesAgain
<1>3. ASSUME NEW e \in Errors, \/ WriterConnectFails(e) \/ WriterRetries(e)
                               \/ WriterRaises(e) \/ WriterFails(e)
      PROVE  wpc' \notin {"exec", "mark"}
  BY <1>3 DEF WriterConnectFails, WriterRetries, WriterRaises, WriterFails,
     HandleError, Errors
<1>4. CASE SyncStep
  BY <1>4 DEF SyncStep, SyncWakes, SyncEnds, SyncSkips, SyncConnects, SyncPushes,
     SyncFails, SyncResets
<1>5. CASE CtlStep
  BY <1>5 DEF CtlStep, WarmupOpens, CleanupStopsSync, CleanupCloses, Exit, ProcessGone,
     RecoveryStopsWriter, RecoveryCloses, RecoveryMovesFile, RecoveryOpens,
     RecoveryFails, StartWriter
<1>6. CASE Boot \/ WarmupCloses \/ CleanupStarts \/ RecoveryStarts \/ Crash
  BY <1>6 DEF Boot, WarmupCloses, CleanupStarts, RecoveryStarts, Crash, ProcessGone,
     StartWriter
<1>7. CASE HealthCheckFails \/ Tick \/ Quiet
  BY <1>7 DEF HealthCheckFails, Tick, Quiet
<1> QED BY <1>1, <1>2, <1>3, <1>4, <1>5, <1>6, <1>7 DEF Next, WriterStep

\* The open transaction always holds the executed part of the batch: retries
\* start over, and nothing else touches the batch while it is open.
LEMMA TxTracedStep ==
  ASSUME TypeInv, TxTraced, Next
  PROVE  TxTraced'
<1>1. Traced \subseteq Traced'
  BY TracedStep
<1>2. /\ pending \in Seq(Writes) /\ tx \in Seq(Writes) /\ db \in Seq(Items)
      /\ done \in 0 .. Len(pending) /\ tx \in Seq(Items)
  BY DEF TypeInv, TypeOK, StateOK, Items
<1>3. CASE wpc' \notin {"exec", "mark"}
  BY <1>3 DEF TxTraced
<1>4. CASE UNCHANGED <<wpc, pending, done, tx>>
  BY <1>1, <1>4 DEF TxTraced
<1>5. CASE WriterBegins
  <2>1. wpc' = "exec" /\ done' = 0
    BY <1>5 DEF WriterBegins, txVars, TypeInv, StepsMatch
  <2> QED BY <2>1 DEF TxTraced
<1>6. CASE WriterExecutes
  <2>1. /\ wpc = "exec" /\ wpc' = "exec" /\ pending' = pending /\ done' = done + 1
        /\ done < Len(pending)
        /\ tx' = IF pending[done + 1] \in Updates THEN tx ELSE Append(tx, pending[done + 1])
    BY <1>6 DEF WriterExecutes
  <2>2. pending[done + 1] \in Writes
    BY <1>2, <2>1
  <2>3. /\ Range(tx) \subseteq Range(tx')
        /\ pending[done + 1] \in Updates \cup Range(tx')
    BY <1>2, <2>1, <2>2, RangeAppend
  <2>4. ASSUME NEW k \in 1 .. done' PROVE pending'[k] \in Updates \cup Range(tx')
    BY <1>2, <2>1, <2>3, <2>4 DEF TxTraced
  <2> QED BY <2>1, <2>4 DEF TxTraced
<1>7. CASE WriterCommits
  <2>1. /\ wpc = "exec" /\ wpc' = "mark" /\ pending' = pending /\ done = Len(pending)
        /\ db' = db \o tx
    BY <1>7 DEF WriterCommits
  <2>2. Range(tx) \subseteq Range(db')
    BY <1>2, <2>1, RangeConcat
  <2>3. Range(pending) \ Updates \subseteq Range(tx)
    BY <1>2, <2>1 DEF TxTraced, Range
  <2> QED BY <2>1, <2>2, <2>3 DEF TxTraced, Traced
<1> QED BY TransactionSteps, <1>3, <1>4, <1>5, <1>6, <1>7

\* Every step accounts for each write the writer is done with.
LEMMA AccountStep ==
  ASSUME TypeInv, AccountInv, Next
  PROVE  AccountInv'
<1>1. Traced \subseteq Traced' /\ dropped \subseteq dropped'
  BY TracedStep
<1>2. /\ settled \in Seq(Writes) /\ pending \in Seq(Writes) /\ queue \in Seq(Writes)
      /\ settled \o pending \in Seq(Writes)
  BY DEF TypeInv, TypeOK, StateOK
<1>3. Range(settled) \ Updates \subseteq Traced' \cup dropped'
  BY <1>1 DEF AccountInv, SettledAccounted, Traced
<1>4. ASSUME NEW W, W \ Updates \subseteq Traced' \cup dropped',
             Range(settled') \subseteq Range(settled) \cup W
      PROVE  SettledAccounted'
  BY <1>3, <1>4 DEF SettledAccounted, Traced
<1>5. ASSUME settled' = settled PROVE SettledAccounted'
  <2>1. Range(settled') \subseteq Range(settled) \cup {}
    BY <1>5
  <2> QED BY <1>4, <2>1
<1>6. ASSUME settled' = settled \o pending,
             Range(pending) \ Updates \subseteq Traced' \cup dropped'
      PROVE  SettledAccounted'
  <2>1. Range(settled') \subseteq Range(settled) \cup Range(pending)
    BY <1>2, <1>6, RangeConcat
  <2> QED BY <1>4, <1>6, <2>1
<1>7. ASSUME WriterMarks PROVE SettledAccounted'
  <2>1. Range(pending) \ Updates \subseteq Traced
    BY <1>7 DEF WriterMarks, AccountInv, TxTraced
  <2>2. Range(pending) \ Updates \subseteq Traced' \cup dropped'
    BY <1>1, <2>1
  <2>3. settled' = settled \o pending
    BY <1>7 DEF WriterMarks
  <2> QED BY <1>6, <2>2, <2>3
<1>8. ASSUME NEW e \in Errors, HandleError(e) PROVE SettledAccounted'
  <2>1. CASE e \in BrokenConn
    BY <1>5, <1>8, <2>1 DEF HandleError
  <2>2. CASE e \notin BrokenConn
    <3>1. settled' = settled \o pending /\ Range(pending) \subseteq dropped'
      BY <1>8, <2>2 DEF HandleError
    <3> QED BY <1>6, <3>1
  <2> QED BY <2>1, <2>2
<1>9. ASSUME ProcessGone PROVE SettledAccounted'
  <2>1. settled' = (settled \o pending) \o queue
    BY <1>9 DEF ProcessGone
  <2>2. Range(pending \o queue) \subseteq Traced'
    BY <1>9 DEF ProcessGone, Traced
  <2>3. Range(settled') \subseteq Range(settled) \cup Range(pending) \cup Range(queue)
    <3>1. Range(settled') = Range(settled \o pending) \cup Range(queue)
      BY <1>2, <2>1, RangeConcat
    <3>2. Range(settled \o pending) = Range(settled) \cup Range(pending)
      BY <1>2, RangeConcat
    <3> QED BY <3>1, <3>2
  <2>4. Range(pending) \cup Range(queue) = Range(pending \o queue)
    BY <1>2, RangeConcat
  <2>5. Range(settled') \subseteq Range(settled) \cup Range(pending \o queue)
    BY <2>3, <2>4
  <2> QED BY <1>4, <2>2, <2>5
<1>10. SettledAccounted'
  <2>1. CASE Elsewhere \/ (\E c \in Clients : Put(c)) \/ WriterTakes
    BY <1>5, <2>1 DEF Elsewhere, Put, WriterTakes, history
  <2> QED BY ElsewhereSteps, <1>7, <1>8, <1>9, <2>1
<1> QED BY <1>10, TxTracedStep DEF AccountInv

\* A write that the writer executes and is done with is in the database, or its
\* batch was given up, or a crash or a rebuild destroyed it, however commits,
\* retries, closed connections and recoveries interleave.
THEOREM AccountCorrect == Spec => []SettledAccounted
<1>1. Init => AccountInv
  BY RangeEmpty DEF Init, AccountInv, SettledAccounted, TxTraced
<1>2. TypeInv /\ AccountInv /\ [Next]_vars => AccountInv'
  <2> SUFFICES ASSUME TypeInv, AccountInv, [Next]_vars PROVE AccountInv'
    OBVIOUS
  <2>1. CASE UNCHANGED vars
    BY <2>1 DEF vars, dbVars, writerVars, txVars, history, AccountInv,
       SettledAccounted, TxTraced, Traced
  <2> QED BY <2>1, AccountStep
<1>3. AccountInv => SettledAccounted
  BY DEF AccountInv
<1> QED BY <1>1, <1>2, <1>3, TypeInit, TypeInvStep, PTL DEF Spec

-----------------------------------------------------------------------------
(* What only grows *)

\* The writes the writer is done with: those of its current batch count once
\* the batch is committed.
Handled == IF wpc = "mark" THEN Len(settled) + Len(pending) ELSE Len(settled)

\* A committed batch stays as it is until the writer marks it or the process ends.
LEMMA MarkSteps ==
  ASSUME TypeInv, Next, wpc = "mark"
  PROVE  UNCHANGED <<wpc, pending, settled>> \/ WriterMarks \/ ProcessGone
<1> USE DEF sharedVars, dbVars, writerVars, txVars, clientVars, ctlVars, history
<1>1. ASSUME NEW c \in Clients, ClientStep(c)
      PROVE  UNCHANGED <<wpc, pending, settled>>
  BY <1>1 DEF ClientStep, ClientContinues, Enqueue, Put, PutTimesOut, SaveConnect,
     SaveInserts, SaveUpdates, SaveCommits, SaveFails, StartWriter
<1>2. CASE WriterStep
  BY <1>2 DEF WriterStep, WriterLeaves, WriterEnds, WriterTakes, WriterFlushes,
     WriterConnects, WriterBegins, WriterExecutes, WriterCommits, WriterTriesAgain,
     WriterConnectFails, WriterRetries, WriterRaises, WriterFails, Raises, Errors
<1>3. CASE SyncStep
  BY <1>3 DEF SyncStep, SyncWakes, SyncEnds, SyncSkips, SyncConnects, SyncPushes,
     SyncFails, SyncResets
<1>4. CASE CtlStep
  BY <1>4 DEF CtlStep, WarmupOpens, CleanupStopsSync, CleanupCloses, Exit,
     RecoveryStopsWriter, RecoveryCloses, RecoveryMovesFile, RecoveryOpens,
     RecoveryFails, StartWriter
<1>5. CASE Boot \/ WarmupCloses \/ CleanupStarts \/ RecoveryStarts \/ Crash
  BY <1>5 DEF Boot, WarmupCloses, CleanupStarts, RecoveryStarts, Crash, StartWriter
<1>6. CASE HealthCheckFails \/ Tick \/ Quiet
  BY <1>6 DEF HealthCheckFails, Tick, Quiet
<1> QED BY <1>1, <1>2, <1>3, <1>4, <1>5, <1>6 DEF Next

\* Accepted writes stay accepted, handled ones stay handled.
LEMMA Grows ==
  ASSUME TypeInv, Next
  PROVE  /\ Len(accepted) \in Nat /\ Len(accepted') \in Nat
         /\ Len(settled) \in Nat /\ Len(settled') \in Nat
         /\ Len(accepted) <= Len(accepted')
         /\ \A p \in 1 .. Len(accepted) : accepted'[p] = accepted[p]
         /\ Len(settled) <= Len(settled')
         /\ Handled \in Nat /\ Handled' \in Nat /\ Handled <= Handled'
<1>1. /\ queue \in Seq(Writes) /\ pending \in Seq(Writes) /\ settled \in Seq(Writes)
      /\ accepted \in Seq(Writes)
  BY DEF TypeInv, TypeOK, StateOK
<1>2. /\ accepted' \in Seq(Writes) /\ settled' \in Seq(Writes) /\ pending' \in Seq(Writes)
  BY StateStep DEF StateOK
<1>3. /\ Len(accepted) \in Nat /\ Len(accepted') \in Nat
      /\ Len(settled) \in Nat /\ Len(settled') \in Nat
      /\ Len(pending) \in Nat /\ Len(pending') \in Nat
  BY <1>1, <1>2
<1>4. /\ Len(accepted) <= Len(accepted')
      /\ \A p \in 1 .. Len(accepted) : accepted'[p] = accepted[p]
  <2>1. CASE UNCHANGED accepted
    BY <1>1, <2>1
  <2>2. ASSUME NEW c \in Clients, Put(c)
        PROVE  /\ Len(accepted) <= Len(accepted')
               /\ \A p \in 1 .. Len(accepted) : accepted'[p] = accepted[p]
    <3>1. item[c] \in Writes /\ accepted' = Append(accepted, item[c])
      BY <2>2 DEF Put, TypeInv, StepsMatch
    <3> QED BY <1>1, <3>1
  <2> QED BY <2>1, <2>2, ElsewhereSteps
       DEF Elsewhere, WriterTakes, WriterMarks, ProcessGone, history
<1>5. ASSUME settled' = settled \o pending
      PROVE  Len(settled') = Len(settled) + Len(pending)
  BY <1>1, <1>5
<1>6. ASSUME ProcessGone
      PROVE  Len(settled') >= Len(settled) + Len(pending) /\ wpc' = "off"
  <2>1. settled' = settled \o pending \o queue /\ wpc' = "off"
    BY <1>6 DEF ProcessGone
  <2> QED BY <1>1, <2>1
<1>7. Len(settled) <= Len(settled')
  <2>1. CASE UNCHANGED settled
    BY <1>3, <2>1
  <2>2. CASE settled' = settled \o pending
    BY <1>3, <1>5, <2>2
  <2>3. CASE ProcessGone
    BY <1>3, <1>6, <2>3
  <2> QED BY <2>1, <2>2, <2>3, ElsewhereSteps
       DEF Elsewhere, WriterTakes, WriterMarks, Put, HandleError, history
<1>8. Handled \in Nat /\ Handled' \in Nat
  BY <1>3 DEF Handled
<1>9. Handled <= Handled'
  <2>1. CASE wpc # "mark"
    BY <1>3, <1>7, <2>1 DEF Handled
  <2>2. CASE wpc = "mark" /\ UNCHANGED <<wpc, pending, settled>>
    BY <1>8, <2>2 DEF Handled
  <2>3. CASE wpc = "mark" /\ WriterMarks
    <3>1. settled' = settled \o pending /\ wpc' = "top"
      BY <2>3 DEF WriterMarks
    <3> QED BY <1>3, <1>5, <2>3, <3>1 DEF Handled
  <2>4. CASE wpc = "mark" /\ ProcessGone
    BY <1>3, <1>6, <2>4 DEF Handled
  <2> QED BY <2>1, <2>2, <2>3, <2>4, MarkSteps
<1> QED BY <1>3, <1>4, <1>7, <1>8, <1>9

-----------------------------------------------------------------------------
(* What a stop leaves behind *)

\* Once told to stop, the writer leaves only when everything accepted before
\* that has been dealt with, and while the process runs it is off only
\* because it was told to stop.
Stopped ==
  /\ Running /\ wpc = "off" => stopWriter
  /\ wpc = "leaving" => stopWriter
  /\ atStop <= Len(accepted)
  /\ stopWriter /\ wpc \in {"leaving", "off"} => atStop <= Len(settled)

DrainInv == Stopped /\ DrainedOnJoin

\* Starting the writer, whether it runs or not, leaves no writer that is off.
LEMMA StoppedStart ==
  ASSUME TypeInv, Stopped, StartWriter, UNCHANGED <<atStop, accepted, settled>>
  PROVE  Stopped'
BY DEF Stopped, StartWriter, Running

\* Steps that leave the writer and its stop flag alone.
LEMMA StoppedQuiet ==
  ASSUME TypeInv, Stopped, UNCHANGED <<wpc, stopWriter, atStop>>,
         ~Running => ~Running',
         Len(accepted) <= Len(accepted'), Len(settled) <= Len(settled')
  PROVE  Stopped'
<1>1. /\ Len(accepted) \in Nat /\ Len(settled) \in Nat /\ atStop \in Nat
  BY DEF TypeInv, TypeOK, StateOK
<1> QED BY <1>1 DEF Stopped

\* Nor does telling the writer to stop, once or again.
LEMMA StoppedTold ==
  ASSUME TypeInv, Stopped, Running, TellWriterToStop, UNCHANGED <<wpc, accepted, settled>>
  PROVE  Stopped'
<1>1. Len(accepted) \in Nat /\ Len(settled) \in Nat /\ atStop \in Nat
  BY DEF TypeInv, TypeOK, StateOK
<1>2. CASE stopWriter
  BY <1>2 DEF Stopped, TellWriterToStop
<1>3. CASE ~stopWriter
  <2>1. stopWriter' /\ atStop' = Len(accepted)
    BY <1>3 DEF TellWriterToStop
  <2>2. wpc \notin {"off", "leaving"}
    BY <1>3 DEF Stopped
  <2> QED BY <1>1, <2>1, <2>2 DEF Stopped
<1> QED BY <1>2, <1>3

\* Every step keeps a stopped writer's promise.
LEMMA StoppedStep ==
  ASSUME TypeInv, HandledInOrder, Stopped, Next
  PROVE  Stopped'
<1> USE DEF sharedVars, dbVars, writerVars, txVars, clientVars, ctlVars, history
<1>1. /\ Len(accepted) <= Len(accepted') /\ Len(settled) <= Len(settled')
      /\ Len(accepted) \in Nat /\ Len(settled) \in Nat /\ atStop \in Nat
  BY Grows DEF TypeInv, TypeOK, StateOK
<1>2. ASSUME UNCHANGED <<wpc, stopWriter, atStop>>, ~Running => ~Running'
      PROVE  Stopped'
  BY <1>1, <1>2, StoppedQuiet
<1>3. ASSUME NEW c \in Clients, ClientStep(c)
      PROVE  Stopped'
  <2>1. ASSUME NEW w \in Writes, Enqueue(c, w) PROVE Stopped'
    BY <2>1, StoppedStart DEF Enqueue
  <2>2. CASE \/ \E s \in Saves : SaveConnect(c, s)
            \/ Put(c) \/ PutTimesOut(c)
            \/ SaveInserts(c) \/ SaveUpdates(c) \/ SaveCommits(c) \/ SaveFails(c)
    BY <1>2, <2>2 DEF Put, PutTimesOut, SaveConnect, SaveInserts, SaveUpdates,
       SaveCommits, SaveFails, Running
  <2> QED BY <1>3, <2>1, <2>2 DEF ClientStep, ClientContinues
<1>4. CASE WriterStep
  <2>1. CASE WriterLeaves
    <3>1. /\ accepted = settled /\ stopWriter /\ wpc' = "leaving"
          /\ UNCHANGED <<stopWriter, atStop, accepted, settled>>
      <4>1. /\ settled \in Seq(Writes) /\ accepted = (settled \o <<>>) \o <<>>
            /\ stopWriter /\ wpc' = "leaving"
            /\ UNCHANGED <<stopWriter, atStop, accepted, settled>>
        BY <2>1 DEF WriterLeaves, HandledInOrder, TypeInv, TypeOK, StateOK
      <4>2. settled \o <<>> = settled
        BY <4>1, EmptyRight
      <4> QED BY <4>1, <4>2
    <3> QED BY <1>1, <3>1 DEF Stopped
  <2>2. CASE WriterEnds
    BY <1>1, <2>2 DEF WriterEnds, Stopped
  <2>3. ASSUME wpc' \notin {"leaving", "off"}, UNCHANGED <<stopWriter, atStop>>
        PROVE  Stopped'
    BY <1>1, <2>3, Grows DEF Stopped
  <2>4. CASE \/ WriterTakes \/ WriterFlushes \/ WriterConnects \/ WriterBegins
            \/ WriterExecutes \/ WriterCommits \/ WriterMarks \/ WriterTriesAgain
    BY <2>3, <2>4 DEF WriterTakes, WriterFlushes, WriterConnects, WriterBegins,
       WriterExecutes, WriterCommits, WriterMarks, WriterTriesAgain
  <2>5. ASSUME NEW e \in Errors, \/ WriterConnectFails(e) \/ WriterRetries(e)
                                 \/ WriterRaises(e) \/ WriterFails(e)
        PROVE  Stopped'
    BY <2>3, <2>5 DEF WriterConnectFails, WriterRetries, WriterRaises, WriterFails,
       HandleError, Errors
  <2> QED BY <1>4, <2>1, <2>2, <2>4, <2>5 DEF WriterStep
<1>5. CASE SyncStep
  BY <1>2, <1>5 DEF SyncStep, SyncWakes, SyncEnds, SyncSkips, SyncConnects, SyncPushes,
     SyncFails, SyncResets, Running
<1>6. ASSUME ProcessGone, ~Running', UNCHANGED atStop
      PROVE  Stopped'
  BY <1>1, <1>6 DEF ProcessGone, Stopped
<1>7. CASE CtlStep
  <2>1. CASE WarmupOpens
    BY <2>1, StoppedStart DEF WarmupOpens
  <2>2. CASE RecoveryStopsWriter
    <3>1. Running
      BY <2>2 DEF RecoveryStopsWriter, Running
    <3> QED BY <2>2, <3>1, StoppedTold DEF RecoveryStopsWriter
  <2>3. CASE Exit
    BY <1>6, <2>3 DEF Exit, Running
  <2>4. CASE CleanupStopsSync \/ CleanupCloses \/ RecoveryCloses \/ RecoveryMovesFile
             \/ RecoveryOpens \/ RecoveryFails
    BY <1>2, <2>4 DEF CleanupStopsSync, CleanupCloses, RecoveryCloses,
       RecoveryMovesFile, RecoveryOpens, RecoveryFails, Running
  <2> QED BY <1>7, <2>1, <2>2, <2>3, <2>4 DEF CtlStep
<1>8. CASE Boot
  BY <1>8, StoppedStart DEF Boot
<1>9. CASE CleanupStarts
  <2>1. Running
    BY <1>9 DEF CleanupStarts, Running
  <2> QED BY <1>9, <2>1, StoppedTold DEF CleanupStarts
<1>10. CASE Crash
  BY <1>6, <1>10 DEF Crash, Running
<1>11. CASE WarmupCloses \/ RecoveryStarts \/ HealthCheckFails \/ Tick \/ Quiet
  BY <1>2, <1>11 DEF WarmupCloses, RecoveryStarts, HealthCheckFails, Tick, Quiet, Running
<1> QED BY <1>3, <1>4, <1>5, <1>7, <1>8, <1>9, <1>10, <1>11 DEF Next

\* The join of a stop is the only step that notes whether the writer ended, and
\* what was settled then stays settled.
LEMMA DrainedStep ==
  ASSUME TypeInv, DrainInv, Next
  PROVE  DrainedOnJoin'
<1> USE DEF sharedVars, dbVars, writerVars, txVars, clientVars, ctlVars, history
<1> DEFINE Joined == {"cleanup_sync", "recover_move"}
<1>1. /\ Len(settled) <= Len(settled') /\ Len(settled) \in Nat /\ Len(settled') \in Nat
      /\ atStop \in Nat
  BY Grows DEF TypeInv, TypeOK, StateOK
<1>2. ASSUME UNCHANGED <<ctl, joined, atStop>> PROVE DrainedOnJoin'
  BY <1>1, <1>2 DEF DrainInv, DrainedOnJoin
<1>3. ASSUME ctl' \notin Joined PROVE DrainedOnJoin'
  BY <1>3 DEF DrainedOnJoin
<1>4. ASSUME NEW c \in Clients, ClientStep(c) PROVE DrainedOnJoin'
  BY <1>2, <1>4 DEF ClientStep, ClientContinues, Enqueue, Put, PutTimesOut, SaveConnect,
     SaveInserts, SaveUpdates, SaveCommits, SaveFails
<1>5. CASE WriterStep
  BY <1>2, <1>5 DEF WriterStep, WriterLeaves, WriterEnds, WriterTakes, WriterFlushes,
     WriterConnects, WriterBegins, WriterExecutes, WriterCommits, WriterMarks,
     WriterTriesAgain, WriterConnectFails, WriterRetries, WriterRaises, WriterFails
<1>6. CASE SyncStep
  BY <1>2, <1>6 DEF SyncStep, SyncWakes, SyncEnds, SyncSkips, SyncConnects, SyncPushes,
     SyncFails, SyncResets
<1>7. ASSUME Running, UNCHANGED atStop, joined' => wpc = "off"
      PROVE  DrainedOnJoin'
  <2>1. ASSUME joined' PROVE atStop' <= Len(settled')
    <3>1. wpc = "off" /\ stopWriter
      BY <1>7, <2>1 DEF DrainInv, Stopped
    <3>2. atStop <= Len(settled)
      BY <3>1 DEF DrainInv, Stopped
    <3> QED BY <1>1, <1>7, <3>2
  <2> QED BY <2>1 DEF DrainedOnJoin
<1>8. CASE CtlStep
  <2>1. CASE CleanupStopsSync \/ RecoveryCloses
    <3>1. Running /\ UNCHANGED atStop /\ (joined' => wpc = "off")
      BY <2>1 DEF CleanupStopsSync, RecoveryCloses, Running
    <3> QED BY <1>7, <3>1
  <2>2. CASE \/ WarmupOpens \/ CleanupCloses \/ Exit \/ RecoveryStopsWriter
            \/ RecoveryMovesFile \/ RecoveryOpens \/ RecoveryFails
    BY <1>3, <2>2 DEF WarmupOpens, CleanupCloses, Exit, RecoveryStopsWriter,
       RecoveryMovesFile, RecoveryOpens, RecoveryFails
  <2> QED BY <1>8, <2>1, <2>2 DEF CtlStep
<1>9. CASE Boot \/ WarmupCloses \/ CleanupStarts \/ RecoveryStarts \/ Crash
  BY <1>3, <1>9 DEF Boot, WarmupCloses, CleanupStarts, RecoveryStarts, Crash
<1>10. CASE HealthCheckFails \/ Tick \/ Quiet
  BY <1>2, <1>10 DEF HealthCheckFails, Tick, Quiet
<1> QED BY <1>4, <1>5, <1>6, <1>8, <1>9, <1>10 DEF Next

\* A stop that finds the writer ended finds nothing of what was accepted before
\* the writer was told to stop: neither in its batch nor in the queue, however
\* many puts, errors, retries and earlier stops there were, and although a
\* recovery stops the writer of a process that goes on.
THEOREM DrainCorrect == Spec => []DrainedOnJoin
<1>1. Init => DrainInv
  <2>1. ASSUME Init PROVE accepted = <<>> /\ settled = <<>> /\ atStop = 0
    BY <2>1 DEF Init
  <2>2. Len(<<>>) = 0
    OBVIOUS
  <2> QED BY <2>1, <2>2 DEF Init, DrainInv, Stopped, DrainedOnJoin, Running
<1>2. TypeInv /\ HandledInOrder /\ DrainInv /\ [Next]_vars => DrainInv'
  <2> SUFFICES ASSUME TypeInv, HandledInOrder, DrainInv, [Next]_vars PROVE DrainInv'
    OBVIOUS
  <2>1. CASE UNCHANGED vars
    BY <2>1 DEF vars, sharedVars, writerVars, ctlVars, history, DrainInv, Stopped,
       DrainedOnJoin, Running
  <2>2. CASE Next
    BY <2>2, StoppedStep, DrainedStep DEF DrainInv
  <2> QED BY <2>1, <2>2
<1>3. DrainInv => DrainedOnJoin
  BY DEF DrainInv
<1> QED BY <1>1, <1>2, <1>3, TypeInit, TypeInvStep, OrderCorrect, PTL DEF Spec

-----------------------------------------------------------------------------
(* Where the transaction and the database have their writes from *)

\* g says which of the first d items of the batch each write of a transaction
\* is: those that are not updates, each once and in order.
TxFrom(g, written, batch, d) ==
  /\ g \in [1 .. Len(written) -> 1 .. d] /\ Len(written) <= d
  /\ \A k \in 1 .. Len(written) : /\ written[k] = batch[g[k]]
                                  /\ batch[g[k]] \notin Updates
  /\ \A j, k \in 1 .. Len(written) : j < k => g[j] < g[k]
  /\ \A i \in 1 .. d : batch[i] \notin Updates => \E k \in 1 .. Len(written) : g[k] = i

TxOrdered == wpc = "exec" => \E g : TxFrom(g, tx, pending, done)

\* f says which accepted write each place of the log is, if it is one (0: none).
LogFrom(f, log, line) ==
  /\ f \in [1 .. Len(log) -> 0 .. Len(line)]
  /\ \A i \in 1 .. Len(log) :
       /\ log[i] \in Writes => f[i] > 0
       /\ f[i] > 0 => line[f[i]] = log[i] /\ log[i] \notin Updates

\* The first n places are in order, but for writes of doubtful commits that are
\* applied once more behind.
InOrder(f, log, n, again) ==
  \A i, j \in 1 .. n :
    (i < j /\ f[i] > 0 /\ f[j] > 0) =>
      f[i] < f[j] \/ (log[i] \in again /\ \E k \in j .. n : f[k] = f[i])

\* What the writer has taken from the queue, whether or not it is done with it.
Taken == Len(settled) + Len(pending)

\* A write of the log that the writer is not done with is in its batch, from a
\* commit whose answer was lost.
Held(f, log, n, taken, again) ==
  \A i \in 1 .. Len(log) : f[i] <= taken /\ (f[i] <= n \/ log[i] \in again)

\* The queued writes of the database, and of what the cloud holds of it, are in
\* the order of acceptance.
DbOrdered == \E f : /\ LogFrom(f, db, accepted)
                    /\ InOrder(f, db, Len(db), doubtful)
                    /\ InOrder(f, db, cloud, doubtful)
                    /\ Held(f, db, Handled, Taken, doubtful)

\* A statement of the batch extends the transaction by its own write, or by
\* nothing if it is an update (the loop of _execute_batch_writes_unlocked).
LEMMA TxOrderedExecutes ==
  ASSUME TypeInv, TxOrdered, WriterExecutes
  PROVE  TxOrdered'
<1>1. /\ pending \in Seq(Writes) /\ tx \in Seq(Writes) /\ done \in 0 .. Len(pending)
      /\ Len(pending) \in Nat /\ Len(tx) \in Nat
  BY DEF TypeInv, TypeOK, StateOK
<1>2. /\ wpc = "exec" /\ wpc' = "exec" /\ pending' = pending /\ done' = done + 1
      /\ done < Len(pending)
      /\ tx' = IF pending[done + 1] \in Updates THEN tx ELSE Append(tx, pending[done + 1])
  BY DEF WriterExecutes
<1>3. PICK g : TxFrom(g, tx, pending, done)
  BY <1>2 DEF TxOrdered
<1>4. done + 1 \in 1 .. Len(pending) /\ pending[done + 1] \in Writes
  BY <1>1, <1>2
<1>5. CASE pending[done + 1] \in Updates
  <2>1. tx' = tx
    BY <1>2, <1>5
  <2>2. g \in [1 .. Len(tx) -> 1 .. done + 1] /\ Len(tx) <= done + 1
    BY <1>1, <1>3 DEF TxFrom
  <2>3. \A i \in 1 .. done + 1 : pending[i] \notin Updates =>
          \E k \in 1 .. Len(tx) : g[k] = i
    BY <1>1, <1>3, <1>5 DEF TxFrom
  <2>4. TxFrom(g, tx', pending', done')
    BY <1>2, <1>3, <2>1, <2>2, <2>3 DEF TxFrom
  <2> QED BY <2>4 DEF TxOrdered
<1>6. CASE pending[done + 1] \notin Updates
  <2> DEFINE m == Len(tx)
             h == [k \in 1 .. m + 1 |-> IF k = m + 1 THEN done + 1 ELSE g[k]]
  <2>1. /\ tx' = Append(tx, pending[done + 1]) /\ Len(tx') = m + 1
        /\ \A k \in 1 .. m : tx'[k] = tx[k]
        /\ tx'[m + 1] = pending[done + 1]
    BY <1>1, <1>2, <1>4, <1>6
  <2>2. \A k \in 1 .. m : g[k] \in 1 .. done /\ h[k] = g[k]
    <3>1. \A k \in 1 .. m : g[k] \in 1 .. done
      BY <1>3 DEF TxFrom
    <3>2. \A k \in 1 .. m : k \in 1 .. m + 1 /\ k # m + 1
      BY <1>1
    <3>3. \A k \in 1 .. m : h[k] = g[k]
      BY <3>2
    <3> QED BY <3>1, <3>3
  <2>3. h[m + 1] = done + 1 /\ m + 1 \in 1 .. m + 1
    BY <1>1
  <2>4. \A k \in 1 .. m + 1 : k \in 1 .. m \/ k = m + 1
    BY <1>1
  <2>12. m + 1 <= done + 1
    BY <1>1, <1>3 DEF TxFrom
  <2>10. h = [k \in 1 .. m + 1 |-> h[k]]
    OBVIOUS
  <2> HIDE DEF h
  <2>11. \A k \in 1 .. m + 1 : h[k] \in 1 .. done + 1
    <3>1. \A k \in 1 .. m : h[k] \in 1 .. done + 1
      BY <1>1, <2>2
    <3>2. h[m + 1] \in 1 .. done + 1
      BY <1>1, <2>3
    <3> QED BY <2>4, <3>1, <3>2
  <2>5. h \in [1 .. m + 1 -> 1 .. done + 1]
    BY <2>10, <2>11
  <2>6. \A k \in 1 .. m + 1 : tx'[k] = pending[h[k]] /\ pending[h[k]] \notin Updates
    <3> SUFFICES ASSUME NEW k \in 1 .. m + 1
                 PROVE  tx'[k] = pending[h[k]] /\ pending[h[k]] \notin Updates
      OBVIOUS
    <3>1. CASE k \in 1 .. m
      BY <1>3, <2>1, <2>2, <3>1 DEF TxFrom
    <3>2. CASE k = m + 1
      BY <1>6, <2>1, <2>3, <3>2
    <3> QED BY <2>4, <3>1, <3>2
  <2>7. \A j, k \in 1 .. m + 1 : j < k => h[j] < h[k]
    <3> SUFFICES ASSUME NEW j \in 1 .. m + 1, NEW k \in 1 .. m + 1, j < k
                 PROVE  h[j] < h[k]
      OBVIOUS
    <3>1. j \in 1 .. m
      BY <1>1
    <3>2. CASE k \in 1 .. m
      BY <1>3, <2>2, <3>1, <3>2 DEF TxFrom
    <3>3. CASE k = m + 1
      BY <1>1, <2>2, <2>3, <3>1, <3>3
    <3> QED BY <2>4, <3>2, <3>3
  <2>8. \A i \in 1 .. done + 1 : pending[i] \notin Updates =>
          \E k \in 1 .. m + 1 : h[k] = i
    <3> SUFFICES ASSUME NEW i \in 1 .. done + 1, pending[i] \notin Updates
                 PROVE  \E k \in 1 .. m + 1 : h[k] = i
      OBVIOUS
    <3>1. CASE i = done + 1
      BY <2>3, <3>1
    <3>2. CASE i # done + 1
      <4>1. i \in 1 .. done
        BY <1>1, <3>2
      <4>2. PICK k \in 1 .. m : g[k] = i
        BY <1>3, <4>1 DEF TxFrom
      <4>3. k \in 1 .. m + 1 /\ h[k] = i
        BY <1>1, <2>2, <4>2
      <4> QED BY <4>3
    <3> QED BY <3>1, <3>2
  <2> HIDE DEF m
  <2>9. TxFrom(h, tx', pending', done')
    BY <1>2, <2>1, <2>5, <2>12, <2>6, <2>7, <2>8 DEF TxFrom
  <2> QED BY <2>9 DEF TxOrdered
<1> QED BY <1>5, <1>6

\* The open transaction is always the executed part of the batch, in order:
\* every attempt starts it anew.
LEMMA TxOrderedStep ==
  ASSUME TypeInv, TxOrdered, Next
  PROVE  TxOrdered'
<1>1. CASE wpc' \notin {"exec", "mark"}
  BY <1>1 DEF TxOrdered
<1>2. CASE UNCHANGED <<wpc, pending, done, tx>>
  BY <1>2 DEF TxOrdered, TxFrom
<1>3. CASE WriterBegins
  <2>1. done' = 0 /\ tx' = <<>> /\ Len(tx') = 0
    BY <1>3 DEF WriterBegins, txVars, TypeInv, StepsMatch
  <2> DEFINE none == [k \in 1 .. 0 |-> 1]
  <2>2. none \in [1 .. 0 -> 1 .. 0]
    OBVIOUS
  <2>3. \A k \in 1 .. 0 : FALSE
    OBVIOUS
  <2> HIDE DEF none
  <2>4. TxFrom(none, tx', pending', done')
    BY <2>1, <2>2, <2>3 DEF TxFrom
  <2> QED BY <2>4 DEF TxOrdered
<1>4. CASE WriterExecutes
  BY <1>4, TxOrderedExecutes
<1>5. CASE WriterCommits
  BY <1>5 DEF WriterCommits, TxOrdered
<1> QED BY <1>1, <1>2, <1>3, <1>4, <1>5, TransactionSteps

\* What is handled has been accepted.
LEMMA HandledAccepted ==
  ASSUME TypeInv, HandledInOrder
  PROVE  /\ Handled \in Nat /\ Len(accepted) \in Nat /\ Handled <= Len(accepted)
         /\ \A i \in 1 .. Len(pending) :
              /\ Len(settled) + i \in 1 .. Len(accepted)
              /\ accepted[Len(settled) + i] = pending[i]
<1>1. /\ queue \in Seq(Writes) /\ pending \in Seq(Writes) /\ settled \in Seq(Writes)
      /\ accepted = (settled \o pending) \o queue
  BY DEF TypeInv, TypeOK, StateOK, HandledInOrder
<1>2. /\ Len(accepted) = Len(settled) + Len(pending) + Len(queue)
      /\ Len(settled) \in Nat /\ Len(pending) \in Nat /\ Len(queue) \in Nat
  BY <1>1
<1>3. ASSUME NEW i \in 1 .. Len(pending)
      PROVE  /\ Len(settled) + i \in 1 .. Len(accepted)
             /\ accepted[Len(settled) + i] = pending[i]
  <2>1. Len(settled) + i \in 1 .. Len(settled) + Len(pending)
    BY <1>2
  <2>2. (settled \o pending)[Len(settled) + i] = pending[i]
    BY <1>1, <2>1
  <2>3. accepted[Len(settled) + i] = (settled \o pending)[Len(settled) + i]
    BY <1>1, <2>1
  <2> QED BY <1>2, <2>1, <2>2, <2>3
<1> QED BY <1>2, <1>3 DEF Handled

\* What the writer has taken it does not give back.
LEMMA TakenGrows ==
  ASSUME TypeInv, Next
  PROVE  Taken \in Nat /\ Taken' \in Nat /\ Taken <= Taken' /\ Handled <= Taken
<1>1. /\ queue \in Seq(Writes) /\ pending \in Seq(Writes) /\ settled \in Seq(Writes)
      /\ Len(settled) \in Nat /\ Len(pending) \in Nat
  BY DEF TypeInv, TypeOK, StateOK
<1>2. /\ pending' \in Seq(Writes) /\ settled' \in Seq(Writes)
      /\ Len(settled') \in Nat /\ Len(pending') \in Nat
  BY StateStep DEF StateOK
<1>3. ASSUME UNCHANGED <<settled, pending>> PROVE Taken <= Taken'
  BY <1>1, <1>3 DEF Taken
<1>4. ASSUME WriterTakes PROVE Taken <= Taken'
  <2>1. queue # <<>> /\ pending' = Append(pending, Head(queue)) /\ settled' = settled
    BY <1>4 DEF WriterTakes, history
  <2>2. Len(pending') = Len(pending) + 1
    BY <1>1, <2>1
  <2> QED BY <1>1, <2>1, <2>2 DEF Taken
<1>5. ASSUME settled' = settled \o pending PROVE Taken <= Taken'
  <2>1. Len(settled') = Len(settled) + Len(pending)
    BY <1>1, <1>5
  <2> QED BY <1>1, <1>2, <2>1 DEF Taken
<1>6. ASSUME ProcessGone PROVE Taken <= Taken'
  <2>1. settled' = settled \o pending \o queue
    BY <1>6 DEF ProcessGone
  <2>2. Len(settled') >= Len(settled) + Len(pending)
    BY <1>1, <2>1
  <2> QED BY <1>1, <1>2, <2>2 DEF Taken
<1>7. Taken <= Taken'
  <2>1. CASE Elsewhere \/ \E c \in Clients : Put(c)
    BY <1>1, <1>2, <1>3, <2>1 DEF Elsewhere, Put, writerVars
  <2>2. CASE WriterMarks
    BY <1>5, <2>2 DEF WriterMarks
  <2>3. ASSUME NEW e \in Errors, HandleError(e) PROVE Taken <= Taken'
    BY <1>1, <1>3, <1>5, <2>3 DEF HandleError, Taken
  <2> QED BY <1>4, <1>6, <2>1, <2>2, <2>3, ElsewhereSteps
<1> QED BY <1>1, <1>2, <1>7 DEF Taken, Handled

\* The writer's transaction reaches the database, heard or unheard.
Applies == /\ wpc = "exec" /\ done = Len(pending) /\ db' = db \o tx
           /\ UNCHANGED <<cloud, accepted, settled, pending>>
           /\ wpc' = "mark" \/ Range(tx) \subseteq doubtful'

\* Every step keeps the database as it is, adds a direct save at its end, cuts
\* it back to what the cloud holds, or applies the writer's batch.
LEMMA DbSteps ==
  ASSUME TypeInv, Next
  PROVE  \/ UNCHANGED db /\ cloud' \in {cloud, Len(db)}
         \/ \E s \in Saves : db' = Append(db, s) /\ UNCHANGED cloud
         \/ db' = SubSeq(db, 1, cloud) /\ UNCHANGED cloud
         \/ Applies
<1> USE DEF sharedVars, dbVars, writerVars, txVars, clientVars, ctlVars, history
<1> DEFINE Same == UNCHANGED <<db, cloud>>
           Cut == db' = SubSeq(db, 1, cloud) /\ UNCHANGED cloud
           Saved == \E s \in Saves : db' = Append(db, s) /\ UNCHANGED cloud
<1>1. ASSUME NEW a, GetConn(a), UNCHANGED cloud PROVE Same \/ Cut
  BY <1>1 DEF GetConn, Connected
<1>2. ASSUME NEW c \in Clients, ClientStep(c)
      PROVE  Same \/ Cut \/ Saved
  <2>1. ASSUME NEW s \in Saves, SaveConnect(c, s) PROVE Same \/ Cut
    BY <1>1, <2>1 DEF SaveConnect
  <2>2. CASE SaveCommits(c) \/ SaveFails(c)
    BY <2>2 DEF SaveCommits, SaveFails, TypeInv, StepsMatch
  <2>3. CASE \/ \E w \in Writes : Enqueue(c, w)
            \/ Put(c) \/ PutTimesOut(c) \/ SaveInserts(c) \/ SaveUpdates(c)
    BY <2>3 DEF Enqueue, Put, PutTimesOut, SaveInserts, SaveUpdates
  <2> QED BY <1>2, <2>1, <2>2, <2>3 DEF ClientStep, ClientContinues
<1>3. CASE WriterStep
  <2>1. CASE WriterConnects
    BY <1>1, <2>1 DEF WriterConnects
  <2>2. ASSUME NEW e \in Errors, WriterConnectFails(e) \/ WriterFails(e)
        PROVE  Same
    BY <2>2 DEF WriterConnectFails, WriterFails
  <2>5. ASSUME NEW e \in Errors, WriterRetries(e) \/ WriterRaises(e)
        PROVE  Same \/ Applies
    BY <2>5 DEF WriterRetries, WriterRaises, Raises, CommitsUnheard, Applies
  <2>6. CASE WriterCommits
    BY <2>6 DEF WriterCommits, Applies
  <2>3. CASE WriterLeaves \/ WriterEnds \/ WriterTakes \/ WriterFlushes
             \/ WriterBegins \/ WriterExecutes \/ WriterMarks \/ WriterTriesAgain
    BY <2>3 DEF WriterLeaves, WriterEnds, WriterTakes, WriterFlushes,
       WriterBegins, WriterExecutes, WriterMarks, WriterTriesAgain
  <2> QED BY <1>3, <2>1, <2>2, <2>3, <2>5, <2>6 DEF WriterStep
<1>4. ASSUME SyncStep PROVE Same \/ Cut \/ (UNCHANGED db /\ cloud' \in {cloud, Len(db)})
  <2>1. CASE SyncConnects
    BY <1>1, <2>1 DEF SyncConnects
  <2>2. CASE SyncWakes \/ SyncEnds \/ SyncSkips \/ SyncPushes \/ SyncFails \/ SyncResets
    BY <2>2 DEF SyncWakes, SyncEnds, SyncSkips, SyncPushes, SyncFails, SyncResets
  <2> QED BY <1>4, <2>1, <2>2 DEF SyncStep
<1>5. ASSUME CtlStep PROVE Same \/ Cut \/ (UNCHANGED db /\ cloud' \in {cloud, Len(db)})
  <2>1. CASE WarmupOpens
    BY <1>1, <2>1 DEF WarmupOpens
  <2>2. CASE RecoveryOpens
    <3>1. /\ UNCHANGED db \/ db' = SubSeq(db, 1, cloud)
          /\ cloud' = Len(db')
      BY <2>2 DEF RecoveryOpens, GetConn, Connected
    <3>2. Len(SubSeq(db, 1, cloud)) = cloud
      BY RangeCut DEF TypeInv, TypeOK, StateOK
    <3> QED BY <3>1, <3>2
  <2>3. CASE \/ CleanupStopsSync \/ CleanupCloses \/ Exit \/ RecoveryStopsWriter
            \/ RecoveryCloses \/ RecoveryMovesFile \/ RecoveryFails
    BY <2>3 DEF CleanupStopsSync, CleanupCloses, Exit, ProcessGone, RecoveryStopsWriter,
       RecoveryCloses, RecoveryMovesFile, RecoveryFails
  <2> QED BY <1>5, <2>1, <2>2, <2>3 DEF CtlStep
<1>6. CASE Boot \/ WarmupCloses \/ CleanupStarts \/ RecoveryStarts \/ Crash
           \/ HealthCheckFails \/ Tick \/ Quiet
  BY <1>6 DEF Boot, WarmupCloses, CleanupStarts, RecoveryStarts, Crash, ProcessGone,
     HealthCheckFails, Tick, Quiet
<1> QED BY <1>2, <1>3, <1>4, <1>5, <1>6 DEF Next

\* A commit that was in doubt stays so.
LEMMA DoubtStays ==
  ASSUME TypeInv, Next
  PROVE  doubtful \subseteq doubtful'
<1> USE DEF sharedVars, dbVars, writerVars, txVars, clientVars, ctlVars, history
<1>1. ASSUME NEW c \in Clients, ClientStep(c)
      PROVE  UNCHANGED doubtful
  BY <1>1 DEF ClientStep, ClientContinues, Enqueue, Put, PutTimesOut, SaveConnect,
     SaveInserts, SaveUpdates, SaveCommits, SaveFails
<1>2. CASE WriterLeaves \/ WriterEnds \/ WriterTakes \/ WriterFlushes \/ WriterConnects
           \/ WriterBegins \/ WriterExecutes \/ WriterCommits \/ WriterMarks
           \/ WriterTriesAgain
  BY <1>2 DEF WriterLeaves, WriterEnds, WriterTakes, WriterFlushes, WriterConnects,
     WriterBegins, WriterExecutes, WriterCommits, WriterMarks, WriterTriesAgain
<1>3. ASSUME NEW e \in Errors, \/ WriterConnectFails(e) \/ WriterRetries(e)
                               \/ WriterRaises(e) \/ WriterFails(e)
      PROVE  doubtful \subseteq doubtful'
  BY <1>3 DEF WriterConnectFails, WriterRetries, WriterRaises, WriterFails, Raises,
     CommitsUnheard
<1>4. CASE SyncStep
  BY <1>4 DEF SyncStep, SyncWakes, SyncEnds, SyncSkips, SyncConnects, SyncPushes,
     SyncFails, SyncResets
<1>5. CASE CtlStep
  BY <1>5 DEF CtlStep, WarmupOpens, CleanupStopsSync, CleanupCloses, Exit, ProcessGone,
     RecoveryStopsWriter, RecoveryCloses, RecoveryMovesFile, RecoveryOpens, RecoveryFails
<1>6. CASE Boot \/ WarmupCloses \/ CleanupStarts \/ RecoveryStarts \/ Crash
           \/ HealthCheckFails \/ Tick \/ Quiet
  BY <1>6 DEF Boot, WarmupCloses, CleanupStarts, RecoveryStarts, Crash, ProcessGone,
     HealthCheckFails, Tick, Quiet
<1> QED BY <1>1, <1>2, <1>3, <1>4, <1>5, <1>6 DEF Next, WriterStep

\* A step that takes from the database or adds no queued write to it leaves
\* what is there in order.
LEMMA DbOrderedKeeps ==
  ASSUME TypeInv, HandledInOrder, DbOrdered, Next,
         \A i \in 1 .. Len(db') : IF i \in 1 .. Len(db) THEN db'[i] = db[i]
                                                       ELSE db'[i] \notin Writes,
         \A n \in {Len(db'), cloud'} : n \in Nat /\ n <= Len(db'),
         \A n \in {Len(db'), cloud'} : n \in {cloud, Len(db)} \/ n = Len(db) + 1
  PROVE  DbOrdered'
<1>1. PICK f : /\ LogFrom(f, db, accepted)
               /\ InOrder(f, db, Len(db), doubtful)
               /\ InOrder(f, db, cloud, doubtful)
               /\ Held(f, db, Handled, Taken, doubtful)
  BY DEF DbOrdered
<1> DEFINE h == [i \in 1 .. Len(db') |-> IF i \in 1 .. Len(db) THEN f[i] ELSE 0]
<1>2. /\ Handled \in Nat /\ Handled' \in Nat /\ Handled <= Handled'
      /\ Len(accepted) \in Nat /\ Len(accepted') \in Nat
      /\ Len(accepted) <= Len(accepted')
      /\ \A p \in 1 .. Len(accepted) : accepted'[p] = accepted[p]
      /\ Taken \in Nat /\ Taken' \in Nat /\ Taken <= Taken'
      /\ doubtful \subseteq doubtful'
      /\ Len(db) \in Nat /\ cloud \in 0 .. Len(db)
  <2>1. Len(db) \in Nat /\ cloud \in 0 .. Len(db)
    BY DEF TypeInv, TypeOK, StateOK
  <2> QED BY <2>1, Grows, TakenGrows, DoubtStays
<1>3. \A i \in 1 .. Len(db) : f[i] \in 0 .. Len(accepted)
  BY <1>1 DEF LogFrom
<1>4. h \in [1 .. Len(db') -> 0 .. Len(accepted')]
  BY <1>2, <1>3
<1>5. ASSUME NEW i \in 1 .. Len(db')
      PROVE  /\ i \in 1 .. Len(db) => h[i] = f[i] /\ db'[i] = db[i]
             /\ i \notin 1 .. Len(db) => h[i] = 0 /\ db'[i] \notin Writes
  BY <1>5
<1> HIDE DEF h
<1>6. ASSUME NEW i \in 1 .. Len(db')
      PROVE  /\ db'[i] \in Writes => h[i] > 0
             /\ h[i] > 0 => accepted'[h[i]] = db'[i] /\ db'[i] \notin Updates
             /\ h[i] <= Taken' /\ (h[i] <= Handled' \/ db'[i] \in doubtful')
  <2>1. CASE i \in 1 .. Len(db)
    <3>1. h[i] = f[i] /\ db'[i] = db[i] /\ f[i] \in 0 .. Len(accepted)
      BY <1>3, <1>5, <2>1
    <3>2. /\ db[i] \in Writes => f[i] > 0
          /\ f[i] > 0 => accepted[f[i]] = db[i] /\ db[i] \notin Updates
          /\ f[i] <= Taken /\ (f[i] <= Handled \/ db[i] \in doubtful)
      BY <1>1, <2>1 DEF LogFrom, Held
    <3> QED BY <1>2, <3>1, <3>2
  <2>2. CASE i \notin 1 .. Len(db)
    BY <1>2, <1>5, <2>2
  <2> QED BY <2>1, <2>2
<1>7. ASSUME NEW n \in {Len(db'), cloud'}
      PROVE  InOrder(h, db', n, doubtful')
  <2> SUFFICES ASSUME NEW i \in 1 .. n, NEW j \in 1 .. n, i < j, h[i] > 0, h[j] > 0
               PROVE  h[i] < h[j] \/ (db'[i] \in doubtful' /\ \E k \in j .. n : h[k] = h[i])
    BY DEF InOrder
  <2>1. /\ n \in Nat /\ n <= Len(db') /\ i \in 1 .. Len(db') /\ j \in 1 .. Len(db')
        /\ n \in {cloud, Len(db)} \/ n = Len(db) + 1
    OBVIOUS
  <2>2. i \in 1 .. Len(db) /\ j \in 1 .. Len(db)
    BY <1>5, <2>1
  <2>3. h[i] = f[i] /\ h[j] = f[j] /\ db'[i] = db[i]
    BY <1>5, <2>1, <2>2
  <2>4. PICK m \in {cloud, Len(db)} : j <= m /\ m <= n
    BY <1>2, <2>1, <2>2
  <2>5. i \in 1 .. m /\ j \in 1 .. m /\ m \in Nat /\ m <= Len(db)
    BY <1>2, <2>1, <2>2, <2>4
  <2>6. f[i] < f[j] \/ (db[i] \in doubtful /\ \E k \in j .. m : f[k] = f[i])
    <3>1. InOrder(f, db, m, doubtful)
      BY <1>1
    <3> QED BY <2>3, <2>5, <3>1 DEF InOrder
  <2>7. ASSUME NEW k \in j .. m, f[k] = f[i] PROVE k \in j .. n /\ h[k] = h[i]
    <3>1. k \in 1 .. Len(db) /\ k \in 1 .. Len(db') /\ k \in j .. n
      BY <2>1, <2>4, <2>5
    <3> QED BY <1>5, <2>3, <2>7, <3>1
  <2> QED BY <1>2, <2>3, <2>6, <2>7
<1>8. LogFrom(h, db', accepted') /\ Held(h, db', Handled', Taken', doubtful')
  BY <1>4, <1>6 DEF LogFrom, Held
<1>9. /\ LogFrom(h, db', accepted')
      /\ InOrder(h, db', Len(db'), doubtful')
      /\ InOrder(h, db', cloud', doubtful')
      /\ Held(h, db', Handled', Taken', doubtful')
  BY <1>7, <1>8
<1> QED BY <1>9 DEF DbOrdered

\* A commit, heard or not, adds the writes of the batch behind those of earlier
\* batches, and those of an unheard commit of the same batch once more.
LEMMA DbOrderedApplies ==
  ASSUME TypeInv, HandledInOrder, TxOrdered, DbOrdered, Next, Applies
  PROVE  DbOrdered'
<1>1. /\ wpc = "exec" /\ done = Len(pending) /\ db' = db \o tx
      /\ UNCHANGED <<cloud, pending, settled, accepted>>
      /\ wpc' = "mark" \/ Range(tx) \subseteq doubtful'
  BY DEF Applies
<1>2. /\ db \in Seq(Items) /\ tx \in Seq(Writes) /\ pending \in Seq(Writes)
      /\ settled \in Seq(Writes)
      /\ Len(db) \in Nat /\ Len(tx) \in Nat /\ Len(pending) \in Nat /\ Len(settled) \in Nat
      /\ cloud \in 0 .. Len(db)
  BY DEF TypeInv, TypeOK, StateOK
<1>3. PICK f : /\ LogFrom(f, db, accepted)
               /\ InOrder(f, db, Len(db), doubtful)
               /\ InOrder(f, db, cloud, doubtful)
               /\ Held(f, db, Handled, Taken, doubtful)
  BY DEF DbOrdered
<1>4. PICK g : TxFrom(g, tx, pending, done)
  BY <1>1 DEF TxOrdered
<1>5. /\ Handled = Len(settled) /\ Taken = Len(settled) + Len(pending) /\ Taken' = Taken
      /\ Handled' \in Nat /\ Handled <= Handled' /\ (wpc' = "mark" => Handled' = Taken)
      /\ doubtful \subseteq doubtful'
  BY <1>1, Grows, DoubtStays DEF Handled, Taken
<1>16. /\ Len(accepted) \in Nat /\ Len(accepted) = Len(accepted')
       /\ \A i \in 1 .. Len(pending) :
            /\ Len(settled) + i \in 1 .. Len(accepted)
            /\ accepted[Len(settled) + i] = pending[i]
  BY <1>1, HandledAccepted
<1> DEFINE n == Len(db)
           h == [i \in 1 .. n + Len(tx) |->
                   IF i \in 1 .. n THEN f[i] ELSE Len(settled) + g[i - n]]
<1>6. /\ Len(db') = n + Len(tx)
      /\ \A i \in 1 .. n : db'[i] = db[i]
      /\ \A k \in 1 .. Len(tx) : db'[n + k] = tx[k]
  BY <1>1, <1>2
<1>7. \A i \in 1 .. n : f[i] \in 0 .. Len(accepted) /\ h[i] = f[i]
  <2>1. \A i \in 1 .. n : f[i] \in 0 .. Len(accepted)
    BY <1>3 DEF LogFrom
  <2>2. \A i \in 1 .. n : i \in 1 .. n + Len(tx)
    BY <1>2
  <2>3. \A i \in 1 .. n : h[i] = f[i]
    BY <2>2
  <2> QED BY <2>1, <2>3
<1>8. \A k \in 1 .. Len(tx) : /\ g[k] \in 1 .. Len(pending)
                              /\ h[n + k] = Len(settled) + g[k]
  <2>1. \A k \in 1 .. Len(tx) : g[k] \in 1 .. Len(pending)
    BY <1>1, <1>4 DEF TxFrom
  <2>2. \A k \in 1 .. Len(tx) : /\ n + k \in 1 .. n + Len(tx)
                                /\ n + k \notin 1 .. n /\ (n + k) - n = k
    BY <1>2
  <2>3. \A k \in 1 .. Len(tx) : h[n + k] = Len(settled) + g[k]
    BY <2>2
  <2> QED BY <2>1, <2>3
<1>9. \A i \in 1 .. n + Len(tx) : i \in 1 .. n \/ \E k \in 1 .. Len(tx) : i = n + k
  <2> SUFFICES ASSUME NEW i \in 1 .. n + Len(tx), i \notin 1 .. n
               PROVE  \E k \in 1 .. Len(tx) : i = n + k
    OBVIOUS
  <2>1. i - n \in 1 .. Len(tx) /\ i = n + (i - n)
    BY <1>2
  <2> QED BY <2>1
<1>10. DOMAIN h = 1 .. n + Len(tx) /\ h = [i \in 1 .. n + Len(tx) |-> h[i]]
  OBVIOUS
<1> HIDE DEF h
<1>11. \A i \in 1 .. n + Len(tx) : h[i] \in 0 .. Len(accepted)
  <2>1. \A k \in 1 .. Len(tx) : h[n + k] \in 0 .. Len(accepted)
    BY <1>8, <1>16
  <2> QED BY <1>7, <1>9, <2>1
<1>12. h \in [1 .. Len(db') -> 0 .. Len(accepted')]
  BY <1>6, <1>10, <1>11, <1>16
<1>13. ASSUME NEW i \in 1 .. n + Len(tx)
       PROVE  /\ db'[i] \in Writes => h[i] > 0
              /\ h[i] > 0 => accepted[h[i]] = db'[i] /\ db'[i] \notin Updates
              /\ h[i] <= Taken /\ (h[i] <= Handled' \/ db'[i] \in doubtful')
  <2>1. CASE i \in 1 .. n
    <3>1. h[i] = f[i] /\ db'[i] = db[i] /\ f[i] \in Nat
      BY <1>6, <1>7, <1>16, <2>1
    <3>2. /\ db[i] \in Writes => f[i] > 0
          /\ f[i] > 0 => accepted[f[i]] = db[i] /\ db[i] \notin Updates
          /\ f[i] <= Taken /\ (f[i] <= Handled \/ db[i] \in doubtful)
      BY <1>3, <2>1 DEF LogFrom, Held
    <3> QED BY <1>2, <1>5, <3>1, <3>2
  <2>2. ASSUME NEW k \in 1 .. Len(tx), i = n + k
        PROVE  /\ h[i] > 0 /\ accepted[h[i]] = db'[i] /\ db'[i] \notin Updates
               /\ h[i] <= Taken /\ (h[i] <= Handled' \/ db'[i] \in doubtful')
    <3>1. /\ g[k] \in 1 .. Len(pending) /\ h[i] = Len(settled) + g[k] /\ db'[i] = tx[k]
      BY <1>6, <1>8, <2>2
    <3>2. tx[k] = pending[g[k]] /\ tx[k] \notin Updates
      BY <1>4 DEF TxFrom
    <3>3. accepted[Len(settled) + g[k]] = pending[g[k]]
      BY <1>16, <3>1
    <3>4. h[i] > 0 /\ h[i] <= Taken
      BY <1>2, <1>5, <3>1
    <3>5. tx[k] \in Range(tx)
      BY <1>2 DEF Range
    <3> QED BY <1>1, <1>5, <3>1, <3>2, <3>3, <3>4, <3>5
  <2> QED BY <1>9, <2>1, <2>2
<1>17. InOrder(h, db', cloud, doubtful')
  <2> SUFFICES ASSUME NEW i \in 1 .. cloud, NEW j \in 1 .. cloud, i < j, h[i] > 0, h[j] > 0
               PROVE  \/ h[i] < h[j]
                      \/ db'[i] \in doubtful' /\ \E k \in j .. cloud : h[k] = h[i]
    BY DEF InOrder
  <2>1. i \in 1 .. n /\ j \in 1 .. n /\ \A k \in j .. cloud : k \in 1 .. n
    BY <1>2
  <2>2. /\ h[i] = f[i] /\ h[j] = f[j] /\ db'[i] = db[i]
        /\ \A k \in j .. cloud : h[k] = f[k]
    BY <1>6, <1>7, <2>1
  <2>3. f[i] < f[j] \/ (db[i] \in doubtful /\ \E k \in j .. cloud : f[k] = f[i])
    BY <1>3, <2>2 DEF InOrder
  <2> QED BY <1>5, <2>2, <2>3
<1>14. ASSUME NEW i \in 1 .. n + Len(tx), NEW j \in 1 .. n + Len(tx),
              i < j, h[i] > 0, h[j] > 0
       PROVE  \/ h[i] < h[j]
              \/ db'[i] \in doubtful' /\ \E k \in j .. n + Len(tx) : h[k] = h[i]
  <2>1. CASE i \in 1 .. n /\ j \in 1 .. n
    <3>1. h[i] = f[i] /\ h[j] = f[j] /\ db'[i] = db[i]
      BY <1>6, <1>7, <2>1
    <3>2. f[i] < f[j] \/ (db[i] \in doubtful /\ \E k \in j .. n : f[k] = f[i])
      BY <1>3, <1>14, <2>1, <3>1 DEF InOrder
    <3>3. ASSUME NEW k \in j .. n PROVE k \in j .. n + Len(tx) /\ h[k] = f[k]
      BY <1>2, <1>7, <2>1
    <3> QED BY <1>5, <3>1, <3>2, <3>3
  <2>2. ASSUME NEW k \in 1 .. Len(tx), j = n + k, i \in 1 .. n
        PROVE  \/ h[i] < h[j]
               \/ db'[i] \in doubtful' /\ \E l \in j .. n + Len(tx) : h[l] = h[i]
    <3>1. g[k] \in 1 .. Len(pending) /\ h[j] = Len(settled) + g[k]
      BY <1>8, <2>2
    <3>2. h[i] = f[i] /\ db'[i] = db[i] /\ f[i] \in 1 .. Len(accepted)
      BY <1>6, <1>7, <1>14, <1>16, <2>2
    <3>3. /\ f[i] <= Len(settled) + Len(pending)
          /\ f[i] <= Len(settled) \/ db[i] \in doubtful
          /\ accepted[f[i]] = db[i] /\ db[i] \notin Updates
      BY <1>3, <1>5, <2>2, <3>2 DEF LogFrom, Held
    <3>4. CASE f[i] <= Len(settled)
      BY <1>2, <3>1, <3>2, <3>4
    <3>5. CASE f[i] > Len(settled)
      <4> DEFINE p == f[i] - Len(settled)
      <4>1. p \in 1 .. Len(pending) /\ f[i] = Len(settled) + p
        BY <1>2, <3>2, <3>3, <3>5
      <4> HIDE DEF p
      <4>2. pending[p] \notin Updates
        BY <1>16, <3>3, <4>1
      <4>3. PICK l \in 1 .. Len(tx) : g[l] = p
        BY <1>1, <1>4, <4>1, <4>2 DEF TxFrom
      <4>4. h[n + l] = h[i]
        BY <1>8, <3>2, <4>1, <4>3
      <4>5. CASE l >= k
        <5>1. n + l \in j .. n + Len(tx)
          BY <1>2, <2>2, <4>5
        <5>2. db[i] \in doubtful
          BY <1>2, <3>2, <3>3, <3>5
        <5> QED BY <1>5, <3>2, <4>4, <5>1, <5>2
      <4>6. CASE l < k
        <5>1. g[l] < g[k]
          BY <1>4, <4>6 DEF TxFrom
        <5> QED BY <1>2, <3>1, <3>2, <4>1, <4>3, <5>1
      <4> QED BY <4>5, <4>6
    <3> QED BY <1>2, <3>2, <3>4, <3>5
  <2>3. ASSUME NEW k \in 1 .. Len(tx), j = n + k, NEW l \in 1 .. Len(tx), i = n + l
        PROVE  h[i] < h[j]
    <3>1. l < k
      BY <1>2, <1>14, <2>3
    <3>2. g[l] < g[k]
      BY <1>4, <3>1 DEF TxFrom
    <3>3. /\ h[i] = Len(settled) + g[l] /\ h[j] = Len(settled) + g[k]
          /\ g[l] \in Nat /\ g[k] \in Nat
      BY <1>2, <1>8, <2>3
    <3> QED BY <1>2, <3>2, <3>3
  <2>4. i \notin 1 .. n => j \notin 1 .. n
    BY <1>2, <1>14
  <2> QED BY <1>9, <2>1, <2>2, <2>3, <2>4
<1>18. InOrder(h, db', Len(db'), doubtful')
  BY <1>6, <1>14 DEF InOrder
<1> HIDE DEF n
<1>19. LogFrom(h, db', accepted') /\ Held(h, db', Handled', Taken', doubtful')
  BY <1>1, <1>5, <1>6, <1>12, <1>13 DEF LogFrom, Held
<1>15. /\ LogFrom(h, db', accepted')
       /\ InOrder(h, db', Len(db'), doubtful')
       /\ InOrder(h, db', cloud', doubtful')
       /\ Held(h, db', Handled', Taken', doubtful')
  BY <1>1, <1>17, <1>18, <1>19
<1> QED BY <1>15 DEF DbOrdered

\* Every step leaves the queued writes of the database in the order the queue
\* took them.
LEMMA DbOrderedStep ==
  ASSUME TypeInv, HandledInOrder, TxOrdered, DbOrdered, Next
  PROVE  DbOrdered'
<1>1. db \in Seq(Items) /\ cloud \in 0 .. Len(db) /\ Len(db) \in Nat /\ cloud \in Nat
  BY DEF TypeInv, TypeOK, StateOK
<1> DEFINE Kept == /\ \A i \in 1 .. Len(db') : IF i \in 1 .. Len(db) THEN db'[i] = db[i]
                                                                  ELSE db'[i] \notin Writes
                   /\ \A n \in {Len(db'), cloud'} : n \in Nat /\ n <= Len(db')
                   /\ \A n \in {Len(db'), cloud'} : n \in {cloud, Len(db)} \/ n = Len(db) + 1
<1>2. ASSUME UNCHANGED db, cloud' \in {cloud, Len(db)} PROVE Kept
  BY <1>1, <1>2
<1>3. ASSUME NEW s \in Saves, db' = Append(db, s), UNCHANGED cloud PROVE Kept
  <2>1. s \in Items /\ s \notin Writes
    BY WritesAssumption DEF Items
  <2>2. /\ Len(db') = Len(db) + 1 /\ db'[Len(db) + 1] = s
        /\ \A i \in 1 .. Len(db) : db'[i] = db[i]
    BY <1>1, <1>3, <2>1
  <2> QED BY <1>1, <1>3, <2>1, <2>2
<1>4. ASSUME db' = SubSeq(db, 1, cloud), UNCHANGED cloud PROVE Kept
  <2>1. Len(db') = cloud /\ \A i \in 1 .. cloud : db'[i] = db[i]
    BY <1>1, <1>4
  <2> QED BY <1>1, <1>4, <2>1
<1>5. CASE Kept
  BY <1>5, DbOrderedKeeps
<1> HIDE DEF Kept
<1> QED BY <1>2, <1>3, <1>4, <1>5, DbSteps, DbOrderedApplies

\* The database applies queued writes in the order the queue took them, through
\* retries, lost connections, rebuilds and saves of other threads, and a write
\* twice only when a commit took effect unheard: the open transaction is the
\* batch's executed part in order, and a write of the database that the writer
\* is not done with is in its batch, so that it is applied again, in order.
THEOREM AppliedCorrect == Spec => []AppliedInOrder
<1> DEFINE IInv == TxOrdered /\ DbOrdered
<1>1. Init => IInv
  <2> SUFFICES ASSUME Init PROVE IInv
    OBVIOUS
  <2>1. TxOrdered
    BY DEF Init, TxOrdered
  <2>2. db = <<>> /\ Len(db) = 0 /\ cloud = 0 /\ Len(accepted) \in Nat
    BY DEF Init
  <2> DEFINE none == [i \in 1 .. 0 |-> 0]
  <2>3. none \in [1 .. 0 -> 0 .. Len(accepted)] /\ \A i \in 1 .. 0 : FALSE
    BY <2>2
  <2> HIDE DEF none
  <2>4. /\ LogFrom(none, db, accepted) /\ Held(none, db, Handled, Taken, doubtful)
        /\ InOrder(none, db, Len(db), doubtful) /\ InOrder(none, db, cloud, doubtful)
    BY <2>2, <2>3 DEF LogFrom, Held, InOrder
  <2> QED BY <2>1, <2>4 DEF DbOrdered
<1>2. TypeInv /\ HandledInOrder /\ IInv /\ [Next]_vars => IInv'
  <2> SUFFICES ASSUME TypeInv, HandledInOrder, IInv, [Next]_vars PROVE IInv'
    OBVIOUS
  <2>1. CASE UNCHANGED vars
    <3>1. UNCHANGED <<db, cloud, wpc, pending, done, tx, accepted, settled, doubtful>>
      BY <2>1 DEF vars, dbVars, writerVars, txVars, history
    <3> QED BY <3>1 DEF TxOrdered, TxFrom, DbOrdered, LogFrom, InOrder, Held, Handled, Taken
  <2>2. CASE Next
    BY <2>2, TxOrderedStep, DbOrderedStep
  <2> QED BY <2>1, <2>2
<1>3. TypeInv /\ HandledInOrder /\ IInv => AppliedInOrder
  <2> SUFFICES ASSUME TypeInv, HandledInOrder, DbOrdered PROVE AppliedInOrder
    OBVIOUS
  <2>1. PICK f : /\ LogFrom(f, db, accepted)
                 /\ InOrder(f, db, Len(db), doubtful)
                 /\ InOrder(f, db, cloud, doubtful)
    BY DEF DbOrdered
  <2>2. /\ db \in Seq(Items) /\ cloud \in 0 .. Len(db) /\ Len(db) \in Nat
        /\ DOMAIN accepted = 1 .. Len(accepted) /\ Len(accepted) \in Nat
    BY DEF TypeInv, TypeOK, StateOK
  <2>3. ASSUME NEW log \in Seq(Items), Len(log) \in {cloud, Len(db)},
               \A i \in 1 .. Len(log) : log[i] = db[i]
        PROVE  AppliesInOrder(log)
    <3> SUFFICES ASSUME NEW i \in 1 .. Len(log), NEW j \in 1 .. Len(log),
                        i < j, log[i] \in Writes, log[j] \in Writes
                 PROVE  \/ Earlier(log[i], log[j])
                        \/ /\ log[i] \in doubtful
                           /\ \E k \in j .. Len(log) : log[k] = log[i]
      BY DEF AppliesInOrder
    <3>1. /\ i \in 1 .. Len(db) /\ j \in 1 .. Len(db)
          /\ \A k \in j .. Len(log) : k \in 1 .. Len(log) /\ k \in 1 .. Len(db)
      BY <2>2, <2>3
    <3>2. log[i] = db[i] /\ log[j] = db[j] /\ \A k \in j .. Len(log) : log[k] = db[k]
      BY <2>3, <3>1
    <3>3. ASSUME NEW k \in 1 .. Len(db), f[k] > 0
          PROVE  f[k] \in 1 .. Len(accepted) /\ accepted[f[k]] = db[k]
      BY <2>1, <2>2, <3>3 DEF LogFrom
    <3>4. f[i] > 0 /\ f[j] > 0
      BY <2>1, <3>1, <3>2 DEF LogFrom
    <3>5. f[i] < f[j] \/ (db[i] \in doubtful /\ \E k \in j .. Len(log) : f[k] = f[i])
      <4>1. InOrder(f, db, Len(log), doubtful)
        BY <2>1, <2>3
      <4> QED BY <3>4, <4>1 DEF InOrder
    <3>6. CASE f[i] < f[j]
      <4>1. Earlier(db[i], db[j])
        BY <2>2, <3>1, <3>3, <3>4, <3>6 DEF Earlier
      <4> QED BY <3>2, <4>1
    <3>7. ASSUME db[i] \in doubtful, NEW k \in j .. Len(log), f[k] = f[i]
          PROVE  log[i] \in doubtful /\ log[k] = log[i]
      <4>1. accepted[f[k]] = db[k] /\ accepted[f[i]] = db[i]
        BY <3>1, <3>3, <3>4, <3>7
      <4> QED BY <3>2, <3>7, <4>1
    <3> QED BY <3>5, <3>6, <3>7
  <2>4. AppliesInOrder(db)
    BY <2>2, <2>3
  <2>5. /\ SubSeq(db, 1, cloud) \in Seq(Items) /\ Len(SubSeq(db, 1, cloud)) = cloud
        /\ \A i \in 1 .. cloud : SubSeq(db, 1, cloud)[i] = db[i]
    BY <2>2
  <2>6. AppliesInOrder(SubSeq(db, 1, cloud))
    BY <2>3, <2>5
  <2> QED BY <2>4, <2>6 DEF AppliedInOrder
<1> QED BY <1>1, <1>2, <1>3, TypeInit, TypeInvStep, OrderCorrect, PTL DEF Spec

-----------------------------------------------------------------------------
(* The engine keeps the promise of WriteLog *)

\* The line moves only with the queue, the batch and its commit.
LEMMA LineSame ==
  ASSUME UNCHANGED <<queue, pending>>, wpc' = "mark" <=> wpc = "mark"
  PROVE  Line' = Line
BY DEF Line

\* Giving up the front of a line is a GiveUp of the log, or a stutter if there
\* is nothing in it.
LEMMA GivesUp ==
  ASSUME TypeInv, NEW front \in Seq(Writes), NEW back \in Seq(Writes),
         Line = front \o back, Line' = back, UNCHANGED <<db, cloud>>
  PROVE  [Log!Next]_(Log!logVars)
<1>1. CASE Len(front) = 0
  <2>1. front \o back = back
    BY <1>1
  <2> QED BY <2>1 DEF Log!logVars
<1>2. CASE Len(front) # 0
  <2> DEFINE n == Len(front)
  <2>1. n \in 1 .. Len(front \o back)
    BY <1>2
  <2>2. SubSeq(front \o back, n + 1, Len(front \o back)) = back
    OBVIOUS
  <2>3. n \in 1 .. Len(Line) /\ Line' = SubSeq(Line, n + 1, Len(Line))
    BY <2>1, <2>2
  <2> HIDE DEF n
  <2>4. Log!GiveUp
    BY <2>3 DEF Log!GiveUp, Log!Rest
  <2> QED BY <2>4 DEF Log!Next
<1> QED BY <1>1, <1>2

\* The commit of a batch, heard or not, is a Commit of the log: the log grows by
\* its writes that are not updates, in their order, and the whole batch leaves
\* the line if the writer hears of it.
LEMMA CommitsLog ==
  ASSUME TypeInv, TxOrdered, wpc = "exec", done = Len(pending), db' = db \o tx,
         wpc' = "mark" \/ UNCHANGED Line, UNCHANGED <<queue, pending, cloud>>
  PROVE  [Log!Next]_(Log!logVars)
<1>1. /\ wpc = "exec" /\ done = Len(pending) /\ db' = db \o tx
      /\ UNCHANGED <<queue, pending, cloud>>
  OBVIOUS
<1>2. /\ db \in Seq(Items) /\ tx \in Seq(Writes) /\ pending \in Seq(Writes)
      /\ queue \in Seq(Writes)
      /\ Len(tx) \in Nat /\ Len(pending) \in Nat /\ Len(queue) \in Nat
  BY DEF TypeInv, TypeOK, StateOK
<1>3. Line = pending \o queue /\ Line' \in {Line, queue}
  BY <1>1 DEF Line
<1>4. PICK g : TxFrom(g, tx, pending, done)
  BY <1>1 DEF TxOrdered
<1> DEFINE n == Len(pending)
           m == Len(tx)
<1>5. g \in [1 .. m -> 1 .. n]
  BY <1>1, <1>4 DEF TxFrom
<1>6. CASE n = 0
  <2>1. m = 0
    <3>1. ASSUME m # 0 PROVE FALSE
      <4>1. 1 \in 1 .. m
        BY <1>2, <3>1
      <4>2. g[1] \in 1 .. 0
        BY <1>5, <1>6, <4>1
      <4> QED BY <4>2
    <3> QED BY <3>1
  <2>2. tx = <<>> /\ pending = <<>>
    BY <1>2, <1>6, <2>1
  <2>3. db \o <<>> = db /\ <<>> \o queue = queue
    BY <1>2
  <2>4. UNCHANGED <<Line, db, cloud>>
    BY <1>1, <1>3, <2>2, <2>3
  <2> QED BY <2>4 DEF Log!logVars
<1>7. CASE n # 0
  <2>1. /\ n \in 1 .. Len(Line)
        /\ \A i \in 1 .. n : Line[i] = pending[i]
        /\ Line' \in {Line, SubSeq(Line, n + 1, Len(Line))}
    BY <1>2, <1>3, <1>7
  <2>2. m \in 0 .. Len(Line)
    BY <1>1, <1>2, <1>3, <1>4 DEF TxFrom
  <2>3. \A j, k \in DOMAIN g : j < k => g[j] < g[k]
    BY <1>4, <1>5 DEF TxFrom
  <2>4. \A k \in 1 .. m : g[k] \in 1 .. n /\ Line[g[k]] = tx[k] /\ Line[g[k]] \notin Updates
    BY <1>4, <1>5, <2>1 DEF TxFrom
  <2>5. {g[k] : k \in 1 .. m} = {i \in 1 .. n : Line[i] \notin Updates}
    <3>1. ASSUME NEW i \in 1 .. n, Line[i] \notin Updates
          PROVE  \E k \in 1 .. m : g[k] = i
      BY <1>1, <1>4, <2>1, <3>1 DEF TxFrom
    <3> QED BY <2>4, <3>1
  <2>6. db' = db \o [k \in 1 .. m |-> Line[g[k]]]
    <3>1. tx = [k \in 1 .. m |-> tx[k]]
      BY <1>2
    <3>2. [k \in 1 .. m |-> tx[k]] = [k \in 1 .. m |-> Line[g[k]]]
      BY <2>4
    <3> QED BY <1>1, <3>1, <3>2
  <2> HIDE DEF n, m
  <2>7. Log!Commit
    BY <1>1, <1>5, <2>1, <2>2, <2>3, <2>5, <2>6
    DEF Log!Commit, Log!Rest, Log!Increasing
  <2> QED BY <2>7 DEF Log!Next
<1> QED BY <1>6, <1>7

\* Taking the connection leaves the log, or rebuilds it from the cloud.
LEMMA ConnectsLog ==
  ASSUME NEW a, GetConn(a), UNCHANGED <<Line, cloud>>
  PROVE  [Log!Next]_(Log!logVars)
BY DEF GetConn, Connected, Log!Next, Log!Rebuild, Log!logVars

\* Each step of the writer is a step of the log or none.
LEMMA WriterLog ==
  ASSUME TypeInv, TxOrdered, WriterStep
  PROVE  [Log!Next]_(Log!logVars)
<1> USE DEF sharedVars, dbVars, writerVars, txVars, clientVars, ctlVars, history
<1>1. /\ queue \in Seq(Writes) /\ pending \in Seq(Writes)
  BY DEF TypeInv, TypeOK, StateOK
<1>2. ASSUME UNCHANGED <<queue, pending, db, cloud>>, wpc' = "mark" <=> wpc = "mark"
      PROVE  [Log!Next]_(Log!logVars)
  BY <1>2, LineSame DEF Log!logVars
<1>3. CASE WriterLeaves \/ WriterEnds \/ WriterFlushes \/ WriterBegins
           \/ WriterExecutes \/ WriterTriesAgain
  BY <1>2, <1>3 DEF WriterLeaves, WriterEnds, WriterFlushes, WriterBegins,
     WriterExecutes, WriterTriesAgain
<1>4. CASE WriterTakes
  <2>1. /\ queue # <<>> /\ wpc = "top" /\ wpc' # "mark" /\ queue' = Tail(queue)
        /\ pending' = Append(pending, Head(queue)) /\ UNCHANGED <<db, cloud>>
    BY <1>4 DEF WriterTakes
  <2>2. Append(pending, Head(queue)) \o Tail(queue) = pending \o queue
    BY <1>1, <2>1, MoveHead
  <2>3. Line' = Line
    BY <2>1, <2>2 DEF Line
  <2> QED BY <2>1, <2>3 DEF Log!logVars
<1>5. CASE WriterConnects
  <2>1. UNCHANGED <<queue, pending, cloud>> /\ wpc = "connect" /\ wpc' = "begin"
    BY <1>5 DEF WriterConnects
  <2>2. UNCHANGED <<Line, cloud>>
    BY <2>1, LineSame
  <2> QED BY <1>5, <2>2, ConnectsLog DEF WriterConnects
<1>6. CASE WriterCommits
  BY <1>6, CommitsLog DEF WriterCommits
<1>7. CASE WriterMarks
  <2>1. /\ wpc = "mark" /\ wpc' = "top" /\ pending' = <<>>
        /\ UNCHANGED <<queue, db, cloud>>
    BY <1>7 DEF WriterMarks
  <2>2. <<>> \o queue = queue
    BY <1>1
  <2>3. Line' = Line
    BY <2>1, <2>2 DEF Line
  <2> QED BY <2>1, <2>3 DEF Log!logVars
<1>8. ASSUME NEW e \in Errors, wpc # "mark", HandleError(e), UNCHANGED <<queue, db, cloud>>
      PROVE  [Log!Next]_(Log!logVars)
  <2>1. wpc' = "top" /\ Line = pending \o queue
    BY <1>8 DEF HandleError, Line
  <2>2. CASE UNCHANGED pending
    BY <1>2, <1>8, <2>1, <2>2
  <2>3. CASE pending' = <<>>
    <3>1. <<>> \o queue = queue
      BY <1>1
    <3>2. Line' = queue
      BY <1>8, <2>1, <2>3, <3>1 DEF Line
    <3> QED BY <1>1, <1>8, <2>1, <3>2, GivesUp
  <2> QED BY <1>8, <2>2, <2>3 DEF HandleError
<1>9. ASSUME NEW e \in Errors, \/ WriterConnectFails(e) \/ WriterFails(e)
      PROVE  [Log!Next]_(Log!logVars)
  <2>1. HandleError(e) /\ UNCHANGED <<queue, db, cloud>> /\ wpc # "mark"
    BY <1>9 DEF WriterConnectFails, WriterFails, Errors
  <2> QED BY <1>8, <2>1
<1>10. ASSUME NEW e \in Errors, \/ WriterRetries(e) \/ WriterRaises(e)
       PROVE  [Log!Next]_(Log!logVars)
  <2>1. /\ UNCHANGED <<queue, pending, cloud>> /\ wpc # "mark" /\ wpc' # "mark"
        /\ UNCHANGED db \/ CommitsUnheard
    BY <1>10 DEF WriterRetries, WriterRaises, Raises, Errors
  <2>2. UNCHANGED Line
    BY <2>1, LineSame
  <2>3. CASE CommitsUnheard
    BY <2>1, <2>2, <2>3, CommitsLog DEF CommitsUnheard
  <2> QED BY <1>2, <2>1, <2>3
<1> QED BY <1>3, <1>4, <1>5, <1>6, <1>7, <1>9, <1>10 DEF WriterStep

\* So is each step of a client: a put is accepted, a direct save joins the log.
LEMMA ClientLog ==
  ASSUME TypeInv, NEW c \in Clients, ClientStep(c)
  PROVE  [Log!Next]_(Log!logVars)
<1> USE DEF sharedVars, dbVars, writerVars, txVars, clientVars, ctlVars, history
<1>1. /\ queue \in Seq(Writes) /\ pending \in Seq(Writes)
  BY DEF TypeInv, TypeOK, StateOK
<1>2. ASSUME UNCHANGED <<queue, pending, wpc>> PROVE UNCHANGED Line
  BY <1>2, LineSame
<1>3. ASSUME NEW w \in Writes, Enqueue(c, w)
      PROVE  [Log!Next]_(Log!logVars)
  <2>1. UNCHANGED <<queue, pending, db, cloud>> /\ (wpc' = "mark" <=> wpc = "mark")
    BY <1>3 DEF Enqueue, StartWriter
  <2> QED BY <2>1, LineSame DEF Log!logVars
<1>4. CASE Put(c)
  <2>1. /\ item[c] \in Writes /\ queue' = Append(queue, item[c])
        /\ UNCHANGED <<wpc, pending, db, cloud>>
    BY <1>4 DEF Put, TypeInv, StepsMatch
  <2>2. pending \o Append(queue, item[c]) = Append(pending \o queue, item[c])
    BY <1>1, <2>1, AppendLast
  <2>3. Line' = Append(Line, item[c])
    BY <2>1, <2>2 DEF Line
  <2>4. Log!Accept
    BY <2>1, <2>3 DEF Log!Accept
  <2> QED BY <2>4 DEF Log!Next
<1>5. ASSUME NEW s \in Saves, SaveConnect(c, s)
      PROVE  [Log!Next]_(Log!logVars)
  <2>1. GetConn(c) /\ UNCHANGED <<Line, cloud>>
    BY <1>2, <1>5 DEF SaveConnect
  <2> QED BY <2>1, ConnectsLog
<1>6. CASE SaveCommits(c) \/ SaveFails(c)
  <2>1. /\ item[c] \in Saves
        /\ db' = db \/ db' = Append(db, item[c])
        /\ UNCHANGED <<Line, cloud>>
    BY <1>2, <1>6 DEF SaveCommits, SaveFails, TypeInv, StepsMatch
  <2> QED BY <2>1 DEF Log!Save, Log!Next, Log!logVars
<1>7. CASE PutTimesOut(c) \/ SaveInserts(c) \/ SaveUpdates(c)
  <2>1. UNCHANGED <<Line, db, cloud>>
    BY <1>2, <1>7 DEF PutTimesOut, SaveInserts, SaveUpdates
  <2> QED BY <2>1 DEF Log!logVars
<1> QED BY <1>3, <1>4, <1>5, <1>6, <1>7 DEF ClientStep, ClientContinues

\* A sync, complete or not, publishes the log or leaves it.
LEMMA SyncLog ==
  ASSUME TypeInv, SyncStep
  PROVE  [Log!Next]_(Log!logVars)
<1> USE DEF sharedVars, dbVars, writerVars, txVars, clientVars, ctlVars, history
<1>1. UNCHANGED Line
  <2>1. UNCHANGED <<queue, pending, wpc>>
    BY DEF SyncStep, SyncWakes, SyncEnds, SyncSkips, SyncConnects, SyncPushes,
       SyncFails, SyncResets
  <2> QED BY <2>1, LineSame
<1>2. CASE SyncConnects
  BY <1>1, <1>2, ConnectsLog DEF SyncConnects
<1>3. CASE SyncPushes \/ SyncFails
  <2>1. UNCHANGED db /\ (cloud' = cloud \/ cloud' = Len(db))
    BY <1>3 DEF SyncPushes, SyncFails
  <2> QED BY <1>1, <2>1 DEF Log!Publish, Log!Next, Log!logVars
<1>4. CASE SyncWakes \/ SyncEnds \/ SyncSkips \/ SyncResets
  BY <1>1, <1>4 DEF SyncWakes, SyncEnds, SyncSkips, SyncResets, Log!logVars
<1> QED BY <1>2, <1>3, <1>4 DEF SyncStep

\* The end of the process gives up the whole line.
LEMMA GoneLog ==
  ASSUME TypeInv, ProcessGone
  PROVE  [Log!Next]_(Log!logVars)
<1>1. /\ Line \in Seq(Writes) /\ Line' = <<>> /\ UNCHANGED <<db, cloud>>
  BY DEF ProcessGone, Line, TypeInv, TypeOK, StateOK
<1>2. Line = Line \o <<>> /\ <<>> \in Seq(Writes)
  BY <1>1, EmptyRight
<1> QED BY <1>1, <1>2, GivesUp

\* The controller rebuilds the log, publishes it, ends the process, or leaves it.
LEMMA CtlLog ==
  ASSUME TypeInv, CtlStep
  PROVE  [Log!Next]_(Log!logVars)
<1> USE DEF sharedVars, dbVars, writerVars, txVars, clientVars, ctlVars, history
<1>1. ASSUME UNCHANGED <<queue, pending>>, wpc' = wpc \/ (wpc = "off" /\ wpc' = "top")
      PROVE  UNCHANGED Line
  BY <1>1, LineSame
<1>2. CASE WarmupOpens
  <2>1. UNCHANGED <<Line, cloud>>
    BY <1>1, <1>2 DEF WarmupOpens, StartWriter
  <2>2. CASE GetConn("ctl")
    BY <2>1, <2>2, ConnectsLog
  <2>3. CASE UNCHANGED db
    BY <2>1, <2>3 DEF Log!logVars
  <2> QED BY <1>2, <2>2, <2>3 DEF WarmupOpens
<1>3. CASE RecoveryOpens
  <2>1. UNCHANGED Line /\ cloud' = Len(db')
    BY <1>1, <1>3 DEF RecoveryOpens
  <2>2. CASE UNCHANGED db
    BY <2>1, <2>2 DEF Log!Publish, Log!Next
  <2>3. CASE db' = SubSeq(db, 1, cloud)
    <3>1. Len(SubSeq(db, 1, cloud)) = cloud
      BY RangeCut DEF TypeInv, TypeOK, StateOK
    <3> QED BY <2>1, <2>3, <3>1 DEF Log!Rebuild, Log!Next
  <2> QED BY <1>3, <2>2, <2>3 DEF RecoveryOpens, GetConn, Connected
<1>4. CASE Exit
  BY <1>4, GoneLog DEF Exit
<1>5. CASE \/ CleanupStopsSync \/ CleanupCloses \/ RecoveryStopsWriter \/ RecoveryCloses
           \/ RecoveryMovesFile \/ RecoveryFails
  <2>1. UNCHANGED <<Line, db, cloud>>
    BY <1>1, <1>5 DEF CleanupStopsSync, CleanupCloses, RecoveryStopsWriter,
       RecoveryCloses, RecoveryMovesFile, RecoveryFails
  <2> QED BY <2>1 DEF Log!logVars
<1> QED BY <1>2, <1>3, <1>4, <1>5 DEF CtlStep

\* The engine implements WriteLog: to whoever watches only the line of accepted
\* writes, the local log and the cloud's prefix of it, threads, batches,
\* retries, stops, crashes and recoveries look like its six operations.
THEOREM RefinesLog == Spec => KeepsLog
<1>1. Init => Log!Init
  <2> SUFFICES ASSUME Init PROVE Log!Init
    OBVIOUS
  <2>1. <<>> \o <<>> = <<>>
    OBVIOUS
  <2> QED BY <2>1 DEF Init, Log!Init, Line
<1>2. TypeInv /\ TxOrdered /\ [Next]_vars => [Log!Next]_(Log!logVars)
  <2> SUFFICES ASSUME TypeInv, TxOrdered, [Next]_vars PROVE [Log!Next]_(Log!logVars)
    OBVIOUS
  <2> USE DEF sharedVars, dbVars, writerVars, txVars, history
  <2>1. ASSUME UNCHANGED <<queue, pending, db, cloud>>,
               wpc' = wpc \/ (wpc = "off" /\ wpc' = "top")
        PROVE  [Log!Next]_(Log!logVars)
    BY <2>1, LineSame DEF Log!logVars
  <2>2. CASE UNCHANGED vars
    BY <2>1, <2>2 DEF vars
  <2>3. CASE Boot \/ WarmupCloses \/ CleanupStarts \/ RecoveryStarts
             \/ HealthCheckFails \/ Tick \/ Quiet
    BY <2>1, <2>3 DEF Boot, WarmupCloses, CleanupStarts, RecoveryStarts, StartWriter,
       HealthCheckFails, Tick, Quiet
  <2>4. CASE Crash
    BY <2>4, GoneLog DEF Crash
  <2> QED BY <2>2, <2>3, <2>4, ClientLog, WriterLog, SyncLog, CtlLog DEF Next
<1>3. Init => TxOrdered
  BY DEF Init, TxOrdered
<1>4. TypeInv /\ TxOrdered /\ [Next]_vars => TxOrdered'
  <2> SUFFICES ASSUME TypeInv, TxOrdered, [Next]_vars PROVE TxOrdered'
    OBVIOUS
  <2>1. CASE UNCHANGED vars
    BY <2>1 DEF vars, writerVars, txVars, TxOrdered
  <2> QED BY <2>1, TxOrderedStep
<1> QED BY <1>1, <1>2, <1>3, <1>4, TypeInit, TypeInvStep, PTL
     DEF Spec, KeepsLog, Log!LogSpec
=============================================================================
