--------------------------- MODULE Startup_proofs ---------------------------
(***************************************************************************)
(* Proofs about Startup, for any set of processes, any migrations and any  *)
(* number of starts and failures.  The inductive invariant IInv joins four *)
(* parts: who holds which lock file (LockInv), what the process at a point *)
(* of init_db has seen to (MainInv), what the hub state relies on (HubInv) *)
(* and which steps can run a second time (FillInv).  The parts after the   *)
(* first rest on it: the work of init_db is done by one process at a time, *)
(* unless swept.                                                           *)
(***************************************************************************)
EXTENDS Startup, TLAPS

-----------------------------------------------------------------------------
(* The inductive invariant.                                               *)

\* Where a process that has the lock can be.
Work == {"pid", "up", "tables", "mark", "migrate", "step", "stamp", "hub", "hubmark", "run"}

\* A lock file is open from the open() on, and until the unlock.
Opened == \A p \in Processes : ino[p] # 0 <=> pc[p] \in Work \cup {"open"}

\* The flock of a file is with a process inside that opened that file.
Held == \A i \in 1..MaxStarts :
            owner[i] # Nobody => owner[i] \in Inside /\ ino[owner[i]] = i

\* Whoever has a lock file open has the one that bears the name, until one is
\* removed under a process.
NamedOpen == swept \/ \A p \in Processes : ino[p] # 0 => ino[p] = named

LockInv == Opened /\ Held /\ NamedOpen /\ OneInside

\* Tables before their marker, steps before their version.
MainInv ==
    /\ MarkerHonest /\ VersionHonest
    /\ \A p \in Processes :
           /\ pc[p] = "mark" => tables = "all"
           /\ pc[p] = "step" => dropped \/ 1..(step[p] - 1) \subseteq applied
           /\ pc[p] = "stamp" => dropped \/ 1..step[p] \subseteq applied

\* The hub state, and what leads to it, speaks of the hub in use.
HubInv ==
    /\ HubKnown
    /\ \A p \in Processes :
           pc[p] = "hubmark" \/ seen[p] = "yes" => hub = "all" \/ strayed \/ swept

\* Unless one of the three exceptions happened, the committed steps are those
\* up to the version and the one about to be stamped, and a process at a step
\* is right behind the version.
FillInv ==
    /\ BackfillOnce
    /\ row["new"] # "absent" => Backfill \in applied
    /\ unstamped \/ dropped \/ swept \/
          /\ \A s \in applied : s <= version \/ \E p \in Processes : pc[p] = "stamp" /\ step[p] = s
          /\ \A p \in Processes : pc[p] \in {"step", "stamp"} => step[p] = version + 1

IInv == TypeOK /\ LockInv /\ MainInv /\ HubInv /\ FillInv

-----------------------------------------------------------------------------
(* Types.                                                                 *)

\* Every step of a process keeps the types, and its place in the lock.
LEMMA TypeStep ==
    ASSUME IInv, NEW p \in Processes, ProcessStep(p)
    PROVE  TypeOK'
  <1> USE StartupAssumption DEF IInv
  <1>1. CASE Opens(p)
    BY <1>1 DEF Opens, Goes, Starts, mainVars, hubVars, TypeOK, Pcs, Steps, Inside
  <1>2. CASE Locks(p)
    <2>1. ino[p] \in 1..MaxStarts
      BY <1>2 DEF Locks, Goes, LockInv, Opened, TypeOK
    <2> QED BY <1>2, <2>1 DEF Locks, Goes, mainVars, hubVars, TypeOK, Pcs, Steps, Inside
  <1>3. CASE Refused(p)
    BY <1>3 DEF Refused, Goes, mainVars, hubVars, TypeOK, Pcs, Steps, Inside
  <1>4. CASE WritesPid(p)
    BY <1>4 DEF WritesPid, Goes, mainVars, hubVars, TypeOK, Pcs, Steps, Inside
  <1>5. CASE StartsFlow(p)
    BY <1>5 DEF StartsFlow, Goes, lockVars, mainVars, hubVars, TypeOK, Pcs, Steps, Inside
  <1>6. CASE Serves(p)
    BY <1>6 DEF Serves, Goes, lockVars, mainVars, hubVars, TypeOK, Pcs, Steps, Inside
  <1>7. CASE Unlocks(p)
    BY <1>7 DEF Unlocks, Goes, mainVars, hubVars, TypeOK, Pcs, Steps, Inside
  <1>8. CASE Unlinks(p)
    BY <1>8 DEF Unlinks, Goes, mainVars, hubVars, TypeOK, Pcs, Steps, Inside
  <1>9. CASE RemovesPid(p)
    BY <1>9 DEF RemovesPid, Goes, mainVars, hubVars, TypeOK, Pcs, Steps, Inside
  <1>10. CASE Crashes(p)
    BY <1>10 DEF Crashes, Faults, hubVars, TypeOK, Pcs, Steps, Inside
  <1>11. CASE TrustsMarker(p)
    BY <1>11 DEF TrustsMarker, Goes, lockVars, mainVars, hubVars, TypeOK, Pcs, Steps, Inside
  <1>12. CASE CreatesTables(p)
    BY <1>12 DEF CreatesTables, Goes, lockVars, hubVars, TypeOK, Pcs, Steps, Inside
  <1>13. CASE Marks(p)
    BY <1>13 DEF Marks, Goes, lockVars, hubVars, TypeOK, Pcs, Steps, Inside
  <1>14. CASE CreatesSome(p)
    BY <1>14 DEF CreatesSome, lockVars, hubVars, TypeOK, Pcs, Steps, Inside
  <1>15. CASE CreatesRest(p)
    BY <1>15 DEF CreatesRest, Goes, lockVars, hubVars, TypeOK, Pcs, Steps, Inside
  <1>16. CASE TablesFail(p)
    BY <1>16 DEF TablesFail, Goes, Faults, lockVars, mainVars, hubVars, TypeOK, Pcs, Steps,
          Inside
  <1>17. CASE ReadsVersion(p)
    BY <1>17 DEF ReadsVersion, Goes, lockVars, mainVars, hubVars, TypeOK, Pcs, Steps, Inside
  <1>18. CASE Applies(p)
    BY <1>18 DEF Applies, Goes, CanApply, Filled, lockVars, hubVars, TypeOK, Pcs, Steps,
          Inside
  <1>19. CASE ApplyFails(p)
    BY <1>19 DEF ApplyFails, Goes, CanApply, lockVars, mainVars, hubVars, TypeOK, Pcs,
          Steps, Inside
  <1>20. CASE ApplyConflicts(p)
    <2>1. step[p] \in Steps /\ Filled(step[p]) \in [{"old", "new"} -> {"absent", "bare", "filled"}]
      BY <1>20 DEF ApplyConflicts, Goes, Filled, TypeOK
    <2>2. /\ applied' \subseteq Steps /\ dropped' \in BOOLEAN
          /\ row' \in [{"old", "new"} -> {"absent", "bare", "filled"}]
      BY <1>20, <2>1 DEF ApplyConflicts, TypeOK
    <2>3. /\ pc[p] = "step" /\ pc' = [pc EXCEPT ![p] = "stamp"] /\ faults' \in 0..MaxFaults
          /\ UNCHANGED << step, seen, cloud, starts, lockVars, tables, marker, version, unstamped, hubVars >>
      BY <1>20 DEF ApplyConflicts, Goes, Faults, TypeOK
    <2> QED BY <2>1, <2>2, <2>3 DEF lockVars, hubVars, TypeOK, Pcs, Steps, Inside
  <1>21. CASE Stamps(p)
    <2>1. step[p] \in Steps /\ pc[p] = "stamp"
      BY <1>21 DEF Stamps, NextStep, Goes, TypeOK
    <2>2. /\ UNCHANGED << seen, cloud, starts, lockVars, tables, marker, applied, row, dropped, hubVars >>
          /\ version' \in 0..Target /\ faults' \in 0..MaxFaults /\ unstamped' \in BOOLEAN
      BY <1>21, <2>1 DEF Stamps, TypeOK, Steps
    <2>3. PICK w \in {"step", "hub"}, k \in Steps :
              pc' = [pc EXCEPT ![p] = w] /\ step' = [step EXCEPT ![p] = k]
      <3>1. CASE step[p] < Target
        BY <1>21, <2>1, <3>1 DEF Stamps, NextStep, Goes, Steps
      <3>2. CASE ~(step[p] < Target)
        <4>1. step' = [step EXCEPT ![p] = step[p]] /\ pc' = [pc EXCEPT ![p] = "hub"]
          BY <1>21, <2>1, <3>2 DEF Stamps, NextStep, Goes, TypeOK
        <4> QED BY <2>1, <4>1
      <3> QED BY <3>1, <3>2
    <2>4. /\ pc' \in [Processes -> Pcs] /\ step' \in [Processes -> 0..Target + 1]
          /\ \A q \in Processes : pc'[q] \in {"step", "stamp"} => step'[q] \in Steps
      BY <2>3 DEF TypeOK, Pcs, Steps
    <2>5. \A q \in Processes : q \in Inside' => ino'[q] # 0 /\ owner'[ino'[q]] = q
      BY <2>1, <2>2, <2>3 DEF TypeOK, Inside, Pcs, lockVars
    <2> QED BY <2>2, <2>4, <2>5 DEF lockVars, hubVars, TypeOK
  <1>22. CASE StampFails(p)
    <2>1. step[p] \in Steps /\ pc[p] = "stamp"
      BY <1>22 DEF StampFails, NextStep, Goes, TypeOK
    <2>2. /\ UNCHANGED << seen, cloud, starts, lockVars, tables, marker, applied, row, dropped, hubVars >>
          /\ version' \in 0..Target /\ faults' \in 0..MaxFaults /\ unstamped' \in BOOLEAN
      BY <1>22, <2>1 DEF StampFails, Faults, TypeOK, Steps
    <2>3. PICK w \in {"step", "hub"}, k \in Steps :
              pc' = [pc EXCEPT ![p] = w] /\ step' = [step EXCEPT ![p] = k]
      <3>1. CASE step[p] < Target
        BY <1>22, <2>1, <3>1 DEF StampFails, NextStep, Goes, Steps
      <3>2. CASE ~(step[p] < Target)
        <4>1. step' = [step EXCEPT ![p] = step[p]] /\ pc' = [pc EXCEPT ![p] = "hub"]
          BY <1>22, <2>1, <3>2 DEF StampFails, NextStep, Goes, TypeOK
        <4> QED BY <2>1, <4>1
      <3> QED BY <3>1, <3>2
    <2>4. /\ pc' \in [Processes -> Pcs] /\ step' \in [Processes -> 0..Target + 1]
          /\ \A q \in Processes : pc'[q] \in {"step", "stamp"} => step'[q] \in Steps
      BY <2>3 DEF TypeOK, Pcs, Steps
    <2>5. \A q \in Processes : q \in Inside' => ino'[q] # 0 /\ owner'[ino'[q]] = q
      BY <2>1, <2>2, <2>3 DEF TypeOK, Inside, Pcs, lockVars
    <2> QED BY <2>2, <2>4, <2>5 DEF lockVars, hubVars, TypeOK
  <1>23. CASE SkipsHub(p)
    BY <1>23 DEF SkipsHub, Goes, HubDone, lockVars, mainVars, hubVars, TypeOK, Pcs, Steps,
          Inside
  <1>24. CASE FindsHub(p)
    BY <1>24 DEF FindsHub, Goes, HubDone, HubSeen, lockVars, mainVars, TypeOK, Pcs, Steps,
          Inside
  <1>25. CASE CreatesHub(p)
    BY <1>25 DEF CreatesHub, Goes, HubSeen, lockVars, mainVars, TypeOK, Pcs, Steps, Inside
  <1>26. CASE MarksHub(p)
    BY <1>26 DEF MarksHub, Goes, lockVars, mainVars, TypeOK, Pcs, Steps, Inside
  <1>27. CASE HubFails(p)
    BY <1>27 DEF HubFails, Goes, Faults, HubDone, lockVars, mainVars, hubVars, TypeOK, Pcs,
          Steps, Inside
  <1>28. CASE HubStandsIn(p)
    BY <1>28 DEF HubStandsIn, Goes, Faults, lockVars, mainVars, TypeOK, Pcs, Steps, Inside
  <1>29. CASE RebuildsHub(p)
    BY <1>29 DEF RebuildsHub, Faults, InitHubSchema, lockVars, mainVars, TypeOK, Pcs, Steps,
          Inside
  <1>30. CASE Records(p)
    BY <1>30 DEF Records, lockVars, hubVars, TypeOK, Pcs, Steps, Inside
  <1>31. CASE InitsAgain(p)
    BY <1>31 DEF InitsAgain, Goes, Starts, lockVars, mainVars, hubVars, TypeOK, Pcs, Steps,
          Inside
  <1> QED BY <1>1, <1>2, <1>3, <1>4, <1>5, <1>6, <1>7, <1>8, <1>9, <1>10, <1>11, <1>12,
          <1>13, <1>14, <1>15, <1>16, <1>17, <1>18, <1>19, <1>20, <1>21, <1>22, <1>23,
          <1>24, <1>25, <1>26, <1>27, <1>28, <1>29, <1>30, <1>31 DEF ProcessStep

-----------------------------------------------------------------------------
(* The lock.                                                              *)

\* What a process at work does to the lock: nothing.
AtWork(p) ==
    /\ p \in Inside
    /\ \E w \in Work : pc' = [pc EXCEPT ![p] = w]
    /\ UNCHANGED << ino, named, inodes, owner, swept >>

LEMMA LockOrWork ==
    ASSUME TypeOK, NEW p \in Processes, ProcessStep(p)
    PROVE  \/ Opens(p) \/ Locks(p) \/ Refused(p) \/ Unlocks(p) \/ Unlinks(p) \/ RemovesPid(p)
           \/ Crashes(p) \/ AtWork(p)
  <1>1. CASE WritesPid(p)
    BY <1>1 DEF WritesPid, Goes, AtWork, Work, Inside
  <1>2. CASE StartsFlow(p)
    BY <1>2 DEF StartsFlow, Goes, lockVars, AtWork, Work, Inside
  <1>3. CASE Serves(p)
    BY <1>3 DEF Serves, Goes, lockVars, AtWork, Work, Inside
  <1>4. CASE TrustsMarker(p)
    BY <1>4 DEF TrustsMarker, Goes, lockVars, AtWork, Work, Inside
  <1>5. CASE CreatesTables(p)
    BY <1>5 DEF CreatesTables, Goes, lockVars, AtWork, Work, Inside
  <1>6. CASE Marks(p)
    BY <1>6 DEF Marks, Goes, lockVars, AtWork, Work, Inside
  <1>7. CASE CreatesSome(p)
    BY <1>7 DEF CreatesSome, lockVars, TypeOK, AtWork, Work, Inside
  <1>8. CASE CreatesRest(p)
    BY <1>8 DEF CreatesRest, Goes, lockVars, AtWork, Work, Inside
  <1>9. CASE TablesFail(p)
    BY <1>9 DEF TablesFail, Goes, lockVars, AtWork, Work, Inside
  <1>10. CASE ReadsVersion(p)
    BY <1>10 DEF ReadsVersion, Goes, lockVars, AtWork, Work, Inside
  <1>11. CASE Applies(p)
    BY <1>11 DEF Applies, Goes, lockVars, AtWork, Work, Inside
  <1>12. CASE ApplyFails(p)
    BY <1>12 DEF ApplyFails, Goes, lockVars, AtWork, Work, Inside
  <1>13. CASE ApplyConflicts(p)
    BY <1>13 DEF ApplyConflicts, Goes, lockVars, AtWork, Work, Inside
  <1>14. CASE Stamps(p)
    BY <1>14 DEF Stamps, Goes, NextStep, lockVars, AtWork, Work, Inside
  <1>15. CASE StampFails(p)
    BY <1>15 DEF StampFails, Goes, NextStep, lockVars, AtWork, Work, Inside
  <1>16. CASE SkipsHub(p)
    BY <1>16 DEF SkipsHub, Goes, HubDone, lockVars, AtWork, Work, Inside
  <1>17. CASE FindsHub(p)
    BY <1>17 DEF FindsHub, Goes, HubDone, lockVars, AtWork, Work, Inside
  <1>18. CASE CreatesHub(p)
    BY <1>18 DEF CreatesHub, Goes, lockVars, AtWork, Work, Inside
  <1>19. CASE MarksHub(p)
    BY <1>19 DEF MarksHub, Goes, lockVars, AtWork, Work, Inside
  <1>20. CASE HubFails(p)
    BY <1>20 DEF HubFails, Goes, HubDone, lockVars, AtWork, Work, Inside
  <1>21. CASE HubStandsIn(p)
    BY <1>21 DEF HubStandsIn, Goes, lockVars, AtWork, Work, Inside
  <1>22. CASE RebuildsHub(p)
    BY <1>22 DEF RebuildsHub, lockVars, TypeOK, AtWork, Work, Inside
  <1>23. CASE Records(p)
    BY <1>23 DEF Records, lockVars, TypeOK, AtWork, Work, Inside
  <1>24. CASE InitsAgain(p)
    BY <1>24 DEF InitsAgain, Goes, lockVars, AtWork, Work, Inside
  <1> QED BY <1>1, <1>2, <1>3, <1>4, <1>5, <1>6, <1>7, <1>8, <1>9, <1>10, <1>11, <1>12,
          <1>13, <1>14, <1>15, <1>16, <1>17, <1>18, <1>19, <1>20, <1>21, <1>22, <1>23, <1>24 DEF ProcessStep

LEMMA LockStep ==
    ASSUME IInv, NEW p \in Processes, ProcessStep(p)
    PROVE  LockInv'
  <1> USE StartupAssumption DEF IInv, LockInv
  <1>t. TypeOK'
    BY TypeStep
  <1> SUFFICES Opened' /\ Held' /\ NamedOpen'
    <2>1. \A q \in Processes : q \in Inside' => ino'[q] # 0 /\ owner'[ino'[q]] = q
      BY <1>t DEF TypeOK
    <2>2. ASSUME Opened' /\ Held' /\ NamedOpen' PROVE OneInside'
      BY <2>1, <2>2 DEF NamedOpen, OneInside, Inside
    <2> QED BY <2>2
  <1>1. CASE Opens(p)
    <2>1. Opened'
      BY <1>1, <1>t DEF Opens, Goes, Starts, Opened, TypeOK, Inside, Work
    <2>2. Held'
      BY <1>1, <1>t DEF Opens, Goes, Starts, Held, Opened, TypeOK, Inside, Work
    <2>3. NamedOpen'
      BY <1>1, <1>t DEF Opens, Goes, Starts, NamedOpen, Opened, TypeOK, Inside, Work
    <2> QED BY <2>1, <2>2, <2>3
  <1>2. CASE Locks(p)
    <2>1. Opened'
      BY <1>2, <1>t DEF Locks, Goes, Opened, TypeOK, Inside, Work
    <2>2. Held'
      BY <1>2, <1>t DEF Locks, Goes, Held, Opened, TypeOK, Inside, Work
    <2>3. NamedOpen'
      BY <1>2, <1>t DEF Locks, Goes, NamedOpen, Opened, TypeOK, Inside, Work
    <2> QED BY <2>1, <2>2, <2>3
  <1>3. CASE Refused(p)
    <2>1. Opened'
      BY <1>3, <1>t DEF Refused, Goes, Opened, TypeOK, Inside, Work
    <2>2. Held'
      BY <1>3, <1>t DEF Refused, Goes, Held, Opened, TypeOK, Inside, Work
    <2>3. NamedOpen'
      BY <1>3, <1>t DEF Refused, Goes, NamedOpen, Opened, TypeOK, Inside, Work
    <2> QED BY <2>1, <2>2, <2>3
  <1>4. CASE Unlocks(p)
    <2>1. Opened'
      BY <1>4, <1>t DEF Unlocks, Goes, Opened, TypeOK, Inside, Work
    <2>2. Held'
      BY <1>4, <1>t DEF Unlocks, Goes, Held, Opened, TypeOK, Inside, Work
    <2>3. NamedOpen'
      BY <1>4, <1>t DEF Unlocks, Goes, NamedOpen, Opened, TypeOK, Inside, Work
    <2> QED BY <2>1, <2>2, <2>3
  <1>5. CASE Unlinks(p)
    <2>1. Opened'
      BY <1>5, <1>t DEF Unlinks, Goes, Opened, TypeOK, Inside, Work
    <2>2. Held'
      BY <1>5, <1>t DEF Unlinks, Goes, Held, Opened, TypeOK, Inside, Work
    <2>3. NamedOpen'
      BY <1>5, <1>t DEF Unlinks, Goes, NamedOpen, Opened, TypeOK, Inside, Work
    <2> QED BY <2>1, <2>2, <2>3
  <1>6. CASE RemovesPid(p)
    <2>1. Opened'
      BY <1>6, <1>t DEF RemovesPid, Goes, Opened, TypeOK, Inside, Work
    <2>2. Held'
      BY <1>6, <1>t DEF RemovesPid, Goes, Held, Opened, TypeOK, Inside, Work
    <2>3. NamedOpen'
      BY <1>6, <1>t DEF RemovesPid, Goes, NamedOpen, Opened, TypeOK, Inside, Work
    <2> QED BY <2>1, <2>2, <2>3
  <1>7. CASE Crashes(p)
    <2>1. Opened'
      BY <1>7, <1>t DEF Crashes, Opened, TypeOK, Inside, Work
    <2>2. Held'
      BY <1>7, <1>t DEF Crashes, Held, Opened, TypeOK, Inside, Work
    <2>3. NamedOpen'
      BY <1>7, <1>t DEF Crashes, NamedOpen, Opened, TypeOK, Inside, Work
    <2> QED BY <2>1, <2>2, <2>3
  <1>8. CASE AtWork(p)
    <2>1. PICK w \in Work : pc' = [pc EXCEPT ![p] = w]
      BY <1>8 DEF AtWork
    <2>2. \A q \in Processes : pc'[q] \in Work <=> pc[q] \in Work
      BY <1>8, <2>1 DEF AtWork, Inside, Work, TypeOK
    <2>3. \A q \in Processes : pc'[q] = "open" <=> pc[q] = "open"
      BY <1>8, <2>1 DEF AtWork, Inside, Work, TypeOK
    <2>4. Inside' = Inside
      BY <2>2 DEF Inside, Work
    <2>5. UNCHANGED << ino, named, inodes, owner, swept >>
      BY <1>8 DEF AtWork
    <2>6. Opened'
      BY <2>2, <2>3, <2>5 DEF Opened
    <2>7. Held'
      BY <2>4, <2>5 DEF Held
    <2>8. NamedOpen'
      BY <2>5 DEF NamedOpen
    <2> QED BY <2>6, <2>7, <2>8
  <1> QED BY LockOrWork, <1>1, <1>2, <1>3, <1>4, <1>5, <1>6, <1>7, <1>8

-----------------------------------------------------------------------------
(* The main database.                                                     *)

LEMMA MainStep ==
    ASSUME IInv, NEW p \in Processes, ProcessStep(p)
    PROVE  MainInv'
  <1> USE StartupAssumption DEF IInv, MainInv, MarkerHonest, VersionHonest
  <1>1. CASE Opens(p)
    BY <1>1 DEF Opens, Goes, Starts, mainVars, hubVars, TypeOK, Steps
  <1>2. CASE Locks(p)
    BY <1>2 DEF Locks, Goes, mainVars, hubVars, TypeOK, Steps
  <1>3. CASE Refused(p)
    BY <1>3 DEF Refused, Goes, mainVars, hubVars, TypeOK, Steps
  <1>4. CASE WritesPid(p)
    BY <1>4 DEF WritesPid, Goes, mainVars, hubVars, TypeOK, Steps
  <1>5. CASE StartsFlow(p)
    BY <1>5 DEF StartsFlow, Goes, lockVars, mainVars, hubVars, TypeOK, Steps
  <1>6. CASE Serves(p)
    BY <1>6 DEF Serves, Goes, lockVars, mainVars, hubVars, TypeOK, Steps
  <1>7. CASE Unlocks(p)
    BY <1>7 DEF Unlocks, Goes, mainVars, hubVars, TypeOK, Steps
  <1>8. CASE Unlinks(p)
    BY <1>8 DEF Unlinks, Goes, mainVars, hubVars, TypeOK, Steps
  <1>9. CASE RemovesPid(p)
    BY <1>9 DEF RemovesPid, Goes, mainVars, hubVars, TypeOK, Steps
  <1>10. CASE Crashes(p)
    BY <1>10 DEF Crashes, Faults, hubVars, TypeOK, Steps
  <1>11. CASE TrustsMarker(p)
    BY <1>11 DEF TrustsMarker, Goes, lockVars, mainVars, hubVars, TypeOK, Steps
  <1>12. CASE CreatesTables(p)
    BY <1>12 DEF CreatesTables, Goes, lockVars, hubVars, TypeOK, Steps
  <1>13. CASE Marks(p)
    BY <1>13 DEF Marks, Goes, lockVars, hubVars, TypeOK, Steps
  <1>14. CASE CreatesSome(p)
    BY <1>14 DEF CreatesSome, lockVars, hubVars, TypeOK, Steps
  <1>15. CASE CreatesRest(p)
    BY <1>15 DEF CreatesRest, Goes, lockVars, hubVars, TypeOK, Steps
  <1>16. CASE TablesFail(p)
    BY <1>16 DEF TablesFail, Goes, Faults, lockVars, mainVars, hubVars, TypeOK, Steps
  <1>17. CASE ReadsVersion(p)
    BY <1>17 DEF ReadsVersion, Goes, lockVars, mainVars, hubVars, TypeOK, Steps
  <1>18. CASE Applies(p)
    BY <1>18 DEF Applies, Goes, CanApply, Filled, lockVars, hubVars, TypeOK, Steps
  <1>19. CASE ApplyFails(p)
    BY <1>19 DEF ApplyFails, Goes, CanApply, lockVars, mainVars, hubVars, TypeOK, Steps
  <1>20. CASE ApplyConflicts(p)
    BY <1>20 DEF ApplyConflicts, Goes, Faults, Filled, lockVars, hubVars, TypeOK, Steps
  <1>21. CASE Stamps(p)
    <2>1. /\ step[p] \in Steps /\ pc[p] = "stamp" /\ version' = step[p]
          /\ UNCHANGED << tables, marker, applied, dropped >>
      BY <1>21 DEF Stamps, NextStep, Goes, TypeOK
    <2>2. \/ pc' = [pc EXCEPT ![p] = "hub"] /\ step' = step
          \/ pc' = [pc EXCEPT ![p] = "step"] /\ step' = [step EXCEPT ![p] = @ + 1]
      BY <1>21 DEF Stamps, NextStep, Goes
    <2>3. dropped \/ 1..step[p] \subseteq applied
      BY <2>1
    <2>4. MarkerHonest' /\ VersionHonest'
      BY <2>1, <2>3
    <2>5. CASE pc' = [pc EXCEPT ![p] = "hub"] /\ step' = step
      BY <2>1, <2>4, <2>5 DEF TypeOK
    <2>6. CASE pc' = [pc EXCEPT ![p] = "step"] /\ step' = [step EXCEPT ![p] = @ + 1]
      <3>1. step'[p] - 1 = step[p] /\ pc'[p] = "step"
        BY <2>1, <2>6 DEF TypeOK, Steps
      <3>2. \A q \in Processes \ {p} : step'[q] = step[q] /\ pc'[q] = pc[q]
        BY <2>6 DEF TypeOK
      <3> QED BY <2>1, <2>3, <2>4, <3>1, <3>2
    <2> QED BY <2>2, <2>5, <2>6
  <1>22. CASE StampFails(p)
    BY <1>22 DEF StampFails, Goes, Faults, NextStep, lockVars, hubVars, TypeOK, Steps
  <1>23. CASE SkipsHub(p)
    BY <1>23 DEF SkipsHub, Goes, HubDone, lockVars, mainVars, hubVars, TypeOK, Steps
  <1>24. CASE FindsHub(p)
    BY <1>24 DEF FindsHub, Goes, HubDone, HubSeen, lockVars, mainVars, TypeOK, Steps
  <1>25. CASE CreatesHub(p)
    BY <1>25 DEF CreatesHub, Goes, HubSeen, lockVars, mainVars, TypeOK, Steps
  <1>26. CASE MarksHub(p)
    BY <1>26 DEF MarksHub, Goes, lockVars, mainVars, TypeOK, Steps
  <1>27. CASE HubFails(p)
    BY <1>27 DEF HubFails, Goes, Faults, HubDone, lockVars, mainVars, hubVars, TypeOK, Steps
  <1>28. CASE HubStandsIn(p)
    BY <1>28 DEF HubStandsIn, Goes, Faults, lockVars, mainVars, TypeOK, Steps
  <1>29. CASE RebuildsHub(p)
    BY <1>29 DEF RebuildsHub, Faults, InitHubSchema, lockVars, mainVars, TypeOK, Steps
  <1>30. CASE Records(p)
    BY <1>30 DEF Records, lockVars, hubVars, TypeOK, Steps
  <1>31. CASE InitsAgain(p)
    BY <1>31 DEF InitsAgain, Goes, Starts, lockVars, mainVars, hubVars, TypeOK, Steps
  <1> QED BY <1>1, <1>2, <1>3, <1>4, <1>5, <1>6, <1>7, <1>8, <1>9, <1>10, <1>11, <1>12,
          <1>13, <1>14, <1>15, <1>16, <1>17, <1>18, <1>19, <1>20, <1>21, <1>22, <1>23,
          <1>24, <1>25, <1>26, <1>27, <1>28, <1>29, <1>30, <1>31 DEF ProcessStep

-----------------------------------------------------------------------------
(* The hub.                                                               *)

LEMMA HubStep ==
    ASSUME IInv, NEW p \in Processes, ProcessStep(p)
    PROVE  HubInv'
  <1> USE StartupAssumption DEF IInv, HubInv, HubKnown
  <1>1. CASE Opens(p)
    BY <1>1 DEF Opens, Goes, Starts, mainVars, hubVars, TypeOK, LockInv, OneInside, Inside
  <1>2. CASE Locks(p)
    BY <1>2 DEF Locks, Goes, mainVars, hubVars, TypeOK, LockInv, OneInside, Inside
  <1>3. CASE Refused(p)
    BY <1>3 DEF Refused, Goes, mainVars, hubVars, TypeOK, LockInv, OneInside, Inside
  <1>4. CASE WritesPid(p)
    BY <1>4 DEF WritesPid, Goes, mainVars, hubVars, TypeOK, LockInv, OneInside, Inside
  <1>5. CASE StartsFlow(p)
    BY <1>5 DEF StartsFlow, Goes, lockVars, mainVars, hubVars, TypeOK, LockInv, OneInside,
          Inside
  <1>6. CASE Serves(p)
    BY <1>6 DEF Serves, Goes, lockVars, mainVars, hubVars, TypeOK, LockInv, OneInside,
          Inside
  <1>7. CASE Unlocks(p)
    BY <1>7 DEF Unlocks, Goes, mainVars, hubVars, TypeOK, LockInv, OneInside, Inside
  <1>8. CASE Unlinks(p)
    BY <1>8 DEF Unlinks, Goes, mainVars, hubVars, TypeOK, LockInv, OneInside, Inside
  <1>9. CASE RemovesPid(p)
    BY <1>9 DEF RemovesPid, Goes, mainVars, hubVars, TypeOK, LockInv, OneInside, Inside
  <1>10. CASE Crashes(p)
    BY <1>10 DEF Crashes, Faults, hubVars, TypeOK, LockInv, OneInside, Inside
  <1>11. CASE TrustsMarker(p)
    BY <1>11 DEF TrustsMarker, Goes, lockVars, mainVars, hubVars, TypeOK, LockInv,
          OneInside, Inside
  <1>12. CASE CreatesTables(p)
    BY <1>12 DEF CreatesTables, Goes, lockVars, hubVars, TypeOK, LockInv, OneInside, Inside
  <1>13. CASE Marks(p)
    BY <1>13 DEF Marks, Goes, lockVars, hubVars, TypeOK, LockInv, OneInside, Inside
  <1>14. CASE CreatesSome(p)
    BY <1>14 DEF CreatesSome, lockVars, hubVars, TypeOK, LockInv, OneInside, Inside
  <1>15. CASE CreatesRest(p)
    BY <1>15 DEF CreatesRest, Goes, lockVars, hubVars, TypeOK, LockInv, OneInside, Inside
  <1>16. CASE TablesFail(p)
    BY <1>16 DEF TablesFail, Goes, Faults, lockVars, mainVars, hubVars, TypeOK, LockInv,
          OneInside, Inside
  <1>17. CASE ReadsVersion(p)
    BY <1>17 DEF ReadsVersion, Goes, lockVars, mainVars, hubVars, TypeOK, LockInv,
          OneInside, Inside
  <1>18. CASE Applies(p)
    BY <1>18 DEF Applies, Goes, CanApply, Filled, lockVars, hubVars, TypeOK, LockInv,
          OneInside, Inside
  <1>19. CASE ApplyFails(p)
    BY <1>19 DEF ApplyFails, Goes, CanApply, lockVars, mainVars, hubVars, TypeOK, LockInv,
          OneInside, Inside
  <1>20. CASE ApplyConflicts(p)
    BY <1>20 DEF ApplyConflicts, Goes, Faults, Filled, lockVars, hubVars, TypeOK, LockInv,
          OneInside, Inside
  <1>21. CASE Stamps(p)
    BY <1>21 DEF Stamps, Goes, NextStep, lockVars, hubVars, TypeOK, LockInv, OneInside,
          Inside
  <1>22. CASE StampFails(p)
    BY <1>22 DEF StampFails, Goes, Faults, NextStep, lockVars, hubVars, TypeOK, LockInv,
          OneInside, Inside
  <1>23. CASE SkipsHub(p)
    BY <1>23 DEF SkipsHub, Goes, HubDone, lockVars, mainVars, hubVars, TypeOK, LockInv,
          OneInside, Inside
  <1>24. CASE FindsHub(p)
    BY <1>24 DEF FindsHub, Goes, HubDone, HubSeen, lockVars, mainVars, TypeOK, LockInv,
          OneInside, Inside
  <1>25. CASE CreatesHub(p)
    BY <1>25 DEF CreatesHub, Goes, HubSeen, lockVars, mainVars, TypeOK, LockInv, OneInside,
          Inside
  <1>26. CASE MarksHub(p)
    BY <1>26 DEF MarksHub, Goes, lockVars, mainVars, TypeOK, LockInv, OneInside, Inside
  <1>27. CASE HubFails(p)
    BY <1>27 DEF HubFails, Goes, Faults, HubDone, lockVars, mainVars, hubVars, TypeOK,
          LockInv, OneInside, Inside
  <1>28. CASE HubStandsIn(p)
    BY <1>28 DEF HubStandsIn, Goes, Faults, lockVars, mainVars, TypeOK, LockInv, OneInside,
          Inside
  <1>29. CASE RebuildsHub(p)
    <2>1. /\ p \in Inside /\ UNCHANGED << pc, seen, fresh, swept >>
          /\ strayed' = (strayed \/ fresh \/ \E q \in Processes : seen[q] = "yes")
      BY <1>29 DEF RebuildsHub, Inside, lockVars
    <2>2. \A q \in Processes : pc[q] = "hubmark" => swept
      BY <1>29, <2>1 DEF RebuildsHub, LockInv, OneInside, Inside
    <2> QED BY <2>1, <2>2
  <1>30. CASE Records(p)
    BY <1>30 DEF Records, lockVars, hubVars, TypeOK, LockInv, OneInside, Inside
  <1>31. CASE InitsAgain(p)
    BY <1>31 DEF InitsAgain, Goes, Starts, lockVars, mainVars, hubVars, TypeOK, LockInv,
          OneInside, Inside
  <1> QED BY <1>1, <1>2, <1>3, <1>4, <1>5, <1>6, <1>7, <1>8, <1>9, <1>10, <1>11, <1>12,
          <1>13, <1>14, <1>15, <1>16, <1>17, <1>18, <1>19, <1>20, <1>21, <1>22, <1>23,
          <1>24, <1>25, <1>26, <1>27, <1>28, <1>29, <1>30, <1>31 DEF ProcessStep

-----------------------------------------------------------------------------
(* What runs twice.                                                       *)

LEMMA FillStep ==
    ASSUME IInv, NEW p \in Processes, ProcessStep(p)
    PROVE  FillInv'
  <1> USE StartupAssumption DEF IInv, FillInv, BackfillOnce
  <1>1. CASE Opens(p)
    BY <1>1 DEF Opens, Goes, Starts, mainVars, hubVars, TypeOK, LockInv, OneInside, Inside,
          Steps
  <1>2. CASE Locks(p)
    BY <1>2 DEF Locks, Goes, mainVars, hubVars, TypeOK, LockInv, OneInside, Inside, Steps
  <1>3. CASE Refused(p)
    BY <1>3 DEF Refused, Goes, mainVars, hubVars, TypeOK, LockInv, OneInside, Inside, Steps
  <1>4. CASE WritesPid(p)
    BY <1>4 DEF WritesPid, Goes, mainVars, hubVars, TypeOK, LockInv, OneInside, Inside,
          Steps
  <1>5. CASE StartsFlow(p)
    BY <1>5 DEF StartsFlow, Goes, lockVars, mainVars, hubVars, TypeOK, LockInv, OneInside,
          Inside, Steps
  <1>6. CASE Serves(p)
    BY <1>6 DEF Serves, Goes, lockVars, mainVars, hubVars, TypeOK, LockInv, OneInside,
          Inside, Steps
  <1>7. CASE Unlocks(p)
    BY <1>7 DEF Unlocks, Goes, mainVars, hubVars, TypeOK, LockInv, OneInside, Inside, Steps
  <1>8. CASE Unlinks(p)
    BY <1>8 DEF Unlinks, Goes, mainVars, hubVars, TypeOK, LockInv, OneInside, Inside, Steps
  <1>9. CASE RemovesPid(p)
    BY <1>9 DEF RemovesPid, Goes, mainVars, hubVars, TypeOK, LockInv, OneInside, Inside,
          Steps
  <1>10. CASE Crashes(p)
    BY <1>10 DEF Crashes, Faults, hubVars, TypeOK, LockInv, OneInside, Inside, Steps
  <1>11. CASE TrustsMarker(p)
    BY <1>11 DEF TrustsMarker, Goes, lockVars, mainVars, hubVars, TypeOK, LockInv,
          OneInside, Inside, Steps
  <1>12. CASE CreatesTables(p)
    BY <1>12 DEF CreatesTables, Goes, lockVars, hubVars, TypeOK, LockInv, OneInside, Inside,
          Steps
  <1>13. CASE Marks(p)
    BY <1>13 DEF Marks, Goes, lockVars, hubVars, TypeOK, LockInv, OneInside, Inside, Steps
  <1>14. CASE CreatesSome(p)
    BY <1>14 DEF CreatesSome, lockVars, hubVars, TypeOK, LockInv, OneInside, Inside, Steps
  <1>15. CASE CreatesRest(p)
    BY <1>15 DEF CreatesRest, Goes, lockVars, hubVars, TypeOK, LockInv, OneInside, Inside,
          Steps
  <1>16. CASE TablesFail(p)
    BY <1>16 DEF TablesFail, Goes, Faults, lockVars, mainVars, hubVars, TypeOK, LockInv,
          OneInside, Inside, Steps
  <1>17. CASE ReadsVersion(p)
    BY <1>17 DEF ReadsVersion, Goes, lockVars, mainVars, hubVars, TypeOK, LockInv,
          OneInside, Inside, Steps
  <1>18. CASE Applies(p)
    BY <1>18 DEF Applies, Goes, CanApply, Filled, lockVars, hubVars, TypeOK, LockInv,
          OneInside, Inside, Steps
  <1>19. CASE ApplyFails(p)
    BY <1>19 DEF ApplyFails, Goes, CanApply, lockVars, mainVars, hubVars, TypeOK, LockInv,
          OneInside, Inside, Steps
  <1>20. CASE ApplyConflicts(p)
    <2>1. /\ pc[p] = "step" /\ pc' = [pc EXCEPT ![p] = "stamp"] /\ step[p] \in Steps
          /\ UNCHANGED << step, version, unstamped, swept >>
      BY <1>20 DEF ApplyConflicts, Goes, lockVars, TypeOK
    <2>2. CASE dropped' = TRUE /\ UNCHANGED << applied, row >>
      BY <2>1, <2>2
    <2>3. CASE applied' = applied \cup {step[p]} /\ row' = Filled(step[p]) /\ UNCHANGED dropped
      <3>1. row'["new"] = "filled" => row["new"] = "filled" \/ (row["new"] = "bare" /\ step[p] = Backfill)
        BY <2>3 DEF Filled, TypeOK
      <3>2. row'["new"] # "absent" => row["new"] # "absent"
        BY <2>3 DEF Filled, TypeOK
      <3>3. CASE unstamped \/ dropped \/ swept
        BY <2>1, <2>3, <3>2, <3>3
      <3>4. CASE ~(unstamped \/ dropped \/ swept)
        <4>1. step[p] = version + 1 /\ \A q \in Processes : pc[q] = "stamp" => FALSE
          BY <2>1, <3>4 DEF LockInv, OneInside, Inside
        <4>2. step[p] \notin applied
          BY <2>1, <3>4, <4>1 DEF TypeOK, Steps
        <4>3. row'["new"] # "filled"
          BY <3>1, <3>4, <4>2
        <4>4. \A s \in applied' : s <= version' \/ \E q \in Processes : pc'[q] = "stamp" /\ step'[q] = s
          BY <2>1, <2>3, <3>4, <4>1 DEF TypeOK
        <4>5. \A q \in Processes : pc'[q] \in {"step", "stamp"} => step'[q] = version' + 1
          BY <2>1, <3>4 DEF TypeOK
        <4> QED BY <2>3, <3>2, <4>3, <4>4, <4>5
      <3> QED BY <3>3, <3>4
    <2> QED BY <1>20, <2>2, <2>3 DEF ApplyConflicts
  <1>21. CASE Stamps(p)
    <2>1. /\ step[p] \in Steps /\ pc[p] = "stamp" /\ version' = step[p]
          /\ UNCHANGED << applied, row, unstamped, dropped, swept >>
      BY <1>21 DEF Stamps, NextStep, Goes, lockVars, TypeOK
    <2>2. \/ pc' = [pc EXCEPT ![p] = "hub"] /\ step' = step
          \/ pc' = [pc EXCEPT ![p] = "step"] /\ step' = [step EXCEPT ![p] = @ + 1]
      BY <1>21 DEF Stamps, NextStep, Goes
    <2>3. CASE unstamped \/ dropped \/ swept
      BY <2>1, <2>3
    <2>4. CASE ~(unstamped \/ dropped \/ swept)
      <3>1. step[p] = version + 1 /\ \A q \in Processes : pc[q] \in {"step", "stamp"} => q = p
        BY <2>1, <2>4 DEF LockInv, OneInside, Inside
      <3>2. \A s \in applied' : s <= version'
        BY <2>1, <2>4, <3>1 DEF TypeOK, Steps
      <3>3. \A q \in Processes : pc'[q] \in {"step", "stamp"} => step'[q] = version' + 1
        BY <2>1, <2>2, <3>1 DEF TypeOK, Steps
      <3> QED BY <2>1, <2>4, <3>2, <3>3
    <2> QED BY <2>3, <2>4
  <1>22. CASE StampFails(p)
    BY <1>22 DEF StampFails, Goes, Faults, NextStep, lockVars, hubVars, TypeOK, LockInv,
          OneInside, Inside, Steps
  <1>23. CASE SkipsHub(p)
    BY <1>23 DEF SkipsHub, Goes, HubDone, lockVars, mainVars, hubVars, TypeOK, LockInv,
          OneInside, Inside, Steps
  <1>24. CASE FindsHub(p)
    BY <1>24 DEF FindsHub, Goes, HubDone, HubSeen, lockVars, mainVars, TypeOK, LockInv,
          OneInside, Inside, Steps
  <1>25. CASE CreatesHub(p)
    BY <1>25 DEF CreatesHub, Goes, HubSeen, lockVars, mainVars, TypeOK, LockInv, OneInside,
          Inside, Steps
  <1>26. CASE MarksHub(p)
    BY <1>26 DEF MarksHub, Goes, lockVars, mainVars, TypeOK, LockInv, OneInside, Inside,
          Steps
  <1>27. CASE HubFails(p)
    BY <1>27 DEF HubFails, Goes, Faults, HubDone, lockVars, mainVars, hubVars, TypeOK,
          LockInv, OneInside, Inside, Steps
  <1>28. CASE HubStandsIn(p)
    BY <1>28 DEF HubStandsIn, Goes, Faults, lockVars, mainVars, TypeOK, LockInv, OneInside,
          Inside, Steps
  <1>29. CASE RebuildsHub(p)
    BY <1>29 DEF RebuildsHub, Faults, InitHubSchema, lockVars, mainVars, TypeOK, LockInv,
          OneInside, Inside, Steps
  <1>30. CASE Records(p)
    BY <1>30 DEF Records, lockVars, hubVars, TypeOK, LockInv, OneInside, Inside, Steps
  <1>31. CASE InitsAgain(p)
    BY <1>31 DEF InitsAgain, Goes, Starts, lockVars, mainVars, hubVars, TypeOK, LockInv,
          OneInside, Inside, Steps
  <1> QED BY <1>1, <1>2, <1>3, <1>4, <1>5, <1>6, <1>7, <1>8, <1>9, <1>10, <1>11, <1>12,
          <1>13, <1>14, <1>15, <1>16, <1>17, <1>18, <1>19, <1>20, <1>21, <1>22, <1>23,
          <1>24, <1>25, <1>26, <1>27, <1>28, <1>29, <1>30, <1>31 DEF ProcessStep

-----------------------------------------------------------------------------
(* The theorems.                                                          *)

THEOREM Initially == Init => IInv
  <1> SUFFICES ASSUME Init PROVE IInv
    OBVIOUS
  <1> USE StartupAssumption DEF Init
  <1>1. TypeOK
    <2>1. /\ owner \in [1..MaxStarts -> Processes \cup {Nobody}]
          /\ row \in [{"old", "new"} -> {"absent", "bare", "filled"}]
      OBVIOUS
    <2>2. pc \in [Processes -> Pcs] /\ \A p \in Processes : pc[p] = "off"
      BY DEF Pcs
    <2>3. /\ ino \in [Processes -> 0..inodes] /\ step \in [Processes -> 0..Target + 1]
          /\ seen \in [Processes -> {"unknown", "yes", "no"}]
      OBVIOUS
    <2>4. /\ named \in 0..inodes /\ inodes \in Nat /\ inodes <= starts
          /\ version \in 0..Target /\ starts \in 0..MaxStarts /\ faults \in 0..MaxFaults
      OBVIOUS
    <2>5. /\ pidFile \in Processes \cup {Nobody} /\ cloud \in BOOLEAN /\ marker \in BOOLEAN
          /\ applied \subseteq Steps /\ fresh \in BOOLEAN
          /\ {swept, unstamped, dropped, strayed} \subseteq BOOLEAN
      OBVIOUS
    <2> QED BY <2>1, <2>2, <2>3, <2>4, <2>5 DEF TypeOK, Inside
  <1>2. LockInv
    BY DEF LockInv, Opened, Held, NamedOpen, OneInside, Inside, Work
  <1>3. MainInv
    BY DEF MainInv, MarkerHonest, VersionHonest
  <1>4. HubInv
    BY DEF HubInv, HubKnown
  <1>5. FillInv
    BY DEF FillInv, BackfillOnce
  <1> QED BY <1>1, <1>2, <1>3, <1>4, <1>5 DEF IInv

\* Nothing but the memory of the hub changes when it ages.
LEMMA AgesStep == IInv /\ HubAges => IInv'
  <1> SUFFICES ASSUME IInv, HubAges PROVE IInv'
    OBVIOUS
  <1>1. /\ fresh' = FALSE
        /\ UNCHANGED << pc, step, seen, cloud, starts, faults, hub, strayed, lockVars, mainVars >>
    BY DEF HubAges
  <1>2. TypeOK'
    BY <1>1 DEF IInv, TypeOK, Inside, lockVars, mainVars
  <1>3. LockInv'
    BY <1>1 DEF IInv, LockInv, Opened, Held, NamedOpen, OneInside, Inside, lockVars
  <1>4. MainInv'
    BY <1>1 DEF IInv, MainInv, MarkerHonest, VersionHonest, mainVars
  <1>5. HubInv'
    BY <1>1 DEF IInv, HubInv, HubKnown, lockVars
  <1>6. FillInv'
    BY <1>1 DEF IInv, FillInv, BackfillOnce, lockVars, mainVars
  <1> QED BY <1>2, <1>3, <1>4, <1>5, <1>6 DEF IInv

LEMMA StutterStep == IInv /\ UNCHANGED vars => IInv'
  BY DEF IInv, vars, TypeOK, LockInv, Opened, Held, NamedOpen, OneInside,
         Inside, MainInv, MarkerHonest, VersionHonest, HubInv, HubKnown, FillInv, BackfillOnce

THEOREM Inductive == Spec => []IInv
  <1>1. IInv /\ [Next]_vars => IInv'
    <2>1. ASSUME IInv, NEW p \in Processes, ProcessStep(p) PROVE IInv'
      BY <2>1, TypeStep, LockStep, MainStep, HubStep, FillStep DEF IInv
    <2> QED BY <2>1, AgesStep, StutterStep DEF Next
  <1> QED BY Initially, <1>1, PTL DEF Spec

\* Every variable keeps its type, and a process at work holds the flock of the
\* lock file it opened: of any number of processes, starts and failures.
THEOREM TypeCorrect == Spec => []TypeOK
  BY Inductive, PTL DEF IInv

\* At most one process works on the data directory, unless one on its way out
\* removed the lock file another had open (acquire_process_lock,
\* release_process_lock).
THEOREM OneAtWork == Spec => []OneInside
  BY Inductive, PTL DEF IInv, LockInv

\* The marker, the version and the hub state are true whatever crashes between
\* the work and its record (_mark_db_initialized, _write_schema_version,
\* init_users_hub_tables).
THEOREM Honest == Spec => []RecordsHonest
  BY Inductive, PTL DEF IInv, RecordsHonest, MainInv, HubInv

\* No later start fills a baseline that was left out on purpose (apply_migrations,
\* V004), but for a step left unstamped, one lost, or two processes at work.
THEOREM NoSecondBackfill == Spec => []BackfillOnce
  BY Inductive, PTL DEF IInv, FillInv

\* A start is refused only by a process that is alive and has the same lock file
\* open (acquire_process_lock).
THEOREM RefusedByTheLiving == Spec => NoStaleRefusal
  <1> DEFINE Fair == \A p \in Processes : pc[p] = "open" /\ pc'[p] = "off" /\ faults' = faults =>
                         \E q \in Inside : q # p /\ ino[q] = ino[p]
  <1>1. IInv /\ [Next]_vars => [Fair]_vars
    <2> SUFFICES ASSUME IInv, Next, NEW p \in Processes,
                        pc[p] = "open", pc'[p] = "off", faults' = faults
                 PROVE  \E q \in Inside : q # p /\ ino[q] = ino[p]
      OBVIOUS
    <2>1. PICK r \in Processes : ProcessStep(r)
      BY DEF Next, HubAges
    <2>2. r = p /\ Refused(p)
      <3>1. CASE AtWork(r)
        BY <3>1 DEF AtWork, Work, Inside, IInv, TypeOK
      <3>2. CASE Opens(r) \/ Locks(r) \/ Unlocks(r) \/ Unlinks(r) \/ RemovesPid(r)
        BY <3>2 DEF Opens, Locks, Unlocks, Unlinks, RemovesPid, Goes, IInv, TypeOK
      <3>3. CASE Crashes(r)
        BY <3>3 DEF Crashes, Faults, IInv, TypeOK
      <3>4. CASE Refused(r)
        BY <3>4 DEF Refused, Goes, IInv, TypeOK
      <3> QED BY <2>1, LockOrWork, <3>1, <3>2, <3>3, <3>4 DEF IInv
    <2>3. ino[p] \in 1..MaxStarts
      BY StartupAssumption DEF IInv, TypeOK, LockInv, Opened
    <2>4. owner[ino[p]] # Nobody
      BY <2>2 DEF Refused
    <2>5. owner[ino[p]] \in Inside /\ ino[owner[ino[p]]] = ino[p]
      BY <2>3, <2>4 DEF IInv, LockInv, Held
    <2> QED BY <2>5 DEF Inside
  <1> QED BY Inductive, <1>1, PTL DEF Spec, NoStaleRefusal

=============================================================================
