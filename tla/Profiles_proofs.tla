---------------------------- MODULE Profiles_proofs ----------------------------
(***************************************************************************)
(* Proofs about Profiles, for any profiles and request threads, with and   *)
(* without a cloud.                                                        *)
(*                                                                         *)
(* Data goes astray only through the path of the process.  The invariant   *)
(* says, of every place where data of a profile waits, which database it   *)
(* is bound for: that of the path now, that of the connection the writer   *)
(* is about to take, or that of the connection it is opening; or else the  *)
(* profile is among those under which the path was switched.               *)
(*                                                                         *)
(* The contexts have an invariant of their own: who makes a context holds  *)
(* the init lock of the profile and found none, a context that runs is     *)
(* published, being made or taken away, and its configuration is that of   *)
(* the file, all unless an eviction or an error cut in.                    *)
(***************************************************************************)
EXTENDS Profiles, SequenceTheorems, FiniteSetTheorems, TLAPS

ThreadRecords == [pc : Pcs \ {"idle"}, profile : Profiles, kind : Kinds \cup {"running"},
                  lock : Nat, ctx : Nat]
Contexts      == [profile : Profiles, cfg : Nat, open : BOOLEAN]

ThreadTypes == thread \in [Threads -> {Idle} \cup ThreadRecords]

DataTypes ==
    /\ path \in Profiles
    /\ conn \in {None} \cup [db : Profiles, as : Profiles, remote : {Remote}]
    /\ opening \in {None} \cup [who : Agents, db : Profiles, remote : {Remote}]
    /\ queue \in Seq(Profiles)
    /\ writer \in [pc : {"idle", "look", "create", "open"}, batch : Seq(Profiles)]
    /\ moved \subseteq Profiles
    /\ poisoned \in BOOLEAN

ContextTypes ==
    /\ ctxs \in Seq(Contexts)
    /\ published \in [Profiles -> Nat]
    /\ file \in [Profiles -> Nat]
    /\ lockOf \in [Profiles -> Nat]
    /\ locks \in Nat
    /\ spent \in [{"requests", "writes", "troubles"} -> Nat]

RouteTypes == ThreadTypes /\ DataTypes /\ ContextTypes

(* Who opens a connection. *)
OpenerKnown == \A a \in Agents : Stage(a) = "open" <=> (opening # None /\ opening.who = a)

(* What is bound for the path of the process. *)
Bound == {path} \cup moved

RunnersBound == \A t \in Threads : thread[t].pc = "run" => thread[t].profile \in Bound
PendingBound == Pending \subseteq Bound

(* What the writer is about to commit. *)
BatchBound ==
    \A p \in Items(writer.batch) :
        /\ writer.pc = "create" /\ conn # None => p \in {conn.as} \cup moved
        /\ writer.pc = "open" => p \in {opening.db} \cup moved

LabelHonest == conn # None => conn.db = conn.as \/ poisoned

IInv == /\ RouteTypes /\ OpenerKnown /\ RunnersBound /\ PendingBound /\ BatchBound
        /\ LabelHonest /\ Routed

routeVars == << path, moved, conn, opening, queue, writer, placed, poisoned >>

-----------------------------------------------------------------------------
(* Lemmas. *)

LEMMA NoneIsNoRecord ==
    /\ \A a, d, u : [who |-> a, db |-> d, remote |-> u] # None
    /\ \A d, e, u : [db |-> d, as |-> e, remote |-> u] # None
  BY DEF None

(* Every replica is one of the cloud of the process. *)
LEMMA OneRemote ==
  ASSUME DataTypes
  PROVE  (conn # None => conn.remote = Remote) /\ (opening # None => opening.remote = Remote)
  BY DEF DataTypes

LEMMA AppendItems ==
  ASSUME NEW q \in Seq(Profiles), NEW p \in Profiles
  PROVE  Append(q, p) \in Seq(Profiles) /\ Items(Append(q, p)) = Items(q) \cup {p}
  <1>1. Append(q, p) \in Seq(Profiles) /\ DOMAIN Append(q, p) = 1..Len(q) + 1
        /\ DOMAIN q = 1..Len(q) /\ Len(q) \in Nat
    OBVIOUS
  <1>2. \A i \in 1..Len(q) : Append(q, p)[i] = q[i]
    OBVIOUS
  <1>3. Append(q, p)[Len(q) + 1] = p
    OBVIOUS
  <1> QED BY <1>1, <1>2, <1>3 DEF Items

LEMMA NoItems == << >> \in Seq(Profiles) /\ Items(<< >>) = {}
  BY DEF Items

LEMMA ItemsTyped ==
  ASSUME NEW q \in Seq(Profiles)
  PROVE  Items(q) \subseteq Profiles
  BY DEF Items

LEMMA StageIs ==
  /\ Stage(Writer) = writer.pc
  /\ \A t \in Threads : Stage(t) = thread[t].pc /\ t # Writer
  BY ProfilesAssumption DEF Stage

LEMMA HasRecord ==
  ASSUME ThreadTypes, NEW t \in Threads, thread[t].pc # "idle"
  PROVE  thread[t] \in ThreadRecords
  BY DEF ThreadTypes, Idle

LEMMA MovesOn ==
  ASSUME ThreadTypes, NEW t \in Threads, thread[t].pc # "idle",
         NEW pc \in Pcs \ {"idle"}, At(t, pc)
  PROVE  ThreadTypes'
  <1>1. [thread[t] EXCEPT !.pc = pc] \in ThreadRecords
    BY HasRecord DEF ThreadRecords
  <1> QED BY <1>1 DEF ThreadTypes, At

LEMMA GoesIdle ==
  ASSUME ThreadTypes, NEW t \in Threads, thread' = [thread EXCEPT ![t] = Idle]
  PROVE  ThreadTypes'
  BY DEF ThreadTypes

LEMMA SeeksTyped ==
  ASSUME RouteTypes, NEW t \in Threads, NEW p \in Profiles,
         NEW kind \in Kinds \cup {"running"}, Seeks(t, p, kind)
  PROVE  ThreadTypes' /\ lockOf' \in [Profiles -> Nat] /\ locks' \in Nat
  <1>1. LockFound(p) \in Nat
    BY DEF LockFound, RouteTypes, ContextTypes
  <1>2. [pc |-> "lock", profile |-> p, kind |-> kind, lock |-> LockFound(p), ctx |-> 0]
        \in ThreadRecords
    BY <1>1 DEF ThreadRecords, Pcs
  <1>3. ThreadTypes'
    BY <1>2 DEF Seeks, RouteTypes, ThreadTypes
  <1> QED BY <1>1, <1>3 DEF Seeks, RouteTypes, ContextTypes

(* A step that touches neither the path, nor data, nor the connection. *)
LEMMA QuietKeeps ==
  ASSUME IInv, RouteTypes', UNCHANGED routeVars,
         \A t \in Threads : thread'[t].pc = "open" <=> thread[t].pc = "open",
         \A t \in Threads : thread'[t].pc = "run" =>
             thread[t].pc = "run" /\ thread'[t].profile = thread[t].profile
  PROVE  IInv'
  <1>1. OpenerKnown'
    BY DEF IInv, OpenerKnown, routeVars, Stage, Agents
  <1>2. RunnersBound'
    BY DEF IInv, RunnersBound, routeVars, Bound
  <1>3. PendingBound' /\ BatchBound' /\ LabelHonest' /\ Routed'
    BY DEF IInv, PendingBound, Pending, Items, BatchBound, LabelHonest, Routed, routeVars, Bound
  <1> QED BY <1>1, <1>2, <1>3 DEF IInv

(* A switch of the path. *)
LEMMA PrepareKeeps ==
  ASSUME IInv, RouteTypes', NEW p \in Profiles, Prepare(p),
         UNCHANGED << opening, queue, writer, placed, poisoned >>,
         conn' \in {conn, None},
         \A t \in Threads : thread'[t].pc = "open" <=> thread[t].pc = "open",
         \A t \in Threads : thread'[t].pc = "run" =>
             \/ thread'[t].profile = p
             \/ thread[t].pc = "run" /\ thread'[t].profile = thread[t].profile
  PROVE  IInv'
  <1>1. moved \subseteq moved' /\ path' = p
        /\ \A q \in Profiles : AtWork(q) => q \in Bound'
    BY DEF Prepare, Bound
  <1>2. OpenerKnown'
    BY DEF IInv, OpenerKnown, Stage, Agents
  <1>3. RunnersBound'
    <2> SUFFICES ASSUME NEW t \in Threads, thread'[t].pc = "run"
                 PROVE  thread'[t].profile \in Bound'
      BY DEF RunnersBound
    <2>1. CASE thread'[t].profile = p
      BY <1>1, <2>1 DEF Bound
    <2>2. CASE thread[t].pc = "run" /\ thread'[t].profile = thread[t].profile
      <3>1. thread[t].profile \in Profiles
        BY <2>2, HasRecord DEF IInv, RouteTypes, ThreadRecords
      <3> QED BY <1>1, <2>2, <3>1 DEF AtWork
    <2> QED BY <2>1, <2>2
  <1>4. PendingBound'
    <2>1. Pending' = Pending
      BY DEF Pending, Items
    <2>2. queue \in Seq(Profiles) /\ writer.batch \in Seq(Profiles)
      BY DEF IInv, RouteTypes, DataTypes
    <2>3. Pending \subseteq Profiles
      BY <2>2, ItemsTyped DEF Pending
    <2> QED BY <1>1, <2>1, <2>3 DEF AtWork, PendingBound
  <1>5. BatchBound'
    BY <1>1 DEF IInv, BatchBound
  <1>6. LabelHonest' /\ Routed'
    BY <1>1 DEF IInv, LabelHonest, Routed
  <1> QED BY <1>2, <1>3, <1>4, <1>5, <1>6 DEF IInv

-----------------------------------------------------------------------------
(* The types. *)

LEMMA SpendTyped ==
  ASSUME RouteTypes, NEW what \in {"requests", "writes", "troubles"}, Spend(what)
  PROVE  spent' \in [{"requests", "writes", "troubles"} -> Nat] /\ Stamp \in Nat
  BY DEF RouteTypes, ContextTypes, Spend, Stamp

LEMMA GetTyped ==
  ASSUME RouteTypes, NEW t \in Threads,
         \/ \E p \in Profiles, kind \in Kinds : Request(t, p, kind)
         \/ Finds(t) \/ Creates(t) \/ CreateFails(t) \/ SkipsWarmUp(t) \/ WarmsUp(t)
         \/ Publishes(t) \/ StartFails(t)
  PROVE  RouteTypes'
  <1> USE DEF RouteTypes, DataTypes, ContextTypes
  <1>p. ASSUME thread[t].pc # "idle"
        PROVE  /\ thread[t] \in ThreadRecords
               /\ thread[t].profile \in Profiles
               /\ thread[t].ctx \in Nat
    BY <1>p, HasRecord DEF ThreadRecords
  <1>1. CASE \E p \in Profiles, kind \in Kinds : Request(t, p, kind)
    <2>1. PICK p \in Profiles, kind \in Kinds : Request(t, p, kind)
      BY <1>1
    <2>2. Spend("requests") /\ Seeks(t, p, kind)
      BY <2>1 DEF Request
    <2>3. ThreadTypes' /\ lockOf' \in [Profiles -> Nat] /\ locks' \in Nat
      BY <2>2, SeeksTyped
    <2>4. spent' \in [{"requests", "writes", "troubles"} -> Nat]
      BY <2>2, SpendTyped
    <2> QED BY <2>1, <2>3, <2>4 DEF Request, Seeks, dataVars, fileVars
  <1>2. CASE Finds(t)
    <2>1. thread[t].pc # "idle"
      BY <1>2 DEF Finds, Enters
    <2>2. [[thread[t] EXCEPT !.pc = "got"] EXCEPT !.ctx = published[thread[t].profile]]
          \in ThreadRecords
      BY <2>1, <1>p DEF ThreadRecords, Pcs
    <2>3. ThreadTypes'
      BY <1>2, <2>2 DEF ThreadTypes, Finds
    <2> QED BY <1>2, <2>3 DEF Finds, contextVars, dataVars, fileVars
  <1>3. CASE Creates(t)
    <2>1. thread[t].pc # "idle"
      BY <1>3 DEF Creates, Enters
    <2>n. Len(ctxs) + 1 \in Nat
      OBVIOUS
    <2>2. [[thread[t] EXCEPT !.pc = "ready"] EXCEPT !.ctx = Len(ctxs) + 1]
          \in ThreadRecords
      BY <2>1, <2>n, <1>p DEF ThreadRecords, Pcs
    <2>3. ThreadTypes'
      BY <1>3, <2>2 DEF ThreadTypes, Creates
    <2>4. [profile |-> thread[t].profile, cfg |-> Loaded(thread[t].profile), open |-> TRUE]
          \in Contexts
      BY <2>1, <1>p DEF Contexts, Loaded
    <2>5. ctxs' \in Seq(Contexts)
      BY <1>3, <2>4 DEF Creates
    <2> QED BY <1>3, <2>3, <2>5 DEF Creates, dataVars, fileVars
  <1>4. CASE CreateFails(t)
    BY <1>4, GoesIdle, SpendTyped DEF CreateFails, contextVars, dataVars, fileVars
  <1>5. CASE SkipsWarmUp(t)
    <2>1. ThreadTypes'
      BY <1>5, MovesOn DEF SkipsWarmUp, Publish, Pcs
    <2>2. published' \in [Profiles -> Nat]
      BY <1>5, <1>p DEF SkipsWarmUp, Publish
    <2> QED BY <1>5, <2>1, <2>2 DEF SkipsWarmUp, Publish, dataVars, fileVars
  <1>6. CASE WarmsUp(t)
    <2>1. ThreadTypes'
      BY <1>6, MovesOn DEF WarmsUp, Pcs
    <2>2. path' \in Profiles /\ moved' \subseteq Profiles
      BY <1>6, <1>p DEF WarmsUp, Prepare
    <2> QED BY <1>6, <2>1, <2>2 DEF WarmsUp, fileVars
  <1>7. CASE Publishes(t)
    <2>1. ThreadTypes'
      BY <1>7, MovesOn DEF Publishes, Publish, Pcs
    <2>2. published' \in [Profiles -> Nat]
      BY <1>7, <1>p DEF Publishes, Publish
    <2> QED BY <1>7, <2>1, <2>2 DEF Publishes, Publish, dataVars, fileVars
  <1>8. CASE StartFails(t)
    BY <1>8, GoesIdle, SpendTyped DEF StartFails, dataVars, fileVars
  <1> QED BY <1>1, <1>2, <1>3, <1>4, <1>5, <1>6, <1>7, <1>8

LEMMA UseTyped ==
  ASSUME RouteTypes, NEW t \in Threads,
         Visits(t) \/ ReadsToday(t) \/ Submits(t) \/ Conflict(t) \/ Runs(t) \/ Saves(t)
         \/ Ends(t)
  PROVE  RouteTypes'
  <1> USE DEF RouteTypes, DataTypes, ContextTypes
  <1>p. thread[t].pc # "idle" /\ thread[t].profile \in Profiles
    BY HasRecord DEF ThreadRecords, Visits, ReadsToday, Submits, Conflict, Runs, Saves, Ends, Got
  <1>1. CASE Visits(t) \/ Conflict(t) \/ Ends(t)
    BY <1>1, GoesIdle DEF Visits, Conflict, Ends, contextVars, dataVars, fileVars
  <1>2. CASE ReadsToday(t)
    <2>1. path' \in Profiles /\ moved' \subseteq Profiles
      BY <1>2, <1>p DEF ReadsToday, Prepare
    <2> QED BY <1>2, <2>1, GoesIdle DEF ReadsToday, contextVars, dataVars, fileVars
  <1>3. CASE Submits(t)
    <2>1. ThreadTypes' /\ lockOf' \in [Profiles -> Nat] /\ locks' \in Nat
      BY <1>3, <1>p, SeeksTyped DEF Submits
    <2> QED BY <1>3, <2>1 DEF Submits, Seeks, dataVars, fileVars
  <1>4. CASE Runs(t)
    <2>1. path' \in Profiles /\ moved' \subseteq Profiles
      BY <1>4, <1>p DEF Runs, Prepare
    <2>2. ThreadTypes'
      BY <1>4, <1>p, MovesOn DEF Runs, Pcs
    <2> QED BY <1>4, <2>1, <2>2 DEF Runs, contextVars, dataVars, fileVars
  <1>5. CASE Saves(t)
    <2>1. Append(queue, thread[t].profile) \in Seq(Profiles)
      BY <1>p
    <2>2. spent' \in [{"requests", "writes", "troubles"} -> Nat]
      BY <1>5, SpendTyped DEF Saves
    <2> QED BY <1>5, <2>1, <2>2 DEF Saves, Land, ThreadTypes, contextVars, fileVars
  <1> QED BY <1>1, <1>2, <1>3, <1>4, <1>5

(* A stage of the connection. *)
LEMMA MovesTyped ==
  ASSUME RouteTypes, NEW a \in Agents, NEW pc \in {"create", "open", "have"}, NEW c,
         Stage(a) # "idle", Moves(a, pc, c)
  PROVE  /\ ThreadTypes' /\ ContextTypes'
         /\ queue' \in Seq(Profiles) /\ moved' \subseteq Profiles /\ path' \in Profiles
         /\ writer' \in [pc : {"idle", "look", "create", "open"}, batch : Seq(Profiles)]
  <1> USE DEF RouteTypes, DataTypes
  <1>1. ContextTypes' /\ queue' \in Seq(Profiles) /\ moved' \subseteq Profiles
        /\ path' \in Profiles
    BY DEF Moves, ContextTypes, contextVars, fileVars
  <1>2. CASE a = Writer
    <2>1. [pc |-> "idle", batch |-> << >>]
          \in [pc : {"idle", "look", "create", "open"}, batch : Seq(Profiles)]
      BY NoItems
    <2>2. pc # "have" => [writer EXCEPT !.pc = pc]
          \in [pc : {"idle", "look", "create", "open"}, batch : Seq(Profiles)]
      OBVIOUS
    <2>3. writer' \in [pc : {"idle", "look", "create", "open"}, batch : Seq(Profiles)]
          /\ UNCHANGED thread
      BY <1>2, <2>1, <2>2 DEF Moves
    <2> QED BY <1>1, <2>3 DEF ThreadTypes
  <1>3. CASE a # Writer
    <2>1. a \in Threads /\ At(a, pc) /\ UNCHANGED writer
      BY <1>3 DEF Agents, Moves
    <2>2. ThreadTypes'
      BY <2>1, <1>3, MovesOn DEF Stage, Pcs
    <2> QED BY <1>1, <2>1, <2>2
  <1> QED BY <1>2, <1>3

LEMMA OpenerTyped ==
  ASSUME RouteTypes, OpenerKnown, NEW a \in Agents, Stage(a) = "open"
  PROVE  /\ opening # None /\ opening.who = a
         /\ opening.db \in Profiles /\ opening.remote = Remote
  <1>1. opening \in [who : Agents, db : Profiles, remote : {Remote}] /\ opening.who = a
    BY NoneIsNoRecord DEF OpenerKnown, RouteTypes, DataTypes
  <1> QED BY <1>1, NoneIsNoRecord DEF OpenerKnown

LEMMA ConnTyped ==
  ASSUME RouteTypes, OpenerKnown, NEW a \in Agents, Looks(a) \/ Opens(a) \/ Records(a)
  PROVE  RouteTypes'
  <1> USE DEF RouteTypes, DataTypes
  <1>1. CASE Looks(a)
    <2>1. PICK pc \in {"create", "open", "have"} : \E c : Moves(a, pc, c)
      BY <1>1 DEF Looks
    <2>2. conn' \in {conn, None}
      BY <1>1 DEF Looks
    <2> QED BY <1>1, <2>1, <2>2, MovesTyped DEF Looks
  <1>2. CASE Opens(a)
    <2>1. PICK pc \in {"create", "open", "have"} : \E c : Moves(a, pc, c)
      BY <1>2 DEF Opens
    <2>2. opening' \in {opening, [who |-> a, db |-> path, remote |-> Remote]}
      BY <1>2 DEF Opens
    <2> QED BY <1>2, <2>1, <2>2, MovesTyped DEF Opens
  <1>3. CASE Records(a)
    <2>1. Moves(a, "have", opening)
      BY <1>3 DEF Records
    <2>2. opening.db \in Profiles /\ opening.remote = Remote
      BY <1>3, OpenerTyped DEF Records
    <2> QED BY <1>3, <2>1, <2>2, MovesTyped DEF Records
  <1> QED BY <1>1, <1>2, <1>3

LEMMA TakesTyped == RouteTypes /\ Takes => RouteTypes'
  BY NoItems DEF RouteTypes, DataTypes, ContextTypes, ThreadTypes, Takes, contextVars, fileVars

LEMMA ProfileTyped ==
  ASSUME RouteTypes, NEW p \in Profiles,
         Scans(p) \/ Edits(p) \/ Evicts(p) \/ Deletes(p) \/ MakesProfile(p)
  PROVE  RouteTypes'
  <1> USE DEF RouteTypes, DataTypes, ContextTypes, ThreadTypes, contextVars, dataVars, fileVars
  <1>1. CASE Scans(p)
    BY <1>1 DEF Scans, Prepare
  <1>2. CASE Edits(p)
    BY <1>2, SpendTyped DEF Edits
  <1>3. CASE Evicts(p)
    BY <1>3 DEF Evicts
  <1>4. CASE Deletes(p)
    BY <1>4, SpendTyped DEF Deletes
  <1>5. CASE MakesProfile(p)
    BY <1>5, SpendTyped DEF MakesProfile
  <1> QED BY <1>1, <1>2, <1>3, <1>4, <1>5

LEMMA ContextTyped ==
  ASSUME RouteTypes, NEW i \in 1..Len(ctxs), SyncWrites(i) \/ ShutsDown(i)
  PROVE  RouteTypes'
  <1> USE DEF RouteTypes, DataTypes, ContextTypes, ThreadTypes
  <1>0. ctxs[i] \in Contexts
    OBVIOUS
  <1>1. ctxs[i] \in Contexts /\ ctxs[i].profile \in Profiles
    BY <1>0 DEF Contexts
  <1>2. CASE SyncWrites(i)
    <2>1. Append(queue, ctxs[i].profile) \in Seq(Profiles)
      BY <1>1
    <2>2. spent' \in [{"requests", "writes", "troubles"} -> Nat]
      BY <1>2, SpendTyped DEF SyncWrites
    <2> QED BY <1>2, <2>1, <2>2 DEF SyncWrites, Land, contextVars, fileVars
  <1>3. CASE ShutsDown(i)
    <2>1. [ctxs[i] EXCEPT !.open = FALSE] \in Contexts
      BY <1>1 DEF Contexts
    <2>2. ctxs' \in Seq(Contexts)
      BY <1>3, <2>1 DEF ShutsDown
    <2> QED BY <1>3, <2>2 DEF ShutsDown, dataVars, fileVars
  <1> QED BY <1>2, <1>3

-----------------------------------------------------------------------------
(* Data is added, and the writer takes it. *)

LEMMA SavesKeeps ==
  ASSUME IInv, RouteTypes', NEW p \in Profiles, p \in Bound,
         UNCHANGED << thread, path, moved, conn, opening, writer, poisoned >>,
         \/ queue' = Append(queue, p) /\ UNCHANGED placed
         \/ Land(p, path) /\ UNCHANGED queue
  PROVE  IInv'
  <1>1. OpenerKnown' /\ RunnersBound' /\ BatchBound' /\ LabelHonest'
    BY DEF IInv, OpenerKnown, Stage, Agents, RunnersBound, BatchBound, LabelHonest, Bound, Items
  <1>2. Bound' = Bound /\ Items(writer.batch)' = Items(writer.batch)
    BY DEF Bound, Items
  <1>3. CASE queue' = Append(queue, p) /\ UNCHANGED placed
    <2>1. Items(queue)' = Items(queue) \cup {p}
      BY <1>3, AppendItems DEF IInv, RouteTypes, DataTypes, Items
    <2>2. PendingBound' /\ Routed'
      BY <1>2, <1>3, <2>1 DEF IInv, PendingBound, Pending, Routed
    <2> QED BY <1>1, <2>2 DEF IInv
  <1>4. CASE Land(p, path) /\ UNCHANGED queue
    <2>1. PendingBound'
      BY <1>4 DEF IInv, PendingBound, Pending, Bound, Items
    <2>2. Routed'
      BY <1>4 DEF IInv, Routed, Land, Bound
    <2> QED BY <1>1, <2>1, <2>2 DEF IInv
  <1> QED BY <1>3, <1>4

(* The sync worker's own write goes to the database it names. *)
LEMMA LandsAtHome ==
  ASSUME IInv, RouteTypes', NEW p \in Profiles, Land(p, p),
         UNCHANGED << thread, path, moved, conn, opening, queue, writer, poisoned >>
  PROVE  IInv'
  <1>1. OpenerKnown' /\ RunnersBound' /\ BatchBound' /\ LabelHonest'
    BY DEF IInv, OpenerKnown, Stage, Agents, RunnersBound, BatchBound, LabelHonest, Bound, Items
  <1>2. PendingBound'
    BY DEF IInv, PendingBound, Pending, Bound, Items
  <1>3. Routed'
    BY DEF IInv, Routed, Land
  <1> QED BY <1>1, <1>2, <1>3 DEF IInv

LEMMA TakesKeeps ==
  ASSUME IInv, RouteTypes', Takes
  PROVE  IInv'
  <1>1. UNCHANGED << thread, path, moved, conn, opening, placed, poisoned >>
        /\ writer.pc = "idle" /\ writer' = [pc |-> "look", batch |-> queue] /\ queue' = << >>
    BY DEF Takes, contextVars, fileVars
  <1>2. OpenerKnown'
    <2> SUFFICES ASSUME NEW a \in Agents
                 PROVE  (Stage(a) = "open" <=> (opening # None /\ opening.who = a))'
      BY DEF OpenerKnown
    <2>1. Stage(a)' = "open" <=> Stage(a) = "open"
      BY <1>1 DEF Stage
    <2> QED BY <1>1, <2>1 DEF IInv, OpenerKnown
  <1>3. RunnersBound' /\ LabelHonest' /\ Routed'
    BY <1>1 DEF IInv, RunnersBound, LabelHonest, Routed, Bound
  <1>4. Items(writer.batch)' = Items(queue) /\ Items(queue)' = {}
    BY <1>1, NoItems DEF Items
  <1>5. PendingBound' /\ BatchBound'
    BY <1>1, <1>4 DEF IInv, PendingBound, Pending, BatchBound, Bound
  <1> QED BY <1>2, <1>3, <1>5 DEF IInv

-----------------------------------------------------------------------------
(* The connection. *)

(* The writer commits its batch to the database db. *)
LEMMA WriterCommits ==
  ASSUME IInv, RouteTypes', NEW c, Moves(Writer, "have", c), poisoned => poisoned',
         c.remote = Remote,
         \A p \in Items(writer.batch) : p = c.db \/ p \in moved \/ poisoned'
  PROVE  RunnersBound' /\ PendingBound' /\ BatchBound' /\ Routed'
  <1>1. UNCHANGED << thread, path, moved, queue >>
        /\ writer' = [pc |-> "idle", batch |-> << >>]
        /\ placed' = placed \cup {[of |-> p, in |-> c.db, to |-> {Remote}] : p \in Items(writer.batch)}
    BY DEF Moves, contextVars, fileVars
  <1>2. RunnersBound'
    BY <1>1 DEF IInv, RunnersBound, Bound
  <1>3. Items(writer.batch)' = {} /\ Items(queue)' = Items(queue)
    BY <1>1, NoItems DEF Items
  <1>4. PendingBound' /\ BatchBound'
    BY <1>1, <1>3 DEF IInv, PendingBound, Pending, BatchBound, Bound
  <1>5. Routed'
    <2> SUFFICES ASSUME NEW w \in placed'
                 PROVE  (/\ w.in # w.of => w.of \in moved \/ poisoned
                         /\ w.to \subseteq {w.of} \/ w.of # Boot)'
      BY DEF Routed
    <2>1. CASE w \in placed
      BY <1>1, <2>1 DEF IInv, Routed
    <2>2. CASE w \notin placed
      <3>1. PICK p \in Items(writer.batch) : w = [of |-> p, in |-> c.db, to |-> {Remote}]
        BY <1>1, <2>2
      <3> QED BY <1>1, <3>1 DEF Remote
    <2> QED BY <2>1, <2>2
  <1> QED BY <1>2, <1>4, <1>5

(* Any other stage of the connection commits nothing. *)
LEMMA OthersCommitNothing ==
  ASSUME IInv, RouteTypes', NEW a \in Agents, NEW pc \in {"create", "open", "have"}, NEW c,
         Stage(a) # "idle", Moves(a, pc, c), a # Writer \/ pc # "have", poisoned => poisoned'
  PROVE  /\ RunnersBound' /\ PendingBound' /\ Routed'
         /\ UNCHANGED << path, moved, queue, placed, writer.batch >>
         /\ a # Writer => UNCHANGED writer
         /\ \A b \in Agents : Stage(b)' = IF b = a THEN pc ELSE Stage(b)
  <1> USE DEF IInv, RouteTypes, DataTypes, ThreadTypes
  <1>1. UNCHANGED << path, moved, queue, placed >>
    BY DEF Moves, contextVars, fileVars
  <1>2. /\ UNCHANGED writer.batch
        /\ a # Writer => UNCHANGED writer /\ At(a, pc)
        /\ a = Writer => UNCHANGED thread /\ writer' = [writer EXCEPT !.pc = pc]
    BY DEF Moves
  <1>3. \A b \in Agents : Stage(b)' = IF b = a THEN pc ELSE Stage(b)
    <2>1. CASE a = Writer
      BY <1>2, <2>1 DEF Stage
    <2>2. CASE a # Writer
      <3>1. a \in Threads /\ thread[a] \in ThreadRecords
        BY <2>2, HasRecord DEF Agents, Stage
      <3> QED BY <1>2, <2>2, <3>1 DEF Stage, Agents, At, ThreadRecords
    <2> QED BY <2>1, <2>2
  <1>4. RunnersBound'
    <2> SUFFICES ASSUME NEW t \in Threads, thread'[t].pc = "run"
                 PROVE  thread'[t].profile \in Bound'
      BY DEF RunnersBound
    <2>1. t # a
      BY <1>3, StageIs DEF Agents, Stage
    <2>2. thread'[t] = thread[t]
      BY <1>2, <2>1 DEF At
    <2> QED BY <1>1, <2>2 DEF RunnersBound, Bound
  <1>5. PendingBound' /\ Routed'
    BY <1>1, <1>2 DEF PendingBound, Pending, Bound, Items, Routed
  <1> QED BY <1>1, <1>2, <1>3, <1>4, <1>5

LEMMA LooksKeeps ==
  ASSUME IInv, RouteTypes', NEW a \in Agents, Looks(a)
  PROVE  IInv'
  <1>1. Stage(a) = "look" /\ UNCHANGED << opening, poisoned >> /\ conn' \in {conn, None}
    BY DEF Looks
  <1>2. LabelHonest'
    BY <1>1 DEF IInv, LabelHonest
  <1>3. CASE a = Writer /\ conn # None /\ conn.as = path
    <2>1. Moves(Writer, "have", conn) /\ UNCHANGED conn
      BY <1>3 DEF Looks
    <2>2. \A p \in Items(writer.batch) : p = conn.db \/ p \in moved \/ poisoned'
      BY <1>1, <1>3 DEF IInv, PendingBound, Pending, Bound, LabelHonest
    <2>r. conn.remote = Remote
      BY <1>3, OneRemote DEF IInv, RouteTypes
    <2>3. RunnersBound' /\ PendingBound' /\ BatchBound' /\ Routed'
      BY <1>1, <2>1, <2>2, <2>r, WriterCommits
    <2>4. UNCHANGED thread /\ writer.pc = "look" /\ writer'.pc = "idle"
      BY <1>1, <1>3, <2>1, StageIs DEF Moves
    <2>5. OpenerKnown'
      BY <1>1, <2>4 DEF IInv, OpenerKnown, Stage
    <2> QED BY <1>2, <2>3, <2>5 DEF IInv
  <1>4. CASE ~ (a = Writer /\ conn # None /\ conn.as = path)
    <2>1. PICK pc \in {"create", "have"} : /\ \E c : Moves(a, pc, c)
                                           /\ a # Writer \/ (pc # "have" /\ conn' = None)
      <3>1. CASE conn # None /\ conn.as = path
        <4>1. Moves(a, "have", conn) /\ a # Writer
          BY <1>4, <3>1 DEF Looks
        <4>2. "have" \in {"create", "have"}
          OBVIOUS
        <4> QED BY <4>1, <4>2
      <3>2. CASE ~ (conn # None /\ conn.as = path)
        <4>1. Moves(a, "create", None) /\ conn' = None
          BY <3>2 DEF Looks
        <4> QED BY <4>1
      <3> QED BY <3>1, <3>2
    <2>2. /\ RunnersBound' /\ PendingBound' /\ Routed'
          /\ UNCHANGED << path, moved, queue, placed, writer.batch >>
          /\ a # Writer => UNCHANGED writer
          /\ \A b \in Agents : Stage(b)' = IF b = a THEN pc ELSE Stage(b)
      BY <1>1, <2>1, OthersCommitNothing
    <2>3. OpenerKnown'
      BY <1>1, <2>2 DEF IInv, OpenerKnown
    <2>4. BatchBound'
      <3>1. CASE a = Writer
        <4>1. writer'.pc # "open" /\ conn' = None
          BY <2>1, <2>2, <3>1, StageIs DEF Agents, Stage
        <4> QED BY <4>1 DEF BatchBound
      <3>2. CASE a # Writer
        BY <1>1, <2>2, <3>2 DEF IInv, BatchBound, Items
      <3> QED BY <3>1, <3>2
    <2> QED BY <1>2, <2>2, <2>3, <2>4 DEF IInv
  <1> QED BY <1>3, <1>4

LEMMA OpensKeeps ==
  ASSUME IInv, RouteTypes', NEW a \in Agents, Opens(a)
  PROVE  IInv'
  <1>1. Stage(a) = "create" /\ opening = None /\ UNCHANGED << conn, poisoned >>
    BY DEF Opens
  <1>2. LabelHonest'
    BY <1>1 DEF IInv, LabelHonest
  <1>3. \A b \in Agents : Stage(b) # "open"
    BY <1>1 DEF IInv, OpenerKnown
  <1>4. CASE a = Writer /\ conn # None
    <2>1. Moves(Writer, "have", conn) /\ UNCHANGED opening /\ writer.pc = "create"
      BY <1>1, <1>4, StageIs DEF Opens
    <2>2. \A p \in Items(writer.batch) : p = conn.db \/ p \in moved \/ poisoned'
      BY <1>1, <1>4, <2>1 DEF IInv, BatchBound, LabelHonest
    <2>r. conn.remote = Remote
      BY <1>4, OneRemote DEF IInv, RouteTypes
    <2>3. RunnersBound' /\ PendingBound' /\ BatchBound' /\ Routed'
      BY <1>1, <2>1, <2>2, <2>r, WriterCommits
    <2>4. UNCHANGED thread /\ writer'.pc = "idle"
      BY <2>1 DEF Moves
    <2>5. OpenerKnown'
      BY <1>1, <1>3, <2>1, <2>4 DEF OpenerKnown, Stage
    <2> QED BY <1>2, <2>3, <2>5 DEF IInv
  <1>5. CASE a # Writer /\ conn # None
    <2>1. Moves(a, "have", conn) /\ UNCHANGED opening
      BY <1>5 DEF Opens
    <2>2. /\ RunnersBound' /\ PendingBound' /\ Routed'
          /\ UNCHANGED << path, moved, queue, placed, writer >>
          /\ \A b \in Agents : Stage(b)' = IF b = a THEN "have" ELSE Stage(b)
      BY <1>1, <1>5, <2>1, OthersCommitNothing
    <2>3. OpenerKnown'
      BY <1>1, <1>3, <2>1, <2>2 DEF OpenerKnown
    <2>4. BatchBound'
      BY <1>1, <2>1, <2>2 DEF IInv, BatchBound, Items
    <2> QED BY <1>2, <2>2, <2>3, <2>4 DEF IInv
  <1>6. CASE conn = None
    <2>1. Moves(a, "open", None) /\ opening' = [who |-> a, db |-> path, remote |-> Remote]
      BY <1>6 DEF Opens
    <2>2. /\ RunnersBound' /\ PendingBound' /\ Routed'
          /\ UNCHANGED << path, moved, queue, placed, writer.batch >>
          /\ \A b \in Agents : Stage(b)' = IF b = a THEN "open" ELSE Stage(b)
      BY <1>1, <2>1, OthersCommitNothing
    <2>3. OpenerKnown'
      BY <1>3, <2>1, <2>2, NoneIsNoRecord DEF OpenerKnown
    <2>4. BatchBound'
      <3>1. UNCHANGED conn /\ Items(writer.batch)' = Items(writer.batch)
        BY <1>1, <2>2 DEF Items
      <3> QED BY <1>6, <2>1, <2>2, <3>1 DEF IInv, BatchBound, PendingBound, Pending, Bound
    <2> QED BY <1>2, <2>2, <2>3, <2>4 DEF IInv
  <1> QED BY <1>4, <1>5, <1>6

LEMMA RecordsKeeps ==
  ASSUME IInv, RouteTypes', NEW a \in Agents, Records(a)
  PROVE  IInv'
  <1>1. /\ Stage(a) = "open" /\ opening # None /\ opening.who = a
        /\ conn' = [db |-> opening.db, as |-> path, remote |-> opening.remote] /\ opening' = None
        /\ poisoned' = (poisoned \/ opening.db # path)
        /\ Moves(a, "have", opening)
    BY DEF IInv, OpenerKnown, Records
  <1>2. LabelHonest'
    BY <1>1 DEF IInv, LabelHonest
  <1>3. \A b \in Agents : b # a => Stage(b) # "open"
    BY <1>1 DEF IInv, OpenerKnown
  <1>4. CASE a = Writer
    <2>1. \A p \in Items(writer.batch) : p = opening.db \/ p \in moved \/ poisoned'
      BY <1>1, <1>4, StageIs DEF IInv, BatchBound
    <2>r. opening.remote = Remote
      BY <1>1, OneRemote DEF IInv, RouteTypes
    <2>2. RunnersBound' /\ PendingBound' /\ BatchBound' /\ Routed'
      BY <1>1, <1>4, <2>1, <2>r, WriterCommits
    <2>3. UNCHANGED thread /\ writer'.pc = "idle"
      BY <1>1, <1>4 DEF Moves
    <2>4. OpenerKnown'
      BY <1>1, <1>3, <1>4, <2>3 DEF OpenerKnown, Stage
    <2> QED BY <1>2, <2>2, <2>4 DEF IInv
  <1>5. CASE a # Writer
    <2>1. /\ RunnersBound' /\ PendingBound' /\ Routed'
          /\ UNCHANGED << path, moved, queue, placed, writer >>
          /\ \A b \in Agents : Stage(b)' = IF b = a THEN "have" ELSE Stage(b)
      BY <1>1, <1>5, OthersCommitNothing
    <2>2. OpenerKnown'
      BY <1>1, <1>3, <2>1 DEF OpenerKnown
    <2>3. BatchBound'
      <3>1. writer.pc # "open"
        BY <1>3, <1>5, StageIs DEF Agents
      <3>2. Items(writer.batch)' = Items(writer.batch)
        BY <2>1 DEF Items
      <3> QED BY <1>1, <2>1, <3>1, <3>2 DEF IInv, BatchBound, PendingBound, Pending, Bound
    <2> QED BY <1>2, <2>1, <2>2, <2>3 DEF IInv
  <1> QED BY <1>4, <1>5

-----------------------------------------------------------------------------
(* Every other step: a switch of the path, or neither path nor data. *)

(* How the step of a thread that is not about data changes it. *)
LEMMA ThreadChanges ==
  ASSUME RouteTypes, NEW t \in Threads, NEW r, thread' = [thread EXCEPT ![t] = r],
         thread[t].pc # "open", r.pc # "open"
  PROVE  /\ \A u \in Threads : thread'[u].pc = "open" <=> thread[u].pc = "open"
         /\ \A u \in Threads : u # t => thread'[u] = thread[u]
         /\ thread'[t] = r
  BY DEF RouteTypes, ThreadTypes

LEMMA AtIs ==
  ASSUME RouteTypes, NEW t \in Threads, thread[t].pc # "idle", NEW pc, At(t, pc)
  PROVE  \E r : /\ thread' = [thread EXCEPT ![t] = r]
                /\ r.pc = pc /\ r.profile = thread[t].profile
  <1>1. thread[t] \in ThreadRecords
    BY HasRecord DEF RouteTypes
  <1>2. [thread[t] EXCEPT !.pc = pc].pc = pc
        /\ [thread[t] EXCEPT !.pc = pc].profile = thread[t].profile
    BY <1>1 DEF ThreadRecords
  <1> QED BY <1>2 DEF At

LEMMA GetKeeps ==
  ASSUME IInv, RouteTypes', NEW t \in Threads,
         \/ \E p \in Profiles, kind \in Kinds : Request(t, p, kind)
         \/ Finds(t) \/ Creates(t) \/ CreateFails(t) \/ SkipsWarmUp(t) \/ Publishes(t)
         \/ StartFails(t) \/ Visits(t) \/ Submits(t) \/ Conflict(t) \/ Ends(t)
  PROVE  IInv'
  <1>1. UNCHANGED routeVars /\ thread[t].pc # "open"
    BY DEF Request, Finds, Creates, CreateFails, SkipsWarmUp, Publish, Publishes, StartFails,
           Visits, Submits, Conflict, Ends, Seeks, Enters, Got, dataVars, routeVars
  <1>2. PICK r : thread' = [thread EXCEPT ![t] = r] /\ r.pc \notin {"open", "run"}
    <2> DEFINE Sought(p, kind) == [pc |-> "lock", profile |-> p, kind |-> kind,
                                   lock |-> LockFound(p), ctx |-> 0]
    <2>0. \A p, kind : Sought(p, kind).pc = "lock"
      OBVIOUS
    <2> HIDE DEF Sought
    <2>1. CASE \E p \in Profiles, kind \in Kinds : Request(t, p, kind)
      <3>1. PICK p \in Profiles, kind \in Kinds : Request(t, p, kind)
        BY <2>1
      <3>2. thread' = [thread EXCEPT ![t] = Sought(p, kind)]
        BY <3>1 DEF Request, Seeks, Sought
      <3> QED BY <2>0, <3>2
    <2>2. CASE Submits(t)
      <3>1. thread' = [thread EXCEPT ![t] = Sought(thread[t].profile, "running")]
        BY <2>2 DEF Submits, Seeks, Sought
      <3> QED BY <2>0, <3>1
    <2>3. CASE Finds(t)
      <3>1. thread[t] \in ThreadRecords
        BY <2>3, HasRecord DEF Finds, Enters, IInv, RouteTypes
      <3>2. [[thread[t] EXCEPT !.pc = "got"] EXCEPT !.ctx = published[thread[t].profile]].pc
            = "got"
        BY <3>1 DEF ThreadRecords
      <3> QED BY <2>3, <3>2 DEF Finds
    <2>4. CASE Creates(t)
      <3>1. thread[t] \in ThreadRecords
        BY <2>4, HasRecord DEF Creates, Enters, IInv, RouteTypes
      <3>2. [[thread[t] EXCEPT !.pc = "ready"] EXCEPT !.ctx = Len(ctxs) + 1].pc = "ready"
        BY <3>1 DEF ThreadRecords
      <3> QED BY <2>4, <3>2 DEF Creates
    <2>5. CASE SkipsWarmUp(t) \/ Publishes(t)
      BY <2>5, AtIs DEF SkipsWarmUp, Publishes, Publish, IInv
    <2>6. CASE CreateFails(t) \/ StartFails(t) \/ Visits(t) \/ Conflict(t) \/ Ends(t)
      <3>1. Idle.pc = "idle"
        BY DEF Idle
      <3>2. thread' = [thread EXCEPT ![t] = Idle]
        BY <2>6 DEF CreateFails, StartFails, Visits, Conflict, Ends
      <3> QED BY <3>1, <3>2
    <2> QED BY <2>1, <2>2, <2>3, <2>4, <2>5, <2>6
  <1>3. /\ \A u \in Threads : thread'[u].pc = "open" <=> thread[u].pc = "open"
        /\ \A u \in Threads : u # t => thread'[u] = thread[u]
        /\ thread'[t] = r
    BY <1>1, <1>2, ThreadChanges DEF IInv
  <1>4. \A u \in Threads : thread'[u].pc = "run" =>
            thread[u].pc = "run" /\ thread'[u].profile = thread[u].profile
    BY <1>2, <1>3
  <1> QED BY <1>1, <1>3, <1>4, QuietKeeps

LEMMA SwitchKeeps ==
  ASSUME IInv, RouteTypes', NEW t \in Threads, WarmsUp(t) \/ ReadsToday(t) \/ Runs(t)
  PROVE  IInv'
  <1>1. thread[t] \in ThreadRecords /\ thread[t].pc # "open" /\ thread[t].pc # "idle"
    BY HasRecord DEF WarmsUp, ReadsToday, Runs, Got, IInv, RouteTypes
  <1>2. thread[t].profile \in Profiles /\ Prepare(thread[t].profile)
    BY <1>1 DEF ThreadRecords, WarmsUp, ReadsToday, Runs
  <1>3. UNCHANGED << opening, queue, writer, placed, poisoned >> /\ conn' \in {conn, None}
    BY DEF WarmsUp, ReadsToday, Runs, dataVars
  <1>4. PICK r : /\ thread' = [thread EXCEPT ![t] = r] /\ r.pc # "open"
                 /\ r.pc = "run" => r.profile = thread[t].profile
    <2>1. CASE WarmsUp(t)
      <3>1. PICK pc \in {"look", "have"} : At(t, pc)
        BY <2>1 DEF WarmsUp
      <3> QED BY <1>1, <3>1, AtIs DEF IInv
    <2>2. CASE ReadsToday(t)
      <3>1. Idle.pc = "idle"
        BY DEF Idle
      <3>2. thread' = [thread EXCEPT ![t] = Idle]
        BY <2>2 DEF ReadsToday
      <3> QED BY <3>1, <3>2
    <2>3. CASE Runs(t)
      BY <1>1, <2>3, AtIs DEF Runs, IInv
    <2> QED BY <2>1, <2>2, <2>3
  <1>5. /\ \A u \in Threads : thread'[u].pc = "open" <=> thread[u].pc = "open"
        /\ \A u \in Threads : u # t => thread'[u] = thread[u]
        /\ thread'[t] = r
    BY <1>1, <1>4, ThreadChanges DEF IInv
  <1>6. \A u \in Threads : thread'[u].pc = "run" =>
            \/ thread'[u].profile = thread[t].profile
            \/ thread[u].pc = "run" /\ thread'[u].profile = thread[u].profile
    BY <1>4, <1>5
  <1> QED BY <1>2, <1>3, <1>5, <1>6, PrepareKeeps

LEMMA ThreadSaves ==
  ASSUME IInv, RouteTypes', NEW t \in Threads, Saves(t)
  PROVE  IInv'
  <1>1. thread[t].profile \in Profiles
    BY HasRecord DEF Saves, IInv, RouteTypes, ThreadRecords
  <1>2. thread[t].profile \in Bound
    BY DEF Saves, IInv, RunnersBound
  <1> QED BY <1>1, <1>2, SavesKeeps DEF Saves

LEMMA SyncWritesKeeps ==
  ASSUME IInv, RouteTypes', NEW i \in 1..Len(ctxs), SyncWrites(i)
  PROVE  IInv'
  <1>1. ctxs[i] \in Contexts
    BY DEF IInv, RouteTypes, ContextTypes
  <1>2. ctxs[i].profile \in Profiles
    BY <1>1 DEF Contexts
  <1>3. CASE Cloud /\ path = ctxs[i].profile
    <2>1. ctxs[i].profile \in Bound
      BY <1>3 DEF Bound
    <2> QED BY <1>2, <1>3, <2>1, SavesKeeps DEF SyncWrites
  <1>4. CASE ~ (Cloud /\ path = ctxs[i].profile)
    BY <1>2, <1>4, LandsAtHome DEF SyncWrites
  <1> QED BY <1>3, <1>4

LEMMA FilesKeep ==
  ASSUME IInv, RouteTypes',
         \/ \E p \in Profiles : Edits(p) \/ Evicts(p) \/ Deletes(p) \/ MakesProfile(p)
         \/ \E i \in 1..Len(ctxs) : ShutsDown(i)
         \/ UNCHANGED vars
  PROVE  IInv'
  <1>1. UNCHANGED routeVars /\ UNCHANGED thread
    BY DEF Edits, Evicts, Deletes, MakesProfile, ShutsDown, dataVars, routeVars, vars
  <1> QED BY <1>1, QuietKeeps

LEMMA ScansKeeps ==
  ASSUME IInv, RouteTypes', NEW p \in Profiles, Scans(p)
  PROVE  IInv'
  <1>1. CASE Prepare(p)
    BY <1>1, PrepareKeeps DEF Scans, dataVars
  <1>2. CASE UNCHANGED << path, moved >>
    BY <1>2, QuietKeeps DEF Scans, dataVars, routeVars
  <1> QED BY <1>1, <1>2 DEF Scans

-----------------------------------------------------------------------------
LEMMA InitEstablishes == Init => IInv
  <1> SUFFICES ASSUME Init
               PROVE  IInv
    OBVIOUS
  <1> USE DEF Init
  <1>1. RouteTypes
    <2>1. ThreadTypes
      BY DEF ThreadTypes
    <2>2. DataTypes
      <3>1. path \in Profiles
        BY ProfilesAssumption
      <3>2. writer \in [pc : {"idle", "look", "create", "open"}, batch : Seq(Profiles)]
            /\ queue \in Seq(Profiles)
        BY NoItems
      <3> QED BY <3>1, <3>2 DEF DataTypes
    <2>3. ContextTypes
      <3>1. ctxs \in Seq(Contexts)
        OBVIOUS
      <3> QED BY <3>1 DEF ContextTypes
    <2> QED BY <2>1, <2>2, <2>3 DEF RouteTypes
  <1>2. OpenerKnown /\ RunnersBound /\ LabelHonest /\ Routed
    BY DEF OpenerKnown, Stage, Agents, RunnersBound, LabelHonest, Routed, Idle
  <1>3. Items(queue) = {} /\ Items(writer.batch) = {}
    BY NoItems
  <1>4. PendingBound /\ BatchBound
    BY <1>3 DEF PendingBound, Pending, BatchBound
  <1> QED BY <1>1, <1>2, <1>4 DEF IInv

LEMMA NextKeeps == IInv /\ [Next]_vars => IInv'
  <1> SUFFICES ASSUME IInv, [Next]_vars
               PROVE  IInv'
    OBVIOUS
  <1> USE DEF IInv
  <1>1. ASSUME NEW t \in Threads, NEW p \in Profiles, NEW kind \in Kinds, Request(t, p, kind)
        PROVE  IInv'
    BY <1>1, GetTyped, GetKeeps
  <1>2. ASSUME NEW t \in Threads,
               Finds(t) \/ Creates(t) \/ CreateFails(t) \/ SkipsWarmUp(t) \/ Publishes(t)
               \/ StartFails(t)
        PROVE  IInv'
    BY <1>2, GetTyped, GetKeeps
  <1>3. ASSUME NEW t \in Threads, Visits(t) \/ Submits(t) \/ Conflict(t) \/ Ends(t)
        PROVE  IInv'
    BY <1>3, UseTyped, GetKeeps
  <1>4. ASSUME NEW t \in Threads, WarmsUp(t)
        PROVE  IInv'
    BY <1>4, GetTyped, SwitchKeeps
  <1>5. ASSUME NEW t \in Threads, ReadsToday(t) \/ Runs(t)
        PROVE  IInv'
    BY <1>5, UseTyped, SwitchKeeps
  <1>6. ASSUME NEW t \in Threads, Saves(t)
        PROVE  IInv'
    BY <1>6, UseTyped, ThreadSaves
  <1>7. ASSUME NEW a \in Agents, Looks(a) \/ Opens(a) \/ Records(a)
        PROVE  IInv'
    BY <1>7, ConnTyped, LooksKeeps, OpensKeeps, RecordsKeeps
  <1>8. CASE Takes
    BY <1>8, TakesTyped, TakesKeeps
  <1>9. ASSUME NEW p \in Profiles,
               Scans(p) \/ Edits(p) \/ Evicts(p) \/ Deletes(p) \/ MakesProfile(p)
        PROVE  IInv'
    BY <1>9, ProfileTyped, ScansKeeps, FilesKeep
  <1>10. ASSUME NEW i \in 1..Len(ctxs), SyncWrites(i) \/ ShutsDown(i)
         PROVE  IInv'
    BY <1>10, ContextTyped, SyncWritesKeeps, FilesKeep
  <1>11. CASE UNCHANGED vars
    <2>1. RouteTypes'
      BY <1>11 DEF RouteTypes, ThreadTypes, DataTypes, ContextTypes, vars
    <2> QED BY <1>11, <2>1, FilesKeep
  <1> QED
    BY <1>1, <1>2, <1>3, <1>4, <1>5, <1>6, <1>7, <1>8, <1>9, <1>10, <1>11
       DEF Next, ThreadStep, WriterStep, Agents

(* Where data is bound for is known all along: the invariant that carries    *)
(* the property below (prepare_for_task, _get_main_write_conn_singleton and   *)
(* the writer of execution_engine.py).                                        *)
THEOREM BoundKnown == Spec => []IInv
  BY InitEstablishes, NextKeeps, PTL DEF Spec

(* What is saved for a profile reaches the database of that profile, unless   *)
(* DB_PATH was switched away while a task of the profile ran or its data was  *)
(* queued, or a connection was recorded under a path it is not open on        *)
(* (user_context.py prepare_for_task, execution_engine.py dispatch_write).    *)
THEOREM DataRouted == Spec => []Routed
  BY BoundKnown, PTL DEF IInv

-----------------------------------------------------------------------------
(* The contexts: one per profile, made under the init lock.                *)

\* Thread t makes a context, under the init lock it holds; it waits for the
\* lock or holds it.
Making(t) == thread[t].pc \in {"ready", "look", "create", "open", "have"}
InGet(t)  == thread[t].pc = "lock" \/ Making(t)

\* Published contexts and those being made are different ones, and run; an
\* eviction shuts none of them down.
CtxKept ==
  /\ \A p \in Profiles : published[p] # 0 =>
       /\ published[p] \in 1..Len(ctxs) /\ published[p] \notin closing
       /\ ctxs[published[p]].profile = p /\ ctxs[published[p]].open
  /\ closing \subseteq 1..Len(ctxs)
  /\ \A t \in Threads : Making(t) =>
       /\ thread[t].ctx \in 1..Len(ctxs) /\ thread[t].ctx \notin closing
       /\ ctxs[thread[t].ctx].profile = thread[t].profile /\ ctxs[thread[t].ctx].open
       /\ thread[t].ctx # published[thread[t].profile]
  /\ \A t, u \in Threads : t # u /\ Making(t) /\ Making(u) => thread[t].ctx # thread[u].ctx

\* An init lock has one holder, and the threads in get for a profile share
\* the lock of that profile, unless an eviction made it forget the lock.
LocksKept ==
  /\ held = {thread[t].lock : t \in {u \in Threads : Making(u)}}
  /\ \A t, u \in Threads : t # u /\ Making(t) /\ Making(u) => thread[t].lock # thread[u].lock
  /\ \A t \in Threads : InGet(t) /\ thread[t].profile \notin leaked =>
       thread[t].lock = lockOf[thread[t].profile] /\ thread[t].lock # 0

\* Whoever makes a context found none, and a context that runs is published,
\* being made, or shut down by an eviction.
OneKept == \A p \in Profiles \ leaked :
  /\ \A t \in Threads : Making(t) /\ thread[t].profile = p => published[p] = 0
  /\ \A i \in Open(p) \ closing :
       \/ i = published[p]
       \/ \E t \in Threads : Making(t) /\ thread[t].profile = p /\ thread[t].ctx = i

\* One file is edited at a time, and contexts have been made from the files.
FreshKept ==
  /\ \A p, q \in editing : p = q
  /\ \A p \in Profiles \ (editing \cup leaked \cup remade) :
       /\ published[p] # 0 => ctxs[published[p]].cfg = file[p]
       /\ \A t \in Threads : Making(t) /\ thread[t].profile = p =>
            ctxs[thread[t].ctx].cfg = file[p]

ContextInv == CtxKept /\ LocksKept /\ OneKept /\ FreshKept

\* A step that leaves contexts, locks and files alone, and the threads in get
\* as they are, but for one that gives up its place before the lock.
LEMMA ContextAside ==
  ASSUME ContextInv,
         UNCHANGED <<published, ctxs, lockOf, held, closing, leaked, file, editing, remade>>,
         \A t \in Threads : Making(t)' <=> Making(t),
         \A t \in Threads : InGet(t)' => InGet(t),
         \A t \in Threads : InGet(t)' => /\ thread'[t].profile = thread[t].profile
                                         /\ thread'[t].lock = thread[t].lock
                                         /\ thread'[t].ctx = thread[t].ctx
  PROVE  ContextInv'
<1>1. \A t \in Threads : Making(t) => InGet(t)'
  BY DEF InGet
<1>2. CtxKept'
  BY <1>1 DEF ContextInv, CtxKept
<1>3. LocksKept'
  <2>1. {thread'[t].lock : t \in {u \in Threads : Making(u)'}}
        = {thread[t].lock : t \in {u \in Threads : Making(u)}}
    BY <1>1
  <2>2. held' = {thread'[t].lock : t \in {u \in Threads : Making(u)'}}
    BY <2>1 DEF ContextInv, LocksKept
  <2>3. \A t, u \in Threads : t # u /\ Making(t)' /\ Making(u)' => thread'[t].lock # thread'[u].lock
    BY <1>1 DEF ContextInv, LocksKept
  <2>4. \A t \in Threads : InGet(t)' /\ thread'[t].profile \notin leaked' =>
           thread'[t].lock = lockOf'[thread'[t].profile] /\ thread'[t].lock # 0
    BY DEF ContextInv, LocksKept
  <2> QED BY <2>2, <2>3, <2>4 DEF LocksKept
<1>4. OneKept'
  <2>1. \A p : Open(p)' = Open(p)
    BY DEF Open
  <2> SUFFICES ASSUME NEW p \in Profiles \ leaked
      PROVE  /\ \A t \in Threads : Making(t)' /\ thread'[t].profile = p => published'[p] = 0
             /\ \A i \in Open(p)' \ closing' :
                  \/ i = published'[p]
                  \/ \E t \in Threads : Making(t)' /\ thread'[t].profile = p /\ thread'[t].ctx = i
    BY DEF OneKept
  <2>2. \A t \in Threads : Making(t)' /\ thread'[t].profile = p => published'[p] = 0
    BY <1>1 DEF ContextInv, OneKept
  <2>3. ASSUME NEW i \in Open(p) \ closing, i # published[p]
        PROVE  \E t \in Threads : Making(t)' /\ thread'[t].profile = p /\ thread'[t].ctx = i
    BY <1>1, <2>3 DEF ContextInv, OneKept
  <2> QED BY <2>1, <2>2, <2>3
<1>5. FreshKept'
  BY <1>1 DEF ContextInv, FreshKept
<1> QED BY <1>2, <1>3, <1>4, <1>5 DEF ContextInv

\* A thread moves on to another program counter.
LEMMA AtKeeps ==
  ASSUME RouteTypes, NEW t \in Threads, thread[t].pc # "idle", NEW pc, At(t, pc)
  PROVE  /\ \A u \in Threads \ {t} : thread'[u] = thread[u]
         /\ thread'[t].pc = pc /\ thread'[t].profile = thread[t].profile
         /\ thread'[t].lock = thread[t].lock /\ thread'[t].ctx = thread[t].ctx
<1>1. thread[t] \in ThreadRecords
  BY HasRecord DEF RouteTypes
<1>2. thread' = [thread EXCEPT ![t] = [thread[t] EXCEPT !.pc = pc]]
  BY DEF At
<1>3. thread'[t] = [thread[t] EXCEPT !.pc = pc] /\ \A u \in Threads \ {t} : thread'[u] = thread[u]
  BY <1>2 DEF RouteTypes, ThreadTypes
<1> QED BY <1>1, <1>3 DEF ThreadRecords

\* A thread is done.
LEMMA IdleNow ==
  ASSUME RouteTypes, NEW t \in Threads, thread' = [thread EXCEPT ![t] = Idle]
  PROVE  thread'[t].pc = "idle" /\ \A u \in Threads \ {t} : thread'[u] = thread[u]
BY DEF RouteTypes, ThreadTypes, Idle

\* A thread begins to get the context of p.
LEMMA SeeksNow ==
  ASSUME RouteTypes, NEW t \in Threads, NEW p, NEW kind, Seeks(t, p, kind)
  PROVE  /\ \A u \in Threads \ {t} : thread'[u] = thread[u]
         /\ thread'[t].pc = "lock" /\ thread'[t].profile = p
         /\ thread'[t].lock = LockFound(p)
BY DEF RouteTypes, ThreadTypes, Seeks

\* Steps about data, the path of the process and the connection.
LEMMA ContextData ==
  ASSUME RouteTypes, ContextInv,
         \/ \E t \in Threads : \/ Visits(t) \/ ReadsToday(t) \/ Conflict(t) \/ Runs(t) \/ Saves(t)
                               \/ Ends(t) \/ WarmsUp(t) \/ CreateFails(t)
         \/ \E a \in Agents : Looks(a) \/ Opens(a) \/ Records(a)
         \/ Takes \/ (\E p \in Profiles : Scans(p)) \/ (\E i \in 1..Len(ctxs) : SyncWrites(i))
         \/ UNCHANGED vars
  PROVE  ContextInv'
<1> USE DEF contextVars, fileVars, dataVars
<1>1. CASE \/ Takes \/ (\E p \in Profiles : Scans(p)) \/ (\E i \in 1..Len(ctxs) : SyncWrites(i))
           \/ UNCHANGED vars \/ \E t \in Threads : Saves(t)
  <2>1. UNCHANGED <<thread, published, ctxs, lockOf, held, closing, leaked, file, editing, remade>>
    BY <1>1 DEF Takes, Scans, SyncWrites, Saves, vars
  <2> QED BY <2>1, ContextAside DEF Making, InGet
<1>2. ASSUME NEW t \in Threads, Visits(t) \/ ReadsToday(t) \/ Conflict(t) \/ Ends(t) \/ CreateFails(t)
      PROVE  ContextInv'
  <2>1. /\ UNCHANGED <<published, ctxs, lockOf, held, closing, leaked, file, editing, remade>>
        /\ thread[t].pc \in {"got", "run", "lock"} /\ thread' = [thread EXCEPT ![t] = Idle]
    BY <1>2 DEF Visits, ReadsToday, Conflict, Ends, CreateFails, Got, Enters
  <2>2. thread'[t].pc = "idle" /\ \A u \in Threads \ {t} : thread'[u] = thread[u]
    BY <2>1, IdleNow
  <2> QED BY <2>1, <2>2, ContextAside DEF Making, InGet
<1>3. ASSUME NEW t \in Threads, Runs(t) PROVE ContextInv'
  <2>1. /\ UNCHANGED <<published, ctxs, lockOf, held, closing, leaked, file, editing, remade>>
        /\ thread[t].pc = "got" /\ At(t, "run")
    BY <1>3 DEF Runs, Got
  <2>2. thread'[t].pc = "run" /\ \A u \in Threads \ {t} : thread'[u] = thread[u]
    BY <2>1, AtKeeps
  <2> QED BY <2>1, <2>2, ContextAside DEF Making, InGet
<1>4. ASSUME NEW t \in Threads, NEW pc \in {"look", "create", "open", "have"}, Making(t), At(t, pc),
             UNCHANGED <<published, ctxs, lockOf, held, closing, leaked, file, editing, remade>>
      PROVE  ContextInv'
  <2>1. thread[t].pc # "idle"
    BY <1>4 DEF Making
  <2>2. /\ \A u \in Threads \ {t} : thread'[u] = thread[u]
        /\ thread'[t].pc = pc /\ thread'[t].profile = thread[t].profile
        /\ thread'[t].lock = thread[t].lock /\ thread'[t].ctx = thread[t].ctx
    BY <1>4, <2>1, AtKeeps
  <2> QED BY <1>4, <2>2, ContextAside DEF Making, InGet
<1>5. ASSUME NEW t \in Threads, WarmsUp(t) PROVE ContextInv'
  <2>1. PICK pc \in {"look", "have"} : At(t, pc)
    BY <1>5 DEF WarmsUp
  <2>2. Making(t)
        /\ UNCHANGED <<published, ctxs, lockOf, held, closing, leaked, file, editing, remade>>
    BY <1>5 DEF WarmsUp, Making
  <2> QED BY <1>4, <2>1, <2>2
<1>6. ASSUME NEW a \in Agents, Looks(a) \/ Opens(a) \/ Records(a) PROVE ContextInv'
  <2>1. PICK pc \in {"create", "open", "have"} : \E c : Moves(a, pc, c)
    BY <1>6 DEF Looks, Opens, Records
  <2>2. UNCHANGED <<published, ctxs, lockOf, held, closing, leaked, file, editing, remade>>
        /\ Stage(a) \in {"look", "create", "open"}
    BY <1>6, <2>1 DEF Moves, Looks, Opens, Records
  <2>3. CASE a = Writer
    <3>1. UNCHANGED thread
      BY <2>1, <2>3 DEF Moves
    <3> QED BY <2>2, <3>1, ContextAside DEF Making, InGet
  <2>4. CASE a # Writer
    <3>1. a \in Threads /\ At(a, pc) /\ Making(a)
      BY <2>1, <2>2, <2>4 DEF Moves, Agents, Stage, Making
    <3> QED BY <1>4, <2>2, <3>1
  <2> QED BY <2>3, <2>4
<1> QED BY <1>1, <1>2, <1>3, <1>5, <1>6

\* A thread finds the init lock of p, or makes it.
LEMMA ContextSeeks ==
  ASSUME RouteTypes, ContextInv, NEW t \in Threads, NEW p \in Profiles, NEW kind,
         ~ InGet(t), Seeks(t, p, kind), UNCHANGED fileVars
  PROVE  ContextInv'
<1> USE DEF fileVars
<1>1. /\ \A u \in Threads \ {t} : thread'[u] = thread[u]
      /\ thread'[t].pc = "lock" /\ thread'[t].profile = p /\ thread'[t].lock = LockFound(p)
  BY SeeksNow
<1>2. /\ UNCHANGED <<published, ctxs, held, closing, leaked, file, editing, remade>>
      /\ lockOf' = [lockOf EXCEPT ![p] = LockFound(p)]
  BY DEF Seeks
<1>3. /\ LockFound(p) # 0 /\ (lockOf[p] # 0 => LockFound(p) = lockOf[p])
      /\ lockOf'[p] = LockFound(p) /\ \A q \in Profiles \ {p} : lockOf'[q] = lockOf[q]
  BY <1>2 DEF LockFound, RouteTypes, ContextTypes
<1>4. \A u \in Threads : (Making(u)' <=> Making(u)) /\ (Making(u) => thread'[u] = thread[u])
  BY <1>1 DEF Making, InGet
<1>5. CtxKept'
  BY <1>2, <1>4 DEF ContextInv, CtxKept
<1>6. LocksKept'
  <2>1. {thread'[u].lock : u \in {v \in Threads : Making(v)'}}
        = {thread[u].lock : u \in {v \in Threads : Making(v)}}
    BY <1>4
  <2>2. held' = {thread'[u].lock : u \in {v \in Threads : Making(v)'}}
    BY <1>2, <2>1 DEF ContextInv, LocksKept
  <2>3. \A u, v \in Threads : u # v /\ Making(u)' /\ Making(v)' => thread'[u].lock # thread'[v].lock
    BY <1>4 DEF ContextInv, LocksKept
  <2>4. ASSUME NEW u \in Threads, InGet(u)', thread'[u].profile \notin leaked'
        PROVE  thread'[u].lock = lockOf'[thread'[u].profile] /\ thread'[u].lock # 0
    <3>1. CASE u = t
      BY <1>1, <1>3, <3>1
    <3>2. CASE u # t
      <4>1. InGet(u) /\ thread'[u] = thread[u]
        BY <1>1, <2>4, <3>2 DEF InGet, Making
      <4>2. thread[u].lock = lockOf[thread[u].profile] /\ thread[u].lock # 0
        BY <1>2, <2>4, <4>1 DEF ContextInv, LocksKept
      <4>3. thread[u].profile \in Profiles
        BY <4>1, HasRecord DEF InGet, Making, RouteTypes, ThreadRecords
      <4> QED BY <1>3, <4>1, <4>2, <4>3
    <3> QED BY <3>1, <3>2
  <2> QED BY <2>2, <2>3, <2>4 DEF LocksKept
<1>7. OneKept'
  BY <1>2, <1>4 DEF ContextInv, OneKept, Open
<1>8. FreshKept'
  BY <1>2, <1>4 DEF ContextInv, FreshKept
<1> QED BY <1>5, <1>6, <1>7, <1>8 DEF ContextInv

\* Nobody else makes a context for the profile of a thread that holds the init
\* lock, or enters, unless an eviction cut in.
LEMMA MakesAlone ==
  ASSUME ContextInv, NEW t \in Threads, Enters(t) \/ Making(t),
         NEW u \in Threads, u # t, Making(u), thread[u].profile = thread[t].profile
  PROVE  thread[t].profile \in leaked
<1>1. CASE Making(t)
  BY <1>1 DEF ContextInv, LocksKept, InGet
<1>2. CASE Enters(t)
  <2>1. thread[u].lock \in held
    BY DEF ContextInv, LocksKept
  <2> QED BY <1>2, <2>1 DEF ContextInv, LocksKept, InGet, Enters
<1> QED BY <1>1, <1>2

\* A context is made.
LEMMA ContextCreates ==
  ASSUME RouteTypes, ContextInv, NEW t \in Threads, Creates(t)
  PROVE  ContextInv'
<1> DEFINE p == thread[t].profile
           c == Len(ctxs) + 1
<1>1. thread[t] \in ThreadRecords
  BY HasRecord DEF Creates, Enters, RouteTypes
<1>2. p \in Profiles /\ c \in Nat /\ ~ Making(t) /\ InGet(t) /\ Enters(t) /\ published[p] = 0
  BY <1>1 DEF Creates, Enters, Making, InGet, ThreadRecords, RouteTypes, ContextTypes
<1>3. /\ UNCHANGED <<published, lockOf, closing, leaked, file, editing, remade>>
      /\ held' = held \cup {thread[t].lock}
      /\ ctxs' = Append(ctxs, [profile |-> p, cfg |-> file[p], open |-> TRUE])
      /\ thread' = [thread EXCEPT ![t].pc = "ready", ![t].ctx = c]
  BY DEF Creates, fileVars, Loaded
<1>4. /\ thread'[t].pc = "ready" /\ thread'[t].ctx = c
      /\ thread'[t].lock = thread[t].lock /\ thread'[t].profile = p
      /\ \A u \in Threads \ {t} : thread'[u] = thread[u]
  <2>1. thread' = [thread EXCEPT ![t] = [[thread[t] EXCEPT !.pc = "ready"] EXCEPT !.ctx = c]]
    BY <1>3
  <2>2. thread'[t] = [[thread[t] EXCEPT !.pc = "ready"] EXCEPT !.ctx = c]
        /\ \A u \in Threads \ {t} : thread'[u] = thread[u]
    BY <2>1 DEF RouteTypes, ThreadTypes
  <2> QED BY <1>1, <2>2 DEF ThreadRecords
<1>5. /\ Len(ctxs') = c /\ Len(ctxs) \in Nat
      /\ \A i \in 1..Len(ctxs) : ctxs'[i] = ctxs[i]
      /\ ctxs'[c].profile = p /\ ctxs'[c].cfg = file[p] /\ ctxs'[c].open
  <2>1. ctxs'[c] = [profile |-> p, cfg |-> file[p], open |-> TRUE]
    BY <1>3 DEF RouteTypes, ContextTypes
  <2>2. Len(ctxs') = c /\ Len(ctxs) \in Nat /\ \A i \in 1..Len(ctxs) : ctxs'[i] = ctxs[i]
    BY <1>3 DEF RouteTypes, ContextTypes
  <2> QED BY <2>1, <2>2
<1>6. c \notin 1..Len(ctxs) /\ 1..Len(ctxs) \subseteq 1..c /\ c \in 1..c /\ c # 0
  BY <1>5
<1>7. \A u \in Threads : Making(u)' <=> (Making(u) \/ u = t)
  BY <1>2, <1>4 DEF Making
<1>8. \A u \in Threads : InGet(u)' <=> InGet(u)
  BY <1>2, <1>4 DEF Making, InGet
<1> HIDE DEF p, c
<1>9. CtxKept'
  <2>1. ASSUME NEW q \in Profiles, published'[q] # 0
        PROVE  /\ published'[q] \in 1..Len(ctxs') /\ published'[q] \notin closing'
               /\ ctxs'[published'[q]].profile = q /\ ctxs'[published'[q]].open
    BY <1>3, <1>5, <1>6, <2>1 DEF ContextInv, CtxKept
  <2>2. closing' \subseteq 1..Len(ctxs')
    BY <1>3, <1>5, <1>6 DEF ContextInv, CtxKept
  <2>3. ASSUME NEW u \in Threads, Making(u)'
        PROVE  /\ thread'[u].ctx \in 1..Len(ctxs') /\ thread'[u].ctx \notin closing'
               /\ ctxs'[thread'[u].ctx].profile = thread'[u].profile
               /\ ctxs'[thread'[u].ctx].open
               /\ thread'[u].ctx # published'[thread'[u].profile]
    <3>1. CASE u = t
      <4>1. c \notin closing
        BY <1>6 DEF ContextInv, CtxKept
      <4>2. c # published[p]
        BY <1>2, <1>6 DEF p, c
      <4> QED BY <1>3, <1>4, <1>5, <1>6, <3>1, <4>1, <4>2
    <3>2. CASE u # t
      <4>1. Making(u) /\ thread'[u] = thread[u]
        BY <1>4, <1>7, <2>3, <3>2
      <4>2. /\ thread[u].ctx \in 1..Len(ctxs) /\ thread[u].ctx \notin closing
            /\ ctxs[thread[u].ctx].profile = thread[u].profile /\ ctxs[thread[u].ctx].open
            /\ thread[u].ctx # published[thread[u].profile]
        BY <4>1 DEF ContextInv, CtxKept
      <4>3. ctxs'[thread[u].ctx] = ctxs[thread[u].ctx] /\ thread[u].ctx \in 1..Len(ctxs')
        BY <1>5, <1>6, <4>2
      <4>4. thread'[u].ctx = thread[u].ctx /\ thread'[u].profile = thread[u].profile
            /\ published' = published /\ closing' = closing
        BY <1>3, <4>1
      <4> QED BY <4>2, <4>3, <4>4
    <3> QED BY <3>1, <3>2
  <2>4. ASSUME NEW u \in Threads, NEW v \in Threads, u # v, Making(u)', Making(v)'
        PROVE  thread'[u].ctx # thread'[v].ctx
    <3>1. \A x \in Threads \ {t} : Making(x)' => /\ Making(x) /\ thread'[x] = thread[x]
                                                /\ thread'[x].ctx \in 1..Len(ctxs)
      BY <1>4, <1>7 DEF ContextInv, CtxKept
    <3>2. CASE u = t \/ v = t
      BY <1>4, <1>6, <2>4, <3>1, <3>2
    <3>3. CASE u # t /\ v # t
      BY <2>4, <3>1, <3>3 DEF ContextInv, CtxKept
    <3> QED BY <3>2, <3>3
  <2> QED BY <2>1, <2>2, <2>3, <2>4 DEF CtxKept
<1>10. LocksKept'
  <2>1. held' = {thread'[u].lock : u \in {v \in Threads : Making(v)'}}
    <3>1. {v \in Threads : Making(v)'} = {v \in Threads : Making(v)} \cup {t}
      BY <1>7
    <3>2. \A u \in Threads : thread'[u].lock = thread[u].lock
      BY <1>4
    <3>3. {thread'[u].lock : u \in {v \in Threads : Making(v)'}}
          = {thread[u].lock : u \in {v \in Threads : Making(v)}} \cup {thread[t].lock}
      BY <3>1, <3>2
    <3> QED BY <1>3, <3>3 DEF ContextInv, LocksKept
  <2>2. ASSUME NEW u \in Threads, NEW v \in Threads, u # v, Making(u)', Making(v)'
        PROVE  thread'[u].lock # thread'[v].lock
    <3>1. \A x \in Threads : Making(x) => thread[x].lock \in held
      BY DEF ContextInv, LocksKept
    <3>2. \A x \in Threads : Making(x) => thread[x].lock # thread[t].lock
      BY <1>2, <3>1 DEF Enters
    <3>3. \A x \in Threads : thread'[x].lock = thread[x].lock
      BY <1>4
    <3> QED BY <1>7, <2>2, <3>2, <3>3 DEF ContextInv, LocksKept
  <2>3. \A u \in Threads : thread'[u].lock = thread[u].lock /\ thread'[u].profile = thread[u].profile
    BY <1>4 DEF p
  <2>4. ASSUME NEW u \in Threads, InGet(u)', thread'[u].profile \notin leaked'
        PROVE  thread'[u].lock = lockOf'[thread'[u].profile] /\ thread'[u].lock # 0
    <3>1. InGet(u) /\ thread[u].profile \notin leaked
      BY <1>3, <1>8, <2>3, <2>4
    <3>2. thread[u].lock = lockOf[thread[u].profile] /\ thread[u].lock # 0
      BY <3>1 DEF ContextInv, LocksKept
    <3> QED BY <1>3, <2>3, <3>2
  <2> QED BY <2>1, <2>2, <2>4 DEF LocksKept
<1>11. OneKept'
  <2> SUFFICES ASSUME NEW q \in Profiles \ leaked'
      PROVE  /\ \A u \in Threads : Making(u)' /\ thread'[u].profile = q => published'[q] = 0
             /\ \A i \in Open(q)' \ closing' :
                  \/ i = published'[q]
                  \/ \E u \in Threads : Making(u)' /\ thread'[u].profile = q /\ thread'[u].ctx = i
    BY DEF OneKept
  <2>0. q \notin leaked /\ UNCHANGED <<published, closing>>
    BY <1>3
  <2>1. \A u \in Threads : Making(u)' /\ thread'[u].profile = q => published'[q] = 0
    BY <2>0, <1>2, <1>4, <1>7 DEF ContextInv, OneKept, p
  <2>2. ASSUME NEW i \in Open(q)' \ closing', i # published'[q]
        PROVE  \E u \in Threads : Making(u)' /\ thread'[u].profile = q /\ thread'[u].ctx = i
    <3>1. CASE i = c
      <4>1. q = p
        BY <1>5, <2>2, <3>1 DEF Open
      <4> QED BY <1>4, <1>7, <3>1, <4>1
    <3>2. CASE i # c
      <4>1. i \in Open(q) \ closing
        BY <1>5, <2>0, <2>2, <3>2 DEF Open, c
      <4>2. PICK u \in Threads : Making(u) /\ thread[u].profile = q /\ thread[u].ctx = i
        BY <2>0, <2>2, <4>1 DEF ContextInv, OneKept
      <4>3. u # t
        BY <1>2, <4>2
      <4> QED BY <1>4, <1>7, <4>2, <4>3
    <3> QED BY <3>1, <3>2
  <2> QED BY <2>1, <2>2
<1>12. FreshKept'
  <2>1. \A q, r \in editing' : q = r
    BY <1>3 DEF ContextInv, FreshKept
  <2>2. ASSUME NEW q \in Profiles \ (editing \cup leaked \cup remade)
        PROVE  /\ published'[q] # 0 => ctxs'[published'[q]].cfg = file'[q]
               /\ \A u \in Threads : Making(u)' /\ thread'[u].profile = q =>
                    ctxs'[thread'[u].ctx].cfg = file'[q]
    <3>1. published'[q] # 0 => ctxs'[published'[q]].cfg = file'[q]
      BY <1>3, <1>5 DEF ContextInv, FreshKept, CtxKept
    <3>2. ASSUME NEW u \in Threads, Making(u)', thread'[u].profile = q
          PROVE  ctxs'[thread'[u].ctx].cfg = file'[q]
      <4>1. CASE u = t
        BY <1>3, <1>4, <1>5, <3>2, <4>1
      <4>2. CASE u # t
        <5>1. Making(u) /\ thread'[u] = thread[u]
          BY <1>4, <1>7, <3>2, <4>2
        <5>2. ctxs[thread[u].ctx].cfg = file[q]
          BY <3>2, <5>1 DEF ContextInv, FreshKept
        <5>3. thread[u].ctx \in 1..Len(ctxs)
          BY <5>1 DEF ContextInv, CtxKept
        <5>4. ctxs'[thread[u].ctx] = ctxs[thread[u].ctx]
          BY <1>5, <5>3
        <5> QED BY <1>3, <5>1, <5>2, <5>4
      <4> QED BY <4>1, <4>2
    <3> QED BY <3>1, <3>2
  <2> QED BY <1>3, <2>1, <2>2 DEF FreshKept
<1> QED BY <1>9, <1>10, <1>11, <1>12 DEF ContextInv

\* A thread leaves get and its init lock.
LEMMA LocksLeft ==
  ASSUME ContextInv, NEW t \in Threads, Making(t), ~ InGet(t)',
         held' = held \ {thread[t].lock}, lockOf' = lockOf, leaked \subseteq leaked',
         \A u \in Threads \ {t} : thread'[u] = thread[u]
  PROVE  LocksKept' /\ \A u \in Threads : Making(u)' <=> (Making(u) /\ u # t)
<1>1. \A u \in Threads : Making(u)' <=> (Making(u) /\ u # t)
  BY DEF Making, InGet
<1>2. held' = {thread'[u].lock : u \in {v \in Threads : Making(v)'}}
  <2>1. {v \in Threads : Making(v)'} = {v \in Threads : Making(v)} \ {t}
    BY <1>1
  <2>2. {thread'[u].lock : u \in {v \in Threads : Making(v)'}}
        = {thread[u].lock : u \in {v \in Threads : Making(v)} \ {t}}
    BY <2>1
  <2>3. \A u \in {v \in Threads : Making(v)} \ {t} : thread[u].lock # thread[t].lock
    BY DEF ContextInv, LocksKept
  <2>4. {thread[u].lock : u \in {v \in Threads : Making(v)} \ {t}}
        = {thread[u].lock : u \in {v \in Threads : Making(v)}} \ {thread[t].lock}
    BY <2>3
  <2> QED BY <2>2, <2>4 DEF ContextInv, LocksKept
<1>3. \A u, v \in Threads : u # v /\ Making(u)' /\ Making(v)' => thread'[u].lock # thread'[v].lock
  BY <1>1 DEF ContextInv, LocksKept
<1>4. ASSUME NEW u \in Threads, InGet(u)', thread'[u].profile \notin leaked'
      PROVE  thread'[u].lock = lockOf'[thread'[u].profile] /\ thread'[u].lock # 0
  <2>1. u # t /\ thread'[u] = thread[u]
    BY <1>4
  <2>2. InGet(u) /\ thread[u].profile \notin leaked
    BY <1>4, <2>1 DEF InGet, Making
  <2> QED BY <2>1, <2>2 DEF ContextInv, LocksKept
<1> QED BY <1>1, <1>2, <1>3, <1>4 DEF LocksKept

\* A context is published.
LEMMA ContextPublishes ==
  ASSUME RouteTypes, ContextInv, NEW t \in Threads, Making(t), Publish(t)
  PROVE  ContextInv'
<1> DEFINE p == thread[t].profile
           c == thread[t].ctx
<1>1. thread[t].pc # "idle" /\ thread[t] \in ThreadRecords
  BY HasRecord DEF Making, RouteTypes
<1>2. p \in Profiles
  BY <1>1 DEF ThreadRecords
<1>3. /\ UNCHANGED <<ctxs, lockOf, closing, leaked, file, editing, remade>>
      /\ held' = held \ {thread[t].lock}
      /\ published'[p] = c /\ \A q \in Profiles \ {p} : published'[q] = published[q]
  BY <1>2 DEF Publish, fileVars, RouteTypes, ContextTypes
<1>4. thread'[t].pc = "got" /\ \A u \in Threads \ {t} : thread'[u] = thread[u]
  BY <1>1, AtKeeps DEF Publish
<1>5. LocksKept' /\ \A u \in Threads : Making(u)' <=> (Making(u) /\ u # t)
  BY <1>3, <1>4, LocksLeft DEF InGet, Making
<1>6. /\ c \in 1..Len(ctxs) /\ c \notin closing /\ ctxs[c].profile = p /\ ctxs[c].open
  BY DEF ContextInv, CtxKept
<1>7. \A u \in Threads : Making(u)' =>
         Making(u) /\ u # t /\ thread'[u] = thread[u] /\ thread[u].ctx # c
         /\ thread[u].profile \in Profiles
  <2>1. \A u \in Threads : Making(u)' => Making(u) /\ u # t /\ thread'[u] = thread[u]
    BY <1>4, <1>5
  <2>2. \A u \in Threads : Making(u) => thread[u].profile \in Profiles
    BY HasRecord DEF Making, RouteTypes, ThreadRecords
  <2> QED BY <2>1, <2>2 DEF ContextInv, CtxKept
<1> HIDE DEF p, c
<1>8. CtxKept'
  <2>1. ASSUME NEW q \in Profiles, published'[q] # 0
        PROVE  /\ published'[q] \in 1..Len(ctxs) /\ published'[q] \notin closing
               /\ ctxs[published'[q]].profile = q /\ ctxs[published'[q]].open
    <3>1. CASE q = p
      BY <1>3, <1>6, <3>1
    <3>2. CASE q # p
      <4>1. published'[q] = published[q]
        BY <1>3, <3>2
      <4> QED BY <2>1, <4>1 DEF ContextInv, CtxKept
    <3> QED BY <3>1, <3>2
  <2>2. ASSUME NEW u \in Threads, Making(u)'
        PROVE  /\ thread'[u].ctx \in 1..Len(ctxs) /\ thread'[u].ctx \notin closing
               /\ ctxs[thread'[u].ctx].profile = thread'[u].profile
               /\ ctxs[thread'[u].ctx].open
               /\ thread'[u].ctx # published'[thread'[u].profile]
    <3>1. /\ thread[u].ctx \in 1..Len(ctxs) /\ thread[u].ctx \notin closing
          /\ ctxs[thread[u].ctx].profile = thread[u].profile
          /\ ctxs[thread[u].ctx].open
          /\ thread[u].ctx # published[thread[u].profile]
      BY <1>7, <2>2 DEF ContextInv, CtxKept
    <3>2. thread[u].ctx # published'[thread[u].profile]
      BY <1>3, <1>7, <2>2, <3>1
    <3> QED BY <1>7, <2>2, <3>1, <3>2
  <2>3. \A u, v \in Threads : u # v /\ Making(u)' /\ Making(v)' => thread'[u].ctx # thread'[v].ctx
    BY <1>7 DEF ContextInv, CtxKept
  <2>4. closing' \subseteq 1..Len(ctxs')
    BY <1>3 DEF ContextInv, CtxKept
  <2> QED BY <1>3, <2>1, <2>2, <2>3, <2>4 DEF CtxKept
<1>9. OneKept'
  <2> SUFFICES ASSUME NEW q \in Profiles \ leaked'
      PROVE  /\ \A u \in Threads : Making(u)' /\ thread'[u].profile = q => published'[q] = 0
             /\ \A i \in Open(q)' \ closing' :
                  \/ i = published'[q]
                  \/ \E u \in Threads : Making(u)' /\ thread'[u].profile = q /\ thread'[u].ctx = i
    BY DEF OneKept
  <2>0. q \notin leaked /\ closing' = closing /\ Open(q)' = Open(q)
    BY <1>3 DEF Open
  <2>1. ASSUME NEW u \in Threads, Making(u)', thread'[u].profile = q PROVE published'[q] = 0
    <3>1. q # p
      BY <1>7, <2>0, <2>1, MakesAlone DEF p
    <3> QED BY <1>3, <1>7, <2>0, <2>1, <3>1 DEF ContextInv, OneKept
  <2>2. ASSUME NEW i \in Open(q)' \ closing', i # published'[q]
        PROVE  \E u \in Threads : Making(u)' /\ thread'[u].profile = q /\ thread'[u].ctx = i
    <3>1. i # published[q]
      <4>1. CASE q = p
        <5>1. published[q] = 0
          BY <2>0, <4>1 DEF ContextInv, OneKept, p
        <5> QED BY <2>0, <2>2, <5>1 DEF Open
      <4>2. CASE q # p
        BY <1>3, <2>2, <4>2
      <4> QED BY <4>1, <4>2
    <3>2. PICK u \in Threads : Making(u) /\ thread[u].profile = q /\ thread[u].ctx = i
      BY <2>0, <2>2, <3>1 DEF ContextInv, OneKept
    <3>3. u # t
      BY <1>3, <2>2, <3>2 DEF p, c
    <3> QED BY <1>4, <1>5, <3>2, <3>3
  <2> QED BY <2>1, <2>2
<1>10. FreshKept'
  <2>1. \A q, r \in editing' : q = r
    BY <1>3 DEF ContextInv, FreshKept
  <2>2. ASSUME NEW q \in Profiles \ (editing \cup leaked \cup remade)
        PROVE  /\ published'[q] # 0 => ctxs[published'[q]].cfg = file[q]
               /\ \A u \in Threads : Making(u)' /\ thread'[u].profile = q =>
                    ctxs[thread'[u].ctx].cfg = file[q]
    <3>1. CASE q = p
      BY <1>3, <1>7, <3>1 DEF ContextInv, FreshKept, p, c
    <3>2. CASE q # p
      BY <1>3, <1>7, <3>2 DEF ContextInv, FreshKept
    <3> QED BY <3>1, <3>2
  <2> QED BY <1>3, <2>1, <2>2 DEF FreshKept
<1> QED BY <1>5, <1>8, <1>9, <1>10 DEF ContextInv

\* A thread cannot be started: the context that was made belongs to nobody.
LEMMA ContextStartFails ==
  ASSUME RouteTypes, ContextInv, NEW t \in Threads, StartFails(t)
  PROVE  ContextInv'
<1>1. /\ UNCHANGED <<published, ctxs, lockOf, closing, file, editing, remade>>
      /\ held' = held \ {thread[t].lock} /\ leaked' = leaked \cup {thread[t].profile}
      /\ Making(t) /\ thread' = [thread EXCEPT ![t] = Idle]
  BY DEF StartFails, Making, fileVars
<1>2. thread'[t].pc = "idle" /\ \A u \in Threads \ {t} : thread'[u] = thread[u]
  BY <1>1, IdleNow
<1>3. LocksKept' /\ \A u \in Threads : Making(u)' <=> (Making(u) /\ u # t)
  BY <1>1, <1>2, LocksLeft DEF InGet, Making
<1>4. CtxKept'
  BY <1>1, <1>2, <1>3 DEF ContextInv, CtxKept
<1>5. OneKept'
  <2> SUFFICES ASSUME NEW q \in Profiles \ leaked'
      PROVE  /\ \A u \in Threads : Making(u)' /\ thread'[u].profile = q => published'[q] = 0
             /\ \A i \in Open(q)' \ closing' :
                  \/ i = published'[q]
                  \/ \E u \in Threads : Making(u)' /\ thread'[u].profile = q /\ thread'[u].ctx = i
    BY DEF OneKept
  <2>1. /\ q \notin leaked /\ q # thread[t].profile /\ closing' = closing /\ published' = published
        /\ Open(q)' = Open(q)
    BY <1>1 DEF Open
  <2>2. \A u \in Threads : Making(u) /\ thread[u].profile = q => Making(u)' /\ thread'[u] = thread[u]
    BY <1>2, <1>3, <2>1
  <2>3. \A u \in Threads : Making(u)' => Making(u) /\ thread'[u] = thread[u]
    BY <1>2, <1>3
  <2> QED BY <2>1, <2>2, <2>3 DEF ContextInv, OneKept
<1>6. FreshKept'
  BY <1>1, <1>2, <1>3 DEF ContextInv, FreshKept
<1> QED BY <1>3, <1>4, <1>5, <1>6 DEF ContextInv

\* Files are edited, deleted and made, and contexts evicted and shut down.
LEMMA ContextFiles ==
  ASSUME RouteTypes, ContextInv, NEW p \in Profiles, Edits(p) \/ Deletes(p) \/ MakesProfile(p)
  PROVE  ContextInv'
<1>1. /\ UNCHANGED <<thread, published, ctxs, lockOf, held, closing, leaked>>
      /\ \A q \in Profiles \ {p} : file'[q] = file[q]
  BY DEF Edits, Deletes, MakesProfile, contextVars, RouteTypes, ContextTypes
<1>2. /\ \A q, r \in editing' : q = r
      /\ p \in editing' \cup remade' /\ editing \cup remade \subseteq editing' \cup remade'
  BY DEF Edits, Deletes, MakesProfile
<1>3. \A u \in Threads : (Making(u)' <=> Making(u)) /\ (InGet(u)' <=> InGet(u))
  BY <1>1 DEF Making, InGet
<1>4. CtxKept' /\ OneKept'
  BY <1>1, <1>3 DEF ContextInv, CtxKept, OneKept, Open
<1>5. LocksKept'
  <2>1. {thread'[u].lock : u \in {v \in Threads : Making(v)'}}
        = {thread[u].lock : u \in {v \in Threads : Making(v)}}
    BY <1>1, <1>3
  <2> QED BY <1>1, <1>3, <2>1 DEF ContextInv, LocksKept
<1>6. FreshKept'
  <2>1. ASSUME NEW q \in Profiles \ (editing' \cup leaked' \cup remade')
        PROVE  /\ published'[q] # 0 => ctxs'[published'[q]].cfg = file'[q]
               /\ \A u \in Threads : Making(u)' /\ thread'[u].profile = q =>
                    ctxs'[thread'[u].ctx].cfg = file'[q]
    <3>1. q # p /\ q \in Profiles \ (editing \cup leaked \cup remade) /\ file'[q] = file[q]
      BY <1>1, <1>2
    <3> QED BY <1>1, <1>3, <3>1 DEF ContextInv, FreshKept
  <2> QED BY <1>2, <2>1 DEF FreshKept
<1> QED BY <1>4, <1>5, <1>6 DEF ContextInv

\* An eviction takes the published context away and forgets the lock of its profile.
LEMMA ContextEvicts ==
  ASSUME RouteTypes, ContextInv, NEW p \in Profiles, Evicts(p)
  PROVE  ContextInv'
<1>1. /\ UNCHANGED <<thread, ctxs, held, file, remade>> /\ p \in editing /\ editing' = {}
      /\ published'[p] = 0 /\ \A q \in Profiles \ {p} : published'[q] = published[q]
      /\ \A q \in Profiles \ {p} : lockOf'[q] = lockOf[q]
      /\ closing' = closing \cup ({published[p]} \ {0})
      /\ leaked' = IF Getting(p) THEN leaked \cup {p} ELSE leaked
  BY DEF Evicts, RouteTypes, ContextTypes
<1>2. \A u \in Threads : (Making(u)' <=> Making(u)) /\ (InGet(u)' <=> InGet(u))
  BY <1>1 DEF Making, InGet
<1>3. \A u \in Threads : InGet(u) => thread[u].profile \in Profiles
  BY HasRecord DEF InGet, Making, RouteTypes, ThreadRecords
<1>4. \A u \in Threads : InGet(u) /\ thread[u].profile = p => p \in leaked'
  BY <1>1 DEF Getting, InGet, Making
<1>5. CtxKept'
  <2>1. ASSUME NEW q \in Profiles, published'[q] # 0
        PROVE  /\ published'[q] \in 1..Len(ctxs) /\ published'[q] \notin closing'
               /\ ctxs[published'[q]].profile = q /\ ctxs[published'[q]].open
    <3>1. q # p /\ published'[q] = published[q]
      BY <1>1, <2>1
    <3>2. /\ published[q] \in 1..Len(ctxs) /\ published[q] \notin closing
          /\ ctxs[published[q]].profile = q /\ ctxs[published[q]].open
      BY <2>1, <3>1 DEF ContextInv, CtxKept
    <3>3. published[q] # published[p]
      BY <2>1, <3>1, <3>2 DEF ContextInv, CtxKept
    <3> QED BY <1>1, <3>1, <3>2, <3>3
  <2>2. closing' \subseteq 1..Len(ctxs)
    <3>1. closing \subseteq 1..Len(ctxs) /\ (published[p] # 0 => published[p] \in 1..Len(ctxs))
      BY DEF ContextInv, CtxKept
    <3>2. closing' = closing \cup ({published[p]} \ {0})
      BY <1>1
    <3> QED BY <3>1, <3>2
  <2>3. ASSUME NEW u \in Threads, Making(u)
        PROVE  /\ thread[u].ctx \in 1..Len(ctxs) /\ thread[u].ctx \notin closing'
               /\ ctxs[thread[u].ctx].profile = thread[u].profile
               /\ ctxs[thread[u].ctx].open
               /\ thread[u].ctx # published'[thread[u].profile]
    <3>1. /\ thread[u].ctx \in 1..Len(ctxs) /\ thread[u].ctx \notin closing
          /\ ctxs[thread[u].ctx].profile = thread[u].profile
          /\ ctxs[thread[u].ctx].open
          /\ thread[u].ctx # published[thread[u].profile]
      BY <2>3 DEF ContextInv, CtxKept
    <3>2. thread[u].profile \in Profiles
      BY <1>3, <2>3 DEF InGet
    <3>3. published[p] # 0 => thread[u].ctx # published[p]
      BY <3>1 DEF ContextInv, CtxKept
    <3>4. thread[u].ctx # 0 /\ thread[u].ctx # published'[thread[u].profile]
      BY <1>1, <3>1, <3>2
    <3> QED BY <1>1, <3>1, <3>3, <3>4
  <2>4. \A u, v \in Threads : u # v /\ Making(u) /\ Making(v) => thread[u].ctx # thread[v].ctx
    BY DEF ContextInv, CtxKept
  <2> QED BY <1>1, <1>2, <2>1, <2>2, <2>3, <2>4 DEF CtxKept
<1>6. LocksKept'
  <2>1. {thread'[u].lock : u \in {v \in Threads : Making(v)'}}
        = {thread[u].lock : u \in {v \in Threads : Making(v)}}
    BY <1>1, <1>2
  <2>2. ASSUME NEW u \in Threads, InGet(u)', thread'[u].profile \notin leaked'
        PROVE  thread'[u].lock = lockOf'[thread'[u].profile] /\ thread'[u].lock # 0
    <3>1. InGet(u) /\ thread[u].profile \notin leaked' /\ thread[u].profile \notin leaked
      BY <1>1, <1>2, <2>2
    <3>2. thread[u].profile \in Profiles \ {p}
      BY <1>3, <1>4, <3>1
    <3>3. thread[u].lock = lockOf[thread[u].profile] /\ thread[u].lock # 0
      BY <3>1 DEF ContextInv, LocksKept
    <3> QED BY <1>1, <3>2, <3>3
  <2>3. \A u, v \in Threads : u # v /\ Making(u)' /\ Making(v)' => thread'[u].lock # thread'[v].lock
    BY <1>1, <1>2 DEF ContextInv, LocksKept
  <2> QED BY <1>1, <2>1, <2>2, <2>3 DEF ContextInv, LocksKept
<1>7. OneKept'
  <2> SUFFICES ASSUME NEW q \in Profiles \ leaked'
      PROVE  /\ \A u \in Threads : Making(u)' /\ thread'[u].profile = q => published'[q] = 0
             /\ \A i \in Open(q)' \ closing' :
                  \/ i = published'[q]
                  \/ \E u \in Threads : Making(u)' /\ thread'[u].profile = q /\ thread'[u].ctx = i
    BY DEF OneKept
  <2>1. q \notin leaked /\ Open(q)' = Open(q) /\ closing \subseteq closing'
    BY <1>1 DEF Open
  <2>2. ASSUME NEW u \in Threads, Making(u)', thread'[u].profile = q PROVE published'[q] = 0
    <3>1. Making(u) /\ thread[u].profile = q
      BY <1>1, <1>2, <2>2
    <3>2. published[q] = 0
      BY <2>1, <3>1 DEF ContextInv, OneKept
    <3> QED BY <1>1, <3>2
  <2>3. ASSUME NEW i \in Open(q)' \ closing', i # published'[q]
        PROVE  \E u \in Threads : Making(u)' /\ thread'[u].profile = q /\ thread'[u].ctx = i
    <3>1. i \in Open(q) \ closing /\ i # 0
      BY <2>1, <2>3 DEF Open
    <3>2. i # published[q]
      BY <1>1, <2>3, <3>1
    <3>3. PICK u \in Threads : Making(u) /\ thread[u].profile = q /\ thread[u].ctx = i
      BY <2>1, <3>1, <3>2 DEF ContextInv, OneKept
    <3> QED BY <1>1, <1>2, <3>3
  <2> QED BY <2>2, <2>3
<1>8. FreshKept'
  <2>1. \A q, r \in editing' : q = r
    BY <1>1
  <2>2. ASSUME NEW q \in Profiles \ (editing' \cup leaked' \cup remade')
        PROVE  /\ published'[q] # 0 => ctxs'[published'[q]].cfg = file'[q]
               /\ \A u \in Threads : Making(u)' /\ thread'[u].profile = q =>
                    ctxs'[thread'[u].ctx].cfg = file'[q]
    <3>1. CASE q = p
      <4>1. \A u \in Threads : Making(u)' => thread'[u].profile # p
        BY <1>1, <1>2, <1>4, <2>2, <3>1 DEF InGet
      <4> QED BY <1>1, <3>1, <4>1
    <3>2. CASE q # p
      <4>1. q \in Profiles \ (editing \cup leaked \cup remade)
        BY <1>1, <2>2, <3>2 DEF ContextInv, FreshKept
      <4> QED BY <1>1, <1>2, <3>2, <4>1 DEF ContextInv, FreshKept
    <3> QED BY <3>1, <3>2
  <2> QED BY <2>1, <2>2 DEF FreshKept
<1> QED BY <1>5, <1>6, <1>7, <1>8 DEF ContextInv

\* An eviction shuts down the context it took away.
LEMMA ContextShutsDown ==
  ASSUME RouteTypes, ContextInv, NEW i \in 1..Len(ctxs), ShutsDown(i)
  PROVE  ContextInv'
<1>1. /\ UNCHANGED <<thread, published, lockOf, held, leaked, file, editing, remade>>
      /\ i \in closing /\ closing' = closing \ {i} /\ ctxs' = [ctxs EXCEPT ![i].open = FALSE]
  BY DEF ShutsDown, fileVars
<1>2. /\ Len(ctxs') = Len(ctxs) /\ \A j \in 1..Len(ctxs) \ {i} : ctxs'[j] = ctxs[j]
      /\ ctxs'[i].profile = ctxs[i].profile /\ ctxs'[i].cfg = ctxs[i].cfg
      /\ ~ ctxs'[i].open
  <2>1. ctxs[i] \in Contexts
    BY DEF RouteTypes, ContextTypes
  <2>2. ctxs' = [ctxs EXCEPT ![i] = [ctxs[i] EXCEPT !.open = FALSE]]
    BY <1>1
  <2>3. /\ Len(ctxs') = Len(ctxs) /\ \A j \in 1..Len(ctxs) \ {i} : ctxs'[j] = ctxs[j]
        /\ ctxs'[i] = [ctxs[i] EXCEPT !.open = FALSE]
    <3>1. PICK e : e = [ctxs[i] EXCEPT !.open = FALSE]
      OBVIOUS
    <3>2. e \in Contexts
      BY <2>1, <3>1 DEF Contexts
    <3>3. ctxs \in Seq(Contexts) /\ ctxs' = [ctxs EXCEPT ![i] = e]
      BY <2>2, <3>1 DEF RouteTypes, ContextTypes
    <3>4. /\ Len(ctxs') = Len(ctxs) /\ \A j \in 1..Len(ctxs) \ {i} : ctxs'[j] = ctxs[j]
          /\ ctxs'[i] = e
      BY <3>2, <3>3
    <3> QED BY <3>1, <3>4
  <2> QED BY <2>1, <2>3 DEF Contexts
<1>3. \A u \in Threads : (Making(u)' <=> Making(u)) /\ (InGet(u)' <=> InGet(u))
  BY <1>1 DEF Making, InGet
<1>4. \A q \in Profiles : published[q] # 0 => published[q] \in 1..Len(ctxs) \ {i}
  BY <1>1 DEF ContextInv, CtxKept
<1>5. \A u \in Threads : Making(u) => thread[u].ctx \in 1..Len(ctxs) \ {i}
  BY <1>1 DEF ContextInv, CtxKept
<1>6. CtxKept'
  BY <1>1, <1>2, <1>3, <1>4, <1>5 DEF ContextInv, CtxKept
<1>7. LocksKept'
  <2>1. {thread'[u].lock : u \in {v \in Threads : Making(v)'}}
        = {thread[u].lock : u \in {v \in Threads : Making(v)}}
    BY <1>1, <1>3
  <2> QED BY <1>1, <1>3, <2>1 DEF ContextInv, LocksKept
<1>8. OneKept'
  <2>1. \A q : Open(q)' \ closing' \subseteq Open(q) \ closing
    BY <1>1, <1>2 DEF Open
  <2> QED BY <1>1, <1>3, <2>1 DEF ContextInv, OneKept
<1>9. FreshKept'
  BY <1>1, <1>2, <1>3, <1>4, <1>5 DEF ContextInv, FreshKept
<1> QED BY <1>6, <1>7, <1>8, <1>9 DEF ContextInv

-----------------------------------------------------------------------------
\* The parts of the type invariant that RouteTypes leaves open.
Ranges ==
  /\ file \in [Profiles -> 0..MaxTroubles + 1]
  /\ lockOf \in [Profiles -> 0..locks]
  /\ warm \in [Profiles -> {"not_started", "in_progress", "done"}]

\* Every step keeps the ranges.
LEMMA RangesKept ==
  ASSUME RouteTypes, Ranges, [Next]_vars
  PROVE  Ranges'
<1> USE DEF contextVars, fileVars, dataVars, vars
<1>1. locks \in Nat /\ MaxTroubles \in Nat /\ spent.troubles \in Nat
  BY ProfilesAssumption DEF RouteTypes, ContextTypes
<1>2. CASE UNCHANGED <<file, lockOf, locks, warm>>
  BY <1>2 DEF Ranges
<1>3. ASSUME NEW p \in Profiles, NEW x \in 0..MaxTroubles + 1,
             file' = [file EXCEPT ![p] = x], UNCHANGED <<lockOf, locks, warm>>
      PROVE  Ranges'
  BY <1>3 DEF Ranges
<1>4. ASSUME NEW p \in Profiles, Edits(p) \/ MakesProfile(p) PROVE Ranges'
  <2>1. spent.troubles < MaxTroubles
    BY <1>4 DEF Edits, MakesProfile, Spend, Bounds
  <2>2. Stamp \in 0..MaxTroubles + 1
    BY <1>1, <2>1 DEF Stamp
  <2> QED BY <1>3, <1>4, <2>2 DEF Edits, MakesProfile
<1>5. ASSUME NEW p \in Profiles, Deletes(p) PROVE Ranges'
  <2>1. 0 \in 0..MaxTroubles + 1
    BY <1>1
  <2> QED BY <1>3, <1>5, <2>1 DEF Deletes
<1>6. ASSUME NEW p \in Profiles, Evicts(p) PROVE Ranges'
  BY <1>1, <1>6 DEF Evicts, Ranges
<1>7. ASSUME NEW p \in Profiles, Scans(p) PROVE Ranges'
  BY <1>7 DEF Scans, Ranges
<1>8. ASSUME NEW t \in Threads, NEW p \in Profiles, NEW kind, Seeks(t, p, kind), UNCHANGED fileVars
      PROVE  Ranges'
  <2>1. /\ lockOf' = [lockOf EXCEPT ![p] = LockFound(p)] /\ UNCHANGED <<file, warm>>
        /\ locks' = IF lockOf[p] = 0 THEN locks + 1 ELSE locks
    BY <1>8 DEF Seeks
  <2>2. LockFound(p) \in 0..locks' /\ 0..locks \subseteq 0..locks'
    BY <1>1, <2>1 DEF LockFound, Ranges
  <2> QED BY <2>1, <2>2 DEF Ranges
<1>9. ASSUME NEW t \in Threads, NEW p \in Profiles, NEW kind \in Kinds, Request(t, p, kind)
      PROVE  Ranges'
  BY <1>8, <1>9 DEF Request
<1>10. ASSUME NEW t \in Threads, thread[t].pc # "idle"
       PROVE  thread[t].profile \in Profiles
  BY <1>10, HasRecord DEF RouteTypes, ThreadRecords
<1>11. ASSUME NEW t \in Threads, Submits(t) PROVE Ranges'
  <2>1. thread[t].profile \in Profiles
    BY <1>10, <1>11 DEF Submits, Got
  <2> QED BY <1>8, <1>11, <2>1 DEF Submits
<1>12. ASSUME NEW t \in Threads, WarmsUp(t) \/ StartFails(t) PROVE Ranges'
  BY <1>12 DEF WarmsUp, StartFails, Ranges
<1>13. ASSUME NEW t \in Threads,
              \/ Finds(t) \/ Creates(t) \/ SkipsWarmUp(t) \/ Publishes(t) \/ Visits(t)
              \/ ReadsToday(t) \/ Conflict(t) \/ Runs(t) \/ Ends(t) \/ CreateFails(t) \/ Saves(t)
       PROVE  Ranges'
  BY <1>2, <1>13 DEF Finds, Creates, SkipsWarmUp, Publishes, Publish, Visits, ReadsToday,
     Conflict, Runs, Ends, CreateFails, Saves
<1>14. ASSUME NEW a \in Agents, Looks(a) \/ Opens(a) \/ Records(a) PROVE Ranges'
  BY <1>2, <1>14 DEF Looks, Opens, Records, Moves
<1>15. CASE Takes \/ UNCHANGED vars \/ \E i \in 1..Len(ctxs) : SyncWrites(i) \/ ShutsDown(i)
  BY <1>2, <1>15 DEF Takes, SyncWrites, ShutsDown
<1> QED
  BY <1>4, <1>5, <1>6, <1>7, <1>9, <1>11, <1>12, <1>13, <1>14, <1>15
     DEF Next, ThreadStep, WriterStep, Agents

\* A thread that finds a context needs no lock.
LEMMA ContextFinds ==
  ASSUME RouteTypes, ContextInv, NEW t \in Threads, Finds(t)
  PROVE  ContextInv'
<1>1. thread[t] \in ThreadRecords /\ thread[t].pc = "lock"
      /\ UNCHANGED <<published, ctxs, lockOf, held, closing, leaked, file, editing, remade>>
  BY HasRecord DEF Finds, Enters, RouteTypes, contextVars, fileVars
<1>2. thread' = [thread EXCEPT ![t] =
        [[thread[t] EXCEPT !.pc = "got"] EXCEPT !.ctx = published[thread[t].profile]]]
  BY DEF Finds
<1>3. thread'[t] = [[thread[t] EXCEPT !.pc = "got"] EXCEPT !.ctx = published[thread[t].profile]]
      /\ \A u \in Threads \ {t} : thread'[u] = thread[u]
  BY <1>2 DEF RouteTypes, ThreadTypes
<1>4. thread'[t].pc = "got"
  BY <1>1, <1>3 DEF ThreadRecords
<1> QED BY <1>1, <1>3, <1>4, ContextAside DEF Making, InGet

\* Every step keeps the contexts and their locks in order.
LEMMA ContextStep ==
  ASSUME RouteTypes, ContextInv, [Next]_vars
  PROVE  ContextInv'
<1>1. ASSUME NEW t \in Threads, NEW p \in Profiles, NEW kind \in Kinds, Request(t, p, kind)
      PROVE  ContextInv'
  <2>1. ~ InGet(t) /\ Seeks(t, p, kind) /\ UNCHANGED fileVars
    BY <1>1 DEF Request, InGet, Making
  <2> QED BY <2>1, ContextSeeks
<1>2. ASSUME NEW t \in Threads, Submits(t) PROVE ContextInv'
  <2>1. ~ InGet(t) /\ Seeks(t, thread[t].profile, "running") /\ UNCHANGED fileVars
    BY <1>2 DEF Submits, InGet, Making, Got
  <2>2. thread[t].profile \in Profiles
    BY <1>2, HasRecord DEF Submits, Got, RouteTypes, ThreadRecords
  <2>3. PICK p \in Profiles : p = thread[t].profile
    BY <2>2
  <2>4. Seeks(t, p, "running")
    BY <2>1, <2>3
  <2> QED BY <2>1, <2>4, ContextSeeks
<1>3. ASSUME NEW t \in Threads, SkipsWarmUp(t) \/ Publishes(t) PROVE ContextInv'
  <2>1. Making(t) /\ Publish(t)
    BY <1>3 DEF SkipsWarmUp, Publishes, Making
  <2> QED BY <2>1, ContextPublishes
<1> QED
  BY <1>1, <1>2, <1>3, ContextData, ContextFinds, ContextCreates, ContextStartFails, ContextFiles,
     ContextEvicts, ContextShutsDown
     DEF Next, ThreadStep, WriterStep, Agents

\* The initial states.
LEMMA ContextInit == Init => Ranges /\ ContextInv
<1> SUFFICES ASSUME Init PROVE Ranges /\ ContextInv
  OBVIOUS
<1>1. Ranges
  <2>1. MaxTroubles \in Nat
    BY ProfilesAssumption
  <2> QED BY <2>1 DEF Init, Ranges
<1>2. /\ \A t \in Threads : ~ Making(t) /\ ~ InGet(t)
      /\ published = [p \in Profiles |-> 0] /\ ctxs = << >> /\ held = {} /\ closing = {}
      /\ editing = {}
  BY DEF Init, Making, InGet, Idle
<1>3. CtxKept /\ FreshKept
  BY <1>2 DEF CtxKept, FreshKept
<1>4. LocksKept
  <2>1. {thread[t].lock : t \in {u \in Threads : Making(u)}} = {}
    BY <1>2
  <2> QED BY <1>2, <2>1 DEF LocksKept
<1>5. \A p : Open(p) = {}
  BY <1>2 DEF Open
<1>6. OneKept
  BY <1>2, <1>5 DEF OneKept
<1> QED BY <1>1, <1>3, <1>4, <1>6 DEF ContextInv

\* Contexts, locks and files are in order all along (get, cleanup,
\* _create_context and ensure_profile_ready of user_context.py).
THEOREM ContextsKept == Spec => [](IInv /\ Ranges /\ ContextInv)
<1>1. Init => IInv /\ Ranges /\ ContextInv
  BY InitEstablishes, ContextInit
<1>2. IInv /\ Ranges /\ ContextInv /\ [Next]_vars => (IInv /\ Ranges /\ ContextInv)'
  BY NextKeeps, RangesKept, ContextStep DEF IInv
<1> QED BY <1>1, <1>2, PTL DEF Spec

\* The types; an init lock is held by the one thread that makes a context under
\* it, and one agent at a time opens a connection.
THEOREM TypeCorrect == Spec => []TypeOK
<1>1. IInv /\ Ranges /\ ContextInv => TypeOK
  <2> SUFFICES ASSUME IInv, Ranges, ContextInv PROVE TypeOK
    OBVIOUS
  <2>1. \A i \in 1..Len(ctxs) : ctxs[i].profile \in Profiles /\ ctxs[i].open \in BOOLEAN
    <3>1. \A i \in 1..Len(ctxs) : ctxs[i] \in Contexts
      BY DEF IInv, RouteTypes, ContextTypes
    <3> QED BY <3>1 DEF Contexts
  <2>2. published \in [Profiles -> Ids]
    <3>1. published \in [Profiles -> Nat] /\ Len(ctxs) \in Nat
      BY DEF IInv, RouteTypes, ContextTypes
    <3>2. \A p \in Profiles : published[p] \in Ids
      BY <3>1 DEF ContextInv, CtxKept, Ids
    <3> QED BY <3>1, <3>2
  <2>3. \A t \in Threads : thread[t].pc \in Pcs
    BY DEF IInv, RouteTypes, ThreadTypes, ThreadRecords, Idle, Pcs
  <2>4. \A t \in Threads : Making(t) <=> thread[t].pc \in Pcs \ {"idle", "lock", "got", "run"}
    BY <2>3 DEF Making, Pcs
  <2>5. {thread[t].lock : t \in {u \in Threads : thread[u].pc \in
            Pcs \ {"idle", "lock", "got", "run"}}}
        = {thread[t].lock : t \in {u \in Threads : Making(u)}}
    BY <2>4
  <2>6. \A t, u \in Threads : t # u /\ {thread[t].pc, thread[u].pc} \cap
            {"idle", "lock", "got", "run"} = {} => thread[t].lock # thread[u].lock
    <3>1. ASSUME NEW t \in Threads, NEW u \in Threads,
                 {thread[t].pc, thread[u].pc} \cap {"idle", "lock", "got", "run"} = {}
          PROVE  Making(t) /\ Making(u)
      BY <2>3, <2>4, <3>1
    <3> QED BY <3>1 DEF ContextInv, LocksKept
  <2> QED BY <2>1, <2>2, <2>3, <2>5, <2>6
          DEF TypeOK, IInv, Ranges, ContextInv, LocksKept, OpenerKnown
<1> QED BY <1>1, ContextsKept, PTL

\* Two contexts of one profile run at a time only while an eviction shuts the
\* old one down, or when an eviction or an error cut a get: there are no two
\* sync workers that upload the same words (get, cleanup, _create_context).
THEOREM OneWorker == Spec => []OneContext
<1>1. IInv /\ Ranges /\ ContextInv => OneContext
  <2> SUFFICES ASSUME IInv, ContextInv, NEW p \in Profiles
               PROVE  /\ published[p] # 0 => ctxs[published[p]].open
                      /\ Cardinality(Open(p) \ closing) <= 1 \/ p \in leaked
    BY DEF OneContext
  <2>1. published[p] # 0 => ctxs[published[p]].open
    BY DEF ContextInv, CtxKept
  <2>2. CASE p \notin leaked
    <3> DEFINE S == Open(p) \ closing
    <3>1. \A i, j \in S : i = j
      <4> SUFFICES ASSUME NEW i \in S, NEW j \in S PROVE i = j
        OBVIOUS
      <4>1. /\ \A t \in Threads : Making(t) /\ thread[t].profile = p => published[p] = 0
            /\ i = published[p] \/ \E t \in Threads : Making(t) /\ thread[t].profile = p
                                                      /\ thread[t].ctx = i
            /\ j = published[p] \/ \E t \in Threads : Making(t) /\ thread[t].profile = p
                                                      /\ thread[t].ctx = j
            /\ i # 0 /\ j # 0
        BY <2>2 DEF ContextInv, OneKept, Open
      <4>2. ASSUME NEW t \in Threads, NEW u \in Threads, Making(t), Making(u),
                   thread[t].profile = p, thread[u].profile = p
            PROVE  t = u
        BY <2>2, <4>2, MakesAlone
      <4> QED BY <4>1, <4>2
    <3> HIDE DEF S
    <3>2. S = {} \/ \E i : S = {i}
      BY <3>1
    <3>3. Cardinality({}) = 0 /\ \A i : Cardinality({i}) = 1
      BY FS_EmptySet, FS_Singleton
    <3>4. CASE S = {}
      BY <2>1, <3>3, <3>4 DEF S
    <3>5. ASSUME NEW i, S = {i} PROVE Cardinality(S) <= 1
      <4>1. Cardinality({i}) = 1
        BY <3>3
      <4>2. Cardinality(S) = 1
        BY <3>5, <4>1, Zenon
      <4> QED BY <4>2
    <3> QED BY <2>1, <3>2, <3>4, <3>5 DEF S
  <2> QED BY <2>1, <2>2
<1> QED BY <1>1, ContextsKept, PTL

\* A published context has the configuration of its file, but for an edit that
\* is not over, an eviction that cut in and a profile made or deleted
\* (update_profile_config, delete_user, load_profile_config).
THEOREM ConfigFresh == Spec => []FreshConfig
<1>1. IInv /\ Ranges /\ ContextInv => FreshConfig
  BY DEF FreshConfig, ContextInv, FreshKept
<1> QED BY <1>1, ContextsKept, PTL

=============================================================================
