------------------------------ MODULE Profiles ------------------------------
(***************************************************************************)
(* Several profiles in one web process (web/backend/user_context.py,       *)
(* deps.py, routers/users.py): contexts are created on the first request   *)
(* of a profile and evicted when its file is edited, while one process     *)
(* wide DB_PATH and one write connection (database/connection.py) are      *)
(* shared by the tasks, the pages and the sync workers of all of them.     *)
(* A database, file or cloud, is named by the profile that owns it; with   *)
(* Cloud a connection is a replica, a file and the remote that its pulls   *)
(* and pushes go to.  Bounds: MaxRequests, MaxWrites and MaxTroubles, the  *)
(* edits of the files and the failures together.                           *)
(***************************************************************************)
EXTENDS Naturals, Sequences, FiniteSets

CONSTANTS Profiles, Threads,
          Known,       \* the profiles that have a file at the start
          Boot,        \* the profile config.py was imported with
          Cloud,       \* a Turso URL is configured: embedded replicas
          Writer,      \* the writer thread of the write engine
          MaxRequests, MaxWrites, MaxTroubles

ASSUME ProfilesAssumption ==
    /\ Boot \in Profiles
    /\ Known \subseteq Profiles
    /\ Writer \notin Threads
    /\ Cloud \in BOOLEAN
    /\ {MaxRequests, MaxWrites, MaxTroubles} \subseteq Nat

VARIABLES
    file,        \* version of each profile's env file, 0: no such file
    published,   \* _contexts: the context of each profile, 0: none
    ctxs,        \* every context created: profile, configuration, running or not
    lockOf,      \* _init_locks: the init lock of each profile, 0: none
    locks,       \* number of init locks made
    held,        \* init locks held
    warm,        \* _warmup_state
    scans,       \* profiles whose _warmup_async thread has yet to run
    thread,      \* each request thread
    path,        \* config.DB_PATH
    conn,        \* the write connection: its file, the path recorded, its remote
    opening,     \* who is inside _main_write_conn_init_lock, what file and remote it opens
    busy,        \* profile task locks taken (lock.py)
    queue,       \* the write queue: whose data each item is
    writer,      \* where the writer is in fetching the connection, and its batch
    placed,      \* data committed: whose, in which file, pushed to which clouds
    editing,     \* profiles whose file is rewritten and whose context is not yet evicted
    closing,     \* contexts evicted and not yet shut down
    spent,       \* requests, writes and troubles so far
    leaked,      \* ghost: get was cut by an eviction, or failed after its workflow ran
    remade,      \* ghost: profiles whose files were deleted, or made, while the process ran
    moved,       \* ghost: DB_PATH was switched away under this profile's task or writes
    poisoned     \* ghost: a connection was recorded under a path it is not open on

vars == << file, published, ctxs, lockOf, locks, held, warm, scans, thread, path, conn,
           opening, busy, queue, writer, placed, editing, closing, spent,
           leaked, remade, moved, poisoned >>

contextVars == << published, ctxs, lockOf, locks, held, warm, scans, closing, leaked >>
dataVars == << conn, opening, queue, writer, placed, poisoned >>
fileVars == << file, editing, remade >>

None == [db |-> "none"]

Idle == [pc |-> "idle"]

Bounds == [requests |-> MaxRequests, writes |-> MaxWrites, troubles |-> MaxTroubles]

Spend(what) ==
    /\ spent[what] < Bounds[what]
    /\ spent' = [spent EXCEPT ![what] = @ + 1]

Init ==
    /\ file = [p \in Profiles |-> IF p \in Known THEN 1 ELSE 0]
    /\ published = [p \in Profiles |-> 0]
    /\ ctxs = << >>
    /\ lockOf = [p \in Profiles |-> 0]
    /\ locks = 0
    /\ held = {}
    /\ warm = [p \in Profiles |-> "not_started"]
    /\ scans = {}
    /\ thread = [t \in Threads |-> Idle]
    /\ path = Boot
    /\ conn = None
    /\ opening = None
    /\ busy = {}
    /\ queue = << >>
    /\ writer = [pc |-> "idle", batch |-> << >>]
    /\ placed = {}
    /\ editing = {}
    /\ closing = {}
    /\ spent = [requests |-> 0, writes |-> 0, troubles |-> 0]
    /\ leaked = {}
    /\ remade = {}
    /\ moved = {}
    /\ poisoned = FALSE

-----------------------------------------------------------------------------
(* prepare_for_task: the whole process is switched to the database of p.  *)

Items(q) == {q[i] : i \in DOMAIN q}
Pending  == Items(queue) \cup Items(writer.batch)

AtWork(p) == p \in Pending \/ \E t \in Threads : thread[t].pc = "run" /\ thread[t].profile = p

Prepare(p) ==
    /\ path' = p
    /\ moved' = moved \cup {q \in Profiles \ {p} : AtWork(q)}

-----------------------------------------------------------------------------
(* UserContextManager.get.  A thread holds a reference to the init lock it *)
(* found: an eviction forgets the lock, not the threads that wait on it.   *)

LockFound(p) == IF lockOf[p] = 0 THEN locks + 1 ELSE lockOf[p]

At(t, pc) == thread' = [thread EXCEPT ![t].pc = pc]

\* The first lines of get: find or make the init lock.
Seeks(t, p, kind) ==
    /\ lockOf' = [lockOf EXCEPT ![p] = LockFound(p)]
    /\ locks' = IF lockOf[p] = 0 THEN locks + 1 ELSE locks
    /\ thread' = [thread EXCEPT ![t] = [pc |-> "lock", profile |-> p, kind |-> kind,
                                        lock |-> LockFound(p), ctx |-> 0]]
    /\ UNCHANGED << published, ctxs, held, warm, scans, closing, leaked >>

\* A request with the header of p reaches a dependency: the list of today's
\* words, the start of a task, or a page.
Request(t, p, kind) ==
    /\ thread[t].pc = "idle"
    /\ Spend("requests")
    /\ Seeks(t, p, kind)
    /\ UNCHANGED << path, busy, moved, dataVars, fileVars >>

Enters(t) == thread[t].pc = "lock" /\ thread[t].lock \notin held

\* Another thread has made the context in the meantime, or long ago.
Finds(t) ==
    /\ Enters(t)
    /\ published[thread[t].profile] # 0
    /\ thread' = [thread EXCEPT ![t].pc = "got", ![t].ctx = published[thread[t].profile]]
    /\ UNCHANGED << path, busy, spent, moved, contextVars, dataVars, fileVars >>

\* load_profile_config: the settings of the file as it is now; without a file
\* those of the global one.
Loaded(p) == file[p]

\* Mutant: the check that nobody else made the context is missing.
CreatesUnasked(t) ==
    LET p == thread[t].profile
    IN /\ Enters(t)
       /\ held' = held \cup {thread[t].lock}
       /\ ctxs' = Append(ctxs, [profile |-> p, cfg |-> Loaded(p), open |-> TRUE])
       /\ thread' = [thread EXCEPT ![t].pc = "ready", ![t].ctx = Len(ctxs) + 1]
       /\ UNCHANGED << path, busy, spent, moved, published, lockOf, locks, warm,
                       scans, closing, leaked, dataVars, fileVars >>

\* _create_context: the file is read, clients, workflow (with its sync
\* worker) and registry are started.
Creates(t) ==
    LET p == thread[t].profile
    IN /\ Enters(t)
       /\ published[p] = 0
       /\ held' = held \cup {thread[t].lock}
       /\ ctxs' = Append(ctxs, [profile |-> p, cfg |-> Loaded(p), open |-> TRUE])
       /\ thread' = [thread EXCEPT ![t].pc = "ready", ![t].ctx = Len(ctxs) + 1]
       /\ UNCHANGED << path, busy, spent, moved, published, lockOf, locks, warm,
                       scans, closing, leaked, dataVars, fileVars >>

\* A client cannot be built (no key): nothing was started yet.  A task
\* thread fails before its try block and keeps the profile's task lock.
CreateFails(t) ==
    /\ Enters(t)
    /\ published[thread[t].profile] = 0
    /\ Spend("troubles")
    /\ thread' = [thread EXCEPT ![t] = Idle]
    /\ UNCHANGED << path, busy, moved, contextVars, dataVars, fileVars >>

Publish(t) ==
    /\ published' = [published EXCEPT ![thread[t].profile] = thread[t].ctx]
    /\ held' = held \ {thread[t].lock}
    /\ At(t, "got")
    /\ UNCHANGED << path, busy, spent, moved, ctxs, lockOf, locks, closing, leaked, fileVars >>

\* ensure_profile_ready: only the first context of a profile is warmed up; the
\* next one is published as it is.
SkipsWarmUp(t) ==
    /\ thread[t].pc = "ready"
    /\ warm[thread[t].profile] # "not_started"
    /\ Publish(t)
    /\ UNCHANGED << warm, scans, dataVars >>

\* _warmup_sync: the process is switched to the profile; init_db() is module
\* Startup's, and its errors are swallowed.  The connection of the first pull
\* is closed, to be opened again.
WarmsUp(t) ==
    LET p == thread[t].profile
    IN /\ thread[t].pc = "ready"
       /\ warm[p] = "not_started"
       /\ warm' = [warm EXCEPT ![p] = "in_progress"]
       /\ Prepare(p)
       /\ conn' = None
       /\ At(t, IF Cloud THEN "look" ELSE "have")
       /\ UNCHANGED << busy, spent, published, ctxs, lockOf, locks, held, scans, closing,
                       leaked, opening, queue, writer, placed, poisoned, fileVars >>

\* The connection is there and init_concurrent_system has started its threads;
\* the scan for unsynced notes is left to a thread of its own.  The context is
\* published whatever happened to the profile meanwhile.
Publishes(t) ==
    /\ thread[t].pc = "have"
    /\ scans' = scans \cup {thread[t].profile}
    /\ Publish(t)
    /\ UNCHANGED << warm, dataVars >>

\* Mutant: the error leaves the init lock taken.
StartFailsHolding(t) ==
    LET p == thread[t].profile
    IN /\ thread[t].pc = "have"
       /\ Spend("troubles")
       /\ warm' = [warm EXCEPT ![p] = "not_started"]
       /\ leaked' = leaked \cup {p}
       /\ thread' = [thread EXCEPT ![t] = Idle]
       /\ UNCHANGED << path, busy, moved, published, ctxs, lockOf, locks, held, scans,
                       closing, dataVars, fileVars >>

\* A thread cannot be started: the state is reset and the error goes up; the
\* workflow that runs already belongs to nobody.
StartFails(t) ==
    LET p == thread[t].profile
    IN /\ thread[t].pc = "have"
       /\ Spend("troubles")
       /\ warm' = [warm EXCEPT ![p] = "not_started"]
       /\ held' = held \ {thread[t].lock}
       /\ leaked' = leaked \cup {p}
       /\ thread' = [thread EXCEPT ![t] = Idle]
       /\ UNCHANGED << path, busy, moved, published, ctxs, lockOf, locks, scans,
                       closing, dataVars, fileVars >>

\* The _warmup_async thread: it switches the process to its profile, unless
\* the switch AUTO_WARMUP_SYNC_ENABLED is off, and ends as done in any case.
Scans(p) ==
    /\ p \in scans
    /\ scans' = scans \ {p}
    /\ warm' = [warm EXCEPT ![p] = "done"]
    /\ \/ Prepare(p)
       \/ UNCHANGED << path, moved >>
    /\ UNCHANGED << thread, busy, spent, published, ctxs, lockOf, locks, held,
                    closing, leaked, dataVars, fileVars >>

-----------------------------------------------------------------------------
(* What the requests do with the context.                                 *)

Got(t, kind) == thread[t].pc = "got" /\ thread[t].kind = kind

\* PUT /users/active makes the context of a profile and does nothing with it; the
\* pages that only read do so by the path of their context.
Visits(t) ==
    /\ Got(t, "page")
    /\ thread' = [thread EXCEPT ![t] = Idle]
    /\ UNCHANGED << path, busy, spent, moved, contextVars, dataVars, fileVars >>

\* GET /study/today switches the process to its profile, task or no task.
ReadsToday(t) ==
    /\ Got(t, "today")
    /\ Prepare(thread[t].profile)
    /\ thread' = [thread EXCEPT ![t] = Idle]
    /\ UNCHANGED << busy, spent, contextVars, dataVars, fileVars >>

\* _submit_with_profile_lock: one task per profile; its thread asks for the
\* context again.
Submits(t) ==
    LET p == thread[t].profile
    IN /\ Got(t, "task")
       /\ p \notin busy
       /\ busy' = busy \cup {p}
       /\ Seeks(t, p, "running")
       /\ UNCHANGED << path, spent, moved, dataVars, fileVars >>

Conflict(t) ==
    /\ Got(t, "task")
    /\ thread[t].profile \in busy
    /\ thread' = [thread EXCEPT ![t] = Idle]
    /\ UNCHANGED << path, busy, spent, moved, contextVars, dataVars, fileVars >>

\* _locked_run: the process is switched to the profile of the task.
Runs(t) ==
    /\ Got(t, "running")
    /\ Prepare(thread[t].profile)
    /\ At(t, "run")
    /\ UNCHANGED << busy, spent, contextVars, dataVars, fileVars >>

\* A plain local connection: no remote.
Land(p, db) == placed' = placed \cup {[of |-> p, in |-> db, to |-> {}]}

\* The workflow saves notes without naming a database: into the queue, or
\* (no cloud) straight into the database of DB_PATH.
Saves(t) ==
    LET p == thread[t].profile
    IN /\ thread[t].pc = "run"
       /\ Spend("writes")
       /\ IF Cloud
          THEN queue' = Append(queue, p) /\ UNCHANGED placed
          ELSE Land(p, path) /\ UNCHANGED queue
       /\ UNCHANGED << thread, path, busy, moved, conn, opening, writer, poisoned,
                       contextVars, fileVars >>

Ends(t) ==
    /\ thread[t].pc = "run"
    /\ busy' = busy \ {thread[t].profile}
    /\ thread' = [thread EXCEPT ![t] = Idle]
    /\ UNCHANGED << path, spent, moved, contextVars, dataVars, fileVars >>

\* The sync worker of a context writes by the path of its context: through
\* the queue when that is the current DB_PATH, by itself otherwise.
SyncWrites(i) ==
    LET p == ctxs[i].profile
    IN /\ ctxs[i].open
       /\ Spend("writes")
       /\ IF Cloud /\ path = p
          THEN queue' = Append(queue, p) /\ UNCHANGED placed
          ELSE Land(p, p) /\ UNCHANGED queue
       /\ UNCHANGED << thread, path, busy, moved, conn, opening, writer, poisoned,
                       contextVars, fileVars >>

-----------------------------------------------------------------------------
(* _get_main_write_conn_singleton, by the warm-up of a thread or by the    *)
(* writer: a look, the init lock, the opening, the record of the path.  A  *)
(* batch is committed in the step that obtains the connection: what a      *)
(* connection closed in between does to a batch is WriteEngine's concern.  *)

\* TURSO_DB_URL is read from the environment of the process, which config.py
\* filled from the file of the profile it was imported with: a replica of
\* any profile is opened against the cloud database of that one.
Remote == Boot

Agents == Threads \cup {Writer}

Stage(a) == IF a = Writer THEN writer.pc ELSE thread[a].pc

\* Agent a moves on to a stage; the writer that has a connection, c, is done.
Moves(a, pc, c) ==
    /\ IF a # Writer
       THEN At(a, pc) /\ UNCHANGED << writer, placed >>
       ELSE /\ UNCHANGED thread
            /\ IF pc = "have"
               THEN /\ writer' = [pc |-> "idle", batch |-> << >>]
                    /\ placed' = placed \cup {[of |-> p, in |-> c.db, to |-> {c.remote}] :
                                                 p \in Items(writer.batch)}
               ELSE writer' = [writer EXCEPT !.pc = pc] /\ UNCHANGED placed
    /\ UNCHANGED << path, busy, queue, spent, moved, contextVars, fileVars >>

\* The writer takes what is queued.
Takes ==
    /\ writer.pc = "idle"
    /\ queue # << >>
    /\ writer' = [pc |-> "look", batch |-> queue]
    /\ queue' = << >>
    /\ UNCHANGED << thread, path, busy, spent, moved, conn, opening, placed,
                    poisoned, contextVars, fileVars >>

\* Mutant: the path the connection was recorded under is not compared.
LooksOnly(a) ==
    /\ Stage(a) = "look"
    /\ IF conn # None
       THEN Moves(a, "have", conn) /\ UNCHANGED << conn, opening, poisoned >>
       ELSE Moves(a, "create", None) /\ UNCHANGED << conn, opening, poisoned >>

\* First phase: a connection recorded under another path is closed.
Looks(a) ==
    /\ Stage(a) = "look"
    /\ IF conn # None /\ conn.as = path
       THEN Moves(a, "have", conn) /\ UNCHANGED conn
       ELSE Moves(a, "create", None) /\ conn' = None
    /\ UNCHANGED << opening, poisoned >>

\* Under the init lock: a connection made meanwhile is taken as it is.
Opens(a) ==
    /\ Stage(a) = "create"
    /\ opening = None
    /\ IF conn # None
       THEN Moves(a, "have", conn) /\ UNCHANGED opening
       ELSE Moves(a, "open", None) /\ opening' = [who |-> a, db |-> path, remote |-> Remote]
    /\ UNCHANGED << conn, poisoned >>

\* The connection is there; DB_PATH is read once more for the record.
Records(a) ==
    /\ Stage(a) = "open"
    /\ conn' = [db |-> opening.db, as |-> path, remote |-> opening.remote]
    /\ poisoned' = (poisoned \/ opening.db # path)
    /\ opening' = None
    /\ Moves(a, "have", opening)

-----------------------------------------------------------------------------
(* routers/users.py: the files of the profiles.                           *)

Stamp == spent.troubles + 2

\* PUT /users/{p}/config: the file is rewritten ...
Edits(p) ==
    /\ editing = {}
    /\ file[p] # 0
    /\ Spend("troubles")
    /\ file' = [file EXCEPT ![p] = Stamp]
    /\ editing' = {p}
    /\ UNCHANGED << thread, path, busy, moved, remade, contextVars, dataVars >>

\* A thread holds a reference to the init lock that the eviction forgets.
Getting(p) == \E t \in Threads : /\ thread[t].pc \notin {"idle", "got", "run"}
                                 /\ thread[t].profile = p

\* Mutant: the manager is not told.
EvictsNobody(p) ==
    /\ p \in editing
    /\ editing' = {}
    /\ UNCHANGED << thread, path, busy, spent, moved, file, remade, contextVars,
                    dataVars >>

\* ... and cleanup forgets the context and its init lock, whether or not a
\* task uses the one or a thread creates under the other.
Evicts(p) ==
    /\ p \in editing
    /\ editing' = {}
    /\ published' = [published EXCEPT ![p] = 0]
    /\ lockOf' = [lockOf EXCEPT ![p] = 0]
    /\ closing' = closing \cup ({published[p]} \ {0})
    /\ leaked' = IF Getting(p) THEN leaked \cup {p} ELSE leaked
    /\ UNCHANGED << thread, path, busy, spent, moved, file, remade, ctxs, locks,
                    held, warm, scans, dataVars >>

\* _cleanup_context: the sync worker and the task registry are shut down.
ShutsDown(i) ==
    /\ i \in closing
    /\ closing' = closing \ {i}
    /\ ctxs' = [ctxs EXCEPT ![i].open = FALSE]
    /\ UNCHANGED << thread, path, busy, spent, moved, published, lockOf, locks, held,
                    warm, scans, leaked, dataVars, fileVars >>

\* DELETE /users/{p}: the files go, the context stays.
Deletes(p) ==
    /\ editing = {}
    /\ file[p] # 0
    /\ Spend("troubles")
    /\ file' = [file EXCEPT ![p] = 0]
    /\ remade' = remade \cup {p}
    /\ UNCHANGED << thread, path, busy, moved, editing, contextVars, dataVars >>

\* POST /users/wizard, and POST /users likewise: a file, and a database with tables.
MakesProfile(p) ==
    /\ editing = {}
    /\ file[p] = 0
    /\ Spend("troubles")
    /\ file' = [file EXCEPT ![p] = Stamp]
    /\ remade' = remade \cup {p}
    /\ UNCHANGED << thread, path, busy, moved, editing, contextVars, dataVars >>

-----------------------------------------------------------------------------
Kinds == {"today", "task", "page"}

ThreadStep(t) ==
    \/ Finds(t) \/ Creates(t) \/ SkipsWarmUp(t) \/ WarmsUp(t)
    \/ Looks(t) \/ Opens(t) \/ Records(t) \/ Publishes(t)
    \/ Visits(t) \/ ReadsToday(t) \/ Submits(t) \/ Conflict(t) \/ Runs(t)
    \/ Ends(t)

WriterStep == Takes \/ Looks(Writer) \/ Opens(Writer) \/ Records(Writer)

Next ==
    \/ \E t \in Threads, p \in Profiles, kind \in Kinds : Request(t, p, kind)
    \/ \E t \in Threads : ThreadStep(t) \/ CreateFails(t) \/ StartFails(t) \/ Saves(t)
    \/ WriterStep
    \/ \E p \in Profiles : Scans(p) \/ Edits(p) \/ Evicts(p) \/ Deletes(p) \/ MakesProfile(p)
    \/ \E i \in 1..Len(ctxs) : SyncWrites(i) \/ ShutsDown(i)

Spec == Init /\ [][Next]_vars

-----------------------------------------------------------------------------
Pcs == {"idle", "lock", "ready", "look", "create", "open", "have", "got", "run"}

Ids == 0..Len(ctxs)

\* The variables keep their types; the init locks held are those of the
\* threads that create, each by one thread, and nobody opens a connection
\* outside the init lock of the connection.
TypeOK ==
    /\ file \in [Profiles -> 0..MaxTroubles + 1]
    /\ published \in [Profiles -> Ids]
    /\ \A i \in 1..Len(ctxs) : /\ ctxs[i].profile \in Profiles
                               /\ ctxs[i].open \in BOOLEAN
    /\ lockOf \in [Profiles -> 0..locks]
    /\ warm \in [Profiles -> {"not_started", "in_progress", "done"}]
    /\ \A t \in Threads : thread[t].pc \in Pcs
    /\ held = {thread[t].lock : t \in {u \in Threads : thread[u].pc \in
                  Pcs \ {"idle", "lock", "got", "run"}}}
    /\ \A t, u \in Threads : t # u /\ {thread[t].pc, thread[u].pc} \cap
                  {"idle", "lock", "got", "run"} = {} => thread[t].lock # thread[u].lock
    /\ \A a \in Agents : Stage(a) = "open" <=> (opening # None /\ opening.who = a)

Open(p) == {i \in 1..Len(ctxs) : ctxs[i].profile = p /\ ctxs[i].open}

\* A published context runs, and is the only one of its profile that does,
\* but for those an eviction is shutting down and those that a get cut by an
\* eviction, or failed half way, left behind: two sync workers of one
\* profile would both upload its words (get, cleanup, _create_context).
OneContext ==
    \A p \in Profiles :
        /\ published[p] # 0 => ctxs[published[p]].open
        /\ Cardinality(Open(p) \ closing) <= 1 \/ p \in leaked

\* A context that requests are given has the configuration of the file as it
\* is, unless the edit is not over, the eviction found the context still
\* under way, or the profile was deleted or made behind its back
\* (update_profile_config, delete_user, load_profile_config).
FreshConfig ==
    \A p \in Profiles :
        published[p] # 0 /\ ctxs[published[p]].cfg # file[p] =>
            p \in editing \cup leaked \cup remade

\* What is saved for a profile is committed to the file of that profile,
\* unless DB_PATH was switched to another one while a task of the profile ran
\* or its data was queued, or a switch fell between the opening of the
\* connection and the record of its path; and it is pushed to no cloud but
\* that of the profile, unless it is another profile than the one the process
\* was started with: such a replica is one of the boot profile's cloud
\* (prepare_for_task, dispatch_write, the writer, _resolve_conn_context).
Routed ==
    \A w \in placed :
        /\ w.in # w.of => w.of \in moved \/ poisoned
        /\ w.to \subseteq {w.of} \/ w.of # Boot

\* study.py:134 says that DB globals are switched to the profile of a task so
\* that reads and writes do not cross profiles: what is saved for a profile is
\* never found in the database of another.
NoCrossing == \A w \in placed : w.in = w.of

=============================================================================
