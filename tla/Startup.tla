------------------------------ MODULE Startup ------------------------------
(***************************************************************************)
(* How a process, command line or web, comes up and goes down on one data  *)
(* directory: the file lock (web/backend/lock.py, main.py, __main__.py),   *)
(* the tables and the migrations of the main database (schema.py,          *)
(* migrations/), the tables of the hub.  A process may crash between any   *)
(* two steps; the lock is the kernel's and falls with it, its files stay.  *)
(* POSIX file semantics.  Bounds: MaxStarts starts and further init_db     *)
(* calls, MaxFaults failures.                                              *)
(***************************************************************************)
EXTENDS Naturals, FiniteSets

CONSTANTS Processes,
          Nobody,      \* no process
          Target,      \* target_version(): the last migration
          Backfill,    \* the migration that fills the baseline of conflict rows (V004)
          MaxStarts, MaxFaults

ASSUME StartupAssumption ==
    /\ Nobody \notin Processes
    /\ Target \in Nat /\ Backfill \in 1..Target
    /\ {MaxStarts, MaxFaults} \subseteq Nat

VARIABLES
    pc,         \* where each process is; "off": not there
    ino,        \* the lock file each process has opened, 0: none
    step,       \* the migration each process is at
    seen,       \* _table_exists_cache of each process for the hub
    named,      \* the lock file that .process.lock names, 0: none
    inodes,     \* lock files made
    owner,      \* who holds the flock of each lock file
    pidFile,    \* the process that .process.lock.pid names
    cloud,      \* a cloud database is configured
    tables,     \* tables of the main database: none, some, all
    marker,     \* the marker file that says the tables are there
    applied,    \* migrations whose statements are committed
    version,    \* schema_version in system_config
    row,        \* baseline of a conflict row: of before the backfill, of after it
    hub,        \* tables of the hub: none, most, all
    fresh,      \* hub_init_state.json says so and is younger than its window
    starts, faults,
    swept,      \* ghost: a lock file was removed that another process had open
    unstamped,  \* ghost: a step was left without its version, by a failure or a crash
    dropped,    \* ghost: a migration was lost in a WalConflict and stamped
    strayed     \* ghost: another hub was set up than the one in use: a stand-in, or
                \* the file of before a rebuild

vars == << pc, ino, step, seen, named, inodes, owner, pidFile, cloud, tables, marker,
           applied, version, row, hub, fresh, starts, faults, swept, unstamped, dropped,
           strayed >>

lockVars == << ino, named, inodes, owner, pidFile, swept >>
mainVars == << tables, marker, applied, version, row, unstamped, dropped >>
hubVars == << hub, fresh, strayed >>

Steps == 1..Target

Init ==
    /\ pc = [p \in Processes |-> "off"]
    /\ ino = [p \in Processes |-> 0]
    /\ step = [p \in Processes |-> 0]
    /\ seen = [p \in Processes |-> "unknown"]
    /\ named = 0
    /\ inodes = 0
    /\ owner = [i \in 1..MaxStarts |-> Nobody]
    /\ pidFile = Nobody
    /\ cloud \in BOOLEAN
    /\ tables = "none"
    /\ marker = FALSE
    /\ applied = {}
    /\ version = 0
    /\ row = [r \in {"old", "new"} |-> "absent"]
    /\ hub = "none"
    /\ fresh = FALSE
    /\ starts = 0
    /\ faults = 0
    /\ swept = FALSE
    /\ unstamped = FALSE
    /\ dropped = FALSE
    /\ strayed = FALSE

Goes(p, from, to) == pc[p] = from /\ pc' = [pc EXCEPT ![p] = to]

Starts == starts < MaxStarts /\ starts' = starts + 1
Faults == faults < MaxFaults /\ faults' = faults + 1

\* The process has the lock, as far as it knows.
Inside == {p \in Processes : pc[p] \in {"pid", "up", "tables", "mark", "migrate", "step", "stamp",
                                        "hub", "hubmark", "run"}}

-----------------------------------------------------------------------------
(* acquire_process_lock: open, flock, the pid file.                       *)

\* os.open(O_CREAT) in _try_acquire.
Opens(p) ==
    /\ Goes(p, "off", "open")
    /\ Starts
    /\ named' = IF named = 0 THEN inodes + 1 ELSE named
    /\ inodes' = IF named = 0 THEN inodes + 1 ELSE inodes
    /\ ino' = [ino EXCEPT ![p] = named']
    /\ UNCHANGED << step, seen, owner, pidFile, cloud, faults, swept, mainVars, hubVars >>

\* Mutant: the lock is not exclusive.
LocksShared(p) ==
    /\ Goes(p, "open", "pid")
    /\ owner' = [owner EXCEPT ![ino[p]] = p]
    /\ UNCHANGED << ino, step, seen, named, inodes, pidFile, cloud, starts, faults, swept,
                    mainVars, hubVars >>

Locks(p) ==
    /\ Goes(p, "open", "pid")
    /\ owner[ino[p]] = Nobody
    /\ owner' = [owner EXCEPT ![ino[p]] = p]
    /\ UNCHANGED << ino, step, seen, named, inodes, pidFile, cloud, starts, faults, swept,
                    mainVars, hubVars >>

\* Mutant: a pid file is taken for a process.
RefusedByFile(p) ==
    /\ Goes(p, "open", "off")
    /\ pidFile # Nobody
    /\ ino' = [ino EXCEPT ![p] = 0]
    /\ UNCHANGED << step, seen, named, inodes, owner, pidFile, cloud, starts, faults, swept,
                    mainVars, hubVars >>

\* The flock is taken.  _try_recover_lock does not help a start: with a live
\* holder the files stay, and for a dead pid _is_process_alive raises (its
\* except clause names subprocess, which only the Windows branch imports).
Refused(p) ==
    /\ Goes(p, "open", "off")
    /\ owner[ino[p]] # Nobody
    /\ ino' = [ino EXCEPT ![p] = 0]
    /\ UNCHANGED << step, seen, named, inodes, owner, pidFile, cloud, starts, faults, swept,
                    mainVars, hubVars >>

WritesPid(p) ==
    /\ Goes(p, "pid", "up")
    /\ pidFile' = p
    /\ UNCHANGED << ino, step, seen, named, inodes, owner, cloud, starts, faults, swept,
                    mainVars, hubVars >>

\* The command line builds its StudyFlowManager: init_db() first of all.
StartsFlow(p) ==
    /\ Goes(p, "up", "tables")
    /\ UNCHANGED << step, seen, cloud, starts, faults, lockVars, mainVars, hubVars >>

\* The web backend serves at once; init_db() waits for the first context of a
\* profile (InitsAgain).
Serves(p) ==
    /\ Goes(p, "up", "run")
    /\ UNCHANGED << step, seen, cloud, starts, faults, lockVars, mainVars, hubVars >>

\* release_process_lock, registered with atexit: flock and descriptor go
\* first, then whatever file bears the name, then the pid file.
Unlocks(p) ==
    /\ Goes(p, "run", "unlink")
    /\ owner' = [owner EXCEPT ![ino[p]] = Nobody]
    /\ ino' = [ino EXCEPT ![p] = 0]
    /\ UNCHANGED << step, seen, named, inodes, pidFile, cloud, starts, faults, swept,
                    mainVars, hubVars >>

Unlinks(p) ==
    /\ Goes(p, "unlink", "unpid")
    /\ named' = 0
    /\ swept' = (swept \/ \E q \in Processes : ino[q] # 0 /\ ino[q] = named)
    /\ UNCHANGED << ino, step, seen, inodes, owner, pidFile, cloud, starts, faults,
                    mainVars, hubVars >>

RemovesPid(p) ==
    /\ Goes(p, "unpid", "off")
    /\ pidFile' = Nobody
    /\ seen' = [seen EXCEPT ![p] = "unknown"]
    /\ UNCHANGED << ino, step, named, inodes, owner, cloud, starts, faults, swept,
                    mainVars, hubVars >>

\* Killed, or the machine went down: the kernel frees the flock.
Crashes(p) ==
    /\ pc[p] # "off"
    /\ Faults
    /\ pc' = [pc EXCEPT ![p] = "off"]
    /\ owner' = [i \in DOMAIN owner |-> IF owner[i] = p THEN Nobody ELSE owner[i]]
    /\ ino' = [ino EXCEPT ![p] = 0]
    /\ seen' = [seen EXCEPT ![p] = "unknown"]
    /\ unstamped' = (unstamped \/ pc[p] = "stamp")
    /\ UNCHANGED << step, named, inodes, pidFile, cloud, starts, swept, tables, marker, applied,
                    version, row, dropped, hubVars >>

-----------------------------------------------------------------------------
(* _init_db_impl: tables, marker, migrations.  An exception of any of them *)
(* is logged, and the hub and the program go on.                           *)

\* With a marker the tables are taken for granted.
TrustsMarker(p) ==
    /\ Goes(p, "tables", "migrate")
    /\ cloud /\ marker
    /\ UNCHANGED << step, seen, cloud, starts, faults, lockVars, mainVars, hubVars >>

\* Mutant: the marker is written before the tables are committed.
CreatesTablesMarked(p) ==
    /\ cloud /\ ~marker
    /\ marker' = TRUE
    /\ Goes(p, "tables", "mark")
    /\ UNCHANGED << step, seen, cloud, starts, faults, tables, applied, version, row,
                    unstamped, dropped, lockVars, hubVars >>

\* One immediate transaction on the cloud connection.
CreatesTables(p) ==
    /\ cloud /\ ~marker
    /\ tables' = "all"
    /\ Goes(p, "tables", "mark")
    /\ UNCHANGED << step, seen, cloud, starts, faults, marker, applied, version, row,
                    unstamped, dropped, lockVars, hubVars >>

Marks(p) ==
    /\ Goes(p, "mark", "migrate")
    /\ marker' = TRUE
    /\ UNCHANGED << step, seen, cloud, starts, faults, tables, applied, version, row,
                    unstamped, dropped, lockVars, hubVars >>

\* Local mode has no marker: every start creates what is missing, each table
\* by itself.
CreatesSome(p) ==
    /\ pc[p] = "tables"
    /\ ~cloud
    /\ tables = "none"
    /\ tables' = "some"
    /\ UNCHANGED << pc, step, seen, cloud, starts, faults, marker, applied, version, row,
                    unstamped, dropped, lockVars, hubVars >>

CreatesRest(p) ==
    /\ ~cloud
    /\ tables # "none"
    /\ tables' = "all"
    /\ Goes(p, "tables", "migrate")
    /\ UNCHANGED << step, seen, cloud, starts, faults, marker, applied, version, row,
                    unstamped, dropped, lockVars, hubVars >>

\* No connection, or the creation fails.
TablesFail(p) ==
    /\ Goes(p, "tables", "hub")
    /\ Faults
    /\ UNCHANGED << step, seen, cloud, starts, lockVars, mainVars, hubVars >>

-----------------------------------------------------------------------------
(* apply_migrations: the version is read once; each step is a transaction, *)
(* its version a second one.                                               *)

\* Mutant: the version is not looked at.
ReadsNoVersion(p) ==
    /\ step' = [step EXCEPT ![p] = 1]
    /\ Goes(p, "migrate", "step")
    /\ UNCHANGED << seen, cloud, starts, faults, lockVars, mainVars, hubVars >>

\* _read_schema_version: what is older than the target is migrated.
ReadsVersion(p) ==
    /\ step' = [step EXCEPT ![p] = version + 1]
    /\ Goes(p, "migrate", IF version < Target THEN "step" ELSE "hub")
    /\ UNCHANGED << seen, cloud, starts, faults, lockVars, mainVars, hubVars >>

\* The step that fills baselines finds the rows that have none.
Filled(s) ==
    IF s = Backfill
    THEN [r \in {"old", "new"} |-> IF row[r] = "bare" THEN "filled" ELSE row[r]]
    ELSE row

\* A step alters and updates tables that must exist; columns that are there are
\* skipped.
CanApply(s) == tables = "all"

\* BEGIN IMMEDIATE, apply(cur), COMMIT.
Applies(p) ==
    /\ CanApply(step[p])
    /\ Goes(p, "step", "stamp")
    /\ applied' = applied \cup {step[p]}
    /\ row' = Filled(step[p])
    /\ UNCHANGED << step, seen, cloud, starts, faults, tables, marker, version, unstamped,
                    dropped, lockVars, hubVars >>

\* Any other error: rolled back, MigrationError, logged by init_db.
ApplyFails(p) ==
    /\ ~CanApply(step[p]) \/ faults < MaxFaults
    /\ Goes(p, "step", "hub")
    /\ faults' = IF CanApply(step[p]) THEN faults + 1 ELSE faults
    /\ UNCHANGED << step, seen, cloud, starts, lockVars, mainVars, hubVars >>

\* A WalConflict at the commit is taken for a conflict of the upload alone:
\* nothing is rolled back or checked, and the version follows.
ApplyConflicts(p) ==
    /\ cloud
    /\ Faults
    /\ Goes(p, "step", "stamp")
    /\ \/ applied' = applied \cup {step[p]} /\ row' = Filled(step[p]) /\ UNCHANGED dropped
       \/ dropped' = TRUE /\ UNCHANGED << applied, row >>
    /\ UNCHANGED << step, seen, cloud, starts, tables, marker, version, unstamped, lockVars,
                    hubVars >>

NextStep(p) ==
    IF step[p] < Target
    THEN Goes(p, "stamp", "step") /\ step' = [step EXCEPT ![p] = @ + 1]
    ELSE Goes(p, "stamp", "hub") /\ UNCHANGED step

\* _write_schema_version.
Stamps(p) ==
    /\ NextStep(p)
    /\ version' = step[p]
    /\ UNCHANGED << seen, cloud, starts, faults, tables, marker, applied, row, unstamped,
                    dropped, lockVars, hubVars >>

\* The write of the version fails: logged, and the next step is taken.
StampFails(p) ==
    /\ Faults
    /\ NextStep(p)
    /\ unstamped' = TRUE
    /\ UNCHANGED << seen, cloud, starts, tables, marker, applied, version, row, dropped,
                    lockVars, hubVars >>

-----------------------------------------------------------------------------
(* init_users_hub_tables.                                                 *)

HubDone(p) ==
    /\ Goes(p, "hub", "run")
    /\ UNCHANGED << step, cloud, starts, lockVars, mainVars >>

\* _hub_init_state_is_fresh: nothing is looked at within the window.
SkipsHub(p) ==
    /\ fresh
    /\ HubDone(p)
    /\ UNCHANGED << seen, faults, hubVars >>

\* Whether all seven tables exist is asked once per process.
HubSeen(p) == IF seen[p] = "unknown" THEN (IF hub = "all" THEN "yes" ELSE "no") ELSE seen[p]

FindsHub(p) ==
    /\ ~fresh
    /\ HubSeen(p) = "yes"
    /\ HubDone(p)
    /\ seen' = [seen EXCEPT ![p] = "yes"]
    /\ fresh' = TRUE
    /\ UNCHANGED << faults, hub, strayed >>

CreatesHub(p) ==
    /\ ~fresh
    /\ HubSeen(p) = "no"
    /\ Goes(p, "hub", "hubmark")
    /\ seen' = [seen EXCEPT ![p] = "no"]
    /\ hub' = "all"
    /\ UNCHANGED << step, cloud, starts, faults, fresh, strayed, lockVars, mainVars >>

\* The marker and the state file, after the commit.
MarksHub(p) ==
    /\ Goes(p, "hubmark", "run")
    /\ fresh' = TRUE
    /\ UNCHANGED << step, seen, cloud, starts, faults, hub, strayed, lockVars, mainVars >>

\* No connection to the hub after all attempts, where force_cloud_mode forbids the
\* local file, or an error of a statement.
HubFails(p) ==
    /\ ~fresh
    /\ Faults
    /\ HubDone(p)
    /\ UNCHANGED << seen, hubVars >>

\* A hub in the cloud cannot be reached, and the local file stands in for it: the
\* tables are made there, and the state file says that the hub has them.
HubStandsIn(p) ==
    /\ ~fresh
    /\ Faults
    /\ Goes(p, "hub", "hubmark")
    /\ strayed' = TRUE
    /\ \E answer \in {"yes", "no"} : seen' = [seen EXCEPT ![p] = answer]
    /\ UNCHANGED << step, cloud, starts, hub, fresh, lockVars, mainVars >>

\* Time goes by.
HubAges ==
    /\ fresh
    /\ fresh' = FALSE
    /\ UNCHANGED << pc, step, seen, cloud, starts, faults, hub, strayed, lockVars, mainVars >>

\* _init_hub_schema, the callback for a new hub file: nothing within the window,
\* and without user_api_keys otherwise.
InitHubSchema == IF fresh THEN "none" ELSE "most"

\* A broken hub file is set aside and opened empty (_get_hub_local_conn).
RebuildsHub(p) ==
    /\ pc[p] = "run"
    /\ Faults
    /\ hub' = InitHubSchema
    /\ strayed' = (strayed \/ fresh \/ \E q \in Processes : seen[q] = "yes")
    /\ UNCHANGED << pc, step, seen, cloud, starts, fresh, lockVars, mainVars >>

-----------------------------------------------------------------------------
(* The program at work.                                                   *)

\* A conflict is recorded: a row without a baseline.
Records(p) ==
    LET r == IF Backfill \in applied THEN "new" ELSE "old"
    IN /\ pc[p] = "run"
       /\ tables = "all"
       /\ row[r] = "absent"
       /\ row' = [row EXCEPT ![r] = "bare"]
       /\ UNCHANGED << pc, step, seen, cloud, starts, faults, tables, marker, applied, version,
                       unstamped, dropped, lockVars, hubVars >>

\* The web process calls init_db() again for the context of another profile.
InitsAgain(p) ==
    /\ Goes(p, "run", "tables")
    /\ Starts
    /\ UNCHANGED << step, seen, cloud, faults, lockVars, mainVars, hubVars >>

ProcessStep(p) ==
    \/ Opens(p) \/ Locks(p) \/ Refused(p) \/ WritesPid(p)
    \/ StartsFlow(p) \/ Serves(p)
    \/ Unlocks(p) \/ Unlinks(p) \/ RemovesPid(p) \/ Crashes(p)
    \/ TrustsMarker(p) \/ CreatesTables(p) \/ Marks(p)
    \/ CreatesSome(p) \/ CreatesRest(p) \/ TablesFail(p)
    \/ ReadsVersion(p) \/ Applies(p) \/ ApplyFails(p) \/ ApplyConflicts(p)
    \/ Stamps(p) \/ StampFails(p)
    \/ SkipsHub(p) \/ FindsHub(p) \/ CreatesHub(p) \/ MarksHub(p) \/ HubFails(p)
    \/ HubStandsIn(p) \/ RebuildsHub(p) \/ Records(p) \/ InitsAgain(p)

Next == HubAges \/ \E p \in Processes : ProcessStep(p)

Spec == Init /\ [][Next]_vars

-----------------------------------------------------------------------------
Pcs == {"off", "open", "pid", "up", "tables", "mark", "migrate", "step", "stamp", "hub", "hubmark",
        "run", "unlink", "unpid"}

\* The variables keep their types; a process inside holds the flock of the
\* lock file it opened, and a process that migrates is at one of the steps.
TypeOK ==
    /\ pc \in [Processes -> Pcs]
    /\ ino \in [Processes -> 0..inodes]
    /\ step \in [Processes -> 0..Target + 1]
    /\ seen \in [Processes -> {"unknown", "yes", "no"}]
    /\ named \in 0..inodes
    /\ inodes \in Nat /\ inodes <= starts
    /\ owner \in [1..MaxStarts -> Processes \cup {Nobody}]
    /\ pidFile \in Processes \cup {Nobody}
    /\ cloud \in BOOLEAN /\ marker \in BOOLEAN
    /\ tables \in {"none", "some", "all"}
    /\ applied \subseteq Steps
    /\ version \in 0..Target
    /\ row \in [{"old", "new"} -> {"absent", "bare", "filled"}]
    /\ hub \in {"none", "most", "all"} /\ fresh \in BOOLEAN
    /\ starts \in 0..MaxStarts /\ faults \in 0..MaxFaults
    /\ {swept, unstamped, dropped, strayed} \subseteq BOOLEAN
    /\ \A p \in Processes : p \in Inside => ino[p] # 0 /\ owner[ino[p]] = p
    /\ \A p \in Processes : pc[p] \in {"step", "stamp"} => step[p] \in Steps

\* Two processes work on the data directory at once only if a third, on its
\* way out, removed the lock file one of them had opened between its unlock
\* and its removal (release_process_lock, _try_acquire).
OneInside == swept \/ \A p, q \in Inside : p = q

\* A start is refused only while a process that is alive holds the very lock
\* file it opened: what a crashed process leaves, lock file and pid file, never
\* keeps the next one out (acquire_process_lock, _try_recover_lock).
NoStaleRefusal ==
    [][\A p \in Processes : pc[p] = "open" /\ pc'[p] = "off" /\ faults' = faults =>
           \E q \in Inside : q # p /\ ino[q] = ino[p]]_vars

\* The backfill of conflict rows is for the rows of before: a row recorded
\* since is left without a baseline by later starts, unless a step was left
\* without its version or two processes were inside (V004, runner.py).
BackfillOnce == row["new"] = "filled" => unstamped \/ dropped \/ swept

\* A marker means that the tables are there: init_db skips their creation on
\* its word (_is_db_initialized, _mark_db_initialized).
MarkerHonest == marker => tables = "all"

\* A version means that all migrations up to it were committed, unless a
\* WalConflict lost one: a later start begins behind it and never returns
\* (apply_migrations, _write_schema_version).
VersionHonest == dropped \/ 1..version \subseteq applied

\* Within the window in which nobody looks the hub has its tables, unless it
\* was rebuilt while the state, or a process, still remembered the old file, or
\* a local file stood in for it, or two processes were inside
\* (init_users_hub_tables, _init_hub_schema).
HubKnown == fresh => hub = "all" \/ strayed \/ swept

\* Whatever crashes and fails between the work and its record, and whoever
\* else starts meanwhile: the three records that later starts trust instead
\* of looking, the marker, the version and the hub state, are true.
RecordsHonest == MarkerHonest /\ VersionHonest /\ HubKnown

=============================================================================
