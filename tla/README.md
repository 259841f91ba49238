# A specification of LagoDB

LagoDB stores Apache Iceberg tables behind PostgreSQL's transactions. The hard
part of that is not the file format: it is that one PostgreSQL transaction, with
its savepoints, errors and concurrent neighbours, has to become exactly one
atomic change of Iceberg metadata, of the files that metadata names, and of the
background work the change asks for. This directory specifies that part in
TLA+, checks it with TLC on small instances, and proves the central facts with
TLAPS for all instances.

## 1. The system

Paths are relative to `src/`.

| Part | Where | State | Operations | Talks to |
|---|---|---|---|---|
| Transaction-local table tracker (`TxMetadata`) | `lagodb-iceberg/src/managed_table/catalog/metadata_tracker/{mod,state}.rs`, `lagodb-iceberg/src/write/transaction/` | per table: ordered action log, savepoint markers, rebuilt storage generations | stage batch, schema, properties, TRUNCATE, VACUUM, DROP, local rebuild; savepoint and transaction callbacks | catalog commit, storage resources, scans (overlay) |
| Catalog commit (`TableCommitCoordinator`, `IcebergMetadata`) | `metadata_tracker/commit.rs`, `catalog/metadata_table.rs`, `metadata_table/rebuild.rs`, `lagodb-core/src/catalog/write.rs` | one catalog row per table: metadata location and maintenance deadline | compare-and-swap with rebase and retry, finish, defer, rebuild, delete | other backends through tuple and relation locks; worker wakeups |
| Maintenance worker | `managed_table/maintenance/worker.rs` | the candidates of a run, its next deadline | load, lock, vacuum, skip, defer, reschedule | catalog row, worker framework |
| VACUUM | `managed_table/maintenance/{operations,planner,commit_attempt,cleanup,reachability,writer}.rs` | plan, completion token, cleanup list | plan, rewrite, commit attempt, cleanup | catalog commit, post-commit deletes |
| Storage resources | `lagodb-iceberg/src/storage/transaction_resources*`, `post_commit_delete.rs`, `lagodb-core/src/transaction/{mod,cleanup}.rs` | files a transaction created, per nest level; metadata attempts; pending deletes | track, upload, begin/promote/discard attempt, commit, abort, savepoints | tracker, object store, local files |
| Local storage WAL and retirement | `lagodb-iceberg/src/storage/{local.rs,local_file_wal,local_retirement}` | local files, WAL records, lossy set during redo | write, delete, truncate, retire; redo | PostgreSQL recovery |
| Worker framework | `lagodb-base/src/worker/` | shared-memory slot per worker: process, wakeup, schedule, failures | reconcile, wake, start, run, stop, restart with backoff | supervisor, coordinators, transactions |
| Object cleanup queue | `lagodb-core/src/object_cleanup/` | durable queue of trees and files to delete | enqueue, claim, delete, retry, back off | worker framework, object store |
| Row mutation | `lagodb-iceberg/src/write/`, `managed_table/access/mutation/` | writers, position deletes, row registry | insert, delete, update, finish | tracker, scans |
| Scans and read view | `lagodb-iceberg/src/{scan,predicate}`, `metadata_tracker/read.rs` | snapshot plus overlay of the transaction's own changes | plan, prune, parallel claim | tracker |
| Foreign Iceberg tables | `lagodb-iceberg/src/foreign_table/` | remote catalog session, staged changes | load, stage, commit with retry, abort | REST or SQLite catalog |
| Rows for AFTER triggers | `lagodb-core/src/table_am/modify/trigger_rows*` | row tokens, a store of OLD and NEW rows per statement and relation | keep, fetch, release | executor, triggers |
| Storage volumes | `lagodb-base/src/storage/volume_config/`, `lagodb-core/src/storage/tablespace.rs` | the volume file, a writer lock, every backend's cached bindings | create, rename, change credential, repair, retire, sweep; resolve | tablespaces, storage service |
| Storage service | `lagodb-base/src/storage/{supervisor,tasks,reconciler,reload,state}.rs` | request flags, the pending reconciliation, the store registry, the server task | request, reconcile, start, stop | volume file, object stores |
| Runtime host, hooks, options, GUCs | `lagodb-base/src/{runtime_host,process_utility,planning_hooks,gucs}`, `lagodb-core/src/{hooks,options}` | registrations | register, route | PostgreSQL |
| Query offload | `lagodb-query/`, `lagodb-base/src/query_host/` | plan and run of a statement, parallel context, shared region and workers, memory accounting | compile, launch, execute, rescan, close, abort | scans, PostgreSQL parallel workers |
| Framework seams | `lagodb-core/src/{table_am,fdw,customscan,copy,resource,handles,tuple,datum,expr}` | executor state per callback | callbacks | providers |
| Connectors, Arrow codec, macros | `lagodb-connectors/`, `lagodb-arrow/`, `lagodb-macros/` | readers and writers of file formats | decode, encode | scans, COPY |

What is hard in it, and what a correct implementation owes:

* **Savepoints against everything that is staged.** Log, files, rebuilt
  generations, reader caches and pending deletes are undone by separate pieces
  of code at every `ROLLBACK TO`, and handed to the parent at every `RELEASE`.
  They owe: after any sequence, the staged state is that of the moment the
  savepoint was opened, and the pieces agree with one another.
* **Concurrent publication.** Backends build metadata from a location that may
  be replaced meanwhile. They owe: no lost update, no half-published
  transaction, no leaked or missing file, no deadlock, bounded retries.
* **Deadlines and wakeups.** A write asks for maintenance, a VACUUM completes
  it, a worker defers it, all in the same row. They owe: maintenance that is
  needed is never forgotten and always has somebody who will wake up for it.
* **Errors at every step.** A statement, an attempt, a cleanup or a commit can
  fail half-way; the transaction may continue from a savepoint.
* **Processes that start, stop and vanish.** The supervisor, coordinators and
  workers agree only through shared memory, locks and catalog rows, and any of
  them can die between two steps. They owe: at most one process per job, no
  process that a DROP cannot reach, no promised run that nobody starts.
* **Files and outcomes.** A created file must go when its level is rolled back,
  a retired one only after the commit, and neither decision may touch a file
  that a savepoint can still bring back.
* **Deletions that outlive their transaction.** A dropped tree is deleted later
  by a worker that can fail, restart or be stopped half-way. It owes: what is
  queued is deleted, and nothing that is in use again.
* **Files on a replica.** Local files reach a standby through WAL records of
  their own. They owe: what the standby's catalog names is there, from any base
  backup and after any restart, and what the primary removed goes.
* **Statements inside statements.** A trigger runs statements on the table its
  caller is changing. They owe: each sees the commands before it, no row is
  changed twice, and a trigger gets its own rows.
* **Changes to catalogs LagoDB does not own.** They cannot be part of the local
  commit. They owe: nothing is sent twice, or from a rolled-back savepoint, or
  against a table that was replaced meanwhile.
* **Configuration shared by all processes.** The volume file has many writers,
  cached readers and one worker that applies it. It owes: no update is lost, no
  cache stays stale, no request for a reload is forgotten.

## 2. Modules

| Module | Models | Role |
|---|---|---|
| `ActionLog` | `TxTableActionLog`, `TableTransactionState`, `ManagedTableState` as constant operators | shared by the state machine and the proofs |
| `TableTransaction` | `TxMetadata` for one table: staging calls and transaction callbacks | state machine |
| `SavepointStack` | what savepoints promise, with no markers or frames | abstract specification of `TableTransaction` |
| `CatalogCommit` | commit loop, catalog row, maintenance deadline, maintenance worker | concurrent state machine |
| `TransactionFiles` | created files, metadata attempts, retired generations, deferred deletes, PREPARE, crash | state machine of one backend |
| `WorkerSlot`, `CoordinatorSlot` | the shared-memory entries (`state/slot.rs`, `state/coordinator.rs`) as operators | used by `WorkerRuntime` |
| `WorkerRuntime` | supervisor, coordinators, workers, lifecycle transactions | concurrent state machine, composes the two slots |
| `ObjectCleanup` | the durable deletion queue, its worker and actors, the sessions that use it | concurrent state machine, uses `WorkerSlot` |
| `LocalFileWal` | local files, their WAL records, crash recovery, base backup and standby | state machine of a primary and a standby |
| `RowWrites` | reader overlay with its caches, row registry, running statements | state machine of one backend, uses `ActionLog` |
| `TriggerRows` | rows kept for AFTER ROW triggers | state machine of one backend |
| `ForeignTransaction` | staged changes to external Iceberg catalogs and their publication | state machine of one backend and the catalogs, uses `ActionLog` |
| `StorageVolumes` | volume file, its writers, retirement, the backends' caches | concurrent state machine |
| `StorageService` | storage worker: supervisor loop, reconciliation, server task | concurrent state machine |
| `ParallelQuery` | runs and rescans of an offloaded query, its parallel context and workers | concurrent state machine of a leader and its workers |
| `ActionLogProofs`, `TableTransactionProofs` | | TLAPS proofs about `TableTransaction` |
| `CatalogCommitInvariant`, `CatalogCommitLoop`, `CatalogCommitProofs` | | TLAPS proofs about `CatalogCommit` |
| `ObjectCleanupInvariant`, `ObjectCleanupProofs` | | TLAPS proofs about `ObjectCleanup` |
| `ParallelQueryProofs` | | TLAPS proofs about `ParallelQuery` |

The modules `MC*` extend a module for TLC and add a symmetry set, workloads or a
function constant. `MCBackend` holds six components that share no state: each
behaviour is of one of them (`focus`), the variables of the others keep the
value `Idle`, and the properties are those of the component in focus.
Definitions introduced by "Faulty variant" are wrong on purpose: each
is a plausible slip in the code next to it, and putting it in place of the
right definition breaks the property `PROJECT.json` names under "mutants".

### State and actions against the code

**`TableTransaction`.** `table` is one `ManagedTableState`: the action log, the
level history of undo markers, the rebuild level and the stack of rebuild
frames. `level` is PostgreSQL's nest level, `failed` says that an error is
pending and the level can only be rolled back. One action is one call of
`TxMetadata` (stage a batch, schema, properties, TRUNCATE, VACUUM, DROP,
rebuild, each also in its rejecting form) or one transaction callback. A backend
has one thread, so a call is a step. Tables of a transaction do not share
tracked state, so one is enough; a batch is an opaque value.

**`CatalogCommit`.** `row`, `ver` and `holder` are a catalog tuple: its
committed contents, its version and the backend whose uncommitted version is on
it. `be[b]` is a backend with its staged plan, its own uncommitted rows and the
program counter of the commit loop: read the location (`loop`), build metadata
and compare in a scan (`scan`), update the tuple or wait for its holder
(`update`). Each is a step, because other backends can run between them.
Relation locks are derived from what the holder staged. The worker is a backend
whose transactions are chosen by `maintain_relation`; a run that finds
`auto_maintenance_enabled` off goes idle at once (`RunDisabled`), and `run.ignored`
records the deadlines it left. Metadata content is
abstracted to the set of transactions whose rows it has. Three history variables
record what committed transactions owe, independently of the rows and files:
`ideal` (the rows each table has when they run one after another), `published`
(the metadata files they promoted) and `covered` (the data changes a completed
VACUUM planned from).

**`TransactionFiles`.** A file is a number with a root (a generation
directory). `tx.reg` is the registry of created resources with their levels,
`attempt`, `promoted` and `cleanup` are the metadata registry, `retired` the
`LocalTableRetirements`, `batches` the pending deletes, and `deferred` what
`CommittedCleanup` runs after the locks are released. `tx.view` is what catalog
and tracker say of the table, with `saved` copies per savepoint, which is what
`SavepointsRestore` establishes for the tracker. A statement that fails half-way
has registered and written its files and has not changed the view. `orphans`
and `detached` record which files the code gives up on, and why.

**`WorkerRuntime`.** Every critical section of the shared state and every
catalog transaction of a control process is an action. Processes are registered,
forked (or lost), run, and gone after their exit callback. `lost` records the
workers whose fork failed until a launcher learns of it. Lifecycle locks are
read off the program counters of those who hold them. A statement of a client
takes its locks and effects in one step, its end is a second step and its
end-of-transaction callback a third. Left out: clock values (a time is unset, in
the future or past), signals that only wake a sleeper, templates and CREATE
DATABASE, and reuse of ids. The server starts with any persisted registrations.

**`ObjectCleanup`.** `queue` is the table `maintenance_queue`, a row with its
target, attempts, revision and due time (now, less than a millisecond ahead, or
later). Sessions create, vacuum, drop and re-create tables at an object-store
location; CREATE is kept away by a queued deletion of the tree or by objects that
are left, not by a worker that runs. What they enqueue becomes visible at commit, and the wakeup follows as
a step of its own. The worker's entry is a `WorkerSlot`; each of its catalog
transactions and each storage request of an actor is a step, so that a stop, a
crash or a second dispatch can come between. `condemned` records what committed
transactions gave up.

**`LocalFileWal`.** A file is the set of chunks it holds. A chunk goes to the
file in one step and to the WAL in the next; closing a writer syncs the file.
What a transaction retires is logged, flushed and unlinked after its commit, in
three steps. A crash keeps the flushed part of the WAL and the synced files, and
recovery replays from the last checkpoint. A base backup copies file by file
while the primary goes on; a standby replays from it, records as `lossy` the
files it must skip, and may go back to a restartpoint. The catalog row is
replicated by PostgreSQL itself.

**`RowWrites`.** `txn` is the state of `TableTransaction` (the operators of
`ActionLog`) with real batches: a command id, added files and deleted rows.
`cache` are the caches of the log and of its epochs, filled when they are first
read and kept, cut or dropped by each operation as the code does. `registry`,
`bitmap` and `queries` are the row registry, the positions each modify state
owns, and the stack of running statements. `facts` records what statements did
that no rollback undid, independently of log and caches. A statement may end with
its own node unfinished, when its caller wanted only so many rows of a RETURNING
list: nothing is staged and its claims stay (a fact of kind "abandoned").

**`TriggerRows`.** `next` is the token counter, `active` the stores of running
statements with their read positions and cached rows. A statement keeps its
rows, then fetches them for each queued event and trigger, and a trigger function
may start another statement in a subtransaction that fails.

**`ForeignTransaction`.** `remote` are the external catalogs, which other clients
change at any time before publication. `states` holds, per server, user and
table, the generations a transaction works on (published or staged) with their
action logs. Pre-commit admits (`prepared`), publication follows the local
commit, one request per identity or table, and may fail. `saved` is
what each savepoint has to restore.

**`StorageVolumes`.** `config` is `storage-volumes.json`. A mutation takes the
advisory lock and computes the new snapshot (`writing`), renames it into place
(`Publish`) and then tells the backends and the storage worker (`Announce`); a
failure can end it before each of these. DROP TABLESPACE collects the volumes in
the object-access hook and retires them after its commit. A backend fills
`cached` when it resolves a tablespace. A volume's location never changes, so it
is not in the state. As the code's administrators' invariant says
(`volume_config/binding.rs:3`), a volume is not created on a tablespace that is
being dropped.

**`StorageService`.** One action per stage of the supervisor's turn: collect task
results, sweep, take reload requests, dispatch. The reconciliation task applies
one volume per step and goes on with the others when one fails. `shared` are the
flags in shared memory. A location with its credential is one member of `Specs`;
those with a default credential chain (`Chained`) are applied again by a forced
reload. `owed` records the volumes whose forced reload is still to be tried,
`missed` that the last attempt could not read the file.

**`ParallelQuery`.** `stmt` is the statement from its first row to close or abort: the
phase of `QueryExecutionCell` and `RunState`, the prepared plan, and the two flags
that make the next run compile it again. `lead` is the leader's place between two
executor callbacks ("idle"), in a launch, in the wait for its workers, or in
PostgreSQL's abort. `control` is `SharedControl` with what is initialized of the
shared region, `group` the Rust owner of the parallel context `pg`. A worker
registers with the condition variable, tests the gate, sleeps and is woken in
separate steps (`waiting` is the wait list). PostgreSQL's abort is modelled in its
order: terminate the workers and detach the segment, wait for their exit, and only
then the query's `ResourceOwner` callback. A stream may end at any time, so a worker
may reach the gate after the run is over. The frames that leader and workers
exchange are those of an external library and are left out.

## 3. Runs

Every passing run ends within five minutes with two TLC workers.

| Run | Instance | Shows |
|---|---|---|
| `table_transaction` | both storage kinds, nesting 4, 4 commands; 52 thousand states | pre-commit never meets its own "invariant violated" errors (`CommitNeverFails`); VACUUM stands alone; the undo history stays usable; savepoints restore exactly (`SavepointsRestore`, refinement of `SavepointStack`) |
| `catalog_one_table` | 2 clients, 2 transactions, 2 worker runs, one table of either kind, all statements, one retry, maintenance switched off in any run; 1.0 million states | no lost update (`CommitsAreSerial`), maintenance never forgotten, due work watched, the TRUNCATE guard never raised, a retry means that somebody else progressed |
| `catalog_two_tables` | 2 clients, 3 transactions, 2 tables, no retries; 319 thousand states | metadata files are accounted for when a later table fails; every pre-commit ends (`PreCommitEnds`), so tuple waits form no cycle |
| `transaction_files` | one transaction, nesting 3, 4 files, 3 generations, one undeletable file, both kinds; 392 thousand states | files of the committed table and of every savepoint exist in every state (`NeededFilesExist`); nothing is left behind without a recorded reason |
| `transaction_prepare` | the same | violated, see findings |
| `worker_safety` | 1 worker; a transaction and a fault, or two DROPs of any of three kinds that may roll back, or a DROP and a fault; 1.0 million states | shared-memory entries and processes agree (one process per job, reachable by a DROP, no entry without a process), only registered workers are entered, nothing is entered while its removal is open |
| `worker_liveness` | a transaction or a fault; 171 thousand states | promised runs happen, removed entries go away |
| `worker_lost_fork` | a DROP and one fault | violated, see findings |
| `object_cleanup` | 1 session, 1 location, 2 actors, 3 objects, 2 items, 3 transactions, 2 faults; 498 thousand states | no object in use is deleted, no committed deletion is lost, no item is dispatched twice, every item is carried out or failed (`QueueDrains`) |
| `object_cleanup_rounding` | due times less than a millisecond ahead, 1 actor | violated, see findings |
| `local_file_wal` | 2 transactions, files of 2 chunks, 2 directories, and a crash, or a standby with a restart or a failing removal; 2.6 million states | committed files are whole on the primary after every crash, and on a consistent standby; replay leaves no gaps; removals reach the standby |
| `backend_state` | six components in turn, see below; 1.5 million states | |
| - rows | 2 base rows, 2 data files, nested and abandoned statements, savepoints, TRUNCATE | readers see exactly the earlier commands, through all caches; no row is claimed twice |
| - triggers | 2 triggers, 2 statements, a token range that runs out | each trigger gets the rows of its event; stores end with their statement |
| - foreign | 2 servers (REST and SQLite), 2 users, nesting 3; another client drops and re-creates a table | staged state matches the relations; rollback restores it; files go to the table version they were written for; everything is published once or removed; PREPARE loses nothing |
| - volumes | 2 backends and the worker, 2 names, 2 tablespaces, one I/O error or crash | caches are current or about to be dropped; volumes keep identity, retire after the drop and are purged after the grace period |
| - service | 2 volumes, 2 forms, changes, forced reloads, SIGHUP, restart, faults | once idle, the store registry is what the file says or records the rejection; no request is lost |
| - query | 3 workers asked for, 0 to 3 started; two rescans, or a rescan with an error and a fault, or an error and two faults | a worker past the gate finds the region complete, no waiting leader leaves a worker asleep, nobody touches a detached segment; each run has an unused plan for the current parameters, and the parallel context ends with it |

**Why the bounds are enough.** Nesting 4 has a released level between two that
are rolled back, which is what moves markers and frames; the theorems of section
5 remove the bound. Two clients and one retry give every order of read, compare
and update and a conflict. With two tables, three transactions and no retries a
client fails at its second table while another waits for the first; with one table
there is a retry. The theorems on `CatalogCommit` remove these bounds for all its
safety properties. In `TransactionFiles` three levels
and three generations give a TRUNCATE in place, one of an outer level's
generation, and one of the committed generation, in every order with release and
rollback. Later transactions start from a state like the initial ones, so one is
checked; two transactions with nesting 2 (763 thousand states) also pass.

Several modules take a constant `Workloads`: a set of budgets, one per kind of
operation, of which a behaviour draws one. The product of all operations would
be out of reach, so each budget combines the kinds that interact. In `WorkerRuntime` that
is one transaction with one fault, two DROPs, or a DROP with a fault. A second fault
breaks `PromisedRunsHappen` (section 4). A DROP with a fault reaches the entry of the
first finding, which no process stands behind: `EntriesMatchProcesses` excepts exactly
that entry, while its fork is lost and nobody has learnt of it. All worker runs have one database; coordinators of different databases share
only the supervisor's queue and the background slots. In `ObjectCleanup` two
items and two actors give the race for one item, a tree beside an object of it, and a
CREATE at the emptied location while an actor still works on the object; two faults give a failure during the recovery of another. In `LocalFileWal`
two transactions give a file committed by one and removed by the other, and two
chunks a file that a base backup catches half-written. In `RowWrites` the
budgets have up to three statements, two of them nested, with a savepoint or a
TRUNCATE between two reads. `TriggerRows` has so few tokens that the counter
reaches its limit. In `ForeignTransaction` another client takes up to two steps, which
give a drop and a new table of the same name between two statements. In `StorageVolumes` one of two concurrent writers fails or
crashes, and the clock passes the grace period; in `StorageService` a change,
a forced reload, a restart and a fault come in one behaviour. In `ParallelQuery`
three workers give a launch that is short and still parallel, one that is too
short, and one without workers; two rescans give a parallel run, a serial one and
a parallel one again.

**Fairness.** `CatalogCommit!FairSpec` assumes weak fairness of each backend's
pre-commit steps and of the rollback after an error in them: a backend in its
pre-commit callback waits for nothing but a catalog tuple, and PostgreSQL rolls a
failed transaction back without waiting for the client. Without the second part a
failed transaction would keep its tuples, and others waiting for them. Nothing is
assumed about clients. `WorkerRuntime!FairSpec` assumes
weak fairness of the supervisor's loop, of each forked process, of the
postmaster's fork and its delivery of SIGTERM, of the end of transactions, and
of the restart timers the code arms itself. It does not assume that the periodic
scan of all databases ever runs: promised runs must not depend on it.
`ObjectCleanup!FairSpec` assumes weak fairness of the wakeup after a commit, of
the launch and the steps of the worker, of each actor, of the runtime's
reconciliation, and of time (a row or a restart becomes due); faults are
bounded, and no session has to act. Deadlock checking is on for
`table_transaction`; the others end when their bounds are spent, so there it
says nothing.

## 4. Findings

* `worker_lost_fork` (`state/slot.rs:192`): a stopped entry is left alone since
  "its exit callback will request another catalog reconciliation". If a DROP
  ends the coordinator while it waits for the fork of a worker, and that fork
  fails, there is no process and no callback. The entry stays `Starting` and the
  worker does not run again, also when the DROP rolls back.
* `transaction_prepare` (`transaction_resources/registry.rs:445`): the
  transaction framework asks resources to refuse PREPARE when work needs the
  final outcome. The registry of created files does not, and CREATE TABLE in
  object storage leaves no other trace that would. After ROLLBACK PREPARED the
  new tree stays, and the staging copy stays in either case.
* `object_cleanup_rounding` (`object_cleanup/worker.rs:91`): the worker asks to
  run again when the first item is due, in microseconds. The conversion to
  milliseconds rounds down, and zero milliseconds means "idle": a deadline less
  than a millisecond ahead is forgotten until something else wakes the worker.

Met while modelling, without a run of its own:

* A comment at `worker/bgworker.rs:151` says that the wait for a process to start
  holds no database lifecycle lock; the supervisor (`worker/supervisor.rs:220`)
  holds it in share mode, so a DROP DATABASE waits with it.
* A standby that restarts between a removal and its next restartpoint becomes
  consistent before it has replayed the removal again, and until then its
  catalog names files that are gone: redo of a removal does not move the minimum
  recovery point. `StandbyHasCommittedFiles` states the exception.
* With two faults (the supervisor dies while it waits for a coordinator, and the
  fork of that coordinator fails) a promised run waits for the periodic scan.
* A worker that deregisters itself leaves its entry until the next request for its
  database.
* A VACUUM that stops at its budget still completes the deadline it was started
  for; `MaintenanceRemembered` counts it as a VACUUM of what it planned from.

## 5. Proofs

### Savepoints of one transaction

The theorems of `TableTransactionProofs` hold for all sets of batches
and tags, any nesting depth and any number of commands. They assume
`BoundsAssumption` (the bounds are natural numbers, at least one level) and
nothing else.

* `HistoryIsUsable`: `Spec => [](TypeOK /\ HistoryInv)`. This is the inductive
  invariant. Each undo marker points into the log it was taken of; markers and
  levels grow along the history; a level owns at most one rebuild frame, and
  with it the generation that follows; the log of every generation, the current
  one and those that frames keep, can be committed. The last part is needed
  because a rollback turns a kept log into the current one.
* `CommitMeetsNoInvariantError` and `VacuumIsAlone` follow from it.
* `SavepointsAreCopies`: `TableTransaction` implements `SavepointStack` under
  the mapping that reads the saved copy of level *i* as what `RollbackTable`
  would restore there. Init maps to Init, and each callback to the step of the
  same name: staging leaves all copies alone, RELEASE drops one, a rollback
  makes one current.

`ActionLogProofs` has the lemmas on logs, markers and their release and
rollback, and those on rebuild frames. TLC checks `HistoryInv` on
the small instance as well.

### Concurrent publication

The theorems of `CatalogCommitProofs` hold for any set of clients, any finite set
of tables, any mixture of local and object storage, every value of the settings
(retries, naptime, tables per run) and any bounds on transactions, runs and time.
They assume `CommitAssumption`: tables are natural numbers (oids) and finitely
many, the worker is not a client, the settings are natural numbers, and naptime and
tables per run are positive.

| Theorem | States, as `Spec => []...` |
|---|---|
| `InvariantHolds` | the inductive invariant `IInv` |
| `SerialCommits` | `CommitsAreSerial`: no lost update |
| `NothingForgotten` | `MaintenanceRemembered`: a deadline is cleared only by a VACUUM of all the data |
| `DeadlinesWatched` | `DueWorkIsWatched`: every deadline has a wakeup, a run or a sleeping worker, or stood when a run found maintenance switched off |
| `FilesAccounted` | `MetadataFilesAccounted`: no dangling row, no leaked file |
| `GuardHolds` | `TruncateGuardHolds`: `TruncateCommitConflict` is never raised |
| `RetriesPaidFor` | `RetriesMeanProgress`: bounded retries, each paid for by somebody's commit |

None of the six is inductive. `IInv` (module `CatalogCommitInvariant`) adds what
they rest on, one definition per idea:

* `ControlInv`: which fields mean something at which point of the commit loop.
* `LockInv`: what is staged is locked, with AccessExclusive where a TRUNCATE guard,
  a rebuild or a DROP is staged; what is locked and not dropped is in the catalog.
  `ApartInv` says that no two backends hold conflicting locks or own the same file.
* `AttemptInv`: what the compare-and-swap in flight materialized is the plan applied
  to `latest`, and if the tuple's version is still the one the scan saw, the row
  still points at `latest`. This is the core of the argument: an update that finds
  the version unchanged publishes on top of what it read.
* `RetryInv`: counts rejections against the versions others committed since the
  loop began, separately for each point of the loop.
* `VersionInv` and `UnpublishedInv`: what a transaction's own catalog version says
  of each table it holds, before and after the commit loop has published the plan,
  and that what is not published yet has no effect. `Commit` moves `VersionInv` of
  the committing backend into `RowInv`, the invariant of the committed rows.
* `FileInv` and `FilesInv`: who owns which file; files of an initial catalog, of a
  commit, of an attempt and of a promotion are apart.
* `GuardInv`, `HolderInv`, `PlanInv`: the guard of a TRUNCATE, the holders of tuples,
  and the token of a VACUUM.

The proof has one lemma per action. Most steps change one backend and the catalog
not at all (`Quiet`, `QuietStep`): the other backends' part of `IInv` is then shown
once for all of them. `CatalogCommitInvariant` also has the statements of clients and
`Maintain`; `CatalogCommitLoop` the start of the commit, the turns of the loop, the
scan and its conflict, and the update of the tuple in its five
forms (swap, completion, rebuild, drop, deferral); `CatalogCommitProofs` commit, end
of transaction, the worker, the clock, the initial state and the theorems. The
commit is the one step that changes what others rely on. It is harmless for them
because the committer holds the tuples whose rows change, their versions grow, and
a dropped or rebuilt table was locked against everybody.

### Deferred deletion

The theorems of `ObjectCleanupProofs` hold for any sets of sessions and locations, any
finite set of actors, and any bounds on items, objects, transactions, faults and
attempts. They assume `CleanupAssumption`.

| Theorem | States, as `Spec => []...` |
|---|---|
| `InvariantHolds` | the inductive invariant `IInv` |
| `LiveObjects` | `LiveObjectsSurvive`: nothing in use is deleted |
| `CondemnedQueued` | `CondemnedObjectsAreQueued`: no committed deletion is lost |
| `SingleDispatch` | `NoDoubleDispatch`: one actor per item |

`IInv` (module `ObjectCleanupInvariant`) has a side of the tables and a side of the
worker. What a valid row stands for is dead (`Dead`): no table and no CREATE in
progress refers to it, and no new table will, because CREATE looks for a row of the
tree and new objects have new names (`QueueInv`). What sessions are about to enqueue is
new to the queue and to the worker (`FreshInv`), and two sessions work apart
(`ApartInv`). Each item of the worker is a copy of a row that is still queued, and of
no other item (`ItemInv`): only its result removes the row. So a CREATE that finds no
row of the tree knows that no actor deletes there, although the worker may be running.
An item is with one actor or has one result (`ActorInv`, `ResultInv`), and when a
result says "complete", nothing it stands for is left; that is why the removal of the
row loses nothing (`CoverInv`).

### Runs of a parallel query

The theorems of `ParallelQueryProofs` hold for any set of workers and any number of
rescans, errors and faults. `InvariantHolds` gives the inductive invariant, one
definition per party: the plan (`PlanInv`), the owner of the parallel context
(`OwnerInv`), the gate with the wait list (`GateInv`). `NobodyUnprepared` is
`WorkersFollowTheLeader` and `FreshRuns` is `RunsAreFreshAndOwned`, as `Spec => []...`.

### Model-checked only

All liveness and ENABLED (`PreCommitEnds`, `PromisedRunsHappen`,
`RemovedEntriesGoAway`, `QueueDrains`), which TLAPS cannot treat here, and the safety
properties of the other modules, for
which no inductive invariant has been proved yet. `RowWrites`, `TriggerRows` and `LocalFileWal`
fold over logs, caches and records, and what a fold computes for every input
takes an induction over data that TLAPS cannot do here. `TypeOK` of
`WorkerRuntime` and of the components of `MCBackend` also state
limits of counters and identities.

## 6. Not modelled, and the plan

`PROJECT.json` lists every part with its status. Pure data paths (formats,
Arrow, expressions, predicates, query translation) are most of the repository's
lines; they and the wrappers of PostgreSQL's C interfaces have no protocol state
and stay outside. Inside the modelled parts the following is left out:

* `RowWrites`: deletion vectors of format version 3, partition routing, encoding.
* `ForeignTransaction`: a staged ALTER appears only in its guards; catalog clients.
* `StorageVolumes`: loss of power between the rename and the sync of the
  directory (a crash is one of the server; the file system survives); savepoint
  levels of a retirement, since DROP TABLESPACE cannot run in a transaction block.
* `StorageService`: the invalidation of the backends' caches after a forced reload
  (`StorageVolumes` has that of a change), runtime options, log bridge and status counters, and the
  bounded wait for tasks at shutdown. The server is an external library.
* `WorkerRuntime`: savepoints of the transaction-local list of actions; a
  statement is one step. Templates and CREATE DATABASE.
* `ParallelQuery`: cancellation while the leader waits for its workers to attach or to
  finish (an error may come before and after such a wait), and a failed attach is
  noticed only when no worker is still starting; frames and back-pressure between leader and workers (an external
  library), metrics, and errors of PostgreSQL while it destroys a context.
* `ObjectCleanup`: batching of requests and the object-store client.

Planned next:

1. `WorkerActions`: the transaction-local list of worker actions with savepoints.
2. Claims of work in parallel scans.
3. VACUUM: which files a plan may delete, given the snapshots that reach them.
4. Deletion vectors in `RowWrites`, staged ALTER in `ForeignTransaction`.

Proofs planned: `NeededFilesExist` for any nesting; `EntriesMatchProcesses` from an invariant that
ties slots to processes; `CachesAreInvalidated` and `VolumesFollowTablespaces`
for any number of backends and volumes.
