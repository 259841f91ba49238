--------------------------- MODULE WorkerRuntime ---------------------------
(***************************************************************************)
(* The background-worker runtime of lagodb-base: the supervisor, one       *)
(* coordinator process per database, the extension workers they start, and *)
(* the transactions that register, wake, stop and drop workers             *)
(* (lagodb-base/src/worker/).                                              *)
(*                                                                         *)
(* Every step that takes the SHARED_STATE lock is one action, and so is    *)
(* every catalog transaction of a control process.  The database lifecycle *)
(* lock is read off the program counters of its holders.  Processes are    *)
(* PostgreSQL's dynamic background workers: registered, forked by the      *)
(* postmaster (or lost by it), and gone after their exit callback.         *)
(***************************************************************************)
EXTENDS Integers, Sequences, FiniteSets, SequencesExt, Functions

CONSTANTS
    Databases, Workers, Extensions,
    DatabaseOf,      \* the database a worker is registered in
    ExtensionOf,     \* the extension that registered it
    Pids, NoPid,     \* process ids of background workers
    Clients,         \* sessions running lifecycle transactions
    MaxFailures,     \* bound of failure_count (module WorkerSlot)
    Workloads        \* bounds: transactions, faults and background-worker slots

ASSUME RuntimeAssumption ==
    /\ DatabaseOf \in [Workers -> Databases]
    /\ ExtensionOf \in [Workers -> Extensions]
    /\ NoPid \notin Pids
    /\ MaxFailures \in Nat \ {0}
    /\ \A l \in Workloads :
         /\ DOMAIN l = {"ops", "txns", "faults", "slots"}
         /\ l.ops \subseteq {"register", "deregister", "wake", "alter_database",
                            "drop_extension", "drop_runtime", "drop_database"}
         /\ {l.txns, l.faults, l.slots} \subseteq Nat

VARIABLES
    slots,       \* WORKER_TABLE
    coords,      \* COORDINATOR_TABLE
    rescan,      \* SHARED_STATE.rescan_all
    sup,         \* the supervisor process and its loop variables
    schedule, pending,  \* the supervisor's Scheduler
    procs,       \* the background-worker processes
    rows,        \* committed rows of the worker catalog
    runtime,     \* databases in which lagodb_base is installed
    live,        \* committed rows of pg_database
    clients,     \* the open transactions
    used,        \* worker ids handed out by the catalog
    left,        \* what is left of the workload
    wanted,      \* history: a run of the worker has been promised
    oneShot,     \* history: workers that deregistered themselves
    lost         \* history: workers whose fork failed, until a launcher learns of it

vars == <<slots, coords, rescan, sup, schedule, pending, procs, rows, runtime,
          live, clients, used, left, wanted, oneShot, lost>>
shared == <<slots, coords, rescan>>
supervisor == <<sup, schedule, pending>>
catalog == <<rows, runtime, live>>
history == <<used, left, wanted, oneShot, lost>>

\* Bounds not spent yet.
FaultsLeft == left.faults > 0
TxnsLeft   == left.txns > 0
AFault     == [left EXCEPT !.faults = @ - 1]

W == INSTANCE WorkerSlot
C == INSTANCE CoordinatorSlot

Free == [kind |-> "free", pc |-> "free"]

Coordinator(d) ==
    [kind |-> "coordinator", db |-> d, pc |-> "registered", regs |-> {},
     child |-> NoPid, term |-> FALSE]

Worker(w) ==
    [kind |-> "worker", db |-> DatabaseOf[w], key |-> w, pc |-> "registered",
     term |-> FALSE]

Process ==
    {Free}
    \cup [kind : {"coordinator"}, db : Databases, regs : SUBSET Workers,
          child : Pids \cup {NoPid}, term : BOOLEAN,
          pc : {"registered", "forked", "top", "lock", "clear", "load", "reconcile",
                "launch", "await", "delay", "sleep", "exit0", "exit1", "gone"}]
    \cup [kind : {"worker"}, db : Databases, key : Workers, term : BOOLEAN,
          pc : {"registered", "forked", "prepare", "call", "running",
                "exit0", "exit1", "publish", "gone"}]

Idle == [pc |-> "idle"]

(***************************************************************************)
(* The database lifecycle lock (lock.rs): registration transactions and    *)
(* the supervisor's handoff share it, DROP owns it, and a coordinator's    *)
(* reconciliation mode conflicts with both.                                *)
(***************************************************************************)
Dropping == {"drop_extension", "drop_runtime", "drop_database"}
Locking == {"register", "deregister"} \cup Dropping

\* Transactions hold it from acquisition until after their end-of-transaction
\* callback.
Holds(c, d) ==
    /\ clients[c].pc # "idle"
    /\ clients[c].op \in Locking
    /\ clients[c].db = d

\* Catalog rows a transaction has written stay locked until it ends.
RowLocked(w) ==
    \E c \in Clients : /\ clients[c].pc # "idle"
                       /\ clients[c].op \in Locking
                       /\ w \in clients[c].workers

DropHolds(d) == \E c \in Clients : Holds(c, d) /\ clients[c].op \in Dropping
SupervisorHolds(d) == sup.pc = "await" /\ procs[sup.child].db = d

LifecycleLockFree(mode, d) ==
    CASE mode = "shared" -> ~DropHolds(d)
      [] mode \in {"reconciliation", "drop"} ->
           ~SupervisorHolds(d) /\ \A c \in Clients : ~Holds(c, d)

(***************************************************************************)
(* Processes.                                                              *)
(***************************************************************************)
FreePids ==
    LET free == {p \in Pids : procs[p] = Free}
    IN  IF Cardinality(Pids \ free) < left.slots THEN free ELSE {}

\* A launcher blocked in WaitForBackgroundWorkerStartup on process p.
Awaited(p) ==
    \/ sup.pc = "await" /\ sup.child = p
    \/ \E q \in Pids : procs[q].pc = "await" /\ procs[q].child = p

\* Process p has ended: its slot is reused once nobody holds its handle.
Ended(pr, p) ==
    [pr EXCEPT ![p] = IF Awaited(p) THEN [@ EXCEPT !.pc = "gone"] ELSE Free]

Goto(p, pc) == [procs EXCEPT ![p].pc = pc]

Fork(p) ==
    /\ procs[p].pc = "registered"
    /\ procs' = Goto(p, "forked")
    /\ UNCHANGED <<shared, supervisor, catalog, clients, history>>

\* The postmaster could not start it and forgets the registration.
ForkFails(p) ==
    /\ procs[p].pc = "registered"
    /\ FaultsLeft
    /\ left' = AFault
    /\ procs' = Ended(procs, p)
    /\ lost' = IF procs[p].kind = "worker" THEN lost \cup {procs[p].key} ELSE lost
    /\ UNCHANGED <<shared, supervisor, catalog, clients, used, wanted, oneShot>>

\* SIGTERM is acted on at the next interrupt check.
TermExit(p) ==
    /\ procs[p] # Free
    /\ procs[p].term
    /\ procs[p].pc \notin {"registered", "exit0", "exit1", "publish", "gone"}
    /\ procs' = LET child == IF procs[p].pc = "await" THEN procs[p].child ELSE NoPid
                IN  [q \in Pids |->
                       IF q = p THEN [procs[p] EXCEPT !.pc = "exit1"]
                       ELSE IF q = child /\ procs[q].pc = "gone" THEN Free
                       ELSE procs[q]]
    /\ UNCHANGED <<shared, supervisor, catalog, clients, history>>

Terminate(pr, pids) ==
    [p \in Pids |-> IF p \in pids THEN [pr[p] EXCEPT !.term = TRUE] ELSE pr[p]]

(***************************************************************************)
(* Requests for coordination.                                              *)
(***************************************************************************)
\* request_coordination_locked: the coordinator's slot keeps the request, and
\* without a published coordinator a full scan does.  Signals are left out:
\* every wait they interrupt has a timeout.
RequestCoordination(d) ==
    /\ coords' = IF d \in DOMAIN coords
                   THEN [coords EXCEPT ![d] = C!RequestRestart(@)] ELSE coords
    /\ rescan' = (rescan \/ d \notin DOMAIN coords \/ coords[d].pid = NoPid)

(***************************************************************************)
(* The coordinator (coordinator.rs, store/worker.rs).                      *)
(***************************************************************************)
IsCoordinator(p, pc) == procs[p].kind = "coordinator" /\ procs[p].pc = pc

Authorised(d) == d \in DOMAIN coords /\ C!HasReconciliationAuthority(coords[d])

\* Connecting to a database that is gone is fatal.
BeginCoordinator(p) ==
    /\ IsCoordinator(p, "forked")
    /\ LET d == procs[p].db
           runs == d \in DOMAIN coords /\ C!MayRun(coords[d])
       IN  /\ coords' = IF d \in DOMAIN coords
                          THEN [coords EXCEPT ![d] = C!MarkRunning(@, p)] ELSE coords
           /\ procs' = Goto(p, IF ~runs THEN "exit0" ELSE IF d \in live THEN "top"
                              ELSE "exit1")
    /\ UNCHANGED <<slots, rescan, supervisor, catalog, clients, history>>

CoordinatorTop(p) ==
    /\ IsCoordinator(p, "top")
    /\ procs' = Goto(p, IF Authorised(procs[p].db) THEN "lock" ELSE "exit0")
    /\ UNCHANGED <<shared, supervisor, catalog, clients, history>>

\* The lifecycle lock is held for this transaction only.
CheckRuntimeCatalog(p) ==
    /\ IsCoordinator(p, "lock")
    /\ LifecycleLockFree("reconciliation", procs[p].db)
    /\ procs' = Goto(p, IF procs[p].db \in runtime THEN "load" ELSE "clear")
    /\ UNCHANGED <<shared, supervisor, catalog, clients, history>>

\* The snapshot of the registrations is read after the lock was released.
LoadRegistrations(p) ==
    /\ IsCoordinator(p, "load")
    /\ LET d == procs[p].db
       IN  procs' = IF ~Authorised(d) THEN Goto(p, "exit0")
                    ELSE IF d \notin runtime THEN Goto(p, "clear")
                    ELSE [procs EXCEPT
                            ![p].pc = "reconcile",
                            ![p].regs = {w \in rows : DatabaseOf[w] = d}]
    /\ UNCHANGED <<shared, supervisor, catalog, clients, history>>

\* Faulty variant: entries go whether or not their process has exited.
SweptAtOnce(dropped) == Restrict(slots, DOMAIN slots \ dropped)

\* Worker entries the catalog no longer lists: a live process keeps its entry
\* until it has exited.
Swept(dropped) ==
    [w \in {v \in DOMAIN slots : v \in dropped => W!HasActiveProcess(slots[v])} |->
        IF w \in dropped THEN W!MarkRemoving(slots[w]) ELSE slots[w]]

OfDatabase(d) == {w \in Workers : DatabaseOf[w] = d}

\* reconcile_registrations with authority, from the snapshot regs.
Reconciled(d, regs) ==
    LET present == [w \in regs |->
                      IF w \in DOMAIN slots THEN W!ReconcilePresent(slots[w])
                      ELSE W!RequestWakeup(W!InitializeRegistration)]
        kept == Swept(OfDatabase(d) \ regs)
    IN  [w \in DOMAIN kept \cup regs |-> IF w \in regs THEN present[w] ELSE kept[w]]

ReconcileRegistrations(p) ==
    /\ IsCoordinator(p, "reconcile")
    /\ LET d == procs[p].db
       IN  /\ slots' = IF Authorised(d) THEN Reconciled(d, procs[p].regs) ELSE slots
           /\ procs' = [procs EXCEPT ![p].regs = {},
                                     ![p].pc = IF Authorised(d) THEN "launch"
                                                                ELSE "exit0"]
    /\ UNCHANGED <<coords, rescan, supervisor, catalog, clients, history>>

ClearDatabaseWorkers(p) ==
    /\ IsCoordinator(p, "clear")
    /\ slots' = Swept(OfDatabase(procs[p].db))
    /\ procs' = Goto(p, "exit0")
    /\ UNCHANGED <<coords, rescan, supervisor, catalog, clients, history>>

Ready(d) == {w \in DOMAIN slots :
               DatabaseOf[w] = d /\ W!RestartDelay(slots[w]) = "now"}

\* register_ready_worker finds an eligible worker and registers its process.
RegisterReadyWorker(p) ==
    /\ IsCoordinator(p, "launch")
    /\ Authorised(procs[p].db)
    /\ \E w \in Ready(procs[p].db), q \in FreePids :
         /\ slots' = [slots EXCEPT ![w] = W!PrepareStart(@)]
         /\ procs' = [procs EXCEPT ![p].pc = "await", ![p].child = q,
                                   ![q] = Worker(w)]
    /\ UNCHANGED <<coords, rescan, supervisor, catalog, clients, history>>

\* No background-worker slot is left, or PostgreSQL refuses for a reason of
\* its own.
RegisterWorkerFails(p) ==
    /\ IsCoordinator(p, "launch")
    /\ Authorised(procs[p].db)
    /\ FreePids = {} \/ FaultsLeft
    /\ left' = IF FreePids = {} THEN left ELSE AFault
    /\ \E w \in Ready(procs[p].db) :
         slots' = [slots EXCEPT ![w] = W!RegistrationFailed(@)]
    /\ procs' = Goto(p, "delay")
    /\ UNCHANGED <<coords, rescan, supervisor, catalog, clients, used,
                   wanted, oneShot, lost>>

NoReadyWorker(p) ==
    /\ IsCoordinator(p, "launch")
    /\ ~Authorised(procs[p].db) \/ Ready(procs[p].db) = {}
    /\ procs' = Goto(p, "delay")
    /\ UNCHANGED <<shared, supervisor, catalog, clients, history>>

\* WaitForBackgroundWorkerStartup: a child that has already exited looks like
\* one that never started.
WorkerStarted(p) ==
    /\ IsCoordinator(p, "await")
    /\ procs[procs[p].child].pc \notin {"registered", "gone"}
    /\ procs' = [procs EXCEPT ![p].pc = "launch", ![p].child = NoPid]
    /\ UNCHANGED <<shared, supervisor, catalog, clients, history>>

WorkerDidNotStart(p) ==
    /\ IsCoordinator(p, "await")
    /\ LET q == procs[p].child
           w == procs[q].key
       IN  /\ procs[q].pc = "gone"
           /\ slots' = IF w \in DOMAIN slots
                         THEN [slots EXCEPT ![w] = W!RegistrationFailed(@)] ELSE slots
           /\ procs' = [procs EXCEPT ![p].pc = "delay", ![p].child = NoPid, ![q] = Free]
           /\ lost' = lost \ {w}
    /\ UNCHANGED <<coords, rescan, supervisor, catalog, clients, used, left, wanted,
                   oneShot>>

\* next_database_worker_start_delay: with nothing to start the process exits.
NextStartDelay(p) ==
    /\ IsCoordinator(p, "delay")
    /\ procs' = Goto(p, IF \E w \in DOMAIN slots :
                             /\ DatabaseOf[w] = procs[p].db
                             /\ W!RestartDelay(slots[w]) # "never"
                          THEN "sleep" ELSE "exit0")
    /\ UNCHANGED <<shared, supervisor, catalog, clients, history>>

\* Signalled, or the delay ran out.
CoordinatorWakes(p) ==
    /\ IsCoordinator(p, "sleep")
    /\ procs' = Goto(p, "top")
    /\ UNCHANGED <<shared, supervisor, catalog, clients, history>>

\* A catalog transaction of the coordinator raises an error.
CoordinatorError(p) ==
    /\ procs[p].kind = "coordinator" /\ procs[p].pc \in {"lock", "load"}
    /\ FaultsLeft
    /\ left' = AFault
    /\ procs' = Goto(p, "exit1")
    /\ UNCHANGED <<shared, supervisor, catalog, clients, used, wanted, oneShot, lost>>

CoordinatorExit(p) ==
    /\ procs[p].kind = "coordinator" /\ procs[p].pc \in {"exit0", "exit1"}
    /\ LET d == procs[p].db
       IN  coords' = IF d \in DOMAIN coords
                       THEN [coords EXCEPT
                               ![d] = C!ConfirmStopped(@, procs[p].pc = "exit0")]
                       ELSE coords
    /\ procs' = Ended(procs, p)
    /\ UNCHANGED <<slots, rescan, supervisor, catalog, clients, history>>

(***************************************************************************)
(* The extension worker (extension.rs, store/worker.rs).                   *)
(***************************************************************************)
IsWorker(p, pc) == procs[p].kind = "worker" /\ procs[p].pc = pc

\* validate_worker
MayContinue(w) ==
    w \in DOMAIN slots /\ W!HasActiveProcess(slots[w]) /\ ~slots[w].stop

BeginWorker(p) ==
    /\ IsWorker(p, "forked")
    /\ LET w == procs[p].key
           runs == w \in DOMAIN slots /\ W!MayRun(slots[w])
       IN  /\ slots' = IF w \in DOMAIN slots
                         THEN [slots EXCEPT ![w] = W!MarkRunning(@, p)] ELSE slots
           /\ procs' = Goto(p, IF ~runs THEN "exit0"
                              ELSE IF procs[p].db \in live THEN "prepare" ELSE "exit1")
    /\ UNCHANGED <<coords, rescan, supervisor, catalog, clients, history>>

\* Faulty variant: without the second look at the registration.
PrepareFromSlot(p) ==
    /\ IsWorker(p, "prepare")
    /\ procs' = Goto(p, IF MayContinue(procs[p].key) THEN "call" ELSE "exit0")
    /\ UNCHANGED <<shared, supervisor, catalog, clients, history>>

\* The preparation transaction looks the registration up again; when it has
\* gone the worker takes its own entry down.
PrepareWorker(p) ==
    /\ IsWorker(p, "prepare")
    /\ LET w == procs[p].key
           missing == MayContinue(w) /\ w \notin rows
       IN  /\ procs' = Goto(p, IF MayContinue(w) /\ ~missing THEN "call" ELSE "exit0")
           /\ slots' = IF missing THEN [slots EXCEPT ![w] = W!MarkRemoving(@)] ELSE slots
    /\ UNCHANGED <<coords, rescan, supervisor, catalog, clients, history>>

PreparationFails(p) ==
    /\ IsWorker(p, "prepare")
    /\ FaultsLeft
    /\ left' = AFault
    /\ procs' = Goto(p, "exit1")
    /\ UNCHANGED <<shared, supervisor, catalog, clients, used, wanted, oneShot, lost>>

\* Faulty variant: without the last look at the stop gate.
CallUnchecked(p) ==
    /\ IsWorker(p, "call")
    /\ procs' = Goto(p, "running")
    /\ wanted' = wanted \ {procs[p].key}
    /\ UNCHANGED <<shared, supervisor, catalog, clients, used, left, oneShot, lost>>

CallEntryPoint(p) ==
    /\ IsWorker(p, "call")
    /\ LET calls == MayContinue(procs[p].key)
       IN  /\ procs' = Goto(p, IF calls THEN "running" ELSE "exit0")
           /\ wanted' = IF calls THEN wanted \ {procs[p].key} ELSE wanted
    /\ UNCHANGED <<shared, supervisor, catalog, clients, used, left, oneShot, lost>>

\* The entry point commits the deletion of its own registration.
DeregisterSelf(p) ==
    /\ IsWorker(p, "running")
    /\ LET w == procs[p].key
       IN  /\ w \in rows
           /\ ~RowLocked(w)
           /\ rows' = rows \ {w}
           /\ wanted' = wanted \ {w}
           /\ oneShot' = oneShot \cup {w}
    /\ UNCHANGED <<shared, supervisor, procs, runtime, live, clients, used, left, lost>>

\* Returning from the entry point publishes the schedule it asks for.
CompleteWorker(p, result) ==
    /\ IsWorker(p, "running")
    /\ LET w == procs[p].key
       IN  IF w \notin DOMAIN slots
             THEN UNCHANGED <<shared, wanted>>
             ELSE /\ slots' = [slots EXCEPT ![w] = W!CompleteRun(@, result)]
                  /\ IF result = "idle"
                       THEN UNCHANGED <<coords, rescan, wanted>>
                       ELSE /\ RequestCoordination(procs[p].db)
                            /\ wanted' = wanted \cup ({w} \cap rows)
    /\ procs' = Goto(p, "exit0")
    /\ UNCHANGED <<supervisor, catalog, clients, used, left, oneShot, lost>>

\* The entry point fails.
WorkerCrash(p) ==
    /\ IsWorker(p, "running")
    /\ FaultsLeft
    /\ left' = AFault
    /\ procs' = Goto(p, "exit1")
    /\ wanted' = wanted \cup ({procs[p].key} \cap rows)
    /\ UNCHANGED <<shared, supervisor, catalog, clients, used, oneShot, lost>>

\* The exit callback settles the slot ...
WorkerExit(p) ==
    /\ procs[p].kind = "worker" /\ procs[p].pc \in {"exit0", "exit1"}
    /\ LET w == procs[p].key
       IN  IF w \notin DOMAIN slots
             THEN slots' = slots /\ procs' = Ended(procs, p)
             ELSE \E healthy \in BOOLEAN :
                    LET stopped == W!ConfirmStopped(slots[w], procs[p].pc = "exit0",
                                                    healthy)
                    IN  /\ slots' = IF /\ stopped.disposition # "stale"
                                       /\ slots[w].registration = "removing"
                                      THEN Restrict(slots, DOMAIN slots \ {w})
                                      ELSE [slots EXCEPT ![w] = stopped.slot]
                        /\ procs' = IF stopped.disposition = "reconcile"
                                      THEN Goto(p, "publish") ELSE Ended(procs, p)
    /\ UNCHANGED <<coords, rescan, supervisor, catalog, clients, history>>

\* Faulty variant: without the request.
PublishNothing(p) ==
    /\ IsWorker(p, "publish")
    /\ procs' = Ended(procs, p)
    /\ UNCHANGED <<shared, supervisor, catalog, clients, history>>

\* ... and asks for a reconciliation in a critical section of its own.
PublishExit(p) ==
    /\ IsWorker(p, "publish")
    /\ RequestCoordination(procs[p].db)
    /\ procs' = Ended(procs, p)
    /\ UNCHANGED <<slots, supervisor, catalog, clients, history>>

(***************************************************************************)
(* The supervisor (supervisor.rs, scheduler.rs, store/mod.rs).             *)
(***************************************************************************)
Looping(pc) == [pc |-> pc, explicit |-> FALSE, attempts |-> 0, child |-> NoPid]

SupervisorAt(pc) == sup.pc = pc

\* Faulty variant: does not check for a database that is already queued.
EnqueueTwice(sched, queue, dbs) ==
    LET known == dbs \cap DOMAIN sched
    IN  /\ schedule' = [d \in DOMAIN sched |->
                          IF d \in known THEN "pending" ELSE sched[d]]
        /\ \E order \in SetToSeqs(known) : pending' = queue \o order

\* Scheduler::enqueue for every database of a set, in any order; it knows only
\* the candidates of the last scan.
Enqueue(sched, queue, dbs) ==
    LET fresh == {d \in dbs \cap DOMAIN sched : sched[d] = "idle"}
    IN  /\ schedule' = [d \in DOMAIN sched |->
                          IF d \in fresh THEN "pending" ELSE sched[d]]
        /\ \E order \in SetToSeqs(fresh) : pending' = queue \o order

PromoteDueRetries ==
    LET due == {d \in DOMAIN schedule : schedule[d] = "retry_due"}
    IN  /\ schedule' = [d \in DOMAIN schedule |->
                          IF d \in due THEN "pending" ELSE schedule[d]]
        /\ \E order \in SetToSeqs(due) : pending' = pending \o order

WorkerDatabases == {DatabaseOf[w] : w \in DOMAIN slots}

ClaimSupervisor ==
    /\ SupervisorAt("down")
    /\ rescan' = TRUE
    /\ sup' = Looping("top")
    /\ UNCHANGED <<slots, coords, schedule, pending, procs, catalog, clients, history>>

\* take_full_scan_request: the request is taken before the databases are read.
SupervisorTop ==
    /\ SupervisorAt("top")
    /\ PromoteDueRetries
    /\ rescan' = FALSE
    /\ sup' = [Looping(IF rescan THEN "scan" ELSE "requested") EXCEPT !.explicit = rescan]
    /\ UNCHANGED <<slots, coords, procs, catalog, clients, history>>

\* The same with reconcile_interval elapsed and nobody asking.
IntervalElapsed ==
    /\ SupervisorAt("top") /\ ~rescan
    /\ PromoteDueRetries
    /\ sup' = Looping("scan")
    /\ UNCHANGED <<shared, procs, catalog, clients, history>>

\* scan_databases, Scheduler::reconcile_live, the enqueueing, and
\* remove_dropped_databases.
ReconcileDatabaseList ==
    /\ SupervisorAt("scan")
    /\ LET known == [d \in live |-> IF d \in DOMAIN schedule THEN schedule[d] ELSE "idle"]
           queue == SelectSeq(pending, LAMBDA d : d \in live)
           found == live \ DOMAIN schedule
       IN  Enqueue(known, queue,
                   IF sup.explicit THEN live ELSE (WorkerDatabases \cap live) \cup found)
    /\ coords' = [d \in {e \in DOMAIN coords : e \in live \/ C!IsActive(coords[e])} |->
                    IF d \in live THEN coords[d] ELSE C!RequestStop(coords[d])]
    /\ slots' = Swept({w \in Workers : DatabaseOf[w] \notin live})
    /\ sup' = Looping("requested")
    /\ UNCHANGED <<rescan, procs, catalog, clients, history>>

ScanFails ==
    /\ SupervisorAt("scan")
    /\ FaultsLeft
    /\ left' = AFault
    /\ Enqueue(schedule, pending, WorkerDatabases)
    /\ rescan' = TRUE
    /\ sup' = Looping("requested")
    /\ UNCHANGED <<slots, coords, procs, catalog, clients, used, wanted, oneShot, lost>>

\* With nothing queued the supervisor sleeps, for at most supervisor_naptime,
\* and goes round again.
RequestedDatabases ==
    /\ SupervisorAt("requested")
    /\ Enqueue(schedule, pending,
               {d \in DOMAIN coords : coords[d].needsRestart
                                      /\ coords[d].process = "stopped"})
    /\ sup' = [Looping(IF pending' = <<>> THEN "top" ELSE "start")
                 EXCEPT !.attempts = Len(pending')]
    /\ UNCHANGED <<shared, procs, catalog, clients, history>>

\* start_pending_coordinators tries each database queued at its start once.
NextAttempt(queue) ==
    sup' = IF sup.attempts = 1 \/ queue = <<>>
             THEN Looping("top")
             ELSE [Looping("start") EXCEPT !.attempts = sup.attempts - 1]

Requeue(d, state) == schedule' = [schedule EXCEPT ![d] = state]

\* pop_front, then try_acquire_shared fails: a DROP owns the database.
DeferCoordinator ==
    /\ SupervisorAt("start")
    /\ ~LifecycleLockFree("shared", Head(pending))
    /\ pending' = Append(Tail(pending), Head(pending))
    /\ Requeue(Head(pending), "pending")
    /\ NextAttempt(pending')
    /\ UNCHANGED <<shared, procs, catalog, clients, history>>

NeedsCoordinator(d) ==
    d \in DOMAIN coords => ~C!IsActive(coords[d]) /\ coords[d].needsRestart

\* register_coordinator: it is already there, or nobody has asked for it.
SkipCoordinator ==
    /\ SupervisorAt("start")
    /\ LifecycleLockFree("shared", Head(pending))
    /\ ~NeedsCoordinator(Head(pending))
    /\ pending' = Tail(pending)
    /\ Requeue(Head(pending), "idle")
    /\ NextAttempt(pending')
    /\ UNCHANGED <<shared, procs, catalog, clients, history>>

CoordinatorEntry(d) == IF d \in DOMAIN coords THEN coords[d] ELSE C!New

WithCoordinator(d, slot) ==
    [e \in DOMAIN coords \cup {d} |-> IF e = d THEN slot ELSE coords[e]]

\* The lifecycle lock stays with the supervisor until the process has come up.
RegisterCoordinator ==
    /\ SupervisorAt("start")
    /\ LET d == Head(pending)
       IN  /\ LifecycleLockFree("shared", d)
           /\ NeedsCoordinator(d)
           /\ coords' = WithCoordinator(d, C!Reserve(C!RequestRestart(CoordinatorEntry(d))))
           /\ Requeue(d, "idle")
           /\ \E q \in FreePids :
                /\ procs' = [procs EXCEPT ![q] = Coordinator(d)]
                /\ sup' = [sup EXCEPT !.pc = "await", !.child = q]
    /\ pending' = Tail(pending)
    /\ UNCHANGED <<slots, rescan, catalog, clients, history>>

\* A failure ends the pass: the other databases keep their places.
RegisterCoordinatorFails ==
    /\ SupervisorAt("start")
    /\ FreePids = {} \/ FaultsLeft
    /\ left' = IF FreePids = {} THEN left ELSE AFault
    /\ LET d == Head(pending)
       IN  /\ LifecycleLockFree("shared", d)
           /\ NeedsCoordinator(d)
           /\ coords' = WithCoordinator(d, C!RequestRestart(CoordinatorEntry(d)))
           /\ Requeue(d, "retry_later")
    /\ pending' = Tail(pending)
    /\ sup' = Looping("top")
    /\ UNCHANGED <<slots, rescan, procs, catalog, clients, used, wanted, oneShot, lost>>

CoordinatorStarted ==
    /\ SupervisorAt("await")
    /\ procs[sup.child].pc \notin {"registered", "gone"}
    /\ NextAttempt(pending)
    /\ UNCHANGED <<shared, schedule, pending, procs, catalog, clients, history>>

CoordinatorDidNotStart ==
    /\ SupervisorAt("await")
    /\ procs[sup.child].pc = "gone"
    /\ LET d == procs[sup.child].db
       IN  /\ coords' = IF d \in DOMAIN coords /\ C!IsActive(coords[d])
                          THEN [coords EXCEPT ![d] = C!ResetAfterRegistrationFailure(@)]
                          ELSE coords
           /\ Requeue(d, "retry_later")
    /\ procs' = [procs EXCEPT ![sup.child] = Free]
    /\ sup' = Looping("top")
    /\ UNCHANGED <<slots, rescan, pending, catalog, clients, history>>

\* The postmaster restarts it; its scheduler starts empty.
SupervisorCrash ==
    /\ ~SupervisorAt("down")
    /\ FaultsLeft
    /\ left' = AFault
    /\ sup' = Looping("down")
    /\ schedule' = <<>> /\ pending' = <<>>
    /\ procs' = IF SupervisorAt("await") /\ procs[sup.child].pc = "gone"
                  THEN [procs EXCEPT ![sup.child] = Free] ELSE procs
    /\ UNCHANGED <<shared, catalog, clients, used, wanted, oneShot, lost>>

(***************************************************************************)
(* Time.                                                                   *)
(***************************************************************************)
RestartDue(w) ==
    /\ w \in DOMAIN slots /\ slots[w].restartAfter = "future"
    /\ slots' = [slots EXCEPT ![w].restartAfter = "past"]
    /\ UNCHANGED <<coords, rescan, supervisor, procs, catalog, clients, history>>

RetryDue(d) ==
    /\ d \in DOMAIN schedule /\ schedule[d] = "retry_later"
    /\ Requeue(d, "retry_due")
    /\ UNCHANGED <<shared, sup, pending, procs, catalog, clients, history>>

(***************************************************************************)
(* Lifecycle transactions (sql_api.rs, lifecycle.rs, store/control.rs).    *)
(* A statement runs when its locks are granted; what it stages is applied  *)
(* when the transaction ends.                                              *)
(***************************************************************************)
Open(c, op, d, ws) ==
    /\ op \in left.ops /\ TxnsLeft
    /\ clients[c].pc = "idle"
    /\ clients' = [clients EXCEPT ![c] =
                     [pc |-> "open", op |-> op, db |-> d, workers |-> ws, ok |-> FALSE]]
    /\ left' = [left EXCEPT !.txns = @ - 1]
    /\ UNCHANGED <<rescan, supervisor, catalog, oneShot, lost>>

\* Stops the entries of ws that have a process, for the time being, and takes
\* the authority of the database's coordinator, whose successor will look.
\* pids are the processes that get SIGTERM besides the workers.
StopWorkers(d, ws, pids) ==
    LET active == {w \in ws : W!HasActiveProcess(slots[w])}
    IN  /\ slots' = [w \in DOMAIN slots |->
                       IF w \in ws THEN W!PrepareTransactionalStop(slots[w]).slot
                                   ELSE slots[w]]
        /\ coords' = IF d \in DOMAIN coords
                       THEN [coords EXCEPT ![d] = C!RequestHandoff(@)] ELSE coords
        /\ procs' = Terminate(procs, ({slots[w].pid : w \in active} \cup pids) \ {NoPid})
        /\ wanted' = wanted \cup (active \cap rows)

RegisterWorker(c, w) ==
    /\ w \notin used
    /\ DatabaseOf[w] \in runtime \cap live
    /\ LifecycleLockFree("shared", DatabaseOf[w])
    /\ Open(c, "register", DatabaseOf[w], {w})
    /\ used' = used \cup {w}
    /\ UNCHANGED <<slots, coords, procs, wanted>>

\* The worker is stopped before the outcome of the transaction is known.  The
\* coordinator is only signalled: it is not a DROP.
DeregisterWorker(c, w) ==
    /\ w \in rows /\ ~RowLocked(w)
    /\ LifecycleLockFree("shared", DatabaseOf[w])
    /\ Open(c, "deregister", DatabaseOf[w], {w})
    /\ StopWorkers(DatabaseOf[w], {w} \cap DOMAIN slots, {})
    /\ UNCHANGED used

RequestWorkerWakeup(c, w) ==
    /\ w \in rows
    /\ Open(c, "wake", DatabaseOf[w], {w})
    /\ UNCHANGED <<slots, coords, procs, used, wanted>>

AlterDatabaseSet(c, d) ==
    /\ d \in live
    /\ Open(c, "alter_database", d, OfDatabase(d))
    /\ UNCHANGED <<slots, coords, procs, used, wanted>>

CoordinatorPid(d) == IF d \in DOMAIN coords THEN {coords[d].pid} ELSE {}

\* drop_extension_workers for an extension with registrations.
DropExtension(c, d, e) ==
    LET ws == {w \in rows \cap OfDatabase(d) : ExtensionOf[w] = e}
    IN  /\ d \in live /\ ws # {}
        /\ \A w \in ws : ~RowLocked(w)
        /\ LifecycleLockFree("drop", d)
        /\ Open(c, "drop_extension", d, ws)
        /\ StopWorkers(d, {w \in DOMAIN slots \cap OfDatabase(d) : ExtensionOf[w] = e},
                       CoordinatorPid(d))
        /\ UNCHANGED used

\* DROP EXTENSION lagodb_base and DROP DATABASE stop everything in the database.
DropAll(c, op, d) ==
    /\ d \in live /\ (op = "drop_runtime" => d \in runtime)
    /\ \A w \in rows \cap OfDatabase(d) : ~RowLocked(w)
    /\ LifecycleLockFree("drop", d)
    /\ Open(c, op, d, OfDatabase(d))
    /\ StopWorkers(d, DOMAIN slots \cap OfDatabase(d), CoordinatorPid(d))
    /\ UNCHANGED used

\* DROP DATABASE fails while anyone is connected to it.
Connected(d) ==
    \/ \E p \in Pids : /\ procs[p].kind # "free" /\ procs[p].db = d
                       /\ procs[p].pc \notin {"registered", "forked", "gone"}
    \/ \E c \in Clients : /\ clients[c].pc # "idle" /\ clients[c].db = d
                          /\ clients[c].op # "drop_database"

Commit(c) ==
    /\ clients[c].pc = "open"
    /\ LET t == clients[c]
       IN  /\ t.op = "drop_database" => ~Connected(t.db)
           /\ rows' = CASE t.op = "register" -> rows \cup t.workers
                        [] t.op = "deregister" \/ t.op \in Dropping -> rows \ t.workers
                        [] t.op \in {"wake", "alter_database"} -> rows
           /\ runtime' = IF t.op = "drop_runtime" THEN runtime \ {t.db} ELSE runtime
           /\ live' = IF t.op = "drop_database" THEN live \ {t.db} ELSE live
           /\ wanted' = rows' \cap
                        (IF t.op \in {"register", "wake", "alter_database"}
                           THEN wanted \cup t.workers ELSE wanted)
    /\ clients' = [clients EXCEPT ![c].pc = "ended", ![c].ok = TRUE]
    /\ UNCHANGED <<shared, supervisor, procs, used, left, oneShot, lost>>

Abort(c) ==
    /\ clients[c].pc = "open"
    /\ clients' = [clients EXCEPT ![c].pc = "ended"]
    /\ UNCHANGED <<shared, supervisor, procs, catalog, history>>

\* PendingAction::apply in the end-of-transaction callback, before the locks
\* are released.
ApplyPendingAction(c) ==
    /\ clients[c].pc = "ended"
    /\ LET t == clients[c]
           wakes == t.op \in {"wake", "alter_database"}
       IN  /\ slots' = IF wakes /\ t.ok
                         THEN [w \in DOMAIN slots |->
                                 IF w \in t.workers THEN W!RequestWakeup(slots[w])
                                                    ELSE slots[w]]
                         ELSE slots
           /\ CASE wakes /\ ~t.ok -> UNCHANGED <<coords, rescan>>
                [] t.op = "drop_database" /\ t.ok -> rescan' = TRUE /\ UNCHANGED coords
                [] t.op = "drop_database" /\ ~t.ok ->
                     /\ rescan' = TRUE
                     /\ coords' = IF t.db \in DOMAIN coords
                                    THEN [coords EXCEPT ![t.db] = C!RequestRestart(@)]
                                    ELSE coords
                [] t.op # "drop_database" /\ (wakes => t.ok) -> RequestCoordination(t.db)
    /\ clients' = [clients EXCEPT ![c] = Idle]
    /\ UNCHANGED <<supervisor, procs, catalog, history>>

----------------------------------------------------------------------------
\* A started server: nothing in shared memory, any registrations on disk.
Init ==
    /\ slots = <<>> /\ coords = <<>> /\ rescan = TRUE
    /\ sup = Looping("down") /\ schedule = <<>> /\ pending = <<>>
    /\ procs = [p \in Pids |-> Free]
    /\ rows \in SUBSET Workers /\ runtime = Databases /\ live = Databases
    /\ clients = [c \in Clients |-> Idle]
    /\ used = rows /\ left \in Workloads /\ wanted = rows /\ oneShot = {} /\ lost = {}

CoordinatorStep(p) ==
    \/ BeginCoordinator(p) \/ CoordinatorTop(p) \/ CheckRuntimeCatalog(p)
    \/ LoadRegistrations(p) \/ ReconcileRegistrations(p) \/ ClearDatabaseWorkers(p)
    \/ RegisterReadyWorker(p) \/ RegisterWorkerFails(p) \/ NoReadyWorker(p)
    \/ WorkerStarted(p) \/ WorkerDidNotStart(p) \/ NextStartDelay(p)
    \/ CoordinatorWakes(p) \/ CoordinatorExit(p)

WorkerReturns(p) ==
    \E result \in {"idle", "run_immediately", "run_after"} : CompleteWorker(p, result)

WorkerStep(p) ==
    \/ BeginWorker(p) \/ PrepareWorker(p) \/ CallEntryPoint(p) \/ WorkerReturns(p)
    \/ WorkerExit(p) \/ PublishExit(p)

SupervisorStep ==
    \/ ClaimSupervisor \/ SupervisorTop \/ ReconcileDatabaseList \/ RequestedDatabases
    \/ DeferCoordinator \/ SkipCoordinator \/ RegisterCoordinator
    \/ RegisterCoordinatorFails \/ CoordinatorStarted \/ CoordinatorDidNotStart

Begin(c) ==
    \/ \E w \in Workers : \/ RegisterWorker(c, w) \/ DeregisterWorker(c, w)
                          \/ RequestWorkerWakeup(c, w)
    \/ \E d \in Databases : \/ AlterDatabaseSet(c, d)
                            \/ \E e \in Extensions : DropExtension(c, d, e)
                            \/ DropAll(c, "drop_runtime", d)
                            \/ DropAll(c, "drop_database", d)

Fault ==
    \/ \E p \in Pids : \/ ForkFails(p) \/ CoordinatorError(p) \/ PreparationFails(p)
                       \/ WorkerCrash(p)
    \/ ScanFails \/ SupervisorCrash

Next ==
    \/ \E p \in Pids : \/ Fork(p) \/ TermExit(p) \/ CoordinatorStep(p) \/ WorkerStep(p)
                       \/ DeregisterSelf(p)
    \/ SupervisorStep \/ IntervalElapsed
    \/ \E c \in Clients : Begin(c) \/ Commit(c) \/ Abort(c) \/ ApplyPendingAction(c)
    \/ \E w \in Workers : RestartDue(w)
    \/ \E d \in Databases : RetryDue(d)
    \/ Fault

Spec == Init /\ [][Next]_vars

----------------------------------------------------------------------------
(***************************************************************************)
(* Properties.                                                             *)
(***************************************************************************)
\* Shared memory, the processes and the scheduler hold what their types allow:
\* pids in the slots are pids of processes, and the queue of the supervisor
\* lists each pending database once.
TypeOK ==
    /\ DOMAIN slots \subseteq Workers
    /\ \A w \in DOMAIN slots : slots[w] \in W!Slot(Pids)
    /\ DOMAIN coords \subseteq Databases
    /\ \A d \in DOMAIN coords : coords[d] \in C!Slot(Pids)
    /\ \A p \in Pids : procs[p] \in Process
    /\ DOMAIN schedule \subseteq Databases
    /\ \A d \in DOMAIN schedule :
         schedule[d] \in {"idle", "pending", "retry_later", "retry_due"}
    /\ IsInjective(pending)
    /\ ToSet(pending) = {d \in DOMAIN schedule : schedule[d] = "pending"}

\* Shared memory and the processes agree, whatever stops, drops, failed forks and
\* late startups race with them.  A worker never runs twice at the same time and a
\* database never has two coordinators.  An active entry has a process, or a launcher
\* that has yet to learn that there is none (worker_registration_failed).  The one
\* exception is an entry left at Starting by a failed fork whose launcher a DROP had
\* terminated, the case that StoppedInvocationWillExit is about.  A process past its
\* begin call is found under its pid until its exit callback, so that a DROP's
\* SIGTERM reaches it (prepare_drop_database, prepare_drop_extension).
EntriesMatchProcesses ==
    /\ \A p, q \in Pids :
         /\ {procs[p].kind, procs[q].kind} # {"free"}
         /\ procs[p].kind = procs[q].kind
         /\ procs[p].db = procs[q].db
         /\ procs[p].kind = "worker" => procs[p].key = procs[q].key
         /\ {procs[p].pc, procs[q].pc} \cap {"gone", "publish"} = {}
         => p = q
    /\ \A w \in DOMAIN slots : W!HasActiveProcess(slots[w]) =>
         \/ \E p \in Pids : procs[p].kind = "worker" /\ procs[p].key = w
         \/ w \in lost /\ slots[w].process = "starting" /\ slots[w].pid = NoPid
    /\ \A d \in DOMAIN coords : C!IsActive(coords[d]) =>
         \E p \in Pids : procs[p].kind = "coordinator" /\ procs[p].db = d
    /\ \A p \in Pids :
         /\ (procs[p].kind = "worker" /\ procs[p].pc \in {"prepare", "call", "running"})
              => procs[p].key \in DOMAIN slots /\ slots[procs[p].key].pid = p
         /\ (/\ procs[p].kind = "coordinator"
             /\ procs[p].pc \notin {"registered", "forked", "exit0", "exit1", "gone"})
              => procs[p].db \in DOMAIN coords /\ coords[procs[p].db].pid = p

Removes(c, w) ==
    /\ clients[c].pc # "idle"
    /\ clients[c].op \in Dropping \cup {"deregister"}
    /\ w \in clients[c].workers

Enters(w) ==
    \E p \in Pids : /\ IsWorker(p, "call") /\ procs[p].key = w
                    /\ procs[p]' = [procs[p] EXCEPT !.pc = "running"]

\* From the statement that removes a worker to the end of its transaction the
\* worker's entry point is not called: neither the process that was already
\* starting, nor a coordinator with an older snapshot of the registrations,
\* nor a coordinator started meanwhile, gets past the stop gate, the handoff
\* and the lifecycle lock.
NoEntryWhileRemovalIsOpen ==
    [][\A w \in Workers : Enters(w) => ~ \E c \in Clients : Removes(c, w)]_vars

\* An entry point is called only for a committed registration: a launch from
\* an old snapshot or an old slot is caught by the worker's own lookup, and a
\* worker that committed its own deregistration is never entered again
\* ("a commit makes the invocation one-shot", WorkerContext::deregister_self).
OnlyRegisteredWorkersEnter ==
    [][\A w \in Workers : Enters(w) => w \in rows /\ w \notin oneShot]_vars

\* The comment in Slot::reconcile_present on an entry it leaves stopped: "Keep
\* the stop gate closed until the old invocation has physically exited; its
\* exit callback will request another catalog reconciliation."  A DROP that
\* ends the waiting coordinator, followed by a failed fork, leaves an entry
\* that no callback will ever settle.
StoppedInvocationWillExit ==
    \A w \in DOMAIN slots :
        slots[w].stop /\ W!HasActiveProcess(slots[w]) =>
            \E p \in Pids : procs[p].kind = "worker" /\ procs[p].key = w

----------------------------------------------------------------------------
Fairness ==
    /\ \A p \in Pids : /\ WF_vars(Fork(p))
                       /\ WF_vars(TermExit(p))
                       /\ WF_vars(CoordinatorStep(p))
                       /\ WF_vars(WorkerStep(p))
    /\ WF_vars(SupervisorStep)
    /\ \A c \in Clients : /\ WF_vars(Commit(c) \/ Abort(c))
                          /\ WF_vars(ApplyPendingAction(c))
    /\ \A w \in Workers : WF_vars(RestartDue(w))
    /\ \A d \in Databases : WF_vars(RetryDue(d))

FairSpec == Spec /\ Fairness

\* A promised run takes place: a registration, a wake-up, a schedule returned
\* by the entry point, a crash, or a stop that was rolled back is followed by
\* a call of the entry point, unless the registration goes away first.  No
\* request falls between a coordinator that is about to exit and its
\* successor, and none depends on the periodic scan.
PromisedRunsHappen ==
    \A w \in Workers : []<>(w \notin wanted)

\* The entry of a worker that a transaction removed goes away: its process is
\* stopped and somebody sweeps the table after it.
RemovedEntriesGoAway ==
    \A w \in Workers :
        (w \in DOMAIN slots /\ w \notin rows \cup oneShot) ~> w \notin DOMAIN slots
=============================================================================
