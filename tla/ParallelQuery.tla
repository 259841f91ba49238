---------------------------- MODULE ParallelQuery ----------------------------
(***************************************************************************)
(* The execution of one offloaded query: preparation, runs and rescans of  *)
(* lagodb-query/src/datafusion/execution/state, the leader's side of a     *)
(* parallel run (parallel/run.rs, parallel/lifecycle.rs), the owner of the *)
(* PostgreSQL parallel context with its activation gate                    *)
(* (lagodb-base/src/query_host/parallel), and the workers up to the end of *)
(* their entry point.                                                      *)
(*                                                                         *)
(* What plans compute is left out: a plan is its kind, whether its sources *)
(* are still there, how often it ran, and the parameter values it was      *)
(* compiled for.  A stream may end at any time (LIMIT), also before a      *)
(* worker has entered the extension.  PostgreSQL's own part (start and     *)
(* attach of workers, condition variable, abort) follows how the code uses *)
(* it.                                                                     *)
(***************************************************************************)
EXTENDS Integers

CONSTANTS
  Producers,   \* the workers a launch asks for, 1..n
  Workloads    \* budgets of rescans, errors and faults

VARIABLES
  stmt,     \* the statement: QueryExecutionCell, RunState and the prepared plan
  lead,     \* where the leader is, "idle" between two executor callbacks
  pg,       \* the leader backend: parallel context, its mapping, parallel mode level
  group,    \* PgParallelWorkers and the ParallelRun that owns it
  control,  \* SharedControl and what is initialized of the region
  worker,   \* where each worker is
  waiting,  \* the wait list of activation_cv
  left,
  touched   \* history: the leader used its mapping after PostgreSQL removed it

vars == <<stmt, lead, pg, group, control, worker, waiting, left, touched>>
process == <<worker, waiting>>

Region == {"transport", "inventory"}
NoPlan == [kind |-> "none", sources |-> FALSE, runs |-> 0, values |-> 0]
NoGroup == [owner |-> "none", watched |-> FALSE, mesh |-> FALSE]
NewControl == [gate |-> "wait", sized |-> FALSE, region |-> {}]
NoContext == [open |-> FALSE, mapped |-> FALSE, level |-> 0]

Spend(what) == left[what] > 0 /\ left' = [left EXCEPT ![what] = @ - 1]

Init ==
  /\ stmt = [phase |-> "pending", plan |-> NoPlan, params |-> 0, values |-> 0,
             rebind |-> FALSE, rebuild |-> FALSE]
  /\ lead = "idle" /\ pg = NoContext /\ group = NoGroup /\ control = NewControl
  /\ worker = [w \in Producers |-> "none"] /\ waiting = {}
  /\ left \in Workloads /\ touched = FALSE

-----------------------------------------------------------------------------
(* The plan.                                                                *)

\* A parallel plan holds the sources its compilation prepared.  Serial plans with
\* dynamic filters ("filtered") cannot be reset.
Compiled(kind, v) == [kind |-> kind, sources |-> kind = "parallel", runs |-> 0, values |-> v]

\* PreparedPhysicalPlan::prepare: parallel if the host, the plan and every
\* provider allow it.
Plans(v) == {Compiled(k, v) : k \in {"serial", "filtered", "parallel"}}

SerialPlans(v) == {Compiled(k, v) : k \in {"serial", "filtered"}}

\* Rebind the runtime values if they changed, and compile again; or reset an
\* executed serial plan.
RebuildPlan(s) ==
  LET v == IF s.rebind THEN s.params ELSE s.values
  IN  IF s.rebind \/ s.rebuild
      THEN {[s EXCEPT !.plan = p, !.values = v, !.rebind = FALSE, !.rebuild = FALSE] :
              p \in Plans(v)}
      ELSE {[s EXCEPT !.plan.runs = IF s.plan.kind = "parallel" THEN @ ELSE 0]}

\* The plan is executed: a run exists.
Executed(s) == [s EXCEPT !.phase = "running", !.plan.runs = @ + 1]

\* After a run, a plan with execute-once state is compiled again.
\* Faulty variant: only dynamic filters count.
ConsumedFilters(s) == [s EXCEPT !.rebuild = @ \/ s.plan.kind = "filtered"]

Consumed(s) == [s EXCEPT !.rebuild = @ \/ s.plan.kind \in {"parallel", "filtered"}]

-----------------------------------------------------------------------------
(* The activation gate.                                                     *)

\* compare_exchange from WAIT, and the broadcast if that succeeds.
AbortActivation ==
  /\ control' = [control EXCEPT !.gate = IF @ = "wait" THEN "abort" ELSE @]
  /\ waiting' = IF control.gate = "wait" THEN {} ELSE waiting

\* context_alive: the detach callback of the mapping has not run.
ContextAlive == ~group.watched \/ pg.mapped

\* The wrapper forgets the context; PostgreSQL's abort destroys it.  The transport
\* is dropped first, and stays off a mapping its mesh knows to be detached.
Abandon ==
  /\ IF ContextAlive THEN AbortActivation ELSE UNCHANGED <<control, waiting>>
  /\ group' = NoGroup
  /\ touched' = (touched \/ (~pg.mapped /\ (ContextAlive \/ ~group.mesh)))

\* DestroyParallelContext and ExitParallelMode.  The run remains, Finished.
Destroy ==
  /\ pg' = [open |-> FALSE, mapped |-> FALSE, level |-> pg.level - 1]
  /\ group' = [NoGroup EXCEPT !.owner = IF group.owner = "run" THEN "finished" ELSE "none"]

-----------------------------------------------------------------------------
(* Executor callbacks and the start of a run.                               *)

Fail == lead' = "erring"

\* first_exec, up to the first row: the pending binding is consumed, also when
\* preparation fails.
Start ==
  /\ lead = "idle" /\ stmt.phase = "pending"
  /\ \/ \E p \in Plans(stmt.params) :
          stmt' = [stmt EXCEPT !.phase = "ready", !.plan = p, !.values = stmt.params]
        /\ UNCHANGED <<lead, left>>
     \/ Spend("errors") /\ Fail /\ stmt' = [stmt EXCEPT !.phase = "released"]
  /\ UNCHANGED <<pg, group, control, process, touched>>

Ready == lead = "idle" /\ stmt.phase = "ready"

StartSerial ==
  /\ Ready
  /\ \E s \in RebuildPlan(stmt) : s.plan.kind # "parallel" /\ stmt' = Executed(s)
  /\ group' = IF stmt.rebind \/ stmt.rebuild THEN NoGroup ELSE group
  /\ UNCHANGED <<lead, pg, control, process, left, touched>>

\* The worker limit has dropped below two, or there is no shared memory segment:
\* no group, and a serial plan for the same values.
StartWithoutGroup ==
  /\ Ready
  /\ \E s \in RebuildPlan(stmt) :
       /\ s.plan.kind = "parallel"
       /\ \E p \in SerialPlans(s.values) : stmt' = Executed([s EXCEPT !.plan = p])
  /\ group' = NoGroup
  /\ UNCHANGED <<lead, pg, control, process, left, touched>>

\* ParallelRun::launch up to LaunchParallelWorkers, which may get fewer workers
\* than asked for; before that, entering parallel mode or preparing the segment
\* may fail, and the wrapper is dropped.
LaunchGroup ==
  /\ Ready
  /\ \E s \in RebuildPlan(stmt) :
       /\ s.plan.kind = "parallel"
       /\ stmt' = [s EXCEPT !.plan.sources = FALSE]
       /\ IF s.plan.sources
          THEN /\ pg' = [open |-> TRUE, mapped |-> TRUE, level |-> pg.level + 1]
               /\ control' = NewControl /\ waiting' = {}
               /\ \/ \E n \in {0} \cup Producers :
                       worker' = [w \in Producers |-> IF w <= n THEN "starting" ELSE "none"]
                     /\ group' = [owner |-> "launch", watched |-> TRUE, mesh |-> FALSE]
                     /\ lead' = "attaching" /\ UNCHANGED left
                  \/ /\ Spend("errors") /\ Fail /\ group' = NoGroup
                     /\ worker' = [w \in Producers |-> "none"]
          ELSE Fail /\ group' = NoGroup /\ UNCHANGED <<pg, control, process, left>>
  /\ UNCHANGED touched

Launched == {w \in Producers : worker[w] # "none"}
Ended(w) == worker[w] \in {"exited", "failed", "lost"}

-----------------------------------------------------------------------------
(* The launch, interleaved with the workers.                                *)

AttachFails ==
  /\ lead = "attaching" /\ \A w \in Launched : worker[w] # "starting"
  /\ \E w \in Launched : worker[w] = "lost"
  /\ Fail /\ Abandon
  /\ UNCHANGED <<stmt, pg, worker, left>>

\* Fewer than two: the workers are sent home and waited for.
\* Faulty variant: they are only waited for.
ShortLaunchWaits ==
  /\ lead' = "short" /\ UNCHANGED <<control, waiting>>

ShortLaunch ==
  /\ lead' = "short" /\ AbortActivation

Attach ==
  /\ lead = "attaching" /\ \A w \in Launched : worker[w] \notin {"starting", "lost"}
  /\ IF \E v, w \in Launched : v # w
     THEN lead' = "setup" /\ UNCHANGED <<control, waiting>>
     ELSE ShortLaunch
  /\ UNCHANGED <<stmt, pg, group, worker, left, touched>>

\* leader_setup.
SetUpTransport ==
  /\ lead = "setup" /\ lead' = "writing"
  /\ control' = [control EXCEPT !.region = @ \cup {"transport"}]
  /\ UNCHANGED <<stmt, pg, group, process, left, touched>>

\* The inventory is copied, and the mesh learns when the mapping goes away.
WriteInventory ==
  /\ lead = "writing" /\ lead' = "activating"
  /\ control' = [control EXCEPT !.region = @ \cup {"inventory"}]
  /\ group' = [group EXCEPT !.mesh = TRUE]
  /\ UNCHANGED <<stmt, pg, process, left, touched>>

\* A failure of these steps drops the launch.
LaunchFails ==
  /\ lead \in {"setup", "writing", "activating"} /\ Spend("errors")
  /\ Fail /\ Abandon
  /\ UNCHANGED <<stmt, pg, worker>>

\* The stores of activate.
Activate ==
  /\ lead = "activating" /\ lead' = "broadcasting"
  /\ control' = [control EXCEPT !.gate = "run", !.sized = TRUE]
  /\ UNCHANGED <<stmt, pg, group, process, left, touched>>

\* The broadcast of activate, and execute: the run is installed, or dropped.
Broadcast ==
  /\ lead = "broadcasting"
  /\ \/ /\ lead' = "idle" /\ stmt' = Executed(stmt) /\ waiting' = {}
        /\ group' = [group EXCEPT !.owner = "run"]
        /\ UNCHANGED <<control, left, touched>>
     \/ /\ Spend("errors") /\ Fail /\ UNCHANGED stmt
        /\ waiting' = {} /\ group' = NoGroup /\ UNCHANGED <<control, touched>>
  /\ UNCHANGED <<pg, worker>>

-----------------------------------------------------------------------------
(* The end of a run.                                                        *)

\* ParallelRun::finish up to the wait for the workers.  Interrupt processing may
\* raise a cancellation or the error a worker has reported; it is kept.
Finish(budget) ==
  \/ lead' = "finishing" /\ UNCHANGED worker /\ left' = budget
  \/ /\ lead' = "failing" /\ UNCHANGED worker
     /\ budget.errors > 0 /\ left' = [budget EXCEPT !.errors = @ - 1]
  \/ \E w \in Producers :
       /\ worker[w] = "failed" /\ worker' = [worker EXCEPT ![w] = "exited"]
       /\ lead' = "failing" /\ left' = budget

\* finish_run and close: nothing to do without a parallel run, or after its finish.
FinishRun(budget) ==
  IF group.owner = "run" THEN Finish(budget)
  ELSE /\ lead' = IF stmt'.phase = "released" THEN "over" ELSE "idle"
       /\ UNCHANGED worker /\ left' = budget

\* The last batch: the stream is dropped and the run is finished.
EndOfStream ==
  /\ lead = "idle" /\ stmt.phase = "running"
  /\ stmt' = [stmt EXCEPT !.phase = "exhausted"] /\ FinishRun(left)
  /\ UNCHANGED <<pg, group, control, waiting, touched>>

\* ReScanCustomScan, with or without a changed parameter.  The plan is marked
\* whatever the result of finish.
Rescan ==
  /\ lead = "idle" /\ stmt.phase # "released" /\ left.rescans > 0
  /\ \E changed \in BOOLEAN :
       LET s == [stmt EXCEPT !.params = IF changed THEN @ + 1 ELSE @]
           r == [s EXCEPT !.phase = "ready", !.rebind = @ \/ changed]
       IN  stmt' = CASE stmt.phase = "pending" -> s
                     [] stmt.phase = "ready" -> r
                     [] OTHER -> Consumed(r)
  /\ FinishRun([left EXCEPT !.rescans = @ - 1])
  /\ UNCHANGED <<pg, group, control, waiting, touched>>

\* EndCustomScan.
Close ==
  /\ lead = "idle" /\ stmt.phase # "released"
  /\ stmt' = [stmt EXCEPT !.phase = "released"] /\ FinishRun(left)
  /\ UNCHANGED <<pg, group, control, waiting, touched>>

\* WaitForParallelWorkersToFinish has returned.
Finished ==
  /\ lead \in {"finishing", "failing"} /\ \A w \in Launched : worker[w] = "exited"
  /\ Destroy
  /\ lead' = IF lead = "failing" THEN "erring"
             ELSE IF stmt.phase = "released" THEN "over" ELSE "idle"
  /\ UNCHANGED <<stmt, control, process, left, touched>>

\* The same after a short launch: the run becomes serial.
FinishedShort ==
  /\ lead = "short" /\ \A w \in Launched : worker[w] = "exited"
  /\ Destroy /\ lead' = "idle"
  /\ \E p \in SerialPlans(stmt.values) : stmt' = Executed([stmt EXCEPT !.plan = p])
  /\ UNCHANGED <<control, process, left, touched>>

\* It raises the error a worker has sent.
FinishFails ==
  /\ lead \in {"finishing", "failing", "short"} /\ \E w \in Launched : worker[w] = "failed"
  /\ Fail /\ Abandon
  /\ UNCHANGED <<stmt, pg, worker, left>>

-----------------------------------------------------------------------------
(* ERROR.                                                                   *)

\* A plan cannot be built, a row cannot be produced, or another node of the
\* PostgreSQL plan raises an error.
Error ==
  /\ lead = "idle" /\ stmt.phase # "released" /\ Fail
  /\ \/ Spend("errors")
     \/ stmt.phase = "running" /\ group.owner = "run" /\ UNCHANGED left
        /\ \E w \in Producers : worker[w] = "failed"
  /\ UNCHANGED <<stmt, pg, group, control, process, touched>>

\* AtEOXact_Parallel: workers are terminated and the segment detached (its
\* callbacks clear the flags), then their exit is awaited.
Terminate ==
  /\ lead = "erring" /\ lead' = "terminating"
  /\ pg' = [pg EXCEPT !.mapped = FALSE]
  /\ UNCHANGED <<stmt, group, control, process, left, touched>>

AbortTransaction ==
  /\ lead = "terminating" /\ \A w \in Launched : Ended(w)
  /\ pg' = NoContext /\ lead' = "releasing"
  /\ UNCHANGED <<stmt, group, control, process, left, touched>>

\* The ResourceOwner callback: QueryExecutionCell::abort.
Abort ==
  /\ lead = "releasing" /\ lead' = "over"
  /\ stmt' = [stmt EXCEPT !.phase = "released"]
  /\ IF group.owner = "run" THEN Abandon
     ELSE group' = NoGroup /\ UNCHANGED <<control, waiting, touched>>
  /\ UNCHANGED <<pg, worker, left>>

-----------------------------------------------------------------------------
(* The workers.                                                             *)

Go(w, to) == worker' = [worker EXCEPT ![w] = to]
Elsewhere == UNCHANGED <<stmt, lead, pg, group, control, touched>>

\* PostgreSQL: the process attaches to its queues, or never comes up.
WorkerStarts(w) ==
  /\ worker[w] = "starting"
  /\ \/ Go(w, "attached") /\ UNCHANGED left
     \/ Go(w, "lost") /\ Spend("faults")
  /\ UNCHANGED waiting /\ Elsewhere

\* lagodb_query_worker: the mapping, and ConditionVariablePrepareToSleep; or
\* PostgreSQL's part of the worker reports an error before that.
WorkerEnters(w) ==
  /\ worker[w] = "attached"
  /\ \/ Go(w, "gate") /\ waiting' = waiting \cup {w} /\ UNCHANGED left
     \/ Go(w, "failed") /\ Spend("faults") /\ UNCHANGED waiting
  /\ Elsewhere

\* One turn of wait_for_activation.
WorkerTests(w) ==
  /\ worker[w] = "gate"
  /\ CASE control.gate = "run" -> Go(w, "running") /\ waiting' = waiting \ {w}
       [] control.gate = "abort" -> Go(w, "exited") /\ waiting' = waiting \ {w}
       [] OTHER -> Go(w, "asleep") /\ UNCHANGED waiting
  /\ UNCHANGED left /\ Elsewhere

\* ConditionVariableSleep returns to a process that was taken off the wait list,
\* and puts it back.
WorkerWakes(w) ==
  /\ worker[w] = "asleep" /\ w \notin waiting
  /\ Go(w, "gate") /\ waiting' = waiting \cup {w}
  /\ UNCHANGED left /\ Elsewhere

\* run_parallel_worker returns, or reports an error to the leader's queue.
WorkerEnds(w) ==
  /\ worker[w] = "running"
  /\ \/ Go(w, "exited") /\ UNCHANGED left
     \/ Go(w, "failed") /\ Spend("faults")
  /\ UNCHANGED waiting /\ Elsewhere

\* SIGTERM: the next interrupt check ends the worker.
WorkerTerminates(w) ==
  /\ lead = "terminating" /\ worker[w] \in {"starting", "attached", "asleep", "running"}
  /\ Go(w, "exited") /\ waiting' = waiting \ {w}
  /\ UNCHANGED left /\ Elsewhere

Next ==
  \/ Start \/ StartSerial \/ StartWithoutGroup \/ LaunchGroup
  \/ AttachFails \/ Attach \/ SetUpTransport \/ WriteInventory \/ LaunchFails
  \/ Activate \/ Broadcast
  \/ EndOfStream \/ Rescan \/ Close \/ Finished \/ FinishedShort \/ FinishFails
  \/ Error \/ Terminate \/ AbortTransaction \/ Abort
  \/ \E w \in Producers :
       \/ WorkerStarts(w) \/ WorkerEnters(w) \/ WorkerTests(w) \/ WorkerWakes(w)
       \/ WorkerEnds(w) \/ WorkerTerminates(w)

Spec == Init /\ [][Next]_vars

-----------------------------------------------------------------------------
TypeOK ==
  /\ stmt.phase \in {"pending", "ready", "running", "exhausted", "released"}
  /\ group.owner \in {"none", "launch", "run", "finished"}
  /\ control.gate \in {"wait", "run", "abort"} /\ control.region \subseteq Region
  /\ waiting \subseteq Producers /\ pg.level \in 0..1

\* Nobody meets an unprepared partner.  A worker past the activation gate finds the
\* transport, the source inventory and the size of the region, and runs only in a
\* launch of at least two; when the leader waits for its workers, each one that
\* sleeps at the gate has been woken, so that the wait ends; and the leader does not
\* use the segment once PostgreSQL's abort has detached it (SharedControl, activate,
\* abort_activation, abandon_to_postgres).
WorkersFollowTheLeader ==
  /\ \A w \in Producers : worker[w] = "running" =>
       /\ control.sized /\ control.region = Region
       /\ \E v \in Launched : v # w
  /\ lead \in {"short", "finishing", "failing"} =>
       \A w \in Producers : worker[w] = "asleep" => w \notin waiting
  /\ ~touched

\* Each run has a plan of its own and leaves nothing behind.  While rows are
\* produced the plan was executed once since it was compiled or reset, for the
\* current parameter values; a plan that the next run will use again can be: its
\* sources are not consumed, it has no dynamic filters.  Between callbacks the
\* parallel context and parallel mode exist exactly as long as a run owns them, and
\* after the statement not at all (start_run, mark_dynamic_filter_plan_consumed,
\* finish, destroy).
RunsAreFreshAndOwned ==
  /\ stmt.phase = "running" => stmt.plan.runs = 1 /\ stmt.plan.values = stmt.params
  /\ Ready /\ ~stmt.rebind /\ ~stmt.rebuild =>
       /\ stmt.plan.kind = "parallel" => stmt.plan.sources
       /\ stmt.plan.kind = "filtered" => stmt.plan.runs = 0
  /\ lead \in {"idle", "over"} =>
       /\ pg.open <=> group.owner = "run"
       /\ pg.level = IF pg.open THEN 1 ELSE 0
=============================================================================
