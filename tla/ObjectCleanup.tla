--------------------------- MODULE ObjectCleanup ---------------------------
(***************************************************************************)
(* The durable queue of object deletions (lagodb-core/src/object_cleanup): *)
(* the transactions of CREATE, DROP and VACUUM that use it, the on-demand  *)
(* maintenance worker that drains it with a pool of storage actors, and    *)
(* the operator who retries failed items.                                  *)
(*                                                                         *)
(* The worker's slot is the one of module WorkerSlot.  Every catalog       *)
(* transaction of the worker is one action, every storage request of an    *)
(* actor is one, and the wakeup of a commit is published after it.         *)
(***************************************************************************)
EXTENDS Integers, Sequences, FiniteSets, Functions

CONSTANTS
  Sessions,      \* backends that create, drop and vacuum tables
  Locations,     \* object-store prefixes of tables
  Actors,        \* maintenance_actor_threads
  MaxAttempts,   \* maintenance_retry_max_attempts
  PageSize,      \* maintenance_batch_items, as the page of a listing
  Submilli,      \* whether a deadline can be less than a millisecond away
  MaxObjects,    \* bound: objects ever written
  MaxItems,      \* bound: items ever enqueued
  MaxTxns,       \* bound: transactions
  MaxFaults,     \* bound: errors, crashes, stops
  MaxFailures    \* bound of failure_count (module WorkerSlot)

ASSUME CleanupAssumption ==
  /\ {MaxAttempts, PageSize, MaxObjects, MaxItems, MaxFailures} \subseteq Nat \ {0}
  /\ {MaxTxns, MaxFaults} \subseteq Nat
  /\ Submilli \in BOOLEAN /\ IsFiniteSet(Actors)

VARIABLES
  store,      \* objects in the object store
  home,       \* home[o] is the location object o was written to
  table,      \* table[l]: whether a table lives at l, and the objects it refers to
  queue,      \* committed rows of maintenance_queue
  ids,        \* items ever enqueued
  sessions,   \* the open transactions
  slot,       \* the worker's entry in shared memory
  proc,       \* the worker process
  actors,     \* its actor threads
  chan,       \* their result channel
  txns, faults,  \* bounds spent
  condemned   \* history: objects of committed deletions

vars == <<store, home, table, queue, ids, sessions, slot, proc, actors, chan,
          txns, faults, condemned>>
tables == <<home, table, ids, sessions, txns, condemned>>
threads == <<actors, chan>>

NoPid == 0
W == INSTANCE WorkerSlot

-----------------------------------------------------------------------------
(* Rows and items.                                                         *)

Object == 1..MaxObjects
Item == 1..MaxItems

\* What an item deletes: all objects below a location, or one object.
Target == [op : {"tree"}, at : Locations] \cup [op : {"object"}, at : Object]

\* A row: not_before is "now" (or earlier), "soon" (less than a millisecond
\* ahead) or "later"; a row that does not decode is not valid.
Row == [target : Target, attempt : 0..MaxAttempts, revision : Nat,
        due : {"now", "soon", "later"}, failed : BOOLEAN, valid : BOOLEAN]

NewRow(target) ==
  [target |-> target, attempt |-> 0, revision |-> 0, due |-> "now",
   failed |-> FALSE, valid |-> TRUE]

\* Objects an item is to delete.
Below(target) ==
  IF target.op = "tree" THEN {o \in store : home[o] = target.at}
                        ELSE store \cap {target.at}

Pending(id) == id \in DOMAIN queue /\ ~queue[id].failed
Ready(id) == Pending(id) /\ queue[id].due = "now"

Outcome == {"complete", "retryable", "permanent", "cancelled"}

NoProc == [pc |-> "none", inflight |-> {}, pending |-> <<>>, tasks |-> {},
           invalid |-> {}, sched |-> "idle", cancelled |-> FALSE]
IdleActor == [pc |-> "idle", page |-> {}]
IdleSession == [pc |-> "idle"]

FaultsLeft == faults < MaxFaults

-----------------------------------------------------------------------------
(* The transactions that feed the queue.                                   *)

Extended(rows) ==
  [id \in DOMAIN rows \cup DOMAIN queue |-> IF id \in DOMAIN rows THEN rows[id] ELSE queue[id]]

\* The members of a finite set in some order.
Listing(S) == CHOOSE f \in [1..Cardinality(S) -> S] : IsInjective(f)

\* Items enqueued by a transaction appear when it commits.
Enqueued(targets) ==
  LET order == Listing(targets)
  IN  [id \in ids + 1 .. ids + Len(order) |-> NewRow(order[id - ids])]

Begin(s, txn) ==
  /\ sessions[s] = IdleSession
  /\ txns < MaxTxns
  /\ txns' = txns + 1
  /\ sessions' = [sessions EXCEPT ![s] = txn]
  /\ UNCHANGED <<table, queue, slot, proc, threads, faults, condemned>>

Busy(l) == \E s \in Sessions : sessions[s] # IdleSession /\ sessions[s].at = l

\* Faulty variant: a deletion that is still queued does not keep CREATE away.
HasNoTarget(l) == FALSE

\* ObjectCleanupQueue::has_tree_target, failed items included.
HasTreeTarget(l) ==
  \E id \in DOMAIN queue :
    queue[id].valid /\ queue[id].target = [op |-> "tree", at |-> l]

\* A location can come back with its relation OID.  Only the queued deletion and the
\* objects that are left keep CREATE away: the worker may be running.
CreateTable(s, l, n) ==
  /\ ~table[l].live /\ ~Busy(l)
  /\ ~HasTreeTarget(l)
  /\ {o \in store : home[o] = l} = {}
  /\ Len(home) + n <= MaxObjects
  /\ LET new == Len(home) + 1 .. Len(home) + n
     IN  /\ home' = home \o [i \in 1..n |-> l]
         /\ store' = store \cup new
         /\ Begin(s, [pc |-> "open", op |-> "create", at |-> l, objects |-> new,
                      rows |-> <<>>, wake |-> FALSE])
  /\ UNCHANGED ids

DropTable(s, l) ==
  /\ table[l].live /\ ~Busy(l)
  /\ ids + 1 <= MaxItems
  /\ Begin(s, [pc |-> "open", op |-> "drop", at |-> l, objects |-> table[l].refs,
               rows |-> Enqueued({[op |-> "tree", at |-> l]}), wake |-> TRUE])
  /\ ids' = ids + 1
  /\ UNCHANGED <<store, home>>

\* Objects that the maintained table no longer reaches are queued one by one.
Vacuum(s, l, objects) ==
  /\ table[l].live /\ ~Busy(l)
  /\ objects # table[l].refs
  /\ ids + Cardinality(objects) <= MaxItems
  /\ Begin(s, [pc |-> "open", op |-> "vacuum", at |-> l, objects |-> objects,
               rows |-> Enqueued({[op |-> "object", at |-> o] : o \in objects}),
               wake |-> TRUE])
  /\ ids' = ids + Cardinality(objects)
  /\ UNCHANGED <<store, home>>

\* retry_maintenance_item: only a failed row starts again.
RetryFailed(s, id) ==
  /\ id \in DOMAIN queue /\ queue[id].failed
  /\ \A other \in Sessions : sessions[other] # IdleSession => sessions[other].at # id
  /\ Begin(s, [pc |-> "open", op |-> "retry", at |-> id, objects |-> {},
               rows |-> [i \in {id} |-> [queue[id] EXCEPT !.attempt = 0, !.revision = @ + 1,
                                                           !.due = "now", !.failed = FALSE]],
               wake |-> TRUE])
  /\ UNCHANGED <<store, home, ids>>

\* A staged wakeup is published after the commit.
AfterCommit(txn) == IF txn.wake THEN [txn EXCEPT !.pc = "committed"] ELSE IdleSession

Commit(s) ==
  LET txn == sessions[s]
  IN  /\ txn.pc = "open"
      /\ queue' = Extended(txn.rows)
      /\ table' = CASE txn.op = "create" ->
                         [table EXCEPT ![txn.at] = [live |-> TRUE, refs |-> txn.objects]]
                    [] txn.op = "drop" ->
                         [table EXCEPT ![txn.at] = [live |-> FALSE, refs |-> {}]]
                    [] txn.op = "vacuum" -> [table EXCEPT ![txn.at].refs = @ \ txn.objects]
                    [] txn.op = "retry" -> table
      /\ condemned' = IF txn.op \in {"drop", "vacuum"} THEN condemned \cup txn.objects
                                                       ELSE condemned
      /\ sessions' = [sessions EXCEPT ![s] = AfterCommit(txn)]
      /\ UNCHANGED <<store, home, ids, slot, proc, threads, txns, faults>>

\* The commit callback publishes the staged wakeup.
PublishWakeup(s) ==
  /\ sessions[s].pc = "committed"
  /\ slot' = W!RequestWakeup(slot)
  /\ sessions' = [sessions EXCEPT ![s] = IdleSession]
  /\ UNCHANGED <<store, home, table, queue, ids, proc, threads, txns, faults, condemned>>

\* The directory of a table whose CREATE aborts is removed; what cannot be
\* removed stays behind as an orphan.
Rollback(s) ==
  /\ sessions[s].pc = "open"
  /\ \/ store' = store \ (IF sessions[s].op = "create" THEN sessions[s].objects ELSE {})
        /\ UNCHANGED faults
     \/ sessions[s].op = "create" /\ FaultsLeft /\ faults' = faults + 1 /\ UNCHANGED store
  /\ sessions' = [sessions EXCEPT ![s] = IdleSession]
  /\ UNCHANGED <<home, table, queue, ids, slot, proc, threads, txns, condemned>>

-----------------------------------------------------------------------------
(* The worker process: what run_object_cleanup_worker decides.             *)

\* WorkerSchedule::into_raw and what the runtime reads back: whole milliseconds,
\* and zero of them mean that the worker stops.
IntoRaw(delay) == IF delay = "ms" THEN "run_after" ELSE "idle"

\* next_schedule: "ready", or the delay to the first deadline.
NextSchedule ==
  LET due == {queue[id].due : id \in {i \in DOMAIN queue : Pending(i)}}
  IN  IF "now" \in due THEN "ready"
      ELSE IF "soon" \in due THEN "submilli"
      ELSE IF "later" \in due THEN "ms" ELSE "none"

Goto(pc) == proc' = [proc EXCEPT !.pc = pc]
Return(pc, sched) == proc' = [proc EXCEPT !.pc = pc, !.sched = sched]
Spend == FaultsLeft /\ faults' = faults + 1

\* The coordinator starts the worker; module WorkerRuntime has the protocol.
Launch ==
  /\ proc = NoProc
  /\ W!RestartDelay(slot) = "now"
  /\ slot' = W!MarkRunning(W!PrepareStart(slot), 1)
  /\ Goto("inspect")
  /\ UNCHANGED <<store, tables, queue, threads, faults>>

\* current_schedule: is anything due; if not, when.
Inspect ==
  /\ proc.pc = "inspect"
  /\ Goto(IF \E id \in Item : Ready(id) THEN "start" ELSE "inspect_next")
  /\ UNCHANGED <<store, tables, queue, slot, threads, faults>>

InspectNext ==
  /\ proc.pc = "inspect_next"
  /\ IF NextSchedule = "ready" THEN Goto("start")
                               ELSE Return("complete", IntoRaw(NextSchedule))
  /\ UNCHANGED <<store, tables, queue, slot, threads, faults>>

\* The queue cannot be read, the storage endpoint is not configured or the
\* actors cannot be started: the worker asks to run again in five seconds.
StartupFails ==
  /\ proc.pc \in {"inspect", "inspect_next", "start"}
  /\ Spend
  /\ Return("complete", "run_after")
  /\ UNCHANGED <<store, tables, queue, slot, threads>>

StartActors ==
  /\ proc.pc = "start"
  /\ Goto("collect")
  /\ UNCHANGED <<store, tables, queue, slot, threads, faults>>

-----------------------------------------------------------------------------
(* One round of run_until_idle.                                            *)

\* Receiving a result frees its actor.
Collect ==
  /\ proc.pc = "collect"
  /\ proc' = [proc EXCEPT !.pc = "apply", !.pending = @ \o chan]
  /\ actors' = [a \in Actors |-> IF actors[a].pc = "sent" THEN IdleActor ELSE actors[a]]
  /\ chan' = <<>>
  /\ UNCHANGED <<store, tables, queue, slot, faults>>

\* update_if_current: a row that is gone or has a newer revision stays as it is.
UpdateIfCurrent(item, row) ==
  IF item.id \in DOMAIN queue /\ queue[item.id].revision = item.revision
    THEN [queue EXCEPT ![item.id] = [row EXCEPT !.revision = @ + 1]]
    ELSE queue

\* ObjectCleanupRepository::retry: the last attempt fails the row.
Retry(item) ==
  LET attempt == item.attempt + 1
  IN  UpdateIfCurrent(item,
        IF attempt >= MaxAttempts
          THEN [queue[item.id] EXCEPT !.attempt = attempt, !.failed = TRUE]
          ELSE [queue[item.id] EXCEPT !.attempt = attempt, !.due = "later"])

Fail(item) == UpdateIfCurrent(item, [queue[item.id] EXCEPT !.failed = TRUE])

\* Faulty variant: an execution that was cut short counts as done.
PersistCancelledToo(item, outcome) ==
  CASE outcome \in {"complete", "cancelled"} -> Restrict(queue, DOMAIN queue \ {item.id})
    [] outcome = "retryable" -> Retry(item)
    [] outcome = "permanent" -> Fail(item)

\* The transaction that stores an outcome.  Success deletes the row whatever its
\* revision; a cancelled execution leaves it alone.
Persist(item, outcome) ==
  CASE outcome = "complete" -> Restrict(queue, DOMAIN queue \ {item.id})
    [] outcome = "retryable" -> Retry(item)
    [] outcome = "permanent" -> Fail(item)
    [] outcome = "cancelled" -> queue

\* The first pending result.  Results of unknown items are dropped.
ApplyResult ==
  /\ proc.pc \in {"apply", "drain"}
  /\ proc.pending # <<>>
  /\ LET result == Head(proc.pending)
         items == {i \in proc.inflight : i.id = result.id}
     IN  /\ queue' = IF items = {} THEN queue
                     ELSE Persist(CHOOSE i \in items : TRUE, result.outcome)
         /\ proc' = [proc EXCEPT !.pending = Tail(@), !.inflight = @ \ items]
  /\ UNCHANGED <<store, tables, slot, threads, faults>>

\* The result stays at the head; shutdown tries it once more.
ApplyFails ==
  /\ proc.pc = "apply" /\ proc.pending # <<>>
  /\ Spend
  /\ Return("shutdown", "run_after")
  /\ UNCHANGED <<store, tables, queue, slot, threads>>

\* Faulty variant: the worker goes on waiting for an actor that has ended.
AppliedBlindly ==
  /\ proc.pc = "apply" /\ proc.pending = <<>>
  /\ Goto("fetch")
  /\ UNCHANGED <<store, tables, queue, slot, threads, faults>>

\* An actor that has ended without a result ends the run.
Applied ==
  /\ proc.pc = "apply" /\ proc.pending = <<>>
  /\ IF \E a \in Actors : actors[a].pc = "dead" THEN Return("shutdown", "run_after")
                                                ELSE Goto("fetch")
  /\ UNCHANGED <<store, tables, queue, slot, threads, faults>>

Copy(id) ==
  [id |-> id, target |-> queue[id].target, attempt |-> queue[id].attempt,
   revision |-> queue[id].revision]

IdleActors == {a \in Actors : actors[a].pc = "idle"}

\* Faulty variant: an item that an actor works on is handed out again.
FetchableAgain(id) == Ready(id)

Fetchable(id) == Ready(id) /\ \A i \in proc.inflight : i.id # id

\* fetch_ready_batch in index order: at most limit rows besides those in flight
\* are looked at, and no more than limit tasks are taken.
FetchBatch ==
  /\ proc.pc = "fetch"
  /\ LET limit == Cardinality(IdleActors)
         ready == {id \in Item : Ready(id)}
         tasks(seen) == {id \in seen : Fetchable(id) /\ queue[id].valid}
     IN  IF limit = 0 THEN Goto("next")
         ELSE \E seen \in SUBSET ready :
                LET n == Cardinality(seen)
                    most == limit + Cardinality(proc.inflight)
                    taken == tasks(seen)
                IN  /\ n <= most /\ Cardinality(taken) <= limit
                    /\ n = most \/ Cardinality(taken) = limit \/ seen = ready
                    /\ proc' = [proc EXCEPT
                                  !.pc = "dispatch",
                                  !.tasks = {Copy(id) : id \in taken},
                                  !.invalid = {id \in seen : Fetchable(id) /\ ~queue[id].valid}]
  /\ UNCHANGED <<store, tables, queue, slot, threads, faults>>

\* Rows that do not decode are failed first, each in a transaction of its own.
QuarantineInvalid ==
  /\ proc.pc = "dispatch"
  /\ \E id \in proc.invalid :
       /\ queue' = [queue EXCEPT ![id] = [queue[id] EXCEPT !.failed = TRUE, !.revision = @ + 1]]
       /\ proc' = [proc EXCEPT !.invalid = @ \ {id}]
  /\ UNCHANGED <<store, tables, slot, threads, faults>>

\* fetch_ready_batch or fail_invalid reports an error.
DispatchFails ==
  /\ \/ proc.pc = "fetch" /\ IdleActors # {}
     \/ proc.pc = "dispatch" /\ proc.invalid # {}
  /\ Spend
  /\ proc' = [proc EXCEPT !.pc = "shutdown", !.sched = "run_after",
                          !.tasks = {}, !.invalid = {}]
  /\ UNCHANGED <<store, tables, queue, slot, threads>>

Dispatch ==
  /\ proc.pc = "dispatch" /\ proc.invalid = {}
  /\ LET idle == Listing(IdleActors)
         tasks == Listing(proc.tasks)
     IN  actors' = [a \in Actors |->
                      IF \E i \in 1..Len(tasks) : idle[i] = a
                        THEN [pc |-> "begin", page |-> {},
                              item |-> tasks[CHOOSE i \in 1..Len(tasks) : idle[i] = a]]
                        ELSE actors[a]]
  /\ proc' = [proc EXCEPT !.pc = "next", !.inflight = @ \cup proc.tasks, !.tasks = {}]
  /\ UNCHANGED <<store, tables, queue, slot, chan, faults>>

\* The round ends: wait for the actors, go on, or leave.
EndRound ==
  /\ proc.pc = "next"
  /\ CASE proc.inflight # {} -> Goto("wait")
       [] proc.inflight = {} /\ NextSchedule = "ready" -> Goto("collect")
       [] proc.inflight = {} /\ NextSchedule # "ready" ->
            Return("shutdown", IntoRaw(NextSchedule))
  /\ UNCHANGED <<store, tables, queue, slot, threads, faults>>

\* The latch wait ends by timeout, or by the request to stop.
Wait ==
  /\ proc.pc = "wait"
  /\ IF slot.stop THEN Return("shutdown", "idle") ELSE Goto("collect")
  /\ UNCHANGED <<store, tables, queue, slot, threads, faults>>

-----------------------------------------------------------------------------
(* Shutdown and exit.                                                      *)

RequestShutdown ==
  /\ proc.pc = "shutdown"
  /\ proc' = [proc EXCEPT !.pc = "drain", !.cancelled = TRUE]
  /\ UNCHANGED <<store, tables, queue, slot, threads, faults>>

\* Until the deadline, results are collected and applied (ApplyResult).
DrainCollect ==
  /\ proc.pc = "drain" /\ chan # <<>>
  /\ proc' = [proc EXCEPT !.pending = @ \o chan]
  /\ actors' = [a \in Actors |-> IF actors[a].pc = "sent" THEN IdleActor ELSE actors[a]]
  /\ chan' = <<>>
  /\ UNCHANGED <<store, tables, queue, slot, faults>>

\* The actors have ended, or the deadline has passed: what they do after that is
\* lost with them.
ShutdownEnds ==
  /\ proc.pc = "drain" /\ proc.pending = <<>> /\ chan = <<>>
  /\ Goto("complete")
  /\ UNCHANGED <<store, tables, queue, slot, threads, faults>>

\* Results that cannot be stored before the deadline are lost.
DrainFails ==
  /\ proc.pc = "drain" /\ proc.pending # <<>>
  /\ Spend
  /\ Goto("complete")
  /\ UNCHANGED <<store, tables, queue, slot, threads>>

Complete ==
  /\ proc.pc = "complete"
  /\ slot' = W!CompleteRun(slot, proc.sched)
  /\ Goto("exit")
  /\ UNCHANGED <<store, tables, queue, threads, faults>>

\* The threads end with the process.
Gone == /\ proc' = NoProc
        /\ actors' = [a \in Actors |-> IdleActor]
        /\ chan' = <<>>

Exit ==
  /\ proc.pc = "exit"
  /\ slot' = W!ConfirmStopped(slot, TRUE, TRUE).slot
  /\ Gone
  /\ UNCHANGED <<store, tables, queue, faults>>

\* An error or a lost connection ends the process before it has completed.
CrashWorker ==
  /\ proc.pc \notin {"none", "exit"}
  /\ Spend
  /\ slot' = W!ConfirmStopped(slot, FALSE, TRUE).slot
  /\ Gone
  /\ UNCHANGED <<store, tables, queue>>

\* The server restarts: open transactions and staged wakeups are gone, and the
\* supervisor's first scan registers the worker anew.
CrashServer ==
  /\ Spend
  /\ slot' = W!InitializeRegistration
  /\ sessions' = [s \in Sessions |-> IdleSession]
  /\ Gone
  /\ UNCHANGED <<store, home, table, queue, ids, txns, condemned>>

\* DROP EXTENSION stops the worker and is rolled back: the next reconciliation
\* opens the gate again.
StopWorker ==
  /\ W!HasActiveProcess(slot) /\ ~slot.stop
  /\ Spend
  /\ slot' = W!PrepareTransactionalStop(slot).slot
  /\ UNCHANGED <<store, tables, queue, proc, threads>>

Reconcile ==
  /\ slot.stop \/ slot.wake
  /\ W!ReconcilePresent(slot) # slot
  /\ slot' = W!ReconcilePresent(slot)
  /\ UNCHANGED <<store, tables, queue, proc, threads, faults>>

-----------------------------------------------------------------------------
(* The actors.                                                             *)

Report(a, outcome) ==
  /\ actors' = [actors EXCEPT ![a] = [pc |-> "sent", page |-> {}]]
  /\ chan' = Append(chan, [id |-> actors[a].item.id, outcome |-> outcome])

\* Between two requests an actor looks at the shutdown flag.
ActorCancelled(a) ==
  /\ actors[a].pc \in {"begin", "page"}
  /\ proc.cancelled
  /\ Report(a, "cancelled")
  /\ UNCHANGED <<store, tables, queue, slot, proc, faults>>

\* One page of the listing; a listing without a page is exhausted.
NextPage(a) ==
  /\ actors[a].pc = "begin" /\ ~proc.cancelled
  /\ actors[a].item.target.op = "tree"
  /\ LET left == Below(actors[a].item.target)
     IN  IF left = {} THEN Report(a, "complete")
         ELSE \E page \in SUBSET left :
                /\ page # {} /\ Cardinality(page) <= PageSize
                /\ page = left \/ Cardinality(page) = PageSize
                /\ actors' = [actors EXCEPT ![a] = [actors[a] EXCEPT !.pc = "page", !.page = page]]
                /\ UNCHANGED chan
  /\ UNCHANGED <<store, tables, queue, slot, proc, faults>>

DeletePage(a) ==
  /\ actors[a].pc = "page" /\ ~proc.cancelled
  /\ store' = store \ actors[a].page
  /\ actors' = [actors EXCEPT ![a] = [actors[a] EXCEPT !.pc = "begin", !.page = {}]]
  /\ UNCHANGED <<tables, queue, slot, proc, chan, faults>>

DeleteObject(a) ==
  /\ actors[a].pc = "begin" /\ ~proc.cancelled
  /\ actors[a].item.target.op = "object"
  /\ store' = store \ {actors[a].item.target.at}
  /\ Report(a, "complete")
  /\ UNCHANGED <<tables, queue, slot, proc, faults>>

\* A connection or a request fails, possibly after some of its objects are gone;
\* invalid paths, unsupported operations and panics are permanent.
RequestFails(a) ==
  /\ actors[a].pc \in {"begin", "page"}
  /\ Spend
  /\ \E gone \in SUBSET (IF actors[a].pc = "page" THEN actors[a].page
                         ELSE IF actors[a].item.target.op = "object"
                                THEN {actors[a].item.target.at} ELSE {}) :
       store' = store \ gone
  /\ \E outcome \in {"retryable", "permanent"} : Report(a, outcome)
  /\ UNCHANGED <<tables, queue, slot, proc>>

\* The thread ends without a result.
ActorDies(a) ==
  /\ actors[a].pc \in {"begin", "page"}
  /\ Spend
  /\ actors' = [actors EXCEPT ![a] = [pc |-> "dead", page |-> {}]]
  /\ UNCHANGED <<store, tables, queue, slot, proc, chan>>

-----------------------------------------------------------------------------
(* Time.                                                                   *)

\* The deadline of a row comes closer.
RowClock(id) ==
  /\ id \in DOMAIN queue
  /\ queue[id].due # "now"
  /\ queue' = [queue EXCEPT ![id].due = IF @ = "later" /\ Submilli THEN "soon" ELSE "now"]
  /\ UNCHANGED <<store, tables, slot, proc, threads, faults>>

SlotClock ==
  /\ slot.restartAfter = "future"
  /\ slot' = [slot EXCEPT !.restartAfter = "past"]
  /\ UNCHANGED <<store, tables, queue, proc, threads, faults>>

-----------------------------------------------------------------------------
(* The specification.                                                      *)

\* The queue may hold a row that this version of the program cannot decode.
Init ==
  /\ store = {} /\ home = <<>>
  /\ table = [l \in Locations |-> [live |-> FALSE, refs |-> {}]]
  /\ \E l \in Locations :
       queue \in {<<>>, [id \in {1} |-> [NewRow([op |-> "tree", at |-> l]) EXCEPT !.valid = FALSE]]}
  /\ ids = Cardinality(DOMAIN queue)
  /\ sessions = [s \in Sessions |-> IdleSession]
  /\ slot = W!InitializeRegistration
  /\ proc = NoProc
  /\ actors = [a \in Actors |-> IdleActor]
  /\ chan = <<>>
  /\ txns = 0 /\ faults = 0
  /\ condemned = {}

SessionNext(s) ==
  \/ \E l \in Locations, n \in 1..2 : CreateTable(s, l, n)
  \/ \E l \in Locations : DropTable(s, l)
  \/ \E l \in Locations : \E objects \in (SUBSET table[l].refs) \ {{}} : Vacuum(s, l, objects)
  \/ \E id \in Item : RetryFailed(s, id)
  \/ Commit(s)
  \/ Rollback(s)

WorkerStep ==
  \/ Inspect \/ InspectNext \/ StartActors
  \/ Collect \/ ApplyResult \/ Applied
  \/ FetchBatch \/ QuarantineInvalid \/ Dispatch \/ EndRound \/ Wait
  \/ RequestShutdown \/ DrainCollect \/ ShutdownEnds \/ Complete \/ Exit

ActorStep(a) == ActorCancelled(a) \/ NextPage(a) \/ DeletePage(a) \/ DeleteObject(a)

Fault ==
  \/ StartupFails \/ ApplyFails \/ DispatchFails \/ DrainFails
  \/ CrashWorker \/ CrashServer \/ StopWorker
  \/ \E a \in Actors : RequestFails(a) \/ ActorDies(a)

Next ==
  \/ \E s \in Sessions : SessionNext(s) \/ PublishWakeup(s)
  \/ Launch \/ WorkerStep \/ Reconcile
  \/ \E a \in Actors : ActorStep(a)
  \/ \E id \in Item : RowClock(id)
  \/ SlotClock
  \/ Fault

Spec == Init /\ [][Next]_vars

\* Commit callbacks run, the runtime starts the worker, the worker and its
\* actors go on, and time passes; transactions, operators and faults owe nothing.
Fairness ==
  /\ \A s \in Sessions : WF_vars(PublishWakeup(s))
  /\ WF_vars(Launch) /\ WF_vars(WorkerStep) /\ WF_vars(Reconcile)
  /\ \A a \in Actors : WF_vars(ActorStep(a))
  /\ \A id \in Item : WF_vars(RowClock(id))
  /\ WF_vars(SlotClock)

FairSpec == Spec /\ Fairness

-----------------------------------------------------------------------------
(* Properties.                                                             *)

\* No deletion the queue executes touches an object that a committed table or a
\* CREATE in progress refers to: rolled-back items are never seen, and a location
\* is not reused while a deletion of it is queued (has_tree_target).
LiveObjectsSurvive ==
  /\ \A l \in Locations : table[l].refs \subseteq store
  /\ \A s \in Sessions :
       sessions[s].pc = "open" /\ sessions[s].op = "create" => sessions[s].objects \subseteq store

\* An object that a committed DROP or VACUUM has given up is gone or still covered
\* by a row of the queue: a row is only deleted when everything it stands for has
\* been, whatever is cancelled, fails half-way or crashes in between.
CondemnedObjectsAreQueued ==
  \A o \in condemned \cap store :
    \E id \in DOMAIN queue : queue[id].valid /\ o \in Below(queue[id].target)

\* Two actors never work on the same item, and the worker counts an item as in
\* flight for as long as an actor works on it.
NoDoubleDispatch ==
  LET working == {a \in Actors : actors[a].pc \in {"begin", "page"}}
  IN  /\ \A a \in working : actors[a].item \in proc.inflight
      /\ \A a, b \in working : actors[a].item.id = actors[b].item.id => a = b

\* Work that is due, now or later, is known to the runtime: the worker runs, or it
\* is to run again, or the wakeup of the commit that queued the work is on its way.
PendingWorkIsWatched ==
  (\E id \in Item : Pending(id)) =>
    \/ W!HasActiveProcess(slot)
    \/ slot.needsRestart \/ slot.wake
    \/ \E s \in Sessions : sessions[s].pc = "committed"

\* Every queued deletion is carried out or given up for an operator to see.
QueueDrains == \A id \in Item : []<>~Pending(id)
=============================================================================
