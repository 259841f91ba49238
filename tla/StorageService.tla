--------------------------- MODULE StorageService ---------------------------
(***************************************************************************)
(* The storage worker of lagodb-base/src/storage: a supervisor loop on the *)
(* PostgreSQL thread that collects task results, sweeps, takes reload      *)
(* requests and dispatches reconciliations; the reconciliation task that   *)
(* applies the volume file to the store registry one volume at a time; the *)
(* server task; and the shared flags other processes set.                  *)
(*                                                                         *)
(* A volume's location and credential are one member of Specs; those with  *)
(* a default-chain credential are in Chained.  The file is any function    *)
(* from volumes to specs (StorageVolumes has how it is written).  Latches  *)
(* only shorten the wait between two turns of the loop and are left out,   *)
(* as are the texts and counters of the status.                            *)
(***************************************************************************)
EXTENDS Integers, FiniteSets

CONSTANTS
  Volumes, Specs, Chained,
  Workloads     \* budgets of changes, forced reloads, signals and faults

VARIABLES
  desired,     \* the volume file
  unannounced, \* the file is renamed, request_reload is still to come
  shared,      \* StorageSharedState: state and the two request flags
  hup,         \* a SIGHUP is pending
  pc,          \* where the supervisor is
  sweeping,    \* startup_sweep_pending
  pending,     \* the pending ReconcileRequest, if any
  task,        \* the reconcile task
  server,      \* the server task and the supervisor's permission to serve
  applied, rejected, registered,
  left,
  owed,        \* history: volumes a forced reload was asked for and not yet tried
  missed       \* history: the last attempt could not read the file

vars == <<desired, unannounced, shared, hup, pc, sweeping, pending, task, server,
          applied, rejected, registered, left, owed, missed>>
stores == <<applied, rejected, registered>>

NoSpec == "none"
NoStores == [v \in Volumes |-> NoSpec]
NoTask == [step |-> "none"]
Loop == {"top", "sweep", "take", "dispatch"}
Starting == {"starting", "ready", "unstarted"}

Spend(what) == left[what] > 0 /\ left' = [left EXCEPT ![what] = @ - 1]

Init ==
  /\ desired \in {[v \in Volumes |-> s] : s \in Specs}
  /\ unannounced = FALSE /\ hup = FALSE
  /\ shared = [state |-> "stopped", reload |-> FALSE, force |-> FALSE]
  /\ pc = "down" /\ sweeping = FALSE /\ pending = {} /\ task = NoTask /\ server = "none"
  /\ applied = NoStores /\ rejected = NoStores /\ registered = NoStores
  /\ left \in Workloads /\ owed = {} /\ missed = FALSE

-----------------------------------------------------------------------------
(* Other processes.                                                         *)

RequestReload(sh, force) == [sh EXCEPT !.reload = TRUE, !.force = @ \/ force]

ChainedNow == {v \in Volumes : desired[v] \in Chained}

PublishConfig ==
  /\ ~unannounced /\ Spend("changes") /\ unannounced' = TRUE
  /\ \E v \in Volumes, s \in Specs \cup {NoSpec} :
        s # desired[v] /\ desired' = [desired EXCEPT ![v] = s]
  /\ UNCHANGED <<shared, hup, pc, sweeping, pending, task, server, stores, owed, missed>>

AnnounceConfig ==
  /\ unannounced /\ unannounced' = FALSE
  /\ shared' = RequestReload(shared, FALSE)
  /\ UNCHANGED <<desired, hup, pc, sweeping, pending, task, server, stores, left, owed, missed>>

ReloadVolumes ==
  /\ Spend("forces") /\ shared' = RequestReload(shared, TRUE)
  /\ owed' = owed \cup ChainedNow
  /\ UNCHANGED <<desired, unannounced, hup, pc, sweeping, pending, task, server, stores, missed>>

Sighup ==
  /\ pc \in Loop /\ Spend("hups") /\ hup' = TRUE
  /\ owed' = owed \cup ChainedNow
  /\ UNCHANGED <<desired, unannounced, shared, pc, sweeping, pending, task, server, stores, missed>>

-----------------------------------------------------------------------------
(* The process.                                                             *)

\* mark_starting and run up to the loop; the startup sweep may find the lock taken.
Start ==
  /\ pc = "down" /\ pc' = "top" /\ sweeping' \in BOOLEAN
  /\ shared' = [state |-> "starting", reload |-> FALSE, force |-> FALSE]
  /\ pending' = {[phase |-> "startup", force |-> FALSE]}
  /\ owed' = {} /\ missed' = FALSE
  /\ UNCHANGED <<desired, unannounced, hup, task, server, stores, left>>

\* shutdown: the pending request is dropped, the tasks are told to stop.
Leave(state) ==
  /\ pc' = "exiting" /\ pending' = {}
  /\ shared' = [shared EXCEPT !.state = state]
  /\ task' = NoTask /\ server' = "none"

\* The volume file, the runtime configuration or the runtime itself is unusable.
StartFails ==
  /\ pc = "down" /\ Spend("faults") /\ Leave("failed")
  /\ UNCHANGED <<desired, unannounced, hup, sweeping, stores, owed, missed>>

Stop ==
  /\ pc = "top" /\ Spend("stops") /\ Leave("stopping")
  /\ UNCHANGED <<desired, unannounced, hup, sweeping, stores, owed, missed>>

\* storage_exit_callback; the postmaster restarts a process that failed.
Exit ==
  /\ pc = "exiting" /\ hup' = FALSE
  /\ shared' = [shared EXCEPT !.state = IF @ = "stopping" THEN "stopped" ELSE "failed"]
  /\ pc' = IF shared.state = "stopping" THEN "gone" ELSE "down"
  /\ applied' = NoStores /\ rejected' = NoStores /\ registered' = NoStores
  /\ UNCHANGED <<desired, unannounced, sweeping, pending, task, server, left, owed, missed>>

-----------------------------------------------------------------------------
(* The supervisor loop.                                                     *)

\* Faulty variant of Merged: a pending request absorbs a later one unchanged.
MergedKeepsFirst(p, phase, force) ==
  IF p = {} THEN {[phase |-> phase, force |-> force]} ELSE p

\* request_reconcile: the first label stays, force accumulates.
Merged(p, phase, force) ==
  IF p = {} THEN {[phase |-> phase, force |-> force]}
  ELSE {[r EXCEPT !.force = @ \/ force] : r \in p}

AfterHup == IF hup THEN Merged(pending, "sighup", TRUE) ELSE pending

\* A completed startup reconciliation starts the server.
Completed(phase) == IF phase = "startup" THEN "starting" ELSE server

\* What poll finds first: a server that ended, a server that is ready, else the task.
ServerEnded == server \in {"unstarted", "failed"}

\* One poll, and what its event leads to.
Collect ==
  /\ pc = "top" /\ hup' = FALSE
  /\ \/ ServerEnded /\ Leave("failed")
     \/ /\ server = "ready" /\ server' = "serving"
        /\ shared' = [shared EXCEPT !.state = "running"]
        /\ pc' = "sweep" /\ pending' = AfterHup /\ UNCHANGED task
     \/ ~ServerEnded /\ server # "ready" /\ task.step = "panicked" /\ Leave("failed")
     \/ /\ ~ServerEnded /\ server # "ready" /\ task.step # "panicked"
        /\ pc' = "sweep" /\ pending' = AfterHup /\ UNCHANGED shared
        /\ IF task.step = "done"
           THEN task' = NoTask /\ server' = Completed(task.phase)
           ELSE UNCHANGED <<task, server>>
  /\ UNCHANGED <<desired, unannounced, sweeping, stores, left, owed, missed>>

\* Not due, or the lock is taken: a startup sweep then stays due.
NoSweep ==
  /\ pc = "sweep" /\ pc' = "take"
  /\ UNCHANGED <<desired, unannounced, shared, hup, sweeping, pending, task, server, stores,
                 left, owed, missed>>

\* The sweep ends, with an error or not; what it removes it publishes and announces.
Sweep ==
  /\ pc = "sweep" /\ pc' = "take" /\ ~unannounced
  /\ pending' = IF sweeping THEN pending ELSE Merged(pending, "periodic", FALSE)
  /\ sweeping' = FALSE
  /\ \/ UNCHANGED <<desired, shared, left>>
     \/ /\ Spend("changes") /\ shared' = RequestReload(shared, FALSE)
        /\ \E v \in Volumes :
              desired[v] # NoSpec /\ desired' = [desired EXCEPT ![v] = NoSpec]
  /\ UNCHANGED <<unannounced, hup, task, server, stores, owed, missed>>

TakeReloadRequest ==
  /\ pc = "take" /\ pc' = "dispatch"
  /\ shared' = [shared EXCEPT !.reload = FALSE, !.force = FALSE]
  /\ pending' = IF shared.reload THEN Merged(pending, "runtime", shared.force) ELSE pending
  /\ UNCHANGED <<desired, unannounced, hup, sweeping, task, server, stores, left, owed, missed>>

CanDispatch == ~sweeping /\ task = NoTask /\ server \notin Starting /\ pending # {}

\* dispatch_reconcile: nothing to do yet, the file read, or the file unreadable.
Dispatch ==
  /\ pc = "dispatch"
  /\ \/ /\ ~CanDispatch /\ pc' = "top"
        /\ UNCHANGED <<pending, task, left, owed, missed, shared, server>>
     \/ /\ CanDispatch /\ pc' = "top" /\ pending' = {} /\ missed' = FALSE
        /\ \E r \in pending :
             /\ task' = [step |-> "removing", phase |-> r.phase, force |-> r.force,
                         want |-> desired, todo |-> {v \in Volumes : desired[v] # NoSpec}]
             /\ owed' = IF r.force THEN owed \cap ChainedNow ELSE owed
        /\ UNCHANGED <<left, shared, server>>
     \/ /\ CanDispatch /\ Spend("faults")
        /\ \E r \in pending :
             IF r.phase = "startup"
             THEN Leave("failed") /\ UNCHANGED <<owed, missed>>
             ELSE /\ pc' = "top" /\ pending' = {} /\ missed' = TRUE
                  /\ owed' = IF r.force THEN {} ELSE owed
                  /\ UNCHANGED <<task, shared, server>>
  /\ UNCHANGED <<desired, unannounced, hup, sweeping, stores>>

-----------------------------------------------------------------------------
(* apply_desired, on the Tokio runtime.                                     *)

Wanted(m) == [v \in Volumes |-> IF task.want[v] = NoSpec THEN NoSpec ELSE m[v]]

RemoveUndesired ==
  /\ task.step = "removing" /\ task' = [task EXCEPT !.step = "applying"]
  /\ applied' = Wanted(applied) /\ rejected' = Wanted(rejected) /\ registered' = Wanted(registered)
  /\ UNCHANGED <<desired, unannounced, shared, hup, pc, sweeping, pending, server, left, owed, missed>>

RejectedSame(v) == rejected[v] = task.want[v]
AppliedSame(v) == applied[v] = task.want[v]
ForceReload(v) == task.force /\ task.want[v] \in Chained

\* A volume that is as it should be, or known not to work, is not tried again.
SkipVolume(v) ==
  IF RejectedSame(v) THEN ~ForceReload(v) ELSE AppliedSame(v) /\ ~ForceReload(v)

Applies(v) == task.step = "applying" /\ v \in task.todo

KeepVolume(v) ==
  /\ Applies(v) /\ SkipVolume(v)
  /\ rejected' = IF RejectedSame(v) THEN rejected ELSE [rejected EXCEPT ![v] = NoSpec]
  /\ task' = [task EXCEPT !.todo = @ \ {v}]
  /\ UNCHANGED <<desired, unannounced, shared, hup, pc, sweeping, pending, server, applied,
                 registered, left, owed, missed>>

\* upsert_config or refresh_config succeeds, or the last good registration stays.
ApplyVolume(v) ==
  /\ Applies(v) /\ ~SkipVolume(v)
  /\ task' = [task EXCEPT !.todo = @ \ {v}]
  /\ owed' = IF ForceReload(v) THEN owed \ {v} ELSE owed
  /\ \/ /\ applied' = [applied EXCEPT ![v] = task.want[v]]
        /\ registered' = [registered EXCEPT ![v] = task.want[v]]
        /\ rejected' = [rejected EXCEPT ![v] = NoSpec]
        /\ UNCHANGED left
     \/ /\ Spend("faults") /\ rejected' = [rejected EXCEPT ![v] = task.want[v]]
        /\ UNCHANGED <<applied, registered>>
  /\ UNCHANGED <<desired, unannounced, shared, hup, pc, sweeping, pending, server, missed>>

\* The task returns, or its blocking preparation panics.
EndApply ==
  /\ task.step = "applying"
  /\ \/ task.todo = {} /\ task' = [task EXCEPT !.step = "done"] /\ UNCHANGED left
     \/ task.todo # {} /\ Spend("faults") /\ task' = [task EXCEPT !.step = "panicked"]
  /\ UNCHANGED <<desired, unannounced, shared, hup, pc, sweeping, pending, server, stores, owed, missed>>

\* The server task: it becomes ready, or fails before or after serving.
ServerStep ==
  /\ \/ server = "starting" /\ server' = "ready" /\ UNCHANGED left
     \/ server = "starting" /\ Spend("faults") /\ server' = "unstarted"
     \/ server = "serving" /\ Spend("faults") /\ server' = "failed"
  /\ UNCHANGED <<desired, unannounced, shared, hup, pc, sweeping, pending, task, stores, owed, missed>>

Next ==
  \/ PublishConfig \/ AnnounceConfig \/ ReloadVolumes \/ Sighup
  \/ Start \/ StartFails \/ Stop \/ Exit
  \/ Collect \/ NoSweep \/ Sweep \/ TakeReloadRequest \/ Dispatch
  \/ RemoveUndesired \/ EndApply \/ ServerStep
  \/ \E v \in Volumes : KeepVolume(v) \/ ApplyVolume(v)

Spec == Init /\ [][Next]_vars

-----------------------------------------------------------------------------
TypeOK ==
  /\ desired \in [Volumes -> Specs \cup {NoSpec}]
  /\ {applied, rejected, registered} \subseteq [Volumes -> Specs \cup {NoSpec}]
  /\ pc \in Loop \cup {"down", "exiting", "gone"}
  /\ server \in Starting \cup {"none", "serving", "failed"}
  /\ Cardinality(pending) <= 1 /\ owed \subseteq Volumes

\* Nothing is requested, pending, running or on its way.
Settled ==
  /\ pc \in Loop /\ ~unannounced /\ ~shared.reload /\ ~hup
  /\ pending = {} /\ task = NoTask /\ ~missed

\* No request is lost between the flags, the pending request and the task: once
\* nothing is left to do, the server was started, every forced reload has been
\* tried, and each volume of the file is registered as the file has it or is
\* recorded as rejected in that form, with no other volume left behind; and at
\* any time the registry has what was last applied successfully, a failed
\* replacement included (request_reconcile, dispatch_reconcile, apply_desired).
StoresMatchConfig ==
  /\ registered = applied
  /\ Settled =>
       /\ server # "none" /\ owed = {}
       /\ \A v \in Volumes :
            /\ rejected[v] \in {NoSpec, desired[v]}
            /\ desired[v] \in {applied[v], rejected[v]}
            /\ desired[v] = NoSpec => applied[v] = NoSpec

=============================================================================
