---------------------------- MODULE WorkerSlot ----------------------------
(***************************************************************************)
(* The shared-memory entry of one extension worker and the transitions its *)
(* methods make (lagodb-base/src/worker/state/slot.rs, policy.rs).  Every  *)
(* operator takes a slot and returns the slot the method leaves behind;    *)
(* the callers hold the SHARED_STATE lock around each of them.             *)
(*                                                                         *)
(* Clock values keep what the code compares: restart_after_ms is "unset"   *)
(* (zero), in the "future", or "past" (set, and due).                      *)
(***************************************************************************)
EXTENDS Integers

CONSTANTS
    NoPid,        \* pid = 0: no process has published itself
    MaxFailures   \* bound: where failure_count stops growing

ProcessState == {"not_started", "starting", "running", "restarting", "stopped"}

Slot(Pids) ==
    [registration : {"registered", "removing"},
     process      : ProcessState,
     pid          : Pids \cup {NoPid},
     restartAfter : {"unset", "future", "past"},
     started      : BOOLEAN,
     failures     : 0 .. MaxFailures,
     wake         : BOOLEAN,
     stop         : BOOLEAN,
     needsRestart : BOOLEAN]

HasActiveProcess(s) == s.process = "starting" \/ s.pid # NoPid

\* When the worker may start next: "never" until something changes the slot,
\* "later" once its deadline passes, or "now".
RestartDelay(s) ==
    IF \/ s.registration # "registered"
       \/ HasActiveProcess(s)
       \/ s.stop
       \/ ~s.needsRestart
      THEN "never"
      ELSE IF s.restartAfter = "future" THEN "later" ELSE "now"

RequestWakeup(s) ==
    IF /\ ~HasActiveProcess(s)
       /\ s.registration = "registered"
       /\ ~s.stop
       /\ ~(s.failures > 0 /\ s.restartAfter # "unset")
      THEN [s EXCEPT !.needsRestart = TRUE, !.restartAfter = "unset",
                     !.wake = FALSE]
      ELSE [s EXCEPT !.wake = TRUE]

\* A slot that reconcile_registrations has just created.
InitializeRegistration ==
    [registration |-> "registered", process |-> "not_started", pid |-> NoPid,
     restartAfter |-> "unset", started |-> FALSE, failures |-> 0,
     wake |-> FALSE, stop |-> FALSE, needsRestart |-> TRUE]

ScheduleExistingRestart(s) ==
    [s EXCEPT !.process = "restarting", !.needsRestart = TRUE]

\* The catalog still lists the worker.  A stop gate opens only when the
\* invocation it was closed on has gone.
ReconcilePresent(s) ==
    LET r == [s EXCEPT !.registration = "registered"]
        opened == [r EXCEPT !.stop = FALSE]
    IN  CASE r.stop /\ HasActiveProcess(r) -> r
          [] r.wake /\ ~(r.stop /\ HasActiveProcess(r)) -> RequestWakeup(opened)
          [] r.stop /\ ~HasActiveProcess(r) /\ ~r.wake ->
               IF r.needsRestart THEN ScheduleExistingRestart(opened)
                                 ELSE [opened EXCEPT !.process = "stopped"]
          [] ~r.stop /\ ~r.wake -> r

RequestStop(s) ==
    [s EXCEPT !.stop = TRUE,
              !.process = IF s.process = "running" THEN "restarting" ELSE @]

MarkRemoving(s) == RequestStop([s EXCEPT !.registration = "removing"])

PrepareStart(s) ==
    [s EXCEPT !.process = "starting", !.needsRestart = FALSE, !.wake = FALSE,
              !.restartAfter = "unset", !.started = FALSE]

MayRun(s) == s.process = "starting" /\ ~s.stop /\ ~s.wake

MarkRunning(s, pid) ==
    IF MayRun(s)
      THEN [s EXCEPT !.process = "running", !.pid = pid,
                     !.needsRestart = FALSE, !.started = TRUE]
      ELSE s

\* What the entry point's return value asks for.
CompleteRun(s, schedule) ==
    CASE schedule = "idle" -> s
      [] schedule = "run_immediately" ->
           [s EXCEPT !.needsRestart = TRUE, !.restartAfter = "unset",
                     !.process = "restarting"]
      [] schedule = "run_after" ->
           [s EXCEPT !.needsRestart = TRUE, !.restartAfter = "future",
                     !.process = "restarting"]

\* A stop whose transaction may still roll back: TRUE in .stopped means that
\* there is a process to signal.
PrepareTransactionalStop(s) ==
    IF HasActiveProcess(s)
      THEN [slot |-> RequestStop([s EXCEPT !.needsRestart = TRUE]), stopped |-> TRUE]
      ELSE [slot |-> s, stopped |-> FALSE]

\* A crash after a run of at least worker_restart_healthy starts the count
\* again; the backoff that follows is never empty.
FailureCountAfterCrash(s, healthy) ==
    LET previous == IF s.started /\ healthy THEN 0 ELSE s.failures
    IN  IF previous < MaxFailures THEN previous + 1 ELSE MaxFailures

\* The slot after an exit that was not stopped by anyone and that left the
\* registration in place.
AfterOwnExit(s, normal, healthy) ==
    LET ended == [s EXCEPT !.pid = NoPid, !.started = FALSE,
                           !.failures = IF normal THEN 0 ELSE @]
    IN  CASE normal /\ s.wake ->
               [ended EXCEPT !.process = "restarting", !.needsRestart = TRUE,
                             !.restartAfter = "unset", !.wake = FALSE]
          [] s.needsRestart /\ ~(normal /\ s.wake) -> ScheduleExistingRestart(ended)
          [] normal /\ ~s.wake /\ ~s.needsRestart ->
               [ended EXCEPT !.process = "stopped", !.restartAfter = "unset"]
          [] ~normal /\ ~s.needsRestart ->
               [ended EXCEPT !.process = "restarting", !.needsRestart = TRUE,
                             !.failures = FailureCountAfterCrash(s, healthy),
                             !.restartAfter = "future"]

\* The exit callback: what it leaves, and whether the catalog must be read
\* again because of it.
ConfirmStopped(s, normal, healthy) ==
    IF ~HasActiveProcess(s)
      THEN [slot |-> s, disposition |-> "stale"]
      ELSE [slot |->
              CASE s.registration # "registered" ->
                     [s EXCEPT !.pid = NoPid, !.started = FALSE,
                               !.failures = IF normal THEN 0 ELSE @,
                               !.process = "stopped", !.stop = FALSE,
                               !.needsRestart = FALSE, !.restartAfter = "unset",
                               !.wake = FALSE]
                [] s.registration = "registered" /\ s.stop ->
                     ScheduleExistingRestart(
                       [s EXCEPT !.pid = NoPid, !.started = FALSE,
                                 !.failures = IF normal THEN 0 ELSE @])
                [] s.registration = "registered" /\ ~s.stop ->
                     AfterOwnExit(s, normal, healthy),
            disposition |->
              IF \/ s.stop \/ s.registration # "registered"
                 \/ s.needsRestart \/ s.wake \/ ~normal
                THEN "reconcile" ELSE "settled"]

\* The launch could not be registered, or its process never came up.
RegistrationFailed(s) ==
    IF ~HasActiveProcess(s) /\ RestartDelay(s) # "now"
      THEN s
      ELSE LET idle == [s EXCEPT !.pid = NoPid, !.started = FALSE]
           IN  IF s.stop
                 THEN ScheduleExistingRestart(idle)
                 ELSE [idle EXCEPT !.process = "not_started",
                                   !.restartAfter = "future",
                                   !.needsRestart = TRUE]
===========================================================================
