-------------------------- MODULE CoordinatorSlot --------------------------
(***************************************************************************)
(* The shared-memory entry of a database's coordinator and the transitions *)
(* its methods make (lagodb-base/src/worker/state/coordinator.rs).         *)
(* `pid` is the published pid and proc number, which are set and cleared  *)
(* together.                                                               *)
(***************************************************************************)

CONSTANT NoPid    \* no process has published itself

Slot(Pids) ==
    [process      : {"starting", "running", "restarting", "stopped"},
     pid          : Pids \cup {NoPid},
     stop         : BOOLEAN,
     needsRestart : BOOLEAN]

New == [process |-> "stopped", pid |-> NoPid, stop |-> FALSE, needsRestart |-> FALSE]

IsActive(s) == s.process \in {"starting", "running", "restarting"}

\* needs_restart deliberately does not revoke it.
HasReconciliationAuthority(s) == IsActive(s) /\ ~s.stop

Reserve(s) ==
    [s EXCEPT !.pid = NoPid, !.process = "starting", !.stop = FALSE,
              !.needsRestart = FALSE]

MayRun(s) == s.process = "starting" /\ ~s.stop /\ ~s.needsRestart

MarkRunning(s, pid) ==
    IF MayRun(s) THEN [s EXCEPT !.process = "running", !.pid = pid] ELSE s

RequestRestart(s) == [s EXCEPT !.needsRestart = TRUE]

RequestStop(s) ==
    [s EXCEPT !.needsRestart = FALSE, !.stop = TRUE,
              !.process = IF s.process \in {"starting", "running"}
                            THEN "restarting" ELSE @]

RequestHandoff(s) == RequestRestart(RequestStop(s))

\* Faulty variant: a request made after the last look at the workers is lost.
ConfirmForgets(s, normal) ==
    IF ~IsActive(s)
      THEN s
      ELSE [s EXCEPT !.process = "stopped", !.pid = NoPid,
                     !.needsRestart = ~s.stop /\ ~normal]

\* The exit callback.  A failure keeps the request for the supervisor.
ConfirmStopped(s, normal) ==
    IF ~IsActive(s)
      THEN s
      ELSE [s EXCEPT !.process = "stopped", !.pid = NoPid,
                     !.needsRestart = @ \/ (~s.stop /\ ~normal)]

ResetAfterRegistrationFailure(s) ==
    [s EXCEPT !.pid = NoPid, !.process = "stopped", !.stop = FALSE,
              !.needsRestart = TRUE]
===========================================================================
