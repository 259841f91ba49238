------------------------ MODULE ParallelQueryProofs ------------------------
(***************************************************************************)
(* Proofs about ParallelQuery, for any number of workers and any budgets   *)
(* of rescans, errors and faults: workers and leader never meet unprepared *)
(* (WorkersFollowTheLeader), and every run has a plan and a parallel       *)
(* context of its own (RunsAreFreshAndOwned).                              *)
(***************************************************************************)
EXTENDS ParallelQuery, TLAPS

\* Zenon proves most leaves, SMT the others.
USE Zenon, SMTT(30)

Places == {"none", "starting", "attached", "gate", "asleep", "running", "exited", "failed", "lost"}

PlanType == [kind : {"none", "serial", "filtered", "parallel"}, sources : BOOLEAN,
             runs : Nat, values : Nat]

Statement == [phase : {"pending", "ready", "running", "exhausted", "released"},
              plan : PlanType, params : Nat, values : Nat, rebind : BOOLEAN, rebuild : BOOLEAN]

Groups == [owner : {"none", "launch", "run", "finished"}, watched : BOOLEAN, mesh : BOOLEAN]

Controls == [gate : {"wait", "run", "abort"}, sized : BOOLEAN, region : SUBSET Region]

Contexts == [open : BOOLEAN, mapped : BOOLEAN, level : 0..1]

-----------------------------------------------------------------------------
(* The inductive invariant.                                                 *)

\* The leader in a launch; waiting for the workers of a run; in an abort.
Opening == {"setup", "writing", "activating", "broadcasting"}
Launching == Opening \cup {"attaching", "short"}
Waiting == {"finishing", "failing"}
Aborting == {"erring", "terminating", "releasing"}

TypeInv ==
  /\ stmt \in Statement
  /\ lead \in {"idle", "over"} \cup Launching \cup Waiting \cup Aborting
  /\ pg \in Contexts /\ group \in Groups /\ control \in Controls
  /\ worker \in [Producers -> Places] /\ waiting \in SUBSET Producers

\* A plan is compiled for the values of the statement, which are the parameters
\* unless a rescan has asked for new ones; it has run once while rows are produced,
\* and not at all when a launch is under way; and a plan the next run will use
\* without compiling it again can be executed.
PlanInv ==
  /\ stmt.phase \in {"ready", "running", "exhausted"} =>
       stmt.plan.values = stmt.values /\ (stmt.rebind \/ stmt.values = stmt.params)
  /\ stmt.phase = "running" => stmt.plan.runs = 1 /\ ~stmt.rebind
  /\ lead \in Launching =>
       stmt.phase = "ready" /\ ~stmt.rebind /\ ~stmt.rebuild /\ stmt.plan.runs = 0
  /\ stmt.phase = "ready" /\ lead \in {"idle"} \cup Waiting /\ ~stmt.rebind /\ ~stmt.rebuild =>
       /\ stmt.plan.kind = "parallel" => stmt.plan.sources /\ stmt.plan.runs = 0
       /\ stmt.plan.kind = "filtered" => stmt.plan.runs = 0

\* The parallel context is open and mapped from the launch to the end of the run that
\* owns it; whoever may still abandon it after PostgreSQL's abort has detached it
\* watches the mapping, wrapper and mesh.
OwnerInv ==
  /\ lead \in {"idle", "over"} =>
       /\ pg.open <=> group.owner = "run"
       /\ pg.level = IF pg.open THEN 1 ELSE 0
  /\ lead = "idle" /\ group.owner = "run" => stmt.phase = "running" /\ pg.mapped
  /\ lead = "over" => group.owner # "run"
  /\ lead \in Launching =>
       group.owner = "launch" /\ group.watched /\ pg.open /\ pg.mapped /\ pg.level = 1
  /\ lead \in Waiting => group.owner = "run" /\ pg.open /\ pg.mapped /\ pg.level = 1
  /\ lead = "releasing" => pg = NoContext
  /\ group.owner = "run" => group.watched /\ group.mesh
  /\ lead \in {"activating", "broadcasting"} => group.mesh
  /\ touched = FALSE

Two == \E v, w \in Launched : v # w

\* The gate opens on a complete region, for at least two workers, and stays open as
\* long as a run owns them; once it is decided, and the broadcast is out, no sleeper
\* is left on the wait list.
GateInv ==
  /\ lead \in Opening => Two
  /\ lead = "writing" => "transport" \in control.region
  /\ lead \in {"activating", "broadcasting"} => control.region = Region
  /\ control.gate = "run" => control.sized /\ control.region = Region /\ Two
  /\ \A w \in Producers : worker[w] = "running" => control.gate = "run"
  /\ lead = "broadcasting" \/ group.owner = "run" => control.gate = "run"
  /\ lead = "short" => control.gate # "wait"
  /\ control.gate # "wait" /\ lead # "broadcasting" =>
       \A w \in Producers : worker[w] = "asleep" => w \notin waiting

IInv == TypeInv /\ PlanInv /\ OwnerInv /\ GateInv

-----------------------------------------------------------------------------
(* What the operators of the model return.                                  *)

\* PreparedPhysicalPlan::prepare: a plan starts unexecuted, a parallel one with sources.
LEMMA CompiledPlan ==
  ASSUME NEW k \in {"serial", "filtered", "parallel"}, NEW v \in Nat
  PROVE  /\ Compiled(k, v) \in PlanType /\ Compiled(k, v).runs = 0
         /\ Compiled(k, v).values = v /\ Compiled(k, v).kind = k
         /\ k = "parallel" => Compiled(k, v).sources
<1>1. (k = "parallel") \in BOOLEAN /\ 0 \in Nat
  OBVIOUS
<1> QED
  BY <1>1, ZenonT(20) DEF Compiled, PlanType

\* start_run rebuilds or resets the plan: what it executes is compiled for the
\* current parameters, has not run, and a parallel plan has its sources.
LEMMA RebuiltPlan ==
  ASSUME TypeInv, PlanInv, Ready, NEW s \in RebuildPlan(stmt)
  PROVE  /\ s \in Statement /\ s.phase = "ready" /\ ~s.rebind /\ ~s.rebuild
         /\ s.plan.runs = 0 /\ s.plan.values = s.values /\ s.values = s.params
         /\ s.plan.kind = "parallel" => s.plan.sources
<1>1. stmt \in Statement /\ stmt.phase = "ready" /\ lead = "idle"
  BY DEF TypeInv, Ready
<1>2. CASE stmt.rebind \/ stmt.rebuild
  <2> DEFINE v == IF stmt.rebind THEN stmt.params ELSE stmt.values
  <2>1. PICK p \in Plans(v) :
          s = [stmt EXCEPT !.plan = p, !.values = v, !.rebind = FALSE, !.rebuild = FALSE]
    BY <1>2, ZenonT(20) DEF RebuildPlan
  <2>2. v \in Nat /\ v = stmt.params
    BY <1>1, SMT DEF PlanInv, Statement
  <2>3. /\ p \in PlanType /\ p.runs = 0 /\ p.values = v
        /\ p.kind = "parallel" => p.sources
    BY <2>2, CompiledPlan DEF Plans
  <2> HIDE DEF v
  <2> QED
    BY <1>1, <2>1, <2>2, <2>3, ZenonT(20) DEF Statement
<1>3. CASE ~(stmt.rebind \/ stmt.rebuild)
  <2>1. s = [stmt EXCEPT !.plan.runs = IF stmt.plan.kind = "parallel" THEN @ ELSE 0]
    BY <1>3, SMT DEF RebuildPlan
  <2>2. /\ stmt.plan.values = stmt.values /\ stmt.values = stmt.params
        /\ stmt.plan.kind = "parallel" => stmt.plan.sources /\ stmt.plan.runs = 0
    BY <1>1, <1>3, SMT DEF PlanInv
  <2> QED
    BY <1>1, <1>3, <2>1, <2>2, SMT DEF Statement, PlanType
<1> QED
  BY <1>2, <1>3

\* Executing a plan makes the run and counts it.
LEMMA ExecutedPlan ==
  ASSUME NEW s \in Statement, s.plan.runs = 0
  PROVE  /\ Executed(s) \in Statement /\ Executed(s).phase = "running"
         /\ Executed(s).plan.runs = 1 /\ Executed(s).plan.values = s.plan.values
         /\ Executed(s).values = s.values /\ Executed(s).params = s.params
         /\ Executed(s).rebind = s.rebind
<1>1. s.plan.runs + 1 = 1 /\ 1 \in Nat
  OBVIOUS
<1>2. s.plan \in PlanType
  BY DEF Statement
<1>3. LET q == [s.plan EXCEPT !.runs = 1]
      IN  q \in PlanType /\ q.runs = 1 /\ q.values = s.plan.values
  BY <1>1, <1>2, ZenonT(20) DEF PlanType
<1>4. Executed(s) = [s EXCEPT !.phase = "running", !.plan = [s.plan EXCEPT !.runs = 1]]
  BY <1>1, ZenonT(20) DEF Executed, Statement
<1> QED
  BY <1>3, <1>4, ZenonT(20) DEF Statement

\* The serial plan that replaces a parallel one is compiled for the same values.
LEMMA SerialPlan ==
  ASSUME NEW s \in Statement, NEW p \in SerialPlans(s.values)
  PROVE  LET t == [s EXCEPT !.plan = p]
         IN  /\ t \in Statement /\ t.plan.runs = 0 /\ t.plan.values = t.values
             /\ t.values = s.values /\ t.params = s.params /\ t.rebind = s.rebind
<1>1. p \in PlanType /\ p.runs = 0 /\ p.values = s.values
  <2>1. s.values \in Nat
    BY SMT DEF Statement
  <2> QED
    BY <2>1, CompiledPlan DEF SerialPlans
<1> QED
  BY <1>1, SMT DEF Statement

\* abort_activation decides an undecided gate and wakes whoever waits at it.
LEMMA GateAborted ==
  ASSUME TypeInv, AbortActivation
  PROVE  /\ control' \in Controls /\ control'.gate # "wait"
         /\ control'.sized = control.sized /\ control'.region = control.region
         /\ control'.gate = "run" <=> control.gate = "run"
         /\ waiting' \in SUBSET waiting
         /\ control'.gate # control.gate => waiting' = {}
  BY SMT DEF TypeInv, AbortActivation, Controls

\* The wrapper is dropped: the gate is aborted or left alone, and the mapping is not
\* touched unless it is there.
LEMMA Abandoned ==
  ASSUME TypeInv, touched = FALSE, Abandon,
         pg.mapped \/ (group.watched /\ group.mesh)
  PROVE  /\ control' \in Controls
         /\ control'.sized = control.sized /\ control'.region = control.region
         /\ control'.gate = "run" <=> control.gate = "run"
         /\ waiting' \in SUBSET waiting
         /\ control'.gate # control.gate => waiting' = {}
         /\ group' = NoGroup /\ touched' = FALSE
<1>1. group' = NoGroup /\ touched' = FALSE
  BY ZenonT(20) DEF TypeInv, Abandon, ContextAlive, Contexts, Groups
<1>2. CASE ContextAlive
  BY <1>1, <1>2, GateAborted DEF Abandon
<1>3. CASE ~ContextAlive
  BY <1>1, <1>3 DEF Abandon, TypeInv
<1> QED
  BY <1>2, <1>3

-----------------------------------------------------------------------------
(* What a step of the leader leaves alone.                                  *)

\* The plan invariant survives a step that does not touch the statement and enters
\* neither a launch nor a state between callbacks from elsewhere.
LEMMA PlanKept ==
  ASSUME PlanInv, stmt' = stmt,
         lead' \in Launching => lead \in Launching,
         lead' \in {"idle"} \cup Waiting => lead \in {"idle"} \cup Waiting
  PROVE  PlanInv'
  BY DEF PlanInv

\* The gate invariant survives a step that does not open the gate, moves no worker
\* and puts nobody on the wait list.
LEMMA GateKept ==
  ASSUME GateInv, worker' = worker,
         control'.sized = control.sized, control'.region = control.region,
         control'.gate = "run" <=> control.gate = "run",
         waiting' \in SUBSET waiting,
         control'.gate # control.gate \/ lead = "broadcasting" => waiting' = {},
         lead' \notin Opening,
         group'.owner = "run" => control.gate = "run",
         lead' = "short" => control'.gate # "wait"
  PROVE  GateInv'
<1>1. Launched' = Launched /\ (Two' <=> Two)
  BY DEF Launched, Two
<1>2. lead' \notin {"writing", "activating", "broadcasting"}
  BY DEF Opening
<1>3. control'.gate # "wait" => \A w \in Producers : worker'[w] = "asleep" => w \notin waiting'
  BY DEF GateInv
<1> QED
  BY <1>1, <1>2, <1>3 DEF GateInv

\* An ERROR: the launch or the run is abandoned, and PostgreSQL's abort comes next.
LEMMA ErrorAbandons ==
  ASSUME IInv, lead \in Launching \cup Waiting, lead # "broadcasting",
         Fail, Abandon, stmt' = stmt, pg' = pg, worker' = worker
  PROVE  IInv'
<1>1. pg.mapped /\ touched = FALSE /\ TypeInv /\ lead' = "erring"
  BY DEF IInv, OwnerInv, Fail
<1>2. /\ control' \in Controls
      /\ control'.sized = control.sized /\ control'.region = control.region
      /\ control'.gate = "run" <=> control.gate = "run"
      /\ waiting' \in SUBSET waiting
      /\ control'.gate # control.gate => waiting' = {}
      /\ group' = NoGroup /\ touched' = FALSE
  BY <1>1, Abandoned
<1>3. NoGroup \in Groups /\ NoGroup.owner = "none"
  BY SMT DEF NoGroup, Groups
<1>4. TypeInv'
  BY <1>1, <1>2, <1>3 DEF TypeInv, Aborting
<1>5. PlanInv'
  BY <1>1, PlanKept DEF IInv, Launching, Opening, Waiting
<1>6. OwnerInv'
  BY <1>1, <1>2, <1>3 DEF OwnerInv, Launching, Opening, Waiting
<1>7. GateInv'
  BY <1>1, <1>2, <1>3, GateKept DEF IInv, Opening
<1> QED
  BY <1>4, <1>5, <1>6, <1>7 DEF IInv

-----------------------------------------------------------------------------
(* Executor callbacks and the start of a run.                               *)

\* Without a run of its own the leader has no parallel context between callbacks.
LEMMA NoRunNoContext ==
  ASSUME IInv, lead = "idle", group.owner # "run"
  PROVE  pg.open = FALSE /\ pg.level = 0
<1>1. pg.open \in BOOLEAN
  BY SMT DEF IInv, TypeInv, Contexts
<1> QED
  BY <1>1 DEF IInv, OwnerInv

\* first_exec prepares a plan, or fails and consumes the pending binding.
LEMMA StartStep ==
  ASSUME IInv, Start
  PROVE  IInv'
<1>1. /\ lead = "idle" /\ stmt \in Statement /\ stmt.phase = "pending"
      /\ UNCHANGED <<pg, group, control, worker, waiting, touched>>
  BY DEF Start, process, IInv, TypeInv
<1>2. group.owner # "run"
  BY <1>1 DEF IInv, OwnerInv
<1>3. CASE \E p \in Plans(stmt.params) :
             /\ stmt' = [stmt EXCEPT !.phase = "ready", !.plan = p, !.values = stmt.params]
             /\ lead' = lead
  <2>1. PICK p \in Plans(stmt.params) :
          /\ stmt' = [stmt EXCEPT !.phase = "ready", !.plan = p, !.values = stmt.params]
          /\ lead' = lead
    BY <1>3
  <2>2. /\ p \in PlanType /\ p.runs = 0 /\ p.values = stmt.params
        /\ p.kind = "parallel" => p.sources
    <3>1. stmt.params \in Nat
      BY <1>1, SMT DEF Statement
    <3> QED
      BY <3>1, CompiledPlan DEF Plans
  <2>3. /\ stmt' \in Statement /\ stmt'.phase = "ready" /\ stmt'.plan = p
        /\ stmt'.values = stmt'.params /\ stmt'.values = stmt.params
    BY <1>1, <2>1, <2>2, ZenonT(20) DEF Statement
  <2>4. TypeInv'
    BY <1>1, <2>1, <2>3 DEF IInv, TypeInv
  <2>5. PlanInv'
    BY <1>1, <2>1, <2>2, <2>3 DEF PlanInv, Launching, Opening
  <2>6. OwnerInv'
    BY <1>1, <1>2, <2>1 DEF IInv, OwnerInv, Launching, Opening, Waiting
  <2>7. GateInv'
    BY <1>1, <1>2, <2>1, GateKept DEF IInv, Opening
  <2> QED
    BY <2>4, <2>5, <2>6, <2>7 DEF IInv
<1>4. CASE lead' = "erring" /\ stmt' = [stmt EXCEPT !.phase = "released"]
  <2>1. stmt' \in Statement /\ stmt'.phase = "released"
    BY <1>1, <1>4, SMT DEF Statement
  <2>2. TypeInv'
    BY <1>1, <1>4, <2>1 DEF IInv, TypeInv, Aborting
  <2>3. PlanInv'
    BY <1>4, <2>1 DEF PlanInv, Launching, Opening
  <2>4. OwnerInv'
    BY <1>1, <1>2, <1>4 DEF IInv, OwnerInv, Launching, Opening, Waiting
  <2>5. GateInv'
    BY <1>1, <1>2, <1>4, GateKept DEF IInv, Opening
  <2> QED
    BY <2>2, <2>3, <2>4, <2>5 DEF IInv
<1> QED
  BY <1>3, <1>4 DEF Start, Fail

\* A plan that has not run, compiled for the current parameters, is executed without
\* workers.
LEMMA RunsSerially ==
  ASSUME IInv, Ready, NEW s \in Statement,
         s.plan.runs = 0, s.plan.values = s.values, s.values = s.params, ~s.rebind,
         stmt' = Executed(s), group' \in {group, NoGroup},
         UNCHANGED <<lead, pg, control, process, touched>>
  PROVE  IInv'
<1>1. /\ stmt' \in Statement /\ stmt'.phase = "running" /\ stmt'.plan.runs = 1
      /\ stmt'.plan.values = stmt'.values /\ stmt'.values = stmt'.params /\ ~stmt'.rebind
  BY ExecutedPlan
<1>2. /\ lead = "idle" /\ lead' = "idle" /\ stmt.phase = "ready"
      /\ UNCHANGED <<pg, control, worker, waiting, touched>>
  BY DEF Ready, process
<1>3. group.owner # "run"
  BY <1>2 DEF IInv, OwnerInv
<1>4. group' \in Groups /\ group'.owner # "run"
  <2>1. NoGroup \in Groups /\ NoGroup.owner # "run"
    BY ZenonT(20) DEF NoGroup, Groups
  <2> QED
    BY <1>3, <2>1 DEF IInv, TypeInv
<1>5. TypeInv'
  BY <1>1, <1>2, <1>4 DEF IInv, TypeInv
<1>6. PlanInv'
  BY <1>1, <1>2 DEF PlanInv, Launching, Opening
<1>7. OwnerInv'
  BY <1>2, <1>3, <1>4, NoRunNoContext DEF IInv, OwnerInv, Launching, Opening, Waiting
<1>8. GateInv'
  BY <1>2, <1>4, GateKept DEF IInv, Opening
<1> QED
  BY <1>5, <1>6, <1>7, <1>8 DEF IInv

\* start_run with a serial plan.
LEMMA StartSerialStep ==
  ASSUME IInv, StartSerial
  PROVE  IInv'
<1>1. PICK s \in RebuildPlan(stmt) : stmt' = Executed(s)
  BY DEF StartSerial
<1>2. /\ s \in Statement /\ s.plan.runs = 0 /\ s.plan.values = s.values
      /\ s.values = s.params /\ ~s.rebind
  BY RebuiltPlan DEF IInv, StartSerial
<1>3. /\ Ready /\ group' \in {group, NoGroup}
      /\ UNCHANGED <<lead, pg, control, process, touched>>
  BY DEF StartSerial
<1> QED
  BY <1>1, <1>2, <1>3, RunsSerially

\* start_run with a parallel plan for which there is no group.
LEMMA StartWithoutGroupStep ==
  ASSUME IInv, StartWithoutGroup
  PROVE  IInv'
<1>1. PICK s \in RebuildPlan(stmt) :
        \E p \in SerialPlans(s.values) : stmt' = Executed([s EXCEPT !.plan = p])
  BY DEF StartWithoutGroup
<1>2. PICK p \in SerialPlans(s.values) : stmt' = Executed([s EXCEPT !.plan = p])
  BY <1>1
<1>3. s \in Statement /\ s.values = s.params /\ ~s.rebind
  BY RebuiltPlan DEF IInv, StartWithoutGroup
<1> DEFINE t == [s EXCEPT !.plan = p]
<1>4. /\ t \in Statement /\ t.plan.runs = 0 /\ t.plan.values = t.values
      /\ t.values = t.params /\ ~t.rebind
  BY <1>3, SerialPlan
<1>5. /\ Ready /\ group' \in {group, NoGroup}
      /\ UNCHANGED <<lead, pg, control, process, touched>>
  BY DEF StartWithoutGroup
<1>6. stmt' = Executed(t)
  BY <1>2
<1> HIDE DEF t
<1> QED
  BY <1>4, <1>5, <1>6, RunsSerially

\* The launch of a group takes the sources of the plan, opens a context, and may fail.
LEMMA LaunchGroupStep ==
  ASSUME IInv, LaunchGroup
  PROVE  IInv'
<1>1. lead = "idle" /\ stmt.phase = "ready" /\ Ready /\ touched' = touched
  BY DEF LaunchGroup, Ready
<1>2. group.owner # "run"
  BY <1>1 DEF IInv, OwnerInv
<1>3. pg.open = FALSE /\ pg.level = 0
  BY <1>1, <1>2, NoRunNoContext
<1>4. PICK s \in RebuildPlan(stmt) :
        /\ s.plan.kind = "parallel"
        /\ stmt' = [s EXCEPT !.plan.sources = FALSE]
        /\ IF s.plan.sources
           THEN /\ pg' = [open |-> TRUE, mapped |-> TRUE, level |-> pg.level + 1]
                /\ control' = NewControl /\ waiting' = {}
                /\ \/ /\ \E n \in {0} \cup Producers :
                           worker' = [w \in Producers |-> IF w <= n THEN "starting" ELSE "none"]
                      /\ group' = [owner |-> "launch", watched |-> TRUE, mesh |-> FALSE]
                      /\ lead' = "attaching"
                   \/ /\ lead' = "erring" /\ group' = NoGroup
                      /\ worker' = [w \in Producers |-> "none"]
           ELSE TRUE
  BY DEF LaunchGroup, Fail
<1>5. /\ s \in Statement /\ s.phase = "ready" /\ ~s.rebind /\ ~s.rebuild
      /\ s.plan.runs = 0 /\ s.plan.values = s.values /\ s.values = s.params
      /\ s.plan.sources
  BY <1>1, <1>4, RebuiltPlan DEF IInv
<1>6. /\ stmt' \in Statement /\ stmt'.phase = "ready" /\ ~stmt'.rebind /\ ~stmt'.rebuild
      /\ stmt'.plan.runs = 0 /\ stmt'.plan.values = stmt'.values /\ stmt'.values = stmt'.params
  BY <1>4, <1>5, ZenonT(20) DEF Statement, PlanType
<1>7. /\ pg' \in Contexts /\ pg'.open /\ pg'.mapped /\ pg'.level = 1
      /\ control' \in Controls /\ control'.gate = "wait" /\ waiting' = {}
  <2>1. pg.level + 1 = 1 /\ 1 \in 0..1
    BY <1>3, SMT
  <2>2. pg' = [open |-> TRUE, mapped |-> TRUE, level |-> 1]
    BY <1>4, <1>5, <2>1
  <2>3. pg' \in Contexts /\ pg'.open /\ pg'.mapped /\ pg'.level = 1
    BY <2>1, <2>2, ZenonT(20) DEF Contexts
  <2>4. NewControl \in Controls /\ NewControl.gate = "wait"
    BY ZenonT(20) DEF Controls, NewControl
  <2>5. control' = NewControl /\ waiting' = {}
    BY <1>4, <1>5
  <2> QED
    BY <2>3, <2>4, <2>5
<1>8. /\ worker' \in [Producers -> {"starting", "none"}]
      /\ group' \in Groups /\ group'.owner # "run"
      /\ \/ lead' = "attaching" /\ group'.owner = "launch" /\ group'.watched
         \/ lead' = "erring"
  <2>1. CASE lead' = "erring" /\ group' = NoGroup /\ worker' = [w \in Producers |-> "none"]
    BY <2>1, SMT DEF NoGroup, Groups
  <2>2. CASE /\ \E n \in {0} \cup Producers :
                  worker' = [w \in Producers |-> IF w <= n THEN "starting" ELSE "none"]
             /\ group' = [owner |-> "launch", watched |-> TRUE, mesh |-> FALSE]
             /\ lead' = "attaching"
    <3>1. worker' \in [Producers -> {"starting", "none"}]
      BY <2>2
    <3>2. group' \in Groups /\ group'.owner = "launch" /\ group'.watched
      BY <2>2, SMT DEF Groups
    <3> QED
      BY <2>2, <3>1, <3>2
  <2> QED
    BY <1>4, <1>5, <2>1, <2>2
<1>9. \A w \in Producers : worker'[w] \in Places /\ worker'[w] \notin {"running", "asleep"}
  BY <1>8 DEF Places
<1>10. TypeInv'
  <2>1. worker' \in [Producers -> Places]
    BY <1>8 DEF Places
  <2> QED
    BY <1>6, <1>7, <1>8, <2>1 DEF TypeInv, Launching, Aborting
<1>11. PlanInv'
  BY <1>6, <1>8 DEF PlanInv, Waiting
<1>12. OwnerInv'
  BY <1>1, <1>7, <1>8 DEF IInv, OwnerInv, Launching, Opening, Waiting
<1>13. GateInv'
  BY <1>7, <1>8, <1>9 DEF GateInv, Opening
<1> QED
  BY <1>10, <1>11, <1>12, <1>13 DEF IInv

-----------------------------------------------------------------------------
(* The launch.                                                              *)

\* Two attached workers go on; fewer are sent home.
LEMMA AttachStep ==
  ASSUME IInv, Attach
  PROVE  IInv'
<1>1. lead = "attaching" /\ UNCHANGED <<stmt, pg, group, worker, touched>>
  BY DEF Attach
<1>2. Launched' = Launched /\ (Two' <=> Two)
  BY <1>1 DEF Launched, Two
<1>3. CASE Two
  <2>1. lead' = "setup" /\ UNCHANGED <<control, waiting>>
    BY <1>3 DEF Attach, Two
  <2>2. TypeInv'
    BY <1>1, <2>1 DEF IInv, TypeInv, Launching, Opening
  <2>3. PlanInv'
    BY <1>1, <2>1, PlanKept DEF IInv, Launching, Waiting
  <2>4. OwnerInv'
    BY <1>1, <2>1 DEF IInv, OwnerInv, Launching, Opening, Waiting
  <2>5. GateInv'
    BY <1>1, <1>2, <1>3, <2>1 DEF IInv, GateInv
  <2> QED
    BY <2>2, <2>3, <2>4, <2>5 DEF IInv
<1>4. CASE ~Two
  <2>1. lead' = "short" /\ AbortActivation
    BY <1>4 DEF Attach, Two, ShortLaunch
  <2>2. /\ control' \in Controls /\ control'.gate # "wait"
        /\ control'.sized = control.sized /\ control'.region = control.region
        /\ control'.gate = "run" <=> control.gate = "run"
        /\ waiting' \in SUBSET waiting
        /\ control'.gate # control.gate => waiting' = {}
    BY <2>1, GateAborted DEF IInv
  <2>3. TypeInv'
    BY <1>1, <2>1, <2>2 DEF IInv, TypeInv, Launching
  <2>4. PlanInv'
    BY <1>1, <2>1, PlanKept DEF IInv, Launching, Waiting
  <2>5. OwnerInv'
    BY <1>1, <2>1 DEF IInv, OwnerInv, Launching, Opening, Waiting
  <2>6. group'.owner # "run"
    BY <1>1 DEF IInv, OwnerInv, Launching
  <2>7. GateInv'
    BY <1>1, <2>1, <2>2, <2>6, GateKept DEF IInv, Opening
  <2> QED
    BY <2>3, <2>4, <2>5, <2>7 DEF IInv
<1> QED
  BY <1>3, <1>4

\* leader_setup, with the gate still closed.
LEMMA SetUpStep ==
  ASSUME IInv, SetUpTransport
  PROVE  IInv'
<1>1. /\ lead = "setup" /\ lead' = "writing"
      /\ UNCHANGED <<stmt, pg, group, worker, waiting, touched>>
  BY DEF SetUpTransport, process
<1>2. /\ control' \in Controls /\ control'.gate = control.gate
      /\ control'.sized = control.sized /\ "transport" \in control'.region
      /\ control.region = Region => control'.region = Region
  BY SMT DEF SetUpTransport, IInv, TypeInv, Controls, Region
<1>3. Launched' = Launched /\ (Two' <=> Two)
  BY <1>1 DEF Launched, Two
<1>4. TypeInv'
  BY <1>1, <1>2 DEF IInv, TypeInv, Launching, Opening
<1>5. PlanInv'
  BY <1>1, PlanKept DEF IInv, Launching, Opening, Waiting
<1>6. OwnerInv'
  BY <1>1 DEF IInv, OwnerInv, Launching, Opening, Waiting
<1>7. GateInv'
  BY <1>1, <1>2, <1>3 DEF IInv, GateInv, Opening
<1> QED
  BY <1>4, <1>5, <1>6, <1>7 DEF IInv

\* The inventory completes the region, and the mesh watches the mapping.
LEMMA WriteStep ==
  ASSUME IInv, WriteInventory
  PROVE  IInv'
<1>1. /\ lead = "writing" /\ lead' = "activating"
      /\ UNCHANGED <<stmt, pg, worker, waiting, touched>>
  BY DEF WriteInventory, process
<1>2. "transport" \in control.region /\ control \in Controls
  BY <1>1 DEF IInv, GateInv, TypeInv
<1>3. /\ control' \in Controls /\ control'.gate = control.gate
      /\ control'.sized = control.sized /\ control'.region = Region
  BY <1>2, SMT DEF WriteInventory, Controls, Region
<1>4. /\ group' \in Groups /\ group'.owner = group.owner
      /\ group'.watched = group.watched /\ group'.mesh
  BY ZenonT(20) DEF WriteInventory, IInv, TypeInv, Groups
<1>5. Launched' = Launched /\ (Two' <=> Two)
  BY <1>1 DEF Launched, Two
<1>6. TypeInv'
  BY <1>1, <1>3, <1>4 DEF IInv, TypeInv, Launching, Opening
<1>7. PlanInv'
  BY <1>1, PlanKept DEF IInv, Launching, Opening, Waiting
<1>8. OwnerInv'
  BY <1>1, <1>4 DEF IInv, OwnerInv, Launching, Opening, Waiting
<1>9. GateInv'
  BY <1>1, <1>3, <1>4, <1>5 DEF IInv, GateInv, Opening
<1> QED
  BY <1>6, <1>7, <1>8, <1>9 DEF IInv

\* The stores of activate open the gate.
LEMMA ActivateStep ==
  ASSUME IInv, Activate
  PROVE  IInv'
<1>1. /\ lead = "activating" /\ lead' = "broadcasting"
      /\ UNCHANGED <<stmt, pg, group, worker, waiting, touched>>
  BY DEF Activate, process
<1>2. /\ control' \in Controls /\ control'.gate = "run" /\ control'.sized
      /\ control'.region = control.region
  BY ZenonT(20) DEF Activate, IInv, TypeInv, Controls
<1>3. control.region = Region /\ Two
  BY <1>1 DEF IInv, GateInv, Opening
<1>4. Two'
  BY <1>1, <1>3 DEF Launched, Two
<1>5. TypeInv'
  BY <1>1, <1>2 DEF IInv, TypeInv, Launching, Opening
<1>6. PlanInv'
  BY <1>1, PlanKept DEF IInv, Launching, Opening, Waiting
<1>7. OwnerInv'
  BY <1>1 DEF IInv, OwnerInv, Launching, Opening, Waiting
<1>8. GateInv'
  BY <1>1, <1>2, <1>3, <1>4 DEF GateInv
<1> QED
  BY <1>5, <1>6, <1>7, <1>8 DEF IInv

\* The broadcast, and the run is installed or dropped.
LEMMA BroadcastStep ==
  ASSUME IInv, Broadcast
  PROVE  IInv'
<1>1. /\ lead = "broadcasting" /\ waiting' = {}
      /\ UNCHANGED <<pg, control, worker, touched>>
  BY DEF Broadcast
<1>2. /\ stmt \in Statement /\ stmt.phase = "ready" /\ ~stmt.rebind /\ stmt.plan.runs = 0
      /\ stmt.plan.values = stmt.values /\ stmt.values = stmt.params
  BY <1>1 DEF IInv, TypeInv, PlanInv, Launching, Opening
<1>3. /\ group \in Groups /\ group.watched /\ group.mesh /\ control.gate = "run"
      /\ pg.open /\ pg.mapped /\ pg.level = 1 /\ touched = FALSE
  BY <1>1 DEF IInv, TypeInv, OwnerInv, GateInv, Launching, Opening
<1>4. CASE /\ lead' = "idle" /\ stmt' = Executed(stmt)
           /\ group' = [group EXCEPT !.owner = "run"]
  <2>1. /\ stmt' \in Statement /\ stmt'.phase = "running" /\ stmt'.plan.runs = 1
        /\ stmt'.plan.values = stmt'.values /\ stmt'.values = stmt'.params /\ ~stmt'.rebind
    BY <1>2, <1>4, ExecutedPlan
  <2>2. group' \in Groups /\ group'.owner = "run" /\ group'.watched /\ group'.mesh
    BY <1>3, <1>4, SMT DEF Groups
  <2>3. TypeInv'
    BY <1>1, <1>4, <2>1, <2>2 DEF IInv, TypeInv
  <2>4. PlanInv'
    BY <1>4, <2>1 DEF PlanInv, Launching, Opening
  <2>5. OwnerInv'
    BY <1>1, <1>3, <1>4, <2>1, <2>2 DEF OwnerInv, Launching, Opening, Waiting
  <2>6. GateInv'
    BY <1>1, <1>3, <1>4, GateKept DEF IInv, Opening
  <2> QED
    BY <2>3, <2>4, <2>5, <2>6 DEF IInv
<1>5. CASE lead' = "erring" /\ stmt' = stmt /\ group' = NoGroup
  <2>1. group' \in Groups /\ group'.owner = "none"
    BY <1>5, SMT DEF NoGroup, Groups
  <2>2. TypeInv'
    BY <1>1, <1>5, <2>1 DEF IInv, TypeInv, Aborting
  <2>3. PlanInv'
    BY <1>5, PlanKept DEF IInv, Launching, Opening, Waiting
  <2>4. OwnerInv'
    BY <1>1, <1>3, <1>5, <2>1 DEF OwnerInv, Launching, Opening, Waiting
  <2>5. GateInv'
    BY <1>1, <1>3, <1>5, GateKept DEF IInv, Opening
  <2> QED
    BY <2>2, <2>3, <2>4, <2>5 DEF IInv
<1> QED
  BY <1>4, <1>5 DEF Broadcast, Fail

\* The steps of the launch and of its end that drop it with an ERROR.
LEMMA FailSteps ==
  ASSUME IInv, AttachFails \/ LaunchFails \/ FinishFails
  PROVE  IInv'
<1>1. lead \in Launching \cup Waiting /\ lead # "broadcasting"
  BY DEF AttachFails, LaunchFails, FinishFails, Launching, Opening, Waiting
<1>2. Fail /\ Abandon /\ stmt' = stmt /\ pg' = pg /\ worker' = worker
  BY DEF AttachFails, LaunchFails, FinishFails
<1> QED
  BY <1>1, <1>2, ErrorAbandons

-----------------------------------------------------------------------------
(* The end of a run.                                                        *)

\* finish_run between callbacks: with a run the leader goes on to wait for its
\* workers, without one the callback is over; at most one worker changes, and that
\* one had failed.
LEMMA RunFinishes ==
  ASSUME IInv, lead = "idle", NEW budget, FinishRun(budget),
         stmt' \in Statement, PlanInv',
         UNCHANGED <<pg, group, control, waiting, touched>>
  PROVE  IInv'
<1>1. /\ worker' \in [Producers -> Places]
      /\ \A w \in Producers : worker'[w] = worker[w]
                                \/ (worker[w] = "failed" /\ worker'[w] = "exited")
  <2>1. worker \in [Producers -> Places]
    BY DEF IInv, TypeInv
  <2>2. CASE worker' = worker
    BY <2>1, <2>2
  <2>3. CASE \E w \in Producers : worker[w] = "failed" /\ worker' = [worker EXCEPT ![w] = "exited"]
    BY <2>1, <2>3 DEF Places
  <2> QED
    BY <2>2, <2>3 DEF FinishRun, Finish
<1>2. \/ group.owner = "run" /\ lead' \in Waiting
      \/ group.owner # "run" /\ lead' \in {"idle", "over"}
  BY DEF FinishRun, Finish, Waiting
<1>3. TypeInv'
  BY <1>1, <1>2 DEF IInv, TypeInv, Waiting
<1>4. OwnerInv'
  <2>1. pg.open \in BOOLEAN
    BY SMT DEF IInv, TypeInv, Contexts
  <2>2. CASE group.owner = "run" /\ lead' \in Waiting
    BY <2>1, <2>2 DEF IInv, OwnerInv, Launching, Opening, Waiting
  <2>3. CASE group.owner # "run" /\ lead' \in {"idle", "over"}
    BY <2>1, <2>3 DEF IInv, OwnerInv, Launching, Opening, Waiting
  <2> QED
    BY <1>2, <2>2, <2>3
<1>5. GateInv'
  <2>1. Launched' = Launched
    BY <1>1 DEF Launched
  <2>2. Two' <=> Two
    BY <2>1 DEF Two
  <2>3. \A w \in Producers : worker'[w] \in {"running", "asleep"} => worker'[w] = worker[w]
    BY <1>1
  <2>4. lead' \notin Opening \cup {"short"}
    BY <1>2 DEF Opening, Waiting
  <2> QED
    BY <2>2, <2>3, <2>4 DEF IInv, GateInv, Opening
<1> QED
  BY <1>3, <1>4, <1>5 DEF IInv

\* A callback that finishes a run does not enter a launch.
LEMMA FinishLeads ==
  ASSUME NEW budget, FinishRun(budget)
  PROVE  lead' \in {"idle", "over"} \cup Waiting
  BY DEF FinishRun, Finish, Waiting

\* The last batch.
LEMMA EndOfStreamStep ==
  ASSUME IInv, EndOfStream
  PROVE  IInv'
<1>1. /\ lead = "idle" /\ FinishRun(left) /\ stmt.phase = "running"
      /\ UNCHANGED <<pg, group, control, waiting, touched>>
  BY DEF EndOfStream
<1>2. /\ stmt' \in Statement /\ stmt'.phase = "exhausted" /\ stmt'.plan = stmt.plan
      /\ stmt'.values = stmt.values /\ stmt'.params = stmt.params /\ stmt'.rebind = stmt.rebind
  BY SMT DEF EndOfStream, IInv, TypeInv, Statement
<1>3. lead' \notin Launching
  BY <1>1, FinishLeads DEF Launching, Opening, Waiting
<1>4. PlanInv'
  BY <1>1, <1>2, <1>3 DEF IInv, PlanInv
<1> QED
  BY <1>1, <1>2, <1>4, RunFinishes

\* EndCustomScan.
LEMMA CloseStep ==
  ASSUME IInv, Close
  PROVE  IInv'
<1>1. /\ lead = "idle" /\ FinishRun(left)
      /\ UNCHANGED <<pg, group, control, waiting, touched>>
  BY DEF Close
<1>2. stmt' \in Statement /\ stmt'.phase = "released"
  BY SMT DEF Close, IInv, TypeInv, Statement
<1>3. lead' \notin Launching
  BY <1>1, FinishLeads DEF Launching, Opening, Waiting
<1>4. PlanInv'
  BY <1>2, <1>3 DEF PlanInv
<1> QED
  BY <1>1, <1>2, <1>4, RunFinishes

\* ReScanCustomScan: new parameters are remembered until the next rebuild, and a plan
\* with execute-once state that has run is marked for it.
LEMMA RescanStep ==
  ASSUME IInv, Rescan
  PROVE  IInv'
<1>1. /\ lead = "idle" /\ stmt \in Statement /\ stmt.phase # "released"
      /\ UNCHANGED <<pg, group, control, waiting, touched>>
  BY DEF Rescan, IInv, TypeInv
<1>2. FinishRun([left EXCEPT !.rescans = @ - 1])
  BY DEF Rescan
<1>3. lead' \notin Launching
  BY <1>2, FinishLeads DEF Launching, Opening, Waiting
<1>4. PICK changed \in BOOLEAN :
        LET s == [stmt EXCEPT !.params = IF changed THEN @ + 1 ELSE @]
            r == [s EXCEPT !.phase = "ready", !.rebind = @ \/ changed]
        IN  stmt' = CASE stmt.phase = "pending" -> s
                      [] stmt.phase = "ready" -> r
                      [] OTHER -> Consumed(r)
  BY DEF Rescan
<1> DEFINE s == [stmt EXCEPT !.params = IF changed THEN @ + 1 ELSE @]
           r == [s EXCEPT !.phase = "ready", !.rebind = @ \/ changed]
<1>5. /\ s \in Statement /\ s.phase = stmt.phase
      /\ s.params = IF changed THEN stmt.params + 1 ELSE stmt.params
      /\ s.plan = stmt.plan /\ s.values = stmt.values
      /\ s.rebind = stmt.rebind /\ s.rebuild = stmt.rebuild
  BY <1>1, SMT DEF Statement
<1>6. /\ r \in Statement /\ r.phase = "ready" /\ r.plan = stmt.plan /\ r.values = stmt.values
      /\ r.rebind <=> (stmt.rebind \/ changed)
      /\ r.rebuild = stmt.rebuild /\ (~changed => r.params = stmt.params)
  <2> HIDE DEF s
  <2> QED
    BY <1>5, ZenonT(20) DEF Statement
<1>7. CASE stmt.phase = "pending"
  <2>1. stmt' = s
    BY <1>4, <1>7
  <2>2. stmt' \in Statement /\ stmt'.phase = "pending"
    BY <1>5, <1>7, <2>1
  <2>3. PlanInv'
    BY <1>3, <2>2 DEF PlanInv
  <2> QED
    BY <1>1, <1>2, <2>2, <2>3, RunFinishes
<1>8. CASE stmt.phase = "ready"
  <2>1. stmt' = r
    BY <1>4, <1>8
  <2> HIDE DEF s, r
  <2>2. /\ stmt'.plan.values = stmt'.values /\ (stmt'.rebind \/ stmt'.values = stmt'.params)
        /\ stmt'.phase = "ready"
    BY <1>6, <1>8, <2>1 DEF IInv, PlanInv
  <2>3. ~stmt'.rebind /\ ~stmt'.rebuild =>
          /\ stmt'.plan.kind = "parallel" => stmt'.plan.sources /\ stmt'.plan.runs = 0
          /\ stmt'.plan.kind = "filtered" => stmt'.plan.runs = 0
    BY <1>1, <1>6, <1>8, <2>1 DEF IInv, PlanInv
  <2>4. PlanInv'
    BY <1>3, <2>2, <2>3 DEF PlanInv
  <2> QED
    BY <1>1, <1>2, <1>6, <2>1, <2>4, RunFinishes
<1>9. CASE stmt.phase \in {"running", "exhausted"}
  <2>1. stmt' = Consumed(r)
    BY <1>4, <1>9
  <2> HIDE DEF s, r
  <2>2. /\ stmt' \in Statement /\ stmt'.phase = "ready" /\ stmt'.plan = stmt.plan
        /\ stmt'.values = stmt.values /\ stmt'.rebind = r.rebind /\ stmt'.params = r.params
        /\ ~stmt'.rebuild => stmt.plan.kind \notin {"parallel", "filtered"}
    BY <1>6, <2>1, ZenonT(20) DEF Consumed, Statement
  <2>3. PlanInv'
    <3>1. stmt'.plan.values = stmt'.values /\ (stmt'.rebind \/ stmt'.values = stmt'.params)
      BY <1>6, <1>9, <2>2 DEF IInv, PlanInv
    <3> QED
      BY <1>3, <2>2, <3>1 DEF PlanInv
  <2> QED
    BY <1>1, <1>2, <2>2, <2>3, RunFinishes
<1> QED
  BY <1>1, <1>7, <1>8, <1>9 DEF Statement

\* DestroyParallelContext and ExitParallelMode.
LEMMA Destroyed ==
  ASSUME TypeInv, pg.level = 1, Destroy
  PROVE  /\ pg' \in Contexts /\ pg'.open = FALSE /\ pg'.level = 0
         /\ group' \in Groups /\ group'.owner # "run"
<1>1. pg.level - 1 = 0 /\ 0 \in 0..1
  BY SMT
<1>2. pg' = [open |-> FALSE, mapped |-> FALSE, level |-> 0]
  BY <1>1 DEF Destroy
<1>3. pg' \in Contexts /\ pg'.open = FALSE /\ pg'.level = 0
  BY <1>1, <1>2, ZenonT(20) DEF Contexts
<1>4. group' \in Groups /\ group'.owner # "run"
  BY ZenonT(20) DEF Destroy, Groups, NoGroup
<1> QED
  BY <1>3, <1>4

\* The workers of a run are gone: its context goes with them.
LEMMA FinishedStep ==
  ASSUME IInv, Finished
  PROVE  IInv'
<1>1. /\ lead \in Waiting /\ lead' \in {"erring", "over", "idle"}
      /\ Destroy /\ UNCHANGED <<stmt, control, worker, waiting, touched>>
  BY DEF Finished, Waiting, process
<1>2. /\ pg' \in Contexts /\ pg'.open = FALSE /\ pg'.level = 0
      /\ group' \in Groups /\ group'.owner # "run"
  BY <1>1, Destroyed DEF IInv, OwnerInv
<1>3. lead' \notin Launching \cup Waiting /\ lead # "broadcasting" /\ lead' # "releasing"
  BY <1>1 DEF Launching, Opening, Waiting
<1>4. TypeInv'
  BY <1>1, <1>2 DEF IInv, TypeInv, Aborting
<1>5. PlanInv'
  BY <1>1, <1>3, PlanKept DEF IInv
<1>6. OwnerInv'
  BY <1>1, <1>2, <1>3 DEF IInv, OwnerInv, Launching, Opening
<1>7. GateInv'
  BY <1>1, <1>2, <1>3, GateKept DEF IInv, Launching
<1> QED
  BY <1>4, <1>5, <1>6, <1>7 DEF IInv

\* The same after a short launch, which runs serially.
LEMMA FinishedShortStep ==
  ASSUME IInv, FinishedShort
  PROVE  IInv'
<1>1. /\ lead = "short" /\ lead' = "idle"
      /\ Destroy /\ UNCHANGED <<control, worker, waiting, touched>>
  BY DEF FinishedShort, process
<1>2. /\ pg' \in Contexts /\ pg'.open = FALSE /\ pg'.level = 0
      /\ group' \in Groups /\ group'.owner # "run"
  BY <1>1, Destroyed DEF IInv, OwnerInv, Launching
<1>3. stmt \in Statement /\ stmt.values = stmt.params /\ ~stmt.rebind
  BY <1>1 DEF IInv, TypeInv, PlanInv, Launching
<1>4. PICK p \in SerialPlans(stmt.values) : stmt' = Executed([stmt EXCEPT !.plan = p])
  BY DEF FinishedShort
<1> DEFINE t == [stmt EXCEPT !.plan = p]
<1>5. /\ t \in Statement /\ t.plan.runs = 0 /\ t.plan.values = t.values
      /\ t.values = t.params /\ ~t.rebind
  BY <1>3, SerialPlan
<1>6. stmt' = Executed(t)
  BY <1>4
<1> HIDE DEF t
<1>7. /\ stmt' \in Statement /\ stmt'.phase = "running" /\ stmt'.plan.runs = 1
      /\ stmt'.plan.values = stmt'.values /\ stmt'.values = stmt'.params /\ ~stmt'.rebind
  BY <1>5, <1>6, ExecutedPlan
<1>8. TypeInv'
  BY <1>1, <1>2, <1>7 DEF IInv, TypeInv
<1>9. PlanInv'
  BY <1>1, <1>7 DEF PlanInv, Launching, Opening
<1>10. OwnerInv'
  BY <1>1, <1>2 DEF IInv, OwnerInv, Launching, Opening, Waiting
<1>11. GateInv'
  BY <1>1, <1>2, GateKept DEF IInv, Opening
<1> QED
  BY <1>8, <1>9, <1>10, <1>11 DEF IInv

-----------------------------------------------------------------------------
(* ERROR.                                                                   *)

\* An ERROR between callbacks, and the first two parts of PostgreSQL's abort.
LEMMA ErrorSteps ==
  ASSUME IInv, Error \/ Terminate \/ AbortTransaction
  PROVE  IInv'
<1>1. /\ lead' \in Aborting /\ lead # "broadcasting"
      /\ UNCHANGED <<stmt, group, control, worker, waiting, touched>>
  BY DEF Error, Terminate, AbortTransaction, Fail, Aborting, process
<1>2. pg' \in Contexts /\ (lead' = "releasing" => pg' = NoContext)
  <2>1. NoContext \in Contexts
    <3>1. 0 \in 0..1
      BY SMT
    <3> QED
      BY <3>1, ZenonT(20) DEF NoContext, Contexts
  <2>2. [pg EXCEPT !.mapped = FALSE] \in Contexts
    BY ZenonT(20) DEF IInv, TypeInv, Contexts
  <2> QED
    BY <2>1, <2>2 DEF Error, Terminate, AbortTransaction, Fail, IInv, TypeInv
<1>3. lead' \notin {"idle", "over"} \cup Launching \cup Waiting
  BY <1>1 DEF Aborting, Launching, Opening, Waiting
<1>4. TypeInv'
  BY <1>1, <1>2 DEF IInv, TypeInv
<1>5. PlanInv'
  BY <1>1, <1>3, PlanKept DEF IInv
<1>6. OwnerInv'
  BY <1>1, <1>2, <1>3 DEF IInv, OwnerInv, Launching, Opening
<1>7. group'.owner = "run" => control.gate = "run"
  BY <1>1 DEF IInv, GateInv
<1>8. GateInv'
  BY <1>1, <1>3, <1>7, GateKept DEF IInv, Launching
<1> QED
  BY <1>4, <1>5, <1>6, <1>8 DEF IInv

\* The ResourceOwner callback releases the statement; the segment is gone, and an
\* owned run knows it.
LEMMA AbortStep ==
  ASSUME IInv, Abort
  PROVE  IInv'
<1>1. /\ lead = "releasing" /\ lead' = "over" /\ pg = NoContext
      /\ UNCHANGED <<pg, worker>> /\ touched = FALSE /\ TypeInv
  BY DEF Abort, IInv, OwnerInv
<1>2. /\ control' \in Controls
      /\ control'.sized = control.sized /\ control'.region = control.region
      /\ control'.gate = "run" <=> control.gate = "run"
      /\ waiting' \in SUBSET waiting
      /\ control'.gate # control.gate => waiting' = {}
      /\ group' = NoGroup /\ touched' = FALSE
  <2>1. CASE group.owner = "run"
    <3>1. Abandon /\ group.watched /\ group.mesh
      BY <2>1 DEF Abort, IInv, OwnerInv
    <3> QED
      BY <1>1, <3>1, Abandoned
  <2>2. CASE group.owner # "run"
    BY <1>1, <2>2 DEF Abort, TypeInv
  <2> QED
    BY <2>1, <2>2
<1>3. NoGroup \in Groups /\ NoGroup.owner = "none" /\ pg'.open = FALSE /\ pg'.level = 0
  BY <1>1, SMT DEF NoGroup, Groups, NoContext
<1>4. stmt' \in Statement /\ stmt'.phase = "released"
  BY <1>1, SMT DEF Abort, TypeInv, Statement
<1>5. TypeInv'
  BY <1>1, <1>2, <1>3, <1>4 DEF TypeInv
<1>6. PlanInv'
  BY <1>1, <1>4 DEF PlanInv, Launching, Opening
<1>7. OwnerInv'
  BY <1>1, <1>2, <1>3 DEF OwnerInv, Launching, Opening, Waiting
<1>8. GateInv'
  BY <1>1, <1>2, <1>3, GateKept DEF IInv, Opening
<1> QED
  BY <1>5, <1>6, <1>7, <1>8 DEF IInv

-----------------------------------------------------------------------------
(* The workers.                                                             *)

\* A worker moves: it runs only through an open gate, falls asleep only at an
\* undecided one, and puts nobody else on the wait list.
LEMMA WorkerMoves ==
  ASSUME IInv, NEW w \in Producers, NEW to \in Places \ {"none"},
         worker[w] # "none", Go(w, to), Elsewhere,
         to = "running" => control.gate = "run",
         to = "asleep" => control.gate = "wait",
         waiting' \in SUBSET (waiting \cup {w})
  PROVE  IInv'
<1>1. UNCHANGED <<stmt, lead, pg, group, control, touched>>
  BY DEF Elsewhere
<1>2. worker \in [Producers -> Places] /\ waiting \in SUBSET Producers
  BY DEF IInv, TypeInv
<1>3. /\ worker' \in [Producers -> Places]
      /\ worker'[w] = to /\ \A v \in Producers \ {w} : worker'[v] = worker[v]
  BY <1>2 DEF Go
<1>4. Launched' = Launched
  BY <1>3 DEF Launched
<1>5. Two' <=> Two
  BY <1>4 DEF Two
<1>6. TypeInv'
  BY <1>1, <1>2, <1>3 DEF IInv, TypeInv
<1>7. PlanInv' /\ OwnerInv'
  BY <1>1 DEF IInv, PlanInv, OwnerInv
<1>8. \A v \in Producers : worker'[v] = "running" => control.gate = "run"
  BY <1>3 DEF IInv, GateInv
<1>9. control.gate # "wait" /\ lead # "broadcasting" =>
        \A v \in Producers : worker'[v] = "asleep" => v \notin waiting'
  BY <1>3 DEF IInv, GateInv
<1>10. GateInv'
  BY <1>1, <1>5, <1>8, <1>9 DEF IInv, GateInv
<1> QED
  BY <1>6, <1>7, <1>10 DEF IInv

\* Every step of a worker is such a move.
LEMMA WorkerSteps ==
  ASSUME IInv, NEW w \in Producers,
         \/ WorkerStarts(w) \/ WorkerEnters(w) \/ WorkerTests(w) \/ WorkerWakes(w)
         \/ WorkerEnds(w) \/ WorkerTerminates(w)
  PROVE  IInv'
<1>1. Elsewhere
  BY DEF WorkerStarts, WorkerEnters, WorkerTests, WorkerWakes, WorkerEnds, WorkerTerminates
<1>2. ASSUME NEW to \in {"attached", "lost", "gate", "failed", "exited"}, Go(w, to),
             worker[w] # "none", waiting' \in SUBSET (waiting \cup {w})
      PROVE  IInv'
  <2>1. to \in Places \ {"none"} /\ to # "running" /\ to # "asleep"
    BY <1>2 DEF Places
  <2> QED
    BY <1>1, <1>2, <2>1, WorkerMoves
<1>3. CASE WorkerStarts(w)
  BY <1>2, <1>3 DEF WorkerStarts
<1>4. CASE WorkerEnters(w)
  BY <1>2, <1>4 DEF WorkerEnters
<1>5. CASE WorkerTests(w)
  <2>1. worker[w] = "gate" /\ waiting' \in SUBSET (waiting \cup {w})
    BY <1>5 DEF WorkerTests
  <2>2. CASE control.gate = "run"
    <3>1. Go(w, "running")
      BY <1>5, <2>2 DEF WorkerTests
    <3>2. "running" \in Places \ {"none"}
      BY DEF Places
    <3> QED
      BY <1>1, <2>1, <2>2, <3>1, <3>2, WorkerMoves
  <2>3. CASE control.gate = "abort"
    <3>1. Go(w, "exited")
      BY <1>5, <2>3 DEF WorkerTests
    <3> QED
      BY <1>2, <2>1, <3>1
  <2>4. CASE control.gate = "wait"
    <3>1. Go(w, "asleep")
      BY <1>5, <2>4 DEF WorkerTests
    <3>2. "asleep" \in Places \ {"none"}
      BY DEF Places
    <3> QED
      BY <1>1, <2>1, <2>4, <3>1, <3>2, WorkerMoves
  <2>5. control.gate \in {"wait", "run", "abort"}
    BY SMT DEF IInv, TypeInv, Controls
  <2> QED
    BY <2>2, <2>3, <2>4, <2>5
<1>6. CASE WorkerWakes(w)
  BY <1>2, <1>6 DEF WorkerWakes
<1>7. CASE WorkerEnds(w)
  BY <1>2, <1>7 DEF WorkerEnds
<1>8. CASE WorkerTerminates(w)
  BY <1>2, <1>8 DEF WorkerTerminates
<1> QED
  BY <1>3, <1>4, <1>5, <1>6, <1>7, <1>8

-----------------------------------------------------------------------------
(* The theorems.                                                            *)

\* A statement starts without plan, context and workers.
LEMMA InitialState ==
  ASSUME Init
  PROVE  IInv
<1>1. stmt \in Statement /\ stmt.phase = "pending"
  BY SMT DEF Init, Statement, PlanType, NoPlan
<1>2. /\ pg \in Contexts /\ pg.open = FALSE /\ pg.level = 0
      /\ group \in Groups /\ group.owner = "none"
      /\ control \in Controls /\ control.gate = "wait"
  BY SMT DEF Init, NoContext, Contexts, NoGroup, Groups, NewControl, Controls
<1>3. lead = "idle" /\ waiting = {} /\ touched = FALSE /\ worker = [w \in Producers |-> "none"]
  BY DEF Init
<1>4. TypeInv
  BY <1>1, <1>2, <1>3 DEF TypeInv, Places
<1>5. PlanInv
  BY <1>1, <1>3 DEF PlanInv, Launching, Opening
<1>6. OwnerInv
  BY <1>2, <1>3 DEF OwnerInv, Launching, Opening, Waiting
<1>7. GateInv
  BY <1>2, <1>3 DEF GateInv, Opening
<1> QED
  BY <1>4, <1>5, <1>6, <1>7 DEF IInv

\* The invariant holds in every execution of a query: callbacks, launch, workers and
\* abort in any order, for any number of workers and any budgets.
THEOREM InvariantHolds == Spec => []IInv
<1>1. Init => IInv
  BY InitialState
<1>2. IInv /\ [Next]_vars => IInv'
  <2> SUFFICES ASSUME IInv, [Next]_vars
               PROVE  IInv'
    OBVIOUS
  <2>1. CASE Start \/ StartSerial \/ StartWithoutGroup \/ LaunchGroup
    BY <2>1, StartStep, StartSerialStep, StartWithoutGroupStep, LaunchGroupStep
  <2>2. CASE Attach \/ SetUpTransport \/ WriteInventory \/ Activate \/ Broadcast
    BY <2>2, AttachStep, SetUpStep, WriteStep, ActivateStep, BroadcastStep
  <2>3. CASE AttachFails \/ LaunchFails \/ FinishFails
    BY <2>3, FailSteps
  <2>4. CASE EndOfStream \/ Rescan \/ Close \/ Finished \/ FinishedShort
    BY <2>4, EndOfStreamStep, RescanStep, CloseStep, FinishedStep, FinishedShortStep
  <2>5. CASE Error \/ Terminate \/ AbortTransaction
    BY <2>5, ErrorSteps
  <2>6. CASE Abort
    BY <2>6, AbortStep
  <2>7. CASE \E w \in Producers :
               \/ WorkerStarts(w) \/ WorkerEnters(w) \/ WorkerTests(w) \/ WorkerWakes(w)
               \/ WorkerEnds(w) \/ WorkerTerminates(w)
    BY <2>7, WorkerSteps
  <2>8. CASE UNCHANGED vars
    BY <2>8 DEF vars, IInv, TypeInv, PlanInv, OwnerInv, GateInv, Two, Launched
  <2> QED
    BY <2>1, <2>2, <2>3, <2>4, <2>5, <2>6, <2>7, <2>8 DEF Next
<1> QED
  BY <1>1, <1>2, PTL DEF Spec

\* No worker passes the activation gate before transport, inventory and size are
\* there and a second worker was launched; a leader that waits for its workers has
\* woken the sleepers; and a detached segment is never used.
THEOREM NobodyUnprepared == Spec => []WorkersFollowTheLeader
<1>1. IInv => WorkersFollowTheLeader
  <2> SUFFICES ASSUME IInv
               PROVE  WorkersFollowTheLeader
    OBVIOUS
  <2>1. ASSUME NEW w \in Producers, worker[w] = "running"
        PROVE  control.sized /\ control.region = Region /\ \E v \in Launched : v # w
    <3>1. control.sized /\ control.region = Region /\ Two
      BY <2>1 DEF IInv, GateInv
    <3> QED
      BY <3>1 DEF Two
  <2>2. ASSUME lead \in {"short", "finishing", "failing"}
        PROVE  \A w \in Producers : worker[w] = "asleep" => w \notin waiting
    <3>1. control.gate # "wait" /\ lead # "broadcasting"
      BY <2>2 DEF IInv, GateInv, OwnerInv, Waiting
    <3> QED
      BY <3>1 DEF IInv, GateInv
  <2>3. ~touched
    BY DEF IInv, OwnerInv
  <2> QED
    BY <2>1, <2>2, <2>3 DEF WorkersFollowTheLeader
<1> QED
  BY <1>1, InvariantHolds, PTL

\* While rows are produced the plan has run once, for the current parameters; a plan
\* kept for the next run can be executed; and between callbacks parallel context and
\* parallel mode exist exactly as long as a run owns them.
THEOREM FreshRuns == Spec => []RunsAreFreshAndOwned
<1>1. IInv => RunsAreFreshAndOwned
  BY DEF IInv, PlanInv, OwnerInv, RunsAreFreshAndOwned, Ready
<1> QED
  BY <1>1, InvariantHolds, PTL
=============================================================================
