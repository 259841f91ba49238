----------------------- MODULE ObjectCleanupInvariant -----------------------
(***************************************************************************)
(* The inductive invariant of ObjectCleanup and the steps that keep it     *)
(* without counting anything: those of the worker and its actors, and all  *)
(* transactions but the beginning of DROP and VACUUM.  The others and the  *)
(* theorems are in module ObjectCleanupProofs.                             *)
(***************************************************************************)
EXTENDS ObjectCleanup, TLAPS

\* Zenon proves most leaves, SMT the others.
USE Zenon, SMTT(30)

-----------------------------------------------------------------------------
(* Types.                                                                   *)

Targets == [op : {"tree"}, at : Locations] \cup [op : {"object"}, at : Nat]

Rows == [target : Targets, attempt : Nat, revision : Nat,
         due : {"now", "soon", "later"}, failed : BOOLEAN, valid : BOOLEAN]

Transactions ==
  [pc : {"open", "committed"}, op : {"create", "drop", "vacuum", "retry"},
   at : Locations \cup Nat, objects : SUBSET Nat,
   rows : UNION {[D -> Rows] : D \in SUBSET Nat}, wake : BOOLEAN]

Items == [id : Nat, target : Targets, attempt : Nat, revision : Nat]
Results == [id : Nat, outcome : Outcome]

Jump == {"inspect", "inspect_next", "start", "collect", "fetch", "next", "wait", "shutdown",
         "complete", "exit"}
Places == Jump \cup {"none", "apply", "dispatch", "drain"}
Schedules == {"idle", "run_after"}

Processes ==
  [pc : Places, inflight : SUBSET Items, pending : Seq(Results), tasks : SUBSET Items,
   invalid : SUBSET Nat, sched : Schedules, cancelled : BOOLEAN]

Resting == [pc : {"idle", "sent", "dead"}, page : {{}}]
Working == [pc : {"begin", "page"}, page : SUBSET Nat, item : Items]

TypeInv ==
  /\ home \in Seq(Locations) /\ store \in SUBSET (1..Len(home))
  /\ condemned \in SUBSET (1..Len(home))
  /\ table \in [Locations -> [live : BOOLEAN, refs : SUBSET Nat]]
  /\ ids \in Nat /\ queue \in [DOMAIN queue -> Rows] /\ DOMAIN queue \in SUBSET (1..ids)
  /\ sessions \in [Sessions -> {IdleSession} \cup Transactions]
  /\ proc \in Processes
  /\ actors \in [Actors -> Resting \cup Working] /\ chan \in Seq(Results)

-----------------------------------------------------------------------------
(* The inductive invariant.                                                 *)

Open(s, op) == sessions[s].pc = "open" /\ sessions[s].op = op
Enqueues(s) == Open(s, "drop") \/ Open(s, "vacuum")

At(l) == {o \in 1..Len(home) : home[o] = l}

\* The object is one of those the target stands for.
Hits(target, o) == IF target.op = "tree" THEN home[o] = target.at ELSE o = target.at

\* Nothing a table or a CREATE in progress refers to.
Dead(target) ==
  /\ target.op = "tree" =>
       /\ ~table[target.at].live
       /\ \A s \in Sessions : Open(s, "create") => sessions[s].at # target.at
  /\ target.op = "object" =>
       /\ target.at \in 1..Len(home)
       /\ \A l \in Locations : target.at \notin table[l].refs
       /\ \A s \in Sessions : Open(s, "create") => target.at \notin sessions[s].objects

\* A table refers to objects of its own location, and to none when it is gone.
TableInv ==
  \A l \in Locations : /\ table[l].refs \in SUBSET (store \cap At(l))
                       /\ ~table[l].live => table[l].refs = {}

\* What a transaction will commit is still as it found it: the table that it drops
\* or vacuums lives, the failed row that it retries is there.
CreateInv(s) ==
  Open(s, "create") =>
    /\ sessions[s].at \in Locations /\ ~table[sessions[s].at].live
    /\ DOMAIN sessions[s].rows = {}
    /\ sessions[s].objects \in SUBSET (store \cap At(sessions[s].at))

DropInv(s) ==
  Open(s, "drop") =>
    /\ sessions[s].at \in Locations /\ table[sessions[s].at].live
    /\ sessions[s].objects = table[sessions[s].at].refs
    /\ \A id \in DOMAIN sessions[s].rows :
         sessions[s].rows[id].target = [op |-> "tree", at |-> sessions[s].at]

VacuumInv(s) ==
  Open(s, "vacuum") =>
    /\ sessions[s].at \in Locations /\ table[sessions[s].at].live
    /\ sessions[s].objects \in SUBSET table[sessions[s].at].refs
    /\ \A id \in DOMAIN sessions[s].rows :
         /\ sessions[s].rows[id].target.op = "object"
         /\ sessions[s].rows[id].target.at \in sessions[s].objects

RetryInv(s) ==
  Open(s, "retry") =>
    /\ DOMAIN sessions[s].rows = {sessions[s].at} /\ sessions[s].at \in DOMAIN queue
    /\ queue[sessions[s].at].failed
    /\ sessions[s].rows[sessions[s].at].target = queue[sessions[s].at].target
    /\ sessions[s].rows[sessions[s].at].valid = queue[sessions[s].at].valid

\* There is a new row for every object that is given up.
PromiseInv(s) ==
  Enqueues(s) =>
    \A o \in sessions[s].objects : \E id \in DOMAIN sessions[s].rows :
      sessions[s].rows[id].valid /\ Hits(sessions[s].rows[id].target, o)

SessionInv(s) == CreateInv(s) /\ DropInv(s) /\ VacuumInv(s) /\ RetryInv(s) /\ PromiseInv(s)

Known(id) == \E i \in proc.inflight \cup proc.tasks : i.id = id

\* New items have numbers that nobody else uses.
FreshInv(s) ==
  Enqueues(s) => \A id \in DOMAIN sessions[s].rows :
                   id \in 1..ids /\ id \notin DOMAIN queue /\ ~Known(id)

\* Two transactions never work on the same table or row.
ApartInv(r, s) ==
  /\ sessions[r] # IdleSession /\ sessions[s] # IdleSession => sessions[r].at # sessions[s].at
  /\ Enqueues(r) /\ Enqueues(s) => DOMAIN sessions[r].rows \cap DOMAIN sessions[s].rows = {}

\* What the queue, the worker and its actors will delete is dead.
QueueInv == \A id \in DOMAIN queue : queue[id].valid => Dead(queue[id].target)

\* Items are copies of rows that are still there, one for each row: only the result of
\* an item takes its row away.
ItemInv ==
  /\ \A i \in proc.inflight \cup proc.tasks :
       /\ i.id \in DOMAIN queue /\ Dead(i.target)
       /\ queue[i.id].target = i.target /\ queue[i.id].valid /\ ~queue[i.id].failed
  /\ \A i, j \in proc.inflight \cup proc.tasks : i.id = j.id => i = j

\* Between fetch and dispatch: there is an idle actor for every task.
DispatchInv ==
  /\ proc.pc # "dispatch" => proc.tasks = {} /\ proc.invalid = {}
  /\ proc.pc = "dispatch" =>
       /\ IsFiniteSet(proc.tasks) /\ Cardinality(proc.tasks) <= Cardinality(IdleActors)
       /\ proc.tasks \cap proc.inflight = {}
       /\ \A id \in proc.invalid : id \in DOMAIN queue /\ ~queue[id].valid

Works(a) == actors[a].pc \in {"begin", "page"}

\* An actor works on an item in flight that nobody else works on; its page is below
\* the location of the item.
ActorInv ==
  /\ \A a \in Actors : Works(a) => actors[a].item \in proc.inflight
  /\ \A a, b \in Actors :
       Works(a) /\ Works(b) /\ actors[a].item.id = actors[b].item.id => a = b
  /\ \A a \in Actors : actors[a].pc = "page" =>
       /\ actors[a].item.target.op = "tree"
       /\ actors[a].page \in SUBSET At(actors[a].item.target.at)

\* The results that have not been applied: one for each item that was worked on, and
\* nothing of a completed one is left.
Reported == proc.pending \o chan

ResultInv ==
  /\ \A k \in 1..Len(Reported) :
       /\ \E i \in proc.inflight : i.id = Reported[k].id
       /\ \A a \in Actors : Works(a) => actors[a].item.id # Reported[k].id
       /\ Reported[k].outcome = "complete" =>
            \A i \in proc.inflight : i.id = Reported[k].id => \A o \in store : ~Hits(i.target, o)
  /\ \A j, k \in 1..Len(Reported) : Reported[j].id = Reported[k].id => j = k

\* Condemned objects are gone or below a row.
CoverInv ==
  \A o \in condemned \cap store :
    \E id \in DOMAIN queue : queue[id].valid /\ Hits(queue[id].target, o)

TableSide == /\ TableInv /\ QueueInv /\ CoverInv
             /\ \A s \in Sessions : SessionInv(s) /\ FreshInv(s)
             /\ \A r, s \in Sessions : r # s => ApartInv(r, s)
WorkerSide == ItemInv /\ DispatchInv /\ ActorInv /\ ResultInv

IInv == TypeInv /\ TableSide /\ WorkerSide

-----------------------------------------------------------------------------
(* What the operators of the model return.                                  *)

\* What a commit makes of the queue.
LEMMA ExtendedQueue ==
  ASSUME queue \in [DOMAIN queue -> Rows], NEW rows, rows \in [DOMAIN rows -> Rows],
         queue' = Extended(rows)
  PROVE  /\ DOMAIN queue' = DOMAIN rows \cup DOMAIN queue
         /\ queue' \in [DOMAIN queue' -> Rows]
         /\ \A id \in DOMAIN rows : queue'[id] = rows[id]
         /\ \A id \in DOMAIN queue : id \notin DOMAIN rows => queue'[id] = queue[id]
  BY ZenonT(20) DEF Extended

-----------------------------------------------------------------------------
(* What may be deleted.                                                     *)

\* An object that a dead target stands for is not referred to by any table or by a
\* CREATE in progress.
LEMMA DeadObject ==
  ASSUME TypeInv, TableInv, \A s \in Sessions : SessionInv(s),
         NEW t \in Targets, Dead(t), NEW o \in 1..Len(home), Hits(t, o)
  PROVE  /\ \A l \in Locations : o \notin table[l].refs
         /\ \A s \in Sessions : Open(s, "create") => o \notin sessions[s].objects
<1>1. CASE t.op = "tree"
  <2>1. home[o] = t.at /\ t.at \in Locations
    BY <1>1 DEF Hits, Targets
  <2>2. table[t.at].refs = {}
    BY <1>1, <2>1 DEF Dead, TableInv
  <2>3. \A l \in Locations : o \in table[l].refs => l = t.at
    BY <2>1 DEF TableInv, At
  <2>4. ASSUME NEW s \in Sessions, Open(s, "create"), o \in sessions[s].objects
        PROVE  FALSE
    <3>1. sessions[s].at = t.at
      BY <2>1, <2>4 DEF SessionInv, CreateInv, At
    <3> QED
      BY <1>1, <2>4, <3>1 DEF Dead
  <2> QED
    BY <2>2, <2>3, <2>4
<1>2. CASE t.op = "object"
  BY <1>2 DEF Hits, Dead
<1> QED
  BY <1>1, <1>2 DEF Targets

\* Targets stay dead when tables and CREATEs in progress only lose objects.
LEMMA StaysDead ==
  ASSUME NEW t \in Targets, Dead(t), Len(home) \in Nat, Len(home') \in Nat,
         Len(home) <= Len(home'),
         \A l \in Locations : /\ table'[l].live => table[l].live
                              /\ table'[l].refs \in SUBSET table[l].refs,
         \A s \in Sessions :
           Open(s, "create")' => /\ Open(s, "create") /\ sessions'[s].at = sessions[s].at
                                 /\ sessions'[s].objects = sessions[s].objects
  PROVE  Dead(t)'
<1>1. CASE t.op = "tree"
  <2>1. t.at \in Locations
    BY <1>1 DEF Targets
  <2> QED
    BY <1>1, <2>1 DEF Dead
<1>2. CASE t.op = "object"
  <2>1. t.at \in 1..Len(home) => t.at \in 1..Len(home')
    BY SMT
  <2> QED
    BY <1>2, <2>1 DEF Dead
<1> QED
  BY <1>1, <1>2 DEF Targets

-----------------------------------------------------------------------------
(* Steps of the worker, the actors and the clock: the side of the tables.   *)

\* The worker, an actor or the clock: tables and transactions stay, objects that
\* nobody refers to may go, rows keep their targets, a failed row stays failed, and
\* a row is deleted only when it is not failed and nothing it stands for is left.
WorkerChanges ==
  /\ UNCHANGED tables /\ store' \in SUBSET store
  /\ \A o \in store \ store' :
       /\ \A l \in Locations : o \notin table[l].refs
       /\ \A s \in Sessions : Open(s, "create") => o \notin sessions[s].objects
  /\ queue' \in [DOMAIN queue' -> Rows] /\ DOMAIN queue' \in SUBSET DOMAIN queue
  /\ \A id \in DOMAIN queue' : /\ queue'[id].target = queue[id].target
                               /\ queue'[id].valid = queue[id].valid
                               /\ queue[id].failed => queue'[id].failed
  /\ \A id \in DOMAIN queue \ DOMAIN queue' :
       ~queue[id].failed /\ \A o \in store : ~Hits(queue[id].target, o)

\* The row stays, with what it stands for, and failed if it was.
RowKept(id) ==
  /\ id \in DOMAIN queue' /\ (queue[id].failed => queue'[id].failed)
  /\ queue'[id].target = queue[id].target /\ queue'[id].valid = queue[id].valid

\* What a transaction found stays, if its table or row stays, and new objects come
\* after the old ones.
LEMMA SessionKept ==
  ASSUME TypeInv, TableInv, NEW s \in Sessions, SessionInv(s), sessions'[s] = sessions[s],
         \A o \in 1..Len(home) : o \in 1..Len(home') /\ home'[o] = home[o],
         Open(s, "create") => sessions[s].objects \in SUBSET store',
         sessions[s].at \in Locations => table'[sessions[s].at] = table[sessions[s].at],
         \A id \in DOMAIN queue :
           Open(s, "retry") /\ sessions[s].at = id /\ queue[id].failed => RowKept(id)
  PROVE  SessionInv(s)'
<1>1. (\A op : Open(s, op)' <=> Open(s, op)) /\ (Enqueues(s)' <=> Enqueues(s))
  BY DEF Open, Enqueues
<1>2. \A l : At(l) \in SUBSET At(l)'
  BY DEF At
<1>3. CreateInv(s)'
  <2> SUFFICES ASSUME Open(s, "create")
               PROVE  /\ sessions[s].at \in Locations /\ ~table'[sessions[s].at].live
                      /\ DOMAIN sessions[s].rows = {}
                      /\ sessions[s].objects \in SUBSET (store' \cap At(sessions[s].at)')
    BY <1>1 DEF CreateInv
  <2> QED
    BY <1>2 DEF SessionInv, CreateInv
<1>4. DropInv(s)'
  BY <1>1 DEF SessionInv, DropInv
<1>5. VacuumInv(s)'
  BY <1>1 DEF SessionInv, VacuumInv
<1>6. RetryInv(s)'
  BY ZenonT(40), <1>1 DEF SessionInv, RetryInv, RowKept
<1>7. PromiseInv(s)'
  <2> SUFFICES ASSUME Enqueues(s), NEW o \in sessions[s].objects
               PROVE  \E id \in DOMAIN sessions[s].rows :
                        sessions[s].rows[id].valid /\ Hits(sessions[s].rows[id].target, o)'
    BY <1>1 DEF PromiseInv
  <2>1. o \in 1..Len(home)
    BY DEF Enqueues, SessionInv, DropInv, VacuumInv, TableInv, At
  <2>2. PICK id \in DOMAIN sessions[s].rows :
          sessions[s].rows[id].valid /\ Hits(sessions[s].rows[id].target, o)
    BY DEF SessionInv, PromiseInv
  <2>3. Hits(sessions[s].rows[id].target, o)'
    BY <2>1, <2>2 DEF Hits
  <2> QED
    BY <2>2, <2>3
<1> QED
  BY <1>3, <1>4, <1>5, <1>6, <1>7 DEF SessionInv

\* Such a step keeps the side of the tables, if it knows no item that it has not
\* read from the queue.
LEMMA TableSideKept ==
  ASSUME IInv, WorkerChanges, \A id \in Nat : Known(id)' => Known(id) \/ id \in DOMAIN queue
  PROVE  TableSide'
<1>1. UNCHANGED <<home, table, ids, sessions, condemned>>
  BY DEF WorkerChanges, tables
<1>3. \A s \in Sessions : /\ Open(s, "create")' <=> Open(s, "create")
                          /\ Open(s, "drop")' <=> Open(s, "drop")
                          /\ Open(s, "vacuum")' <=> Open(s, "vacuum")
                          /\ Open(s, "retry")' <=> Open(s, "retry")
                          /\ Enqueues(s)' <=> Enqueues(s)
  BY <1>1 DEF Open, Enqueues
<1>4. \A l : At(l)' = At(l)
  BY <1>1 DEF At
<1>5. \A t, o : Hits(t, o)' <=> Hits(t, o)
  BY <1>1 DEF Hits
<1>6. \A t : Dead(t)' <=> Dead(t)
  BY <1>1, <1>3 DEF Dead
<1>7. TableInv'
  <2> SUFFICES ASSUME NEW l \in Locations
               PROVE  /\ table[l].refs \in SUBSET (store' \cap At(l))
                      /\ ~table[l].live => table[l].refs = {}
    BY <1>1, <1>4 DEF TableInv
  <2>1. table[l].refs \in SUBSET (store \cap At(l)) /\ (~table[l].live => table[l].refs = {})
    BY DEF IInv, TableSide, TableInv
  <2>2. \A o \in table[l].refs : o \in store'
    BY <2>1 DEF WorkerChanges
  <2> QED
    BY <2>1, <2>2
<1>8. QueueInv'
  BY <1>6 DEF IInv, TableSide, QueueInv, WorkerChanges
<1>9. CoverInv'
  <2> SUFFICES ASSUME NEW o \in condemned \cap store'
               PROVE  \E id \in DOMAIN queue' : queue'[id].valid /\ Hits(queue'[id].target, o)
    BY <1>1, <1>5 DEF CoverInv
  <2>1. o \in store
    BY DEF WorkerChanges
  <2>2. PICK id \in DOMAIN queue : queue[id].valid /\ Hits(queue[id].target, o)
    BY <2>1 DEF IInv, TableSide, CoverInv
  <2>3. id \in DOMAIN queue'
    BY <2>1, <2>2 DEF WorkerChanges
  <2> QED
    BY <2>2, <2>3 DEF WorkerChanges
<1>10. ASSUME NEW s \in Sessions
       PROVE  SessionInv(s)'
  <2>1. SessionInv(s) /\ TableInv /\ TypeInv
    BY DEF IInv, TableSide
  <2>2. Open(s, "create") => sessions[s].objects \in SUBSET store'
    BY <2>1 DEF SessionInv, CreateInv, WorkerChanges
  <2>3. \A id \in DOMAIN queue : queue[id].failed => RowKept(id)
    BY DEF WorkerChanges, RowKept
  <2> QED
    BY <1>1, <2>1, <2>2, <2>3, SessionKept
<1>11. ASSUME NEW s \in Sessions
       PROVE  FreshInv(s)'
  <2> SUFFICES ASSUME Enqueues(s), NEW id \in DOMAIN sessions[s].rows
               PROVE  id \in 1..ids /\ id \notin DOMAIN queue' /\ ~Known(id)'
    BY <1>1, <1>3 DEF FreshInv
  <2>1. id \in 1..ids /\ id \notin DOMAIN queue /\ ~Known(id)
    BY DEF IInv, TableSide, FreshInv
  <2>2. id \in Nat
    BY <2>1, SMT DEF IInv, TypeInv
  <2> QED
    BY <2>1, <2>2 DEF WorkerChanges
<1>12. ASSUME NEW r \in Sessions, NEW s \in Sessions, r # s
       PROVE  ApartInv(r, s)'
  <2>1. ApartInv(r, s)
    BY <1>12 DEF IInv, TableSide
  <2> QED
    BY <1>1, <1>3, <2>1 DEF ApartInv
<1> QED
  BY <1>7, <1>8, <1>9, <1>10, <1>11, <1>12 DEF TableSide

\* What TypeInv says of the tables stays with such a step.
LEMMA TableTypes ==
  ASSUME TypeInv, WorkerChanges, proc' \in Processes,
         actors' \in [Actors -> Resting \cup Working], chan' \in Seq(Results)
  PROVE  TypeInv'
<1>1. UNCHANGED <<home, table, ids, sessions, condemned>>
  BY DEF WorkerChanges, tables
<1>2. store' \in SUBSET (1..Len(home)) /\ DOMAIN queue' \in SUBSET (1..ids)
  BY DEF WorkerChanges, TypeInv
<1> QED
  BY <1>1, <1>2 DEF TypeInv, WorkerChanges

\* A step that leaves store and queue alone changes nothing here.
LEMMA NothingChanges ==
  ASSUME TypeInv, UNCHANGED <<store, tables, queue>>
  PROVE  WorkerChanges
  BY DEF WorkerChanges, TypeInv, tables

\* A step of the worker that changes only where it is.
LEMMA MoveStep ==
  ASSUME IInv, UNCHANGED <<store, tables, queue, actors, chan>>, proc' \in Processes,
         proc'.inflight = proc.inflight, proc'.pending = proc.pending,
         proc'.tasks \in SUBSET proc.tasks, proc'.invalid \in SUBSET proc.invalid,
         proc'.pc # "dispatch" => proc'.tasks = {} /\ proc'.invalid = {},
         proc'.pc = "dispatch" => proc.pc = "dispatch" /\ proc'.tasks = proc.tasks
  PROVE  IInv'
<1>1. TypeInv /\ WorkerChanges
  BY NothingChanges DEF IInv
<1>2. TypeInv'
  BY <1>1, TableTypes DEF IInv, TypeInv
<1>3. TableSide'
  <2>1. \A id \in Nat : Known(id)' => Known(id)
    BY DEF Known
  <2> QED
    BY <1>1, <2>1, TableSideKept
<1>4. UNCHANGED <<home, table, ids, sessions>>
  BY DEF tables
<1>5. ItemInv'
  <2>1. \A t : Dead(t)' <=> Dead(t)
    BY <1>4 DEF Dead, Open
  <2> QED
    BY <1>4, <2>1 DEF IInv, WorkerSide, ItemInv
<1>6. DispatchInv'
  <2>1. IdleActors' = IdleActors
    BY DEF IdleActors
  <2> QED
    BY <2>1 DEF IInv, WorkerSide, DispatchInv
<1>7. ActorInv'
  BY <1>4 DEF IInv, WorkerSide, ActorInv, Works, At
<1>8. ResultInv'
  <2>1. Reported' = Reported
    BY DEF Reported
  <2>2. \A t, o : Hits(t, o)' <=> Hits(t, o)
    BY <1>4 DEF Hits
  <2> QED
    BY ZenonT(40), <2>1, <2>2 DEF IInv, WorkerSide, ResultInv, Works
<1> QED
  BY <1>2, <1>3, <1>5, <1>6, <1>7, <1>8 DEF IInv, WorkerSide

-----------------------------------------------------------------------------
(* Steps of the worker.                                                     *)

\* The fields that a jump, or the return of a schedule, leaves alone.
LEMMA Jumps ==
  ASSUME proc \in Processes, NEW p \in Jump, NEW q \in Schedules,
         Goto(p) \/ Return(p, q)
  PROVE  /\ proc' \in Processes /\ proc'.pc = p
         /\ proc'.inflight = proc.inflight /\ proc'.pending = proc.pending
         /\ proc'.tasks = proc.tasks /\ proc'.invalid = proc.invalid
<1>1. CASE Goto(p)
  BY <1>1, ZenonT(20) DEF Goto, Processes, Places
<1>2. CASE Return(p, q)
  BY <1>2, ZenonT(20) DEF Return, Processes, Places
<1> QED
  BY <1>1, <1>2

\* A jump between two states without tasks.
LEMMA JumpStep ==
  ASSUME IInv, UNCHANGED <<store, tables, queue, actors, chan>>, proc.pc # "dispatch",
         NEW p \in Jump, NEW q \in Schedules, Goto(p) \/ Return(p, q)
  PROVE  IInv'
<1>1. /\ proc' \in Processes /\ proc'.pc = p
      /\ proc'.inflight = proc.inflight /\ proc'.pending = proc.pending
      /\ proc'.tasks = proc.tasks /\ proc'.invalid = proc.invalid
  BY Jumps DEF IInv, TypeInv
<1>2. proc.tasks = {} /\ proc.invalid = {} /\ p # "dispatch"
  BY DEF IInv, WorkerSide, DispatchInv, Jump
<1> QED
  BY <1>1, <1>2, MoveStep

\* The jumps of run_object_cleanup_worker and run_until_idle, with those of their
\* error paths.
LEMMA WorkerJumps ==
  ASSUME IInv,
         \/ Launch \/ Inspect \/ InspectNext \/ StartupFails \/ StartActors
         \/ ApplyFails \/ Applied \/ EndRound \/ Wait \/ ShutdownEnds \/ DrainFails \/ Complete
  PROVE  IInv'
<1>1. UNCHANGED <<store, tables, queue, actors, chan>>
  BY DEF Launch, Inspect, InspectNext, StartupFails, StartActors, ApplyFails, Applied, EndRound,
         Wait, ShutdownEnds, DrainFails, Complete, threads
<1>2. proc.pc # "dispatch"
  <2>1. NoProc.pc # "dispatch"
    BY DEF NoProc
  <2> QED
    BY <2>1 DEF Launch, Inspect, InspectNext, StartupFails, StartActors, ApplyFails, Applied,
                EndRound, Wait, ShutdownEnds, DrainFails, Complete
<1>3. IntoRaw(NextSchedule) \in Schedules /\ "idle" \in Schedules /\ "run_after" \in Schedules
  BY DEF IntoRaw, Schedules
<1>4. \E p \in Jump, q \in Schedules : Goto(p) \/ Return(p, q)
  <2>1. CASE Launch
    BY <1>3, <2>1 DEF Launch, Jump
  <2>2. CASE Inspect
    BY <1>3, <2>2 DEF Inspect, Jump
  <2>3. CASE InspectNext
    BY <1>3, <2>3 DEF InspectNext, Jump
  <2>4. CASE StartupFails
    BY <1>3, <2>4 DEF StartupFails, Jump
  <2>5. CASE StartActors
    BY <1>3, <2>5 DEF StartActors, Jump
  <2>6. CASE ApplyFails
    BY <1>3, <2>6 DEF ApplyFails, Jump
  <2>7. CASE Applied
    BY <1>3, <2>7 DEF Applied, Jump
  <2>8. CASE EndRound
    BY <1>3, <2>8 DEF EndRound, Jump
  <2>9. CASE Wait
    BY <1>3, <2>9 DEF Wait, Jump
  <2>10. CASE ShutdownEnds
    BY <1>3, <2>10 DEF ShutdownEnds, Jump
  <2>11. CASE DrainFails
    BY <1>3, <2>11 DEF DrainFails, Jump
  <2>12. CASE Complete
    BY <1>3, <2>12 DEF Complete, Jump
  <2> QED
    BY <2>1, <2>2, <2>3, <2>4, <2>5, <2>6, <2>7, <2>8, <2>9, <2>10, <2>11, <2>12
<1> QED
  BY <1>1, <1>2, <1>4, JumpStep

\* fetch_ready_batch or fail_invalid fails, and the request to shut down.
LEMMA LeaveRound ==
  ASSUME IInv, DispatchFails \/ RequestShutdown
  PROVE  IInv'
<1>1. UNCHANGED <<store, tables, queue, actors, chan>> /\ proc \in Processes
  BY DEF DispatchFails, RequestShutdown, threads, IInv, TypeInv
<1>2. CASE DispatchFails
  <2>1. proc' = [proc EXCEPT !.pc = "shutdown", !.sched = "run_after", !.tasks = {}, !.invalid = {}]
    BY <1>2 DEF DispatchFails
  <2>2. /\ proc' \in Processes /\ proc'.pc = "shutdown"
        /\ proc'.inflight = proc.inflight /\ proc'.pending = proc.pending
        /\ proc'.tasks = {} /\ proc'.invalid = {}
    BY <1>1, <2>1, ZenonT(20) DEF Processes, Places, Jump, Schedules
  <2> QED
    BY <1>1, <2>2, MoveStep
<1>3. CASE RequestShutdown
  <2>1. proc' = [proc EXCEPT !.pc = "drain", !.cancelled = TRUE] /\ proc.pc = "shutdown"
    BY <1>3 DEF RequestShutdown
  <2>2. /\ proc' \in Processes /\ proc'.pc = "drain"
        /\ proc'.inflight = proc.inflight /\ proc'.pending = proc.pending
        /\ proc'.tasks = proc.tasks /\ proc'.invalid = proc.invalid
    BY <1>1, <2>1, ZenonT(20) DEF Processes, Places, Jump, Schedules
  <2>3. proc.tasks = {} /\ proc.invalid = {}
    BY <2>1 DEF IInv, WorkerSide, DispatchInv
  <2> QED
    BY <1>1, <2>2, <2>3, MoveStep
<1> QED
  BY <1>2, <1>3

\* The slot changes, and nothing else.
LEMMA SlotSteps ==
  ASSUME IInv, StopWorker \/ Reconcile \/ SlotClock
  PROVE  IInv'
<1>1. UNCHANGED <<store, tables, queue, proc, actors, chan>>
  BY DEF StopWorker, Reconcile, SlotClock, threads
<1>2. proc \in Processes
  BY DEF IInv, TypeInv
<1>3. proc.pc # "dispatch" => proc.tasks = {} /\ proc.invalid = {}
  BY DEF IInv, WorkerSide, DispatchInv
<1> QED
  BY <1>1, <1>2, <1>3, MoveStep

\* Results are received: they are still reported, and their actors are free.
LEMMA CollectStep ==
  ASSUME IInv, Collect \/ DrainCollect
  PROVE  IInv'
<1>1. /\ UNCHANGED <<store, tables, queue>> /\ proc \in Processes /\ chan \in Seq(Results)
      /\ chan' = <<>> /\ TypeInv
      /\ actors' = [a \in Actors |-> IF actors[a].pc = "sent" THEN IdleActor ELSE actors[a]]
  BY DEF Collect, DrainCollect, IInv, TypeInv
<1>2. proc.pc \in {"collect", "drain"} /\ proc.pending \in Seq(Results)
  BY <1>1 DEF Collect, DrainCollect, Processes
<1>3. proc.pending \o chan \in Seq(Results)
  BY <1>1, <1>2, SMT
<1>4. /\ proc' \in Processes /\ proc'.pc \in {"apply", "drain"}
      /\ proc'.inflight = proc.inflight /\ proc'.pending = proc.pending \o chan
      /\ proc'.tasks = proc.tasks /\ proc'.invalid = proc.invalid
  <2>1. CASE Collect
    <3>1. proc' = [proc EXCEPT !.pc = "apply", !.pending = proc.pending \o chan]
      BY <2>1 DEF Collect
    <3> QED
      BY <1>1, <1>3, <3>1, ZenonT(20) DEF Processes, Places, Jump, Schedules
  <2>2. CASE DrainCollect
    <3>1. proc' = [proc EXCEPT !.pending = proc.pending \o chan] /\ proc.pc = "drain"
      BY <2>2 DEF DrainCollect
    <3> QED
      BY <1>1, <1>3, <3>1, ZenonT(20) DEF Processes, Places, Jump, Schedules
  <2> QED
    BY <2>1, <2>2
<1>5. proc.tasks = {} /\ proc.invalid = {}
  BY <1>2 DEF IInv, WorkerSide, DispatchInv
<1>6. IdleActor \in Resting /\ IdleActor.pc = "idle"
  BY ZenonT(20) DEF IdleActor, Resting
<1>7. /\ actors' \in [Actors -> Resting \cup Working]
      /\ \A a \in Actors : Works(a)' => Works(a) /\ actors'[a] = actors[a]
  BY <1>1, <1>6 DEF TypeInv, Works
<1>8. WorkerChanges
  BY <1>1, NothingChanges
<1>9. TypeInv'
  <2>1. chan' \in Seq(Results)
    BY <1>1, SMT
  <2> QED
    BY <1>1, <1>4, <1>7, <1>8, <2>1, TableTypes
<1>10. TableSide'
  <2>1. \A id \in Nat : Known(id)' => Known(id)
    BY <1>4 DEF Known
  <2> QED
    BY <1>8, <2>1, TableSideKept
<1>11. UNCHANGED <<home, table, ids, sessions>>
  BY <1>1 DEF tables
<1>12. ItemInv'
  <2>1. \A t : Dead(t)' <=> Dead(t)
    BY <1>11 DEF Dead, Open
  <2> QED
    BY <1>1, <1>4, <1>11, <2>1 DEF IInv, WorkerSide, ItemInv
<1>13. DispatchInv'
  BY <1>4, <1>5 DEF DispatchInv
<1>14. ActorInv'
  <2>1. \A a \in Actors : actors'[a].pc = "page" => actors[a].pc = "page" /\ actors'[a] = actors[a]
    BY <1>7 DEF Works
  <2> QED
    BY <1>4, <1>7, <1>11, <2>1, SMT DEF IInv, WorkerSide, ActorInv, At
<1>15. ResultInv'
  <2>1. Reported' = Reported
    BY <1>1, <1>3, <1>4, SMT DEF Reported
  <2>2. \A t, o : Hits(t, o)' <=> Hits(t, o)
    BY <1>11 DEF Hits
  <2>3. ResultInv /\ store' = store /\ proc'.inflight = proc.inflight
    BY <1>1, <1>4 DEF IInv, WorkerSide
  <2>4. \A a \in Actors : Works(a)' => Works(a) /\ actors'[a].item.id = actors[a].item.id
    BY <1>7
  <2>5. ASSUME NEW k \in 1..Len(Reported)'
        PROVE  /\ \E i \in proc'.inflight : i.id = Reported'[k].id
               /\ \A a \in Actors : Works(a)' => actors'[a].item.id # Reported'[k].id
               /\ Reported'[k].outcome = "complete" =>
                    \A i \in proc'.inflight :
                      i.id = Reported'[k].id => \A o \in store' : ~Hits(i.target, o)'
    <3>1. k \in 1..Len(Reported) /\ Reported'[k] = Reported[k]
      BY <2>1
    <3>2. /\ \E i \in proc.inflight : i.id = Reported[k].id
          /\ \A a \in Actors : Works(a) => actors[a].item.id # Reported[k].id
          /\ Reported[k].outcome = "complete" =>
               \A i \in proc.inflight :
                 i.id = Reported[k].id => \A o \in store : ~Hits(i.target, o)
      BY <2>3, <3>1 DEF ResultInv
    <3>3. \A a \in Actors : Works(a)' => actors'[a].item.id # Reported'[k].id
      BY <2>4, <3>1, <3>2
    <3> QED
      BY <2>2, <2>3, <3>1, <3>2, <3>3
  <2>6. \A j, k \in 1..Len(Reported)' : Reported'[j].id = Reported'[k].id => j = k
    BY <2>1, <2>3 DEF ResultInv
  <2> QED
    BY <2>5, <2>6 DEF ResultInv
<1> QED
  BY <1>9, <1>10, <1>12, <1>13, <1>14, <1>15 DEF IInv, WorkerSide

\* The process ends, with its threads: nothing is in flight any more.
LEMMA GoneWorker ==
  ASSUME Gone
  PROVE  /\ proc' \in Processes /\ proc'.inflight = {} /\ proc'.tasks = {}
         /\ actors' \in [Actors -> Resting \cup Working] /\ chan' \in Seq(Results)
         /\ \A id : ~Known(id)'
         /\ WorkerSide'
<1>1. /\ proc' = NoProc /\ chan' = <<>> /\ actors' = [a \in Actors |-> IdleActor]
  BY DEF Gone
<1>2. /\ NoProc \in Processes /\ NoProc.inflight = {} /\ NoProc.tasks = {}
      /\ NoProc.invalid = {} /\ NoProc.pending = <<>> /\ NoProc.pc = "none"
  <2>1. <<>> \in Seq(Results)
    OBVIOUS
  <2> QED
    BY <2>1, ZenonT(20) DEF NoProc, Processes, Places, Schedules
<1>3. IdleActor \in Resting /\ IdleActor.pc = "idle"
  BY ZenonT(20) DEF IdleActor, Resting
<1>4. \A a \in Actors : actors'[a] = IdleActor /\ ~Works(a)'
  BY <1>1, <1>3 DEF Works
<1>5. \A id : ~Known(id)'
  BY <1>1, <1>2 DEF Known
<1>6. ItemInv' /\ DispatchInv'
  BY <1>1, <1>2 DEF ItemInv, DispatchInv
<1>7. ActorInv'
  BY <1>3, <1>4 DEF ActorInv
<1>8. Len(Reported') = 0
  BY <1>1, <1>2, SMT DEF Reported
<1>9. ResultInv'
  BY <1>8 DEF ResultInv
<1> QED
  BY <1>1, <1>2, <1>3, <1>5, <1>6, <1>7, <1>9 DEF WorkerSide

\* exit, or a crash of the worker.
LEMMA ExitStep ==
  ASSUME IInv, Exit \/ CrashWorker
  PROVE  IInv'
<1>1. UNCHANGED <<store, tables, queue>> /\ Gone
  BY DEF Exit, CrashWorker
<1>2. WorkerChanges /\ TypeInv
  BY <1>1, NothingChanges DEF IInv
<1>3. TypeInv'
  BY <1>1, <1>2, GoneWorker, TableTypes
<1>4. TableSide'
  BY <1>1, <1>2, GoneWorker, TableSideKept
<1> QED
  BY <1>1, <1>3, <1>4, GoneWorker DEF IInv

\* update_if_current keeps what a row stands for, and never unfails it.
LEMMA Updated ==
  ASSUME TypeInv, NEW i \in Items, NEW row \in Rows,
         i.id \in DOMAIN queue => /\ row.target = queue[i.id].target
                                  /\ row.valid = queue[i.id].valid
                                  /\ queue[i.id].failed => row.failed
  PROVE  LET q == UpdateIfCurrent(i, row)
         IN  /\ q \in [DOMAIN q -> Rows] /\ DOMAIN q = DOMAIN queue
             /\ \A id \in DOMAIN queue : /\ q[id].target = queue[id].target
                                         /\ q[id].valid = queue[id].valid
                                         /\ queue[id].failed => q[id].failed
                                         /\ id # i.id => q[id] = queue[id]
<1> DEFINE q == UpdateIfCurrent(i, row)
           new == [row EXCEPT !.revision = row.revision + 1]
<1>1. queue \in [DOMAIN queue -> Rows]
  BY DEF TypeInv
<1>2. row.revision + 1 \in Nat
  BY SMT DEF Rows
<1>3. new \in Rows /\ new.target = row.target /\ new.valid = row.valid /\ new.failed = row.failed
  BY <1>2, ZenonT(20) DEF Rows
<1>4. CASE i.id \in DOMAIN queue /\ queue[i.id].revision = i.revision
  <2>1. q = [queue EXCEPT ![i.id] = new]
    BY <1>4 DEF UpdateIfCurrent
  <2> HIDE DEF q, new
  <2>2. q \in [DOMAIN queue -> Rows] /\ q[i.id] = new /\ \A id \in DOMAIN queue : id # i.id => q[id] = queue[id]
    BY <1>1, <1>3, <1>4, <2>1
  <2>3. ASSUME NEW id \in DOMAIN queue
        PROVE  /\ q[id].target = queue[id].target /\ q[id].valid = queue[id].valid
               /\ queue[id].failed => q[id].failed
    BY <1>3, <1>4, <2>2
  <2>4. DOMAIN q = DOMAIN queue
    BY <2>2
  <2> QED
    BY <2>2, <2>3, <2>4 DEF q
<1>5. CASE ~(i.id \in DOMAIN queue /\ queue[i.id].revision = i.revision)
  BY <1>1, <1>5 DEF UpdateIfCurrent
<1> QED
  BY <1>4, <1>5

\* What the transaction that stores an outcome may do to the queue.
LEMMA Persisted ==
  ASSUME TypeInv, NEW i \in Items, NEW outcome \in Outcome
  PROVE  LET q == Persist(i, outcome)
         IN  /\ q \in [DOMAIN q -> Rows] /\ DOMAIN q \in SUBSET DOMAIN queue
             /\ \A id \in DOMAIN q : /\ q[id].target = queue[id].target
                                     /\ q[id].valid = queue[id].valid
                                     /\ queue[id].failed => q[id].failed
                                     /\ id # i.id => q[id] = queue[id]
             /\ \A id \in DOMAIN queue \ DOMAIN q : id = i.id /\ outcome = "complete"
<1>1. queue \in [DOMAIN queue -> Rows]
  BY DEF TypeInv
<1>2. CASE outcome = "complete"
  <2>1. Persist(i, outcome) = [id \in DOMAIN queue \ {i.id} |-> queue[id]]
    BY <1>2 DEF Persist, Restrict
  <2> QED
    BY <1>1, <1>2, <2>1
<1>3. CASE outcome = "retryable"
  <2> DEFINE n == i.attempt + 1
             r == IF n >= MaxAttempts THEN [queue[i.id] EXCEPT !.attempt = n, !.failed = TRUE]
                                      ELSE [queue[i.id] EXCEPT !.attempt = n, !.due = "later"]
  <2>1. Persist(i, outcome) = UpdateIfCurrent(i, r)
    BY <1>3 DEF Persist, Retry
  <2>2. n \in Nat
    BY SMT DEF Items
  <2>3. CASE i.id \in DOMAIN queue
    <3>1. queue[i.id] \in Rows
      BY <1>1, <2>3
    <3> HIDE DEF n
    <3>2. /\ r \in Rows /\ r.target = queue[i.id].target /\ r.valid = queue[i.id].valid
          /\ queue[i.id].failed => r.failed
      BY <2>2, <3>1, ZenonT(20) DEF Rows
    <3> HIDE DEF r
    <3> QED
      BY <2>1, <3>2, Updated, SMT
  <2>4. CASE i.id \notin DOMAIN queue
    BY <1>1, <2>1, <2>4 DEF UpdateIfCurrent
  <2> QED
    BY <2>3, <2>4
<1>4. CASE outcome = "permanent"
  <2> DEFINE r == [queue[i.id] EXCEPT !.failed = TRUE]
  <2>1. Persist(i, outcome) = UpdateIfCurrent(i, r)
    BY <1>4 DEF Persist, Fail
  <2>2. CASE i.id \in DOMAIN queue
    <3>1. queue[i.id] \in Rows
      BY <1>1, <2>2
    <3>2. /\ r \in Rows /\ r.target = queue[i.id].target /\ r.valid = queue[i.id].valid
          /\ queue[i.id].failed => r.failed
      BY <3>1, ZenonT(20) DEF Rows
    <3> HIDE DEF r
    <3> QED
      BY <2>1, <3>2, Updated
  <2>3. CASE i.id \notin DOMAIN queue
    BY <1>1, <2>1, <2>3 DEF UpdateIfCurrent
  <2> QED
    BY <2>2, <2>3
<1>5. CASE outcome = "cancelled"
  <2>1. Persist(i, outcome) = queue
    BY <1>5 DEF Persist
  <2> QED
    BY <1>1, <2>1
<1> QED
  BY <1>2, <1>3, <1>4, <1>5 DEF Outcome

\* The first reported result: its item is in flight, nobody works on it any more,
\* and the other results are of other items.
LEMMA FirstResult ==
  ASSUME IInv, proc.pending # <<>>
  PROVE  LET r == Head(proc.pending)
         IN  /\ r \in Results /\ Tail(proc.pending) \in Seq(Results)
             /\ \E i \in proc.inflight : i.id = r.id
             /\ \A a \in Actors : Works(a) => actors[a].item.id # r.id
             /\ r.outcome = "complete" =>
                  \A i \in proc.inflight : i.id = r.id => \A o \in store : ~Hits(i.target, o)
             /\ LET rest == Tail(proc.pending) \o chan
                IN  /\ Len(Reported) \in Nat /\ Len(rest) = Len(Reported) - 1
                    /\ \A k \in 1..Len(rest) : rest[k] = Reported[k + 1]
                    /\ \A k \in 1..Len(rest) : rest[k].id # r.id
<1> DEFINE p == proc.pending
           r == Head(p)
           rest == Tail(p) \o chan
<1>1. p \in Seq(Results) /\ chan \in Seq(Results)
  BY DEF IInv, TypeInv, Processes
<1>2. /\ r \in Results /\ Tail(p) \in Seq(Results) /\ Len(Tail(p)) = Len(p) - 1
      /\ \A k \in 1..Len(Tail(p)) : Tail(p)[k] = p[k + 1]
  BY <1>1, SMT
<1>3. Len(p) \in Nat /\ Len(p) > 0 /\ Len(chan) \in Nat /\ r = p[1]
  BY <1>1, SMT
<1>4. /\ Len(Reported) = Len(p) + Len(chan)
      /\ \A k \in 1..Len(p) + Len(chan) :
           Reported[k] = IF k <= Len(p) THEN p[k] ELSE chan[k - Len(p)]
  BY <1>1, SMT DEF Reported
<1>5. /\ Len(rest) = Len(Tail(p)) + Len(chan)
      /\ \A k \in 1..Len(Tail(p)) + Len(chan) :
           rest[k] = IF k <= Len(Tail(p)) THEN Tail(p)[k] ELSE chan[k - Len(Tail(p))]
  BY <1>1, <1>2, SMT
<1> HIDE DEF p, r, rest
<1>6. Len(Reported) \in Nat /\ Len(rest) = Len(Reported) - 1 /\ 1 \in 1..Len(Reported) /\ Reported[1] = r
  BY <1>2, <1>3, <1>4, <1>5, SMT
<1>7. ASSUME NEW k \in 1..Len(rest)
      PROVE  rest[k] = Reported[k + 1] /\ k + 1 \in 1..Len(Reported) /\ k + 1 # 1
  BY <1>2, <1>3, <1>4, <1>5, <1>6, SMT
<1>8. ResultInv
  BY DEF IInv, WorkerSide
<1>9. /\ \E i \in proc.inflight : i.id = r.id
      /\ \A a \in Actors : Works(a) => actors[a].item.id # r.id
      /\ r.outcome = "complete" =>
           \A i \in proc.inflight : i.id = r.id => \A o \in store : ~Hits(i.target, o)
  BY <1>6, <1>8 DEF ResultInv
<1>10. \A k \in 1..Len(rest) : rest[k].id # r.id
  BY ZenonT(40), <1>6, <1>7, <1>8 DEF ResultInv
<1> QED
  BY <1>2, <1>6, <1>7, <1>9, <1>10 DEF p, r, rest

\* apply_result: the row of a finished item goes, that of a failed one is updated.
LEMMA ApplyStep ==
  ASSUME IInv, ApplyResult
  PROVE  IInv'
<1> DEFINE r == Head(proc.pending)
           items == {j \in proc.inflight : j.id = r.id}
           rest == Tail(proc.pending) \o chan
<1>1. /\ TypeInv /\ proc \in Processes /\ proc.pc \in {"apply", "drain"} /\ proc.pending # <<>>
      /\ UNCHANGED <<store, tables, actors, chan>>
  BY DEF ApplyResult, IInv, TypeInv, threads
<1>2. /\ r \in Results /\ Tail(proc.pending) \in Seq(Results)
      /\ \E j \in proc.inflight : j.id = r.id
      /\ \A a \in Actors : Works(a) => actors[a].item.id # r.id
      /\ r.outcome = "complete" =>
           \A j \in proc.inflight : j.id = r.id => \A o \in store : ~Hits(j.target, o)
  BY <1>1, FirstResult
<1>3. /\ Len(Reported) \in Nat /\ Len(rest) = Len(Reported) - 1
      /\ \A k \in 1..Len(rest) : rest[k] = Reported[k + 1]
      /\ \A k \in 1..Len(rest) : rest[k].id # r.id
  BY <1>1, FirstResult
<1>4. items # {}
  BY <1>2
<1>5. PICK i \in items : queue' = Persist(i, r.outcome)
  <2>1. queue' = Persist(CHOOSE j \in items : TRUE, r.outcome)
    BY <1>4 DEF ApplyResult
  <2>2. (CHOOSE j \in items : TRUE) \in items
    BY <1>4
  <2> QED
    BY <2>1, <2>2
<1>6. i \in Items /\ i \in proc.inflight /\ i.id = r.id /\ r.outcome \in Outcome
  <2>1. proc.inflight \in SUBSET Items
    BY <1>1 DEF Processes
  <2> QED
    BY <1>2, <2>1 DEF Results
<1>7. \A j \in proc.inflight \cup proc.tasks : j.id = i.id => j = i
  BY <1>6 DEF IInv, WorkerSide, ItemInv
<1>8. items = {i}
  BY <1>6, <1>7
<1>9. proc' = [proc EXCEPT !.pending = Tail(proc.pending), !.inflight = proc.inflight \ {i}]
  BY <1>8 DEF ApplyResult
<1> HIDE DEF r, items, rest
<1>10. /\ proc' \in Processes /\ proc'.pc = proc.pc
       /\ proc'.inflight = proc.inflight \ {i} /\ proc'.pending = Tail(proc.pending)
       /\ proc'.tasks = proc.tasks /\ proc'.invalid = proc.invalid
  BY <1>1, <1>2, <1>9, ZenonT(20) DEF Processes
<1>11. /\ queue' \in [DOMAIN queue' -> Rows] /\ DOMAIN queue' \in SUBSET DOMAIN queue
       /\ \A id \in DOMAIN queue' : /\ queue'[id].target = queue[id].target
                                    /\ queue'[id].valid = queue[id].valid
                                    /\ queue[id].failed => queue'[id].failed
                                    /\ id # i.id => queue'[id] = queue[id]
       /\ \A id \in DOMAIN queue \ DOMAIN queue' : id = i.id /\ r.outcome = "complete"
  BY <1>1, <1>5, <1>6, Persisted, SMT
<1>12. WorkerChanges
  <2>1. ASSUME NEW id \in DOMAIN queue \ DOMAIN queue'
        PROVE  ~queue[id].failed /\ \A o \in store : ~Hits(queue[id].target, o)
    <3>1. id = i.id /\ r.outcome = "complete"
      BY <1>11
    <3>2. queue[id].target = i.target /\ ~queue[id].failed
      BY <1>6, <3>1 DEF IInv, WorkerSide, ItemInv
    <3> QED
      BY <1>2, <1>6, <3>1, <3>2
  <2> QED
    BY <1>1, <1>11, <2>1 DEF WorkerChanges
<1>13. TypeInv'
  <2>1. actors' \in [Actors -> Resting \cup Working] /\ chan' \in Seq(Results)
    BY <1>1 DEF TypeInv
  <2> QED
    BY <1>1, <1>10, <1>12, <2>1, TableTypes
<1>14. TableSide'
  <2>1. \A id \in Nat : Known(id)' => Known(id)
    BY <1>10 DEF Known
  <2> QED
    BY <1>12, <2>1, TableSideKept
<1>15. UNCHANGED <<home, table, ids, sessions>>
  BY <1>1 DEF tables
<1>16. proc.tasks = {} /\ proc.invalid = {}
  BY <1>1 DEF IInv, WorkerSide, DispatchInv
<1>17. ItemInv'
  <2>1. \A t : Dead(t)' <=> Dead(t)
    BY <1>15 DEF Dead, Open
  <2> SUFFICES ASSUME NEW j \in proc'.inflight \cup proc'.tasks
               PROVE  /\ j.id \in DOMAIN queue' /\ Dead(j.target)
                      /\ queue'[j.id].target = j.target
                      /\ queue'[j.id].valid /\ ~queue'[j.id].failed
                      /\ \A x \in proc'.inflight \cup proc'.tasks : j.id = x.id => j = x
    BY <1>15, <2>1 DEF ItemInv
  <2>2. j \in proc.inflight \cup proc.tasks /\ j # i
    BY <1>10, <1>16
  <2>3. /\ j.id \in DOMAIN queue /\ Dead(j.target)
        /\ queue[j.id].target = j.target /\ queue[j.id].valid /\ ~queue[j.id].failed
        /\ \A x \in proc.inflight \cup proc.tasks : j.id = x.id => j = x
    BY <2>2 DEF IInv, WorkerSide, ItemInv
  <2>4. j.id # i.id
    BY <1>7, <2>2
  <2>5. j.id \in DOMAIN queue' /\ queue'[j.id] = queue[j.id]
    BY <1>11, <2>3, <2>4
  <2> QED
    BY <1>10, <2>3, <2>5
<1>18. DispatchInv'
  BY <1>1, <1>10, <1>16 DEF DispatchInv
<1>19. ActorInv'
  <2>1. \A a \in Actors : Works(a) => actors[a].item \in proc.inflight /\ actors[a].item # i
    BY <1>2, <1>6 DEF IInv, WorkerSide, ActorInv
  <2> QED
    BY <1>1, <1>10, <1>15, <2>1 DEF IInv, WorkerSide, ActorInv, Works, At
<1>20. ResultInv'
  <2>1. Reported' = rest
    BY <1>1, <1>10 DEF Reported, rest
  <2>2. \A t, o : Hits(t, o)' <=> Hits(t, o)
    BY <1>15 DEF Hits
  <2>3. ASSUME NEW k \in 1..Len(rest)
        PROVE  /\ \E j \in proc'.inflight : j.id = rest[k].id
               /\ \A a \in Actors : Works(a) => actors[a].item.id # rest[k].id
               /\ rest[k].outcome = "complete" => \A j \in proc'.inflight :
                    j.id = rest[k].id => \A o \in store : ~Hits(j.target, o)
    <3>1. k + 1 \in 1..Len(Reported) /\ rest[k] = Reported[k + 1]
      BY <1>3, SMT
    <3>2. /\ \E j \in proc.inflight : j.id = rest[k].id
          /\ \A a \in Actors : Works(a) => actors[a].item.id # rest[k].id
          /\ rest[k].outcome = "complete" => \A j \in proc.inflight :
               j.id = rest[k].id => \A o \in store : ~Hits(j.target, o)
      BY ZenonT(40), <3>1 DEF IInv, WorkerSide, ResultInv
    <3>3. rest[k].id # i.id
      BY <1>3, <1>6
    <3> QED
      BY <1>10, <3>2, <3>3
  <2>4. ASSUME NEW j \in 1..Len(rest), NEW k \in 1..Len(rest), rest[j].id = rest[k].id
        PROVE  j = k
    <3>1. /\ j + 1 \in 1..Len(Reported) /\ k + 1 \in 1..Len(Reported)
          /\ rest[j] = Reported[j + 1] /\ rest[k] = Reported[k + 1]
      BY <1>3, SMT
    <3>2. j + 1 = k + 1
      BY <2>4, <3>1 DEF IInv, WorkerSide, ResultInv
    <3> QED
      BY <3>2, SMT
  <2>5. \A a \in Actors : Works(a)' <=> Works(a)
    BY <1>1 DEF Works
  <2> QED
    BY <1>1, <2>1, <2>2, <2>3, <2>4, <2>5 DEF ResultInv
<1> QED
  BY <1>13, <1>14, <1>17, <1>18, <1>19, <1>20 DEF IInv, WorkerSide

\* A step that changes the state of rows, not what they stand for: an invalid row is
\* failed, or the deadline of a row comes closer.
LEMMA RowStep ==
  ASSUME IInv, UNCHANGED <<store, tables, actors, chan>>, NEW id \in DOMAIN queue, NEW row \in Rows,
         queue' = [queue EXCEPT ![id] = row], row.target = queue[id].target,
         row.valid = queue[id].valid, queue[id].failed => row.failed,
         row.failed = queue[id].failed \/ ~queue[id].valid,
         proc' \in Processes, proc'.pc = proc.pc, proc'.inflight = proc.inflight,
         proc'.pending = proc.pending, proc'.tasks = proc.tasks,
         proc'.invalid \in SUBSET proc.invalid
  PROVE  IInv'
<1>1. TypeInv /\ queue \in [DOMAIN queue -> Rows]
  BY DEF IInv, TypeInv
<1>2. /\ queue' \in [DOMAIN queue -> Rows] /\ DOMAIN queue' = DOMAIN queue
      /\ queue'[id] = row /\ \A k \in DOMAIN queue : k # id => queue'[k] = queue[k]
  BY <1>1
<1>3. \A k \in DOMAIN queue : /\ queue'[k].target = queue[k].target
                              /\ queue'[k].valid = queue[k].valid
                              /\ queue[k].failed => queue'[k].failed
                              /\ queue[k].valid => queue'[k].failed = queue[k].failed
  BY <1>2
<1>4. WorkerChanges
  BY <1>2, <1>3 DEF WorkerChanges
<1>5. TypeInv'
  BY <1>1, <1>4, TableTypes DEF TypeInv
<1>6. TableSide'
  <2>1. \A k \in Nat : Known(k)' => Known(k)
    BY DEF Known
  <2> QED
    BY <1>4, <2>1, TableSideKept
<1>7. UNCHANGED <<home, table, ids, sessions>>
  BY DEF tables
<1>8. ItemInv'
  <2>1. \A t : Dead(t)' <=> Dead(t)
    BY <1>7 DEF Dead, Open
  <2> QED
    BY <1>2, <1>3, <1>7, <2>1, SMT DEF IInv, WorkerSide, ItemInv
<1>9. DispatchInv'
  <2>1. IdleActors' = IdleActors
    BY DEF IdleActors
  <2> QED
    BY <1>2, <1>3, <2>1 DEF IInv, WorkerSide, DispatchInv
<1>10. ActorInv'
  BY <1>7 DEF IInv, WorkerSide, ActorInv, Works, At
<1>11. ResultInv'
  <2>1. Reported' = Reported
    BY DEF Reported
  <2>2. \A t, o : Hits(t, o)' <=> Hits(t, o)
    BY <1>7 DEF Hits
  <2> QED
    BY ZenonT(40), <2>1, <2>2 DEF IInv, WorkerSide, ResultInv, Works
<1> QED
  BY <1>5, <1>6, <1>8, <1>9, <1>10, <1>11 DEF IInv, WorkerSide

\* fail_invalid.
LEMMA QuarantineStep ==
  ASSUME IInv, QuarantineInvalid
  PROVE  IInv'
<1>1. PICK id \in proc.invalid :
        /\ queue' = [queue EXCEPT ![id] = [queue[id] EXCEPT !.failed = TRUE, !.revision = @ + 1]]
        /\ proc' = [proc EXCEPT !.invalid = @ \ {id}]
  BY DEF QuarantineInvalid
<1>2. /\ proc.pc = "dispatch" /\ TypeInv /\ proc \in Processes
      /\ UNCHANGED <<store, tables, actors, chan>>
  BY DEF QuarantineInvalid, threads, IInv, TypeInv
<1>3. id \in DOMAIN queue /\ ~queue[id].valid
  BY <1>2 DEF IInv, WorkerSide, DispatchInv
<1> DEFINE row == [queue[id] EXCEPT !.failed = TRUE, !.revision = queue[id].revision + 1]
<1>4. queue[id] \in Rows
  BY <1>2, <1>3 DEF TypeInv
<1>5. queue[id].revision + 1 \in Nat
  BY <1>4, SMT DEF Rows
<1>6. /\ row \in Rows /\ row.target = queue[id].target /\ row.valid = queue[id].valid
      /\ row.failed
  BY <1>4, <1>5, ZenonT(20) DEF Rows
<1>7. queue' = [queue EXCEPT ![id] = row]
  <2>1. queue' = [queue EXCEPT ![id] = [[queue[id] EXCEPT !.failed = TRUE] EXCEPT !.revision = @ + 1]]
    BY <1>1
  <2>2. [queue[id] EXCEPT !.failed = TRUE].revision = queue[id].revision
    BY <1>4, ZenonT(20) DEF Rows
  <2> QED
    BY <2>1, <2>2, ZenonT(20)
<1> HIDE DEF row
<1>8. /\ proc' \in Processes /\ proc'.pc = proc.pc /\ proc'.inflight = proc.inflight
      /\ proc'.pending = proc.pending /\ proc'.tasks = proc.tasks
      /\ proc'.invalid \in SUBSET proc.invalid
  BY <1>1, <1>2, ZenonT(20) DEF Processes
<1> QED
  BY <1>2, <1>3, <1>6, <1>7, <1>8, RowStep

\* The deadline of a row comes closer.
LEMMA ClockStep ==
  ASSUME IInv, NEW id \in Item, RowClock(id)
  PROVE  IInv'
<1>1. /\ id \in DOMAIN queue /\ TypeInv /\ proc \in Processes
      /\ UNCHANGED <<store, tables, proc, actors, chan>>
  BY DEF RowClock, threads, IInv, TypeInv
<1> DEFINE d == IF queue[id].due = "later" /\ Submilli THEN "soon" ELSE "now"
           row == [queue[id] EXCEPT !.due = d]
<1>2. queue[id] \in Rows /\ d \in {"now", "soon", "later"}
  BY <1>1 DEF TypeInv
<1>3. queue' = [queue EXCEPT ![id] = row]
  BY <1>1, <1>2 DEF RowClock
<1> HIDE DEF d
<1>4. /\ row \in Rows /\ row.target = queue[id].target /\ row.valid = queue[id].valid
      /\ row.failed = queue[id].failed
  BY <1>2, ZenonT(20) DEF Rows
<1> HIDE DEF row
<1> QED
  BY <1>1, <1>3, <1>4, RowStep

-----------------------------------------------------------------------------
(* The actors.                                                              *)

\* A working actor: its item is in flight, and what it may delete is dead.
LEMMA WorkingActor ==
  ASSUME IInv, NEW a \in Actors, Works(a)
  PROVE  /\ actors[a] \in Working /\ actors[a].item \in Items
         /\ actors[a].item \in proc.inflight
         /\ \A o \in store : Hits(actors[a].item.target, o) =>
              /\ \A l \in Locations : o \notin table[l].refs
              /\ \A s \in Sessions : Open(s, "create") => o \notin sessions[s].objects
<1>1. actors[a] \in Resting \cup Working /\ store \in SUBSET (1..Len(home))
  BY DEF IInv, TypeInv
<1>2. actors[a] \in Working
  BY <1>1, ZenonT(20) DEF Works, Resting
<1>3. actors[a].item \in Items /\ actors[a].item.target \in Targets
  BY <1>2, ZenonT(20) DEF Working, Items
<1>4. actors[a].item \in proc.inflight
  BY DEF IInv, WorkerSide, ActorInv
<1>5. Dead(actors[a].item.target)
  BY <1>4 DEF IInv, WorkerSide, ItemInv
<1>6. TypeInv /\ TableInv /\ \A s \in Sessions : SessionInv(s)
  BY DEF IInv, TableSide
<1> QED
  BY <1>1, <1>2, <1>3, <1>4, <1>5, <1>6, DeadObject

\* A step of a working actor that deletes objects of its item at most, and that does
\* not make it idle.
LEMMA ActorFrame ==
  ASSUME IInv, NEW a \in Actors, Works(a), UNCHANGED <<tables, queue, proc>>,
         store' \in SUBSET store, \A o \in store \ store' : Hits(actors[a].item.target, o),
         NEW new \in Resting \cup Working, new.pc # "idle",
         actors' = [actors EXCEPT ![a] = new], chan' \in Seq(Results)
  PROVE  /\ TypeInv' /\ TableSide' /\ ItemInv' /\ DispatchInv'
         /\ UNCHANGED <<home, table, ids, sessions>>
         /\ actors'[a] = new /\ \A b \in Actors : b # a => actors'[b] = actors[b]
<1>1. /\ TypeInv /\ actors \in [Actors -> Resting \cup Working]
      /\ queue \in [DOMAIN queue -> Rows]
  BY DEF IInv, TypeInv
<1>2. /\ actors' \in [Actors -> Resting \cup Working]
      /\ actors'[a] = new /\ \A b \in Actors : b # a => actors'[b] = actors[b]
  BY <1>1
<1>3. WorkerChanges
  BY <1>1, WorkingActor DEF WorkerChanges
<1>4. proc' \in Processes
  BY <1>1 DEF TypeInv
<1>5. TypeInv'
  BY <1>1, <1>2, <1>3, <1>4, TableTypes
<1>6. TableSide'
  <2>1. \A id \in Nat : Known(id)' => Known(id)
    BY DEF Known
  <2> QED
    BY <1>3, <2>1, TableSideKept
<1>7. UNCHANGED <<home, table, ids, sessions>>
  BY DEF tables
<1>8. ItemInv'
  <2>1. \A t : Dead(t)' <=> Dead(t)
    BY <1>7 DEF Dead, Open
  <2> QED
    BY <1>7, <2>1 DEF IInv, WorkerSide, ItemInv
<1>9. DispatchInv'
  <2>1. actors[a].pc # "idle"
    BY DEF Works
  <2>2. IdleActors' = IdleActors
    BY <1>2, <2>1 DEF IdleActors
  <2> QED
    BY <2>2 DEF IInv, WorkerSide, DispatchInv
<1> QED
  BY <1>2, <1>5, <1>6, <1>7, <1>8, <1>9

\* The actor goes on with its item.
LEMMA GoesOn ==
  ASSUME IInv, NEW a \in Actors, Works(a), UNCHANGED <<tables, queue, proc, chan>>,
         store' \in SUBSET store, \A o \in store \ store' : Hits(actors[a].item.target, o),
         NEW new \in Working, new.item = actors[a].item, actors' = [actors EXCEPT ![a] = new],
         new.pc = "page" => /\ new.item.target.op = "tree"
                            /\ new.page \in SUBSET At(new.item.target.at)
  PROVE  IInv'
<1>1. new.pc # "idle" /\ chan' \in Seq(Results)
  BY ZenonT(20) DEF Working, IInv, TypeInv
<1>2. /\ TypeInv' /\ TableSide' /\ ItemInv' /\ DispatchInv'
      /\ UNCHANGED <<home, table, ids, sessions>>
      /\ actors'[a] = new /\ \A b \in Actors : b # a => actors'[b] = actors[b]
  BY <1>1, ActorFrame
<1>3. /\ \A b \in Actors : Works(b)' => Works(b) /\ actors'[b].item = actors[b].item
      /\ \A l : At(l)' = At(l)
      /\ \A t, o : Hits(t, o)' <=> Hits(t, o)
  BY <1>2 DEF Works, At, Hits
<1>4. ActorInv'
  <2>1. \A b \in Actors : Works(b)' => actors'[b].item \in proc'.inflight
    BY <1>3 DEF IInv, WorkerSide, ActorInv
  <2>2. \A b, c \in Actors :
          Works(b)' /\ Works(c)' /\ actors'[b].item.id = actors'[c].item.id => b = c
    BY <1>3 DEF IInv, WorkerSide, ActorInv
  <2>3. \A b \in Actors : actors'[b].pc = "page" =>
          /\ actors'[b].item.target.op = "tree"
          /\ actors'[b].page \in SUBSET At(actors'[b].item.target.at)
    BY <1>2 DEF IInv, WorkerSide, ActorInv
  <2> QED
    BY <1>3, <2>1, <2>2, <2>3 DEF ActorInv
<1>5. ResultInv'
  <2>1. Reported' = Reported
    BY DEF Reported
  <2> QED
    BY <1>3, <2>1, SMT DEF IInv, WorkerSide, ResultInv
<1> QED
  BY <1>2, <1>4, <1>5 DEF IInv, WorkerSide

\* The thread ends without a result.
LEMMA DiesStep ==
  ASSUME IInv, NEW a \in Actors, ActorDies(a)
  PROVE  IInv'
<1> DEFINE new == [pc |-> "dead", page |-> {}]
<1>1. /\ Works(a) /\ UNCHANGED <<store, tables, queue, proc, chan>>
      /\ actors' = [actors EXCEPT ![a] = new]
  BY DEF ActorDies, Works
<1>2. new \in Resting /\ new.pc = "dead"
  BY ZenonT(20) DEF Resting
<1> HIDE DEF new
<1>3. chan' \in Seq(Results)
  BY <1>1 DEF IInv, TypeInv
<1>4. /\ TypeInv' /\ TableSide' /\ ItemInv' /\ DispatchInv'
      /\ UNCHANGED <<home, table, ids, sessions>>
      /\ actors'[a] = new /\ \A b \in Actors : b # a => actors'[b] = actors[b]
  BY <1>1, <1>2, <1>3, ActorFrame
<1>5. /\ ~Works(a)' /\ \A b \in Actors : Works(b)' => Works(b) /\ actors'[b] = actors[b]
      /\ \A l : At(l)' = At(l)
      /\ \A t, o : Hits(t, o)' <=> Hits(t, o)
  BY <1>2, <1>4 DEF Works, At, Hits
<1>6. ActorInv'
  BY <1>1, <1>5, SMT DEF IInv, WorkerSide, ActorInv, Works
<1>7. ResultInv'
  <2>1. Reported' = Reported
    BY <1>1 DEF Reported
  <2> QED
    BY <1>1, <1>5, <2>1, SMT DEF IInv, WorkerSide, ResultInv
<1> QED
  BY <1>4, <1>6, <1>7 DEF IInv, WorkerSide

\* A new result comes after those that are reported.
LEMMA ReportedLast ==
  ASSUME NEW p \in Seq(Results), NEW c \in Seq(Results), NEW r \in Results
  PROVE  LET old == p \o c
             new == p \o Append(c, r)
         IN  /\ Len(old) \in Nat /\ Len(new) = Len(old) + 1
             /\ \A k \in 1..Len(old) : new[k] = old[k]
             /\ new[Len(old) + 1] = r
<1> DEFINE old == p \o c
           d == Append(c, r)
           new == p \o d
<1>1. /\ d \in Seq(Results) /\ Len(d) = Len(c) + 1 /\ d[Len(c) + 1] = r
      /\ \A k \in 1..Len(c) : d[k] = c[k]
  BY SMT
<1>2. Len(p) \in Nat /\ Len(c) \in Nat
  BY SMT
<1> HIDE DEF d
<1>3. /\ Len(old) = Len(p) + Len(c) /\ Len(new) = Len(p) + Len(d)
      /\ \A k \in 1..Len(p) + Len(c) : old[k] = IF k <= Len(p) THEN p[k] ELSE c[k - Len(p)]
      /\ \A k \in 1..Len(p) + Len(d) : new[k] = IF k <= Len(p) THEN p[k] ELSE d[k - Len(p)]
  BY <1>1, SMTT(30)
<1> HIDE DEF old, new
<1>4. Len(old) \in Nat /\ Len(new) = Len(old) + 1
  BY <1>1, <1>2, <1>3, SMT
<1>5. ASSUME NEW k \in 1..Len(old)
      PROVE  new[k] = old[k]
  <2>1. CASE k <= Len(p)
    BY <1>1, <1>2, <1>3, <2>1, SMT
  <2>2. CASE ~(k <= Len(p))
    <3>1. k - Len(p) \in 1..Len(c)
      BY <1>2, <1>3, <2>2, SMT
    <3>2. k \in 1..(Len(p) + Len(c)) /\ k \in 1..(Len(p) + Len(d))
      BY <1>1, <1>2, <1>3, SMT
    <3>3. old[k] = c[k - Len(p)] /\ new[k] = d[k - Len(p)]
      BY <1>3, <2>2, <3>2
    <3> QED
      BY <1>1, <3>1, <3>3
  <2> QED
    BY <2>1, <2>2
<1>6. new[Len(old) + 1] = r
  BY <1>1, <1>2, <1>3, SMT
<1> QED
  BY <1>4, <1>5, <1>6 DEF old, new, d

\* An actor reports: its item stays in flight, and nothing is left of a completed one.
LEMMA ReportStep ==
  ASSUME IInv, NEW a \in Actors, Works(a), UNCHANGED <<tables, queue, proc>>,
         store' \in SUBSET store, \A o \in store \ store' : Hits(actors[a].item.target, o),
         NEW outcome \in Outcome, Report(a, outcome),
         outcome = "complete" => \A o \in store' : ~Hits(actors[a].item.target, o)
  PROVE  IInv'
<1> DEFINE new == [pc |-> "sent", page |-> {}]
           r == [id |-> actors[a].item.id, outcome |-> outcome]
           n == Len(Reported)
<1>1. actors' = [actors EXCEPT ![a] = new] /\ chan' = Append(chan, r)
  BY DEF Report
<1>2. new \in Resting /\ new.pc = "sent"
  BY ZenonT(20) DEF Resting
<1>3. actors[a].item \in proc.inflight /\ actors[a].item \in Items
  BY WorkingActor
<1>4. r \in Results /\ r.id = actors[a].item.id /\ r.outcome = outcome
  BY <1>3, ZenonT(20) DEF Results, Items
<1>5. chan \in Seq(Results) /\ proc.pending \in Seq(Results)
  BY DEF IInv, TypeInv, Processes
<1> HIDE DEF new, r
<1>6. chan' \in Seq(Results)
  BY <1>1, <1>4, <1>5, SMT
<1>7. /\ TypeInv' /\ TableSide' /\ ItemInv' /\ DispatchInv'
      /\ UNCHANGED <<home, table, ids, sessions>>
      /\ actors'[a] = new /\ \A b \in Actors : b # a => actors'[b] = actors[b]
  BY <1>1, <1>2, <1>6, ActorFrame
<1>8. /\ \A b \in Actors : Works(b)' => b # a /\ Works(b) /\ actors'[b] = actors[b]
      /\ \A l : At(l)' = At(l)
      /\ \A t, o : Hits(t, o)' <=> Hits(t, o)
  BY <1>2, <1>7 DEF Works, At, Hits
<1>9. ActorInv'
  BY <1>8 DEF IInv, WorkerSide, ActorInv, Works
<1>10. /\ n \in Nat /\ Len(Reported') = n + 1 /\ Reported'[n + 1] = r
       /\ \A k \in 1..n : Reported'[k] = Reported[k]
  BY ZenonT(40), <1>1, <1>4, <1>5, ReportedLast DEF Reported
<1> HIDE DEF n
<1>11. \A k \in 1..n : /\ \E i \in proc.inflight : i.id = Reported[k].id
                       /\ \A b \in Actors : Works(b) => actors[b].item.id # Reported[k].id
                       /\ Reported[k].outcome = "complete" => \A i \in proc.inflight :
                            i.id = Reported[k].id => \A o \in store : ~Hits(i.target, o)
  BY DEF IInv, WorkerSide, ResultInv, n
<1>12. \A j, k \in 1..n : Reported[j].id = Reported[k].id => j = k
  BY DEF IInv, WorkerSide, ResultInv, n
<1>13. \A k \in 1..(n + 1) : k \in 1..n \/ k = n + 1
  BY <1>10, SMT
<1>14. ASSUME NEW k \in 1..(n + 1)
       PROVE  /\ \E i \in proc.inflight : i.id = Reported'[k].id
              /\ \A b \in Actors : Works(b)' => actors'[b].item.id # Reported'[k].id
              /\ Reported'[k].outcome = "complete" => \A i \in proc.inflight :
                   i.id = Reported'[k].id => \A o \in store' : ~Hits(i.target, o)
  <2>1. CASE k \in 1..n
    BY <1>8, <1>10, <1>11, <2>1
  <2>2. CASE k = n + 1
    <3>1. \A b \in Actors : Works(b)' => actors'[b].item.id # r.id
      BY <1>4, <1>8 DEF IInv, WorkerSide, ActorInv
    <3>2. \A i \in proc.inflight : i.id = r.id => i = actors[a].item
      BY <1>3, <1>4 DEF IInv, WorkerSide, ItemInv
    <3> QED
      BY <1>3, <1>4, <1>10, <2>2, <3>1, <3>2
  <2> QED
    BY <1>13, <2>1, <2>2
<1>15. ASSUME NEW j \in 1..(n + 1), NEW k \in 1..(n + 1), Reported'[j].id = Reported'[k].id
       PROVE  j = k
  <2>1. \A i \in 1..n : Reported'[i].id # r.id
    BY ZenonT(40), <1>4, <1>10, <1>11
  <2> QED
    BY <1>10, <1>12, <1>13, <1>15, <2>1
<1>16. ResultInv'
  BY <1>8, <1>10, <1>14, <1>15 DEF ResultInv
<1> QED
  BY <1>7, <1>9, <1>16 DEF IInv, WorkerSide

\* The steps of an actor.
LEMMA ActorSteps ==
  ASSUME IInv, NEW a \in Actors, ActorStep(a) \/ RequestFails(a) \/ ActorDies(a)
  PROVE  IInv'
<1> DEFINE t == actors[a].item.target
<1>1. CASE ActorDies(a)
  BY <1>1, DiesStep
<1>2. ASSUME actors[a].pc \in {"begin", "page"}
      PROVE  /\ Works(a) /\ actors[a] \in Working /\ t \in Targets
             /\ store \in SUBSET (1..Len(home)) /\ Len(home) \in Nat
             /\ actors[a].pc = "page" => /\ t.op = "tree" /\ actors[a].page \in SUBSET At(t.at)
  <2>1. Works(a)
    BY <1>2 DEF Works
  <2>2. actors[a] \in Working /\ actors[a].item \in Items
    BY <2>1, WorkingActor
  <2>3. t \in Targets
    BY <2>2, ZenonT(20) DEF Items
  <2>4. store \in SUBSET (1..Len(home)) /\ Len(home) \in Nat
    BY SMT DEF IInv, TypeInv
  <2> QED
    BY <2>1, <2>2, <2>3, <2>4 DEF IInv, WorkerSide, ActorInv
<1>3. CASE ActorCancelled(a)
  <2>1. /\ actors[a].pc \in {"begin", "page"} /\ Report(a, "cancelled")
        /\ UNCHANGED <<store, tables, queue, proc>>
    BY <1>3 DEF ActorCancelled
  <2> QED
    BY <1>2, <2>1, ReportStep DEF Outcome
<1>4. CASE NextPage(a)
  <2> DEFINE left == Below(t)
  <2>1. /\ actors[a].pc = "begin" /\ t.op = "tree" /\ UNCHANGED <<store, tables, queue, proc>>
        /\ \/ left = {} /\ Report(a, "complete")
           \/ \E page \in SUBSET left :
                /\ actors' = [actors EXCEPT ![a] = [actors[a] EXCEPT !.pc = "page", !.page = page]]
                /\ UNCHANGED chan
    BY <1>4 DEF NextPage
  <2>2. left = {o \in store : home[o] = t.at}
    BY <2>1 DEF Below
  <2>3. CASE left = {} /\ Report(a, "complete")
    <3>1. \A o \in store : ~Hits(t, o)
      BY <2>1, <2>2, <2>3 DEF Hits
    <3> QED
      BY <1>2, <2>1, <2>3, <3>1, ReportStep DEF Outcome
  <2>4. ASSUME NEW page \in SUBSET left, UNCHANGED chan,
               actors' = [actors EXCEPT ![a] = [actors[a] EXCEPT !.pc = "page", !.page = page]]
        PROVE  IInv'
    <3> DEFINE new == [actors[a] EXCEPT !.pc = "page", !.page = page]
    <3>1. page \in SUBSET At(t.at) /\ page \in SUBSET Nat
      <4>1. \A o \in page : o \in 1..Len(home) /\ home[o] = t.at
        BY <1>2, <2>1, <2>2
      <4>2. \A o \in 1..Len(home) : o \in Nat
        <5>1. Len(home) \in Nat
          BY <1>2, <2>1
        <5> QED
          BY <5>1, SMT
      <4> QED
        BY <4>1, <4>2 DEF At
    <3>2. new \in Working /\ new.item = actors[a].item /\ new.page = page
      BY <1>2, <2>1, <3>1, ZenonT(20) DEF Working
    <3>3. actors' = [actors EXCEPT ![a] = new]
      BY <2>4
    <3> HIDE DEF new
    <3> QED
      BY ZenonT(40), <1>2, <2>1, <2>4, <3>1, <3>2, <3>3, GoesOn
  <2> QED
    BY <2>1, <2>3, <2>4
<1>5. CASE DeletePage(a)
  <2>1. /\ actors[a].pc = "page" /\ UNCHANGED <<tables, queue, proc, chan>>
        /\ store' = store \ actors[a].page
        /\ actors' = [actors EXCEPT ![a] = [actors[a] EXCEPT !.pc = "begin", !.page = {}]]
    BY <1>5 DEF DeletePage
  <2> DEFINE new == [actors[a] EXCEPT !.pc = "begin", !.page = {}]
  <2>2. new \in Working /\ new.item = actors[a].item /\ new.pc = "begin"
    BY <1>2, <2>1, ZenonT(20) DEF Working
  <2>3. actors' = [actors EXCEPT ![a] = new]
    BY <2>1
  <2>4. store' \in SUBSET store /\ \A o \in store \ store' : Hits(t, o)
    BY <1>2, <2>1 DEF Hits, At
  <2> HIDE DEF new
  <2> QED
    BY <1>2, <2>1, <2>2, <2>3, <2>4, GoesOn
<1>6. CASE DeleteObject(a)
  <2>1. /\ actors[a].pc = "begin" /\ t.op = "object" /\ store' = store \ {t.at}
        /\ Report(a, "complete") /\ UNCHANGED <<tables, queue, proc>>
    BY <1>6 DEF DeleteObject
  <2>2. /\ store' \in SUBSET store /\ \A o \in store \ store' : Hits(t, o)
        /\ \A o \in store' : ~Hits(t, o)
    BY <2>1 DEF Hits
  <2> QED
    BY <1>2, <2>1, <2>2, ReportStep DEF Outcome
<1>7. CASE RequestFails(a)
  <2>1. PICK gone \in SUBSET (IF actors[a].pc = "page" THEN actors[a].page
                              ELSE IF t.op = "object" THEN {t.at} ELSE {}) :
          store' = store \ gone
    BY <1>7 DEF RequestFails
  <2>2. PICK outcome \in {"retryable", "permanent"} : Report(a, outcome)
    BY <1>7 DEF RequestFails
  <2>3. actors[a].pc \in {"begin", "page"} /\ UNCHANGED <<tables, queue, proc>>
    BY <1>7 DEF RequestFails
  <2>4. \A o \in gone : Hits(t, o)
    <3>1. CASE actors[a].pc = "page"
      BY <1>2, <2>1, <2>3, <3>1 DEF Hits, At
    <3>2. CASE actors[a].pc # "page"
      <4>1. CASE t.op = "object"
        BY <2>1, <3>2, <4>1 DEF Hits
      <4>2. CASE t.op # "object"
        BY <2>1, <3>2, <4>2
      <4> QED
        BY <4>1, <4>2
    <3> QED
      BY <3>1, <3>2
  <2>5. store' \in SUBSET store /\ \A o \in store \ store' : Hits(t, o)
    BY <2>1, <2>4
  <2> QED
    BY <1>2, <2>2, <2>3, <2>5, ReportStep DEF Outcome
<1> QED
  BY <1>1, <1>3, <1>4, <1>5, <1>6, <1>7 DEF ActorStep

-----------------------------------------------------------------------------
(* Transactions.                                                            *)

\* One session moves.
LEMMA OneSession ==
  ASSUME TypeInv, NEW s \in Sessions, NEW x, sessions' = [sessions EXCEPT ![s] = x]
  PROVE  /\ sessions'[s] = x /\ \A r \in Sessions : r # s => sessions'[r] = sessions[r]
         /\ \A r \in Sessions : r # s => /\ \A op : Open(r, op)' <=> Open(r, op)
                                         /\ Enqueues(r)' <=> Enqueues(r)
         /\ x \in {IdleSession} \cup Transactions =>
              sessions' \in [Sessions -> {IdleSession} \cup Transactions]
<1>1. sessions \in [Sessions -> {IdleSession} \cup Transactions]
  BY DEF TypeInv
<1>2. /\ sessions'[s] = x /\ \A r \in Sessions : r # s => sessions'[r] = sessions[r]
      /\ x \in {IdleSession} \cup Transactions =>
           sessions' \in [Sessions -> {IdleSession} \cup Transactions]
  BY <1>1
<1> QED
  BY <1>2 DEF Open, Enqueues

\* An open transaction is one.
LEMMA OpenSession ==
  ASSUME TypeInv, NEW s \in Sessions, sessions[s].pc # "idle"
  PROVE  sessions[s] # IdleSession /\ sessions[s] \in Transactions
<1>1. IdleSession.pc = "idle"
  BY DEF IdleSession
<1> QED
  BY <1>1 DEF TypeInv

\* A step that leaves the worker alone and that brings nothing to life keeps what is
\* known of the worker, if the rows of its items stay and no invalid row goes.
LEMMA WorkerSideKept ==
  ASSUME IInv, UNCHANGED <<home, proc, actors, chan>>, store' \in SUBSET store,
         \A t \in Targets : Dead(t) => Dead(t)',
         \A id \in DOMAIN queue : Known(id) => id \in DOMAIN queue' /\ queue'[id] = queue[id],
         \A id \in DOMAIN queue : ~queue[id].valid => id \in DOMAIN queue' /\ ~queue'[id].valid
  PROVE  WorkerSide'
<1>1. ItemInv'
  <2>1. ASSUME NEW i \in proc.inflight \cup proc.tasks
        PROVE  /\ i.id \in DOMAIN queue' /\ Dead(i.target)'
               /\ queue'[i.id].target = i.target
               /\ queue'[i.id].valid /\ ~queue'[i.id].failed
    <3>1. i \in Items
      BY DEF IInv, TypeInv, Processes
    <3>2. i.target \in Targets
      BY <3>1, ZenonT(20) DEF Items
    <3>3. /\ i.id \in DOMAIN queue /\ Dead(i.target)
          /\ queue[i.id].target = i.target /\ queue[i.id].valid /\ ~queue[i.id].failed
      BY DEF IInv, WorkerSide, ItemInv
    <3>4. Known(i.id)
      BY DEF Known
    <3> QED
      BY <3>2, <3>3, <3>4
  <2> QED
    BY <2>1 DEF IInv, WorkerSide, ItemInv
<1>2. DispatchInv'
  <2>1. IdleActors' = IdleActors
    BY DEF IdleActors
  <2> QED
    BY <2>1 DEF IInv, WorkerSide, DispatchInv
<1>3. ActorInv'
  BY DEF IInv, WorkerSide, ActorInv, Works, At
<1>4. ResultInv'
  <2>1. Reported' = Reported
    BY DEF Reported
  <2>2. \A t, o : Hits(t, o)' <=> Hits(t, o)
    BY DEF Hits
  <2> QED
    BY ZenonT(40), <2>1, <2>2 DEF IInv, WorkerSide, ResultInv, Works
<1> QED
  BY <1>1, <1>2, <1>3, <1>4 DEF WorkerSide

\* A transaction opens that will give something up or start a failed row again.
LEMMA OpenStep ==
  ASSUME IInv, NEW s \in Sessions, sessions[s] = IdleSession, NEW txn \in Transactions,
         txn.pc = "open", txn.op # "create", sessions' = [sessions EXCEPT ![s] = txn],
         UNCHANGED <<store, home, table, queue, proc, actors, chan, condemned>>,
         ids' \in Nat, ids <= ids', SessionInv(s)', FreshInv(s)',
         \A r \in Sessions : sessions[r] # IdleSession => sessions[r].at # txn.at,
         txn.op # "retry" => \A id \in DOMAIN txn.rows : id \notin 1..ids
  PROVE  IInv'
<1>1. TypeInv /\ ids \in Nat
  BY DEF IInv, TypeInv
<1>2. /\ sessions'[s] = txn /\ \A r \in Sessions : r # s => sessions'[r] = sessions[r]
      /\ \A r \in Sessions : r # s => /\ \A op : Open(r, op)' <=> Open(r, op)
                                      /\ Enqueues(r)' <=> Enqueues(r)
      /\ sessions' \in [Sessions -> {IdleSession} \cup Transactions]
  BY <1>1, OneSession
<1>3. ~Open(s, "create")' /\ ~Open(s, "create")
  BY <1>2, SMT DEF Open, IdleSession
<1>4. \A i \in 1..ids : i \in 1..ids'
  BY <1>1, SMT
<1>5. TypeInv'
  <2>1. DOMAIN queue' \in SUBSET (1..ids')
    BY <1>1, <1>4 DEF TypeInv
  <2> QED
    BY <1>1, <1>2, <2>1 DEF TypeInv
<1>6. \A t : Dead(t) => Dead(t)'
  <2>1. \A r \in Sessions : Open(r, "create")' => /\ Open(r, "create")
                                                 /\ sessions'[r] = sessions[r]
    BY <1>2, <1>3
  <2> QED
    BY <2>1 DEF Dead
<1>7. /\ \A l : At(l)' = At(l)
      /\ \A t, o : Hits(t, o)' <=> Hits(t, o)
      /\ \A id : Known(id)' <=> Known(id)
  BY DEF At, Hits, Known
<1>8. TableInv' /\ QueueInv' /\ CoverInv'
  <2>1. TableInv'
    BY <1>7 DEF IInv, TableSide, TableInv
  <2>2. QueueInv'
    BY <1>6 DEF IInv, TableSide, QueueInv
  <2>3. CoverInv'
    BY <1>7 DEF IInv, TableSide, CoverInv
  <2> QED
    BY <2>1, <2>2, <2>3
<1>9. ASSUME NEW r \in Sessions
      PROVE  SessionInv(r)' /\ FreshInv(r)'
  <2>1. CASE r = s
    BY <2>1
  <2>2. CASE r # s
    <3>1. sessions'[r] = sessions[r] /\ (\A op : Open(r, op)' <=> Open(r, op))
          /\ (Enqueues(r)' <=> Enqueues(r)) /\ SessionInv(r) /\ FreshInv(r)
      BY <1>2, <2>2 DEF IInv, TableSide
    <3>2. SessionInv(r)'
      <4>1. TableInv /\ (Open(r, "create") => sessions[r].objects \in SUBSET store)
        BY <3>1 DEF IInv, TableSide, SessionInv, CreateInv
      <4>2. \A id \in DOMAIN queue : RowKept(id)
        BY DEF RowKept
      <4> QED
        BY <1>1, <3>1, <4>1, <4>2, SessionKept
    <3>3. FreshInv(r)'
      BY <1>4, <1>7, <3>1 DEF FreshInv
    <3> QED
      BY <3>2, <3>3
  <2> QED
    BY <2>1, <2>2
<1>10. ASSUME NEW r \in Sessions, r # s
       PROVE  ApartInv(r, s)' /\ ApartInv(s, r)'
  <2>1. sessions'[r] = sessions[r] /\ sessions'[s] = txn /\ (Enqueues(r)' <=> Enqueues(r))
    BY <1>2, <1>10
  <2>2. sessions[r] # IdleSession => sessions[r].at # txn.at
    OBVIOUS
  <2>3. Enqueues(s)' => \A id \in DOMAIN txn.rows : id \notin 1..ids
    BY <1>2 DEF Enqueues, Open
  <2>4. Enqueues(r) => \A id \in DOMAIN sessions[r].rows : id \in 1..ids
    BY DEF IInv, TableSide, FreshInv
  <2>5. Enqueues(r)' /\ Enqueues(s)' => DOMAIN sessions[r].rows \cap DOMAIN txn.rows = {}
    BY <2>1, <2>3, <2>4
  <2> QED
    BY <2>1, <2>2, <2>5 DEF ApartInv
<1>11. ASSUME NEW q \in Sessions, NEW r \in Sessions, q # r
       PROVE  ApartInv(q, r)'
  <2>1. CASE q = s \/ r = s
    BY <1>10, <1>11, <2>1
  <2>2. CASE q # s /\ r # s
    <3>1. ApartInv(q, r)
      BY <1>11 DEF IInv, TableSide
    <3> QED
      BY <1>2, <2>2, <3>1 DEF ApartInv
  <2> QED
    BY <2>1, <2>2
<1>12. WorkerSide'
  BY <1>4, <1>6, WorkerSideKept
<1> QED
  BY <1>5, <1>8, <1>9, <1>11, <1>12 DEF IInv, TableSide

\* retry_maintenance_item: the failed row is to start again.
LEMMA RetryStep ==
  ASSUME IInv, NEW s \in Sessions, NEW id \in Item, RetryFailed(s, id)
  PROVE  IInv'
<1> DEFINE row == [queue[id] EXCEPT !.attempt = 0, !.revision = queue[id].revision + 1,
                                    !.due = "now", !.failed = FALSE]
           rows == [i \in {id} |-> row]
           txn == [pc |-> "open", op |-> "retry", at |-> id, objects |-> {},
                   rows |-> rows, wake |-> TRUE]
<1>1. id \in DOMAIN queue /\ queue[id].failed /\ TypeInv /\ id \in Nat /\ ids \in Nat
  <2>1. id \in DOMAIN queue /\ queue[id].failed /\ TypeInv
    BY DEF RetryFailed, IInv
  <2>2. id \in 1..ids /\ ids \in Nat
    BY <2>1 DEF TypeInv
  <2> QED
    BY <2>1, <2>2, SMT
<1>2. queue[id] \in Rows
  BY <1>1 DEF TypeInv
<1>3. queue[id].revision + 1 \in Nat
  BY <1>2, SMT DEF Rows
<1>4. row \in Rows /\ row.target = queue[id].target /\ row.valid = queue[id].valid
  BY <1>2, <1>3, ZenonT(20) DEF Rows
<1>5. /\ sessions[s] = IdleSession
      /\ \A r \in Sessions : sessions[r] # IdleSession => sessions[r].at # id
      /\ sessions' = [sessions EXCEPT ![s] = txn]
      /\ UNCHANGED <<store, home, table, queue, proc, actors, chan, condemned, ids>>
  <2>1. [queue[id] EXCEPT !.attempt = 0].revision = queue[id].revision
    BY <1>2, ZenonT(20) DEF Rows
  <2> QED
    BY <2>1 DEF RetryFailed, Begin, threads
<1> HIDE DEF row
<1>6. txn \in Transactions
  <2>1. rows \in [{id} -> Rows] /\ {id} \in SUBSET Nat
    BY <1>1, <1>4
  <2>2. rows \in UNION {[D -> Rows] : D \in SUBSET Nat}
    BY <2>1
  <2> HIDE DEF rows
  <2> QED
    BY <1>1, <2>2, ZenonT(20) DEF Transactions
<1>7. /\ txn.pc = "open" /\ txn.op = "retry" /\ txn.at = id
      /\ txn.rows = rows /\ DOMAIN rows = {id} /\ rows[id] = row
  OBVIOUS
<1> HIDE DEF txn, rows
<1>8. sessions'[s] = txn
  BY <1>1, <1>5, OneSession
<1>9. /\ ~Open(s, "create")' /\ ~Open(s, "drop")' /\ ~Open(s, "vacuum")' /\ ~Enqueues(s)'
  BY <1>7, <1>8 DEF Open, Enqueues
<1>10. SessionInv(s)' /\ FreshInv(s)'
  <2>1. RetryInv(s)'
    BY <1>1, <1>4, <1>5, <1>7, <1>8 DEF RetryInv
  <2> QED
    BY <1>9, <2>1 DEF SessionInv, FreshInv, CreateInv, DropInv, VacuumInv, PromiseInv
<1>11. ids' \in Nat /\ ids <= ids'
  BY <1>1, <1>5, SMT
<1> QED
  BY <1>5, <1>6, <1>7, <1>10, <1>11, OpenStep

\* The objects of a new table come after the old ones.
LEMMA NewObjects ==
  ASSUME TypeInv, NEW l \in Locations, NEW n \in 1..2, home' = home \o [i \in 1..n |-> l]
  PROVE  LET new == Len(home) + 1 .. Len(home) + n
         IN  /\ home' \in Seq(Locations) /\ Len(home) \in Nat /\ Len(home') \in Nat
             /\ Len(home) <= Len(home') /\ new \in SUBSET Nat
             /\ \A o \in 1..Len(home) : o \in 1..Len(home') /\ home'[o] = home[o] /\ o \notin new
             /\ \A o \in new : o \in 1..Len(home') /\ home'[o] = l
<1> DEFINE tail == [i \in 1..n |-> l]
           k == Len(home)
<1>1. home \in Seq(Locations) /\ n \in Nat
  BY SMT DEF TypeInv
<1>2. tail \in Seq(Locations) /\ Len(tail) = n /\ \A i \in 1..n : tail[i] = l
  BY <1>1, SMT
<1> HIDE DEF tail
<1>3. /\ home' \in Seq(Locations) /\ Len(home') = k + n /\ k \in Nat
      /\ \A o \in 1..(k + n) : home'[o] = IF o <= k THEN home[o] ELSE tail[o - k]
  BY <1>1, <1>2, SMT DEF tail
<1> HIDE DEF k
<1>4. ASSUME NEW o \in 1..k
      PROVE  o \in 1..Len(home') /\ home'[o] = home[o] /\ o \notin k + 1 .. k + n
  <2>1. o \in 1..(k + n) /\ o <= k /\ o \notin k + 1 .. k + n
    BY <1>1, <1>3, SMT
  <2> QED
    BY <1>3, <2>1
<1>5. ASSUME NEW o \in k + 1 .. k + n
      PROVE  o \in 1..Len(home') /\ home'[o] = l
  <2>1. o \in 1..(k + n) /\ ~(o <= k) /\ o - k \in 1..n
    BY <1>1, <1>3, SMT
  <2> QED
    BY <1>2, <1>3, <2>1
<1>6. k <= Len(home') /\ Len(home') \in Nat /\ (k + 1 .. k + n) \in SUBSET Nat
  BY <1>1, <1>3, SMT
<1> QED
  BY <1>3, <1>4, <1>5, <1>6 DEF k

\* CREATE writes new objects to a location that no queued deletion stands for.
LEMMA CreateStep ==
  ASSUME IInv, NEW s \in Sessions, NEW l \in Locations, NEW n \in 1..2, CreateTable(s, l, n)
  PROVE  IInv'
<1> DEFINE new == Len(home) + 1 .. Len(home) + n
           txn == [pc |-> "open", op |-> "create", at |-> l, objects |-> new,
                   rows |-> <<>>, wake |-> FALSE]
<1>1. /\ sessions[s] = IdleSession /\ ~table[l].live /\ ~HasTreeTarget(l)
      /\ \A r \in Sessions : sessions[r] # IdleSession => sessions[r].at # l
      /\ sessions' = [sessions EXCEPT ![s] = txn] /\ home' = home \o [i \in 1..n |-> l]
      /\ store' = store \cup new
      /\ UNCHANGED <<table, queue, proc, actors, chan, condemned, ids>>
  BY DEF CreateTable, Begin, Busy, threads
<1>2. /\ TypeInv /\ store \in SUBSET (1..Len(home)) /\ condemned \in SUBSET (1..Len(home))
      /\ TableInv
  BY DEF IInv, TypeInv, TableSide
<1>3. /\ home' \in Seq(Locations) /\ Len(home) \in Nat /\ Len(home') \in Nat
      /\ Len(home) <= Len(home') /\ new \in SUBSET Nat
      /\ \A o \in 1..Len(home) : o \in 1..Len(home') /\ home'[o] = home[o] /\ o \notin new
      /\ \A o \in new : o \in 1..Len(home') /\ home'[o] = l
  BY <1>1, <1>2, NewObjects
<1>4. <<>> \in [{} -> Rows] /\ DOMAIN <<>> = {}
  BY SMT
<1>5. txn \in Transactions
  <2>1. <<>> \in UNION {[D -> Rows] : D \in SUBSET Nat}
    BY <1>4
  <2> QED
    BY <1>3, <2>1, ZenonT(20) DEF Transactions
<1>6. /\ txn.pc = "open" /\ txn.op = "create" /\ txn.at = l /\ txn.objects = new
      /\ txn.rows = <<>>
  OBVIOUS
<1> HIDE DEF new, txn
<1>7. /\ sessions'[s] = txn /\ \A r \in Sessions : r # s => sessions'[r] = sessions[r]
      /\ \A r \in Sessions : r # s => /\ \A op : Open(r, op)' <=> Open(r, op)
                                      /\ Enqueues(r)' <=> Enqueues(r)
      /\ sessions' \in [Sessions -> {IdleSession} \cup Transactions]
  BY <1>1, <1>2, <1>5, OneSession
<1>8. /\ Open(s, "create")' /\ ~Open(s, "drop")' /\ ~Open(s, "vacuum")' /\ ~Open(s, "retry")'
      /\ ~Enqueues(s)'
  BY <1>6, <1>7 DEF Open, Enqueues
<1>9. TypeInv'
  <2>1. store' \in SUBSET (1..Len(home')) /\ condemned' \in SUBSET (1..Len(home'))
    BY <1>1, <1>2, <1>3
  <2> QED
    BY <1>1, <1>2, <1>3, <1>7, <2>1 DEF TypeInv
<1>10. \A x : At(x) \in SUBSET At(x)'
  BY <1>3 DEF At
<1>11. \A t, o : o \in 1..Len(home) => (Hits(t, o)' <=> Hits(t, o))
  BY <1>3 DEF Hits
<1>12. TableInv'
  <2> SUFFICES ASSUME NEW x \in Locations
               PROVE  /\ table[x].refs \in SUBSET (store' \cap At(x)')
                      /\ ~table[x].live => table[x].refs = {}
    BY <1>1 DEF TableInv
  <2> QED
    BY <1>1, <1>2, <1>10 DEF TableInv
<1>13. ASSUME NEW id \in DOMAIN queue, queue[id].valid, NEW t, t = queue[id].target
       PROVE  /\ t \in Targets /\ Dead(t)'
              /\ t.op = "tree" => t.at # l
              /\ t.op = "object" => t.at \in 1..Len(home)
  <2>1. Dead(t) /\ t \in Targets
    BY <1>2, <1>13 DEF IInv, TableSide, QueueInv, TypeInv, Rows
  <2>2. t.op = "tree" => t.at # l
    <3> SUFFICES ASSUME t.op = "tree", t.at = l
                 PROVE  FALSE
      OBVIOUS
    <3>1. t \in [op : {"tree"}, at : Locations]
      BY <2>1, ZenonT(20) DEF Targets
    <3>2. t = [op |-> "tree", at |-> l]
      BY <3>1, ZenonT(20)
    <3> QED
      BY <1>1, <1>13, <3>2 DEF HasTreeTarget
  <2>3. t.op = "object" => t.at \in 1..Len(home)
    BY <2>1 DEF Dead
  <2>4. t.op = "tree" =>
          /\ ~table'[t.at].live
          /\ \A r \in Sessions : Open(r, "create")' => sessions'[r].at # t.at
    BY <1>1, <1>6, <1>7, <2>1, <2>2 DEF Dead
  <2>5. t.op = "object" =>
          /\ t.at \in 1..Len(home')
          /\ \A x \in Locations : t.at \notin table'[x].refs
          /\ \A r \in Sessions : Open(r, "create")' => t.at \notin sessions'[r].objects
    BY <1>1, <1>3, <1>6, <1>7, <2>1, <2>3 DEF Dead
  <2>6. Dead(t)'
    BY <2>4, <2>5 DEF Dead
  <2> QED
    BY <2>1, <2>2, <2>3, <2>6
<1>14. QueueInv'
  BY <1>1, <1>13 DEF QueueInv
<1>15. CoverInv'
  <2> SUFFICES ASSUME NEW o \in condemned \cap store'
               PROVE  \E id \in DOMAIN queue : queue[id].valid /\ Hits(queue[id].target, o)
    <3>1. \A t : \A o \in condemned \cap store' : Hits(t, o)' <=> Hits(t, o)
      BY <1>2, <1>11
    <3> QED
      BY <1>1, <3>1 DEF CoverInv
  <2>1. o \in store
    BY <1>1, <1>2, <1>3
  <2> QED
    BY <2>1 DEF IInv, TableSide, CoverInv
<1>16. ASSUME NEW r \in Sessions
       PROVE  SessionInv(r)' /\ FreshInv(r)'
  <2>1. CASE r = s
    <3>1. new \in SUBSET (store' \cap At(l)')
      BY <1>1, <1>3 DEF At
    <3>2. CreateInv(s)'
      BY <1>1, <1>4, <1>6, <1>7, <3>1 DEF CreateInv
    <3> QED
      BY <1>8, <2>1, <3>2 DEF SessionInv, FreshInv, DropInv, VacuumInv, RetryInv, PromiseInv
  <2>2. CASE r # s
    <3>1. /\ sessions'[r] = sessions[r] /\ (\A op : Open(r, op)' <=> Open(r, op))
          /\ (Enqueues(r)' <=> Enqueues(r)) /\ SessionInv(r) /\ FreshInv(r)
      BY <1>7, <2>2 DEF IInv, TableSide
    <3>2. Open(r, "create") => sessions[r].objects \in SUBSET store'
      BY <1>1, <3>1 DEF SessionInv, CreateInv
    <3>3. \A id \in DOMAIN queue : RowKept(id)
      BY <1>1 DEF RowKept
    <3>4. SessionInv(r)'
      BY <1>1, <1>2, <1>3, <3>1, <3>2, <3>3, SessionKept
    <3>5. FreshInv(r)'
      BY <1>1, <3>1 DEF FreshInv, Known
    <3> QED
      BY <3>4, <3>5
  <2> QED
    BY <2>1, <2>2
<1>17. ASSUME NEW q \in Sessions, NEW r \in Sessions, q # r
       PROVE  ApartInv(q, r)'
  <2>1. CASE q # s /\ r # s
    <3>1. ApartInv(q, r)
      BY <1>17 DEF IInv, TableSide
    <3> QED
      BY <1>7, <2>1, <3>1 DEF ApartInv
  <2>2. CASE q = s
    BY <1>1, <1>6, <1>7, <1>8, <1>17, <2>2 DEF ApartInv
  <2>3. CASE r = s
    BY <1>1, <1>6, <1>7, <1>8, <1>17, <2>3 DEF ApartInv
  <2> QED
    BY <2>1, <2>2, <2>3
<1>18. WorkerSide'
  <2>1. ASSUME NEW i \in proc.inflight \cup proc.tasks
        PROVE  /\ i.id \in DOMAIN queue /\ queue[i.id].target = i.target
               /\ queue[i.id].valid /\ ~queue[i.id].failed
               /\ \A j \in proc.inflight \cup proc.tasks : i.id = j.id => i = j
    BY DEF IInv, WorkerSide, ItemInv
  <2>2. ASSUME NEW i \in proc.inflight \cup proc.tasks
        PROVE  /\ i.target \in Targets /\ Dead(i.target)'
               /\ i.target.op = "tree" => i.target.at # l
               /\ i.target.op = "object" => i.target.at \in 1..Len(home)
    BY <1>13, <2>1
  <2>3. ItemInv'
    BY <1>1, <2>1, <2>2 DEF ItemInv
  <2>4. DispatchInv'
    <3>1. IdleActors' = IdleActors
      BY <1>1 DEF IdleActors
    <3> QED
      BY <1>1, <3>1 DEF IInv, WorkerSide, DispatchInv
  <2>5. \A a \in Actors : Works(a)' <=> Works(a)
    BY <1>1 DEF Works
  <2>6. ActorInv'
    <3>1. ActorInv
      BY DEF IInv, WorkerSide
    <3> QED
      BY <1>1, <1>10, <2>5, <3>1 DEF ActorInv
  <2>7. ASSUME NEW i \in proc.inflight, NEW o \in new
        PROVE  ~Hits(i.target, o)'
    <3>1. home'[o] = l /\ o \notin 1..Len(home)
      BY <1>3
    <3>2. i.target.op \in {"tree", "object"}
      BY <2>2, ZenonT(20) DEF Targets
    <3> QED
      BY <2>2, <3>1, <3>2 DEF Hits
  <2>8. ResultInv'
    <3>1. Reported' = Reported
      BY <1>1 DEF Reported
    <3>2. ASSUME NEW i \in proc.inflight, \A o \in store : ~Hits(i.target, o)
          PROVE  \A o \in store' : ~Hits(i.target, o)'
      BY <1>1, <1>2, <1>11, <2>7, <3>2
    <3>3. ResultInv
      BY DEF IInv, WorkerSide
    <3> QED
      BY <1>1, <2>5, <3>1, <3>2, <3>3 DEF ResultInv
  <2> QED
    BY <2>3, <2>4, <2>6, <2>8 DEF WorkerSide
<1> QED
  BY <1>9, <1>12, <1>14, <1>15, <1>16, <1>17, <1>18 DEF IInv, TableSide

\* A commit: its rows join the queue.  H: the table changes only where the transaction
\* works, and what was dead stays dead.
LEMMA CommitFrame ==
  ASSUME IInv, NEW s \in Sessions, sessions[s].pc = "open",
         queue' = Extended(sessions[s].rows),
         sessions' = [sessions EXCEPT ![s] = AfterCommit(sessions[s])],
         UNCHANGED <<store, home, ids, proc, actors, chan>>,
         table' \in [Locations -> [live : BOOLEAN, refs : SUBSET Nat]],
         \A l \in Locations : l # sessions[s].at => table'[l] = table[l],
         \A t \in Targets : Dead(t) => Dead(t)',
         TableInv',
         \A id \in DOMAIN sessions[s].rows : \A t \in Targets :
           sessions[s].rows[id].valid /\ t = sessions[s].rows[id].target => Dead(t)',
         condemned' \in SUBSET (1..Len(home)),
         \A o \in condemned' : o \in condemned \/ (Enqueues(s) /\ o \in sessions[s].objects)
  PROVE  IInv'
<1> DEFINE txn == sessions[s]
           rows == txn.rows
<1>1. TypeInv /\ queue \in [DOMAIN queue -> Rows] /\ ids \in Nat
  BY DEF IInv, TypeInv
<1>2. txn # IdleSession /\ txn \in Transactions
  BY <1>1, OpenSession
<1>3. /\ rows \in [DOMAIN rows -> Rows] /\ DOMAIN rows \in SUBSET Nat
      /\ txn.op \in {"create", "drop", "vacuum", "retry"}
  <2>1. /\ rows \in UNION {[D -> Rows] : D \in SUBSET Nat}
        /\ txn.op \in {"create", "drop", "vacuum", "retry"}
    BY <1>2, ZenonT(20) DEF Transactions
  <2> HIDE DEF rows
  <2>2. PICK D \in SUBSET Nat : rows \in [D -> Rows]
    BY <2>1
  <2> QED
    BY <2>1, <2>2
<1>4. AfterCommit(txn) \in {IdleSession} \cup Transactions
      /\ AfterCommit(txn).pc # "open"
      /\ (AfterCommit(txn) # IdleSession => AfterCommit(txn).at = txn.at)
  <2> DEFINE x == [txn EXCEPT !.pc = "committed"]
  <2>1. x \in Transactions /\ x.pc = "committed" /\ x.at = txn.at
    BY <1>2, ZenonT(20) DEF Transactions
  <2>2. IdleSession.pc = "idle"
    BY DEF IdleSession
  <2>3. AfterCommit(txn) = x \/ AfterCommit(txn) = IdleSession
    BY DEF AfterCommit
  <2> HIDE DEF x
  <2> QED
    BY <2>1, <2>2, <2>3
<1>5. /\ sessions'[s] = AfterCommit(txn)
      /\ \A r \in Sessions : r # s => sessions'[r] = sessions[r]
      /\ \A r \in Sessions : r # s => /\ \A op : Open(r, op)' <=> Open(r, op)
                                      /\ Enqueues(r)' <=> Enqueues(r)
      /\ sessions' \in [Sessions -> {IdleSession} \cup Transactions]
  BY <1>1, <1>4, OneSession
<1>6. /\ DOMAIN queue' = DOMAIN rows \cup DOMAIN queue
      /\ queue' \in [DOMAIN queue' -> Rows]
      /\ \A id \in DOMAIN rows : queue'[id] = rows[id]
      /\ \A id \in DOMAIN queue : id \notin DOMAIN rows => queue'[id] = queue[id]
  BY <1>1, <1>3, ExtendedQueue
<1>7. (\A op : ~Open(s, op)') /\ ~Enqueues(s)'
  BY <1>4, <1>5 DEF Open, Enqueues
<1>8. SessionInv(s) /\ FreshInv(s)
  BY DEF IInv, TableSide
<1>9. \/ Open(s, "create") /\ DOMAIN rows = {}
      \/ Enqueues(s) /\ \A id \in DOMAIN rows : id \in 1..ids /\ id \notin DOMAIN queue /\ ~Known(id)
      \/ /\ Open(s, "retry") /\ DOMAIN rows = {txn.at} /\ txn.at \in DOMAIN queue
         /\ queue[txn.at].failed /\ rows[txn.at].target = queue[txn.at].target
         /\ rows[txn.at].valid = queue[txn.at].valid
  <2>1. CASE txn.op = "create"
    BY <1>8, <2>1 DEF SessionInv, CreateInv, Open
  <2>2. CASE txn.op = "drop" \/ txn.op = "vacuum"
    BY <1>8, <2>2 DEF FreshInv, Enqueues, Open
  <2>3. CASE txn.op = "retry"
    BY <1>8, <2>3 DEF SessionInv, RetryInv, Open
  <2> QED
    BY <1>3, <2>1, <2>2, <2>3
<1>10. \A id \in DOMAIN queue \cap DOMAIN rows :
         /\ Open(s, "retry") /\ id = txn.at /\ queue[id].failed
         /\ queue'[id].target = queue[id].target /\ queue'[id].valid = queue[id].valid
  BY <1>6, <1>9, SMT
<1>11. \A id \in DOMAIN rows : id \in 1..ids
  <2>1. DOMAIN queue \in SUBSET (1..ids)
    BY <1>1 DEF TypeInv
  <2> QED
    BY <1>9, <2>1
<1>12. TypeInv'
  <2>1. DOMAIN queue' \in SUBSET (1..ids)
    BY <1>1, <1>6, <1>11 DEF TypeInv
  <2> QED
    BY <1>1, <1>5, <1>6, <2>1 DEF TypeInv
<1>13. /\ \A t, o : Hits(t, o)' <=> Hits(t, o)
       /\ \A id : Known(id)' <=> Known(id)
  BY DEF Hits, Known
<1>14. QueueInv'
  <2> SUFFICES ASSUME NEW id \in DOMAIN queue', queue'[id].valid, NEW t, t = queue'[id].target
               PROVE  Dead(t)'
    BY DEF QueueInv
  <2>1. t \in Targets
    BY <1>6, ZenonT(20) DEF Rows
  <2>2. CASE id \in DOMAIN rows
    BY <1>6, <2>1, <2>2
  <2>3. CASE id \notin DOMAIN rows
    <3>1. id \in DOMAIN queue /\ queue'[id] = queue[id]
      BY <1>6, <2>3
    <3>2. Dead(t)
      BY <3>1 DEF IInv, TableSide, QueueInv
    <3> QED
      BY <2>1, <3>2
  <2> QED
    BY <2>2, <2>3
<1>15. CoverInv'
  <2> SUFFICES ASSUME NEW o \in condemned' \cap store
               PROVE  \E id \in DOMAIN queue' : queue'[id].valid /\ Hits(queue'[id].target, o)
    BY <1>13 DEF CoverInv
  <2>1. CASE o \in condemned
    <3>1. PICK id \in DOMAIN queue : queue[id].valid /\ Hits(queue[id].target, o)
      BY <2>1 DEF IInv, TableSide, CoverInv
    <3>2. /\ id \in DOMAIN queue' /\ queue'[id].valid = queue[id].valid
          /\ queue'[id].target = queue[id].target
      BY <1>6, <1>10
    <3> QED
      BY <3>1, <3>2
  <2>2. CASE Enqueues(s) /\ o \in txn.objects
    <3>1. PICK id \in DOMAIN rows : rows[id].valid /\ Hits(rows[id].target, o)
      BY <1>8, <2>2 DEF SessionInv, PromiseInv
    <3> QED
      BY <1>6, <3>1
  <2> QED
    BY <2>1, <2>2
<1>16. ASSUME NEW r \in Sessions, r # s, sessions[r] # IdleSession
       PROVE  sessions[r].at # txn.at
  <2>1. ApartInv(r, s)
    BY <1>16 DEF IInv, TableSide
  <2> QED
    BY <1>2, <1>16, <2>1 DEF ApartInv
<1>17. ASSUME NEW r \in Sessions
       PROVE  SessionInv(r)' /\ FreshInv(r)'
  <2>1. CASE r = s
    BY <1>7, <2>1 DEF SessionInv, FreshInv, CreateInv, DropInv, VacuumInv, RetryInv, PromiseInv
  <2>2. CASE r # s
    <3>1. /\ sessions'[r] = sessions[r] /\ SessionInv(r) /\ FreshInv(r) /\ TableInv
          /\ (Enqueues(r)' <=> Enqueues(r))
      BY <1>5, <2>2 DEF IInv, TableSide
    <3>2. CASE sessions[r].pc # "open"
      <4>1. (\A op : ~Open(r, op)') /\ ~Enqueues(r)'
        BY <3>1, <3>2 DEF Open, Enqueues
      <4> QED
        BY <4>1 DEF SessionInv, FreshInv, CreateInv, DropInv, VacuumInv, RetryInv, PromiseInv
    <3>3. CASE sessions[r].pc = "open"
      <4>1. sessions[r].at # txn.at
        <5>1. sessions[r] # IdleSession
          BY <1>1, <3>3, OpenSession
        <5> QED
          BY <1>16, <2>2, <5>1
      <4>2. Open(r, "create") => sessions[r].objects \in SUBSET store'
        BY <3>1 DEF SessionInv, CreateInv
      <4>3. \A id \in DOMAIN queue : id \notin DOMAIN rows => RowKept(id)
        BY <1>6 DEF RowKept
      <4>4. \A id \in DOMAIN queue : sessions[r].at = id => id \notin DOMAIN rows
        BY <1>10, <4>1
      <4>5. SessionInv(r)'
        BY <1>1, <3>1, <4>1, <4>2, <4>3, <4>4, SessionKept
      <4>6. FreshInv(r)'
        <5> SUFFICES ASSUME Enqueues(r), NEW id \in DOMAIN sessions[r].rows
                     PROVE  id \in 1..ids /\ id \notin DOMAIN queue' /\ ~Known(id)
          BY <1>13, <3>1 DEF FreshInv
        <5>1. id \in 1..ids /\ id \notin DOMAIN queue /\ ~Known(id)
          BY <3>1 DEF FreshInv
        <5>2. id \notin DOMAIN rows
          <6>1. ApartInv(r, s)
            BY <2>2 DEF IInv, TableSide
          <6> QED
            BY <1>9, <5>1, <6>1 DEF ApartInv
        <5> QED
          BY <1>6, <5>1, <5>2
      <4> QED
        BY <4>5, <4>6
    <3> QED
      BY <3>2, <3>3
  <2> QED
    BY <2>1, <2>2
<1>18. ASSUME NEW q \in Sessions, NEW r \in Sessions, q # r
       PROVE  ApartInv(q, r)'
  <2>1. CASE q # s /\ r # s
    <3>1. ApartInv(q, r)
      BY <1>18 DEF IInv, TableSide
    <3> QED
      BY <1>5, <2>1, <3>1 DEF ApartInv
  <2>2. CASE q = s
    <3>1. sessions'[r] = sessions[r] /\ r # s
      BY <1>5, <1>18, <2>2
    <3> QED
      BY <1>4, <1>5, <1>7, <1>16, <2>2, <3>1 DEF ApartInv
  <2>3. CASE r = s
    <3>1. sessions'[q] = sessions[q] /\ q # s
      BY <1>5, <1>18, <2>3
    <3> QED
      BY <1>4, <1>5, <1>7, <1>16, <2>3, <3>1 DEF ApartInv
  <2> QED
    BY <2>1, <2>2, <2>3
<1>19. WorkerSide'
  <2>1. ASSUME NEW id \in DOMAIN queue, Known(id)
        PROVE  id \in DOMAIN queue' /\ queue'[id] = queue[id]
    <3>1. id \notin DOMAIN rows
      <4>1. ~queue[id].failed
        BY <2>1 DEF Known, IInv, WorkerSide, ItemInv
      <4> QED
        BY <1>9, <2>1, <4>1
    <3> QED
      BY <1>6, <3>1
  <2>2. \A id \in DOMAIN queue : ~queue[id].valid => id \in DOMAIN queue' /\ ~queue'[id].valid
    BY <1>6, <1>10
  <2> QED
    BY <2>1, <2>2, WorkerSideKept
<1> QED
  BY <1>12, <1>14, <1>15, <1>17, <1>18, <1>19 DEF IInv, TableSide

\* Commit: of CREATE, DROP, VACUUM and of the retry of an item.
LEMMA CommitStep ==
  ASSUME IInv, NEW s \in Sessions, Commit(s)
  PROVE  IInv'
<1> DEFINE txn == sessions[s]
<1>1. /\ txn.pc = "open" /\ queue' = Extended(txn.rows)
      /\ sessions' = [sessions EXCEPT ![s] = AfterCommit(txn)]
      /\ UNCHANGED <<store, home, ids, proc, actors, chan>>
      /\ condemned' = IF txn.op \in {"drop", "vacuum"} THEN condemned \cup txn.objects
                                                       ELSE condemned
  BY DEF Commit, threads
<1>2. /\ TypeInv /\ TableInv /\ QueueInv /\ SessionInv(s)
      /\ table \in [Locations -> [live : BOOLEAN, refs : SUBSET Nat]]
      /\ Len(home) \in Nat /\ condemned \in SUBSET (1..Len(home))
  BY SMT DEF IInv, TypeInv, TableSide
<1>3. /\ txn # IdleSession /\ txn \in Transactions
      /\ txn.op \in {"create", "drop", "vacuum", "retry"} /\ txn.objects \in SUBSET Nat
  <2>1. txn # IdleSession /\ txn \in Transactions
    BY <1>1, <1>2, OpenSession
  <2> QED
    BY <2>1, ZenonT(20) DEF Transactions
<1>4. ASSUME NEW r \in Sessions, r # s, Open(r, "create")
      PROVE  /\ sessions[r].at # txn.at /\ sessions[r].at \in Locations
             /\ sessions[r].objects \in SUBSET At(sessions[r].at)
  <2>1. ApartInv(r, s) /\ SessionInv(r)
    BY <1>4 DEF IInv, TableSide
  <2>2. sessions[r] # IdleSession
    BY <1>2, <1>4, OpenSession DEF Open
  <2> QED
    BY <1>3, <1>4, <2>1, <2>2 DEF ApartInv, SessionInv, CreateInv
<1>5. ASSUME NEW r \in Sessions, Open(r, "create")'
      PROVE  r # s /\ Open(r, "create") /\ sessions'[r] = sessions[r]
  <2>1. /\ sessions'[s] = AfterCommit(txn)
        /\ \A q \in Sessions : q # s => sessions'[q] = sessions[q]
        /\ \A q \in Sessions : q # s => \A op : Open(q, op)' <=> Open(q, op)
    BY <1>1, <1>2, OneSession
  <2>2. AfterCommit(txn).pc # "open"
    <3>1. [txn EXCEPT !.pc = "committed"].pc = "committed"
      BY <1>3, ZenonT(20) DEF Transactions
    <3>2. IdleSession.pc = "idle"
      BY DEF IdleSession
    <3> QED
      BY <3>1, <3>2 DEF AfterCommit
  <2>3. r # s
    BY <1>5, <2>1, <2>2 DEF Open
  <2> QED
    BY <1>5, <2>1, <2>3
<1>6. \A l : At(l)' = At(l)
  BY <1>1 DEF At
<1>7. ASSUME \A l \in Locations : /\ table'[l].live => table[l].live
                                  /\ table'[l].refs \in SUBSET table[l].refs
      PROVE  \A t \in Targets : Dead(t) => Dead(t)'
  <2>1. Len(home') \in Nat /\ Len(home) <= Len(home')
    BY <1>1, <1>2, SMT
  <2> QED
    BY <1>2, <1>5, <1>7, <2>1, StaysDead
<1>8. ASSUME txn.op \in {"drop", "vacuum"}
      PROVE  /\ Enqueues(s) /\ condemned' = condemned \cup txn.objects
             /\ txn.at \in Locations /\ txn.objects \in SUBSET table[txn.at].refs
             /\ txn.objects \in SUBSET (1..Len(home))
  <2>1. Enqueues(s)
    BY <1>1, <1>8 DEF Enqueues, Open
  <2>2. txn.at \in Locations /\ txn.objects \in SUBSET table[txn.at].refs
    BY <1>2, <2>1 DEF Enqueues, SessionInv, DropInv, VacuumInv
  <2> QED
    BY <1>1, <1>2, <1>8, <2>1, <2>2 DEF TableInv, At
<1>9. ASSUME NEW l \in Locations
      PROVE  /\ table[l].live \in BOOLEAN /\ table[l].refs \in SUBSET Nat
             /\ table[l].refs \in SUBSET (store \cap At(l))
             /\ ~table[l].live => table[l].refs = {}
  BY <1>2 DEF TableInv
<1>10. CASE txn.op = "create"
  <2>1. Open(s, "create") /\ condemned' = condemned
    BY <1>1, <1>10 DEF Open
  <2>2. /\ txn.at \in Locations /\ DOMAIN txn.rows = {}
        /\ txn.objects \in SUBSET (store \cap At(txn.at))
    BY <1>2, <2>1 DEF SessionInv, CreateInv
  <2> DEFINE new == [live |-> TRUE, refs |-> txn.objects]
  <2>3. table' = [table EXCEPT ![txn.at] = new]
    BY <1>10 DEF Commit
  <2>4. new \in [live : BOOLEAN, refs : SUBSET Nat] /\ new.live /\ new.refs = txn.objects
    BY <1>3, ZenonT(20)
  <2> HIDE DEF new
  <2>5. /\ table' \in [Locations -> [live : BOOLEAN, refs : SUBSET Nat]]
        /\ table'[txn.at] = new /\ \A l \in Locations : l # txn.at => table'[l] = table[l]
    BY <1>2, <2>2, <2>3, <2>4
  <2>6. ASSUME NEW t \in Targets, Dead(t)
        PROVE  Dead(t)'
    <3>1. t.op = "tree" => /\ t.at # txn.at /\ t.at \in Locations
                           /\ ~table'[t.at].live
      <4>1. t.op = "tree" => t.at \in Locations
        BY ZenonT(20) DEF Targets
      <4> QED
        BY <2>1, <2>5, <2>6, <4>1 DEF Dead
    <3>2. t.op = "tree" => \A r \in Sessions : Open(r, "create")' => sessions'[r].at # t.at
      BY <1>5, <2>6 DEF Dead
    <3>3. t.op = "object" =>
            /\ t.at \in 1..Len(home')
            /\ \A l \in Locations : t.at \notin table'[l].refs
      BY <1>1, <2>1, <2>4, <2>5, <2>6 DEF Dead
    <3>4. t.op = "object" =>
            \A r \in Sessions : Open(r, "create")' => t.at \notin sessions'[r].objects
      BY <1>5, <2>6 DEF Dead
    <3> QED
      BY <3>1, <3>2, <3>3, <3>4 DEF Dead
  <2>7. TableInv'
    <3> SUFFICES ASSUME NEW l \in Locations
                 PROVE  /\ table'[l].refs \in SUBSET (store \cap At(l))
                        /\ ~table'[l].live => table'[l].refs = {}
      BY <1>1, <1>6 DEF TableInv
    <3> QED
      BY <1>9, <2>2, <2>4, <2>5
  <2> QED
    BY <1>1, <1>2, <2>1, <2>2, <2>5, <2>6, <2>7, CommitFrame
<1>11. CASE txn.op = "drop"
  <2>1. /\ Open(s, "drop") /\ Enqueues(s) /\ txn.at \in Locations
        /\ \A id \in DOMAIN txn.rows : txn.rows[id].target = [op |-> "tree", at |-> txn.at]
    BY <1>1, <1>2, <1>8, <1>11 DEF Open, SessionInv, DropInv
  <2> DEFINE new == [live |-> FALSE, refs |-> {}]
  <2>2. table' = [table EXCEPT ![txn.at] = new]
    BY <1>11 DEF Commit
  <2>3. new \in [live : BOOLEAN, refs : SUBSET Nat] /\ ~new.live /\ new.refs = {}
    BY ZenonT(20)
  <2> HIDE DEF new
  <2>4. /\ table' \in [Locations -> [live : BOOLEAN, refs : SUBSET Nat]]
        /\ table'[txn.at] = new /\ \A l \in Locations : l # txn.at => table'[l] = table[l]
    BY <1>2, <2>1, <2>2, <2>3
  <2>5. \A t \in Targets : Dead(t) => Dead(t)'
    <3>1. \A l \in Locations : /\ table'[l].live => table[l].live
                               /\ table'[l].refs \in SUBSET table[l].refs
      BY <2>3, <2>4
    <3> QED
      BY <1>7, <3>1
  <2>6. TableInv'
    <3> SUFFICES ASSUME NEW l \in Locations
                 PROVE  /\ table'[l].refs \in SUBSET (store \cap At(l))
                        /\ ~table'[l].live => table'[l].refs = {}
      BY <1>1, <1>6 DEF TableInv
    <3> QED
      BY <1>9, <2>3, <2>4
  <2>7. ASSUME NEW t, t = [op |-> "tree", at |-> txn.at]
        PROVE  Dead(t)'
    <3>1. t.op = "tree" /\ t.at = txn.at
      BY <2>7
    <3>2. \A r \in Sessions : Open(r, "create")' => sessions'[r].at # txn.at
      BY <1>4, <1>5
    <3> QED
      BY <2>3, <2>4, <3>1, <3>2 DEF Dead
  <2>8. \A id \in DOMAIN txn.rows : \A t \in Targets :
          txn.rows[id].valid /\ t = txn.rows[id].target => Dead(t)'
    BY <2>1, <2>7
  <2>9. /\ condemned' \in SUBSET (1..Len(home))
        /\ \A o \in condemned' : o \in condemned \/ (Enqueues(s) /\ o \in txn.objects)
    BY <1>2, <1>8, <1>11
  <2> QED
    BY <1>1, <2>4, <2>5, <2>6, <2>8, <2>9, CommitFrame
<1>12. CASE txn.op = "vacuum"
  <2>1. /\ Open(s, "vacuum") /\ Enqueues(s) /\ txn.at \in Locations
        /\ table[txn.at].live /\ txn.objects \in SUBSET table[txn.at].refs
        /\ \A id \in DOMAIN txn.rows :
             txn.rows[id].target.op = "object" /\ txn.rows[id].target.at \in txn.objects
    BY <1>1, <1>2, <1>8, <1>12 DEF Open, SessionInv, VacuumInv
  <2> DEFINE new == [table[txn.at] EXCEPT !.refs = table[txn.at].refs \ txn.objects]
  <2>2. table' = [table EXCEPT ![txn.at] = new]
    BY <1>12 DEF Commit
  <2>3. /\ new \in [live : BOOLEAN, refs : SUBSET Nat] /\ new.live = table[txn.at].live
        /\ new.refs = table[txn.at].refs \ txn.objects
    <3>1. table[txn.at] \in [live : BOOLEAN, refs : SUBSET Nat]
      BY <1>2, <2>1
    <3> QED
      BY <3>1, ZenonT(20)
  <2> HIDE DEF new
  <2>4. /\ table' \in [Locations -> [live : BOOLEAN, refs : SUBSET Nat]]
        /\ table'[txn.at] = new /\ \A l \in Locations : l # txn.at => table'[l] = table[l]
    BY <1>2, <2>1, <2>2, <2>3
  <2>5. \A l \in Locations : /\ table'[l].live = table[l].live
                             /\ table'[l].refs \in SUBSET table[l].refs
    BY <2>3, <2>4
  <2>6. \A t \in Targets : Dead(t) => Dead(t)'
    BY <1>7, <2>5
  <2>7. TableInv'
    <3> SUFFICES ASSUME NEW l \in Locations
                 PROVE  /\ table'[l].refs \in SUBSET (store \cap At(l))
                        /\ ~table'[l].live => table'[l].refs = {}
      BY <1>1, <1>6 DEF TableInv
    <3>1. /\ table'[l].live = table[l].live /\ table'[l].refs \in SUBSET table[l].refs
      BY <2>5
    <3> QED
      BY <1>9, <3>1
  <2>8. ASSUME NEW t, t.op = "object", t.at \in txn.objects
        PROVE  Dead(t)'
    <3>1. t.at \in table[txn.at].refs /\ t.at \in At(txn.at)
      BY <1>9, <2>1, <2>8
    <3>2. t.at \in 1..Len(home) /\ home[t.at] = txn.at
      BY <3>1 DEF At
    <3>3. ASSUME NEW l \in Locations
          PROVE  t.at \notin table'[l].refs
      <4>1. CASE l = txn.at
        BY <2>3, <2>4, <2>8, <4>1
      <4>2. CASE l # txn.at
        <5>1. table'[l].refs \in SUBSET At(l)
          BY <1>9, <2>4, <4>2
        <5> QED
          BY <3>2, <4>2, <5>1 DEF At
      <4> QED
        BY <4>1, <4>2
    <3>4. ASSUME NEW r \in Sessions, Open(r, "create")'
          PROVE  t.at \notin sessions'[r].objects
      <4>1. r # s /\ Open(r, "create") /\ sessions'[r] = sessions[r]
        BY <1>5, <3>4
      <4>2. sessions[r].at # txn.at /\ sessions[r].objects \in SUBSET At(sessions[r].at)
        BY <1>4, <4>1
      <4> QED
        BY <3>2, <4>1, <4>2 DEF At
    <3> QED
      BY <1>1, <2>8, <3>2, <3>3, <3>4 DEF Dead
  <2>9. \A id \in DOMAIN txn.rows : \A t \in Targets :
          txn.rows[id].valid /\ t = txn.rows[id].target => Dead(t)'
    BY <2>1, <2>8
  <2>10. /\ condemned' \in SUBSET (1..Len(home))
         /\ \A o \in condemned' : o \in condemned \/ (Enqueues(s) /\ o \in txn.objects)
    BY <1>2, <1>8, <1>12
  <2> QED
    BY <1>1, <2>4, <2>6, <2>7, <2>9, <2>10, CommitFrame
<1>13. CASE txn.op = "retry"
  <2>1. /\ Open(s, "retry") /\ DOMAIN txn.rows = {txn.at} /\ txn.at \in DOMAIN queue
        /\ txn.rows[txn.at].target = queue[txn.at].target
        /\ txn.rows[txn.at].valid = queue[txn.at].valid
    BY <1>1, <1>2, <1>13 DEF Open, SessionInv, RetryInv
  <2>2. table' = table /\ condemned' = condemned
    BY <1>1, <1>13 DEF Commit
  <2>3. \A t \in Targets : Dead(t) => Dead(t)'
    <3>1. \A l \in Locations : /\ table'[l].live => table[l].live
                               /\ table'[l].refs \in SUBSET table[l].refs
      BY <2>2
    <3> QED
      BY <1>7, <3>1
  <2>4. TableInv'
    BY <1>1, <1>2, <1>6, <2>2 DEF TableInv
  <2>5. \A id \in DOMAIN txn.rows : \A t \in Targets :
          txn.rows[id].valid /\ t = txn.rows[id].target => Dead(t)'
    BY <1>2, <2>1, <2>3 DEF QueueInv
  <2> QED
    BY <1>1, <1>2, <2>2, <2>3, <2>4, <2>5, CommitFrame
<1> QED
  BY <1>3, <1>10, <1>11, <1>12, <1>13

\* Transactions end; objects that only they refer to may go with them.
LEMMA EndFrame ==
  ASSUME IInv, UNCHANGED <<home, table, queue, ids, condemned>>, store' \in SUBSET store,
         proc' \in Processes, actors' \in [Actors -> Resting \cup Working],
         chan' \in Seq(Results),
         sessions' \in [Sessions -> {IdleSession} \cup Transactions],
         \A r \in Sessions : sessions'[r] = IdleSession \/ sessions'[r] = sessions[r],
         \A o \in store \ store' :
           /\ \A l \in Locations : o \notin table[l].refs
           /\ \A r \in Sessions : Open(r, "create")' => o \notin sessions[r].objects,
         \A id : Known(id)' => Known(id)
  PROVE  TypeInv' /\ TableSide' /\ (\A t \in Targets : Dead(t) => Dead(t)')
<1>1. TypeInv /\ TableInv /\ Len(home) \in Nat /\ store \in SUBSET (1..Len(home))
  BY SMT DEF IInv, TypeInv, TableSide
<1>2. ASSUME NEW r \in Sessions, sessions'[r] # sessions[r]
      PROVE  (\A op : ~Open(r, op)') /\ ~Enqueues(r)' /\ sessions'[r] = IdleSession
  <2>1. sessions'[r] = IdleSession /\ IdleSession.pc = "idle"
    BY <1>2 DEF IdleSession
  <2> QED
    BY <2>1 DEF Open, Enqueues
<1>3. ASSUME NEW r \in Sessions, sessions'[r] = sessions[r]
      PROVE  (\A op : Open(r, op)' <=> Open(r, op)) /\ (Enqueues(r)' <=> Enqueues(r))
  BY <1>3 DEF Open, Enqueues
<1>4. TypeInv'
  <2>1. store' \in SUBSET (1..Len(home))
    BY <1>1
  <2> QED
    BY <1>1, <2>1 DEF TypeInv
<1>5. \A t \in Targets : Dead(t) => Dead(t)'
  <2>1. Len(home') \in Nat /\ Len(home) <= Len(home')
    BY <1>1, SMT
  <2>2. \A r \in Sessions :
          Open(r, "create")' => /\ Open(r, "create") /\ sessions'[r].at = sessions[r].at
                                /\ sessions'[r].objects = sessions[r].objects
    BY <1>2, <1>3
  <2> QED
    BY <1>1, <2>1, <2>2, StaysDead
<1>6. TableInv'
  <2> SUFFICES ASSUME NEW l \in Locations
               PROVE  /\ table[l].refs \in SUBSET (store' \cap At(l))
                      /\ ~table[l].live => table[l].refs = {}
    <3>1. \A x : At(x)' = At(x)
      BY DEF At
    <3> QED
      BY <3>1 DEF TableInv
  <2> QED
    BY <1>1 DEF TableInv
<1>7. QueueInv'
  <2>1. \A id \in DOMAIN queue : queue[id].target \in Targets
    BY <1>1, ZenonT(20) DEF TypeInv, Rows
  <2> QED
    BY <1>5, <2>1 DEF IInv, TableSide, QueueInv
<1>8. CoverInv'
  <2>1. \A t, o : Hits(t, o)' <=> Hits(t, o)
    BY DEF Hits
  <2> QED
    BY <2>1 DEF IInv, TableSide, CoverInv
<1>9. ASSUME NEW r \in Sessions
      PROVE  SessionInv(r)' /\ FreshInv(r)'
  <2>1. CASE sessions'[r] # sessions[r]
    BY <1>2, <2>1 DEF SessionInv, FreshInv, CreateInv, DropInv, VacuumInv, RetryInv, PromiseInv
  <2>2. CASE sessions'[r] = sessions[r]
    <3>1. SessionInv(r) /\ FreshInv(r) /\ (Enqueues(r)' <=> Enqueues(r))
      BY <1>3, <2>2 DEF IInv, TableSide
    <3>2. Open(r, "create") => sessions[r].objects \in SUBSET store'
      <4> SUFFICES ASSUME Open(r, "create"), NEW o \in sessions[r].objects
                   PROVE  o \in store'
        OBVIOUS
      <4>1. o \in store
        BY <3>1 DEF SessionInv, CreateInv
      <4> QED
        BY <1>3, <2>2, <4>1
    <3>3. \A id \in DOMAIN queue : RowKept(id)
      BY DEF RowKept
    <3>4. SessionInv(r)'
      BY <1>1, <2>2, <3>1, <3>2, <3>3, SessionKept
    <3>5. FreshInv(r)'
      BY <2>2, <3>1 DEF FreshInv
    <3> QED
      BY <3>4, <3>5
  <2> QED
    BY <2>1, <2>2
<1>10. ASSUME NEW q \in Sessions, NEW r \in Sessions, q # r
       PROVE  ApartInv(q, r)'
  <2>1. ApartInv(q, r)
    BY <1>10 DEF IInv, TableSide
  <2>2. CASE sessions'[q] = sessions[q] /\ sessions'[r] = sessions[r]
    BY <1>3, <2>1, <2>2 DEF ApartInv
  <2>3. CASE sessions'[q] # sessions[q] \/ sessions'[r] # sessions[r]
    BY <1>2, <2>3 DEF ApartInv
  <2> QED
    BY <2>2, <2>3
<1> QED
  BY <1>4, <1>5, <1>6, <1>7, <1>8, <1>9, <1>10 DEF TableSide

\* A transaction rolls back, or its wakeup is published.
LEMMA EndStep ==
  ASSUME IInv, NEW s \in Sessions, Rollback(s) \/ PublishWakeup(s)
  PROVE  IInv'
<1>1. /\ sessions' = [sessions EXCEPT ![s] = IdleSession]
      /\ UNCHANGED <<home, table, queue, ids, condemned, proc, actors, chan>>
      /\ \/ store' = store
         \/ Open(s, "create") /\ store' = store \ sessions[s].objects
  BY DEF Rollback, PublishWakeup, threads, Open
<1>2. TypeInv /\ TableInv /\ SessionInv(s)
  BY DEF IInv, TableSide
<1>3. /\ sessions'[s] = IdleSession /\ \A r \in Sessions : r # s => sessions'[r] = sessions[r]
      /\ \A r \in Sessions : r # s => \A op : Open(r, op)' <=> Open(r, op)
      /\ sessions' \in [Sessions -> {IdleSession} \cup Transactions]
  BY <1>1, <1>2, OneSession
<1>4. /\ store' \in SUBSET store
      /\ proc' \in Processes /\ actors' \in [Actors -> Resting \cup Working]
      /\ chan' \in Seq(Results)
      /\ \A id : Known(id)' => Known(id)
  BY <1>1, <1>2 DEF TypeInv, Known
<1>5. ASSUME NEW o \in store \ store'
      PROVE  /\ \A l \in Locations : o \notin table[l].refs
             /\ \A r \in Sessions : Open(r, "create")' => o \notin sessions[r].objects
  <2>1. Open(s, "create") /\ o \in sessions[s].objects
    BY <1>1
  <2>2. /\ o \in At(sessions[s].at) /\ ~table[sessions[s].at].live
        /\ sessions[s].at \in Locations
    BY <1>2, <2>1 DEF SessionInv, CreateInv
  <2>3. \A l \in Locations : o \notin table[l].refs
    <3> SUFFICES ASSUME NEW l \in Locations, o \in table[l].refs
                 PROVE  FALSE
      OBVIOUS
    <3>1. o \in At(l) /\ table[l].live
      BY <1>2 DEF TableInv
    <3> QED
      BY <2>2, <3>1 DEF At
  <2>4. ASSUME NEW r \in Sessions, Open(r, "create")', o \in sessions[r].objects
        PROVE  FALSE
    <3>1. r # s
      BY <1>3, <2>4, SMT DEF Open, IdleSession
    <3>2. Open(r, "create") /\ SessionInv(r) /\ ApartInv(r, s)
      BY <1>3, <2>4, <3>1 DEF IInv, TableSide
    <3>3. o \in At(sessions[r].at)
      BY <2>4, <3>2 DEF SessionInv, CreateInv
    <3>4. sessions[r] # IdleSession /\ sessions[s] # IdleSession
      BY <1>2, <2>1, <3>2, OpenSession DEF Open
    <3> QED
      BY <2>2, <3>2, <3>3, <3>4 DEF ApartInv, At
  <2> QED
    BY <2>3, <2>4
<1>6. TypeInv' /\ TableSide' /\ (\A t \in Targets : Dead(t) => Dead(t)')
  BY <1>1, <1>3, <1>4, <1>5, EndFrame
<1>7. WorkerSide'
  <2>1. /\ \A id \in DOMAIN queue' : Known(id) => id \in DOMAIN queue /\ queue'[id] = queue[id]
        /\ \A id \in DOMAIN queue : ~queue[id].valid => id \in DOMAIN queue' /\ ~queue'[id].valid
        /\ \A i \in 1..ids : i \in 1..ids'
    BY <1>1
  <2> QED
    BY <1>1, <1>4, <1>6, <2>1, WorkerSideKept
<1> QED
  BY <1>6, <1>7 DEF IInv

\* The server restarts: open transactions are gone, committed rows are not.
LEMMA RestartStep ==
  ASSUME IInv, CrashServer
  PROVE  IInv'
<1>1. /\ UNCHANGED <<store, home, table, queue, ids, condemned>> /\ Gone
      /\ sessions' = [s \in Sessions |-> IdleSession]
  BY DEF CrashServer
<1>2. /\ proc' \in Processes /\ actors' \in [Actors -> Resting \cup Working]
      /\ chan' \in Seq(Results) /\ (\A id : ~Known(id)') /\ WorkerSide'
  BY <1>1, GoneWorker
<1>3. /\ sessions' \in [Sessions -> {IdleSession} \cup Transactions]
      /\ \A r \in Sessions : sessions'[r] = IdleSession
  BY <1>1
<1>4. TypeInv' /\ TableSide'
  BY <1>1, <1>2, <1>3, EndFrame
<1> QED
  BY <1>2, <1>4 DEF IInv
=============================================================================
