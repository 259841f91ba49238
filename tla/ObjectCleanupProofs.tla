------------------------ MODULE ObjectCleanupProofs ------------------------
(***************************************************************************)
(* Proofs about ObjectCleanup, for any number of sessions, locations and   *)
(* actors and any bounds: no live object is deleted (LiveObjectsSurvive),  *)
(* no condemned one is forgotten (CondemnedObjectsAreQueued), and no item  *)
(* is worked on twice at a time (NoDoubleDispatch).                        *)
(***************************************************************************)
EXTENDS ObjectCleanupInvariant, FiniteSetTheorems

\* Zenon proves most leaves, SMT the others.
USE Zenon, SMTT(30)

-----------------------------------------------------------------------------
(* The steps that count or enumerate.                                       *)

\* Listing lists every member of a finite set once.
LEMMA ListedOnce ==
  ASSUME NEW S, IsFiniteSet(S)
  PROVE  /\ Cardinality(S) \in Nat /\ Listing(S) \in [1..Cardinality(S) -> S]
         /\ Len(Listing(S)) = Cardinality(S)
         /\ \A i, j \in 1..Cardinality(S) : Listing(S)[i] = Listing(S)[j] => i = j
         /\ \A x \in S : \E i \in 1..Cardinality(S) : Listing(S)[i] = x
<1> DEFINE n == Cardinality(S)
           f == Listing(S)
<1>1. n \in Nat /\ ExistsBijection(1..n, S)
  BY FS_CardinalityType
<1>2. \E g \in [1..n -> S] : IsInjective(g)
  BY <1>1 DEF ExistsBijection, Bijection, Injection
<1>3. f \in [1..n -> S] /\ IsInjective(f)
  BY <1>2 DEF Listing
<1>4. IsFiniteSet(1..n) /\ Cardinality(1..n) = n
  BY <1>1, FS_Interval, SMT
<1>5. f \in Injection(1..n, S)
  BY <1>3 DEF Injection
<1>6. f \in Surjection(1..n, S)
  BY <1>4, <1>5, FS_Injection
<1>7. \A x \in S : \E i \in 1..n : f[i] = x
  BY <1>6 DEF Surjection
<1>8. \A i, j \in 1..n : f[i] = f[j] => i = j
  BY <1>3 DEF IsInjective
<1>9. Len(f) = n
  <2> HIDE DEF f, n
  <2> QED
    BY <1>1, <1>3, SMT
<1> QED
  BY <1>1, <1>3, <1>7, <1>8, <1>9

\* Enqueue gives every target a row with a number of its own.
LEMMA EnqueuedRows ==
  ASSUME ids \in Nat, NEW T \in SUBSET Targets, IsFiniteSet(T)
  PROVE  LET E == Enqueued(T)
         IN  /\ Cardinality(T) \in Nat
             /\ E \in [ids + 1 .. ids + Cardinality(T) -> Rows]
             /\ \A id \in DOMAIN E : E[id].valid /\ E[id].target \in T
             /\ \A t \in T : \E id \in DOMAIN E : E[id].valid /\ E[id].target = t
<1> DEFINE n == Cardinality(T)
           f == Listing(T)
           E == Enqueued(T)
<1>1. /\ n \in Nat /\ f \in [1..n -> T] /\ Len(f) = n
      /\ \A x \in T : \E i \in 1..n : f[i] = x
  BY ListedOnce
<1>2. E = [id \in ids + 1 .. ids + n |-> NewRow(f[id - ids])]
  BY <1>1 DEF Enqueued
<1> HIDE DEF n, f, E
<1>3. \A id \in ids + 1 .. ids + n : id - ids \in 1..n
  BY <1>1, SMT
<1>4. \A t \in T : NewRow(t) \in Rows /\ NewRow(t).valid /\ NewRow(t).target = t
  <2> SUFFICES ASSUME NEW t \in T
               PROVE  NewRow(t) \in Rows /\ NewRow(t).valid /\ NewRow(t).target = t
    OBVIOUS
  <2>1. t \in Targets /\ 0 \in Nat
    OBVIOUS
  <2> QED
    BY <2>1, ZenonT(20) DEF NewRow, Rows
<1>5. \A id \in ids + 1 .. ids + n : f[id - ids] \in T
  BY <1>1, <1>3
<1>6. E \in [ids + 1 .. ids + n -> Rows]
  BY <1>2, <1>4, <1>5
<1>7. \A id \in ids + 1 .. ids + n : E[id].valid /\ E[id].target \in T
  BY <1>2, <1>4, <1>5
<1>8. ASSUME NEW t \in T
      PROVE  \E id \in ids + 1 .. ids + n : E[id].valid /\ E[id].target = t
  <2>1. PICK i \in 1..n : f[i] = t
    BY <1>1
  <2>2. ids + i \in ids + 1 .. ids + n /\ (ids + i) - ids = i
    BY <1>1, SMT
  <2>3. E[ids + i] = NewRow(t)
    BY <1>2, <2>1, <2>2
  <2> QED
    BY <1>4, <2>2, <2>3
<1> QED
  BY <1>1, <1>6, <1>7, <1>8 DEF n, E

\* An image of a finite set of rows has at most as many members.
LEMMA CopiedTasks ==
  ASSUME NEW S, IsFiniteSet(S)
  PROVE  LET T == {Copy(id) : id \in S}
         IN  IsFiniteSet(T) /\ Cardinality(T) \in Nat /\ Cardinality(T) <= Cardinality(S)
<1> DEFINE T == {Copy(id) : id \in S}
           f == [id \in S |-> Copy(id)]
<1>1. f \in Surjection(S, T)
  BY DEF Surjection
<1>2. IsFiniteSet(T) /\ Cardinality(T) <= Cardinality(S)
  BY <1>1, FS_Surjection
<1> QED
  BY <1>2, FS_CardinalityType

\* fetch_ready_batch: copies of rows that are due, valid and not in flight, no more
\* than there are idle actors.
LEMMA FetchStep ==
  ASSUME IInv, FetchBatch
  PROVE  IInv'
<1>1. /\ TypeInv /\ proc \in Processes /\ proc.pc = "fetch" /\ proc.tasks = {} /\ proc.invalid = {}
      /\ UNCHANGED <<store, tables, queue, actors, chan>>
  BY DEF FetchBatch, IInv, TypeInv, threads, WorkerSide, DispatchInv
<1>2. CASE Cardinality(IdleActors) = 0
  <2>1. Goto("next")
    BY <1>2 DEF FetchBatch
  <2> QED
    BY <1>1, <2>1, JumpStep DEF Jump, Schedules
<1>3. CASE Cardinality(IdleActors) # 0
  <2>1. PICK seen \in SUBSET {id \in Item : Ready(id)} :
          LET taken == {id \in seen : Fetchable(id) /\ queue[id].valid}
          IN  /\ Cardinality(taken) <= Cardinality(IdleActors)
              /\ proc' = [proc EXCEPT !.pc = "dispatch", !.tasks = {Copy(id) : id \in taken},
                            !.invalid = {id \in seen : Fetchable(id) /\ ~queue[id].valid}]
    BY <1>3 DEF FetchBatch
  <2> DEFINE taken == {id \in seen : Fetchable(id) /\ queue[id].valid}
             T == {Copy(id) : id \in taken}
             bad == {id \in seen : Fetchable(id) /\ ~queue[id].valid}
  <2>2. /\ Cardinality(taken) <= Cardinality(IdleActors)
        /\ proc' = [proc EXCEPT !.pc = "dispatch", !.tasks = T, !.invalid = bad]
    BY <2>1
  <2>3. ASSUME NEW id \in seen
        PROVE  /\ id \in DOMAIN queue /\ id \in 1..ids /\ id \in Nat /\ queue[id] \in Rows
               /\ ~queue[id].failed
    <3>1. id \in DOMAIN queue /\ ~queue[id].failed
      BY DEF Ready, Pending
    <3>2. id \in 1..ids /\ queue[id] \in Rows /\ ids \in Nat
      BY <1>1, <3>1 DEF TypeInv
    <3> QED
      BY <3>1, <3>2, SMT
  <2>4. IsFiniteSet(Item)
    BY FS_Interval, CleanupAssumption, SMT DEF Item
  <2>5. IsFiniteSet(taken)
    BY <2>4, FS_Subset
  <2>6. IsFiniteSet(T) /\ Cardinality(T) <= Cardinality(IdleActors)
    <3>1. IsFiniteSet(T) /\ Cardinality(T) \in Nat /\ Cardinality(T) <= Cardinality(taken)
      BY <2>5, CopiedTasks
    <3>2. Cardinality(taken) \in Nat
      BY <2>5, FS_CardinalityType
    <3>3. Cardinality(IdleActors) \in Nat
      BY FS_CardinalityType, FS_Subset, CleanupAssumption DEF IdleActors
    <3> HIDE DEF taken, T
    <3> QED
      BY <2>2, <3>1, <3>2, <3>3, SMT
  <2>7. ASSUME NEW id \in taken
        PROVE  /\ Copy(id) \in Items /\ Copy(id).id = id /\ Copy(id).target = queue[id].target
               /\ \A j \in proc.inflight : j.id # id
               /\ id \in DOMAIN queue /\ id \in 1..ids /\ queue[id].valid /\ ~queue[id].failed
    <3>1. /\ id \in DOMAIN queue /\ id \in 1..ids /\ id \in Nat /\ queue[id] \in Rows
          /\ ~queue[id].failed
      BY <2>3
    <3>2. Copy(id) \in Items /\ Copy(id).id = id /\ Copy(id).target = queue[id].target
      BY <3>1, ZenonT(20) DEF Copy, Items, Rows
    <3> QED
      BY <3>1, <3>2 DEF Fetchable
  <2>8. bad \in SUBSET Nat /\ \A id \in bad : id \in DOMAIN queue /\ ~queue[id].valid
    BY <2>3
  <2>9. T \in SUBSET Items
    BY <2>7
  <2>10. \A j \in T : \E id \in taken : j = Copy(id)
    OBVIOUS
  <2> HIDE DEF taken, T, bad
  <2>11. /\ proc' \in Processes /\ proc'.pc = "dispatch" /\ proc'.tasks = T /\ proc'.invalid = bad
         /\ proc'.inflight = proc.inflight /\ proc'.pending = proc.pending
    BY <1>1, <2>2, <2>8, <2>9, ZenonT(20) DEF Processes, Places
  <2>12. WorkerChanges
    BY <1>1, NothingChanges
  <2>13. TypeInv'
    BY <1>1, <2>11, <2>12, TableTypes DEF TypeInv
  <2>14. TableSide'
    <3>1. ASSUME NEW id \in Nat, Known(id)'
          PROVE  Known(id) \/ id \in DOMAIN queue
      <4>1. PICK j \in proc.inflight \cup T : j.id = id
        BY <2>11, <3>1 DEF Known
      <4> QED
        BY <2>7, <2>10, <4>1 DEF Known
    <3> QED
      BY <2>12, <3>1, TableSideKept
  <2>15. UNCHANGED <<home, table, ids, sessions>>
    BY <1>1 DEF tables
  <2>16. ItemInv'
    <3>1. \A t : Dead(t)' <=> Dead(t)
      BY <2>15 DEF Dead, Open
    <3>2. ASSUME NEW j \in proc.inflight
          PROVE  /\ j.id \in DOMAIN queue /\ Dead(j.target)
                 /\ queue[j.id].target = j.target
                 /\ queue[j.id].valid /\ ~queue[j.id].failed
                 /\ \A x \in proc.inflight : j.id = x.id => j = x
                 /\ \A x \in T : j.id # x.id
      <4>1. \A x \in T : j.id # x.id
        BY <2>7, <2>10
      <4> QED
        BY <4>1 DEF IInv, WorkerSide, ItemInv
    <3>3. ASSUME NEW j \in T
          PROVE  /\ j.id \in DOMAIN queue /\ Dead(j.target)
                 /\ queue[j.id].target = j.target
                 /\ queue[j.id].valid /\ ~queue[j.id].failed
                 /\ \A x \in T : j.id = x.id => j = x
      <4>1. PICK id \in taken : j = Copy(id)
        BY <2>10
      <4>2. Dead(queue[id].target)
        BY <2>7 DEF IInv, TableSide, QueueInv
      <4> QED
        BY <2>7, <2>10, <4>1, <4>2, SMT
    <3> QED
      BY <1>1, <2>11, <2>15, <3>1, <3>2, <3>3, SMT DEF ItemInv
  <2>17. DispatchInv'
    <3>1. IdleActors' = IdleActors
      BY <1>1 DEF IdleActors
    <3>2. T \cap proc.inflight = {}
      BY <2>7, <2>10, SMT
    <3> QED
      BY <1>1, <2>6, <2>8, <2>11, <3>1, <3>2 DEF DispatchInv
  <2>18. ActorInv'
    BY <1>1, <2>11, <2>15 DEF IInv, WorkerSide, ActorInv, Works, At
  <2>19. ResultInv'
    <3>1. Reported' = Reported
      BY <1>1, <2>11 DEF Reported
    <3>2. \A t, o : Hits(t, o)' <=> Hits(t, o)
      BY <2>15 DEF Hits
    <3> QED
      BY <1>1, <2>11, <3>1, <3>2 DEF IInv, WorkerSide, ResultInv, Works
  <2> QED
    BY <2>13, <2>14, <2>16, <2>17, <2>18, <2>19 DEF IInv, WorkerSide
<1> QED
  BY <1>2, <1>3

\* dispatch: every task gets an idle actor of its own.
LEMMA DispatchStep ==
  ASSUME IInv, Dispatch
  PROVE  IInv'
<1> DEFINE idle == Listing(IdleActors)
           list == Listing(proc.tasks)
           m == Cardinality(IdleActors)
           n == Cardinality(proc.tasks)
           Gets(a, i) == i \in 1..n /\ idle[i] = a
<1>1. /\ TypeInv /\ proc \in Processes /\ proc.pc = "dispatch" /\ proc.invalid = {}
      /\ UNCHANGED <<store, tables, queue, chan>>
  BY DEF Dispatch, IInv, TypeInv
<1>2. /\ IsFiniteSet(proc.tasks) /\ n <= m /\ proc.tasks \cap proc.inflight = {}
  BY <1>1 DEF IInv, WorkerSide, DispatchInv
<1>3. IsFiniteSet(IdleActors)
  BY FS_Subset, CleanupAssumption DEF IdleActors
<1>4. /\ m \in Nat /\ idle \in [1..m -> IdleActors]
      /\ \A i, j \in 1..m : idle[i] = idle[j] => i = j
  BY <1>3, ListedOnce
<1>5. /\ n \in Nat /\ list \in [1..n -> proc.tasks] /\ Len(list) = n
      /\ \A i, j \in 1..n : list[i] = list[j] => i = j
  BY <1>2, ListedOnce
<1>6. actors' = [a \in Actors |->
                   IF \E i \in 1..n : idle[i] = a
                   THEN [pc |-> "begin", page |-> {}, item |-> list[CHOOSE i \in 1..n : idle[i] = a]]
                   ELSE actors[a]]
  BY <1>5 DEF Dispatch
<1>7. proc' = [proc EXCEPT !.pc = "next", !.inflight = proc.inflight \cup proc.tasks, !.tasks = {}]
  BY DEF Dispatch
<1>8. \A i \in 1..n : i \in 1..m
  <2> HIDE DEF n, m
  <2> QED
    BY <1>2, <1>4, <1>5, SMT
<1> HIDE DEF idle, list, n, m
<1>9. ASSUME NEW a \in Actors, NEW i \in 1..n, idle[i] = a
      PROVE  /\ actors'[a] = [pc |-> "begin", page |-> {}, item |-> list[i]]
             /\ a \in IdleActors /\ list[i] \in proc.tasks
  <2>1. (CHOOSE j \in 1..n : idle[j] = a) = i
    BY <1>4, <1>8, <1>9
  <2>2. a \in IdleActors /\ list[i] \in proc.tasks
    BY <1>4, <1>5, <1>8, <1>9
  <2> QED
    BY <1>6, <1>9, <2>1, <2>2
<1>10. \A a \in Actors : (\A i \in 1..n : idle[i] # a) => actors'[a] = actors[a]
  BY <1>6
<1>11. /\ proc' \in Processes /\ proc'.pc = "next" /\ proc'.tasks = {} /\ proc'.invalid = {}
       /\ proc'.inflight = proc.inflight \cup proc.tasks /\ proc'.pending = proc.pending
  BY <1>1, <1>7, ZenonT(20) DEF Processes, Places, Jump
<1>12. proc.tasks \in SUBSET Items
  BY <1>1 DEF Processes
<1>13. actors' \in [Actors -> Resting \cup Working]
  <2>1. ASSUME NEW x \in Items
        PROVE  [pc |-> "begin", page |-> {}, item |-> x] \in Working
    BY ZenonT(20) DEF Working
  <2>2. \A a \in Actors : actors'[a] \in Resting \cup Working
    <3>1. \A a \in Actors : actors[a] \in Resting \cup Working
      BY <1>1 DEF TypeInv
    <3>2. SUFFICES ASSUME NEW a \in Actors
                   PROVE  actors'[a] \in Resting \cup Working
      OBVIOUS
    <3>3. CASE \E i \in 1..n : idle[i] = a
      <4>1. PICK i \in 1..n : idle[i] = a
        BY <3>3
      <4>2. actors'[a] = [pc |-> "begin", page |-> {}, item |-> list[i]] /\ list[i] \in Items
        BY <1>9, <1>12, <4>1
      <4> QED
        BY <2>1, <4>2
    <3>4. CASE \A i \in 1..n : idle[i] # a
      BY <1>10, <3>1, <3>4
    <3> QED
      BY <3>3, <3>4
  <2> QED
    BY <1>6, <2>2
<1>14. WorkerChanges
  BY <1>1, NothingChanges
<1>15. TypeInv'
  <2>1. chan' \in Seq(Results)
    BY <1>1 DEF TypeInv
  <2> QED
    BY <1>1, <1>11, <1>13, <1>14, <2>1, TableTypes
<1>16. TableSide'
  <2>1. \A id \in Nat : Known(id)' => Known(id)
    BY <1>11 DEF Known
  <2> QED
    BY <1>14, <2>1, TableSideKept
<1>17. UNCHANGED <<home, table, ids, sessions>>
  BY <1>1 DEF tables
<1>18. ItemInv'
  <2>1. \A t : Dead(t)' <=> Dead(t)
    BY <1>17 DEF Dead, Open
  <2>2. proc'.inflight \cup proc'.tasks = proc.inflight \cup proc.tasks
    BY <1>11
  <2> QED
    BY <1>1, <1>17, <2>1, <2>2 DEF IInv, WorkerSide, ItemInv
<1>19. DispatchInv'
  BY <1>11 DEF DispatchInv
<1>20. ASSUME NEW a \in Actors
       PROVE  \/ /\ actors'[a] = actors[a] /\ (Works(a)' <=> Works(a))
                 /\ \A i \in 1..n : idle[i] # a
              \/ /\ \E i \in 1..n : idle[i] = a /\ actors'[a].item = list[i]
                 /\ actors'[a].item \in proc.tasks /\ actors'[a].pc = "begin"
  <2>1. CASE \E i \in 1..n : idle[i] = a
    <3>1. PICK i \in 1..n : idle[i] = a
      BY <2>1
    <3>2. /\ actors'[a] = [pc |-> "begin", page |-> {}, item |-> list[i]]
          /\ list[i] \in proc.tasks
      BY <1>9, <3>1
    <3> QED
      BY <3>1, <3>2
  <2>2. CASE \A i \in 1..n : idle[i] # a
    BY <1>10, <2>2 DEF Works
  <2> QED
    BY <2>1, <2>2
<1>21. ASSUME NEW x \in proc.tasks, NEW y \in proc.inflight
       PROVE  x.id # y.id
  BY <1>2 DEF IInv, WorkerSide, ItemInv
<1>22. ActorInv'
  <2>1. ASSUME NEW a \in Actors, Works(a)'
        PROVE  actors'[a].item \in proc'.inflight
    BY <1>11, <1>20, <2>1 DEF IInv, WorkerSide, ActorInv
  <2>2. ASSUME NEW a \in Actors, NEW b \in Actors, Works(a)', Works(b)',
               actors'[a].item.id = actors'[b].item.id
        PROVE  a = b
    <3>1. CASE (\A i \in 1..n : idle[i] # a) /\ (\A i \in 1..n : idle[i] # b)
      BY <1>20, <2>2, <3>1 DEF IInv, WorkerSide, ActorInv
    <3>2. CASE (\E i \in 1..n : idle[i] = a) /\ (\E i \in 1..n : idle[i] = b)
      <4>1. PICK i \in 1..n : idle[i] = a /\ actors'[a].item = list[i]
        BY <1>20, <3>2
      <4>2. PICK j \in 1..n : idle[j] = b /\ actors'[b].item = list[j]
        BY <1>20, <3>2
      <4>3. list[i] \in proc.tasks /\ list[j] \in proc.tasks /\ list[i].id = list[j].id
        BY <1>5, <2>2, <4>1, <4>2
      <4>4. list[i] = list[j]
        BY <4>3 DEF IInv, WorkerSide, ItemInv
      <4> QED
        BY <1>5, <4>1, <4>2, <4>4
    <3>3. CASE (\A i \in 1..n : idle[i] # a) /\ (\E i \in 1..n : idle[i] = b)
      <4>1. actors'[a].item \in proc.inflight /\ actors'[b].item \in proc.tasks
        BY <1>20, <2>2, <3>3 DEF IInv, WorkerSide, ActorInv
      <4> QED
        BY <1>21, <2>2, <4>1
    <3>4. CASE (\E i \in 1..n : idle[i] = a) /\ (\A i \in 1..n : idle[i] # b)
      <4>1. actors'[b].item \in proc.inflight /\ actors'[a].item \in proc.tasks
        BY <1>20, <2>2, <3>4 DEF IInv, WorkerSide, ActorInv
      <4> QED
        BY <1>21, <2>2, <4>1
    <3> QED
      BY <3>1, <3>2, <3>3, <3>4
  <2>3. \A l : At(l)' = At(l)
    BY <1>17 DEF At
  <2>4. \A a \in Actors : actors'[a].pc = "page" => actors'[a] = actors[a]
    BY <1>20
  <2>5. \A a \in Actors : actors'[a].pc = "page" =>
          /\ actors'[a].item.target.op = "tree"
          /\ actors'[a].page \in SUBSET At(actors'[a].item.target.at)
    BY <2>4 DEF IInv, WorkerSide, ActorInv
  <2> QED
    BY <2>1, <2>2, <2>3, <2>5 DEF ActorInv
<1>23. ResultInv'
  <2>1. Reported' = Reported
    BY <1>1, <1>11 DEF Reported
  <2>2. \A t, o : Hits(t, o)' <=> Hits(t, o)
    BY <1>17 DEF Hits
  <2>3. ASSUME NEW k \in 1..Len(Reported)
        PROVE  /\ \E i \in proc'.inflight : i.id = Reported[k].id
               /\ \A a \in Actors : Works(a)' => actors'[a].item.id # Reported[k].id
               /\ Reported[k].outcome = "complete" => \A i \in proc'.inflight :
                    i.id = Reported[k].id => \A o \in store : ~Hits(i.target, o)
    <3>1. /\ \E i \in proc.inflight : i.id = Reported[k].id
          /\ \A a \in Actors : Works(a) => actors[a].item.id # Reported[k].id
          /\ Reported[k].outcome = "complete" => \A i \in proc.inflight :
               i.id = Reported[k].id => \A o \in store : ~Hits(i.target, o)
      BY DEF IInv, WorkerSide, ResultInv
    <3>2. \A x \in proc.tasks : x.id # Reported[k].id
      BY <1>21, <3>1
    <3>3. \A a \in Actors : Works(a)' => actors'[a].item.id # Reported[k].id
      BY <1>20, <3>1, <3>2
    <3> QED
      BY <1>11, <3>1, <3>2, <3>3
  <2>4. \A j, k \in 1..Len(Reported) : Reported[j].id = Reported[k].id => j = k
    BY DEF IInv, WorkerSide, ResultInv
  <2> QED
    BY <1>1, <2>1, <2>2, <2>3, <2>4 DEF ResultInv
<1> QED
  BY <1>15, <1>16, <1>18, <1>19, <1>22, <1>23 DEF IInv, WorkerSide

\* DROP: a new row for everything below the location of the table.
LEMMA DropStep ==
  ASSUME IInv, NEW s \in Sessions, NEW l \in Locations, DropTable(s, l)
  PROVE  IInv'
<1> DEFINE T == {[op |-> "tree", at |-> l]}
           rows == Enqueued(T)
           txn == [pc |-> "open", op |-> "drop", at |-> l, objects |-> table[l].refs,
                   rows |-> rows, wake |-> TRUE]
<1>1. /\ sessions[s] = IdleSession /\ table[l].live /\ ids' = ids + 1
      /\ \A r \in Sessions : sessions[r] # IdleSession => sessions[r].at # l
      /\ sessions' = [sessions EXCEPT ![s] = txn]
      /\ UNCHANGED <<store, home, table, queue, proc, actors, chan, condemned>>
  BY DEF DropTable, Begin, Busy, threads
<1>2. TypeInv /\ ids \in Nat /\ table[l].refs \in SUBSET Nat
  BY DEF IInv, TypeInv
<1>3. T \in SUBSET Targets /\ IsFiniteSet(T) /\ Cardinality(T) = 1
  <2>1. [op |-> "tree", at |-> l] \in Targets
    BY ZenonT(20) DEF Targets
  <2> QED
    BY <2>1, FS_Singleton
<1>4. /\ rows \in [ids + 1 .. ids + 1 -> Rows]
      /\ \A id \in DOMAIN rows : rows[id].valid /\ rows[id].target \in T
      /\ \A t \in T : \E id \in DOMAIN rows : rows[id].valid /\ rows[id].target = t
  <2> HIDE DEF T
  <2> QED
    BY <1>2, <1>3, EnqueuedRows
<1> HIDE DEF rows
<1>5. /\ DOMAIN rows \in SUBSET Nat /\ \A id \in DOMAIN rows : id = ids + 1
      /\ ids + 1 \notin 1..ids /\ ids + 1 \in 1..(ids + 1) /\ ids <= ids + 1 /\ ids + 1 \in Nat
  <2>1. DOMAIN rows = ids + 1 .. ids + 1
    BY <1>4
  <2> QED
    BY <1>2, <2>1, SMT
<1>6. txn \in Transactions
  <2>1. rows \in UNION {[D -> Rows] : D \in SUBSET Nat}
    BY <1>4, <1>5
  <2> QED
    BY <1>2, <2>1, ZenonT(20) DEF Transactions
<1>7. /\ txn.pc = "open" /\ txn.op = "drop" /\ txn.at = l /\ txn.objects = table[l].refs
      /\ txn.rows = rows
  OBVIOUS
<1> HIDE DEF txn
<1>8. sessions'[s] = txn
  BY <1>1, <1>2, OneSession
<1>9. /\ Open(s, "drop")' /\ ~Open(s, "create")' /\ ~Open(s, "vacuum")' /\ ~Open(s, "retry")'
  BY <1>7, <1>8 DEF Open
<1>10. SessionInv(s)'
  <2>1. \A id \in DOMAIN rows : rows[id].target = [op |-> "tree", at |-> l]
    BY <1>4
  <2>2. \A o \in table[l].refs : home[o] = l
    BY DEF IInv, TableSide, TableInv, At
  <2>3. PICK id \in DOMAIN rows : rows[id].valid /\ rows[id].target = [op |-> "tree", at |-> l]
    BY <1>4
  <2>4. \A o \in table[l].refs : Hits(rows[id].target, o)
    <3>1. rows[id].target.op = "tree" /\ rows[id].target.at = l
      BY <2>3
    <3> QED
      BY <2>2, <3>1 DEF Hits
  <2>5. DropInv(s)'
    BY <1>1, <1>7, <1>8, <2>1 DEF DropInv
  <2>6. PromiseInv(s)'
    <3>1. \A t, o : Hits(t, o)' <=> Hits(t, o)
      BY <1>1 DEF Hits
    <3> QED
      BY <1>7, <1>8, <2>3, <2>4, <3>1 DEF PromiseInv
  <2> QED
    BY <1>9, <2>5, <2>6 DEF SessionInv, CreateInv, VacuumInv, RetryInv
<1>11. FreshInv(s)'
  <2>1. \A id \in DOMAIN rows : id \in 1..ids' /\ id \notin 1..ids
    BY <1>1, <1>5
  <2>2. \A id \in DOMAIN rows : id \notin DOMAIN queue /\ ~Known(id)
    BY <1>2, <2>1 DEF IInv, TypeInv, WorkerSide, ItemInv, Known
  <2>3. \A id : Known(id)' <=> Known(id)
    BY <1>1 DEF Known
  <2> QED
    BY <1>1, <1>7, <1>8, <2>1, <2>2, <2>3 DEF FreshInv
<1> QED
  BY <1>1, <1>2, <1>5, <1>6, <1>7, <1>10, <1>11, OpenStep

\* VACUUM: a new row for every object that the table gives up.
LEMMA VacuumStep ==
  ASSUME IInv, NEW s \in Sessions, NEW l \in Locations, NEW objects \in SUBSET table[l].refs,
         Vacuum(s, l, objects)
  PROVE  IInv'
<1> DEFINE T == {[op |-> "object", at |-> o] : o \in objects}
           f == [o \in objects |-> [op |-> "object", at |-> o]]
           rows == Enqueued(T)
           n == Cardinality(T)
           m == Cardinality(objects)
           txn == [pc |-> "open", op |-> "vacuum", at |-> l, objects |-> objects,
                   rows |-> rows, wake |-> TRUE]
<1>1. /\ sessions[s] = IdleSession /\ table[l].live /\ ids' = ids + m
      /\ \A r \in Sessions : sessions[r] # IdleSession => sessions[r].at # l
      /\ sessions' = [sessions EXCEPT ![s] = txn]
      /\ UNCHANGED <<store, home, table, queue, proc, actors, chan, condemned>>
  BY DEF Vacuum, Begin, Busy, threads
<1>2. TypeInv /\ ids \in Nat /\ table[l].refs \in SUBSET Nat /\ Len(home) \in Nat
  BY SMT DEF IInv, TypeInv
<1>3. objects \in SUBSET (1..Len(home)) /\ objects \in SUBSET Nat
  BY <1>2 DEF IInv, TableSide, TableInv, At
<1>4. IsFiniteSet(objects) /\ m \in Nat
  <2>1. IsFiniteSet(1..Len(home))
    BY <1>2, FS_Interval
  <2> QED
    BY <1>3, <2>1, FS_Subset, FS_CardinalityType
<1>5. T \in SUBSET Targets /\ IsFiniteSet(T) /\ n <= m
  <2>1. ASSUME NEW o \in objects
        PROVE  [op |-> "object", at |-> o] \in Targets
    BY <1>3, ZenonT(20) DEF Targets
  <2>2. f \in Surjection(objects, T)
    BY DEF Surjection
  <2>3. IsFiniteSet(T) /\ n <= m
    BY <1>4, <2>2, FS_Surjection
  <2> QED
    BY <2>1, <2>3
<1>6. /\ n \in Nat /\ rows \in [ids + 1 .. ids + n -> Rows]
      /\ \A id \in DOMAIN rows : rows[id].valid /\ rows[id].target \in T
      /\ \A t \in T : \E id \in DOMAIN rows : rows[id].valid /\ rows[id].target = t
  <2> HIDE DEF T
  <2> QED
    BY <1>2, <1>5, EnqueuedRows
<1> HIDE DEF rows, n, m
<1>7. /\ DOMAIN rows \in SUBSET Nat /\ ids' \in Nat /\ ids <= ids'
      /\ \A id \in DOMAIN rows : id \in 1..ids' /\ id \notin 1..ids
  <2>1. DOMAIN rows = ids + 1 .. ids + n
    BY <1>6
  <2> QED
    BY <1>1, <1>2, <1>4, <1>5, <1>6, <2>1, SMT
<1>8. txn \in Transactions
  <2>1. rows \in UNION {[D -> Rows] : D \in SUBSET Nat}
    BY <1>6, <1>7
  <2> QED
    BY <1>3, <2>1, ZenonT(20) DEF Transactions
<1>9. /\ txn.pc = "open" /\ txn.op = "vacuum" /\ txn.at = l /\ txn.objects = objects
      /\ txn.rows = rows
  OBVIOUS
<1> HIDE DEF txn
<1>10. sessions'[s] = txn
  BY <1>1, <1>2, OneSession
<1>11. /\ ~Open(s, "create")' /\ ~Open(s, "drop")' /\ ~Open(s, "retry")'
  BY <1>9, <1>10 DEF Open
<1>12. SessionInv(s)'
  <2>1. \A id \in DOMAIN rows : rows[id].target.op = "object" /\ rows[id].target.at \in objects
    <3>1. \A t \in T : t.op = "object" /\ t.at \in objects
      BY SMT
    <3> HIDE DEF T
    <3> QED
      BY <1>6, <3>1
  <2>2. ASSUME NEW o \in objects
        PROVE  \E id \in DOMAIN rows : rows[id].valid /\ Hits(rows[id].target, o)
    <3> DEFINE t == [op |-> "object", at |-> o]
    <3>1. t \in T /\ t.op = "object" /\ t.at = o
      OBVIOUS
    <3> HIDE DEF T, t
    <3>2. PICK id \in DOMAIN rows : rows[id].valid /\ rows[id].target = t
      BY <1>6, <3>1
    <3>3. Hits(t, o)
      BY <3>1 DEF Hits
    <3> QED
      BY <3>2, <3>3
  <2>3. VacuumInv(s)'
    BY <1>1, <1>9, <1>10, <2>1 DEF VacuumInv
  <2>4. PromiseInv(s)'
    <3>1. \A t, o : Hits(t, o)' <=> Hits(t, o)
      BY <1>1 DEF Hits
    <3> QED
      BY <1>9, <1>10, <2>2, <3>1 DEF PromiseInv
  <2> QED
    BY <1>11, <2>3, <2>4 DEF SessionInv, CreateInv, DropInv, RetryInv
<1>13. FreshInv(s)'
  <2>1. \A id \in DOMAIN rows : id \notin DOMAIN queue /\ ~Known(id)
    BY <1>2, <1>7 DEF IInv, TypeInv, WorkerSide, ItemInv, Known
  <2>2. \A id : Known(id)' <=> Known(id)
    BY <1>1 DEF Known
  <2> QED
    BY <1>1, <1>7, <1>9, <1>10, <2>1, <2>2 DEF FreshInv
<1> QED
  BY <1>1, <1>2, <1>7, <1>8, <1>9, <1>12, <1>13, OpenStep

-----------------------------------------------------------------------------
(* The theorems.                                                            *)

\* The initial state: an empty queue, or one row that does not decode.
LEMMA InitHolds ==
  ASSUME Init
  PROVE  IInv
<1>1. /\ store = {} /\ home = <<>> /\ condemned = {} /\ proc = NoProc /\ chan = <<>>
      /\ table = [x \in Locations |-> [live |-> FALSE, refs |-> {}]]
      /\ ids = Cardinality(DOMAIN queue)
      /\ sessions = [s \in Sessions |-> IdleSession]
      /\ actors = [a \in Actors |-> IdleActor]
  BY DEF Init
<1>2. PICK l \in Locations :
        queue \in {<<>>, [id \in {1} |-> [NewRow([op |-> "tree", at |-> l]) EXCEPT !.valid = FALSE]]}
  BY DEF Init
<1>3. /\ queue \in [DOMAIN queue -> Rows] /\ DOMAIN queue \in SUBSET (1..ids) /\ ids \in Nat
      /\ \A id \in DOMAIN queue : ~queue[id].valid
  <2>1. CASE queue = <<>>
    <3>1. <<>> \in [{} -> Rows] /\ DOMAIN <<>> = {}
      BY SMT
    <3>2. queue \in [{} -> Rows] /\ DOMAIN queue = {}
      BY <2>1, <3>1
    <3>3. ids = 0
      BY <1>1, <3>2, FS_EmptySet
    <3>4. ids \in Nat
      BY <3>3, SMT
    <3> QED
      BY <3>2, <3>4
  <2>2. CASE queue # <<>>
    <3> DEFINE t == [op |-> "tree", at |-> l]
               row == [NewRow(t) EXCEPT !.valid = FALSE]
    <3>1. queue = [id \in {1} |-> row]
      BY <1>2, <2>2
    <3>2. t \in Targets
      BY ZenonT(20) DEF Targets
    <3>3. 0 \in Nat
      BY SMT
    <3> HIDE DEF t
    <3>4. row \in Rows /\ ~row.valid
      BY <3>2, <3>3, ZenonT(20) DEF Rows, NewRow
    <3> HIDE DEF row
    <3>5. queue \in [{1} -> Rows] /\ DOMAIN queue = {1} /\ queue[1] = row
      BY <3>1, <3>4
    <3>6. ids = 1
      BY <1>1, <3>5, FS_Singleton
    <3>7. ids \in Nat /\ 1 \in 1..ids
      BY <3>6, SMT
    <3> QED
      BY <3>4, <3>5, <3>7
  <2> QED
    BY <2>1, <2>2
<1>4. /\ \A s \in Sessions : sessions[s] = IdleSession /\ (\A op : ~Open(s, op)) /\ ~Enqueues(s)
      /\ IdleSession.pc = "idle"
  BY <1>1 DEF IdleSession, Open, Enqueues
<1>5. /\ proc \in Processes /\ proc.inflight = {} /\ proc.tasks = {} /\ proc.invalid = {}
      /\ proc.pending = <<>> /\ proc.pc = "none"
  <2>1. <<>> \in Seq(Results)
    BY SMT
  <2>2. NoProc \in Processes
    BY <2>1, ZenonT(20) DEF NoProc, Processes, Places, Schedules
  <2> QED
    BY <1>1, <2>2 DEF NoProc
<1>6. /\ actors \in [Actors -> Resting \cup Working] /\ \A a \in Actors : actors[a].pc = "idle"
  <2>1. IdleActor \in Resting /\ IdleActor.pc = "idle"
    BY ZenonT(20) DEF IdleActor, Resting
  <2> QED
    BY <1>1, <2>1
<1>7. \A x \in Locations : ~table[x].live /\ table[x].refs = {}
  BY <1>1
<1>8. TypeInv
  <2>1. home \in Seq(Locations) /\ chan \in Seq(Results)
    BY <1>1, SMT
  <2>2. table \in [Locations -> [live : BOOLEAN, refs : SUBSET Nat]]
    <3>1. [live |-> FALSE, refs |-> {}] \in [live : BOOLEAN, refs : SUBSET Nat]
      BY ZenonT(20)
    <3> QED
      BY <1>1, <3>1
  <2>3. sessions \in [Sessions -> {IdleSession} \cup Transactions]
    BY <1>1
  <2> QED
    BY <1>1, <1>3, <1>5, <1>6, <2>1, <2>2, <2>3 DEF TypeInv
<1>9. TableSide
  <2>1. TableInv /\ QueueInv /\ CoverInv
    BY <1>1, <1>3, <1>7 DEF TableInv, QueueInv, CoverInv
  <2>2. \A s \in Sessions : SessionInv(s) /\ FreshInv(s)
    BY <1>4 DEF SessionInv, FreshInv, CreateInv, DropInv, VacuumInv, RetryInv, PromiseInv
  <2>3. \A r, s \in Sessions : ApartInv(r, s)
    BY <1>4 DEF ApartInv
  <2> QED
    BY <2>1, <2>2, <2>3 DEF TableSide
<1>10. WorkerSide
  <2>1. ItemInv /\ DispatchInv /\ ActorInv
    BY <1>5, <1>6 DEF ItemInv, DispatchInv, ActorInv, Works
  <2>2. ResultInv
    <3>1. Reported = <<>>
      BY <1>1, <1>5, SMT DEF Reported
    <3>2. Len(<<>>) = 0 /\ 1..0 = {}
      BY SMT
    <3> QED
      BY <3>1, <3>2 DEF ResultInv
  <2> QED
    BY <2>1, <2>2 DEF WorkerSide
<1> QED
  BY <1>8, <1>9, <1>10 DEF IInv

\* A step that changes nothing.
LEMMA StutterStep ==
  ASSUME IInv, UNCHANGED vars
  PROVE  IInv'
<1>1. UNCHANGED <<store, tables, queue, actors, chan, proc>>
  BY DEF vars, tables
<1>2. proc \in Processes
  BY DEF IInv, TypeInv
<1>3. proc.pc # "dispatch" => proc.tasks = {} /\ proc.invalid = {}
  BY DEF IInv, WorkerSide, DispatchInv
<1> QED
  BY <1>1, <1>2, <1>3, MoveStep

\* Every step keeps the invariant.
LEMMA NextStep ==
  ASSUME IInv, [Next]_vars
  PROVE  IInv'
<1>1. CASE UNCHANGED vars
  BY <1>1, StutterStep
<1>2. ASSUME NEW s \in Sessions, SessionNext(s) \/ PublishWakeup(s)
      PROVE  IInv'
  <2>1. ASSUME NEW l \in Locations, NEW n \in 1..2, CreateTable(s, l, n)
        PROVE  IInv'
    BY <2>1, CreateStep
  <2>2. ASSUME NEW l \in Locations, DropTable(s, l)
        PROVE  IInv'
    BY <2>2, DropStep
  <2>3. ASSUME NEW l \in Locations, NEW objects \in (SUBSET table[l].refs) \ {{}},
               Vacuum(s, l, objects)
        PROVE  IInv'
    BY <2>3, VacuumStep
  <2>4. ASSUME NEW id \in Item, RetryFailed(s, id)
        PROVE  IInv'
    BY <2>4, RetryStep
  <2>5. ASSUME Commit(s)
        PROVE  IInv'
    BY <2>5, CommitStep
  <2>6. ASSUME Rollback(s) \/ PublishWakeup(s)
        PROVE  IInv'
    BY <2>6, EndStep
  <2> QED
    BY <1>2, <2>1, <2>2, <2>3, <2>4, <2>5, <2>6 DEF SessionNext
<1>3. CASE Launch \/ WorkerStep \/ Reconcile \/ SlotClock
  <2>1. CASE \/ Launch \/ Inspect \/ InspectNext \/ StartActors \/ Applied \/ EndRound \/ Wait
             \/ ShutdownEnds \/ Complete
    BY <2>1, WorkerJumps
  <2>2. CASE Collect \/ DrainCollect
    BY <2>2, CollectStep
  <2>3. CASE ApplyResult
    BY <2>3, ApplyStep
  <2>4. CASE FetchBatch
    BY <2>4, FetchStep
  <2>5. CASE QuarantineInvalid
    BY <2>5, QuarantineStep
  <2>6. CASE Dispatch
    BY <2>6, DispatchStep
  <2>7. CASE RequestShutdown
    BY <2>7, LeaveRound
  <2>8. CASE Exit
    BY <2>8, ExitStep
  <2>9. CASE Reconcile \/ SlotClock
    BY <2>9, SlotSteps
  <2> QED
    BY <1>3, <2>1, <2>2, <2>3, <2>4, <2>5, <2>6, <2>7, <2>8, <2>9 DEF WorkerStep
<1>4. ASSUME NEW a \in Actors, ActorStep(a) \/ RequestFails(a) \/ ActorDies(a)
      PROVE  IInv'
  BY <1>4, ActorSteps
<1>5. ASSUME NEW id \in Item, RowClock(id)
      PROVE  IInv'
  BY <1>5, ClockStep
<1>6. CASE \/ StartupFails \/ ApplyFails \/ DispatchFails \/ DrainFails
           \/ CrashWorker \/ CrashServer \/ StopWorker
  <2>1. CASE StartupFails \/ ApplyFails \/ DrainFails
    BY <2>1, WorkerJumps
  <2>2. CASE DispatchFails
    BY <2>2, LeaveRound
  <2>3. CASE CrashWorker
    BY <2>3, ExitStep
  <2>4. CASE CrashServer
    BY <2>4, RestartStep
  <2>5. CASE StopWorker
    BY <2>5, SlotSteps
  <2> QED
    BY <1>6, <2>1, <2>2, <2>3, <2>4, <2>5
<1> QED
  BY <1>1, <1>2, <1>3, <1>4, <1>5, <1>6 DEF Next, Fault

\* The invariant holds in every reachable state: what the queue, the worker and its
\* actors are about to delete is dead, and what is condemned is queued.
THEOREM InvariantHolds == Spec => []IInv
<1>1. Init => IInv
  BY InitHolds
<1>2. IInv /\ [Next]_vars => IInv'
  BY NextStep
<1> QED
  BY <1>1, <1>2, PTL DEF Spec

\* Nothing that a committed table or a CREATE in progress refers to is ever deleted:
\* not by a rolled-back DROP or VACUUM, nor by an actor that works on an old item.
THEOREM LiveObjects == Spec => []LiveObjectsSurvive
<1>1. IInv => LiveObjectsSurvive
  <2> SUFFICES ASSUME IInv
               PROVE  LiveObjectsSurvive
    OBVIOUS
  <2>1. \A l \in Locations : table[l].refs \subseteq store
    BY DEF IInv, TableSide, TableInv
  <2>2. \A s \in Sessions : Open(s, "create") => sessions[s].objects \subseteq store
    BY DEF IInv, TableSide, SessionInv, CreateInv
  <2> QED
    BY <2>1, <2>2 DEF LiveObjectsSurvive, Open
<1> QED
  BY <1>1, InvariantHolds, PTL

\* An object that a committed DROP or VACUUM gave up is gone, or a row of the queue
\* still stands for it, whatever fails, crashes or is cut short in between.
THEOREM CondemnedQueued == Spec => []CondemnedObjectsAreQueued
<1>1. IInv => CondemnedObjectsAreQueued
  <2> SUFFICES ASSUME IInv, NEW o \in condemned \cap store
               PROVE  \E id \in DOMAIN queue : queue[id].valid /\ o \in Below(queue[id].target)
    BY DEF CondemnedObjectsAreQueued
  <2>1. PICK id \in DOMAIN queue : queue[id].valid /\ Hits(queue[id].target, o)
    BY DEF IInv, TableSide, CoverInv
  <2>2. o \in Below(queue[id].target)
    BY <2>1 DEF Hits, Below
  <2> QED
    BY <2>1, <2>2
<1> QED
  BY <1>1, InvariantHolds, PTL

\* No item is handed to a second actor while one works on it, and the worker counts
\* it as in flight for as long.
THEOREM SingleDispatch == Spec => []NoDoubleDispatch
<1>1. IInv => NoDoubleDispatch
  BY DEF IInv, WorkerSide, ActorInv, Works, NoDoubleDispatch
<1> QED
  BY <1>1, InvariantHolds, PTL
=============================================================================
