-------------------------- MODULE CatalogCommitLoop --------------------------
(***************************************************************************)
(* The commit loop of CatalogCommit, the catalog update of a table in its  *)
(* two halves, and what the loop does after a conflict preserve the        *)
(* inductive invariant: TLAPS proofs.                                      *)
(***************************************************************************)
EXTENDS CatalogCommitInvariant

\* Zenon proves most leaves, SMT the others.
USE Zenon, SMTT(30)

\* Going on with the tables T, when what is staged for the others needs no
\* publication: RequestCommit, and a turn that finds nothing to change.
LEMMA LoopStep ==
  ASSUME IInv, NEW b \in Backend, be[b].pc \in {"open", "loop"}, NEW u \in BackendState,
         be' = [be EXCEPT ![b] = u], NEW T \in SUBSET Table,
         UNCHANGED <<local, now, row, ver, holder, meta, files, txns, run, history>>,
         u.pc \in {"ready", "loop"}, u.pc = "ready" => T = {} /\ u.todo = {},
         u.pc = "loop" => u.tbl \in T /\ u.todo = T \ {u.tbl} /\ u.since = ver[u.tbl],
         u.op = "none", u.retries = 0, u.id = be[b].id, u.plan = be[b].plan,
         u.lock = be[b].lock, u.mine = be[b].mine, u.attempt = be[b].attempt,
         u.promoted = be[b].promoted, u.wakeup = be[b].wakeup,
         \A t \in T : /\ ~NothingStaged(u.plan[t]) /\ ~u.plan[t].dropped
                      /\ Pending(be[b], t),
         \A t \in Table \ T : Pending(be[b], t) =>
                                u.plan[t].dropped \/ ~HasDataChange(u.plan[t])
  PROVE  IInv'
<1> DEFINE s == be[b]
<1>1. TypeInv /\ s \in BackendState /\ BackendInv(b)
  BY DEF IInv, TypeInv
<1>2. /\ be'[b] = u /\ \A c \in Backend : c # b => be'[c] = be[c]
      /\ be' \in [Backend -> BackendState]
  BY <1>1 DEF TypeInv
<1>3. /\ UNCHANGED <<local, now, row, ver, holder, meta, files, txns, run>>
      /\ UNCHANGED <<ideal, published, covered>> /\ Stored' = Stored
  BY DEF history, Stored
<1>4. TypeInv' /\ Quiet(b)
  <2>1. TypeInv'
    BY <1>1, <1>2, <1>3 DEF TypeInv
  <2> QED BY <1>1, <1>2, <1>3, <2>1 DEF Quiet, TypeInv
<1>5. s.attempt = {} /\ Own(b)' = Own(b)
  BY <1>1, <1>2 DEF BackendInv, FileInv, Own
<1>6. \A t \in Table : Pending(u, t) <=> t \in T
  BY DEF Pending, Stating, Publishing
<1>7. ControlInv(b)'
  BY <1>2 DEF ControlInv, Stating, Publishing, Resting
<1>8. \A v \in Table : Visible(b, v)' = Visible(b, v)
  BY <1>2, <1>3 DEF Visible
<1>9. LockInv(b)'
  BY <1>1, <1>2, <1>8 DEF BackendInv, LockInv, Running
<1>10. PlanInv(b)' /\ AttemptInv(b)'
  BY <1>1, <1>2, <1>3 DEF BackendInv, PlanInv, AttemptInv
<1>11. RetryInv(b)'
  <2>1. u.pc = "loop" => ver[u.tbl] \in Nat
    BY <1>1 DEF TypeInv
  <2> QED BY <1>2, <1>3, <2>1, CommitAssumption DEF RetryInv
<1>12. TablesInv(b)'
  <2> SUFFICES ASSUME NEW v \in Table
               PROVE  IF holder[v] = b THEN VersionInv(b, v)' ELSE UnpublishedInv(b, v)'
    BY <1>3 DEF TablesInv
  <2>1. CASE holder[v] = b
    <3>1. VersionInv(b, v)
      BY <1>1, <2>1 DEF BackendInv, TablesInv, Running
    <3>2. CASE Pending(s, v) <=> v \in T
      <4>1. VersionInv(b, v)'
        BY ZenonT(30), <1>2, <1>3, <1>6, <3>1, <3>2 DEF VersionInv
      <4> QED BY <2>1, <4>1
    <3>3. CASE Pending(s, v) /\ v \notin T
      <4>1. CASE s.mine[v].loc = NoLoc
        <5>1. VersionInv(b, v)'
          BY <1>2, <1>3, <3>1, <4>1 DEF VersionInv
        <5> QED BY <2>1, <5>1
      <4>2. CASE s.mine[v].loc # NoLoc
        <5>1. s.plan[v].rebuilt /\ ~s.plan[v].dropped /\ meta[s.mine[v].loc] = NoData
          BY <3>1, <3>3, <4>2 DEF VersionInv
        <5>2. ~s.plan[v].writes
          BY <3>3, <5>1 DEF HasDataChange
        <5>3. Alone(s.plan[v], s.id, ideal[v]) = {}
          BY <5>1, <5>2 DEF Alone
        <5>4. meta[s.mine[v].loc].rows = {} /\ meta[s.mine[v].loc].data = {}
          BY <5>1 DEF NoData
        <5>5. VersionInv(b, v)'
          BY ZenonT(30), <1>2, <1>3, <1>6, <3>1, <3>3, <4>2, <5>3, <5>4 DEF VersionInv
        <5> QED BY <2>1, <5>5
      <4> QED BY <4>1, <4>2
    <3> QED BY <3>2, <3>3
  <2>2. CASE holder[v] # b
    <3>1. UnpublishedInv(b, v)
      BY <1>1, <2>2 DEF BackendInv, TablesInv, Running
    <3>2. UnpublishedInv(b, v)'
      BY <1>2, <1>6, <3>1 DEF UnpublishedInv
    <3> QED BY <2>2, <3>2
  <2> QED BY <2>1, <2>2
<1>13. FileInv(b)' /\ GuardInv(b)'
  BY ZenonT(30), <1>1, <1>2, <1>3, <1>5 DEF BackendInv, FileInv, GuardInv
<1>14. BackendInv(b)'
  BY <1>7, <1>9, <1>10, <1>11, <1>12, <1>13 DEF BackendInv
<1>15. \A c \in Backend, v \in Table : c # b => ~LockConflict(u.lock[v], be[c].lock[v])
  BY DEF IInv, ApartInv
<1>16. HolderInv'
  BY <1>1, <1>2, <1>3, KeepsHolders DEF IInv, InTx, Running
<1>17. FilesInv'
  <2>1. \A c \in Backend : be'[c].attempt = be[c].attempt /\ be'[c].promoted = be[c].promoted
    BY <1>2
  <2> QED BY <1>3, <2>1 DEF IInv, FilesInv
<1>18. DueWorkIsWatched'
  <2>1. Worker \in Backend
    BY DEF Backend
  <2> QED BY <1>1, <1>2, <1>3, <2>1, QuietDue DEF IInv
<1> QED BY <1>2, <1>4, <1>5, <1>14, <1>15, <1>16, <1>17, <1>18, QuietStep

\* Pre-commit begins.
LEMMA RequestCommitStep ==
  ASSUME IInv, NEW b \in Backend, RequestCommit(b), local' = local
  PROVE  IInv'
<1> DEFINE s == be[b]
           T == {t \in Table : ~NothingStaged(s.plan[t]) /\ ~s.plan[t].dropped}
           x == [s EXCEPT !.todo = T]
           u == Onward(x)
<1>1. s \in BackendState /\ ver \in [Table -> Nat] /\ s.pc = "open"
  BY DEF IInv, TypeInv, RequestCommit
<1>2. T \in SUBSET Table
  OBVIOUS
<1>3. /\ x \in BackendState /\ x.todo = T /\ x.id = s.id /\ x.plan = s.plan /\ x.lock = s.lock
      /\ x.mine = s.mine /\ x.attempt = s.attempt /\ x.promoted = s.promoted
      /\ x.wakeup = s.wakeup
  <2> HIDE DEF T
  <2> QED BY <1>1, <1>2 DEF BackendState
<1>4. /\ be' = [be EXCEPT ![b] = u]
      /\ UNCHANGED <<local, now, row, ver, holder, meta, files, txns, run, history>>
  BY DEF RequestCommit, Goes
<1>5. \A t \in Table : Pending(s, t)
  BY <1>1 DEF Pending, Stating
<1>6. /\ \A t \in T : ~NothingStaged(s.plan[t]) /\ ~s.plan[t].dropped
      /\ \A t \in Table \ T : s.plan[t].dropped \/ ~HasDataChange(s.plan[t])
  BY DEF NothingStaged
<1> HIDE DEF T, x
<1>7. /\ u \in BackendState
      /\ u.id = x.id /\ u.plan = x.plan /\ u.lock = x.lock
      /\ u.mine = x.mine /\ u.attempt = x.attempt /\ u.promoted = x.promoted
      /\ u.wakeup = x.wakeup
      /\ u.op = "none" /\ u.retries = 0 /\ u.pc \in {"ready", "loop"}
      /\ u.pc = "ready" => x.todo = {} /\ u.todo = {}
      /\ u.pc = "loop" => u.tbl \in x.todo /\ u.todo = x.todo \ {u.tbl} /\ u.since = ver[u.tbl]
  BY <1>1, <1>3, OnwardFields
<1> HIDE DEF u
<1>8. /\ u.id = s.id /\ u.plan = s.plan /\ u.lock = s.lock /\ u.mine = s.mine
      /\ u.attempt = s.attempt /\ u.promoted = s.promoted /\ u.wakeup = s.wakeup
      /\ u.pc = "ready" => T = {} /\ u.todo = {}
      /\ u.pc = "loop" => u.tbl \in T /\ u.todo = T \ {u.tbl} /\ u.since = ver[u.tbl]
  BY <1>3, <1>7
<1>9. /\ \A t \in T : ~NothingStaged(u.plan[t]) /\ ~u.plan[t].dropped /\ Pending(s, t)
      /\ \A t \in Table \ T : Pending(s, t) => u.plan[t].dropped \/ ~HasDataChange(u.plan[t])
  BY <1>2, <1>5, <1>6, <1>8
<1>10. s.pc \in {"open", "loop"}
  BY <1>1
<1> QED BY <1>2, <1>4, <1>7, <1>8, <1>9, <1>10, LoopStep

\* A turn of the commit loop that leads to a catalog update: the next state u
\* of the backend, and the metadata files N it materializes.
Turn(b, u, N) ==
  LET s == be[b]
  IN  /\ be' = [be EXCEPT ![b] = u]
      /\ UNCHANGED <<local, now, row, ver, holder, txns, run, history>>
      /\ meta' \in Seq(Metadata) /\ Len(meta) <= Len(meta')
      /\ \A n \in 1..Len(meta) : meta'[n] = meta[n]
      /\ N \subseteq 1..Len(meta') /\ N \cap 1..Len(meta) = {} /\ files' = files \cup N
      /\ u.pc = "scan" /\ u.op \in {"cas", "finish"} /\ u.tbl = s.tbl
      /\ u.latest = Visible(b, s.tbl).loc /\ u.retries = s.retries + 1
      /\ s.retries <= MaxRetries /\ u.since = s.since /\ u.id = s.id
      /\ u.plan = s.plan /\ u.lock = s.lock /\ u.mine = s.mine /\ u.todo = s.todo
      /\ u.wakeup = s.wakeup /\ u.attempt = N /\ u.promoted = s.promoted
      /\ u.op = "finish" => u.plan[u.tbl].vacuum /\ N = {}
      /\ u.op = "cas" => /\ N = {u.new}
                         /\ meta'[u.new] = Applied(u.plan[u.tbl], u.id, meta[u.latest])

\* A turn of the commit loop keeps the invariant: what it materialized is its
\* plan applied to the location it read (TableCommitCoordinator::commit).
LEMMA TurnStep ==
  ASSUME IInv, NEW b \in Backend, be[b].pc = "loop", NEW u \in BackendState,
         NEW N \in SUBSET Nat, Turn(b, u, N)
  PROVE  IInv'
<1> DEFINE s == be[b]
           t == be[b].tbl
<1>1. TypeInv /\ s \in BackendState /\ BackendInv(b)
  BY DEF IInv, TypeInv
<1>2. /\ be'[b] = u /\ \A c \in Backend : c # b => be'[c] = be[c]
      /\ be' \in [Backend -> BackendState]
  BY <1>1 DEF TypeInv, Turn
<1>3. /\ UNCHANGED <<local, now, row, ver, holder, txns, run>>
      /\ UNCHANGED <<ideal, published, covered>> /\ Stored' = Stored
  BY DEF Turn, history, Stored
<1>4. /\ u.pc = "scan" /\ u.op \in {"cas", "finish"} /\ u.tbl = t /\ u.id = s.id
      /\ u.plan = s.plan /\ u.lock = s.lock /\ u.mine = s.mine /\ u.todo = s.todo
      /\ u.wakeup = s.wakeup /\ u.attempt = N /\ u.promoted = s.promoted
      /\ u.latest = Visible(b, t).loc
  BY DEF Turn
<1>5. meta' \in Seq(Metadata) /\ files' = files \cup N
  BY DEF Turn
<1>6. /\ Len(meta) <= Len(meta') /\ Len(meta) \in Nat
      /\ Len(meta') \in Nat /\ 1..Len(meta) \subseteq 1..Len(meta')
      /\ \A n \in 1..Len(meta) : meta'[n] = meta[n]
      /\ N \subseteq 1..Len(meta') /\ N \cap 1..Len(meta) = {}
  BY <1>1 DEF Turn, TypeInv
<1>7. TypeInv' /\ Quiet(b)
  <2>1. files' \in SUBSET Nat
    <3>1. files \in SUBSET Nat /\ files' = files \cup N
      BY <1>1, <1>5 DEF TypeInv
    <3> QED BY <3>1
  <2>2. TypeInv'
    BY <1>1, <1>2, <1>3, <1>5, <2>1 DEF TypeInv
  <2> QED BY <1>1, <1>2, <1>3, <1>6, <2>2 DEF Quiet
<1>8. t \in Table /\ u.latest \in 1..Len(meta)
  BY <1>4, LatestExists DEF Running, Publishing
<1>9. s.attempt = {} /\ Own(b)' = Own(b) \cup N
  BY <1>1, <1>2, <1>4 DEF BackendInv, FileInv, Own
<1>10. \A v \in Table : Pending(u, v) <=> Pending(s, v)
  BY <1>4 DEF Pending, Stating, Publishing
<1>11. ControlInv(b)'
  BY <1>1, <1>2, <1>8, <1>4 DEF BackendInv, ControlInv, Stating, Publishing, Resting, Running
<1>12. \A v \in Table : Visible(b, v)' = Visible(b, v)
  BY <1>2, <1>3, <1>4 DEF Visible
<1>13. LockInv(b)'
  BY ZenonT(30), <1>1, <1>2, <1>12, <1>4 DEF BackendInv, LockInv, Running
<1>14. PlanInv(b)'
  BY <1>1, <1>2, <1>4, <1>6 DEF BackendInv, PlanInv
<1>15. AttemptInv(b)'
  <2>1. holder[t] = b => u.mine[t].loc = u.latest
    BY <1>4 DEF Visible
  <2>2. meta'[u.latest] = meta[u.latest] /\ u.latest \in 1..Len(meta')
    BY <1>8, <1>6
  <2>3. /\ u.op = "finish" => u.plan[u.tbl].vacuum
        /\ u.op = "cas" => /\ u.attempt = {u.new} /\ u.new \in 1..Len(meta')
                           /\ meta'[u.new] = Applied(u.plan[u.tbl], u.id, meta[u.latest])
    BY <1>6 DEF Turn
  <2> QED BY ZenonT(30), <1>2, <1>3, <1>4, <2>1, <2>2, <2>3 DEF AttemptInv
<1>16. RetryInv(b)'
  <2>1. s.retries <= ver[t] - s.since /\ s.retries \in Nat /\ s.since \in Nat /\ ver[t] \in Nat
    BY <1>1, <1>8 DEF BackendInv, RetryInv, BackendState, TypeInv
  <2>2. holder[t] # b => row[t].loc = u.latest
    BY <1>4 DEF Visible
  <2>3. /\ u.retries <= MaxRetries + 1 /\ u.retries <= ver[t] - u.since + 1
        /\ ~(holder[t] # b /\ row[t].loc # u.latest)
    <3>1. u.retries = s.retries + 1 /\ s.retries <= MaxRetries /\ u.since = s.since
      BY DEF Turn
    <3> QED BY <2>1, <2>2, <3>1, CommitAssumption
  <2> QED BY <1>2, <1>3, <1>4, <2>3 DEF RetryInv
<1>17. TablesInv(b)'
  <2> SUFFICES ASSUME NEW v \in Table
               PROVE  IF holder[v] = b THEN VersionInv(b, v)' ELSE UnpublishedInv(b, v)'
    BY <1>3 DEF TablesInv
  <2>1. CASE holder[v] = b
    <3>1. VersionInv(b, v)
      BY <1>1, <2>1 DEF BackendInv, TablesInv, Running
    <3>2. s.plan[v].vacuum => s.plan[v].token.loc \in 1..Len(meta)
      BY <1>1 DEF BackendInv, PlanInv
    <3>3. /\ s.mine[v].loc \in 1..Len(meta) => /\ meta'[s.mine[v].loc] = meta[s.mine[v].loc]
                                             /\ s.mine[v].loc \in 1..Len(meta')
          /\ s.plan[v].vacuum => meta'[s.plan[v].token.loc] = meta[s.plan[v].token.loc]
      BY <1>6, <3>2
    <3>4. VersionInv(b, v)'
      BY ZenonT(30), <1>2, <1>3, <1>10, <1>4, <3>1, <3>3 DEF VersionInv
    <3> QED BY <2>1, <3>4
  <2>2. CASE holder[v] # b
    <3>1. UnpublishedInv(b, v)
      BY <1>1, <2>2 DEF BackendInv, TablesInv, Running
    <3>2. UnpublishedInv(b, v)'
      BY <1>2, <1>10, <1>4, <3>1 DEF UnpublishedInv
    <3> QED BY <2>2, <3>2
  <2> QED BY <2>1, <2>2
<1>18. FileInv(b)'
  <2>1. /\ Stored \subseteq 1..Len(meta) /\ Own(b) \cap Stored = {} /\ Own(b) \subseteq 1..Len(meta)
        /\ s.promoted \subseteq Own(b)
    BY <1>1 DEF IInv, FilesInv, BackendInv, FileInv, Own
  <2>2. u.attempt # {} => u.op = "cas"
    BY DEF Turn
  <2>3. N \cap s.promoted = {} /\ (Own(b) \cup N) \cap Stored = {}
    BY <1>6, <2>1
  <2>4. Own(b) \cup N \subseteq 1..Len(meta')
    <3>1. Own(b) \subseteq 1..Len(meta')
      <4> SUFFICES ASSUME NEW n \in Own(b) PROVE n \in 1..Len(meta')
        OBVIOUS
      <4>1. n \in 1..Len(meta)
        BY <2>1
      <4> QED BY <1>6, <4>1
    <3>2. N \subseteq 1..Len(meta')
      BY DEF Turn
    <3> QED BY <3>1, <3>2
  <2> QED BY <1>2, <1>3, <1>9, <1>4, <2>2, <2>3, <2>4 DEF FileInv
<1>19. GuardInv(b)'
  BY <1>1, <1>2, <1>3, <1>4 DEF BackendInv, GuardInv
<1>20. BackendInv(b)'
  BY <1>11, <1>13, <1>14, <1>15, <1>16, <1>17, <1>18, <1>19 DEF BackendInv
<1>21. \A c \in Backend, v \in Table : c # b => ~LockConflict(u.lock[v], be[c].lock[v])
  BY <1>4 DEF IInv, ApartInv
<1>22. HolderInv'
  BY <1>1, <1>2, <1>3, <1>4, KeepsHolders DEF IInv, InTx, Running
<1>23. FilesInv'
  <2>1. \A n : (\E c \in Backend : n \in be'[c].attempt \cup be'[c].promoted) <=>
               n \in N \/ (\E c \in Backend : n \in be[c].attempt \cup be[c].promoted)
    BY <1>2, <1>9, <1>4
  <2>2. \A n : n \in files' <=> n \in files \/ n \in N
    BY <1>5
  <2>3. Stored \subseteq 1..Len(meta') /\ \A c \in run.cands : c.row.loc \in 1..Len(meta')
    BY <1>6 DEF IInv, FilesInv
  <2> QED BY <1>3, <2>1, <2>2, <2>3 DEF IInv, FilesInv
<1>24. DueWorkIsWatched'
  <2>1. Worker \in Backend
    BY DEF Backend
  <2> QED BY <1>1, <1>2, <1>3, <1>4, <2>1, QuietDue DEF IInv
<1>25. \A n \in Own(b)' : n \in Own(b) \/ n \notin 1..Len(meta)
  BY <1>9, <1>6
<1> QED BY <1>2, <1>7, <1>20, <1>21, <1>22, <1>23, <1>24, <1>25, QuietStep

\* One turn of the commit loop, whatever its outcome.
LEMMA AttemptStep ==
  ASSUME IInv, NEW b \in Backend, Attempt(b), local' = local
  PROVE  IInv'
<1> DEFINE s == be[b]
           t == s.tbl
           p == s.plan[t]
           latest == Latest(b)
           tried == [s EXCEPT !.retries = @ + 1, !.latest = latest]
<1>1. /\ TypeInv /\ s \in BackendState /\ BackendInv(b) /\ s.pc = "loop"
      /\ ver \in [Table -> Nat] /\ s.pc \in Running
  BY DEF IInv, TypeInv, Attempt, Running
<1>2. /\ t \in Table /\ latest = Visible(b, t).loc /\ latest \in 1..Len(meta)
      /\ latest \in Nat
  BY <1>1, LatestExists DEF Latest, Publishing, Row
<1>3. s.attempt = {} /\ s.op # "defer"
  BY <1>1 DEF BackendInv, FileInv, ControlInv
<1>4. UNCHANGED <<local, now, row, ver, holder, txns, run, history>>
  BY DEF Attempt
<1> HIDE DEF latest
<1>5. /\ tried \in BackendState /\ tried.retries = s.retries + 1 /\ tried.latest = latest
      /\ tried.tbl = t /\ tried.since = s.since /\ tried.id = s.id /\ tried.plan = s.plan
      /\ tried.lock = s.lock /\ tried.mine = s.mine /\ tried.todo = s.todo
      /\ tried.wakeup = s.wakeup /\ tried.attempt = s.attempt /\ tried.promoted = s.promoted
  <2> DEFINE k == s.retries + 1
  <2>1. s \in BackendState /\ latest \in Nat /\ k \in Nat
    <3>1. s.retries \in Nat
      BY <1>1 DEF BackendState
    <3> QED BY <1>1, <1>2, <3>1
  <2>2. tried = [s EXCEPT !.retries = k, !.latest = latest]
    OBVIOUS
  <2> HIDE DEF k
  <2>3. [s EXCEPT !.retries = k, !.latest = latest] \in BackendState
    BY <2>1 DEF BackendState
  <2>4. tried \in BackendState
    BY <2>2, <2>3
  <2> QED BY <2>1, <2>4 DEF BackendState
<1>6. CASE /\ be' = [be EXCEPT ![b] = Failed(s)]
           /\ UNCHANGED <<meta, files>>
  BY <1>1, <1>3, <1>4, <1>6, FailStep
<1>7. CASE /\ ~OutOfRetries(s)
           /\ meta' = Append(meta, Applied(p, s.id, meta[latest]))
           /\ files' = files \cup {Len(meta')}
           /\ be' = [be EXCEPT ![b] = [tried EXCEPT !.pc = "scan", !.op = "cas",
                                        !.new = Len(meta'), !.attempt = {Len(meta')}]]
  <2> DEFINE u == [tried EXCEPT !.pc = "scan", !.op = "cas", !.new = Len(meta'),
                                !.attempt = {Len(meta')}]
             N == {Len(meta')}
  <2>1. Applied(p, s.id, meta[latest]) \in Metadata
    <3>1. meta[latest] \in Metadata /\ s.id \in Nat
      BY <1>1, <1>2 DEF TypeInv, BackendState
    <3> QED BY <3>1 DEF Applied, Metadata
  <2>2. /\ meta' \in Seq(Metadata) /\ Len(meta') = Len(meta) + 1 /\ Len(meta) \in Nat
        /\ meta'[Len(meta')] = Applied(p, s.id, meta[latest])
        /\ \A n \in 1..Len(meta) : meta'[n] = meta[n]
    BY <1>1, <1>7, <2>1, Appended DEF TypeInv
  <2>3. Len(meta') \in Nat
    BY <2>2
  <2> HIDE DEF tried
  <2>4. u \in BackendState
    BY <1>5, <2>3 DEF BackendState, InTx, Running
  <2>5. /\ u.pc = "scan" /\ u.op = "cas" /\ u.new = Len(meta') /\ u.attempt = N
        /\ u.retries = tried.retries /\ u.latest = tried.latest
        /\ u.tbl = tried.tbl /\ u.since = tried.since /\ u.id = tried.id
        /\ u.plan = tried.plan /\ u.lock = tried.lock /\ u.mine = tried.mine
        /\ u.todo = tried.todo /\ u.wakeup = tried.wakeup /\ u.promoted = tried.promoted
    BY <1>5, <2>3 DEF BackendState
  <2>6. be' = [be EXCEPT ![b] = u] /\ files' = files \cup N
    BY <1>7
  <2> HIDE DEF u
  <2>7. N \in SUBSET Nat /\ N \subseteq 1..Len(meta') /\ N \cap 1..Len(meta) = {}
        /\ Len(meta) <= Len(meta')
    BY <2>2
  <2>8. s.retries <= MaxRetries
    <3>1. s.retries \in Nat /\ MaxRetries \in Nat
      BY <1>1, CommitAssumption DEF BackendState
    <3>2. ~OutOfRetries(s)
      BY <1>7
    <3> QED BY <3>1, <3>2 DEF OutOfRetries
  <2> HIDE DEF N
  <2>9. Turn(b, u, N)
    BY ZenonT(30), <1>2, <1>4, <1>5, <2>2, <2>5, <2>6, <2>7, <2>8 DEF Turn, N
  <2> QED BY <1>1, <2>4, <2>7, <2>9, TurnStep
<1>8. CASE /\ ~OutOfRetries(s) /\ ~HasDataChange(p) /\ p.vacuum
           /\ be' = [be EXCEPT ![b] = [tried EXCEPT !.pc = "scan", !.op = "finish",
                                                    !.new = latest]]
           /\ UNCHANGED <<meta, files>>
  <2> DEFINE u == [tried EXCEPT !.pc = "scan", !.op = "finish", !.new = latest]
  <2> HIDE DEF tried
  <2>1. u \in BackendState
    BY <1>2, <1>5 DEF BackendState, InTx, Running
  <2>2. /\ u.pc = "scan" /\ u.op = "finish" /\ u.attempt = {}
        /\ u.retries = tried.retries /\ u.latest = tried.latest
        /\ u.tbl = tried.tbl /\ u.since = tried.since /\ u.id = tried.id
        /\ u.plan = tried.plan /\ u.lock = tried.lock /\ u.mine = tried.mine
        /\ u.todo = tried.todo /\ u.wakeup = tried.wakeup /\ u.promoted = tried.promoted
    BY <1>3, <1>5 DEF BackendState
  <2>3. be' = [be EXCEPT ![b] = u] /\ files' = files \cup {} /\ meta' = meta
    BY <1>8
  <2> HIDE DEF u
  <2>4. {} \in SUBSET Nat /\ {} \subseteq 1..Len(meta') /\ {} \cap 1..Len(meta) = {}
    OBVIOUS
  <2>5. s.retries <= MaxRetries
    <3>1. s.retries \in Nat /\ MaxRetries \in Nat
      BY <1>1, CommitAssumption DEF BackendState
    <3>2. ~OutOfRetries(s)
      BY <1>8
    <3> QED BY <3>1, <3>2 DEF OutOfRetries
  <2>6. /\ meta' \in Seq(Metadata) /\ Len(meta) <= Len(meta')
        /\ \A n \in 1..Len(meta) : meta'[n] = meta[n]
    BY <1>1, <2>3 DEF TypeInv
  <2>7. Turn(b, u, {})
    BY ZenonT(30), <1>2, <1>4, <1>5, <1>8, <2>2, <2>3, <2>4, <2>5, <2>6 DEF Turn
  <2> QED BY <1>1, <2>1, <2>4, <2>7, TurnStep
<1>9. CASE /\ ~HasDataChange(p)
           /\ be' = [be EXCEPT ![b] = Onward(s)]
           /\ UNCHANGED <<meta, files>>
  <2> DEFINE u == Onward(s)
  <2>1. /\ u \in BackendState
        /\ u.id = s.id /\ u.plan = s.plan /\ u.lock = s.lock
        /\ u.mine = s.mine /\ u.attempt = s.attempt /\ u.promoted = s.promoted
        /\ u.wakeup = s.wakeup
        /\ u.op = "none" /\ u.retries = 0 /\ u.pc \in {"ready", "loop"}
        /\ u.pc = "ready" => s.todo = {} /\ u.todo = {}
        /\ u.pc = "loop" => u.tbl \in s.todo /\ u.todo = s.todo \ {u.tbl} /\ u.since = ver[u.tbl]
    BY <1>1, OnwardFields
  <2>2. /\ be' = [be EXCEPT ![b] = u] /\ s.pc \in {"open", "loop"}
        /\ UNCHANGED <<local, now, row, ver, holder, meta, files, txns, run, history>>
    BY <1>1, <1>4, <1>9
  <2> HIDE DEF u
  <2>3. s.todo \in SUBSET Table
    BY <1>1 DEF BackendState
  <2>4. /\ \A v \in s.todo : ~NothingStaged(u.plan[v]) /\ ~u.plan[v].dropped /\ Pending(s, v)
        /\ \A v \in Table \ s.todo :
             Pending(s, v) => u.plan[v].dropped \/ ~HasDataChange(u.plan[v])
    BY <1>1, <1>9, <2>1, <2>3 DEF BackendInv, ControlInv, Pending, Stating, Publishing
  <2> QED BY <2>1, <2>2, <2>3, <2>4, LoopStep
<1> QED BY <1>6, <1>7, <1>8, <1>9 DEF Attempt, Goes, latest

\* A step between the two halves of a catalog update.
LEMMA SameWorkStep ==
  ASSUME IInv, NEW b \in Backend, be[b].pc \in {"scan", "update"}, NEW u \in BackendState,
         be' = [be EXCEPT ![b] = u], UNCHANGED <<local, now, row, ver, holder, meta, files>>,
         UNCHANGED <<txns, run, ideal, published, covered>>,
         u.pc \in {"scan", "update"}, u.pc = "scan" => u.op # "defer",
         u.op = be[b].op, u.tbl = be[b].tbl, u.id = be[b].id,
         u.plan = be[b].plan, u.lock = be[b].lock, u.mine = be[b].mine, u.todo = be[b].todo,
         u.wakeup = be[b].wakeup, u.attempt = be[b].attempt, u.promoted = be[b].promoted,
         AttemptInv(b)', RetryInv(b)'
  PROVE  IInv'
<1> DEFINE s == be[b]
<1>1. TypeInv /\ s \in BackendState /\ BackendInv(b)
  BY DEF IInv, TypeInv
<1>2. /\ be'[b] = u /\ \A c \in Backend : c # b => be'[c] = be[c]
      /\ be' \in [Backend -> BackendState]
  BY <1>1 DEF TypeInv
<1>3. Stored' = Stored /\ Own(b)' = Own(b)
  BY <1>2 DEF Stored, Own
<1>4. TypeInv' /\ Quiet(b)
  <2>1. TypeInv'
    BY <1>1, <1>2 DEF TypeInv
  <2> QED BY <1>1, <1>2, <2>1 DEF Quiet, TypeInv
<1>5. (Stating(u) <=> Stating(s)) /\ (Publishing(u) <=> Publishing(s))
  BY DEF Stating, Publishing
<1>6. ControlInv(b)'
  BY ZenonT(30), <1>1, <1>2, <1>5 DEF BackendInv, ControlInv, Resting, Running
<1>7. \A v \in Table : Visible(b, v)' = Visible(b, v)
  BY <1>2 DEF Visible
<1>8. LockInv(b)' /\ PlanInv(b)' /\ GuardInv(b)'
  <2>1. LockInv(b) /\ PlanInv(b) /\ GuardInv(b)
    BY <1>1 DEF BackendInv
  <2>2. LockInv(b)'
    BY <1>2, <1>7, <2>1 DEF LockInv, Running
  <2>3. PlanInv(b)' /\ GuardInv(b)'
    BY ZenonT(30), <1>2, <2>1 DEF PlanInv, GuardInv, Running
  <2> QED BY <2>2, <2>3
<1>9. TablesInv(b)'
  <2> SUFFICES ASSUME NEW v \in Table
               PROVE  IF holder[v] = b THEN VersionInv(b, v)' ELSE UnpublishedInv(b, v)'
    BY DEF TablesInv
  <2>1. Pending(u, v) <=> Pending(s, v)
    BY <1>5 DEF Pending
  <2>2. CASE holder[v] = b
    <3>1. VersionInv(b, v)
      BY <1>1, <2>2 DEF BackendInv, TablesInv, Running
    <3>2. VersionInv(b, v)'
      BY <1>2, <1>3, <2>1, <3>1 DEF VersionInv
    <3> QED BY <2>2, <3>2
  <2>3. CASE holder[v] # b
    <3>1. UnpublishedInv(b, v)
      BY <1>1, <2>3 DEF BackendInv, TablesInv, Running
    <3>2. UnpublishedInv(b, v)'
      BY <1>2, <2>1, <3>1 DEF UnpublishedInv
    <3> QED BY <2>3, <3>2
  <2> QED BY <2>2, <2>3
<1>10. FileInv(b)'
  BY <1>1, <1>2, <1>3 DEF BackendInv, FileInv
<1>11. BackendInv(b)'
  BY <1>6, <1>8, <1>9, <1>10 DEF BackendInv
<1>12. \A c \in Backend, v \in Table : c # b => ~LockConflict(u.lock[v], be[c].lock[v])
  BY DEF IInv, ApartInv
<1>13. HolderInv'
  BY <1>1, <1>2, KeepsHolders DEF IInv, InTx, Running
<1>14. FilesInv'
  <2>1. \A c \in Backend : be'[c].attempt = be[c].attempt /\ be'[c].promoted = be[c].promoted
    BY <1>2
  <2> QED BY <1>3, <2>1 DEF IInv, FilesInv
<1>15. DueWorkIsWatched'
  <2>1. Worker \in Backend
    BY DEF Backend
  <2> QED BY <1>2, <2>1, QuietDue DEF IInv
<1> QED BY <1>2, <1>3, <1>4, <1>11, <1>12, <1>13, <1>14, <1>15, QuietStep

\* Deleting files that only b owns.
LEMMA RemoveFiles ==
  ASSUME IInv, NEW b \in Backend, be[b].pc # "committed", NEW R \in SUBSET Own(b),
         \A c \in Backend : c # b => be'[c] = be[c],
         files' = files \ R, meta' = meta, published' = published,
         \A c \in run'.cands : c.row.loc \in 1..Len(meta),
         be'[b].attempt \cup be'[b].promoted = Own(b) \ R
  PROVE  FilesInv'
<1>1. Stored' = Stored /\ Own(b) = be[b].attempt \cup be[b].promoted
  BY DEF Stored, Own
<1>2. R \cap Stored = {}
  BY DEF IInv, BackendInv, FileInv
<1>3. \A c \in Backend : c # b => R \cap (be[c].attempt \cup be[c].promoted) = {}
  <2> SUFFICES ASSUME NEW c \in Backend, c # b
               PROVE  R \cap (be[c].attempt \cup be[c].promoted) = {}
    OBVIOUS
  <2>1. FileInv(c) /\ Own(b) \cap Own(c) = {}
    BY DEF IInv, BackendInv, ApartInv
  <2>2. CASE be[c].pc = "committed"
    <3>1. be[c].attempt = {} /\ be[c].promoted \subseteq Stored
      BY <2>1, <2>2 DEF FileInv, Stored
    <3> QED BY <1>2, <3>1
  <2>3. CASE be[c].pc # "committed"
    BY <2>1, <2>3 DEF Own
  <2> QED BY <2>2, <2>3
<1>4. \A n : (\E c \in Backend : n \in be'[c].attempt \cup be'[c].promoted) <=>
             n \notin R /\ \E c \in Backend : n \in be[c].attempt \cup be[c].promoted
  <2> SUFFICES ASSUME NEW n
               PROVE  (\E c \in Backend : n \in be'[c].attempt \cup be'[c].promoted) <=>
                      n \notin R /\ \E c \in Backend : n \in be[c].attempt \cup be[c].promoted
    OBVIOUS
  <2>1. n \in be'[b].attempt \cup be'[b].promoted <=>
          n \notin R /\ n \in be[b].attempt \cup be[b].promoted
    BY <1>1
  <2>2. \A c \in Backend : c # b =>
          (n \in be'[c].attempt \cup be'[c].promoted <=>
             n \notin R /\ n \in be[c].attempt \cup be[c].promoted)
    BY <1>3
  <2> QED BY <2>1, <2>2
<1>5. \A n : n \in files' <=> n \in files /\ n \notin R
  OBVIOUS
<1> QED BY <1>1, <1>2, <1>4, <1>5 DEF IInv, FilesInv

\* A transaction ends, or the worker goes on: b gives up its tuples, its locks
\* and, unless it committed, its files.
LEMMA RestStep ==
  ASSUME IInv, NEW b \in Backend, NEW r \in Resting,
         be' = [be EXCEPT ![b] = [Idle EXCEPT !.pc = r]],
         UNCHANGED <<local, now, row, ver, meta, txns, history>>,
         \A t \in Table : holder'[t] = IF holder[t] = b THEN Nobody ELSE holder[t],
         holder' \in [Table -> Backend \cup {Nobody}],
         files' = files \ Own(b),
         run' \in [cands : SUBSET [tbl : Table, row : Row], wake : BOOLEAN,
                   deadline : Int, runs : Nat, ignored : Ignored],
         \A c \in run'.cands : c.row.loc \in 1..Len(meta), DueWorkIsWatched'
  PROVE  IInv'
<1> DEFINE s == be[b]
           u == [Idle EXCEPT !.pc = r]
<1>1. TypeInv /\ s \in BackendState /\ BackendInv(b)
  BY DEF IInv, TypeInv
<1>2. u \in BackendState /\ u.pc = r /\ u.attempt = {} /\ u.promoted = {}
  <2>1. u \in BackendState
    BY IdleTyped DEF BackendState
  <2> QED BY <2>1 DEF Idle
<1> HIDE DEF u
<1>3. /\ be'[b] = u /\ \A c \in Backend : c # b => be'[c] = be[c]
      /\ be' \in [Backend -> BackendState]
  BY <1>1, <1>2 DEF TypeInv, u
<1>4. /\ UNCHANGED <<local, now, row, ver, meta, txns>>
      /\ UNCHANGED <<ideal, published, covered>> /\ Stored' = Stored
  BY DEF history, Stored
<1>5. TypeInv'
  <2>1. files' \in SUBSET Nat
    BY <1>1 DEF TypeInv
  <2> QED BY <1>1, <1>3, <1>4, <2>1 DEF TypeInv
<1>6. Quiet(b)
  <2>1. \A c \in Backend : c # Nobody
    BY CommitAssumption DEF Backend
  <2>2. Len(meta) \in Nat
    BY <1>1 DEF TypeInv
  <2> QED BY <1>3, <1>4, <2>1, <2>2 DEF Quiet
<1>7. BackendInv(b)' /\ Own(b)' = {} /\ \A t \in Table : u.lock[t] = 0
  <2>1. be'[b].pc \in Resting /\ be'[b] = [Idle EXCEPT !.pc = be'[b].pc]
    BY <1>2, <1>3 DEF u
  <2> QED BY <1>3, <2>1, RestingInv
<1>8. HolderInv'
  <2> SUFFICES ASSUME NEW t \in Table, holder'[t] # Nobody
               PROVE  be'[holder'[t]].pc \in InTx \cup {"committed"}
    BY DEF HolderInv
  <2>1. holder'[t] = holder[t] /\ holder[t] # b /\ holder[t] \in Backend
    BY <1>1 DEF TypeInv
  <2>2. be[holder[t]].pc \in InTx \cup {"committed"}
    BY <2>1 DEF IInv, HolderInv
  <2> QED BY <1>3, <2>1, <2>2
<1>9. FilesInv'
  <2>1. CASE s.pc # "committed"
    <3>1. be'[b].attempt \cup be'[b].promoted = Own(b) \ Own(b)
      BY <1>2, <1>3
    <3> QED BY <1>3, <1>4, <2>1, <3>1, RemoveFiles
  <2>2. CASE s.pc = "committed"
    <3>1. s.attempt = {} /\ s.promoted \subseteq Stored /\ Own(b) = {}
      BY <1>1, <2>2 DEF BackendInv, FileInv, Own, Stored
    <3>2. \A n : n \in Stored \/ (\E c \in Backend : n \in be'[c].attempt \cup be'[c].promoted) <=>
                 n \in Stored \/ (\E c \in Backend : n \in be[c].attempt \cup be[c].promoted)
      BY <1>2, <1>3, <3>1
    <3>3. \A n : n \in files' <=> n \in files
      BY <3>1
    <3> QED BY <1>4, <3>2, <3>3 DEF IInv, FilesInv
  <2> QED BY <2>1, <2>2
<1>10. \A c \in Backend, t \in Table : c # b => ~LockConflict(u.lock[t], be[c].lock[t])
  BY <1>7 DEF LockConflict
<1> QED BY <1>3, <1>5, <1>6, <1>7, <1>8, <1>9, <1>10, QuietStep

\* A rejected attempt goes back to the top of the commit loop.
LEMMA LoopBackStep ==
  ASSUME IInv, NEW b \in Backend, be[b].pc \in {"scan", "update"},
         be[b].op \in {"cas", "finish"}, NEW u \in BackendState,
         be' = [be EXCEPT ![b] = u], files' = files \ be[b].attempt,
         UNCHANGED <<local, now, row, ver, holder, meta, txns, run>>,
         UNCHANGED <<ideal, published, covered>>,
         u.pc = "loop", u.attempt = {}, u.op = be[b].op, u.tbl = be[b].tbl, u.id = be[b].id,
         u.plan = be[b].plan, u.lock = be[b].lock, u.mine = be[b].mine, u.todo = be[b].todo,
         u.wakeup = be[b].wakeup, u.promoted = be[b].promoted,
         u.retries = be[b].retries, u.since = be[b].since,
         be[b].retries <= ver[be[b].tbl] - be[b].since
  PROVE  IInv'
<1> DEFINE s == be[b]
<1>1. TypeInv /\ s \in BackendState /\ BackendInv(b)
  BY DEF IInv, TypeInv
<1>2. /\ be'[b] = u /\ \A c \in Backend : c # b => be'[c] = be[c]
      /\ be' \in [Backend -> BackendState]
  BY <1>1 DEF TypeInv
<1>3. /\ Stored' = Stored /\ Own(b)' = s.promoted /\ Own(b) = s.attempt \cup s.promoted
      /\ s.attempt \cap s.promoted = {}
  BY <1>1, <1>2 DEF Stored, Own, BackendInv, FileInv
<1>4. TypeInv' /\ Quiet(b)
  <2>1. files' \in SUBSET Nat
    BY <1>1 DEF TypeInv
  <2>2. TypeInv'
    BY <1>1, <1>2, <2>1 DEF TypeInv
  <2> QED BY <1>1, <1>2, <2>2 DEF Quiet, TypeInv
<1>5. Stating(u) = FALSE /\ Stating(s) = FALSE /\ Publishing(u) /\ Publishing(s)
  BY DEF Stating, Publishing
<1>6. ControlInv(b)'
  BY ZenonT(30), <1>1, <1>2, <1>5 DEF BackendInv, ControlInv, Resting, Running
<1>7. \A v \in Table : Visible(b, v)' = Visible(b, v)
  BY <1>2 DEF Visible
<1>8. LockInv(b)' /\ PlanInv(b)' /\ GuardInv(b)'
  <2>1. LockInv(b)'
    BY <1>1, <1>2, <1>7 DEF BackendInv, LockInv, Running
  <2>2. PlanInv(b)'
    BY <1>1, <1>2 DEF BackendInv, PlanInv
  <2>3. GuardInv(b)'
    BY ZenonT(30), <1>1, <1>2 DEF BackendInv, GuardInv
  <2> QED BY <2>1, <2>2, <2>3
<1>9. AttemptInv(b)' /\ RetryInv(b)'
  BY <1>1, <1>2 DEF BackendInv, AttemptInv, RetryInv
<1>10. TablesInv(b)'
  <2> SUFFICES ASSUME NEW v \in Table
               PROVE  IF holder[v] = b THEN VersionInv(b, v)' ELSE UnpublishedInv(b, v)'
    BY DEF TablesInv
  <2>1. Pending(u, v) <=> Pending(s, v)
    BY <1>5 DEF Pending
  <2>2. CASE holder[v] = b
    <3>1. VersionInv(b, v)
      BY <1>1, <2>2 DEF BackendInv, TablesInv, Running
    <3>2. VersionInv(b, v)'
      BY <1>2, <1>3, <2>1, <3>1 DEF VersionInv
    <3> QED BY <2>2, <3>2
  <2>3. CASE holder[v] # b
    <3>1. UnpublishedInv(b, v)
      BY <1>1, <2>3 DEF BackendInv, TablesInv, Running
    <3>2. UnpublishedInv(b, v)'
      BY <1>2, <2>1, <3>1 DEF UnpublishedInv
    <3> QED BY <2>3, <3>2
  <2> QED BY <2>2, <2>3
<1>11. FileInv(b)'
  BY <1>1, <1>2, <1>3 DEF BackendInv, FileInv
<1>12. BackendInv(b)'
  BY <1>6, <1>8, <1>9, <1>10, <1>11 DEF BackendInv
<1>13. \A c \in Backend, v \in Table : c # b => ~LockConflict(u.lock[v], be[c].lock[v])
  BY DEF IInv, ApartInv
<1>14. HolderInv'
  BY <1>1, <1>2, KeepsHolders DEF IInv, InTx, Running
<1>15. FilesInv'
  <2>1. s.attempt \in SUBSET Own(b)
    BY <1>3
  <2>2. be'[b].attempt \cup be'[b].promoted = Own(b) \ s.attempt
    BY <1>2, <1>3
  <2>3. \A c \in run'.cands : c.row.loc \in 1..Len(meta)
    BY DEF IInv, FilesInv
  <2> QED BY <1>2, <2>1, <2>2, <2>3, RemoveFiles
<1>16. DueWorkIsWatched'
  <2>1. Worker \in Backend
    BY DEF Backend
  <2> QED BY <1>2, <2>1, QuietDue DEF IInv
<1>17. \A n \in Own(b)' : n \in Own(b)
  BY <1>3
<1> QED BY <1>2, <1>4, <1>12, <1>13, <1>14, <1>15, <1>16, <1>17, QuietStep

\* What a caller does with a conflict.
LEMMA ConflictStep ==
  ASSUME IInv, NEW b \in Backend, be[b].pc \in {"scan", "update"}, Conflicted(b),
         UNCHANGED <<local, now, row, ver, meta, txns, run, history>>,
         be[b].op \in {"cas", "finish"} => be[b].retries <= ver[be[b].tbl] - be[b].since
  PROVE  IInv'
<1> DEFINE s == be[b]
           u == AfterConflict(s)
<1>1. TypeInv /\ s \in BackendState /\ BackendInv(b)
  BY DEF IInv, TypeInv
<1>2. /\ be' = [be EXCEPT ![b] = u] /\ holder' = holder
      /\ files' = IF s.op = "cas" THEN files \ s.attempt ELSE files
      /\ UNCHANGED <<local, now, row, ver, meta, txns, run>>
      /\ UNCHANGED <<ideal, published, covered>>
  BY DEF Conflicted, Goes, history
<1>3. s.op \in {"cas", "finish", "rebuild", "drop", "defer"} /\ (s.op # "cas" => s.attempt = {})
  BY <1>1 DEF BackendInv, ControlInv, FileInv, BackendState
<1>4. CASE s.op \in {"cas", "finish"}
  <2>1. u = IF s.op = "cas" THEN [s EXCEPT !.pc = "loop", !.attempt = {}]
            ELSE [s EXCEPT !.pc = "loop"]
    BY <1>4 DEF AfterConflict
  <2>2. u \in BackendState
    <3>1. [s EXCEPT !.pc = "loop", !.attempt = {}] \in BackendState
      BY <1>1 DEF BackendState, InTx, Running
    <3>2. [s EXCEPT !.pc = "loop"] \in BackendState
      BY <1>1 DEF BackendState, InTx, Running
    <3> QED BY <2>1, <3>1, <3>2
  <2>3. /\ u.pc = "loop" /\ u.attempt = {} /\ u.op = s.op /\ u.tbl = s.tbl /\ u.id = s.id
        /\ u.plan = s.plan /\ u.lock = s.lock /\ u.mine = s.mine /\ u.todo = s.todo
        /\ u.wakeup = s.wakeup /\ u.promoted = s.promoted /\ u.retries = s.retries
        /\ u.since = s.since
    BY <1>1, <1>3, <1>4, <2>1 DEF BackendState
  <2>4. files' = files \ s.attempt
    BY <1>2, <1>3
  <2> HIDE DEF u
  <2> QED BY <1>2, <1>4, <2>2, <2>3, <2>4, LoopBackStep
<1>5. CASE s.op = "rebuild" /\ s.retries < MaxRetries
  <2>1. u = [s EXCEPT !.pc = "scan", !.retries = @ + 1]
    BY <1>5 DEF AfterConflict
  <2>2. s.retries \in Nat /\ MaxRetries \in Nat
    BY <1>1, CommitAssumption DEF BackendState
  <2>3. u \in BackendState
    <3> DEFINE n == s.retries + 1
    <3>1. n \in Nat
      BY <2>2
    <3> HIDE DEF n
    <3>2. [s EXCEPT !.pc = "scan", !.retries = n] \in BackendState
      BY <1>1, <3>1 DEF BackendState, InTx, Running
    <3> QED BY <2>1, <3>2 DEF n
  <2>4. /\ u.pc = "scan" /\ u.op = s.op /\ u.tbl = s.tbl /\ u.id = s.id /\ u.plan = s.plan
        /\ u.lock = s.lock /\ u.mine = s.mine /\ u.todo = s.todo /\ u.wakeup = s.wakeup
        /\ u.attempt = s.attempt /\ u.promoted = s.promoted /\ u.new = s.new
        /\ u.retries = s.retries + 1
    BY <1>1, <2>1 DEF BackendState
  <2> HIDE DEF u
  <2>5. be'[b] = u
    BY <1>1, <1>2 DEF TypeInv
  <2>6. AttemptInv(b)'
    <3>1. AttemptInv(b) /\ s.pc \in {"scan", "update"}
      BY <1>1 DEF BackendInv
    <3> QED BY ZenonT(30), <1>2, <1>5, <2>4, <2>5, <3>1 DEF AttemptInv
  <2>7. RetryInv(b)'
    BY <1>2, <1>5, <2>2, <2>4, <2>5 DEF RetryInv
  <2>8. files' = files
    BY <1>2, <1>5
  <2> QED BY <1>2, <1>5, <2>3, <2>4, <2>6, <2>7, <2>8, SameWorkStep
<1>6. CASE s.op \in {"rebuild", "drop"} /\ ~(s.op = "rebuild" /\ s.retries < MaxRetries)
  <2>1. be' = [be EXCEPT ![b] = Failed(s)] /\ files' = files
    BY <1>2, <1>6 DEF AfterConflict
  <2>2. s.pc \in Running /\ s.attempt = {} /\ s.op # "defer"
    BY <1>3, <1>6 DEF Running
  <2> QED BY <1>2, <2>1, <2>2, FailStep DEF history
<1>7. CASE s.op = "defer"
  <2>1. be' = [be EXCEPT ![b] = [Idle EXCEPT !.pc = "lock"]]
    BY <1>2, <1>7 DEF AfterConflict
  <2>2. b = Worker /\ s.promoted = {} /\ s.attempt = {} /\ \A v \in Table : holder[v] # b
    BY <1>1, <1>3, <1>7 DEF BackendInv, ControlInv, AttemptInv
  <2>3. Own(b) = {} /\ files' = files \ Own(b)
    BY <1>2, <1>7, <2>2 DEF Own
  <2>4. be'[b] = [Idle EXCEPT !.pc = "lock"] /\ be'[b].pc = "lock"
    BY <1>1, <2>1 DEF TypeInv, Idle
  <2>5. DueWorkIsWatched'
    <3>1. \A c \in Backend : be[c].pc = "committed" => be'[c] = be[c]
      BY <2>1
    <3>2. be'[Worker].pc # "idle"
      BY <2>2, <2>4
    <3> QED BY <1>2, <3>1, <3>2, QuietDue DEF IInv
  <2>6. /\ run' \in [cands : SUBSET [tbl : Table, row : Row], wake : BOOLEAN,
                     deadline : Int, runs : Nat, ignored : Ignored]
        /\ holder' \in [Table -> Backend \cup {Nobody}]
    BY <1>1, <1>2 DEF TypeInv
  <2>7. \A c \in run'.cands : c.row.loc \in 1..Len(meta)
    BY <1>2 DEF IInv, FilesInv
  <2>8. \A t \in Table : holder'[t] = IF holder[t] = b THEN Nobody ELSE holder[t]
    BY <1>2, <2>2
  <2>9. "lock" \in Resting
    BY DEF Resting
  <2> QED BY <1>2, <2>1, <2>3, <2>5, <2>6, <2>7, <2>8, <2>9, RestStep DEF history
<1> QED BY <1>3, <1>4, <1>5, <1>6, <1>7

\* The first half of a catalog update.
LEMMA ScanStep ==
  ASSUME IInv, NEW b \in Backend, Scan(b), UNCHANGED local
  PROVE  IInv'
<1> DEFINE s == be[b]
           t == be[b].tbl
           u == [s EXCEPT !.pc = "update", !.seen = ver[s.tbl]]
<1>1. /\ TypeInv /\ s \in BackendState /\ BackendInv(b) /\ s.pc = "scan"
      /\ UNCHANGED <<local, now, row, ver, meta, txns, run, history>>
  BY DEF IInv, TypeInv, Scan
<1>2. t \in Table /\ ver[t] \in Nat
  BY <1>1 DEF BackendInv, ControlInv, TypeInv
<1>3. CASE s.op \in {"cas", "finish"} /\ Visible(b, t).loc # s.latest
  <2>1. Conflicted(b)
    BY <1>3 DEF Scan
  <2>2. holder[t] # b /\ row[t].loc # s.latest
    BY <1>1, <1>3 DEF Visible, BackendInv, AttemptInv
  <2>3. s.retries <= ver[t] - s.since
    BY <1>1, <1>3, <2>2 DEF BackendInv, RetryInv
  <2> QED BY <1>1, <2>1, <2>3, ConflictStep
<1>4. CASE ~(s.op \in {"cas", "finish"} /\ Visible(b, t).loc # s.latest)
  <2>1. be' = [be EXCEPT ![b] = u] /\ UNCHANGED <<holder, files>>
    BY <1>4 DEF Scan, Goes
  <2>2. u \in BackendState
    BY <1>1, <1>2 DEF BackendState, InTx, Running
  <2>3. /\ u.pc = "update" /\ u.op = s.op /\ u.tbl = s.tbl /\ u.id = s.id /\ u.plan = s.plan
        /\ u.lock = s.lock /\ u.mine = s.mine /\ u.todo = s.todo /\ u.wakeup = s.wakeup
        /\ u.attempt = s.attempt /\ u.promoted = s.promoted /\ u.new = s.new
        /\ u.retries = s.retries /\ u.seen = ver[t] /\ u.latest = s.latest /\ u.since = s.since
    BY <1>1 DEF BackendState
  <2> HIDE DEF u
  <2>4. be'[b] = u
    BY <1>1, <2>1 DEF TypeInv
  <2>5. s.op # "defer"
    BY <1>1 DEF BackendInv, ControlInv
  <2>6. s.op \in {"cas", "finish"} /\ holder[t] # b => row[t].loc = s.latest
    BY <1>4 DEF Visible
  <2>7. AttemptInv(b)'
    <3>1. AttemptInv(b)
      BY <1>1 DEF BackendInv
    <3>2. ver[t] <= ver[t]
      BY <1>2
    <3>3. UNCHANGED <<row, ver, meta, holder>>
      BY <1>1, <2>1
    <3>4. CASE s.op \in {"cas", "finish"}
      BY ZenonT(30), <1>1, <2>3, <2>4, <2>6, <3>1, <3>2, <3>3, <3>4 DEF AttemptInv
    <3>5. CASE s.op \notin {"cas", "finish"}
      BY ZenonT(30), <1>1, <2>3, <2>4, <2>5, <3>1, <3>2, <3>3, <3>5 DEF AttemptInv
    <3> QED BY <3>4, <3>5
  <2>8. RetryInv(b)'
    BY <1>1, <1>2, <2>1, <2>3, <2>4 DEF BackendInv, RetryInv
  <2> QED BY <1>1, <2>1, <2>2, <2>3, <2>7, <2>8, SameWorkStep DEF history
<1> QED BY <1>3, <1>4

-----------------------------------------------------------------------------
(* The second half of a catalog update, which writes the new version of a  *)
(* tuple.                                                                  *)

\* The second half: b's new version is on the tuple of table t, which nobody
\* else holds any more.
LEMMA WriteStep ==
  ASSUME IInv, NEW b \in Backend, be[b].pc = "update", NEW u \in BackendState,
         NEW t \in Table, be' = [be EXCEPT ![b] = u], holder' = [holder EXCEPT ![t] = b],
         holder[t] \in {b, Nobody} \/ be[holder[t]].pc = "committed",
         UNCHANGED <<local, now, row, ver, meta, files, txns, run, history>>,
         u.pc \in Running, u.lock = be[b].lock,
         u.attempt \cup u.promoted = be[b].attempt \cup be[b].promoted, BackendInv(b)'
  PROVE  IInv'
<1> DEFINE s == be[b]
<1>1. TypeInv /\ s \in BackendState
  BY DEF IInv, TypeInv
<1>2. /\ be'[b] = u /\ \A c \in Backend : c # b => be'[c] = be[c]
      /\ be' \in [Backend -> BackendState]
  BY <1>1 DEF TypeInv
<1>3. /\ UNCHANGED <<local, now, row, ver, meta, files, txns, run>>
      /\ UNCHANGED <<ideal, published, covered>> /\ Stored' = Stored
  BY DEF history, Stored
<1>4. /\ holder'[t] = b /\ \A v \in Table : v # t => holder'[v] = holder[v]
      /\ holder' \in [Table -> Backend \cup {Nobody}]
  BY <1>1 DEF TypeInv
<1>5. TypeInv'
  BY <1>1, <1>2, <1>3, <1>4 DEF TypeInv
<1>6. Quiet(b)
  <2>1. \A c \in Backend : c # b /\ be[c].pc # "committed" => holder[t] # c
    BY CommitAssumption DEF Backend
  <2>2. \A c \in Backend, v \in Table :
          c # b /\ be[c].pc # "committed" => (holder'[v] = c <=> holder[v] = c)
    BY <1>4, <2>1
  <2>3. Len(meta) <= Len(meta') /\ \A n \in 1..Len(meta) : meta'[n] = meta[n]
    BY <1>1, <1>3 DEF TypeInv
  <2> QED BY <1>2, <1>3, <2>2, <2>3 DEF Quiet
<1>7. u.pc # "committed" /\ u.pc # "idle" /\ u.pc \in InTx
  BY DEF Running, InTx
<1>8. Own(b)' = Own(b)
  BY <1>2, <1>7 DEF Own
<1>9. HolderInv'
  <2> SUFFICES ASSUME NEW v \in Table, holder'[v] # Nobody
               PROVE  be'[holder'[v]].pc \in InTx \cup {"committed"}
    BY DEF HolderInv
  <2>1. CASE holder'[v] = b
    BY <1>2, <1>7, <2>1
  <2>2. CASE holder'[v] # b
    <3>1. holder'[v] = holder[v] /\ holder[v] \in Backend
      BY <1>1, <1>4, <2>2 DEF TypeInv
    <3> QED BY <1>2, <2>2, <3>1 DEF IInv, HolderInv
  <2> QED BY <2>1, <2>2
<1>10. FilesInv'
  <2>1. \A n : (\E c \in Backend : n \in be'[c].attempt \cup be'[c].promoted) <=>
               (\E c \in Backend : n \in be[c].attempt \cup be[c].promoted)
    BY <1>2
  <2> QED BY <1>3, <2>1 DEF IInv, FilesInv
<1>11. DueWorkIsWatched'
  BY <1>2, <1>3, <1>7, QuietDue DEF IInv
<1>12. \A c \in Backend, v \in Table : c # b => ~LockConflict(u.lock[v], be[c].lock[v])
  BY DEF IInv, ApartInv
<1> QED BY <1>2, <1>5, <1>6, <1>8, <1>9, <1>10, <1>11, <1>12, QuietStep

\* What compare-and-swap is based on: the rows committed transactions left,
\* or nothing at all after a rebuild of the transaction's own.
LEMMA BaseVersion ==
  ASSUME IInv, NEW b \in Backend, be[b].pc = "update", be[b].op \in {"cas", "finish"},
         holder[be[b].tbl] = b \/ ver[be[b].tbl] = be[b].seen
  PROVE  LET s == be[b]
             t == s.tbl
             p == s.plan[t]
             r == Visible(b, t)
         IN  /\ t \in Table /\ s.lock[t] # 0 /\ p \in Plan /\ ~p.dropped /\ t \notin s.todo
             /\ r \in Row /\ r.loc = s.latest /\ r.loc \in 1..Len(meta)
             /\ r.loc \in Stored \cup s.promoted
             /\ r.due \notin {NoDue, row[t].due} => s.wakeup \/ b = Worker
             /\ p.rebuilt => meta[r.loc] = NoData
             /\ ~p.rebuilt => holder[t] # b /\ r = row[t] /\ meta[r.loc].rows = ideal[t]
             /\ r.due = NoDue => meta[r.loc].data \subseteq covered[t]
<1> DEFINE s == be[b]
           t == be[b].tbl
           p == be[b].plan[be[b].tbl]
           r == Visible(b, be[b].tbl)
<1>1. s \in BackendState /\ BackendInv(b) /\ s.pc \in Running /\ Publishing(s)
  BY DEF IInv, TypeInv, Running, Publishing
<1>2. t \in Table /\ s.lock[t] # 0 /\ r \in Row /\ r.loc \in 1..Len(meta)
  BY <1>1, LatestExists
<1>3. p \in Plan /\ ~p.dropped /\ t \notin s.todo
  <2>1. p \in Plan
    BY <1>1, <1>2 DEF BackendState
  <2> QED BY <1>1, <1>2, <2>1 DEF BackendInv, ControlInv
<1>4. r.loc = s.latest
  BY <1>1 DEF Visible, BackendInv, AttemptInv
<1>5. CASE holder[t] = b
  <2>1. VersionInv(b, t) /\ r = s.mine[t] /\ Pending(s, t)
    BY <1>1, <1>2, <1>5 DEF BackendInv, TablesInv, Visible, Pending
  <2>2. r.loc # NoLoc
    BY <1>3, <2>1 DEF VersionInv
  <2>3. p.rebuilt /\ meta[r.loc] = NoData /\ r.due = NoDue
    BY <2>1, <2>2 DEF VersionInv
  <2>4. r.loc \in Stored \cup s.promoted
    BY <2>1, <2>2 DEF VersionInv
  <2>5. meta[r.loc].data \subseteq covered[t]
    BY <2>3 DEF NoData
  <2> QED BY <1>2, <1>3, <1>4, <2>3, <2>4, <2>5
<1>6. CASE holder[t] # b
  <2>1. UnpublishedInv(b, t) /\ r = row[t]
    BY <1>1, <1>2, <1>6 DEF BackendInv, TablesInv, Visible
  <2>2. ~p.rebuilt
    BY <2>1 DEF UnpublishedInv
  <2>3. r.loc # NoLoc
    BY <1>2 DEF NoLoc
  <2>4. /\ r.loc \in Stored /\ meta[r.loc].rows = ideal[t]
        /\ r.due = NoDue => meta[r.loc].data \subseteq covered[t]
    BY <1>2, <2>1, <2>3 DEF IInv, RowInv
  <2> QED BY <1>2, <1>3, <1>4, <1>6, <2>1, <2>2, <2>4
<1> QED BY <1>5, <1>6

\* The version compare-and-swap puts on the tuple: its rows are those of the
\* transaction run alone, and a deadline goes only with work that is done.
LEMMA PublishedVersion ==
  ASSUME IInv, NEW b \in Backend, be[b].pc = "update", be[b].op \in {"cas", "finish"},
         holder[be[b].tbl] = b \/ ver[be[b].tbl] = be[b].seen
  PROVE  LET s == be[b]
             t == s.tbl
             p == s.plan[t]
             r == Visible(b, t)
             n == NewVersion(s, r)
         IN  /\ n \in Row /\ n.loc \in 1..Len(meta)
             /\ n.loc \in Stored \cup s.promoted \cup s.attempt
             /\ n.due \notin {NoDue, row[t].due} =>
                  s.wakeup \/ b = Worker \/ (s.op = "cas" /\ Wakes(s, r.due))
             /\ meta[n.loc].rows = Alone(p, s.id, ideal[t])
             /\ n.due = NoDue =>
                  meta[n.loc].data \subseteq
                    covered[t] \cup (IF p.vacuum THEN meta[p.token.loc].data ELSE {})
<1> DEFINE s == be[b]
           t == be[b].tbl
           p == be[b].plan[be[b].tbl]
           r == Visible(b, be[b].tbl)
           n == NewVersion(s, r)
           d == NewDue(Schedule(s), r.due)
<1>1. s \in BackendState /\ AttemptInv(b) /\ PlanInv(b) /\ meta \in Seq(Metadata)
  BY DEF IInv, TypeInv, BackendInv
<1>2. /\ t \in Table /\ p \in Plan /\ ~p.dropped
      /\ r \in Row /\ r.loc = s.latest /\ r.loc \in 1..Len(meta)
      /\ r.loc \in Stored \cup s.promoted
      /\ r.due \notin {NoDue, row[t].due} => s.wakeup \/ b = Worker
      /\ p.rebuilt => meta[r.loc] = NoData
      /\ ~p.rebuilt => holder[t] # b /\ r = row[t] /\ meta[r.loc].rows = ideal[t]
      /\ r.due = NoDue => meta[r.loc].data \subseteq covered[t]
  BY BaseVersion
<1>3. /\ d = NewDue(Schedule(s), r.due)
      /\ n = [loc |-> IF s.op = "cas" THEN s.new ELSE r.loc, due |-> d]
  BY DEF NewVersion
<1> HIDE DEF r, n, d
<1>4. /\ p.vacuum => ~HasDataChange(p) /\ ~p.rebuilt
      /\ s.op = "finish" => p.vacuum
  BY <1>1, <1>2 DEF PlanInv, AttemptInv
<1>5. s.start + Naptime \in Nat \ {0}
  <2>1. s.start \in Nat /\ Naptime \in Nat \ {0}
    BY <1>1, CommitAssumption DEF BackendState
  <2> QED BY <2>1
<1>6. /\ d \in Nat
      /\ d \notin {NoDue, row[t].due} => s.wakeup \/ b = Worker \/ Wakes(s, r.due)
      /\ HasDataChange(p) => d # NoDue
      /\ ~HasDataChange(p) /\ d = NoDue =>
           r.due = NoDue \/ (p.vacuum /\ p.token.loc = r.loc)
      /\ Wakes(s, r.due) => HasDataChange(p)
  <2>1. r.due \in Nat /\ NoDue = 0
    BY <1>2 DEF Row, NoDue
  <2>2. CASE p.vacuum /\ p.token.loc = r.loc
    <3>1. Schedule(s).op = "complete" /\ ~HasDataChange(p)
      BY <1>2, <1>4, <2>2 DEF Schedule
    <3>2. d \in {NoDue, r.due} /\ ~Wakes(s, r.due)
      BY <1>3, <3>1 DEF NewDue, Wakes, Advances
    <3>3. r.due \notin {NoDue, row[t].due} => s.wakeup \/ b = Worker
      BY <1>2
    <3> QED BY <2>1, <2>2, <3>1, <3>2, <3>3
  <2>3. CASE ~p.vacuum /\ HasDataChange(p)
    <3>1. Schedule(s).op = "no later" /\ Schedule(s).at = s.start + Naptime
      BY <2>3 DEF Schedule
    <3>2. CASE Wakes(s, r.due)
      <4>1. d = s.start + Naptime
        BY <1>3, <3>1, <3>2 DEF NewDue, Wakes
      <4> QED BY <1>5, <2>1, <2>3, <3>2, <4>1
    <3>3. CASE ~Wakes(s, r.due)
      <4>1. d = r.due /\ r.due # NoDue
        BY <1>3, <3>1, <3>3 DEF NewDue, Wakes, Advances
      <4> QED BY <1>2, <2>1, <2>3, <3>3, <4>1
    <3> QED BY <3>2, <3>3
  <2>4. CASE ~(p.vacuum /\ p.token.loc = r.loc) /\ ~(~p.vacuum /\ HasDataChange(p))
    <3>1. Schedule(s).op = "preserve" /\ ~HasDataChange(p)
      BY <1>2, <1>4, <2>4 DEF Schedule
    <3>2. d = r.due /\ ~Wakes(s, r.due)
      BY <1>3, <3>1 DEF NewDue, Wakes, Advances
    <3> QED BY <1>2, <2>1, <3>1, <3>2
  <2> QED BY <2>2, <2>3, <2>4
<1>7. CASE s.op = "cas"
  <2>1. /\ s.new \in 1..Len(meta) /\ s.new \in s.attempt
        /\ meta[s.new] = Applied(p, s.id, meta[r.loc])
    BY <1>1, <1>2, <1>7 DEF AttemptInv
  <2>2. n \in Row
    <3>1. n = [loc |-> s.new, due |-> d] /\ s.new \in Nat
      BY <1>1, <1>3, <1>7 DEF BackendState
    <3> QED BY <1>6, <3>1 DEF Row
  <2>3. /\ meta[s.new].rows = Alone(p, s.id, ideal[t])
        /\ meta[s.new].data = IF HasDataChange(p) THEN meta[r.loc].data \cup {s.id}
                              ELSE meta[r.loc].data
    <3> DEFINE base == meta[r.loc]
    <3>1. /\ p.rebuilt => base.rows = {}
          /\ ~p.rebuilt => base.rows = ideal[t]
      BY <1>2 DEF NoData
    <3> HIDE DEF base
    <3>2. meta[s.new] = Applied(p, s.id, base)
      BY <2>1 DEF base
    <3>3. Applied(p, s.id, base).rows = Alone(p, s.id, ideal[t])
      BY <3>1 DEF Applied, Alone
    <3>4. Applied(p, s.id, base).data =
            IF HasDataChange(p) THEN base.data \cup {s.id} ELSE base.data
      BY DEF Applied
    <3> QED BY <3>2, <3>3, <3>4 DEF base
  <2>4. n.due = NoDue => meta[n.loc].data \subseteq
                    covered[t] \cup (IF p.vacuum THEN meta[p.token.loc].data ELSE {})
    BY <1>2, <1>3, <1>6, <1>7, <2>3
  <2>5. /\ n.loc = s.new /\ n.due = d
        /\ n.due \notin {NoDue, row[t].due} =>
             s.wakeup \/ b = Worker \/ (s.op = "cas" /\ Wakes(s, r.due))
    BY <1>3, <1>6, <1>7
  <2> QED BY <2>1, <2>2, <2>3, <2>4, <2>5 DEF r, n
<1>8. CASE s.op = "finish"
  <2>1. ~HasDataChange(p) /\ ~p.rebuilt /\ p.vacuum
    BY <1>4, <1>8
  <2>2. n \in Row
    <3>1. n = [loc |-> r.loc, due |-> d] /\ r.loc \in Nat
      BY <1>2, <1>3, <1>8 DEF Row
    <3> QED BY <1>6, <3>1 DEF Row
  <2>3. meta[r.loc].rows = Alone(p, s.id, ideal[t])
    BY <1>2, <2>1 DEF Alone, HasDataChange
  <2>4. n.due = NoDue => meta[n.loc].data \subseteq
                    covered[t] \cup (IF p.vacuum THEN meta[p.token.loc].data ELSE {})
    BY <1>2, <1>3, <1>6, <1>8, <2>1
  <2>5. /\ n.loc = r.loc /\ n.due = d
        /\ n.due \notin {NoDue, row[t].due} => s.wakeup \/ b = Worker
    BY <1>3, <1>6, <1>8, <2>1
  <2> QED BY <1>2, <2>2, <2>3, <2>4, <2>5 DEF r, n
<1> QED BY <1>7, <1>8

\* Compare-and-swap succeeded: backend b goes on as u, with version r on the
\* tuple of the table it published.
Published(b, u, r) ==
  LET s == be[b]
      t == s.tbl
      p == s.plan[t]
  IN  /\ be'[b] = u /\ holder' = [holder EXCEPT ![t] = b]
      /\ UNCHANGED <<row, ver, meta, ideal, published, covered>>
      /\ t \in Table /\ s.lock[t] # 0 /\ t \notin s.todo /\ ~p.dropped
      /\ u.op = "none" /\ u.retries = 0 /\ u.pc \in {"ready", "loop"} /\ u.attempt = {}
      /\ u.pc = "ready" => s.todo = {} /\ u.todo = {}
      /\ u.pc = "loop" => /\ u.tbl \in s.todo /\ u.todo = s.todo \ {u.tbl}
                          /\ u.since = ver[u.tbl]
      /\ u.id = s.id /\ u.plan = s.plan /\ u.lock = s.lock /\ (s.wakeup => u.wakeup)
      /\ u.mine = [s.mine EXCEPT ![t] = r] /\ u.promoted = s.promoted \cup s.attempt
      /\ r.loc \in 1..Len(meta) /\ r.loc \in Stored \cup u.promoted
      /\ r.due \notin {NoDue, row[t].due} => u.wakeup \/ b = Worker
      /\ meta[r.loc].rows = Alone(p, s.id, ideal[t])
      /\ r.due = NoDue =>
           meta[r.loc].data \subseteq
             covered[t] \cup (IF p.vacuum THEN meta[p.token.loc].data ELSE {})

\* The backend's own part of the invariant after compare-and-swap succeeded.
LEMMA PublishedInv ==
  ASSUME IInv, NEW b \in Backend, be[b].pc = "update", be[b].op \in {"cas", "finish"},
         NEW u \in BackendState, NEW r \in Row, Published(b, u, r)
  PROVE  BackendInv(b)'
<1> DEFINE s == be[b]
           t == be[b].tbl
<1>1. /\ s \in BackendState /\ BackendInv(b) /\ holder \in [Table -> Backend \cup {Nobody}]
      /\ meta \in Seq(Metadata) /\ ver \in [Table -> Nat]
  BY DEF IInv, TypeInv
<1>2. s.todo \in SUBSET Table /\ s.mine \in [Table -> Row]
  BY <1>1 DEF BackendState
<1>3. /\ be'[b] = u /\ row' = row /\ ver' = ver /\ meta' = meta /\ ideal' = ideal
      /\ covered' = covered /\ published' = published /\ Stored' = Stored
      /\ t \in Table /\ s.lock[t] # 0 /\ t \notin s.todo /\ ~s.plan[t].dropped
  BY DEF Published, Stored
<1>4. /\ u.op = "none" /\ u.retries = 0 /\ u.pc \in {"ready", "loop"} /\ u.attempt = {}
      /\ u.pc = "ready" => s.todo = {} /\ u.todo = {}
      /\ u.pc = "loop" => /\ u.tbl \in s.todo /\ u.todo = s.todo \ {u.tbl}
                          /\ u.since = ver[u.tbl]
      /\ u.id = s.id /\ u.plan = s.plan /\ u.lock = s.lock
      /\ u.promoted = s.promoted \cup s.attempt
  BY DEF Published
<1>5. u.mine[t] = r /\ \A v \in Table : v # t => u.mine[v] = s.mine[v]
  BY <1>2, <1>3 DEF Published
<1>6. holder'[t] = b /\ \A v \in Table : v # t => holder'[v] = holder[v]
  BY <1>1, <1>3 DEF Published
<1>7. r.loc # NoLoc
  <2>1. r.loc \in 1..Len(meta)
    BY DEF Published
  <2>2. Len(meta) \in Nat
    BY <1>1
  <2> QED BY <2>1, <2>2 DEF NoLoc
<1>8. /\ ~Stating(u) /\ ~Stating(s) /\ Publishing(s) /\ (Publishing(u) <=> u.pc = "loop")
      /\ \A v \in Table : (v \in u.todo \/ (Publishing(u) /\ v = u.tbl)) <=> v \in s.todo
  <2>1. ~Stating(u) /\ ~Stating(s) /\ Publishing(s) /\ (Publishing(u) <=> u.pc = "loop")
    BY <1>4 DEF Stating, Publishing
  <2> QED BY <1>2, <1>4, <2>1
<1>9. /\ ~Pending(u, t) /\ Pending(s, t)
      /\ \A v \in Table : v # t => (Pending(u, v) <=> Pending(s, v))
  BY <1>3, <1>8 DEF Pending
<1>10. ControlInv(b)'
  <2>1. \A v \in s.todo : ~NothingStaged(s.plan[v]) /\ ~s.plan[v].dropped
    BY <1>1, <1>2 DEF BackendInv, ControlInv
  <2> QED BY <1>2, <1>3, <1>4, <1>8, <2>1 DEF ControlInv, Resting
<1>11. LockInv(b)'
  <2>1. LockInv(b)
    BY <1>1 DEF BackendInv
  <2>2. \A v \in Table : Visible(b, v)'.loc # NoLoc \/ Visible(b, v)' = Visible(b, v)
    <3> SUFFICES ASSUME NEW v \in Table
                 PROVE  Visible(b, v)'.loc # NoLoc \/ Visible(b, v)' = Visible(b, v)
      OBVIOUS
    <3>1. CASE v = t
      <4>1. Visible(b, v)' = r
        BY <1>3, <1>5, <1>6, <3>1 DEF Visible
      <4> QED BY <1>7, <4>1
    <3>2. CASE v # t
      <4>1. u.mine[v] = s.mine[v]
        BY <1>5, <3>2
      <4>2. holder'[v] = b <=> holder[v] = b
        BY <1>6, <3>2
      <4>3. be'[b] = u /\ row' = row
        BY <1>3
      <4> QED BY <4>1, <4>2, <4>3 DEF Visible
    <3> QED BY <3>1, <3>2
  <2>3. s.pc \in Running /\ s.pc # "committed" /\ u.pc \notin {"scan", "update"}
    BY <1>4 DEF Running
  <2>4. be'[b] = u /\ u.plan = s.plan /\ u.lock = s.lock
    BY <1>3, <1>4
  <2> QED BY ZenonT(30), <2>1, <2>2, <2>3, <2>4 DEF LockInv
<1>12. PlanInv(b)' /\ AttemptInv(b)'
  <2>1. PlanInv(b)'
    BY <1>1, <1>3, <1>4 DEF BackendInv, PlanInv
  <2>2. AttemptInv(b)'
    BY <1>3, <1>4 DEF AttemptInv
  <2> QED BY <2>1, <2>2
<1>13. RetryInv(b)'
  <2>1. u.pc = "loop" => ver[u.tbl] \in Nat
    BY <1>1, <1>2, <1>4
  <2>2. MaxRetries \in Nat
    BY CommitAssumption
  <2> QED BY <1>3, <1>4, <2>1, <2>2 DEF RetryInv
<1>14. TablesInv(b)'
  <2> SUFFICES ASSUME NEW v \in Table
               PROVE  IF holder'[v] = b THEN VersionInv(b, v)' ELSE UnpublishedInv(b, v)'
    BY DEF TablesInv
  <2>1. CASE v = t
    <3>1. /\ r.loc \in 1..Len(meta) /\ r.loc \in Stored \cup u.promoted
          /\ r.due \notin {NoDue, row[v].due} => u.wakeup \/ b = Worker
          /\ meta[r.loc].rows = Alone(s.plan[v], s.id, ideal[v])
          /\ r.due = NoDue =>
               meta[r.loc].data \subseteq
                 covered[v] \cup (IF s.plan[v].vacuum THEN meta[s.plan[v].token.loc].data ELSE {})
      BY <2>1 DEF Published
    <3>2. u.mine[v] = r /\ ~s.plan[v].dropped /\ s.lock[v] # 0 /\ ~Pending(u, v)
      BY <1>3, <1>5, <1>9, <2>1
    <3>3. VersionInv(b, v)'
      BY <1>3, <1>4, <1>7, <3>1, <3>2 DEF VersionInv
    <3> QED BY <1>6, <2>1, <3>3
  <2>2. CASE v # t /\ holder[v] = b
    <3>1. VersionInv(b, v)
      BY <1>1, <2>2 DEF BackendInv, TablesInv, Running
    <3>2. u.mine[v] = s.mine[v] /\ (Pending(u, v) <=> Pending(s, v)) /\ (s.wakeup => u.wakeup)
      BY <1>5, <1>9, <2>2 DEF Published
    <3>3. VersionInv(b, v)'
      BY ZenonT(30), <1>3, <1>4, <3>1, <3>2 DEF VersionInv
    <3> QED BY <1>6, <2>2, <3>3
  <2>3. CASE v # t /\ holder[v] # b
    <3>1. UnpublishedInv(b, v)
      BY <1>1, <2>3 DEF BackendInv, TablesInv, Running
    <3>2. UnpublishedInv(b, v)'
      BY <1>3, <1>4, <1>9, <2>3, <3>1 DEF UnpublishedInv
    <3> QED BY <1>6, <2>3, <3>2
  <2> QED BY <2>1, <2>2, <2>3
<1>15. FileInv(b)'
  <2>1. Own(b)' = Own(b)
    BY <1>3, <1>4 DEF Own
  <2> QED BY <1>1, <1>3, <1>4, <2>1 DEF BackendInv, FileInv
<1>16. GuardInv(b)'
  <2>1. GuardInv(b)
    BY <1>1 DEF BackendInv
  <2> QED BY ZenonT(30), <1>3, <1>4, <1>6, <2>1 DEF GuardInv
<1> QED BY <1>10, <1>11, <1>12, <1>13, <1>14, <1>15, <1>16 DEF BackendInv


\* Compare-and-swap, or completing a VACUUM, finds the version it expects: the
\* transaction owns the new version and goes on with the next table.
LEMMA PublishStep ==
  ASSUME IInv, NEW b \in Backend, Update(b), UNCHANGED local,
         be[b].op \in {"cas", "finish"},
         holder[be[b].tbl] = b \/ ver[be[b].tbl] = be[b].seen
  PROVE  IInv'
<1> DEFINE s == be[b]
           t == be[b].tbl
           r == Visible(b, be[b].tbl)
           n == NewVersion(be[b], Visible(b, be[b].tbl))
           k == be[b].wakeup \/ Wakes(be[b], Visible(b, be[b].tbl).due)
           f == be[b].promoted \cup be[b].attempt
           w == IF s.op = "cas" THEN [s EXCEPT !.promoted = f, !.attempt = {}, !.wakeup = k]
                ELSE s
           o == Onward(w)
           u == [o EXCEPT !.mine[t] = n]
<1>1. /\ s.pc = "update" /\ s \in BackendState /\ BackendInv(b)
      /\ ver \in [Table -> Nat]
  BY DEF Update, IInv, TypeInv
<1>2. /\ t \in Table /\ t \notin s.todo /\ ~s.plan[t].dropped /\ s.lock[t] # 0
      /\ s.op = "finish" => s.attempt = {}
  <2>1. s.pc \in Running /\ Publishing(s)
    BY <1>1 DEF Running, Publishing
  <2>2. ControlInv(b) /\ FileInv(b)
    BY <1>1 DEF BackendInv
  <2> QED BY <2>1, <2>2, LatestExists DEF ControlInv, FileInv
<1>3. /\ n \in Row /\ n.loc \in 1..Len(meta)
      /\ n.loc \in Stored \cup s.promoted \cup s.attempt
      /\ n.due \notin {NoDue, row[t].due} =>
           s.wakeup \/ b = Worker \/ (s.op = "cas" /\ Wakes(s, r.due))
      /\ meta[n.loc].rows = Alone(s.plan[t], s.id, ideal[t])
      /\ n.due = NoDue =>
           meta[n.loc].data \subseteq
             covered[t] \cup (IF s.plan[t].vacuum THEN meta[s.plan[t].token.loc].data ELSE {})
  BY <1>1, PublishedVersion
<1>4. /\ be' = [be EXCEPT ![b] = u] /\ holder' = [holder EXCEPT ![t] = b]
      /\ UNCHANGED <<local, now, row, ver, meta, files, txns, run, history>>
      /\ holder[t] \in {b, Nobody} \/ be[holder[t]].pc = "committed"
  <2>1. AfterUpdate(s, r.due) = o
    BY DEF AfterUpdate
  <2> QED BY <2>1 DEF Update, Goes, MustWait
<1> HIDE DEF r, n
<1>5. /\ w \in BackendState /\ w.id = s.id /\ w.plan = s.plan /\ w.lock = s.lock
      /\ w.mine = s.mine /\ w.todo = s.todo /\ w.promoted = f /\ w.attempt = {}
      /\ s.wakeup => w.wakeup
      /\ s.op = "cas" /\ Wakes(s, r.due) => w.wakeup
  <2>1. k \in BOOLEAN /\ f \in SUBSET Nat
    <3>1. s.promoted \in SUBSET Nat /\ s.attempt \in SUBSET Nat
      BY <1>1 DEF BackendState
    <3> QED BY <3>1
  <2>2. (s.wakeup => k) /\ (Wakes(s, r.due) => k)
    BY DEF r
  <2>3. CASE s.op = "cas"
    <3> HIDE DEF k, f
    <3>1. w = [s EXCEPT !.promoted = f, !.attempt = {}, !.wakeup = k]
      BY <2>3
    <3>2. [s EXCEPT !.promoted = f, !.attempt = {}, !.wakeup = k] \in BackendState
      BY <1>1, <2>1 DEF BackendState
    <3>3. /\ w.id = s.id /\ w.plan = s.plan /\ w.lock = s.lock /\ w.mine = s.mine
          /\ w.todo = s.todo /\ w.promoted = f /\ w.attempt = {} /\ w.wakeup = k
      BY <1>1, <3>1 DEF BackendState
    <3> QED BY <2>2, <3>1, <3>2, <3>3
  <2>4. CASE s.op = "finish"
    <3>1. w = s /\ f = s.promoted /\ s.attempt = {}
      BY <1>2, <2>4
    <3> QED BY <1>1, <2>4, <3>1
  <2> QED BY <2>3, <2>4
<1> HIDE DEF k, f, w
<1>6. /\ o \in BackendState
      /\ o.id = w.id /\ o.plan = w.plan /\ o.lock = w.lock
      /\ o.mine = w.mine /\ o.attempt = w.attempt /\ o.promoted = w.promoted
      /\ o.wakeup = w.wakeup
      /\ o.op = "none" /\ o.retries = 0 /\ o.pc \in {"ready", "loop"}
      /\ o.pc = "ready" => w.todo = {} /\ o.todo = {}
      /\ o.pc = "loop" => o.tbl \in w.todo /\ o.todo = w.todo \ {o.tbl} /\ o.since = ver[o.tbl]
  BY <1>1, <1>5, OnwardFields
<1> HIDE DEF o
<1>7. /\ u \in BackendState /\ u.mine = [o.mine EXCEPT ![t] = n]
      /\ u.pc = o.pc /\ u.id = o.id /\ u.plan = o.plan /\ u.lock = o.lock
      /\ u.attempt = o.attempt /\ u.promoted = o.promoted /\ u.wakeup = o.wakeup
      /\ u.op = o.op /\ u.retries = o.retries /\ u.todo = o.todo /\ u.tbl = o.tbl
      /\ u.since = o.since
  <2>1. [o.mine EXCEPT ![t] = n] \in [Table -> Row]
    BY <1>2, <1>3, <1>6 DEF BackendState
  <2> QED BY <1>6, <2>1 DEF BackendState
<1> HIDE DEF u
<1>8. be'[b] = u
  <2>1. be \in [Backend -> BackendState]
    BY DEF IInv, TypeInv
  <2> QED BY <1>4, <2>1
<1>9. Published(b, u, n)
  <2>1. UNCHANGED <<row, ver, meta, ideal, published, covered>>
    BY <1>4 DEF history
  <2>2. /\ u.op = "none" /\ u.retries = 0 /\ u.pc \in {"ready", "loop"} /\ u.attempt = {}
        /\ u.pc = "ready" => s.todo = {} /\ u.todo = {}
        /\ u.pc = "loop" => /\ u.tbl \in s.todo /\ u.todo = s.todo \ {u.tbl}
                            /\ u.since = ver[u.tbl]
        /\ u.id = s.id /\ u.plan = s.plan /\ u.lock = s.lock /\ (s.wakeup => u.wakeup)
        /\ u.mine = [s.mine EXCEPT ![t] = n] /\ u.promoted = f
        /\ s.op = "cas" /\ Wakes(s, r.due) => u.wakeup
    BY <1>5, <1>6, <1>7
  <2>3. f = s.promoted \cup s.attempt
    BY DEF f
  <2>4. /\ n.loc \in Stored \cup u.promoted
        /\ n.due \notin {NoDue, row[t].due} => u.wakeup \/ b = Worker
    BY <1>3, <2>2, <2>3
  <2> QED BY <1>2, <1>3, <1>4, <1>8, <2>1, <2>2, <2>3, <2>4 DEF Published
<1>10. BackendInv(b)'
  BY <1>1, <1>3, <1>7, <1>9, PublishedInv
<1>11. /\ u.pc \in Running /\ u.lock = s.lock
       /\ u.attempt \cup u.promoted = s.attempt \cup s.promoted
  BY <1>5, <1>6, <1>7 DEF Running, f
<1> QED BY <1>1, <1>2, <1>4, <1>7, <1>10, <1>11, WriteStep


\* A statement that rebuilds or drops its table wrote version r of its tuple,
\* stages plan q and goes on as u.
Rewritten(b, u, q, r) ==
  LET s == be[b]
      t == s.tbl
  IN  /\ u.plan = [s.plan EXCEPT ![t] = q] /\ u.mine = [s.mine EXCEPT ![t] = r]
      /\ u.pc = "open" /\ u.op = s.op /\ u.lock = s.lock /\ u.todo = s.todo
      /\ u.retries = s.retries /\ u.wakeup = s.wakeup
      /\ u.attempt = s.attempt /\ u.promoted = s.promoted
      /\ ~q.vacuum /\ (r.loc = NoLoc <=> q.dropped) /\ r.due = NoDue
      /\ q.guard \in {NoLoc, s.plan[t].guard}
      /\ r.loc # NoLoc => /\ r.loc \in 1..Len(meta) /\ r.loc \in s.promoted
                          /\ meta[r.loc] = NoData /\ q.rebuilt
      /\ be' = [be EXCEPT ![b] = u] /\ holder' = [holder EXCEPT ![t] = b]
      /\ holder[t] \in {b, Nobody} \/ be[holder[t]].pc = "committed"
      /\ UNCHANGED <<local, now, row, ver, meta, files, txns, run, history>>

\* A statement that rebuilds or drops a table keeps the invariant.
LEMMA RewriteStep ==
  ASSUME IInv, NEW b \in Backend, be[b].pc = "update", be[b].op \in {"rebuild", "drop"},
         NEW q \in Plan, NEW r \in Row, NEW u \in BackendState, Rewritten(b, u, q, r)
  PROVE  IInv'
<1> DEFINE s == be[b]
           t == be[b].tbl
<1>1. /\ s \in BackendState /\ BackendInv(b) /\ be \in [Backend -> BackendState]
      /\ holder \in [Table -> Backend \cup {Nobody}]
  BY DEF IInv, TypeInv
<1>2. be'[b] = u /\ t \in Table
  BY <1>1 DEF Rewritten, BackendInv, ControlInv
<1>3. /\ row' = row /\ ver' = ver /\ meta' = meta /\ ideal' = ideal /\ covered' = covered
      /\ published' = published /\ Stored' = Stored
  BY DEF Rewritten, history, Stored
<1>4. u.plan[t] = q /\ \A v \in Table : v # t => u.plan[v] = s.plan[v]
  <2>1. s.plan \in [Table -> Plan]
    BY <1>1 DEF BackendState
  <2> QED BY <1>2, <2>1 DEF Rewritten
<1>5. u.mine[t] = r /\ \A v \in Table : v # t => u.mine[v] = s.mine[v]
  <2>1. s.mine \in [Table -> Row]
    BY <1>1 DEF BackendState
  <2> QED BY <1>2, <2>1 DEF Rewritten
<1>6. holder'[t] = b /\ \A v \in Table : v # t => holder'[v] = holder[v]
  BY <1>1, <1>2 DEF Rewritten
<1>7. /\ u.pc = "open" /\ u.op = s.op /\ u.lock = s.lock /\ u.todo = s.todo
      /\ u.retries = s.retries /\ u.wakeup = s.wakeup
      /\ u.attempt = s.attempt /\ u.promoted = s.promoted
  BY DEF Rewritten
<1>8. /\ ~q.vacuum /\ (r.loc = NoLoc <=> q.dropped) /\ r.due = NoDue
      /\ q.guard \in {NoLoc, s.plan[t].guard}
      /\ r.loc # NoLoc => /\ r.loc \in 1..Len(meta) /\ r.loc \in s.promoted
                          /\ meta[r.loc] = NoData /\ q.rebuilt
  BY DEF Rewritten
<1>9. /\ Stating(s) /\ Stating(u) /\ ~Publishing(u) /\ s.todo = {} /\ s.pc \in Running
      /\ u.pc \in Running
  BY <1>1, <1>7 DEF Stating, Publishing, BackendInv, ControlInv, Running
<1>10. \A v \in Table : Pending(s, v) /\ Pending(u, v)
  BY <1>9 DEF Pending
<1>11. ControlInv(b)'
  BY <1>2, <1>7, <1>9 DEF ControlInv, Resting
<1>12. LockInv(b) /\ s.lock[t] = AccessExclusive /\ AccessExclusive # 0
  BY <1>1, <1>2 DEF BackendInv, LockInv, AccessExclusive
<1>13. LockInv(b)'
  <2> SUFFICES ASSUME NEW v \in Table
               PROVE  /\ u.plan[v] # NoPlan => u.lock[v] # 0
                      /\ u.plan[v].guard # NoLoc => u.lock[v] = AccessExclusive
                      /\ u.lock[v] # 0 /\ ~u.plan[v].dropped => Visible(b, v)'.loc # NoLoc
    BY <1>2, <1>7 DEF LockInv
  <2>1. CASE v = t
    <3>1. u.plan[v] = q /\ u.mine[v] = r /\ u.lock[v] = AccessExclusive /\ holder'[v] = b
      BY <1>4, <1>5, <1>6, <1>7, <1>12, <2>1
    <3>2. Visible(b, v)' = r
      BY <1>2, <3>1 DEF Visible
    <3> QED BY <1>8, <1>12, <3>1, <3>2
  <2>2. CASE v # t
    <3>1. u.plan[v] = s.plan[v] /\ u.lock[v] = s.lock[v]
      BY <1>4, <1>7, <2>2
    <3>2. u.mine[v] = s.mine[v] /\ holder'[v] = holder[v]
      BY <1>5, <1>6, <2>2
    <3>3. Visible(b, v)' = Visible(b, v)
      BY <1>2, <1>3, <3>2 DEF Visible
    <3>4. s.pc # "committed"
      OBVIOUS
    <3> QED BY <1>9, <1>12, <3>1, <3>3, <3>4 DEF LockInv
  <2> QED BY <2>1, <2>2
<1>14. PlanInv(b)'
  <2>1. PlanInv(b)
    BY <1>1 DEF BackendInv
  <2> QED BY <1>2, <1>3, <1>4, <1>8, <2>1 DEF PlanInv
<1>15. AttemptInv(b)' /\ RetryInv(b)'
  <2>1. s.retries <= MaxRetries + 1
    BY <1>1 DEF BackendInv, RetryInv
  <2> QED BY <1>2, <1>7, <2>1 DEF AttemptInv, RetryInv
<1>16. TablesInv(b)'
  <2> SUFFICES ASSUME NEW v \in Table
               PROVE  IF holder'[v] = b THEN VersionInv(b, v)' ELSE UnpublishedInv(b, v)'
    BY DEF TablesInv
  <2>1. CASE v = t
    <3>1. u.plan[v] = q /\ u.mine[v] = r /\ u.lock[v] = AccessExclusive
      BY <1>4, <1>5, <1>7, <1>12, <2>1
    <3>2. VersionInv(b, v)'
      BY ZenonT(30), <1>2, <1>3, <1>7, <1>8, <1>10, <1>12, <3>1 DEF VersionInv
    <3> QED BY <1>6, <2>1, <3>2
  <2>2. CASE v # t /\ holder[v] = b
    <3>1. VersionInv(b, v)
      BY <1>1, <1>9, <2>2 DEF BackendInv, TablesInv
    <3>2. u.plan[v] = s.plan[v] /\ u.mine[v] = s.mine[v]
      BY <1>4, <1>5, <2>2
    <3>3. VersionInv(b, v)'
      BY ZenonT(30), <1>2, <1>3, <1>7, <1>10, <3>1, <3>2 DEF VersionInv
    <3> QED BY <1>6, <2>2, <3>3
  <2>3. CASE v # t /\ holder[v] # b
    <3>1. UnpublishedInv(b, v)
      BY <1>1, <1>9, <2>3 DEF BackendInv, TablesInv
    <3>2. u.plan[v] = s.plan[v]
      BY <1>4, <2>3
    <3>3. UnpublishedInv(b, v)'
      BY <1>2, <1>10, <3>1, <3>2 DEF UnpublishedInv
    <3> QED BY <1>6, <2>3, <3>3
  <2> QED BY <2>1, <2>2, <2>3
<1>17. FileInv(b)'
  <2>1. Own(b)' = Own(b)
    BY <1>2, <1>7 DEF Own
  <2>2. FileInv(b) /\ s.attempt = {}
    BY <1>1 DEF BackendInv, FileInv
  <2> QED BY <1>2, <1>3, <1>7, <2>1, <2>2 DEF FileInv
<1>18. GuardInv(b)'
  <2>1. GuardInv(b)
    BY <1>1 DEF BackendInv
  <2> QED BY ZenonT(30), <1>2, <1>3, <1>4, <1>6, <1>7, <1>8, <2>1 DEF GuardInv
<1>19. BackendInv(b)'
  BY <1>11, <1>13, <1>14, <1>15, <1>16, <1>17, <1>18 DEF BackendInv
<1>20. /\ be' = [be EXCEPT ![b] = u] /\ holder' = [holder EXCEPT ![t] = b]
       /\ holder[t] \in {b, Nobody} \/ be[holder[t]].pc = "committed"
       /\ UNCHANGED <<local, now, row, ver, meta, files, txns, run, history>>
  BY DEF Rewritten
<1> QED BY <1>2, <1>7, <1>9, <1>19, <1>20, WriteStep


\* The worker postpones the maintenance of a table (defer_maintenance).
LEMMA DeferredStep ==
  ASSUME IInv, NEW b \in Backend, Update(b), UNCHANGED local, be[b].op = "defer",
         holder[be[b].tbl] = b \/ ver[be[b].tbl] = be[b].seen
  PROVE  IInv'
<1> DEFINE s == be[b]
           t == be[b].tbl
           d == be[b].start + Naptime
           r == [loc |-> row[be[b].tbl].loc, due |-> be[b].start + Naptime]
           u == [s EXCEPT !.pc = "ready", !.mine[t] = r]
<1>1. /\ s.pc = "update" /\ s \in BackendState /\ be \in [Backend -> BackendState]
      /\ holder \in [Table -> Backend \cup {Nobody}] /\ row \in [Table -> Row]
      /\ ControlInv(b) /\ LockInv(b) /\ AttemptInv(b) /\ RetryInv(b) /\ FileInv(b)
  BY DEF Update, IInv, TypeInv, BackendInv
<1>2. /\ t \in Table /\ b = Worker /\ s.plan = Idle.plan /\ s.promoted = {}
      /\ s.todo = {} /\ s.attempt = {}
  BY <1>1 DEF ControlInv, FileInv
<1>3. (\A v \in Table : holder[v] # b) /\ row[t].loc # NoLoc
  BY <1>1, <1>2 DEF AttemptInv
<1>4. d \in Nat \ {0} /\ row[t].loc \in Nat /\ row[t] \in Row
  <2>1. s.start \in Nat /\ Naptime \in Nat \ {0}
    BY <1>1, CommitAssumption DEF BackendState
  <2>2. d \in Nat \ {0}
    BY <2>1
  <2> QED BY <1>1, <1>2, <2>2 DEF Row
<1>5. /\ be' = [be EXCEPT ![b] = u] /\ holder' = [holder EXCEPT ![t] = b]
      /\ UNCHANGED <<local, now, row, ver, meta, files, txns, run, history>>
      /\ holder[t] \in {b, Nobody} \/ be[holder[t]].pc = "committed"
  <2>1. AfterUpdate(s, Visible(b, t).due) = [s EXCEPT !.pc = "ready"]
    BY DEF AfterUpdate
  <2>2. NewVersion(s, Visible(b, t)) = r
    BY <1>2, <1>3 DEF NewVersion, Visible
  <2>3. holder' = [holder EXCEPT ![t] = b]
        /\ be' = [be EXCEPT ![b] = [AfterUpdate(s, Visible(b, t).due) EXCEPT
                                      !.mine[t] = NewVersion(s, Visible(b, t))]]
    BY DEF Update, Goes
  <2>4. u = [[s EXCEPT !.pc = "ready"] EXCEPT !.mine[t] = r]
    BY <1>1 DEF BackendState
  <2> QED BY <2>1, <2>2, <2>3, <2>4 DEF Update, MustWait
<1>6. r \in Row /\ r.loc = row[t].loc /\ r.due = d
  BY <1>4 DEF Row
<1> HIDE DEF r, d
<1>7. /\ u \in BackendState /\ u.pc = "ready" /\ u.mine = [s.mine EXCEPT ![t] = r]
      /\ u.op = s.op /\ u.plan = s.plan /\ u.lock = s.lock /\ u.todo = s.todo
      /\ u.retries = s.retries /\ u.attempt = s.attempt /\ u.promoted = s.promoted
  <2>1. [s.mine EXCEPT ![t] = r] \in [Table -> Row]
    BY <1>1, <1>2, <1>6 DEF BackendState
  <2> QED BY <1>1, <2>1 DEF BackendState, InTx, Running
<1> HIDE DEF u
<1>8. /\ be'[b] = u /\ row' = row /\ meta' = meta /\ ideal' = ideal /\ covered' = covered
      /\ Stored' = Stored
  BY <1>1, <1>5 DEF history, Stored
<1>9. holder'[t] = b /\ \A v \in Table : v # t => holder'[v] = holder[v]
  BY <1>1, <1>2, <1>5
<1>10. u.mine[t] = r
  <2>1. s.mine \in [Table -> Row]
    BY <1>1 DEF BackendState
  <2> QED BY <1>2, <1>7, <2>1
<1>11. \A v \in Table : s.plan[v] = NoPlan
  BY <1>2, IdleTyped
<1>12. ControlInv(b)'
  BY <1>2, <1>7, <1>8 DEF ControlInv, Stating, Publishing, Resting
<1>13. LockInv(b)'
  <2> SUFFICES ASSUME NEW v \in Table
               PROVE  u.lock[v] # 0 => Visible(b, v)'.loc # NoLoc
    BY <1>7, <1>8, <1>11, IdleTyped DEF LockInv
  <2>1. CASE v = t
    BY <1>3, <1>6, <1>8, <1>9, <1>10, <2>1 DEF Visible
  <2>2. CASE v # t
    <3>1. Visible(b, v)' = Visible(b, v)
      BY <1>3, <1>8, <1>9, <2>2 DEF Visible
    <3>2. s.lock[v] # 0 => Visible(b, v).loc # NoLoc
      BY <1>1, <1>11, IdleTyped DEF LockInv, Running
    <3> QED BY <1>7, <3>1, <3>2
  <2> QED BY <2>1, <2>2
<1>14. PlanInv(b)' /\ GuardInv(b)'
  BY ZenonT(30), <1>7, <1>8, <1>11, IdleTyped DEF PlanInv, GuardInv
<1>15. AttemptInv(b)' /\ RetryInv(b)'
  <2>1. s.retries <= MaxRetries + 1
    BY <1>1 DEF RetryInv
  <2> QED BY <1>7, <1>8, <2>1 DEF AttemptInv, RetryInv
<1>16. TablesInv(b)'
  <2>1. \A v \in Table : ~Pending(u, v)
    BY <1>2, <1>7 DEF Pending, Stating, Publishing
  <2>2. /\ r.loc \in Stored /\ r.loc \in 1..Len(meta) /\ meta[r.loc].rows = ideal[t]
    BY <1>2, <1>3, <1>6 DEF IInv, RowInv, FilesInv
  <2>3. r.loc # NoLoc /\ r.due # NoDue
    BY <1>3, <1>4, <1>6 DEF NoDue
  <2> SUFFICES ASSUME NEW v \in Table
               PROVE  IF holder'[v] = b THEN VersionInv(b, v)' ELSE UnpublishedInv(b, v)'
    BY DEF TablesInv
  <2>4. u.plan[v] = NoPlan
    BY <1>7, <1>11
  <2>5. CASE v = t
    <3>1. Alone(NoPlan, u.id, ideal[v]) = ideal[v]
      BY IdleTyped DEF Alone
    <3>2. u.mine[v] = r /\ r.loc = row[v].loc
      BY <1>6, <1>10, <2>5
    <3>3. VersionInv(b, v)'
      BY ZenonT(30), <1>2, <1>8, <2>1, <2>2, <2>3, <2>4, <2>5, <3>1, <3>2, IdleTyped
         DEF VersionInv
    <3> QED BY <1>9, <2>5, <3>3
  <2>6. CASE v # t
    <3>1. UnpublishedInv(b, v)'
      BY <1>8, <2>4, IdleTyped DEF UnpublishedInv, HasDataChange
    <3> QED BY <1>3, <1>9, <2>6, <3>1
  <2> QED BY <2>5, <2>6
<1>17. FileInv(b)'
  BY <1>2, <1>7, <1>8 DEF FileInv, Own
<1>18. BackendInv(b)'
  BY <1>12, <1>13, <1>14, <1>15, <1>16, <1>17 DEF BackendInv
<1>19. u.pc \in Running
  BY <1>7 DEF Running
<1> QED BY <1>1, <1>2, <1>5, <1>7, <1>18, <1>19, WriteStep


\* The second half of a catalog update keeps the invariant.
LEMMA UpdateStep ==
  ASSUME IInv, NEW b \in Backend, Update(b), UNCHANGED local
  PROVE  IInv'
<1> DEFINE s == be[b]
           t == be[b].tbl
<1>1. /\ s.pc = "update" /\ s \in BackendState /\ s.op # "none"
      /\ ControlInv(b) /\ LockInv(b) /\ AttemptInv(b) /\ RetryInv(b)
      /\ UNCHANGED <<local, now, row, ver, meta, txns, run, history>>
  BY DEF Update, IInv, TypeInv, BackendInv, ControlInv
<1>2. t \in Table
  BY <1>1 DEF ControlInv
<1>3. CASE holder[t] # b /\ ver[t] # s.seen
  <2>1. Conflicted(b)
    BY <1>3 DEF Update
  <2>2. ASSUME s.op \in {"cas", "finish"} PROVE s.retries <= ver[t] - s.since
    <3>1. ver[t] \in Nat
      BY <1>2 DEF IInv, TypeInv
    <3>2. s.seen \in Nat /\ s.since \in Nat /\ s.retries \in Nat
      BY <1>1 DEF BackendState
    <3>3. s.seen <= ver[t] /\ s.retries <= s.seen - s.since + 1
      BY <1>1, <2>2 DEF AttemptInv, RetryInv
    <3> QED BY <1>3, <3>1, <3>2, <3>3
  <2> QED BY <1>1, <2>1, <2>2, ConflictStep
<1>4. CASE ~(holder[t] # b /\ ver[t] # s.seen)
  <2>1. holder[t] = b \/ ver[t] = s.seen
    BY <1>4
  <2>2. CASE s.op \in {"cas", "finish"}
    BY <2>1, <2>2, PublishStep
  <2>3. CASE s.op = "defer"
    BY <2>1, <2>3, DeferredStep
  <2>4. /\ holder' = [holder EXCEPT ![t] = b] /\ UNCHANGED files
        /\ be' = [be EXCEPT ![b] = [AfterUpdate(s, Visible(b, t).due) EXCEPT
                                      !.mine[t] = NewVersion(s, Visible(b, t))]]
        /\ holder[t] \in {b, Nobody} \/ be[holder[t]].pc = "committed"
    BY <1>4 DEF Update, Goes, MustWait
  <2>5. s.plan \in [Table -> Plan] /\ s.mine \in [Table -> Row] /\ s.new \in Nat
    BY <1>1 DEF BackendState
  <2>6. CASE s.op = "rebuild"
    <3> DEFINE q == [NoPlan EXCEPT !.rebuilt = TRUE]
               r == [loc |-> be[b].new, due |-> NoDue]
               u == [s EXCEPT !.pc = "open", !.plan[t] = q, !.mine[t] = r]
    <3>1. /\ q \in Plan /\ ~q.vacuum /\ ~q.dropped /\ q.rebuilt /\ q.guard = NoLoc
      BY IdleTyped DEF Plan
    <3>2. r \in Row /\ r.loc = s.new /\ r.due = NoDue
      BY <2>5 DEF Row, NoDue
    <3>3. s.new \in 1..Len(meta) /\ s.new \in s.promoted /\ meta[s.new] = NoData
      BY <1>1, <2>6 DEF AttemptInv
    <3>4. s.new # NoLoc
      BY <3>3 DEF NoLoc
    <3>5. be' = [be EXCEPT ![b] = u]
      <4>1. AfterUpdate(s, Visible(b, t).due) = [s EXCEPT !.pc = "open", !.plan[t] = q]
        BY <2>6 DEF AfterUpdate
      <4>2. NewVersion(s, Visible(b, t)) = r
        BY <2>6 DEF NewVersion
      <4>3. u = [[s EXCEPT !.pc = "open", !.plan[t] = q] EXCEPT !.mine[t] = r]
        BY <1>1 DEF BackendState
      <4> QED BY <2>4, <4>1, <4>2, <4>3
    <3> HIDE DEF q, r
    <3>6. /\ u \in BackendState /\ u.plan = [s.plan EXCEPT ![t] = q]
          /\ u.mine = [s.mine EXCEPT ![t] = r]
          /\ u.pc = "open" /\ u.op = s.op /\ u.lock = s.lock /\ u.todo = s.todo
          /\ u.retries = s.retries /\ u.wakeup = s.wakeup
          /\ u.attempt = s.attempt /\ u.promoted = s.promoted
      <4>1. [s.plan EXCEPT ![t] = q] \in [Table -> Plan] /\ [s.mine EXCEPT ![t] = r] \in [Table -> Row]
        BY <1>2, <2>5, <3>1, <3>2
      <4> QED BY <1>1, <4>1 DEF BackendState, InTx, Running
    <3> HIDE DEF u
    <3>7. Rewritten(b, u, q, r)
      BY <1>1, <2>4, <3>1, <3>2, <3>3, <3>4, <3>5, <3>6 DEF Rewritten
    <3> QED BY <1>1, <2>6, <3>1, <3>2, <3>6, <3>7, RewriteStep
  <2>7. CASE s.op = "drop"
    <3> DEFINE q == [be[b].plan[be[b].tbl] EXCEPT !.dropped = TRUE]
               u == [s EXCEPT !.pc = "open", !.plan[t] = q, !.mine[t] = NoRow]
    <3>1. NoRow \in Row /\ NoRow.loc = NoLoc /\ NoRow.due = NoDue
      BY IdleTyped DEF NoRow
    <3>2. s.plan[t] \in Plan /\ ~s.plan[t].vacuum
      BY <1>1, <1>2, <2>5, <2>7 DEF LockInv
    <3>3. q \in Plan /\ q.vacuum = s.plan[t].vacuum /\ q.dropped /\ q.guard = s.plan[t].guard
      BY <3>2 DEF Plan
    <3>4. be' = [be EXCEPT ![b] = u]
      <4>1. AfterUpdate(s, Visible(b, t).due) = [s EXCEPT !.pc = "open", !.plan[t].dropped = TRUE]
        BY <2>7 DEF AfterUpdate
      <4>2. NewVersion(s, Visible(b, t)) = NoRow
        BY <2>7 DEF NewVersion
      <4>3. u = [[s EXCEPT !.pc = "open", !.plan[t].dropped = TRUE] EXCEPT !.mine[t] = NoRow]
        BY <1>1 DEF BackendState
      <4> QED BY <2>4, <4>1, <4>2, <4>3
    <3> HIDE DEF q
    <3>5. /\ u \in BackendState /\ u.plan = [s.plan EXCEPT ![t] = q]
          /\ u.mine = [s.mine EXCEPT ![t] = NoRow]
          /\ u.pc = "open" /\ u.op = s.op /\ u.lock = s.lock /\ u.todo = s.todo
          /\ u.retries = s.retries /\ u.wakeup = s.wakeup
          /\ u.attempt = s.attempt /\ u.promoted = s.promoted
      <4>1. /\ [s.plan EXCEPT ![t] = q] \in [Table -> Plan]
            /\ [s.mine EXCEPT ![t] = NoRow] \in [Table -> Row]
        BY <1>2, <2>5, <3>1, <3>3
      <4> QED BY <1>1, <4>1 DEF BackendState, InTx, Running
    <3> HIDE DEF u
    <3>6. Rewritten(b, u, q, NoRow)
      BY <1>1, <2>4, <3>1, <3>2, <3>3, <3>4, <3>5 DEF Rewritten
    <3> QED BY <1>1, <2>7, <3>1, <3>3, <3>5, <3>6, RewriteStep
  <2>8. s.op \in {"cas", "finish", "rebuild", "drop", "defer"}
    BY <1>1 DEF BackendState
  <2> QED BY <2>2, <2>3, <2>6, <2>7, <2>8
<1> QED BY <1>3, <1>4
=============================================================================
