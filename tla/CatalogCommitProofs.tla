------------------------- MODULE CatalogCommitProofs -------------------------
(***************************************************************************)
(* The safety invariants of CatalogCommit hold for any number of clients   *)
(* and tables, any retry limit and any bounds: TLAPS proofs.               *)
(*                                                                         *)
(* The inductive invariant IInv is in CatalogCommitInvariant.  The end of  *)
(* a transaction, the maintenance worker and the initial state are here,   *)
(* and the theorems.                                                       *)
(***************************************************************************)
EXTENDS CatalogCommitLoop, FiniteSetTheorems

\* Zenon proves most leaves, SMT the others.
USE Zenon, SMTT(30)

-----------------------------------------------------------------------------
(* The commit.                                                             *)

\* What the commit of b changes in the catalog and in the history of table t.
LEMMA CommitTable ==
  ASSUME IInv, NEW b \in Backend, Commit(b), NEW t \in Table
  PROVE  /\ holder[t] = b => /\ row'[t] = be[b].mine[t] /\ ver'[t] = ver[t] + 1
                             /\ VersionInv(b, t)
         /\ holder[t] # b => row'[t] = row[t] /\ ver'[t] = ver[t] /\ ideal'[t] = ideal[t]
         /\ ideal'[t] = Alone(be[b].plan[t], be[b].id, ideal[t])
         /\ covered'[t] = covered[t] \cup (IF be[b].plan[t].vacuum
                                           THEN meta[be[b].plan[t].token.loc].data ELSE {})
         /\ ~Pending(be[b], t) /\ ver[t] \in Nat
<1> DEFINE s == be[b]
<1>1. s.pc = "ready" /\ BackendInv(b) /\ TypeInv
  BY DEF Commit, IInv
<1>2. ~Pending(s, t)
  BY <1>1 DEF BackendInv, ControlInv, Pending, Stating, Publishing
<1>3. IF holder[t] = b THEN VersionInv(b, t) ELSE UnpublishedInv(b, t)
  BY <1>1 DEF BackendInv, TablesInv, Running
<1>4. /\ row'[t] = IF holder[t] = b THEN s.mine[t] ELSE row[t]
      /\ ver'[t] = IF holder[t] = b THEN ver[t] + 1 ELSE ver[t]
  BY DEF Commit
<1>5. ideal'[t] = Alone(s.plan[t], s.id, ideal[t])
  BY DEF Commit
<1>6. covered'[t] = IF s.plan[t].vacuum THEN covered[t] \cup meta[s.plan[t].token.loc].data
                    ELSE covered[t]
  BY DEF Commit
<1>7. holder[t] # b => ideal'[t] = ideal[t]
  BY <1>2, <1>3, <1>5 DEF UnpublishedInv, HasDataChange, Alone
<1>8. ver[t] \in Nat
  BY <1>1 DEF TypeInv
<1> QED BY <1>2, <1>3, <1>4, <1>5, <1>6, <1>7, <1>8

\* The commit of b and the state of every backend.
LEMMA CommitBackends ==
  ASSUME IInv, NEW b \in Backend, Commit(b)
  PROVE  /\ \A c \in Backend : c # b => be'[c] = be[c]
         /\ be' \in [Backend -> BackendState] /\ be[b].pc = "ready"
         /\ be'[b].pc = "committed" /\ be'[b].plan = be[b].plan /\ be'[b].lock = be[b].lock
         /\ be'[b].todo = be[b].todo /\ be'[b].op = be[b].op /\ be'[b].retries = be[b].retries
         /\ be'[b].attempt = be[b].attempt /\ be'[b].promoted = be[b].promoted
         /\ be'[b].wakeup = be[b].wakeup
         /\ UNCHANGED <<now, holder, meta, files, txns, run>>
         /\ published' = published \cup be[b].promoted /\ Stored' = Stored \cup be[b].promoted
<1> DEFINE s == be[b]
           u == [s EXCEPT !.pc = "committed"]
<1>1. be \in [Backend -> BackendState] /\ s \in BackendState
  BY DEF IInv, TypeInv
<1>2. be' = [be EXCEPT ![b] = u] /\ s.pc = "ready"
  BY DEF Commit, Goes
<1>3. /\ u \in BackendState /\ u.pc = "committed" /\ u.plan = s.plan /\ u.lock = s.lock
      /\ u.todo = s.todo /\ u.op = s.op /\ u.retries = s.retries /\ u.attempt = s.attempt
      /\ u.promoted = s.promoted /\ u.wakeup = s.wakeup
  BY <1>1 DEF BackendState
<1> HIDE DEF u
<1>4. be'[b] = u /\ \A c \in Backend : c # b => be'[c] = be[c]
  BY <1>1, <1>2
<1>5. be' \in [Backend -> BackendState]
  BY <1>1, <1>2, <1>3
<1>6. UNCHANGED <<now, holder, meta, files, txns, run>> /\ published' = published \cup s.promoted
  BY DEF Commit
<1>7. Stored' = Stored \cup s.promoted
  BY <1>6 DEF Stored
<1> QED BY <1>2, <1>3, <1>4, <1>5, <1>6, <1>7

\* The commit of b and its own part of the invariant.
LEMMA CommitOwn ==
  ASSUME IInv, NEW b \in Backend, Commit(b)
  PROVE  BackendInv(b)' /\ Own(b)' = {} /\ be[b].attempt = {} /\ Own(b) = be[b].promoted
<1> DEFINE s == be[b]
<1>1. /\ s.pc = "ready" /\ be'[b].pc = "committed" /\ be'[b].plan = s.plan
      /\ be'[b].todo = s.todo /\ be'[b].op = s.op /\ be'[b].retries = s.retries
      /\ be'[b].attempt = s.attempt /\ be'[b].promoted = s.promoted
      /\ published' = published \cup s.promoted /\ meta' = meta
  BY CommitBackends
<1>2. /\ ControlInv(b) /\ PlanInv(b) /\ RetryInv(b) /\ FileInv(b)
  BY DEF IInv, BackendInv
<1>3. s.op \in {"none", "defer"} /\ s.todo = {} /\ s.attempt = {}
  BY <1>1, <1>2 DEF ControlInv, FileInv
<1>4. ControlInv(b)'
  BY <1>1, <1>2, <1>3 DEF ControlInv, Stating, Publishing, Resting, Running
<1>5. LockInv(b)' /\ AttemptInv(b)' /\ TablesInv(b)' /\ GuardInv(b)'
  BY <1>1 DEF LockInv, AttemptInv, TablesInv, GuardInv, Running
<1>6. PlanInv(b)'
  BY <1>1, <1>2 DEF PlanInv
<1>7. RetryInv(b)'
  <2>1. s.retries <= MaxRetries + 1
    BY <1>2 DEF RetryInv
  <2> QED BY <1>1, <1>3, <2>1 DEF RetryInv
<1>8. Own(b)' = {} /\ Own(b) = s.promoted
  BY <1>1, <1>3 DEF Own
<1>9. FileInv(b)'
  BY <1>1, <1>3, <1>8 DEF FileInv
<1> QED BY <1>3, <1>4, <1>5, <1>6, <1>7, <1>8, <1>9 DEF BackendInv


\* The commit of b and a backend c beside it: locks and tuples.
LEMMA CommitOthers ==
  ASSUME IInv, NEW b \in Backend, Commit(b), NEW c \in Backend, c # b
  PROVE  LockInv(c)' /\ AttemptInv(c)' /\ RetryInv(c)' /\ GuardInv(c)'
<1>1. be'[c] = be[c] /\ holder' = holder /\ meta' = meta
  BY CommitBackends
<1>2. LockInv(c) /\ ControlInv(c) /\ AttemptInv(c) /\ RetryInv(c) /\ GuardInv(c)
  BY DEF IInv, BackendInv
<1>3. \A t \in Table : /\ holder[t] = b => /\ row'[t] = be[b].mine[t] /\ ver'[t] = ver[t] + 1
                                           /\ VersionInv(b, t)
                       /\ holder[t] # b => row'[t] = row[t] /\ ver'[t] = ver[t]
                       /\ ver[t] \in Nat
  BY CommitTable
<1>4. \A t \in Table : /\ ~LockConflict(be[b].lock[t], be[c].lock[t])
                       /\ be[c].lock[t] \in 0..AccessExclusive /\ be[b].lock[t] \in 0..AccessExclusive
  <2>1. ApartInv /\ be[b] \in BackendState /\ be[c] \in BackendState
    BY DEF IInv, TypeInv
  <2>2. be[b].lock \in [Table -> 0..AccessExclusive] /\ be[c].lock \in [Table -> 0..AccessExclusive]
    BY <2>1 DEF BackendState
  <2> QED BY <2>1, <2>2 DEF ApartInv
<1>5. /\ be[c].seen \in Nat /\ be[c].since \in Nat /\ be[c].retries \in Nat /\ be[c].latest \in Nat
      /\ b # Nobody
  BY CommitAssumption DEF IInv, TypeInv, BackendState, Backend
<1>6. LockInv(c)'
  <2>1. ASSUME NEW t \in Table, be[c].lock[t] # 0, holder[t] = b PROVE row'[t].loc # NoLoc
    <3>1. be[b].lock[t] # AccessExclusive
      BY SMTT(30), <1>4, <2>1 DEF LockConflict, AccessExclusive
    <3> QED BY <1>3, <2>1, <3>1 DEF VersionInv
  <2>2. \A t \in Table : be[c].lock[t] # 0 /\ Visible(c, t).loc # NoLoc => Visible(c, t)'.loc # NoLoc
    BY <1>1, <1>3, <2>1 DEF Visible
  <2> QED BY <1>1, <1>2, <2>2 DEF LockInv
<1>7. AttemptInv(c)'
  <2> DEFINE t == be[c].tbl
  <2> SUFFICES ASSUME be[c].pc \in {"scan", "update"} PROVE AttemptInv(c)'
    BY <1>1 DEF AttemptInv
  <2>1. t \in Table
    BY <1>2 DEF ControlInv
  <2>2. be[c].pc = "update" => be[c].seen <= ver[t]
    BY <1>2 DEF AttemptInv
  <2>3. be[c].pc = "update" => be[c].seen <= ver'[t]
    BY SMTT(30), <1>3, <1>5, <2>1, <2>2
  <2>4. be[c].pc = "update" /\ holder[t] # c /\ ver'[t] = be[c].seen
          => row'[t] = row[t] /\ ver'[t] = ver[t]
    BY SMTT(30), <1>3, <1>5, <2>1, <2>2
  <2> QED BY ZenonT(30), <1>1, <1>2, <2>3, <2>4 DEF AttemptInv
<1>8. RetryInv(c)'
  <2> DEFINE t == be[c].tbl
  <2>1. (be[c].pc = "loop" \/ be[c].op \in {"cas", "finish"}) => t \in Table
    BY <1>2 DEF ControlInv
  <2>2. CASE t \notin Table
    BY <1>1, <1>2, <2>1, <2>2 DEF RetryInv
  <2>3. CASE t \in Table /\ holder[t] = b
    <3>1. ver'[t] = ver[t] + 1 /\ ver[t] \in Nat
      BY <1>3, <2>3
    <3> DEFINE v == ver[t]
    <3>2. /\ be[c].retries <= v - be[c].since => be[c].retries <= ver'[t] - be[c].since
          /\ be[c].retries <= v - be[c].since + 1 => /\ be[c].retries <= ver'[t] - be[c].since
                                                    /\ be[c].retries <= ver'[t] - be[c].since + 1
      BY SMTT(30), <1>5, <3>1
    <3> QED BY <1>1, <1>2, <3>2 DEF RetryInv
  <2>4. CASE t \in Table /\ holder[t] # b
    BY <1>1, <1>2, <1>3, <2>4 DEF RetryInv
  <2> QED BY <2>2, <2>3, <2>4
<1>9. GuardInv(c)'
  <2> SUFFICES ASSUME NEW t \in Table, be[c].plan[t].guard # NoLoc, holder[t] # c,
                      be[c].pc # "committed"
               PROVE  row'[t].loc = be[c].plan[t].guard
    BY <1>1 DEF GuardInv
  <2>1. row[t].loc = be[c].plan[t].guard
    BY <1>2 DEF GuardInv
  <2>2. be[c].lock[t] = AccessExclusive
    BY <1>2 DEF LockInv
  <2>3. holder[t] = b => be[b].lock[t] = 0
    BY <1>4, <2>2 DEF LockConflict, AccessExclusive
  <2>4. holder[t] = b => row'[t].loc = row[t].loc
    BY <1>3, <2>3 DEF VersionInv
  <2> QED BY <1>3, <2>1, <2>4
<1> QED BY <1>6, <1>7, <1>8, <1>9

\* The commit of b and a backend c beside it: versions and files.
LEMMA CommitOtherTables ==
  ASSUME IInv, NEW b \in Backend, Commit(b), NEW c \in Backend, c # b
  PROVE  BackendInv(c)'
<1>1. /\ be'[c] = be[c] /\ holder' = holder /\ meta' = meta
      /\ Stored' = Stored \cup be[b].promoted /\ published' = published \cup be[b].promoted
  BY CommitBackends
<1>2. ControlInv(c) /\ PlanInv(c) /\ TablesInv(c) /\ FileInv(c)
  BY DEF IInv, BackendInv
<1>3. ControlInv(c)'
  BY <1>1, <1>2 DEF ControlInv
<1>4. PlanInv(c)'
  BY <1>1, <1>2 DEF PlanInv
<1>5. TablesInv(c)'
  <2> SUFFICES ASSUME be[c].pc \in Running, NEW t \in Table
               PROVE  IF holder[t] = c THEN VersionInv(c, t)' ELSE UnpublishedInv(c, t)'
    BY <1>1 DEF TablesInv
  <2>1. IF holder[t] = c THEN VersionInv(c, t) ELSE UnpublishedInv(c, t)
    BY <1>2 DEF TablesInv
  <2>2. CASE holder[t] = c
    <3>1. row'[t] = row[t] /\ ideal'[t] = ideal[t] /\ covered[t] \subseteq covered'[t]
      BY <2>2, CommitTable
    <3> QED BY <1>1, <2>1, <2>2, <3>1 DEF VersionInv
  <2>3. CASE holder[t] # c
    BY <1>1, <2>1, <2>3 DEF UnpublishedInv
  <2> QED BY <2>2, <2>3
<1>6. FileInv(c)'
  <2>1. Own(b) = be[b].promoted /\ Own(c)' = Own(c)
    BY <1>1, CommitOwn DEF Own
  <2>2. Own(b) \cap Own(c) = {}
    BY DEF IInv, ApartInv
  <2> QED BY <1>1, <1>2, <2>1, <2>2 DEF FileInv
<1> QED BY <1>3, <1>4, <1>5, <1>6, CommitOthers DEF BackendInv


\* The commit of b: every version it wrote becomes visible at once.
LEMMA CommitStep ==
  ASSUME IInv, NEW b \in Backend, Commit(b), local' = local
  PROVE  IInv'
<1> DEFINE s == be[b]
<1>1. /\ \A c \in Backend : c # b => be'[c] = be[c]
      /\ be' \in [Backend -> BackendState] /\ s.pc = "ready"
      /\ be'[b].pc = "committed" /\ be'[b].lock = s.lock
      /\ be'[b].attempt = s.attempt /\ be'[b].promoted = s.promoted /\ be'[b].wakeup = s.wakeup
      /\ UNCHANGED <<now, holder, meta, files, txns, run>>
      /\ published' = published \cup s.promoted /\ Stored' = Stored \cup s.promoted
  BY CommitBackends
<1>2. Own(b)' = {} /\ Own(b) = s.promoted
  BY CommitOwn
<1>3. \A c \in Backend : BackendInv(c)'
  BY CommitOwn, CommitOtherTables
<1>4. TypeInv'
  <2>1. TypeInv /\ s \in BackendState /\ PlanInv(b)
    BY DEF IInv, TypeInv, BackendInv
  <2>2. row' \in [Table -> Row] /\ ver' \in [Table -> Nat]
    <3>1. row \in [Table -> Row] /\ ver \in [Table -> Nat] /\ s.mine \in [Table -> Row]
      BY <2>1 DEF TypeInv, BackendState
    <3>2. \A t \in Table : ver[t] + 1 \in Nat
      BY SMTT(30), <3>1
    <3> QED BY <3>1, <3>2 DEF Commit
  <2>3. ideal' \in [Table -> SUBSET Nat]
    BY ZenonT(30), <2>1 DEF Commit, TypeInv, BackendState, Alone
  <2>4. \A t \in Table : s.plan[t].vacuum => meta[s.plan[t].token.loc] \in Metadata
    BY <2>1 DEF TypeInv, PlanInv
  <2>5. covered' \in [Table -> SUBSET Nat]
    <3>1. \A t \in Table : s.plan[t].vacuum => meta[s.plan[t].token.loc].data \in SUBSET Nat
      BY <2>4 DEF Metadata
    <3>2. covered \in [Table -> SUBSET Nat]
      BY <2>1 DEF TypeInv
    <3> QED BY <3>1, <3>2 DEF Commit
  <2>6. published' \in SUBSET Nat
    BY <1>1, <2>1 DEF TypeInv, BackendState
  <2> QED BY <1>1, <2>1, <2>2, <2>3, <2>5, <2>6 DEF TypeInv
<1>5. ApartInv'
  <2>1. \A c \in Backend : Own(c)' \subseteq Own(c) /\ be'[c].lock = be[c].lock
    BY <1>1, <1>2 DEF Own
  <2>2. ApartInv
    BY DEF IInv
  <2> QED BY <2>1, <2>2 DEF ApartInv
<1>6. HolderInv'
  <2>1. HolderInv /\ holder \in [Table -> Backend \cup {Nobody}]
    BY DEF IInv, TypeInv
  <2>2. \A c \in Backend : be'[c].pc \in {be[c].pc, "committed"}
    BY <1>1
  <2> QED BY <1>1, <2>1, <2>2 DEF HolderInv
<1>7. FilesInv'
  <2>1. /\ FilesInv /\ FileInv(b)
    BY DEF IInv, BackendInv
  <2>2. s.promoted \subseteq 1..Len(meta)
    BY <1>2, <2>1 DEF FileInv
  <2>3. \A c \in Backend : be'[c].attempt = be[c].attempt /\ be'[c].promoted = be[c].promoted
    BY <1>1
  <2>4. \A n : n \in files' <=>
          n \in Stored' \/ \E c \in Backend : n \in be'[c].attempt \cup be'[c].promoted
    BY <1>1, <2>1, <2>3 DEF FilesInv
  <2> QED BY <1>1, <2>1, <2>2, <2>4 DEF FilesInv
<1>8. RowInv'
  <2> SUFFICES ASSUME NEW t \in Table
               PROVE  /\ row'[t].loc = NoLoc => row'[t].due = NoDue
                      /\ row'[t].loc # NoLoc =>
                           /\ row'[t].loc \in Stored'
                           /\ meta[row'[t].loc].rows = ideal'[t]
                           /\ row'[t].due = NoDue => meta[row'[t].loc].data \subseteq covered'[t]
    BY <1>1 DEF RowInv
  <2>1. CASE holder[t] = b
    <3>1. /\ row'[t] = s.mine[t] /\ VersionInv(b, t) /\ ~Pending(s, t)
          /\ ideal'[t] = Alone(s.plan[t], s.id, ideal[t])
          /\ covered'[t] = covered[t] \cup (IF s.plan[t].vacuum
                                            THEN meta[s.plan[t].token.loc].data ELSE {})
      BY <2>1, CommitTable
    <3> QED BY <1>1, <3>1 DEF VersionInv
  <2>2. CASE holder[t] # b
    <3>1. row'[t] = row[t] /\ ideal'[t] = ideal[t] /\ covered[t] \subseteq covered'[t]
      BY <2>2, CommitTable
    <3>2. RowInv
      BY DEF IInv
    <3> QED BY <1>1, <3>1, <3>2 DEF RowInv
  <2> QED BY <2>1, <2>2
<1>9. DueWorkIsWatched'
  <2> SUFFICES ASSUME NEW t \in Table, row'[t].due # NoDue
               PROVE  \/ run.wake
                      \/ be'[Worker].pc # "idle"
                      \/ \E c \in Backend : be'[c].pc = "committed" /\ be'[c].wakeup
                      \/ run.deadline # Never /\ run.deadline <= Max({row'[t].due, now + Naptime})
                      \/ <<t, row'[t].due>> \in run.ignored
    BY <1>1 DEF DueWorkIsWatched
  <2>1. CASE row'[t].due = row[t].due
    <3>1. Worker \in Backend
      BY DEF Backend
    <3>2. be[Worker].pc # "idle" => be'[Worker].pc # "idle"
      BY <1>1, <3>1
    <3>3. \A c \in Backend : be[c].pc = "committed" /\ be[c].wakeup
                               => be'[c].pc = "committed" /\ be'[c].wakeup
      BY <1>1
    <3>4. DueWorkIsWatched
      BY DEF IInv
    <3> QED BY <2>1, <3>2, <3>3, <3>4 DEF DueWorkIsWatched
  <2>2. CASE row'[t].due # row[t].due
    <3>1. holder[t] = b /\ row'[t] = s.mine[t] /\ VersionInv(b, t)
      BY <2>2, CommitTable
    <3>2. s.wakeup \/ b = Worker
      BY <2>2, <3>1 DEF VersionInv
    <3> QED BY <1>1, <3>2
  <2> QED BY <2>1, <2>2
<1> QED BY <1>3, <1>4, <1>5, <1>6, <1>7, <1>8, <1>9 DEF IInv

-----------------------------------------------------------------------------
(* The end of the transaction.                                             *)

\* Between transactions a backend rests.
LEMMA BetweenRests ==
  ASSUME NEW b \in Backend, NEW aborted \in BOOLEAN
  PROVE  /\ \E r \in Resting : Between(b, aborted) = [Idle EXCEPT !.pc = r]
         /\ b = Worker => Between(b, aborted).pc # "idle"
<1>1. b # Worker => Between(b, aborted) = [Idle EXCEPT !.pc = "idle"]
  BY DEF Between
<1>2. b = Worker /\ aborted /\ be[b].op # "defer" =>
        Between(b, aborted) = [Idle EXCEPT !.pc = "defer"]
  BY DEF Between
<1>3. b = Worker /\ ~(aborted /\ be[b].op # "defer") =>
        Between(b, aborted) = [Idle EXCEPT !.pc = "lock"]
  BY DEF Between
<1>4. \A r \in Resting : [Idle EXCEPT !.pc = r].pc = r
  BY DEF Idle
<1> QED BY <1>1, <1>2, <1>3, <1>4 DEF Resting

\* Commit callbacks and the release of the locks.
LEMMA FinishStep ==
  ASSUME IInv, NEW b \in Backend, Finish(b), local' = local
  PROVE  IInv'
<1>1. /\ be[b].pc = "committed" /\ be' = [be EXCEPT ![b] = Between(b, FALSE)]
      /\ UNCHANGED <<local, now, row, ver, meta, files, txns, history>>
      /\ holder' = [t \in Table |-> IF holder[t] = b THEN Nobody ELSE holder[t]]
      /\ run' = [run EXCEPT !.wake = @ \/ be[b].wakeup,
                            !.cands = {c \in @ : b # Worker \/ ~be[b].plan[c.tbl].vacuum}]
  BY DEF Finish, Goes
<1>2. PICK r \in Resting : Between(b, FALSE) = [Idle EXCEPT !.pc = r]
  BY BetweenRests
<1>3. holder' \in [Table -> Backend \cup {Nobody}]
  BY <1>1 DEF IInv, TypeInv
<1>4. files' = files \ Own(b)
  BY <1>1 DEF Own
<1>5. /\ run \in [cands : SUBSET [tbl : Table, row : Row], wake : BOOLEAN, deadline : Int,
                  runs : Nat, ignored : Ignored]
      /\ be[b].wakeup \in BOOLEAN /\ be \in [Backend -> BackendState]
  BY DEF IInv, TypeInv, BackendState
<1>6. /\ run' \in [cands : SUBSET [tbl : Table, row : Row], wake : BOOLEAN,
                   deadline : Int, runs : Nat, ignored : Ignored]
      /\ run'.cands \subseteq run.cands /\ run'.wake = (run.wake \/ be[b].wakeup)
      /\ run'.deadline = run.deadline /\ run'.ignored = run.ignored
  BY <1>1, <1>5
<1>7. \A c \in run'.cands : c.row.loc \in 1..Len(meta)
  BY <1>6 DEF IInv, FilesInv
<1>8. DueWorkIsWatched'
  <2>1. \A c \in Backend : c # b => be'[c] = be[c]
    BY <1>1, <1>5
  <2>2. be[Worker].pc # "idle" => be'[Worker].pc # "idle"
    <3>1. b = Worker => be'[Worker].pc # "idle"
      BY <1>1, <1>5, BetweenRests
    <3> QED BY <2>1, <3>1 DEF Backend
  <2>3. \A c \in Backend : be[c].pc = "committed" /\ be[c].wakeup =>
          run'.wake \/ (be'[c].pc = "committed" /\ be'[c].wakeup)
    BY <1>6, <2>1
  <2>4. DueWorkIsWatched
    BY DEF IInv
  <2> QED BY <1>1, <1>6, <2>2, <2>3, <2>4 DEF DueWorkIsWatched
<1> QED BY <1>1, <1>2, <1>3, <1>4, <1>6, <1>7, <1>8, RestStep

\* ROLLBACK, or an error before the commit.
LEMMA AbortStep ==
  ASSUME IInv, NEW b \in Backend, Abort(b), local' = local
  PROVE  IInv'
<1>1. /\ be[b].pc # "committed" /\ be' = [be EXCEPT ![b] = Between(b, TRUE)]
      /\ UNCHANGED <<local, now, row, ver, meta, txns, run, history>>
      /\ holder' = [t \in Table |-> IF holder[t] = b THEN Nobody ELSE holder[t]]
      /\ files' = files \ (be[b].attempt \cup be[b].promoted)
  BY DEF Abort, Goes
<1>2. PICK r \in Resting : Between(b, TRUE) = [Idle EXCEPT !.pc = r]
  BY BetweenRests
<1>3. holder' \in [Table -> Backend \cup {Nobody}]
  BY <1>1 DEF IInv, TypeInv
<1>4. files' = files \ Own(b)
  BY <1>1 DEF Own
<1>5. /\ run' \in [cands : SUBSET [tbl : Table, row : Row], wake : BOOLEAN,
                   deadline : Int, runs : Nat, ignored : Ignored]
      /\ \A c \in run'.cands : c.row.loc \in 1..Len(meta)
  BY <1>1 DEF IInv, TypeInv, FilesInv
<1>6. DueWorkIsWatched'
  <2>1. be \in [Backend -> BackendState]
    BY DEF IInv, TypeInv
  <2>2. \A c \in Backend : c # b => be'[c] = be[c]
    BY <1>1, <2>1
  <2>3. be[Worker].pc # "idle" => be'[Worker].pc # "idle"
    <3>1. b = Worker => be'[Worker].pc # "idle"
      BY <1>1, <2>1, BetweenRests
    <3> QED BY <2>2, <3>1 DEF Backend
  <2>4. \A c \in Backend : be[c].pc = "committed" => be'[c] = be[c]
    BY <1>1, <2>2
  <2>5. DueWorkIsWatched
    BY DEF IInv
  <2> QED BY <1>1, <2>3, <2>4, <2>5 DEF DueWorkIsWatched, history
<1> QED BY <1>1, <1>2, <1>3, <1>4, <1>5, <1>6, RestStep


-----------------------------------------------------------------------------
(* The maintenance worker.                                                 *)

\* A step of the worker between transactions: only its run changes.
LEMMA WorkerRests ==
  ASSUME IInv, be[Worker].pc \in Resting, NEW r \in Resting,
         be' = [be EXCEPT ![Worker] = [Idle EXCEPT !.pc = r]],
         UNCHANGED <<local, now, row, ver, holder, meta, files, txns, history>>,
         run' \in [cands : SUBSET [tbl : Table, row : Row], wake : BOOLEAN,
                   deadline : Int, runs : Nat, ignored : Ignored],
         \A c \in run'.cands : c.row.loc \in 1..Len(meta), DueWorkIsWatched'
  PROVE  IInv'
<1>1. Worker \in Backend /\ HolderInv /\ ControlInv(Worker)
  BY DEF Backend, IInv, BackendInv
<1>2. \A t \in Table : holder'[t] = IF holder[t] = Worker THEN Nobody ELSE holder[t]
  BY <1>1, RestingHoldsNothing
<1>3. holder' \in [Table -> Backend \cup {Nobody}]
  BY DEF IInv, TypeInv
<1>4. Own(Worker) = {}
  <2>1. be[Worker] = [Idle EXCEPT !.pc = be[Worker].pc]
    BY <1>1 DEF ControlInv
  <2>2. be[Worker].attempt = {} /\ be[Worker].promoted = {}
    BY <2>1 DEF Idle
  <2> QED BY <2>2 DEF Own
<1>5. files' = files \ Own(Worker)
  BY <1>4
<1> QED BY <1>1, <1>2, <1>3, <1>5, RestStep

\* A maintenance run starts.
LEMMA StartRunStep ==
  ASSUME IInv, StartRun, local' = local
  PROVE  IInv'
<1>1. /\ be[Worker].pc \in Resting /\ "lock" \in Resting
      /\ be' = [be EXCEPT ![Worker] = [Idle EXCEPT !.pc = "lock"]]
      /\ UNCHANGED <<local, now, row, ver, holder, meta, files, txns, history>>
  BY DEF StartRun, Goes, Resting
<1>2. PICK S \in SUBSET {t \in Table : row[t].due # NoDue /\ row[t].due <= now} :
         run' = [cands |-> {[tbl |-> t, row |-> row[t]] : t \in S}, wake |-> FALSE,
                 deadline |-> Never, runs |-> run.runs + 1, ignored |-> {}]
  BY DEF StartRun
<1>3. \A t \in S : t \in Table /\ row[t] \in Row /\ row[t].loc \in 1..Len(meta)
  <2>1. RowInv /\ FilesInv /\ row \in [Table -> Row]
    BY DEF IInv, TypeInv
  <2>2. \A t \in S : t \in Table /\ row[t].due # NoDue
    BY <1>2
  <2>3. \A t \in S : row[t].loc \in Stored
    BY <2>1, <2>2 DEF RowInv
  <2> QED BY <2>1, <2>2, <2>3 DEF FilesInv
<1>4. run' \in [cands : SUBSET [tbl : Table, row : Row], wake : BOOLEAN, deadline : Int,
                runs : Nat, ignored : Ignored]
  <2>1. {[tbl |-> t, row |-> row[t]] : t \in S} \subseteq [tbl : Table, row : Row]
    BY <1>3
  <2>2. run.runs + 1 \in Nat /\ Never \in Int /\ {} \in Ignored
    BY SMTT(30) DEF IInv, TypeInv, Never, Ignored
  <2> QED BY <1>2, <2>1, <2>2
<1>5. \A c \in run'.cands : c.row.loc \in 1..Len(meta)
  BY <1>2, <1>3
<1>6. DueWorkIsWatched'
  <2>1. be \in [Backend -> BackendState] /\ Worker \in Backend
    BY DEF IInv, TypeInv, Backend
  <2>2. be'[Worker].pc # "idle"
    BY <1>1, <2>1 DEF Idle
  <2> QED BY <2>2 DEF DueWorkIsWatched
<1> QED BY <1>1, <1>4, <1>5, <1>6, WorkerRests

\* A run that finds maintenance switched off: every deadline is one it ignored.
LEMMA RunDisabledStep ==
  ASSUME IInv, RunDisabled, local' = local
  PROVE  IInv'
<1> DEFINE I == {<<t, row[t].due>> : t \in Table}
<1>1. /\ be[Worker].pc = "idle" /\ be' = be
      /\ UNCHANGED <<local, now, row, ver, holder, meta, files, txns, history>>
      /\ run' = [cands |-> {}, wake |-> FALSE, deadline |-> Never, runs |-> run.runs + 1,
                 ignored |-> I]
  BY DEF RunDisabled
<1>2. be \in [Backend -> BackendState] /\ Worker \in Backend /\ ControlInv(Worker)
  BY DEF IInv, TypeInv, Backend, BackendInv
<1>3. "idle" \in Resting
  BY DEF Resting
<1>4. be' = [be EXCEPT ![Worker] = [Idle EXCEPT !.pc = "idle"]]
  <2>1. be[Worker] = [Idle EXCEPT !.pc = "idle"]
    BY <1>1, <1>2, <1>3 DEF ControlInv
  <2> QED BY <1>1, <1>2, <2>1
<1>5. I \in Ignored
  BY DEF IInv, TypeInv, Ignored, Row
<1>6. run.runs + 1 \in Nat /\ Never \in Int
  BY SMTT(30) DEF IInv, TypeInv, Never
<1>7. \A t \in Table : <<t, row[t].due>> \in I
  OBVIOUS
<1> HIDE DEF I
<1>8. run' \in [cands : SUBSET [tbl : Table, row : Row], wake : BOOLEAN, deadline : Int,
                runs : Nat, ignored : Ignored]
  BY <1>1, <1>5, <1>6
<1>9. run'.cands = {} /\ run'.ignored = I
  BY <1>1
<1>10. DueWorkIsWatched'
  BY <1>1, <1>7, <1>9 DEF DueWorkIsWatched
<1> QED BY <1>1, <1>3, <1>4, <1>8, <1>9, <1>10, WorkerRests

\* Candidates that cannot be maintained: skipped or left to a later run.
LEMMA SkipSteps ==
  ASSUME IInv, NEW c \in run.cands, SkipLocked(c) \/ SkipStale(c), local' = local
  PROVE  IInv'
<1>1. /\ be \in [Backend -> BackendState] /\ Worker \in Backend /\ ControlInv(Worker)
      /\ run \in [cands : SUBSET [tbl : Table, row : Row], wake : BOOLEAN, deadline : Int,
                  runs : Nat, ignored : Ignored]
      /\ \A d \in run.cands : d.row.loc \in 1..Len(meta)
  BY DEF IInv, TypeInv, Backend, BackendInv, FilesInv
<1>2. /\ be[Worker].pc \in Resting /\ "lock" \in Resting /\ "defer" \in Resting
      /\ UNCHANGED <<local, now, row, ver, holder, meta, files, txns, history>>
  BY DEF SkipLocked, SkipStale, Resting
<1>3. PICK r \in {"lock", "defer"} : be' = [be EXCEPT ![Worker] = [Idle EXCEPT !.pc = r]]
  <2>1. CASE SkipLocked(c)
    BY <2>1 DEF SkipLocked, Goes
  <2>2. CASE SkipStale(c)
    <3>1. be[Worker].pc = "lock" /\ be' = be
      BY <2>2 DEF SkipStale
    <3>2. be[Worker] = [Idle EXCEPT !.pc = "lock"]
      BY <1>1, <1>2, <3>1 DEF ControlInv
    <3> QED BY <1>1, <3>1, <3>2
  <2> QED BY <2>1, <2>2
<1>4. /\ run' \in [cands : SUBSET [tbl : Table, row : Row], wake : BOOLEAN, deadline : Int,
                   runs : Nat, ignored : Ignored]
      /\ run'.cands \subseteq run.cands
  BY ZenonT(30), <1>1 DEF SkipLocked, SkipStale
<1>5. DueWorkIsWatched'
  <2>1. be'[Worker].pc # "idle"
    BY <1>1, <1>3 DEF Idle
  <2> QED BY <2>1 DEF DueWorkIsWatched
<1> QED BY <1>1, <1>2, <1>3, <1>4, <1>5, WorkerRests

\* The candidate is postponed: the worker opens the transaction of
\* defer_maintenance, or goes on when the row is no longer the candidate's.
LEMMA DeferStep ==
  ASSUME IInv, NEW c \in run.cands, Defer(c), local' = local
  PROVE  IInv'
<1> DEFINE u == [Idle EXCEPT !.pc = "update", !.op = "defer", !.start = now,
                             !.tbl = c.tbl, !.seen = ver[c.tbl]]
<1>1. /\ be \in [Backend -> BackendState] /\ Worker \in Backend
      /\ run \in [cands : SUBSET [tbl : Table, row : Row], wake : BOOLEAN, deadline : Int,
                  runs : Nat, ignored : Ignored]
      /\ \A d \in run.cands : d.row.loc \in 1..Len(meta)
  BY DEF IInv, TypeInv, Backend, FilesInv
<1>2. /\ be[Worker].pc \in Resting /\ "lock" \in Resting
      /\ UNCHANGED <<local, now, row, ver, holder, meta, files, txns, history>>
      /\ run' = [run EXCEPT !.cands = @ \ {c}]
  BY DEF Defer, Resting
<1>3. /\ run' \in [cands : SUBSET [tbl : Table, row : Row], wake : BOOLEAN, deadline : Int,
                   runs : Nat, ignored : Ignored]
      /\ run'.cands \subseteq run.cands
  BY <1>1, <1>2
<1>4. CASE row[c.tbl] # c.row
  <2>1. be' = [be EXCEPT ![Worker] = [Idle EXCEPT !.pc = "lock"]]
    BY <1>4 DEF Defer, Goes
  <2>2. be'[Worker].pc # "idle"
    BY <1>1, <2>1 DEF Idle
  <2>3. DueWorkIsWatched'
    BY <2>2 DEF DueWorkIsWatched
  <2> QED BY <1>1, <1>2, <1>3, <2>1, <2>3, WorkerRests
<1>5. CASE row[c.tbl] = c.row
  <2>1. be' = [be EXCEPT ![Worker] = u]
    BY <1>5 DEF Defer, Goes
  <2>2. c.tbl \in Table /\ c.tbl \in Nat /\ ver[c.tbl] \in Nat /\ now \in Nat
    <3>1. c.tbl \in Table
      BY <1>1
    <3>2. ver \in [Table -> Nat] /\ now \in Nat
      BY DEF IInv, TypeInv
    <3>3. c.tbl \in Nat
      BY <3>1, CommitAssumption
    <3> QED BY <3>1, <3>2, <3>3
  <2>3. u \in BackendState
    BY ZenonT(30), <2>2, IdleTyped DEF BackendState, InTx, Running
  <2>4. /\ u.pc = "update" /\ u.op = "defer" /\ u.tbl = c.tbl /\ u.seen = ver[c.tbl]
        /\ u.plan = Idle.plan /\ u.lock = Idle.lock /\ u.todo = {} /\ u.retries = 0
        /\ u.attempt = {} /\ u.promoted = {}
    BY DEF Idle
  <2> HIDE DEF u
  <2>5. be'[Worker] = u /\ be' \in [Backend -> BackendState]
        /\ \A d \in Backend : d # Worker => be'[d] = be[d]
    BY <1>1, <2>1, <2>3
  <2>6. \A t \in Table : /\ u.plan[t] = NoPlan /\ u.lock[t] = 0 /\ u.plan[t].guard = NoLoc
                         /\ ~u.plan[t].vacuum /\ ~u.plan[t].rebuilt /\ ~u.plan[t].dropped
                         /\ ~u.plan[t].writes
    BY <2>4, IdleTyped
  <2>7. \A t \in Table : holder[t] # Worker
    BY <1>1, <1>2, RestingHoldsNothing DEF IInv
  <2>8. row[c.tbl].loc # NoLoc
    BY SMTT(30), <1>1, <1>5 DEF NoLoc
  <2>9. TypeInv'
    BY <1>2, <1>3, <2>5 DEF IInv, TypeInv, history
  <2>10. ControlInv(Worker)'
    BY <2>2, <2>4, <2>5 DEF ControlInv, Stating, Publishing, Resting
  <2>11. LockInv(Worker)' /\ PlanInv(Worker)' /\ GuardInv(Worker)'
    BY <2>4, <2>5, <2>6 DEF LockInv, PlanInv, GuardInv
  <2>12. AttemptInv(Worker)'
    <3>1. ver[c.tbl] <= ver[c.tbl]
      BY SMTT(30), <2>2
    <3> QED BY <1>2, <2>4, <2>5, <2>7, <2>8, <3>1 DEF AttemptInv
  <2>13. RetryInv(Worker)'
    <3>1. 0 <= MaxRetries + 1
      BY SMTT(30), CommitAssumption
    <3> QED BY <2>4, <2>5, <3>1 DEF RetryInv
  <2>14. TablesInv(Worker)'
    BY <1>2, <2>5, <2>6, <2>7 DEF TablesInv, UnpublishedInv, HasDataChange
  <2>15. Own(Worker)' = {} /\ Own(Worker) = {}
    <3>1. ControlInv(Worker)
      BY <1>1 DEF IInv, BackendInv
    <3>2. be[Worker] = [Idle EXCEPT !.pc = be[Worker].pc]
      BY <1>2, <3>1 DEF ControlInv
    <3>3. be[Worker].attempt = {} /\ be[Worker].promoted = {}
      BY <3>2 DEF Idle
    <3> QED BY <2>4, <2>5, <3>3 DEF Own
  <2>16. FileInv(Worker)'
    BY <2>4, <2>5, <2>15 DEF FileInv
  <2>17. BackendInv(Worker)'
    BY <2>10, <2>11, <2>12, <2>13, <2>14, <2>16 DEF BackendInv
  <2>18. Quiet(Worker)
    <3>1. Len(meta) <= Len(meta')
      BY <1>2 DEF IInv, TypeInv
    <3> QED BY <1>2, <2>5, <3>1 DEF Quiet, history
  <2>19. HolderInv'
    <3>1. HolderInv /\ holder \in [Table -> Backend \cup {Nobody}]
      BY DEF IInv, TypeInv
    <3> QED BY <1>2, <2>5, <2>7, <3>1 DEF HolderInv
  <2>20. FilesInv'
    <3>1. FilesInv /\ Stored' = Stored
      BY <1>2 DEF IInv, Stored, history
    <3>2. \A d \in Backend : be'[d].attempt \cup be'[d].promoted = be[d].attempt \cup be[d].promoted
      <4>1. be[Worker].pc # "committed" /\ u.pc # "committed"
        BY <1>2, <2>4 DEF Resting
      <4> QED BY <2>5, <2>15, <4>1 DEF Own
    <3> QED BY <1>2, <1>3, <3>1, <3>2 DEF FilesInv
  <2>21. DueWorkIsWatched'
    BY <2>4, <2>5 DEF DueWorkIsWatched
  <2>22. \A d \in Backend, t \in Table : d # Worker => ~LockConflict(be'[Worker].lock[t], be[d].lock[t])
    BY <2>5, <2>6 DEF LockConflict
  <2> QED BY <1>1, <2>9, <2>15, <2>17, <2>18, <2>19, <2>20, <2>21, <2>22, QuietStep
<1> QED BY <1>4, <1>5


\* An idle backend is at rest.
LEMMA IdleRests == Idle = [Idle EXCEPT !.pc = "idle"]
<1>1. Idle.pc = "idle" /\ Idle \in BackendState
  BY IdleTyped DEF Idle
<1>2. ASSUME NEW s \in BackendState PROVE s = [s EXCEPT !.pc = s.pc]
  BY DEF BackendState
<1> QED BY <1>1, <1>2

\* The worker goes to sleep, after a run or after a failure, with a deadline
\* that is not later than any in the catalog or than one naptime.
LEMMA SleepSteps ==
  ASSUME IInv, RunFails \/ NextSchedule, local' = local
  PROVE  IInv'
<1>1. /\ run \in [cands : SUBSET [tbl : Table, row : Row], wake : BOOLEAN, deadline : Int,
                  runs : Nat, ignored : Ignored]
      /\ \A d \in run.cands : d.row.loc \in 1..Len(meta)
      /\ row \in [Table -> Row] /\ now \in Nat /\ Naptime \in Nat
  BY CommitAssumption DEF IInv, TypeInv, FilesInv
<1>2. /\ be[Worker].pc \in Resting /\ "idle" \in Resting /\ be' = [be EXCEPT ![Worker] = Idle]
      /\ UNCHANGED <<local, now, row, ver, holder, meta, files, txns, history>>
  BY DEF RunFails, NextSchedule, Resting, Goes
<1>3. Idle = [Idle EXCEPT !.pc = "idle"]
  BY IdleRests
<1>4. ASSUME run' \in [cands : SUBSET [tbl : Table, row : Row], wake : BOOLEAN,
                       deadline : Int, runs : Nat, ignored : Ignored],
             run'.cands \subseteq run.cands,
             \A t \in Table : row[t].due # NoDue =>
               /\ run'.deadline # Never
               /\ run'.deadline <= row[t].due \/ run'.deadline <= now + Naptime
      PROVE  IInv'
  <2>1. ASSUME NEW t \in Table, row[t].due # NoDue
        PROVE  run'.deadline # Never /\ run'.deadline <= Max({row[t].due, now + Naptime})
    <3>1. row[t].due \in Int /\ now + Naptime \in Int /\ run'.deadline \in Int
      BY SMTT(30), <1>1, <1>4 DEF Row
    <3> QED BY <1>4, <2>1, <3>1, MaxOfTwo
  <2>2. DueWorkIsWatched'
    BY <1>2, <2>1 DEF DueWorkIsWatched
  <2> QED BY <1>1, <1>2, <1>3, <1>4, <2>2, WorkerRests
<1>5. CASE RunFails
  <2>1. /\ run'.cands = {} /\ run'.deadline = now + Naptime
        /\ run' = [cands |-> {}, wake |-> run.wake /\ be[Worker].pc = "lock",
                   deadline |-> now + Naptime, runs |-> run.runs + 1, ignored |-> {}]
    BY <1>5 DEF RunFails
  <2>2. now + Naptime \in Int /\ now + Naptime # Never /\ run.runs + 1 \in Nat
        /\ now + Naptime <= now + Naptime /\ {} \in Ignored
    BY SMTT(30), <1>1 DEF Never, Ignored
  <2>3. run' \in [cands : SUBSET [tbl : Table, row : Row], wake : BOOLEAN, deadline : Int,
                  runs : Nat, ignored : Ignored]
    BY <1>1, <2>1, <2>2
  <2> QED BY <1>4, <2>1, <2>2, <2>3
<1>6. CASE NextSchedule
  <2> DEFINE dues == {row[t].due : t \in Table} \ {NoDue}
             d == IF dues = {} THEN Never ELSE Min(dues)
  <2>1. run' = [run EXCEPT !.deadline = d]
    BY <1>6 DEF NextSchedule
  <2>2. dues \in SUBSET Nat
    BY <1>1 DEF Row
  <2>3. \A t \in Table : row[t].due # NoDue => row[t].due \in dues
    OBVIOUS
  <2> HIDE DEF dues
  <2>4. dues # {} => d \in Nat /\ \A x \in dues : d <= x
    BY <2>2, MinIsLeast
  <2>5. dues = {} => d = Never
    OBVIOUS
  <2> HIDE DEF d
  <2>6. d \in Int /\ (dues # {} => d # Never)
    BY SMTT(30), <2>4, <2>5 DEF Never
  <2>7. /\ run' \in [cands : SUBSET [tbl : Table, row : Row], wake : BOOLEAN, deadline : Int,
                     runs : Nat, ignored : Ignored]
        /\ run'.cands = run.cands /\ run'.deadline = d
    BY <1>1, <2>1, <2>6
  <2> QED BY <1>4, <2>3, <2>4, <2>6, <2>7
<1> QED BY <1>5, <1>6

-----------------------------------------------------------------------------
(* The clock, the initial state, and the conclusion.                       *)

\* A step that changes nothing but the clock, or nothing at all.
LEMMA ClockStep ==
  ASSUME IInv, now' \in {now, now + 1},
         UNCHANGED <<local, row, ver, holder, meta, files, be, txns, run, history>>
  PROVE  IInv'
<1>1. /\ local' = local /\ row' = row /\ ver' = ver /\ holder' = holder /\ meta' = meta
      /\ files' = files /\ be' = be /\ txns' = txns /\ run' = run /\ ideal' = ideal
      /\ published' = published /\ covered' = covered /\ Stored' = Stored
  BY DEF history, Stored
<1>2. TypeInv'
  <2>1. now' \in Nat \ {0}
    BY SMTT(30) DEF IInv, TypeInv
  <2> QED BY <1>1, <2>1 DEF IInv, TypeInv
<1>3. ASSUME NEW b \in Backend PROVE BackendInv(b)'
  <2>1. /\ ControlInv(b) /\ LockInv(b) /\ PlanInv(b) /\ AttemptInv(b) /\ RetryInv(b)
        /\ TablesInv(b) /\ FileInv(b) /\ GuardInv(b)
    BY DEF IInv, BackendInv
  <2>2. ControlInv(b)'
    BY <1>1, <2>1 DEF ControlInv
  <2>3. LockInv(b)'
    BY <1>1, <2>1 DEF LockInv, Visible
  <2>4. PlanInv(b)'
    BY <1>1, <2>1 DEF PlanInv
  <2>5. AttemptInv(b)'
    BY <1>1, <2>1 DEF AttemptInv
  <2>6. RetryInv(b)'
    BY <1>1, <2>1 DEF RetryInv
  <2>7. TablesInv(b)'
    BY ZenonT(30), <1>1, <2>1 DEF TablesInv, VersionInv, UnpublishedInv
  <2>8. FileInv(b)'
    BY <1>1, <2>1 DEF FileInv, Own
  <2>9. GuardInv(b)'
    BY <1>1, <2>1 DEF GuardInv
  <2> QED BY <2>2, <2>3, <2>4, <2>5, <2>6, <2>7, <2>8, <2>9 DEF BackendInv
<1>4. ApartInv' /\ HolderInv'
  BY <1>1 DEF IInv, ApartInv, HolderInv, Own
<1>5. FilesInv' /\ RowInv'
  BY <1>1 DEF IInv, FilesInv, RowInv
<1>6. DueWorkIsWatched'
  <2>1. /\ row \in [Table -> Row] /\ now \in Nat /\ Naptime \in Nat /\ run.deadline \in Int
    BY CommitAssumption DEF IInv, TypeInv
  <2>2. ASSUME NEW t \in Table, run.deadline <= Max({row[t].due, now + Naptime})
        PROVE  run.deadline <= Max({row[t].due, now' + Naptime})
    <3>1. row[t].due \in Int /\ now + Naptime \in Int /\ now' + Naptime \in Int
      BY SMTT(30), <2>1 DEF Row
    <3>2. run.deadline <= row[t].due \/ run.deadline <= now + Naptime
      BY <2>1, <2>2, <3>1, MaxOfTwo
    <3>3. run.deadline <= row[t].due \/ run.deadline <= now' + Naptime
      BY SMTT(30), <2>1, <3>1, <3>2
    <3> QED BY <2>1, <3>1, <3>3, MaxOfTwo
  <2>3. DueWorkIsWatched
    BY DEF IInv
  <2> QED BY <1>1, <2>2, <2>3 DEF DueWorkIsWatched
<1> QED BY <1>2, <1>3, <1>4, <1>5, <1>6 DEF IInv

\* An idle backend has nothing: its invariant holds.
LEMMA IdleInv ==
  ASSUME NEW b \in Backend, be[b] = Idle
  PROVE  BackendInv(b)
<1>1. /\ be[b].pc = "idle" /\ be[b].attempt = {} /\ be[b].promoted = {}
      /\ be[b].op = "none" /\ be[b].todo = {} /\ be[b].retries = 0
  BY DEF Idle
<1>2. ~Stating(be[b]) /\ ~Publishing(be[b])
  BY <1>1 DEF Stating, Publishing
<1>3. \A t \in Table : be[b].plan[t] = NoPlan /\ NoPlan.guard = NoLoc /\ ~NoPlan.vacuum
  BY IdleTyped
<1>4. 0 <= MaxRetries + 1
  BY SMTT(30), CommitAssumption
<1>5. ControlInv(b)
  BY <1>1, <1>2, IdleRests DEF ControlInv, Running
<1>6. LockInv(b) /\ PlanInv(b) /\ GuardInv(b)
  BY <1>1, <1>3 DEF LockInv, PlanInv, GuardInv, Running
<1>7. AttemptInv(b) /\ RetryInv(b) /\ TablesInv(b)
  BY <1>1, <1>4 DEF AttemptInv, RetryInv, TablesInv, Running
<1>8. FileInv(b)
  BY <1>1 DEF FileInv, Own
<1> QED BY <1>5, <1>6, <1>7, <1>8 DEF BackendInv

\* The initial catalog has one metadata file per table, and idle backends.
LEMMA InitialState == Init => IInv
<1> SUFFICES ASSUME Init PROVE IInv
  OBVIOUS
<1> DEFINE k == Cardinality(Table)
<1>1. k \in Nat /\ IsFiniteSet(Table)
  BY CommitAssumption, FS_CardinalityType
<1>2. ASSUME NEW t \in Table PROVE Cardinality({u \in Table : u <= t}) \in 1..k
  <2> DEFINE T == {u \in Table : u <= t}
  <2>1. IsFiniteSet(T) /\ Cardinality(T) <= k
    BY <1>1, FS_Subset
  <2>2. t \in T
    BY SMTT(30), CommitAssumption
  <2> HIDE DEF T
  <2>3. Cardinality(T) \in Nat /\ Cardinality(T) # 0
    BY <2>1, <2>2, FS_CardinalityType, FS_EmptySet
  <2>4. Cardinality(T) \in 1..k
    BY SMTT(30), <1>1, <2>1, <2>3
  <2> QED BY <2>4 DEF T
<1> HIDE DEF k
<1>3. /\ now = 1 /\ ver = [t \in Table |-> 0] /\ holder = [t \in Table |-> Nobody]
      /\ meta = [n \in 1..k |-> NoData] /\ files = 1..k /\ be = [b \in Backend |-> Idle]
      /\ txns = 0 /\ run = [cands |-> {}, wake |-> FALSE, deadline |-> Never, runs |-> 0,
                             ignored |-> {}]
      /\ ideal = [t \in Table |-> {}] /\ published = {} /\ covered = [t \in Table |-> {}]
      /\ row = [t \in Table |-> [loc |-> Cardinality({u \in Table : u <= t}), due |-> NoDue]]
  BY DEF Init, NoData, k
<1>4. \A t \in Table : row[t].loc \in 1..k /\ row[t].due = NoDue /\ row[t] \in Row
  BY SMTT(30), <1>1, <1>2, <1>3 DEF Row, NoDue
<1>5. meta \in Seq(Metadata) /\ Len(meta) = k /\ \A n \in 1..k : meta[n] = NoData
  <2>1. NoData \in Metadata /\ k \in Nat
    BY <1>1 DEF NoData, Metadata
  <2> QED BY SMTT(30), <1>3, <2>1
<1>6. TypeInv
  <2>1. local \subseteq Table
    BY CommitAssumption DEF Init
  <2>2. row \in [Table -> Row]
    <3>1. row = [t \in Table |-> row[t]]
      BY <1>3
    <3> QED BY <1>4, <3>1
  <2>3. /\ now \in Nat \ {0} /\ ver \in [Table -> Nat] /\ txns \in Nat /\ files \in SUBSET Nat
    BY SMTT(30), <1>1, <1>3
  <2>4. /\ run \in [cands : SUBSET [tbl : Table, row : Row], wake : BOOLEAN,
                    deadline : Int, runs : Nat, ignored : Ignored]
    BY SMTT(30), <1>3 DEF Never, Ignored
  <2>5. be \in [Backend -> BackendState]
    BY <1>3, IdleTyped
  <2>6. /\ holder \in [Table -> Backend \cup {Nobody}]
        /\ ideal \in [Table -> SUBSET Nat] /\ covered \in [Table -> SUBSET Nat]
        /\ published \in SUBSET Nat
    BY <1>3
  <2> QED BY <1>5, <2>1, <2>2, <2>3, <2>4, <2>5, <2>6 DEF TypeInv
<1>7. ASSUME NEW b \in Backend
      PROVE  /\ be[b].pc = "idle" /\ be[b] = Idle /\ Own(b) = {} /\ be[b].attempt = {}
             /\ be[b].promoted = {} /\ \A t \in Table : be[b].lock[t] = 0
  <2>1. be[b] = Idle
    BY <1>3
  <2>2. Idle.pc = "idle" /\ Idle.attempt = {} /\ Idle.promoted = {} /\ \A t \in Table : Idle.lock[t] = 0
    BY IdleTyped DEF Idle
  <2> QED BY <2>1, <2>2 DEF Own
<1>8. ASSUME NEW b \in Backend PROVE BackendInv(b)
  BY <1>7, IdleInv
<1>9. ApartInv
  BY <1>7 DEF ApartInv, LockConflict
<1>10. HolderInv
  BY <1>3 DEF HolderInv
<1>11. FilesInv
  <2>1. Stored = 1..k
    BY <1>3 DEF Stored, k
  <2> QED BY <1>3, <1>5, <1>7, <2>1 DEF FilesInv
<1>12. RowInv
  <2>1. Stored = 1..k
    BY <1>3 DEF Stored, k
  <2>2. \A t \in Table : meta[row[t].loc] = NoData
    BY <1>4, <1>5
  <2> QED BY <1>3, <1>4, <2>1, <2>2 DEF RowInv, NoData
<1>13. DueWorkIsWatched
  BY <1>4 DEF DueWorkIsWatched
<1> QED BY <1>6, <1>8, <1>9, <1>10, <1>11, <1>12, <1>13 DEF IInv

-----------------------------------------------------------------------------
\* Every step of clients, of the worker and of the clock keeps the invariant.
LEMMA Steps == ASSUME IInv, Next PROVE IInv'
<1>1. local' = local
  BY DEF Next
<1>2. CASE Tick
  BY <1>1, <1>2, ClockStep DEF Tick
<1>3. ASSUME NEW b \in Client, ClientStep(b) PROVE IInv'
  <2>1. b \in Backend
    BY DEF Backend
  <2> QED BY <1>1, <1>3, <2>1, BeginStep, ClientStatements, RebuildDropSteps DEF ClientStep
<1>4. ASSUME NEW b \in Backend, RequestCommit(b) \/ PreCommitStep(b) \/ Abort(b) PROVE IInv'
  BY <1>1, <1>4, RequestCommitStep, AttemptStep, ScanStep, UpdateStep, CommitStep, FinishStep,
     AbortStep DEF PreCommitStep
<1>5. CASE WorkerStep
  BY <1>1, <1>5, StartRunStep, RunDisabledStep, SleepSteps, MaintainStep, SkipSteps, DeferStep
  DEF WorkerStep
<1> QED BY <1>2, <1>3, <1>4, <1>5 DEF Next, Step

\* The inductive invariant of the catalog protocol holds in every reachable
\* state: types, locks, plans, private versions, file ownership, and what the
\* catalog rows say, together.
THEOREM InvariantHolds == Spec => []IInv
<1>1. Init => IInv
  BY InitialState
<1>2. IInv /\ [Next]_vars => IInv'
  <2> SUFFICES ASSUME IInv, [Next]_vars PROVE IInv'
    OBVIOUS
  <2>1. CASE Next
    BY <2>1, Steps
  <2>2. CASE UNCHANGED vars
    BY <2>2, ClockStep DEF vars
  <2> QED BY <2>1, <2>2
<1> QED BY <1>1, <1>2, PTL DEF Spec

\* No lost update, for any number of clients, tables and retries: the metadata
\* a table points at holds what its committed transactions give in commit
\* order (the compare-and-swap of TableCommitCoordinator::commit).
THEOREM SerialCommits == Spec => []CommitsAreSerial
<1>1. IInv => CommitsAreSerial
  BY DEF IInv, RowInv, CommitsAreSerial
<1> QED BY <1>1, InvariantHolds, PTL

\* Maintenance is never forgotten: completing a VACUUM clears a deadline only
\* when its token covers every data change of the published metadata.
THEOREM NothingForgotten == Spec => []MaintenanceRemembered
<1>1. IInv => MaintenanceRemembered
  BY DEF IInv, RowInv, MaintenanceRemembered
<1> QED BY <1>1, InvariantHolds, PTL

\* Every deadline in the catalog is watched: by a pending wakeup, a run under
\* way, a commit about to publish its wakeup, or the sleeping worker; or the last run
\* found maintenance switched off (auto_maintenance_enabled) and ignored it.
THEOREM DeadlinesWatched == Spec => []DueWorkIsWatched
<1>1. IInv => DueWorkIsWatched
  BY DEF IInv
<1> QED BY <1>1, InvariantHolds, PTL

\* Metadata files are accounted for: rows point at existing files, and no
\* file outlives the transaction that failed to publish it.
THEOREM FilesAccounted == Spec => []MetadataFilesAccounted
<1>1. IInv => MetadataFilesAccounted
  <2> SUFFICES ASSUME IInv PROVE MetadataFilesAccounted
    OBVIOUS
  <2>1. FilesInv /\ RowInv
    BY DEF IInv
  <2>2. \A t \in Table : row[t].loc # NoLoc => row[t].loc \in files
    BY <2>1 DEF RowInv, FilesInv
  <2>3. files = Stored \cup UNION {be[b].attempt \cup be[b].promoted : b \in Backend}
    BY <2>1 DEF FilesInv
  <2> QED BY <2>2, <2>3 DEF MetadataFilesAccounted, Stored
<1> QED BY <1>1, InvariantHolds, PTL

\* The guard of a staged TRUNCATE names the committed metadata until its
\* transaction publishes: TruncateCommitConflict is unreachable.
THEOREM GuardHolds == Spec => []TruncateGuardHolds
<1>1. IInv => TruncateGuardHolds
  BY DEF IInv, BackendInv, GuardInv, TruncateGuardHolds
<1> QED BY <1>1, InvariantHolds, PTL

\* A rejected turn of the commit loop means another transaction committed a
\* version of the table, and no loop turns more than max_commit_retries + 1
\* times.
THEOREM RetriesPaidFor == Spec => []RetriesMeanProgress
<1>1. IInv => RetriesMeanProgress
  BY DEF IInv, BackendInv, RetryInv, RetriesMeanProgress
<1> QED BY <1>1, InvariantHolds, PTL
=============================================================================
