----------------------- MODULE CatalogCommitInvariant -----------------------
(***************************************************************************)
(* The inductive invariant of CatalogCommit, what a step of one backend    *)
(* leaves to the others, what every backend may rely on, and the           *)
(* statements of a transaction: TLAPS proofs.                              *)
(*                                                                         *)
(* IInv says what every backend may rely on at each point of its           *)
(* transaction (BackendInv), which resources two backends never share      *)
(* (ApartInv, HolderInv), which files exist (FilesInv) and what the        *)
(* catalog says (RowInv).  That the other steps preserve it is shown in    *)
(* CatalogCommitLoop and CatalogCommitProofs, which concludes.             *)
(***************************************************************************)
EXTENDS CatalogCommit, WellFoundedInduction, TLAPS

\* Zenon proves most leaves, SMT the others.
USE Zenon, SMTT(30)

Running == {"open", "loop", "scan", "update", "ready"}
InTx    == Running \cup {"failed"}
Resting == {"idle", "lock", "defer"}

BackendState ==
  [pc : InTx \cup Resting \cup {"committed"}, id : Nat, start : Nat,
   plan : [Table -> Plan], lock : [Table -> 0..AccessExclusive], mine : [Table -> Row],
   todo : SUBSET Table, tbl : Nat,
   op : {"none", "cas", "finish", "rebuild", "drop", "defer"},
   retries : Nat, latest : Nat, new : Nat, seen : Nat,
   attempt : SUBSET Nat, promoted : SUBSET Nat, wakeup : BOOLEAN, since : Nat]

Metadata == [rows : SUBSET Nat, data : SUBSET Nat]
NoData   == [rows |-> {}, data |-> {}]

\* Sets of tables with a deadline.
Ignored  == SUBSET (Table \X Nat)

\* Every variable has its type.
TypeInv ==
  /\ local \subseteq Table
  /\ now \in Nat \ {0}
  /\ row \in [Table -> Row]
  /\ ver \in [Table -> Nat]
  /\ holder \in [Table -> Backend \cup {Nobody}]
  /\ meta \in Seq(Metadata)
  /\ files \in SUBSET Nat
  /\ be \in [Backend -> BackendState]
  /\ txns \in Nat
  /\ run \in [cands : SUBSET [tbl : Table, row : Row], wake : BOOLEAN,
              deadline : Int, runs : Nat, ignored : Ignored]
  /\ ideal \in [Table -> SUBSET Nat]
  /\ published \in SUBSET Nat
  /\ covered \in [Table -> SUBSET Nat]

-----------------------------------------------------------------------------
(* One backend.                                                            *)

\* Files of the initial catalog and of committed transactions.
Stored == 1..Cardinality(Table) \cup published

\* The files an abort of backend b removes.
Own(b) == IF be[b].pc = "committed" THEN {} ELSE be[b].attempt \cup be[b].promoted

\* Executing a statement, a rebuilding or dropping one included.
Stating(s) == \/ s.pc = "open"
              \/ s.pc \in {"scan", "update"} /\ s.op \in {"rebuild", "drop"}

\* Publishing the staged plan of table tbl.
Publishing(s) == s.pc = "loop" \/ (s.pc \in {"scan", "update"} /\ s.op \in {"cas", "finish"})

\* The commit loop has yet to publish what is staged for table t.
Pending(s, t) == Stating(s) \/ t \in s.todo \/ (Publishing(s) /\ t = s.tbl)

\* Control: which fields mean something at which point.
ControlInv(b) ==
  LET s == be[b]
  IN  /\ s.pc \in Resting => s = [Idle EXCEPT !.pc = s.pc]
      /\ s.pc \in {"loop", "scan", "update"} => s.tbl \in Table
      /\ s.pc = "loop" => s.op \in {"none", "cas", "finish"}
      /\ s.pc \in {"scan", "update"} => s.op # "none"
      /\ s.pc = "scan" => s.op # "defer"
      /\ s.pc = "ready" => s.op \in {"none", "defer"}
      /\ s.op \in {"cas", "finish"} =>
           s.pc \in {"loop", "scan", "update", "failed"} /\ s.tbl \in Table
      /\ s.op = "defer" =>
           /\ b = Worker /\ s.pc \in {"update", "ready", "committed"}
           /\ s.plan = Idle.plan /\ s.promoted = {}
           /\ s.todo = {}
      /\ Stating(s) => s.todo = {}
      /\ s.pc \in {"ready", "committed"} => s.todo = {}
      /\ \A t \in Table :
           t \in s.todo \/ (Publishing(s) /\ t = s.tbl) =>
             ~NothingStaged(s.plan[t]) /\ ~s.plan[t].dropped
      /\ s.pc \in Running /\ Publishing(s) => s.tbl \notin s.todo

\* Locks: what is staged is locked, and what is locked is in the catalog.
LockInv(b) ==
  LET s == be[b]
  IN  \A t \in Table :
        /\ s.pc # "committed" /\ s.plan[t] # NoPlan => s.lock[t] # 0
        /\ s.pc # "committed" /\ s.plan[t].guard # NoLoc => s.lock[t] = AccessExclusive
        /\ s.pc \in {"scan", "update"} /\ s.op \in {"rebuild", "drop"} =>
             /\ s.lock[s.tbl] = AccessExclusive
             /\ ~s.plan[s.tbl].dropped /\ ~s.plan[s.tbl].vacuum
        /\ s.pc \in Running /\ s.lock[t] # 0 /\ ~s.plan[t].dropped =>
             Visible(b, t).loc # NoLoc

\* Plans: VACUUM stands alone, with a token that names existing metadata.
PlanInv(b) ==
  \A t \in Table :
    LET p == be[b].plan[t]
    IN  p.vacuum =>
          /\ ~HasDataChange(p) /\ ~p.rebuilt /\ ~p.dropped
          /\ p.token.loc \in 1..Len(meta)

\* The attempt in hand: what it materialized, and what it may compare with.
AttemptInv(b) ==
  LET s == be[b]
      t == s.tbl
  IN  s.pc \in {"scan", "update"} =>
        /\ s.op = "cas" =>
             /\ s.new \in 1..Len(meta) /\ s.attempt = {s.new}
             /\ meta[s.new] = Applied(s.plan[t], s.id, meta[s.latest])
        /\ s.op = "finish" => s.plan[t].vacuum
        /\ s.op \in {"cas", "finish"} =>
             /\ s.latest \in 1..Len(meta)
             /\ holder[t] = b => be[b].mine[t].loc = s.latest
        /\ s.op = "rebuild" =>
             s.new \in 1..Len(meta) /\ s.new \in s.promoted /\ meta[s.new] = NoData
        /\ s.op = "defer" => \A v \in Table : holder[v] # b
        /\ s.pc = "update" =>
             /\ s.seen <= ver[t]
             /\ holder[t] # b /\ ver[t] = s.seen =>
                  /\ s.op \in {"cas", "finish"} => row[t].loc = s.latest
                  /\ s.op = "defer" => row[t].loc # NoLoc

\* Rejections of the commit loop are paid for by versions others committed.
RetryInv(b) ==
  LET s == be[b]
      t == s.tbl
  IN  /\ s.retries <= MaxRetries + 1
      /\ s.pc = "loop" => s.retries <= ver[t] - s.since
      /\ s.op \in {"cas", "finish"} => s.retries <= ver[t] - s.since + 1
      /\ s.op \in {"cas", "finish"} /\ s.pc = "scan" /\ holder[t] # b
           /\ row[t].loc # s.latest => s.retries <= ver[t] - s.since
      /\ s.op \in {"cas", "finish"} /\ s.pc = "update" =>
           s.retries <= s.seen - s.since + 1

\* The version of table t that b's transaction wrote and has not committed.
VersionInv(b, t) ==
  LET s == be[b]
      p == s.plan[t]
      r == s.mine[t]
  IN  /\ r.loc = NoLoc <=> p.dropped
      /\ r.loc = NoLoc => r.due = NoDue
      /\ r.loc # NoLoc => r.loc \in 1..Len(meta) /\ r.loc \in Stored \cup s.promoted
      /\ s.lock[t] = 0 => r.loc = row[t].loc
      /\ p.dropped => s.lock[t] = AccessExclusive
      /\ r.due \notin {NoDue, row[t].due} => s.wakeup \/ b = Worker
      /\ r.loc # NoLoc /\ Pending(s, t) =>
           p.rebuilt /\ meta[r.loc] = NoData /\ r.due = NoDue
      /\ r.loc # NoLoc /\ ~Pending(s, t) =>
           /\ meta[r.loc].rows = Alone(p, s.id, ideal[t])
           /\ r.due = NoDue =>
                meta[r.loc].data \subseteq
                  covered[t] \cup (IF p.vacuum THEN meta[p.token.loc].data ELSE {})

\* What has not been published has no effect, except through the commit loop.
UnpublishedInv(b, t) ==
  LET p == be[b].plan[t]
  IN  /\ ~p.rebuilt /\ ~p.dropped
      /\ ~Pending(be[b], t) => ~HasDataChange(p)

TablesInv(b) ==
  be[b].pc \in Running =>
    \A t \in Table : IF holder[t] = b THEN VersionInv(b, t) ELSE UnpublishedInv(b, t)

\* Metadata files of the transaction.
FileInv(b) ==
  LET s == be[b]
  IN  /\ s.attempt \cap s.promoted = {}
      /\ s.attempt # {} => s.pc \in {"scan", "update"} /\ s.op = "cas"
      /\ s.pc = "committed" => s.promoted \subseteq published
      /\ Own(b) \subseteq 1..Len(meta)
      /\ Own(b) \cap Stored = {}

\* The TRUNCATE guard.
GuardInv(b) ==
  \A t \in Table :
    be[b].plan[t].guard # NoLoc /\ holder[t] # b /\ be[b].pc # "committed"
      => row[t].loc = be[b].plan[t].guard

BackendInv(b) ==
  /\ ControlInv(b) /\ LockInv(b) /\ PlanInv(b) /\ AttemptInv(b) /\ RetryInv(b)
  /\ TablesInv(b) /\ FileInv(b) /\ GuardInv(b)

-----------------------------------------------------------------------------
(* Backends together, and the catalog.                                     *)

\* No two backends own a file, or hold conflicting locks on a table.
ApartInv ==
  \A b, c \in Backend : b # c =>
    /\ Own(b) \cap Own(c) = {}
    /\ \A t \in Table : ~LockConflict(be[b].lock[t], be[c].lock[t])

\* A tuple is held by a backend in a transaction.
HolderInv ==
  \A t \in Table : holder[t] # Nobody => be[holder[t]].pc \in InTx \cup {"committed"}

\* The files that exist, and the locations that stand for one.
FilesInv ==
  /\ \A n : n \in files <=>
       n \in Stored \/ \E b \in Backend : n \in be[b].attempt \cup be[b].promoted
  /\ Stored \subseteq 1..Len(meta)
  /\ \A c \in run.cands : c.row.loc \in 1..Len(meta)

\* The catalog: what its rows point at, and what they say of maintenance.
RowInv ==
  \A t \in Table :
    /\ row[t].loc = NoLoc => row[t].due = NoDue
    /\ row[t].loc # NoLoc =>
         /\ row[t].loc \in Stored
         /\ meta[row[t].loc].rows = ideal[t]
         /\ row[t].due = NoDue => meta[row[t].loc].data \subseteq covered[t]

IInv ==
  /\ TypeInv
  /\ \A b \in Backend : BackendInv(b)
  /\ ApartInv /\ HolderInv /\ FilesInv /\ RowInv /\ DueWorkIsWatched

-----------------------------------------------------------------------------
(* Operators.                                                              *)

\* A set of natural numbers that is not empty has a least element.
LEMMA MinIsLeast ==
  ASSUME NEW S \in SUBSET Nat, S # {}
  PROVE  Min(S) \in S /\ \A x \in S : Min(S) <= x
<1>1. \E x \in S : \A y \in S : ~ (<<y, x>> \in OpToRel(<, Nat))
  BY NatLessThanWellFounded, WFMin
<1>2. PICK x \in S : \A y \in S : ~ (<<y, x>> \in OpToRel(<, Nat))
  BY <1>1
<1>3. \A y \in S : x <= y
  <2> SUFFICES ASSUME NEW y \in S, y < x PROVE FALSE
    OBVIOUS
  <2>1. <<y, x>> \in OpToRel(<, Nat)
    BY DEF OpToRel
  <2> QED BY <1>2, <2>1
<1> QED BY <1>3 DEF Min

\* The larger of two numbers.
LEMMA MaxOfTwo ==
  ASSUME NEW x \in Int, NEW y \in Int, NEW d \in Int
  PROVE  d <= Max({x, y}) <=> d <= x \/ d <= y
<1>1. CASE x >= y
  <2>1. \A z \in {x, y} : x >= z
    BY <1>1
  <2> QED BY <2>1, <1>1 DEF Max
<1>2. CASE y > x
  <2>1. \A z \in {x, y} : y >= z
    BY <1>2
  <2> QED BY <2>1, <1>2 DEF Max
<1> QED BY <1>1, <1>2

\* What Onward does: the next table leaves todo, or the work is done.
LEMMA OnwardFields ==
  ASSUME NEW s \in BackendState, ver \in [Table -> Nat]
  PROVE  LET o == Onward(s)
         IN  /\ o \in BackendState
             /\ o.id = s.id /\ o.start = s.start /\ o.plan = s.plan /\ o.lock = s.lock
             /\ o.mine = s.mine /\ o.attempt = s.attempt /\ o.promoted = s.promoted
             /\ o.wakeup = s.wakeup
             /\ o.op = "none" /\ o.retries = 0 /\ o.pc \in {"ready", "loop"}
             /\ o.pc = "ready" => s.todo = {} /\ o.todo = {}
             /\ o.pc = "loop" => /\ o.tbl \in s.todo /\ o.todo = s.todo \ {o.tbl}
                                /\ o.since = ver[o.tbl]
<1> DEFINE o == Onward(s)
<1>1. CASE s.todo = {}
  <2>1. o = [s EXCEPT !.pc = "ready", !.op = "none", !.tbl = 0, !.retries = 0,
                      !.latest = 0, !.new = 0, !.seen = 0, !.since = 0]
    BY <1>1 DEF Onward, NoLoc
  <2>2. [s EXCEPT !.pc = "ready", !.op = "none", !.tbl = 0, !.retries = 0,
                  !.latest = 0, !.new = 0, !.seen = 0, !.since = 0] \in BackendState
    BY ZenonT(30) DEF BackendState, InTx, Running
  <2>3. /\ o.id = s.id /\ o.start = s.start /\ o.plan = s.plan /\ o.lock = s.lock
        /\ o.mine = s.mine /\ o.attempt = s.attempt /\ o.promoted = s.promoted
        /\ o.wakeup = s.wakeup /\ o.todo = s.todo
        /\ o.op = "none" /\ o.retries = 0 /\ o.pc = "ready"
    BY SMTT(30), <2>1 DEF BackendState
  <2> QED BY <1>1, <2>1, <2>2, <2>3
<1>2. CASE s.todo # {}
  <2>1. NextTable(s) \in s.todo /\ NextTable(s) \in Table /\ NextTable(s) \in Nat
    <3>1. s.todo \subseteq Table /\ Table \subseteq Nat
      BY CommitAssumption DEF BackendState
    <3>2. NextTable(s) \in s.todo
      BY <1>2, <3>1, MinIsLeast DEF NextTable
    <3> QED BY <3>1, <3>2
  <2>2. ver[NextTable(s)] \in Nat
    BY <2>1
  <2> DEFINE n == NextTable(s)
             v == ver[NextTable(s)]
  <2>3. o = [s EXCEPT !.pc = "loop", !.op = "none", !.tbl = n, !.todo = @ \ {n},
                      !.retries = 0, !.latest = 0, !.new = 0, !.seen = 0, !.since = v]
    BY <1>2 DEF Onward, NoLoc
  <2>4. n \in s.todo /\ n \in Table /\ n \in Nat /\ v \in Nat /\ v = ver[n]
    BY <2>1, <2>2
  <2> HIDE DEF n, v
  <2>5. [s EXCEPT !.pc = "loop", !.op = "none", !.tbl = n, !.todo = @ \ {n},
                  !.retries = 0, !.latest = 0, !.new = 0, !.seen = 0, !.since = v]
          \in BackendState
    BY ZenonT(30), <2>4 DEF BackendState, InTx, Running
  <2>6. /\ o.id = s.id /\ o.start = s.start /\ o.plan = s.plan /\ o.lock = s.lock
        /\ o.mine = s.mine /\ o.attempt = s.attempt /\ o.promoted = s.promoted
        /\ o.wakeup = s.wakeup /\ o.todo = s.todo \ {n} /\ o.tbl = n /\ o.since = v
        /\ o.op = "none" /\ o.retries = 0 /\ o.pc = "loop"
    BY SMTT(30), <2>3 DEF BackendState
  <2> QED BY <2>3, <2>4, <2>5, <2>6
<1> QED BY <1>1, <1>2

-----------------------------------------------------------------------------
(* What a step of one backend leaves to the others.                        *)

\* A step of b that leaves the catalog, and what other backends have, alone.
Quiet(b) ==
  /\ UNCHANGED <<row, ver, ideal, covered, published>>
  /\ \A c \in Backend : c # b => be'[c] = be[c]
  /\ Len(meta) <= Len(meta') /\ \A n \in 1..Len(meta) : meta'[n] = meta[n]
  /\ \A c \in Backend, t \in Table :
       c # b /\ be[c].pc # "committed" => (holder'[t] = c <=> holder[t] = c)

\* Metadata is only ever appended.
LEMMA Appended ==
  ASSUME NEW m \in Metadata, meta \in Seq(Metadata), meta' = Append(meta, m)
  PROVE  /\ meta' \in Seq(Metadata) /\ Len(meta') = Len(meta) + 1 /\ Len(meta) \in Nat
         /\ meta'[Len(meta')] = m
         /\ \A n \in 1..Len(meta) : meta'[n] = meta[n]
OBVIOUS

\* The versions of the other transactions survive a quiet step.
LEMMA QuietVersions ==
  ASSUME TypeInv, NEW b \in Backend, Quiet(b), FilesInv, NEW c \in Backend, c # b,
         PlanInv(c), TablesInv(c), Len(meta') \in Nat
  PROVE  TablesInv(c)'
<1>1. /\ be'[c] = be[c] /\ row' = row /\ ideal' = ideal /\ covered' = covered
      /\ Stored' = Stored
  BY DEF Quiet, Stored
<1>2. /\ Len(meta) \in Nat /\ Len(meta) <= Len(meta')
      /\ \A n \in 1..Len(meta) : n \in 1..Len(meta') /\ meta'[n] = meta[n]
  BY DEF Quiet, TypeInv
<1> SUFFICES ASSUME be[c].pc \in Running, NEW t \in Table
             PROVE  IF holder'[t] = c THEN VersionInv(c, t)' ELSE UnpublishedInv(c, t)'
  BY <1>1 DEF TablesInv
<1>3. holder'[t] = c <=> holder[t] = c
  BY DEF Quiet, Running
<1>4. CASE holder[t] = c
  <2>1. VersionInv(c, t)
    BY <1>4 DEF TablesInv
  <2>2. be[c].plan[t].vacuum => be[c].plan[t].token.loc \in 1..Len(meta)
    BY DEF PlanInv
  <2>3. VersionInv(c, t)'
    BY <2>1, <2>2, <1>1, <1>2 DEF VersionInv, Pending, Stating, Publishing
  <2> QED BY <2>3, <1>3, <1>4
<1>5. CASE holder[t] # c
  <2>1. UnpublishedInv(c, t)
    BY <1>5 DEF TablesInv
  <2>2. UnpublishedInv(c, t)'
    BY <2>1, <1>1 DEF UnpublishedInv, Pending, Stating, Publishing
  <2> QED BY <2>2, <1>3, <1>5
<1> QED BY <1>4, <1>5

\* A quiet step of b keeps the invariant of every other backend.
LEMMA QuietFrame ==
  ASSUME TypeInv, NEW b \in Backend, Quiet(b), FilesInv, NEW c \in Backend, c # b,
         BackendInv(c), Len(meta') \in Nat
  PROVE  BackendInv(c)'
<1>1. /\ be'[c] = be[c] /\ row' = row /\ ver' = ver /\ ideal' = ideal
      /\ published' = published /\ Stored' = Stored /\ Own(c)' = Own(c)
  BY DEF Quiet, Stored, Own
<1>2. /\ Len(meta) \in Nat /\ Len(meta) <= Len(meta')
      /\ \A n \in 1..Len(meta) : n \in 1..Len(meta') /\ meta'[n] = meta[n]
  BY DEF Quiet, TypeInv
<1>3. \A t \in Table : be[c].pc # "committed" => (holder'[t] = c <=> holder[t] = c)
  BY DEF Quiet
<1>4. ControlInv(c)'
  BY <1>1 DEF BackendInv, ControlInv, Stating, Publishing
<1>5. LockInv(c)'
  BY <1>1, <1>3 DEF BackendInv, LockInv, Visible, Running
<1>6. PlanInv(c)'
  BY <1>1, <1>2 DEF BackendInv, PlanInv
<1>7. AttemptInv(c)'
  <2>1. AttemptInv(c)
    BY DEF BackendInv
  <2>2. be[c].pc \in {"scan", "update"} =>
          be[c].tbl \in Table /\ \A t \in Table : holder'[t] = c <=> holder[t] = c
    BY <1>3 DEF BackendInv, ControlInv
  <2>3. be'[c] = be[c] /\ row' = row /\ ver' = ver
    BY <1>1
  <2>4. \A n \in {be[c].new, be[c].latest} :
          n \in 1..Len(meta) => n \in 1..Len(meta') /\ meta'[n] = meta[n]
    BY <1>2
  <2> QED BY ZenonT(30), <2>1, <2>2, <2>3, <2>4 DEF AttemptInv
<1>8. RetryInv(c)'
  BY <1>1, <1>3 DEF BackendInv, RetryInv, ControlInv
<1>9. TablesInv(c)'
  BY QuietVersions DEF BackendInv
<1>10. FileInv(c)'
  BY <1>1, <1>2 DEF BackendInv, FileInv
<1>11. GuardInv(c)'
  BY <1>1, <1>3 DEF BackendInv, GuardInv
<1> QED BY <1>4, <1>5, <1>6, <1>7, <1>8, <1>9, <1>10, <1>11 DEF BackendInv

\* A quiet step keeps what the catalog says.
LEMMA QuietRows ==
  ASSUME TypeInv, NEW b \in Backend, Quiet(b), FilesInv, RowInv, Len(meta') \in Nat
  PROVE  RowInv'
<1>1. /\ row' = row /\ ideal' = ideal /\ covered' = covered /\ Stored' = Stored
      /\ Stored \subseteq 1..Len(meta) /\ \A n \in 1..Len(meta) : meta'[n] = meta[n]
  BY DEF Quiet, Stored, FilesInv
<1> QED BY <1>1 DEF RowInv

\* A deadline stays watched while nobody takes back what watches it.
LEMMA QuietDue ==
  ASSUME DueWorkIsWatched, UNCHANGED <<row, now, run>>,
         be[Worker].pc # "idle" => be'[Worker].pc # "idle",
         \A c \in Backend : be[c].pc = "committed" => be'[c] = be[c]
  PROVE  DueWorkIsWatched'
BY DEF DueWorkIsWatched

\* A quiet step of b keeps the invariant, if it keeps b's own part of it.
LEMMA QuietStep ==
  ASSUME IInv, NEW b \in Backend, Quiet(b), TypeInv', BackendInv(b)',
         \A n \in Own(b)' : n \in Own(b) \/ n \notin 1..Len(meta),
         \A c \in Backend, t \in Table :
           c # b => ~LockConflict(be'[b].lock[t], be[c].lock[t]),
         HolderInv', FilesInv', DueWorkIsWatched'
  PROVE  IInv'
<1>1. Len(meta') \in Nat
  BY DEF TypeInv
<1>2. \A c \in Backend : BackendInv(c)'
  BY <1>1, QuietFrame DEF IInv
<1>3. RowInv'
  BY <1>1, QuietRows DEF IInv
<1>4. \A c \in Backend : c # b => be'[c] = be[c] /\ Own(c)' = Own(c)
  BY DEF Quiet, Own
<1>5. \A c \in Backend : Own(c) \subseteq 1..Len(meta)
  BY DEF IInv, BackendInv, FileInv
<1>6. ASSUME NEW c \in Backend, NEW d \in Backend, c # d
      PROVE  Own(c)' \cap Own(d)' = {}
  <2>1. Own(c) \cap Own(d) = {}
    BY <1>6 DEF IInv, ApartInv
  <2> QED BY <2>1, <1>4, <1>5, <1>6
<1>7. ASSUME NEW c \in Backend, NEW d \in Backend, c # d, NEW t \in Table
      PROVE  ~LockConflict(be'[c].lock[t], be'[d].lock[t])
  <2>1. ~LockConflict(be[c].lock[t], be[d].lock[t])
    BY <1>7 DEF IInv, ApartInv
  <2>2. CASE c = b
    BY <2>2, <1>4, <1>7
  <2>3. CASE d = b
    <3>1. ~LockConflict(be'[b].lock[t], be[c].lock[t])
      BY <2>3, <1>7
    <3> QED BY <3>1, <2>3, <1>4, <1>7 DEF LockConflict
  <2>4. CASE c # b /\ d # b
    BY <2>1, <2>4, <1>4
  <2> QED BY <2>2, <2>3, <2>4
<1>8. ApartInv'
  BY <1>6, <1>7 DEF ApartInv
<1> QED BY <1>2, <1>3, <1>8 DEF IInv

-----------------------------------------------------------------------------
(* One backend at a time.                                                  *)

\* The idle state has its type.
LEMMA IdleTyped ==
  /\ NoRow \in Row /\ NoPlan \in Plan /\ Idle \in BackendState
  /\ \A t \in Table : Idle.plan[t] = NoPlan /\ Idle.lock[t] = 0
  /\ NoPlan.guard = NoLoc /\ ~NoPlan.writes /\ ~NoPlan.defines /\ ~NoPlan.vacuum
  /\ ~NoPlan.rebuilt /\ ~NoPlan.dropped
BY CommitAssumption DEF NoRow, Row, NoPlan, Plan, Idle, BackendState, InTx, Running,
     Resting, NoLoc, NoDue, AccessExclusive

\* What a granted lock and a staged plan change in a backend.
LEMMA LockedFields ==
  ASSUME NEW s \in BackendState, NEW t \in Table, NEW m \in 0..AccessExclusive
  PROVE  LET l == Locked(s, t, m)
         IN  /\ l \in BackendState
             /\ l.lock = [s.lock EXCEPT ![t] = IF m > @ THEN m ELSE @]
             /\ l.pc = s.pc /\ l.id = s.id /\ l.start = s.start /\ l.plan = s.plan
             /\ l.mine = s.mine /\ l.todo = s.todo /\ l.tbl = s.tbl /\ l.op = s.op
             /\ l.retries = s.retries /\ l.latest = s.latest /\ l.new = s.new
             /\ l.seen = s.seen /\ l.attempt = s.attempt /\ l.promoted = s.promoted
             /\ l.wakeup = s.wakeup /\ l.since = s.since
<1>1. s.lock \in [Table -> 0..AccessExclusive]
  BY DEF BackendState
<1>2. [s.lock EXCEPT ![t] = IF m > @ THEN m ELSE @] \in [Table -> 0..AccessExclusive]
  BY <1>1
<1> QED BY <1>1, <1>2 DEF Locked, BackendState

\* What staging a plan for a table changes in a backend.
LEMMA PlannedFields ==
  ASSUME NEW s \in BackendState, NEW t \in Table, NEW p \in Plan
  PROVE  LET l == [s EXCEPT !.plan[t] = p]
         IN  /\ l \in BackendState /\ l.plan = [s.plan EXCEPT ![t] = p]
             /\ l.pc = s.pc /\ l.id = s.id /\ l.start = s.start /\ l.lock = s.lock
             /\ l.mine = s.mine /\ l.todo = s.todo /\ l.tbl = s.tbl /\ l.op = s.op
             /\ l.retries = s.retries /\ l.latest = s.latest /\ l.new = s.new
             /\ l.seen = s.seen /\ l.attempt = s.attempt /\ l.promoted = s.promoted
             /\ l.wakeup = s.wakeup /\ l.since = s.since
<1>1. [s.plan EXCEPT ![t] = p] \in [Table -> Plan]
  BY DEF BackendState
<1> QED BY <1>1 DEF BackendState

\* A location a running transaction sees is one of existing metadata.
LEMMA VisibleExists ==
  ASSUME IInv, NEW b \in Backend, NEW t \in Table, be[b].pc \in Running
  PROVE  /\ Visible(b, t) \in Row
         /\ Visible(b, t).loc # NoLoc => Visible(b, t).loc \in 1..Len(meta)
<1>1. be[b] \in BackendState /\ row[t] \in Row
  BY DEF IInv, TypeInv
<1>2. be[b].mine[t] \in Row
  BY <1>1 DEF BackendState
<1>3. CASE holder[t] = b
  <2>1. VersionInv(b, t)
    BY <1>3 DEF IInv, BackendInv, TablesInv
  <2> QED BY <2>1, <1>2, <1>3 DEF VersionInv, Visible
<1>4. CASE holder[t] # b
  BY <1>1, <1>4 DEF Visible, IInv, RowInv, FilesInv
<1> QED BY <1>3, <1>4

\* A holder that stays in its transaction.
LEMMA KeepsHolders ==
  ASSUME TypeInv, HolderInv, holder' = holder,
         \A c \in Backend : be[c].pc \in InTx \cup {"committed"} =>
                              be'[c].pc \in InTx \cup {"committed"}
  PROVE  HolderInv'
<1>1. \A v \in Table : holder[v] # Nobody => holder[v] \in Backend
  BY DEF TypeInv
<1> QED BY <1>1 DEF HolderInv

\* A backend between transactions has nothing: its invariant holds.
LEMMA RestingInv ==
  ASSUME NEW b \in Backend, be'[b].pc \in Resting, be'[b] = [Idle EXCEPT !.pc = be'[b].pc]
  PROVE  BackendInv(b)' /\ Own(b)' = {} /\ \A t \in Table : be'[b].lock[t] = 0
<1> DEFINE s == be'[b]
<1>1. /\ s.plan = Idle.plan /\ s.lock = Idle.lock /\ s.attempt = {} /\ s.promoted = {}
      /\ s.op = "none" /\ s.todo = {} /\ s.retries = 0
  BY ZenonT(30) DEF Idle
<1>2. s.pc \notin InTx \cup {"committed"}
  BY DEF InTx, Running, Resting
<1>3. ~Stating(s) /\ ~Publishing(s)
  BY <1>2 DEF Stating, Publishing, InTx, Running
<1>4. \A t \in Table : /\ s.plan[t] = NoPlan /\ s.lock[t] = 0
                       /\ s.plan[t].guard = NoLoc /\ ~s.plan[t].vacuum
  BY <1>1, IdleTyped
<1>5. MaxRetries \in Nat
  BY CommitAssumption
<1>6. ControlInv(b)'
  BY <1>1, <1>2, <1>3 DEF ControlInv, InTx, Running
<1>7. LockInv(b)' /\ PlanInv(b)'
  BY <1>1, <1>2, <1>4 DEF LockInv, PlanInv, InTx, Running
<1>8. AttemptInv(b)' /\ RetryInv(b)' /\ TablesInv(b)'
  BY <1>1, <1>2, <1>5 DEF AttemptInv, RetryInv, TablesInv, InTx, Running
<1>9. FileInv(b)' /\ GuardInv(b)' /\ Own(b)' = {}
  BY <1>1, <1>2, <1>4 DEF FileInv, GuardInv, Own, InTx
<1> QED BY <1>4, <1>6, <1>7, <1>8, <1>9 DEF BackendInv

\* A backend between transactions holds no catalog tuple.
LEMMA RestingHoldsNothing ==
  ASSUME HolderInv, NEW b \in Backend, be[b].pc \in Resting
  PROVE  \A t \in Table : holder[t] # b
<1>1. b # Nobody /\ be[b].pc \notin InTx \cup {"committed"}
  BY CommitAssumption DEF Backend, InTx, Running, Resting
<1> QED BY <1>1 DEF HolderInv

\* A table in the hands of the commit loop is in the catalog.
LEMMA LatestExists ==
  ASSUME IInv, NEW b \in Backend, be[b].pc \in Running, Publishing(be[b])
  PROVE  /\ be[b].tbl \in Table /\ be[b].lock[be[b].tbl] # 0
         /\ Visible(b, be[b].tbl) \in Row /\ Visible(b, be[b].tbl).loc \in 1..Len(meta)
<1> DEFINE s == be[b]
<1>1. ControlInv(b) /\ LockInv(b)
  BY DEF IInv, BackendInv
<1>2. s.tbl \in Table
  BY <1>1 DEF ControlInv, Publishing
<1>3. ~NothingStaged(s.plan[s.tbl]) /\ ~s.plan[s.tbl].dropped
  BY <1>1, <1>2 DEF ControlInv
<1>4. s.plan[s.tbl] # NoPlan
  BY <1>3, IdleTyped DEF NothingStaged, HasDataChange
<1>5. s.lock[s.tbl] # 0
  BY <1>1, <1>2, <1>4 DEF LockInv, Running
<1>6. Visible(b, s.tbl).loc # NoLoc
  BY <1>1, <1>2, <1>3, <1>5 DEF LockInv
<1> QED BY <1>2, <1>5, <1>6, VisibleExists

\* An error before the commit: the transaction keeps what it has until it
\* aborts.
LEMMA FailStep ==
  ASSUME IInv, NEW b \in Backend, be[b].pc \in Running, be[b].attempt = {},
         be[b].op # "defer", be' = [be EXCEPT ![b] = Failed(be[b])],
         UNCHANGED <<local, now, row, ver, holder, meta, files, txns, run, history>>
  PROVE  IInv'
<1> DEFINE s == be[b]
           u == Failed(s)
<1>1. TypeInv /\ s \in BackendState /\ BackendInv(b)
  BY DEF IInv, TypeInv
<1>2. /\ u \in BackendState /\ u.pc = "failed" /\ u.plan = s.plan /\ u.lock = s.lock
      /\ u.op = s.op /\ u.tbl = s.tbl /\ u.todo = s.todo /\ u.retries = s.retries
      /\ u.since = s.since /\ u.attempt = {} /\ u.promoted = s.promoted
  BY <1>1 DEF Failed, BackendState, InTx, Running
<1> HIDE DEF u
<1>3. /\ be'[b] = u /\ \A c \in Backend : c # b => be'[c] = be[c]
      /\ be' \in [Backend -> BackendState]
  BY <1>1, <1>2 DEF TypeInv, u
<1>4. /\ UNCHANGED <<local, now, row, ver, holder, meta, files, txns, run>>
      /\ UNCHANGED <<ideal, published, covered>> /\ Stored' = Stored
  BY DEF history, Stored
<1>5. TypeInv' /\ Quiet(b)
  <2>1. TypeInv'
    BY <1>1, <1>3, <1>4 DEF TypeInv
  <2> QED BY <1>1, <1>3, <1>4, <2>1 DEF Quiet, TypeInv
<1>6. Own(b)' = Own(b)
  BY <1>2, <1>3 DEF Own, Running
<1>7. ControlInv(b)'
  BY <1>1, <1>2, <1>3 DEF BackendInv, ControlInv, Stating, Publishing, Resting
<1>8. LockInv(b)'
  <2>1. LockInv(b) /\ s.pc # "committed" /\ u.pc \notin Running /\ u.pc \notin {"scan", "update"}
    BY <1>1, <1>2 DEF BackendInv, Running
  <2>2. be'[b] = u /\ u.plan = s.plan /\ u.lock = s.lock
    BY <1>2, <1>3
  <2> QED BY ZenonT(30), <2>1, <2>2 DEF LockInv
<1>9. PlanInv(b)' /\ AttemptInv(b)' /\ TablesInv(b)'
  BY <1>1, <1>2, <1>3, <1>4 DEF BackendInv, PlanInv, AttemptInv, TablesInv, Running
<1>10. RetryInv(b)'
  BY <1>1, <1>2, <1>3, <1>4 DEF BackendInv, RetryInv
<1>11. FileInv(b)'
  BY <1>1, <1>2, <1>3, <1>4, <1>6 DEF BackendInv, FileInv
<1>12. GuardInv(b)'
  <2>1. GuardInv(b) /\ s.pc # "committed"
    BY <1>1 DEF BackendInv, Running
  <2>2. be'[b] = u /\ u.plan = s.plan /\ row' = row /\ holder' = holder
    BY <1>2, <1>3, <1>4
  <2> QED BY <2>1, <2>2 DEF GuardInv
<1>13. BackendInv(b)'
  BY <1>7, <1>8, <1>9, <1>10, <1>11, <1>12 DEF BackendInv
<1>14. \A c \in Backend, v \in Table : c # b => ~LockConflict(u.lock[v], be[c].lock[v])
  BY <1>2 DEF IInv, ApartInv
<1>15. HolderInv'
  BY <1>1, <1>2, <1>3, <1>4, KeepsHolders DEF IInv, InTx
<1>16. FilesInv'
  <2>1. \A c \in Backend : be'[c].attempt = be[c].attempt /\ be'[c].promoted = be[c].promoted
    BY <1>2, <1>3
  <2> QED BY <1>4, <2>1 DEF IInv, FilesInv
<1>17. DueWorkIsWatched'
  <2>1. Worker \in Backend
    BY DEF Backend
  <2> QED BY <1>2, <1>3, <1>4, <2>1, QuietDue DEF IInv, Running
<1> QED BY <1>3, <1>5, <1>6, <1>13, <1>14, <1>15, <1>16, <1>17, QuietStep

-----------------------------------------------------------------------------
(* The statements of a transaction preserve the invariant.                 *)

\* A statement that only stages keeps the invariant: the lock it takes is
\* compatible, and a TRUNCATE guard or a VACUUM token is what it saw.
LEMMA StatementStep ==
  ASSUME IInv, NEW b \in Backend, NEW t \in Table, NEW m \in 1..AccessExclusive,
         NEW p \in Plan, CanOpen(b, t, m), Statement(b, t, m, p), local' = local,
         p.guard # NoLoc => /\ m = AccessExclusive \/ p.guard = be[b].plan[t].guard
                            /\ p.guard \in {be[b].plan[t].guard, Visible(b, t).loc},
         p.rebuilt = be[b].plan[t].rebuilt, p.dropped = be[b].plan[t].dropped,
         p.vacuum => /\ ~HasDataChange(p) /\ ~p.rebuilt /\ ~p.dropped
                     /\ p.token.loc \in 1..Len(meta)
  PROVE  IInv'
<1> DEFINE s == be[b]
           l == Locked(s, t, m)
           u == be'[b]
<1>1. TypeInv /\ s \in BackendState /\ s.pc = "open" /\ m \in 0..AccessExclusive
  BY DEF IInv, TypeInv, CanOpen, AccessExclusive
<1>2. s.plan \in [Table -> Plan] /\ s.lock \in [Table -> 0..AccessExclusive]
  BY <1>1 DEF BackendState
<1>3. /\ l \in BackendState /\ l.plan = s.plan
      /\ l.lock = [s.lock EXCEPT ![t] = IF m > @ THEN m ELSE @]
      /\ l.pc = s.pc /\ l.id = s.id /\ l.start = s.start /\ l.mine = s.mine
      /\ l.todo = s.todo /\ l.tbl = s.tbl /\ l.op = s.op /\ l.retries = s.retries
      /\ l.latest = s.latest /\ l.new = s.new /\ l.seen = s.seen
      /\ l.attempt = s.attempt /\ l.promoted = s.promoted /\ l.wakeup = s.wakeup
      /\ l.since = s.since
  BY <1>1, LockedFields
<1>4. u = [l EXCEPT !.plan[t] = p] /\ \A c \in Backend : c # b => be'[c] = be[c]
  BY <1>1 DEF Statement, Goes, TypeInv
<1>5. /\ u \in BackendState /\ u.plan = [s.plan EXCEPT ![t] = p]
      /\ u.lock = [s.lock EXCEPT ![t] = IF m > @ THEN m ELSE @]
      /\ u.pc = "open" /\ u.id = s.id /\ u.start = s.start /\ u.mine = s.mine
      /\ u.todo = s.todo /\ u.tbl = s.tbl /\ u.op = s.op /\ u.retries = s.retries
      /\ u.latest = s.latest /\ u.new = s.new /\ u.seen = s.seen
      /\ u.attempt = s.attempt /\ u.promoted = s.promoted /\ u.wakeup = s.wakeup
      /\ u.since = s.since
  BY <1>1, <1>3, <1>4, PlannedFields
<1>6. /\ UNCHANGED <<local, now, row, ver, holder, meta, files, txns, run>>
      /\ UNCHANGED <<ideal, published, covered>>
  BY DEF Statement, history
<1>7. TypeInv'
  <2>1. be' \in [Backend -> BackendState]
    BY <1>1, <1>4, <1>5 DEF Statement, Goes, TypeInv
  <2> QED BY <2>1, <1>1, <1>6 DEF TypeInv
<1>8. Quiet(b)
  BY <1>1, <1>4, <1>6 DEF Quiet, TypeInv
<1>9. Own(b)' = Own(b) /\ Stored' = Stored
  BY <1>1, <1>5, <1>6 DEF Own, Stored
<1>10. BackendInv(b)
  BY DEF IInv
<1>11. ControlInv(b)'
  BY <1>1, <1>5, <1>10 DEF BackendInv, ControlInv, Stating, Publishing, Resting
<1>12. LockInv(b)'
  <2> SUFFICES ASSUME NEW v \in Table
               PROVE  /\ u.plan[v] # NoPlan => u.lock[v] # 0
                      /\ u.plan[v].guard # NoLoc => u.lock[v] = AccessExclusive
                      /\ u.lock[v] # 0 /\ ~u.plan[v].dropped => Visible(b, v)'.loc # NoLoc
    BY <1>5 DEF LockInv
  <2>1. Visible(b, v)' = Visible(b, v)
    BY <1>5, <1>6 DEF Visible
  <2>2. CASE v = t
    <3>1. u.lock[t] = IF m > s.lock[t] THEN m ELSE s.lock[t]
      BY <1>2, <1>5
    <3>2. u.plan[t] = p /\ Visible(b, t).loc # NoLoc /\ s.lock[t] \in 0..AccessExclusive
      BY <1>2, <1>5 DEF CanOpen
    <3>3. s.plan[t].guard # NoLoc => s.lock[t] = AccessExclusive
      BY <1>1, <1>10 DEF BackendInv, LockInv
    <3> QED BY <2>1, <2>2, <3>1, <3>2, <3>3 DEF AccessExclusive
  <2>3. CASE v # t
    BY ZenonT(30), <1>1, <1>2, <1>5, <1>10, <2>1, <2>3 DEF BackendInv, LockInv, Running
  <2> QED BY <2>2, <2>3
<1>13. PlanInv(b)'
  BY <1>2, <1>5, <1>6, <1>10 DEF BackendInv, PlanInv
<1>14. AttemptInv(b)' /\ FileInv(b)'
  BY <1>1, <1>5, <1>6, <1>9, <1>10 DEF BackendInv, AttemptInv, FileInv
<1>15. RetryInv(b)'
  BY <1>1, <1>5, <1>6, <1>10 DEF BackendInv, RetryInv, ControlInv
<1>16. TablesInv(b)'
  <2> SUFFICES ASSUME NEW v \in Table
               PROVE  IF holder[v] = b THEN VersionInv(b, v)' ELSE UnpublishedInv(b, v)'
    BY <1>6 DEF TablesInv
  <2>1. Pending(s, v) /\ Pending(u, v)
    BY <1>1, <1>5 DEF Pending, Stating
  <2>2. /\ u.plan[v].dropped = s.plan[v].dropped /\ u.plan[v].rebuilt = s.plan[v].rebuilt
        /\ s.lock[v] # 0 => u.lock[v] # 0
        /\ s.lock[v] = AccessExclusive => u.lock[v] = AccessExclusive
    BY <1>2, <1>5 DEF AccessExclusive
  <2>3. CASE holder[v] = b
    <3>1. VersionInv(b, v)
      BY <1>1, <1>10, <2>3 DEF BackendInv, TablesInv, Running
    <3>2. VersionInv(b, v)'
      BY <1>5, <1>6, <1>9, <2>1, <2>2, <3>1 DEF VersionInv
    <3> QED BY <2>3, <3>2
  <2>4. CASE holder[v] # b
    <3>1. UnpublishedInv(b, v)
      BY <1>1, <1>10, <2>4 DEF BackendInv, TablesInv, Running
    <3>2. UnpublishedInv(b, v)'
      BY <2>1, <2>2, <3>1 DEF UnpublishedInv
    <3> QED BY <2>4, <3>2
  <2> QED BY <2>3, <2>4
<1>17. GuardInv(b)'
  <2>1. GuardInv(b) /\ s.pc # "committed"
    BY <1>1, <1>10 DEF BackendInv
  <2> SUFFICES ASSUME NEW v \in Table, u.plan[v].guard # NoLoc, holder[v] # b
               PROVE  row[v].loc = u.plan[v].guard
    BY <1>6 DEF GuardInv
  <2>2. s.plan[v].guard # NoLoc => row[v].loc = s.plan[v].guard
    BY <2>1 DEF GuardInv
  <2>3. v # t => u.plan[v] = s.plan[v]
    BY <1>2, <1>5
  <2>4. v = t => u.plan[v] = p /\ Visible(b, v) = row[v]
    BY <1>2, <1>5 DEF Visible
  <2> QED BY <2>2, <2>3, <2>4
<1>18. BackendInv(b)'
  BY <1>11, <1>12, <1>13, <1>14, <1>15, <1>16, <1>17 DEF BackendInv
<1>19. \A c \in Backend, v \in Table :
         c # b => ~LockConflict(u.lock[v], be[c].lock[v])
  BY <1>2, <1>5 DEF CanOpen, Grantable, IInv, ApartInv
<1>20. HolderInv'
  <2>1. \A c \in Backend : be'[c].pc = be[c].pc
    BY <1>1, <1>4, <1>5
  <2>2. \A v \in Table : holder[v] # Nobody => holder[v] \in Backend
    BY <1>1 DEF TypeInv
  <2> QED BY <2>1, <2>2, <1>6 DEF IInv, HolderInv
<1>21. FilesInv'
  <2>1. \A c \in Backend : be'[c].attempt = be[c].attempt /\ be'[c].promoted = be[c].promoted
    BY <1>4, <1>5
  <2> QED BY <2>1, <1>6, <1>9 DEF IInv, FilesInv
<1>22. DueWorkIsWatched'
  <2>1. Worker \in Backend
    BY DEF Backend
  <2> QED BY <2>1, <1>1, <1>4, <1>5, <1>6, QuietDue DEF IInv
<1> QED BY <1>7, <1>8, <1>9, <1>18, <1>19, <1>20, <1>21, <1>22, QuietStep

\* INSERT, DELETE and UPDATE (write), ALTER TABLE (define), TRUNCATE in object
\* storage and VACUUM keep the invariant.
LEMMA ClientStatements ==
  ASSUME IInv, NEW b \in Client, NEW t \in Table, local' = local,
         Write(b, t) \/ Define(b, t) \/ Truncate(b, t) \/ Vacuum(b, t)
  PROVE  IInv'
<1> DEFINE p == be[b].plan[t]
<1>1. b \in Backend /\ be[b] \in BackendState /\ p \in Plan
  <2>1. b \in Backend /\ be[b] \in BackendState
    BY DEF Backend, IInv, TypeInv
  <2> QED BY <2>1 DEF BackendState
<1>2. /\ RowExclusive \in 1..AccessExclusive /\ AccessExclusive \in 1..AccessExclusive
      /\ ShareUpdateExclusive \in 1..AccessExclusive
  BY DEF RowExclusive, AccessExclusive, ShareUpdateExclusive
<1>3. CASE Write(b, t)
  <2> DEFINE q == [p EXCEPT !.writes = TRUE]
  <2>1. CanOpen(b, t, RowExclusive) /\ Statement(b, t, RowExclusive, q) /\ ~p.vacuum
    BY <1>3 DEF Write, CanOpen
  <2>2. /\ q \in Plan /\ q.guard = p.guard /\ q.rebuilt = p.rebuilt
        /\ q.dropped = p.dropped /\ q.vacuum = p.vacuum
    BY <1>1 DEF Plan
  <2> HIDE DEF p, q
  <2> QED BY <1>1, <1>2, <2>1, <2>2, StatementStep DEF p
<1>4. CASE Define(b, t)
  <2> DEFINE q == [p EXCEPT !.defines = TRUE]
  <2>1. CanOpen(b, t, AccessExclusive) /\ Statement(b, t, AccessExclusive, q) /\ ~p.vacuum
    BY <1>4 DEF Define, CanOpen
  <2>2. /\ q \in Plan /\ q.guard = p.guard /\ q.rebuilt = p.rebuilt
        /\ q.dropped = p.dropped /\ q.vacuum = p.vacuum
    BY <1>1 DEF Plan
  <2> HIDE DEF p, q
  <2> QED BY <1>1, <1>2, <2>1, <2>2, StatementStep DEF p
<1>5. CASE Truncate(b, t)
  <2> DEFINE q == [p EXCEPT !.guard = Visible(b, t).loc, !.writes = FALSE]
  <2>1. CanOpen(b, t, AccessExclusive) /\ Statement(b, t, AccessExclusive, q) /\ ~p.vacuum
    BY <1>5 DEF Truncate, CanOpen
  <2>2. Visible(b, t).loc \in Nat
    BY <1>1, <2>1, VisibleExists DEF CanOpen, Row, Running
  <2>3. /\ q \in Plan /\ q.guard = Visible(b, t).loc /\ q.rebuilt = p.rebuilt
        /\ q.dropped = p.dropped /\ q.vacuum = p.vacuum
    BY <1>1, <2>2 DEF Plan
  <2> HIDE DEF p, q
  <2> QED BY <1>1, <1>2, <2>1, <2>3, StatementStep DEF p
<1>6. CASE Vacuum(b, t)
  <2> DEFINE q == [NoPlan EXCEPT !.vacuum = TRUE, !.token = row[t]]
  <2>1. /\ CanOpen(b, t, ShareUpdateExclusive) /\ p = NoPlan /\ be[b].pc = "open"
        /\ Statement(b, t, ShareUpdateExclusive, q)
    BY <1>6, IdleTyped DEF Vacuum, CanOpen
  <2>2. row[t] \in Row
    BY DEF IInv, TypeInv
  <2>3. /\ q \in Plan /\ q.guard = NoLoc /\ q.rebuilt = p.rebuilt /\ q.token = row[t]
        /\ q.dropped = p.dropped /\ q.vacuum /\ ~HasDataChange(q) /\ ~q.rebuilt /\ ~q.dropped
    BY <2>1, <2>2 DEF Plan, NoPlan, HasDataChange, NoLoc
  <2>4. holder[t] # b
    <3>1. SUFFICES ASSUME holder[t] = b PROVE FALSE
      OBVIOUS
    <3>2. VersionInv(b, t)
      BY <1>1, <2>1, <3>1 DEF IInv, BackendInv, TablesInv, Running
    <3> QED BY <2>1, <3>2 DEF VersionInv, Pending, Stating, NoPlan
  <2>5. row[t].loc \in 1..Len(meta)
    BY <1>1, <2>1, <2>4, VisibleExists DEF CanOpen, Visible, Running
  <2> HIDE DEF p, q
  <2> QED BY <1>1, <1>2, <2>1, <2>3, <2>5, StatementStep DEF p
<1> QED BY <1>3, <1>4, <1>5, <1>6

\* The first step of a transaction: nothing staged, or one VACUUM.
LEMMA FreshStep ==
  ASSUME IInv, NEW b \in Backend, be[b].pc \in Resting, NEW u \in BackendState,
         be' = [be EXCEPT ![b] = u], txns' \in Nat,
         UNCHANGED <<local, now, row, ver, holder, meta, files, run, history>>,
         u.pc = "open", u.todo = {}, u.op = "none", u.retries = 0,
         u.attempt = {}, u.promoted = {},
         \A t \in Table :
           /\ u.plan[t] = NoPlan \/ (u.plan[t].vacuum /\ u.lock[t] # 0)
           /\ u.lock[t] # 0 => row[t].loc # NoLoc
           /\ u.plan[t].vacuum =>
                /\ u.plan[t].token.loc \in 1..Len(meta) /\ u.plan[t].guard = NoLoc
                /\ ~u.plan[t].writes /\ ~u.plan[t].rebuilt /\ ~u.plan[t].dropped
           /\ \A c \in Backend : c # b => ~LockConflict(u.lock[t], be[c].lock[t])
  PROVE  IInv'
<1>1. TypeInv /\ be'[b] = u /\ \A c \in Backend : c # b => be'[c] = be[c]
  BY DEF IInv, TypeInv
<1>2. /\ UNCHANGED <<local, now, row, ver, holder, meta, files, run>>
      /\ UNCHANGED <<ideal, published, covered>>
  BY DEF history
<1>3. TypeInv' /\ Quiet(b)
  <2>1. be' \in [Backend -> BackendState]
    BY <1>1 DEF TypeInv
  <2>2. TypeInv'
    BY <1>1, <1>2, <2>1 DEF TypeInv
  <2> QED BY <1>1, <1>2, <2>2 DEF Quiet, TypeInv
<1>4. \A t \in Table : holder[t] # b
  BY RestingHoldsNothing DEF IInv
<1>5. MaxRetries \in Nat
  BY CommitAssumption
<1>6. \A t \in Table : ~HasDataChange(u.plan[t]) /\ ~u.plan[t].rebuilt /\ ~u.plan[t].dropped
                        /\ u.plan[t].guard = NoLoc
  BY DEF NoPlan, HasDataChange
<1>7. ControlInv(b)'
  BY <1>1 DEF ControlInv, Stating, Publishing, Resting
<1>8. LockInv(b)'
  BY ZenonT(30), <1>1, <1>2, <1>4, <1>6 DEF LockInv, Visible
<1>9. PlanInv(b)'
  BY <1>1, <1>2, <1>6 DEF PlanInv
<1>10. AttemptInv(b)' /\ RetryInv(b)' /\ GuardInv(b)'
  <2>1. AttemptInv(b)' /\ GuardInv(b)'
    BY <1>1, <1>6 DEF AttemptInv, GuardInv
  <2>2. u.retries <= MaxRetries + 1
    BY <1>5
  <2> QED BY <1>1, <2>1, <2>2 DEF RetryInv
<1>11. TablesInv(b)'
  BY <1>1, <1>2, <1>4, <1>6 DEF TablesInv, UnpublishedInv
<1>12. Own(b)' = {} /\ FileInv(b)'
  BY <1>1 DEF FileInv, Own
<1>13. BackendInv(b)'
  BY <1>7, <1>8, <1>9, <1>10, <1>11, <1>12 DEF BackendInv
<1>14. HolderInv'
  BY <1>1, <1>2, KeepsHolders DEF IInv, InTx, Running
<1>15. FilesInv'
  <2>1. be[b].attempt = {} /\ be[b].promoted = {}
    <3>1. be[b] = [Idle EXCEPT !.pc = be[b].pc]
      BY DEF IInv, BackendInv, ControlInv
    <3> QED BY <3>1 DEF Idle
  <2>2. \A c \in Backend : be'[c].attempt = be[c].attempt /\ be'[c].promoted = be[c].promoted
    BY <1>1, <2>1
  <2>3. Stored' = Stored
    BY <1>2 DEF Stored
  <2> QED BY <1>2, <2>2, <2>3 DEF IInv, FilesInv
<1>16. DueWorkIsWatched'
  <2>1. Worker \in Backend /\ \A c \in Backend : be[c].pc = "committed" => be'[c] = be[c]
    BY <1>1 DEF Backend, Resting
  <2> QED BY <1>1, <1>2, <2>1, QuietDue DEF IInv
<1> QED BY <1>1, <1>3, <1>12, <1>13, <1>14, <1>15, <1>16, QuietStep

\* A client begins a transaction.
LEMMA BeginStep ==
  ASSUME IInv, NEW b \in Client, Begin(b), local' = local
  PROVE  IInv'
<1> DEFINE u == [Idle EXCEPT !.pc = "open", !.id = txns', !.start = now]
<1>1. b \in Backend /\ be[b].pc \in Resting /\ txns' \in Nat /\ now \in Nat
  BY DEF Begin, Backend, Resting, IInv, TypeInv
<1>2. /\ u \in BackendState /\ u.pc = "open" /\ u.plan = Idle.plan /\ u.lock = Idle.lock
      /\ u.todo = {} /\ u.op = "none" /\ u.retries = 0 /\ u.attempt = {} /\ u.promoted = {}
  <2>1. u \in BackendState
    BY <1>1, IdleTyped DEF BackendState, InTx, Running
  <2> QED BY <2>1 DEF Idle
<1>3. be' = [be EXCEPT ![b] = u]
      /\ UNCHANGED <<local, now, row, ver, holder, meta, files, run, history>>
  BY DEF Begin, Goes
<1> HIDE DEF u
<1>4. \A t \in Table : u.plan[t] = NoPlan /\ u.lock[t] = 0 /\ ~u.plan[t].vacuum
  BY <1>2, IdleTyped
<1>5. \A t \in Table, c \in Backend : ~LockConflict(u.lock[t], be[c].lock[t])
  BY <1>4 DEF LockConflict
<1> QED BY ZenonT(30), <1>1, <1>2, <1>3, <1>4, <1>5, FreshStep

\* The worker locks a candidate and stages its VACUUM.
LEMMA MaintainStep ==
  ASSUME IInv, NEW c \in run.cands, Maintain(c), local' = local
  PROVE  IInv'
<1> DEFINE l == Locked(Idle, c.tbl, ShareUpdateExclusive)
           p == [NoPlan EXCEPT !.vacuum = TRUE, !.token = c.row]
           k == [l EXCEPT !.plan[c.tbl] = p]
           u == [l EXCEPT !.pc = "open", !.start = now, !.plan[c.tbl] = p]
<1>1. /\ Worker \in Backend /\ be[Worker].pc \in Resting /\ txns' \in Nat /\ now \in Nat
      /\ c.tbl \in Table /\ c.row \in Row /\ c.row.loc \in 1..Len(meta)
      /\ row[c.tbl] = c.row /\ Grantable(Worker, c.tbl, ShareUpdateExclusive)
  BY DEF Maintain, Backend, Resting, IInv, TypeInv, FilesInv
<1>2. /\ p \in Plan /\ p.vacuum /\ p.token = c.row /\ p.guard = NoLoc
      /\ ~p.writes /\ ~p.rebuilt /\ ~p.dropped
  BY <1>1 DEF Plan, NoPlan, NoLoc
<1>3. /\ l \in BackendState /\ l.plan = Idle.plan
      /\ l.lock = [Idle.lock EXCEPT ![c.tbl] = IF ShareUpdateExclusive > @ THEN ShareUpdateExclusive ELSE @]
      /\ l.todo = {} /\ l.op = "none" /\ l.retries = 0 /\ l.attempt = {} /\ l.promoted = {}
  <2>1. ShareUpdateExclusive \in 0..AccessExclusive
    BY DEF ShareUpdateExclusive, AccessExclusive
  <2>2. /\ Idle.todo = {} /\ Idle.op = "none" /\ Idle.retries = 0 /\ Idle.attempt = {}
        /\ Idle.promoted = {}
    BY DEF Idle
  <2> QED BY <1>1, <2>1, <2>2, IdleTyped, LockedFields
<1>4. /\ k \in BackendState /\ k.plan = [Idle.plan EXCEPT ![c.tbl] = p] /\ k.lock = l.lock
      /\ k.todo = {} /\ k.op = "none" /\ k.retries = 0 /\ k.attempt = {} /\ k.promoted = {}
  BY <1>1, <1>2, <1>3, PlannedFields
<1>5. u = [k EXCEPT !.pc = "open", !.start = now]
  BY <1>3 DEF BackendState
<1>6. /\ u \in BackendState /\ u.pc = "open" /\ u.plan = k.plan /\ u.lock = l.lock
      /\ u.todo = {} /\ u.op = "none" /\ u.retries = 0 /\ u.attempt = {} /\ u.promoted = {}
  BY ZenonT(30), <1>1, <1>4, <1>5 DEF BackendState, InTx, Running
<1>7. be' = [be EXCEPT ![Worker] = u]
      /\ UNCHANGED <<local, now, row, ver, holder, meta, files, run, history>>
  BY DEF Maintain, Goes
<1> HIDE DEF u, k, l, p
<1>8. \A t \in Table : /\ u.plan[t] = IF t = c.tbl THEN p ELSE NoPlan
                       /\ u.lock[t] = IF t = c.tbl THEN ShareUpdateExclusive ELSE 0
  <2>1. \A t \in Table : Idle.plan[t] = NoPlan /\ Idle.lock[t] = 0
    BY IdleTyped
  <2>2. Idle.plan \in [Table -> Plan] /\ Idle.lock \in [Table -> 0..AccessExclusive]
    BY IdleTyped DEF BackendState
  <2> QED BY <1>1, <1>3, <1>4, <1>6, <2>1, <2>2 DEF ShareUpdateExclusive
<1>9. \A t \in Table, d \in Backend : d # Worker => ~LockConflict(u.lock[t], be[d].lock[t])
  BY <1>1, <1>8 DEF Grantable, LockConflict
<1>10. \A t \in Table :
          /\ u.plan[t] = NoPlan \/ (u.plan[t].vacuum /\ u.lock[t] # 0)
          /\ u.lock[t] # 0 => row[t].loc # NoLoc
          /\ u.plan[t].vacuum =>
                /\ u.plan[t].token.loc \in 1..Len(meta) /\ u.plan[t].guard = NoLoc
                /\ ~u.plan[t].writes /\ ~u.plan[t].rebuilt /\ ~u.plan[t].dropped
          /\ \A d \in Backend : d # Worker => ~LockConflict(u.lock[t], be[d].lock[t])
  BY <1>1, <1>2, <1>8, <1>9, IdleTyped DEF NoLoc, ShareUpdateExclusive
<1> QED BY <1>1, <1>6, <1>7, <1>10, FreshStep

\* A statement that goes on to change the catalog row itself (the TRUNCATE of
\* a local table, DROP) keeps the invariant up to that update.  N is what it
\* created.
LEMMA DdlStep ==
  ASSUME IInv, NEW b \in Backend, NEW t \in Table, CanOpen(b, t, AccessExclusive),
         NEW u \in BackendState, be' = [be EXCEPT ![b] = u], NEW N \in SUBSET Nat,
         UNCHANGED <<local, now, row, ver, holder, txns, run, history>>,
         meta' \in Seq(Metadata), Len(meta) <= Len(meta'),
         \A n \in 1..Len(meta) : meta'[n] = meta[n],
         N \subseteq 1..Len(meta'), N \cap 1..Len(meta) = {}, files' = files \cup N,
         u.pc = "scan", u.op \in {"rebuild", "drop"}, u.tbl = t,
         u.lock = Locked(be[b], t, AccessExclusive).lock,
         u.plan = be[b].plan, u.mine = be[b].mine, u.todo = be[b].todo,
         u.wakeup = be[b].wakeup, u.retries \in {0, be[b].retries},
         u.attempt = be[b].attempt, u.promoted = be[b].promoted \cup N,
         u.op = "rebuild" => u.new \in N /\ meta'[u.new] = NoData
  PROVE  IInv'
<1> DEFINE s == be[b]
<1>1. TypeInv /\ s \in BackendState /\ s.pc = "open" /\ BackendInv(b)
  BY DEF IInv, TypeInv, CanOpen
<1>2. /\ be'[b] = u /\ \A c \in Backend : c # b => be'[c] = be[c]
      /\ be' \in [Backend -> BackendState]
  BY <1>1 DEF TypeInv
<1>3. /\ UNCHANGED <<local, now, row, ver, holder, txns, run>>
      /\ UNCHANGED <<ideal, published, covered>> /\ Stored' = Stored
  BY DEF history, Stored
<1>4. TypeInv' /\ Quiet(b)
  <2>1. files' \in SUBSET Nat
    BY <1>1 DEF TypeInv
  <2>2. TypeInv'
    BY <1>1, <1>2, <1>3, <2>1 DEF TypeInv
  <2> QED BY <1>1, <1>2, <1>3, <2>2 DEF Quiet
<1>5. /\ s.lock \in [Table -> 0..AccessExclusive] /\ s.plan \in [Table -> Plan]
      /\ u.lock = [s.lock EXCEPT ![t] = AccessExclusive] /\ s.retries \in Nat
  <2>1. s.lock \in [Table -> 0..AccessExclusive] /\ s.plan \in [Table -> Plan] /\ s.retries \in Nat
    BY <1>1 DEF BackendState
  <2>2. u.lock = [s.lock EXCEPT ![t] = IF AccessExclusive > @ THEN AccessExclusive ELSE @]
    <3>1. AccessExclusive \in 0..AccessExclusive
      BY DEF AccessExclusive
    <3> QED BY <1>1, <3>1, LockedFields
  <2>3. s.lock[t] \in 0..AccessExclusive
    BY <2>1
  <2>4. (IF AccessExclusive > s.lock[t] THEN AccessExclusive ELSE s.lock[t]) = AccessExclusive
    BY <2>3 DEF AccessExclusive
  <2> QED BY <2>1, <2>2, <2>4
<1>6. s.todo = {} /\ s.attempt = {} /\ s.op # "defer"
  BY <1>1 DEF BackendInv, ControlInv, FileInv, Stating
<1>7. \A v \in Table : Pending(s, v) /\ Pending(u, v)
  BY <1>1 DEF Pending, Stating
<1>8. Len(meta) \in Nat /\ Len(meta') \in Nat /\ 1..Len(meta) \subseteq 1..Len(meta')
  BY <1>1 DEF TypeInv
<1>9. Own(b) \subseteq 1..Len(meta) /\ Own(b) = s.promoted /\ Own(b)' = s.promoted \cup N
  BY <1>1, <1>2, <1>6 DEF Own, BackendInv, FileInv
<1>10. ControlInv(b)'
  BY <1>2, <1>6 DEF ControlInv, Stating, Publishing, Resting
<1>11. LockInv(b)'
  <2>1. s.plan[t].dropped = FALSE /\ s.plan[t].vacuum = FALSE /\ Visible(b, t).loc # NoLoc
    <3>1. ~s.plan[t].vacuum /\ Visible(b, t).loc # NoLoc
      BY DEF CanOpen
    <3>2. ~s.plan[t].dropped
      <4>1. CASE holder[t] = b
        BY <1>1, <3>1, <4>1 DEF BackendInv, TablesInv, VersionInv, Visible, Running
      <4>2. CASE holder[t] # b
        BY <1>1, <4>2 DEF BackendInv, TablesInv, UnpublishedInv, Running
      <4> QED BY <4>1, <4>2
    <3> QED BY <1>5, <3>1, <3>2 DEF Plan
  <2> SUFFICES ASSUME NEW v \in Table
               PROVE  /\ u.plan[v] # NoPlan => u.lock[v] # 0
                      /\ u.plan[v].guard # NoLoc => u.lock[v] = AccessExclusive
                      /\ u.lock[t] = AccessExclusive /\ ~u.plan[t].dropped /\ ~u.plan[t].vacuum
                      /\ u.lock[v] # 0 /\ ~u.plan[v].dropped => Visible(b, v)'.loc # NoLoc
    BY <1>2 DEF LockInv
  <2>2. Visible(b, v)' = Visible(b, v)
    BY <1>2, <1>3 DEF Visible
  <2>3. CASE v = t
    BY <1>5, <2>1, <2>2, <2>3 DEF AccessExclusive
  <2>4. CASE v # t
    <3>1. /\ s.plan[v] # NoPlan => s.lock[v] # 0
          /\ s.plan[v].guard # NoLoc => s.lock[v] = AccessExclusive
          /\ s.lock[v] # 0 /\ ~s.plan[v].dropped => Visible(b, v).loc # NoLoc
      BY <1>1 DEF BackendInv, LockInv, Running
    <3>2. u.lock[v] = s.lock[v] /\ u.plan[v] = s.plan[v] /\ u.lock[t] = AccessExclusive
      BY <1>5, <2>4
    <3> QED BY <2>1, <2>2, <3>1, <3>2
  <2> QED BY <2>3, <2>4
<1>12. PlanInv(b)'
  BY <1>1, <1>2, <1>8 DEF BackendInv, PlanInv
<1>13. AttemptInv(b)'
  BY <1>2, <1>8 DEF AttemptInv
<1>14. RetryInv(b)'
  <2>1. s.retries <= MaxRetries + 1 /\ MaxRetries \in Nat
    BY <1>1, CommitAssumption DEF BackendInv, RetryInv
  <2>2. u.retries <= MaxRetries + 1
    BY <2>1
  <2> QED BY <1>2, <2>2 DEF RetryInv
<1>15. TablesInv(b)'
  <2> SUFFICES ASSUME NEW v \in Table
               PROVE  IF holder[v] = b THEN VersionInv(b, v)' ELSE UnpublishedInv(b, v)'
    BY <1>3 DEF TablesInv
  <2>1. CASE holder[v] = b
    <3>1. VersionInv(b, v)
      BY <1>1, <2>1 DEF BackendInv, TablesInv, Running
    <3>2. s.lock[v] # 0 => u.lock[v] # 0
      BY <1>5 DEF AccessExclusive
    <3>3. s.lock[v] = AccessExclusive => u.lock[v] = AccessExclusive
      BY <1>5
    <3>4. VersionInv(b, v)'
      BY ZenonT(30), <1>2, <1>3, <1>7, <1>8, <3>1, <3>2, <3>3 DEF VersionInv
    <3> QED BY <2>1, <3>4
  <2>2. CASE holder[v] # b
    <3>1. UnpublishedInv(b, v)
      BY <1>1, <2>2 DEF BackendInv, TablesInv, Running
    <3>2. UnpublishedInv(b, v)'
      BY <1>2, <1>7, <3>1 DEF UnpublishedInv
    <3> QED BY <2>2, <3>2
  <2> QED BY <2>1, <2>2
<1>16. FileInv(b)'
  <2>1. Stored \subseteq 1..Len(meta) /\ Own(b) \cap Stored = {}
    BY <1>1 DEF IInv, FilesInv, BackendInv, FileInv
  <2> QED BY ZenonT(30), <1>2, <1>3, <1>6, <1>8, <1>9, <2>1 DEF FileInv
<1>17. GuardInv(b)'
  BY ZenonT(30), <1>1, <1>2, <1>3 DEF BackendInv, GuardInv
<1>18. BackendInv(b)'
  BY <1>10, <1>11, <1>12, <1>13, <1>14, <1>15, <1>16, <1>17 DEF BackendInv
<1>19. \A c \in Backend, v \in Table : c # b => ~LockConflict(u.lock[v], be[c].lock[v])
  <2> SUFFICES ASSUME NEW c \in Backend, NEW v \in Table, c # b
               PROVE  ~LockConflict(u.lock[v], be[c].lock[v])
    OBVIOUS
  <2>1. ~LockConflict(s.lock[v], be[c].lock[v]) /\ ~LockConflict(AccessExclusive, be[c].lock[t])
    BY DEF CanOpen, Grantable, IInv, ApartInv
  <2>2. u.lock[v] = IF v = t THEN AccessExclusive ELSE s.lock[v]
    BY <1>5
  <2> QED BY <2>1, <2>2
<1>20. HolderInv'
  BY <1>1, <1>2, <1>3, KeepsHolders DEF IInv, InTx, Running
<1>21. FilesInv'
  <2>1. \A n : (\E c \in Backend : n \in be'[c].attempt \cup be'[c].promoted) <=>
               n \in N \/ (\E c \in Backend : n \in be[c].attempt \cup be[c].promoted)
    BY ZenonT(30), <1>2
  <2> QED BY <1>3, <1>8, <2>1 DEF IInv, FilesInv
<1>22. DueWorkIsWatched'
  <2>1. Worker \in Backend
    BY DEF Backend
  <2> QED BY <1>1, <1>2, <1>3, <2>1, QuietDue DEF IInv
<1>23. \A n \in Own(b)' : n \in Own(b) \/ n \notin 1..Len(meta)
  BY <1>9
<1> QED BY <1>2, <1>4, <1>18, <1>19, <1>20, <1>21, <1>22, <1>23, QuietStep

\* TRUNCATE of a local table and DROP start their catalog update.
LEMMA RebuildDropSteps ==
  ASSUME IInv, NEW b \in Client, NEW t \in Table, Rebuild(b, t) \/ Drop(b, t), local' = local
  PROVE  IInv'
<1> DEFINE l == Locked(be[b], t, AccessExclusive)
<1>1. /\ b \in Backend /\ be[b] \in BackendState /\ AccessExclusive \in 0..AccessExclusive
      /\ meta \in Seq(Metadata) /\ t \in Nat
  BY CommitAssumption DEF Backend, IInv, TypeInv, AccessExclusive
<1>2. /\ l \in BackendState /\ l.plan = be[b].plan /\ l.mine = be[b].mine
      /\ l.todo = be[b].todo /\ l.wakeup = be[b].wakeup /\ l.retries = be[b].retries
      /\ l.attempt = be[b].attempt /\ l.promoted = be[b].promoted
  <2>1. be[b] \in BackendState /\ AccessExclusive \in 0..AccessExclusive
    BY <1>1
  <2>2. l \in BackendState
    BY <2>1, LockedFields
  <2> QED BY <2>1, <2>2 DEF Locked, BackendState
<1> HIDE DEF l
<1>3. CASE Rebuild(b, t)
  <2> DEFINE new == Len(meta) + 1
             u == [l EXCEPT !.pc = "scan", !.op = "rebuild", !.tbl = t, !.new = new,
                            !.retries = 0, !.promoted = @ \cup {new}]
  <2>1. /\ CanOpen(b, t, AccessExclusive) /\ be' = [be EXCEPT ![b] = u]
        /\ meta' = Append(meta, NoData) /\ files' = files \cup {new}
        /\ UNCHANGED <<local, now, row, ver, holder, txns, run, history>>
    BY <1>3 DEF Rebuild, Goes, NoData, l
  <2>2. NoData \in Metadata
    BY DEF NoData, Metadata
  <2>3. /\ meta' \in Seq(Metadata) /\ Len(meta') = Len(meta) + 1 /\ Len(meta) \in Nat
        /\ meta'[new] = NoData /\ \A n \in 1..Len(meta) : meta'[n] = meta[n]
    BY <1>1, <2>1, <2>2, Appended
  <2>4. /\ u \in BackendState /\ u.pc = "scan" /\ u.op = "rebuild" /\ u.tbl = t /\ u.new = new
        /\ u.retries = 0 /\ u.promoted = be[b].promoted \cup {new} /\ u.lock = l.lock
        /\ u.plan = be[b].plan /\ u.mine = be[b].mine /\ u.todo = be[b].todo
        /\ u.wakeup = be[b].wakeup /\ u.attempt = be[b].attempt
    <3>1. new \in Nat /\ t \in Nat
      BY <1>1, <2>3
    <3> HIDE DEF new
    <3>2. u \in BackendState
      BY <1>2, <3>1 DEF BackendState, InTx, Running
    <3> QED BY <1>2, <3>2 DEF BackendState
  <2> HIDE DEF u
  <2>5. /\ {new} \in SUBSET Nat /\ {new} \subseteq 1..Len(meta') /\ {new} \cap 1..Len(meta) = {}
        /\ Len(meta) <= Len(meta') /\ new \in {new}
    BY <2>3
  <2> HIDE DEF new
  <2> QED BY <1>1, <2>1, <2>3, <2>4, <2>5, DdlStep DEF l
<1>4. CASE Drop(b, t)
  <2> DEFINE u == [l EXCEPT !.pc = "scan", !.op = "drop", !.tbl = t]
  <2>1. /\ CanOpen(b, t, AccessExclusive) /\ be' = [be EXCEPT ![b] = u]
        /\ meta' = meta /\ files' = files \cup {}
        /\ UNCHANGED <<local, now, row, ver, holder, txns, run, history>>
    BY <1>4 DEF Drop, Goes, l
  <2>2. /\ u \in BackendState /\ u.pc = "scan" /\ u.op = "drop" /\ u.tbl = t
        /\ u.retries = be[b].retries /\ u.promoted = be[b].promoted \cup {} /\ u.lock = l.lock
        /\ u.plan = be[b].plan /\ u.mine = be[b].mine /\ u.todo = be[b].todo
        /\ u.wakeup = be[b].wakeup /\ u.attempt = be[b].attempt
    BY <1>1, <1>2 DEF BackendState, InTx, Running
  <2> HIDE DEF u
  <2>3. /\ {} \in SUBSET Nat /\ {} \subseteq 1..Len(meta') /\ {} \cap 1..Len(meta) = {}
        /\ meta' \in Seq(Metadata) /\ Len(meta) <= Len(meta')
        /\ \A n \in 1..Len(meta) : meta'[n] = meta[n] /\ u.op # "rebuild"
    BY <1>1, <2>1, <2>2
  <2> QED BY <1>1, <2>1, <2>2, <2>3, DdlStep DEF l
<1> QED BY <1>3, <1>4
=============================================================================
