---------------------------- MODULE CatalogCommit ----------------------------
(***************************************************************************)
(* Publication of table metadata by concurrent backends: the optimistic    *)
(* commit loop (TableCommitCoordinator), the iceberg_metadata catalog row  *)
(* it compares and swaps (IcebergMetadata), the maintenance deadline that  *)
(* row carries, and the automatic maintenance worker.                      *)
(*                                                                         *)
(* What a transaction staged is a record (see Plan); how staging builds it *)
(* is module TableTransaction.  A metadata file is a number, never reused. *)
(* A backend runs one step of its own code at a time; steps of different   *)
(* backends interleave, and PostgreSQL's relation and tuple locks are the  *)
(* only exclusion between them.                                            *)
(***************************************************************************)
EXTENDS Integers, Sequences, FiniteSets, FiniteSetsExt

CONSTANTS
  Client,      \* client backends
  Worker,      \* the backend of the automatic maintenance worker
  Nobody,      \* no backend
  Table,       \* tables: natural numbers, compared like relation oids
  LocalSets,   \* the choices of the tables that are in local storage
  MaxRetries,  \* lagodb_iceberg.max_commit_retries
  Naptime,     \* lagodb_iceberg.auto_maintenance_naptime
  MaxTables,   \* lagodb_iceberg.auto_maintenance_max_tables
  Work,        \* bound: the kinds of statements clients run
  MaxTxns,     \* bound: client transactions
  MaxRuns,     \* bound: worker runs
  MaxTime      \* bound: the clock

ASSUME CommitAssumption ==
  /\ Table \subseteq Nat /\ IsFiniteSet(Table) /\ LocalSets \subseteq SUBSET Table
  /\ Worker \notin Client /\ Nobody \notin Client \cup {Worker}
  /\ {MaxRetries, MaxTxns, MaxRuns, MaxTime} \subseteq Nat
  /\ {Naptime, MaxTables} \subseteq Nat \ {0}

Backend == Client \cup {Worker}
NoLoc   == 0      \* no metadata location: a dropped table, an absent guard
NoDue   == 0      \* maintenance_due_at IS NULL; due times are positive
Never   == -1     \* the worker is idle: it has no deadline of its own

\* One row of iceberg.iceberg_metadata.
Row == [loc : Nat, due : Nat]
NoRow == [loc |-> NoLoc, due |-> NoDue]

\* What a transaction has staged for one table: the data and definition
\* changes of its action log, the guard of its last TRUNCATE, the completion
\* token of its VACUUM, and whether it rebuilt or dropped the table.
Plan == [writes : BOOLEAN, defines : BOOLEAN, guard : Nat,
         vacuum : BOOLEAN, token : Row, rebuilt : BOOLEAN, dropped : BOOLEAN]
NoPlan == [writes |-> FALSE, defines |-> FALSE, guard |-> NoLoc,
           vacuum |-> FALSE, token |-> NoRow, rebuilt |-> FALSE, dropped |-> FALSE]

\* has_data_change and is_empty.
HasDataChange(p) == p.writes \/ p.guard # NoLoc
NothingStaged(p) == ~(HasDataChange(p) \/ p.defines \/ p.vacuum)

VARIABLES
  local,    \* the tables in local storage, where TRUNCATE rebuilds the table
  now,      \* the clock
  row,      \* committed catalog row of each table
  ver,      \* its tuple version
  holder,   \* the backend whose uncommitted update or delete is on the tuple
  meta,     \* contents of metadata file n: the rows and the data changes in it
  files,    \* metadata files that exist
  be,       \* state of each backend
  txns,     \* client transactions begun
  run,      \* the worker: candidates left, wake flag, deadline, runs begun, and for
            \* the properties the deadlines its last run ignored, switched off
  ideal,    \* history: the rows of each table after the committed
            \* transactions, run one after another in commit order
  published,\* history: the metadata files committed transactions created
  covered   \* history: data changes the last completed VACUUM had planned from

history == <<ideal, published, covered>>
vars == <<local, now, row, ver, holder, meta, files, be, txns, run, history>>

-----------------------------------------------------------------------------
(* Backends.                                                               *)

\* Between transactions.  pc "open": running statements; "loop": at the top
\* of the commit loop for table tbl; "build": about to materialize metadata;
\* "scan" and "update": at the two halves of a catalog update; "ready": all
\* pre-commit work done; "committed": visible, locks still held; "failed":
\* an error was raised; "lock", "defer", "schedule": the worker between
\* transactions.
Idle ==
  [pc |-> "idle", id |-> 0, start |-> 0, plan |-> [t \in Table |-> NoPlan],
   lock |-> [t \in Table |-> 0], mine |-> [t \in Table |-> NoRow],
   todo |-> {}, tbl |-> 0, op |-> "none", retries |-> 0, latest |-> NoLoc,
   new |-> NoLoc, seen |-> 0, attempt |-> {},
   promoted |-> {}, wakeup |-> FALSE, since |-> 0]

\* Relation lock modes, by their PostgreSQL numbers, and their conflicts.
RowExclusive         == 3
ShareUpdateExclusive == 4
AccessExclusive      == 8
LockConflict(m, n) ==
  /\ m # 0 /\ n # 0
  /\ \/ AccessExclusive \in {m, n}
     \/ m = ShareUpdateExclusive /\ n = ShareUpdateExclusive

Grantable(b, t, m) ==
  \A c \in Backend \ {b} : ~LockConflict(m, be[c].lock[t])

Locked(s, t, m) == [s EXCEPT !.lock[t] = IF m > @ THEN m ELSE @]

\* A fresh catalog snapshot: the committed row, or one's own newer version.
Visible(b, t) == IF holder[t] = b THEN be[b].mine[t] ELSE row[t]

\* The tables commit_all still has to publish come in relation oid order.
\* Faulty variant: an arbitrary order, here the client's preference.
NextTableAnyOrder(s) == IF s.id % 2 = 0 THEN Max(s.todo) ELSE Min(s.todo)

NextTable(s) == Min(s.todo)

\* Go on with the next table, or with the end of pre-commit.
Onward(s) ==
  IF s.todo = {}
  THEN [s EXCEPT !.pc = "ready", !.op = "none", !.tbl = 0, !.retries = 0,
                 !.latest = NoLoc, !.new = NoLoc, !.seen = 0, !.since = 0]
  ELSE [s EXCEPT !.pc = "loop", !.op = "none", !.tbl = NextTable(s),
                 !.todo = @ \ {NextTable(s)}, !.retries = 0, !.latest = NoLoc,
                 !.new = NoLoc, !.seen = 0, !.since = ver[NextTable(s)]]

Failed(s) == [s EXCEPT !.pc = "failed"]

Goes(b, s) == be' = [be EXCEPT ![b] = s]

Init ==
  /\ local \in LocalSets
  /\ now = 1
  /\ row = [t \in Table |->
              [loc |-> Cardinality({u \in Table : u <= t}), due |-> NoDue]]
  /\ ver = [t \in Table |-> 0]
  /\ holder = [t \in Table |-> Nobody]
  /\ meta = [n \in 1..Cardinality(Table) |-> [rows |-> {}, data |-> {}]]
  /\ files = 1..Cardinality(Table)
  /\ be = [b \in Backend |-> Idle]
  /\ txns = 0
  /\ run = [cands |-> {}, wake |-> FALSE, deadline |-> Never, runs |-> 0,
             ignored |-> {}]
  /\ ideal = [t \in Table |-> {}]
  /\ published = {}
  /\ covered = [t \in Table |-> {}]

Tick ==
  /\ now < MaxTime
  /\ now' = now + 1
  /\ UNCHANGED <<row, ver, holder, meta, files, be, txns, run, history>>

-----------------------------------------------------------------------------
(* Statements of a client transaction.                                     *)

Begin(b) ==
  /\ be[b].pc = "idle"
  /\ txns < MaxTxns
  /\ txns' = txns + 1
  /\ Goes(b, [Idle EXCEPT !.pc = "open", !.id = txns', !.start = now])
  /\ UNCHANGED <<now, row, ver, holder, meta, files, run, history>>

\* A statement opens table t: it is in the catalog and the lock is granted.
\* VACUUM cannot share its transaction with other statements.
CanOpen(b, t, m) ==
  /\ be[b].pc = "open"
  /\ Visible(b, t).loc # NoLoc
  /\ Grantable(b, t, m)
  /\ \A u \in Table : ~be[b].plan[u].vacuum

Statement(b, t, m, p) ==
  /\ Goes(b, [Locked(be[b], t, m) EXCEPT !.plan[t] = p])
  /\ UNCHANGED <<now, row, ver, holder, meta, files, txns, run, history>>

Write(b, t) ==
  /\ "write" \in Work
  /\ CanOpen(b, t, RowExclusive)
  /\ ~be[b].plan[t].writes
  /\ Statement(b, t, RowExclusive, [be[b].plan[t] EXCEPT !.writes = TRUE])

Define(b, t) ==
  /\ "define" \in Work
  /\ CanOpen(b, t, AccessExclusive)
  /\ ~be[b].plan[t].defines
  /\ Statement(b, t, AccessExclusive, [be[b].plan[t] EXCEPT !.defines = TRUE])

\* TRUNCATE in object storage: stage_truncate remembers the location it saw.
\* The transaction's own earlier data changes are cancelled.
\* Faulty variant: takes no stronger lock than a plain write.
TruncateWeakLock(b, t) ==
  /\ "truncate" \in Work
  /\ t \notin local
  /\ CanOpen(b, t, RowExclusive)
  /\ be[b].plan[t].guard = NoLoc
  /\ Statement(b, t, RowExclusive,
               [be[b].plan[t] EXCEPT !.guard = Visible(b, t).loc, !.writes = FALSE])

Truncate(b, t) ==
  /\ "truncate" \in Work
  /\ t \notin local
  /\ CanOpen(b, t, AccessExclusive)
  /\ be[b].plan[t].guard = NoLoc
  /\ Statement(b, t, AccessExclusive,
               [be[b].plan[t] EXCEPT !.guard = Visible(b, t).loc, !.writes = FALSE])

\* A VACUUM command: its completion token is the row it read to plan from.
Vacuum(b, t) ==
  /\ "vacuum" \in Work
  /\ CanOpen(b, t, ShareUpdateExclusive)
  /\ be[b].plan = Idle.plan
  /\ Statement(b, t, ShareUpdateExclusive,
               [NoPlan EXCEPT !.vacuum = TRUE, !.token = row[t]])

\* TRUNCATE in local storage: bootstrap an empty generation and publish it
\* (publish_rebuilt_table).  Its files belong to the transaction.
Rebuild(b, t) ==
  /\ "rebuild" \in Work
  /\ t \in local
  /\ CanOpen(b, t, AccessExclusive)
  /\ ~be[b].plan[t].rebuilt
  /\ LET new == Len(meta) + 1
     IN  /\ meta' = Append(meta, [rows |-> {}, data |-> {}])
         /\ files' = files \cup {new}
         /\ Goes(b, [Locked(be[b], t, AccessExclusive) EXCEPT
                       !.pc = "scan", !.op = "rebuild", !.tbl = t, !.new = new,
                       !.retries = 0, !.promoted = @ \cup {new}])
  /\ UNCHANGED <<now, row, ver, holder, txns, run, history>>

\* DROP TABLE: stage_drop, then delete_if_exists.
Drop(b, t) ==
  /\ "drop" \in Work
  /\ CanOpen(b, t, AccessExclusive)
  /\ Goes(b, [Locked(be[b], t, AccessExclusive) EXCEPT
                !.pc = "scan", !.op = "drop", !.tbl = t])
  /\ UNCHANGED <<now, row, ver, holder, meta, files, txns, run, history>>

-----------------------------------------------------------------------------
(* Pre-commit: TxMetadata::commit_all and TableCommitCoordinator::commit.  *)

\* Tables that were dropped or have nothing staged have no commit input.
RequestCommit(b) ==
  /\ be[b].pc = "open"
  /\ LET todo == {t \in Table : /\ ~NothingStaged(be[b].plan[t])
                                /\ ~be[b].plan[t].dropped}
     IN  Goes(b, Onward([be[b] EXCEPT !.todo = todo]))
  /\ UNCHANGED <<now, row, ver, holder, meta, files, txns, run, history>>

\* The deadline update this attempt asks for (MaintenanceScheduleUpdate).
\* Faulty variant: completes the deadline whatever the attempt is based on.
ScheduleAlwaysCompletes(s) ==
  LET p == s.plan[s.tbl]
  IN  IF p.vacuum THEN [op |-> "complete", at |-> p.token.due]
      ELSE IF HasDataChange(p) THEN [op |-> "no later", at |-> s.start + Naptime]
      ELSE [op |-> "preserve", at |-> NoDue]

Schedule(s) ==
  LET p == s.plan[s.tbl]
  IN  IF p.vacuum /\ p.token.loc = s.latest
      THEN [op |-> "complete", at |-> p.token.due]
      ELSE IF ~p.vacuum /\ HasDataChange(p)
      THEN [op |-> "no later", at |-> s.start + Naptime]
      ELSE [op |-> "preserve", at |-> NoDue]

Advances(sch, due) == sch.op = "no later" /\ (due = NoDue \/ sch.at < due)

NewDue(sch, due) ==
  IF Advances(sch, due) THEN sch.at
  ELSE IF sch.op = "complete" /\ sch.at = due THEN NoDue
  ELSE due

\* apply_to_transaction on the base metadata.
Applied(p, id, base) ==
  LET kept == IF p.guard # NoLoc THEN {} ELSE base.rows
  IN  [rows |-> IF p.writes THEN kept \cup {id} ELSE kept,
       data |-> IF HasDataChange(p) THEN base.data \cup {id} ELSE base.data]

OutOfRetries(s) == s.retries > MaxRetries

\* The location an attempt is based on is read again in every turn.
\* Faulty variant: it is read before the loop.
LatestOnce(b) ==
  IF be[b].latest # NoLoc THEN be[b].latest ELSE Visible(b, be[b].tbl).loc

Latest(b) == Visible(b, be[b].tbl).loc

\* One turn of the commit loop up to the catalog update: read the latest
\* location, check the retry limit and the TRUNCATE guard, and materialize
\* the plan on it.  Metadata files never change once written, so this is one
\* step.  A definition change or a VACUUM may leave the metadata as it is.
Attempt(b) ==
  LET s == be[b]
      p == s.plan[s.tbl]
      latest == Latest(b)
      tried == [s EXCEPT !.retries = @ + 1, !.latest = latest]
  IN  /\ s.pc = "loop"
      /\ \/ /\ \/ OutOfRetries(s)
               \/ p.guard # NoLoc /\ p.guard # latest
            /\ Goes(b, Failed(s))
            /\ UNCHANGED <<meta, files>>
         \/ /\ ~OutOfRetries(s)
            /\ p.guard \in {NoLoc, latest}
            /\ meta' = Append(meta, Applied(p, s.id, meta[latest]))
            /\ files' = files \cup {Len(meta')}
            /\ Goes(b, [tried EXCEPT !.pc = "scan", !.op = "cas",
                          !.new = Len(meta'), !.attempt = {Len(meta')}])
         \/ /\ ~OutOfRetries(s)
            /\ ~HasDataChange(p)
            /\ Goes(b, IF p.vacuum
                       THEN [tried EXCEPT !.pc = "scan", !.op = "finish",
                                          !.new = latest]
                       ELSE Onward(s))
            /\ UNCHANGED <<meta, files>>
      /\ UNCHANGED <<now, row, ver, holder, txns, run, history>>

-----------------------------------------------------------------------------
(* The optimistic catalog update, shared by cas_update, finish_maintenance, *)
(* publish_rebuilt_table, delete_if_exists and defer_maintenance.           *)

\* What the caller does with MetadataCatalogError::Conflict.
AfterConflict(s) ==
  CASE s.op = "cas"     -> [s EXCEPT !.pc = "loop", !.attempt = {}]
    [] s.op = "finish"  -> [s EXCEPT !.pc = "loop"]
    [] s.op = "rebuild" -> IF s.retries < MaxRetries
                           THEN [s EXCEPT !.pc = "scan", !.retries = @ + 1]
                           ELSE Failed(s)
    [] s.op = "drop"    -> Failed(s)
    [] s.op = "defer"   -> [Idle EXCEPT !.pc = "lock"]

\* A rejected attempt deletes the files it materialized.
Conflicted(b) ==
  /\ Goes(b, AfterConflict(be[b]))
  /\ files' = IF be[b].op = "cas" THEN files \ be[b].attempt ELSE files
  /\ UNCHANGED holder

\* Find the row and compare its location with the expected one.
Scan(b) ==
  LET s == be[b]
      r == Visible(b, s.tbl)
  IN  /\ s.pc = "scan"
      /\ IF s.op \in {"cas", "finish"} /\ r.loc # s.latest
         THEN Conflicted(b)
         ELSE /\ Goes(b, [s EXCEPT !.pc = "update", !.seen = ver[s.tbl]])
              /\ UNCHANGED <<holder, files>>
      /\ UNCHANGED <<now, row, ver, meta, txns, run, history>>

\* The version the update writes, from the version the scan found.
NewVersion(s, r) ==
  CASE s.op = "cas"     -> [loc |-> s.new, due |-> NewDue(Schedule(s), r.due)]
    [] s.op = "finish"  -> [loc |-> r.loc, due |-> NewDue(Schedule(s), r.due)]
    [] s.op = "rebuild" -> [loc |-> s.new, due |-> NoDue]
    [] s.op = "drop"    -> NoRow
    [] s.op = "defer"   -> [loc |-> r.loc, due |-> s.start + Naptime]

\* cas_update reports an advanced deadline, and pre-commit stages a wakeup.
\* Faulty variant: not for a table that had no deadline.
WakesIfEarlier(s, due) == due # NoDue /\ Advances(Schedule(s), due)

Wakes(s, due) == Advances(Schedule(s), due)

\* What the caller does once its update is on the tuple.
AfterUpdate(s, due) ==
  CASE s.op = "cas"     -> Onward([s EXCEPT !.promoted = @ \cup s.attempt,
                                    !.attempt = {},
                                    !.wakeup = @ \/ Wakes(s, due)])
    [] s.op = "finish"  -> Onward(s)
    [] s.op = "rebuild" -> [s EXCEPT !.pc = "open",
                              !.plan[s.tbl] = [NoPlan EXCEPT !.rebuilt = TRUE]]
    [] s.op = "drop"    -> [s EXCEPT !.pc = "open", !.plan[s.tbl].dropped = TRUE]
    [] s.op = "defer"   -> [s EXCEPT !.pc = "ready"]

\* A concurrent uncommitted update makes this one wait for its outcome.
MustWait(b, t) ==
  /\ holder[t] \notin {Nobody, b}
  /\ be[holder[t]].pc # "committed"

\* catalog_update_optimistic and catalog_delete: wait for a concurrent
\* updater, then succeed unless it committed a newer version.
\* Faulty variant: overwrites whatever version is there.
UpdateBlindly(b) ==
  LET s == be[b]
      t == s.tbl
      r == Visible(b, t)
  IN  /\ s.pc = "update"
      /\ ~MustWait(b, t)
      /\ holder' = [holder EXCEPT ![t] = b]
      /\ Goes(b, [AfterUpdate(s, r.due) EXCEPT !.mine[t] = NewVersion(s, r)])
      /\ UNCHANGED <<now, row, ver, meta, files, txns, run, history>>

Update(b) ==
  LET s == be[b]
      t == s.tbl
      r == Visible(b, t)
  IN  /\ s.pc = "update"
      /\ ~MustWait(b, t)
      /\ IF holder[t] # b /\ ver[t] # s.seen
         THEN Conflicted(b)
         ELSE /\ holder' = [holder EXCEPT ![t] = b]
              /\ Goes(b, [AfterUpdate(s, r.due) EXCEPT
                            !.mine[t] = NewVersion(s, r)])
              /\ UNCHANGED files
      /\ UNCHANGED <<now, row, ver, meta, txns, run, history>>

-----------------------------------------------------------------------------
(* End of the transaction.                                                 *)

\* The worker goes on with its next candidate; after a failed maintenance
\* transaction it defers the candidate first.
Between(b, aborted) ==
  [Idle EXCEPT !.pc = IF b # Worker THEN "idle"
                      ELSE IF aborted /\ be[b].op # "defer" THEN "defer"
                      ELSE "lock"]

\* The rows a transaction with plan p leaves when nothing runs beside it.
Alone(p, id, rows) ==
  LET kept == IF p.rebuilt \/ p.guard # NoLoc THEN {} ELSE rows
  IN  IF p.writes THEN kept \cup {id} ELSE kept

\* Every version this transaction wrote becomes visible at once.
Commit(b) ==
  LET s == be[b]
      mine == {t \in Table : holder[t] = b}
  IN  /\ s.pc = "ready"
      /\ row' = [t \in Table |-> IF t \in mine THEN s.mine[t] ELSE row[t]]
      /\ ver' = [t \in Table |-> IF t \in mine THEN ver[t] + 1 ELSE ver[t]]
      /\ ideal' = [t \in Table |-> Alone(s.plan[t], s.id, ideal[t])]
      /\ published' = published \cup s.promoted
      /\ covered' = [t \in Table |->
                       IF s.plan[t].vacuum
                       THEN covered[t] \cup meta[s.plan[t].token.loc].data
                       ELSE covered[t]]
      /\ Goes(b, [s EXCEPT !.pc = "committed"])
      /\ UNCHANGED <<now, holder, meta, files, txns, run>>

\* Commit callbacks publish the staged wakeup, then locks are released.
Finish(b) ==
  /\ be[b].pc = "committed"
  /\ holder' = [t \in Table |-> IF holder[t] = b THEN Nobody ELSE holder[t]]
  /\ run' = [run EXCEPT !.wake = @ \/ be[b].wakeup,
                         !.cands = {c \in @ : b # Worker \/ ~be[b].plan[c.tbl].vacuum}]
  /\ Goes(b, Between(b, FALSE))
  /\ UNCHANGED <<now, row, ver, meta, files, txns, history>>

\* ROLLBACK, or an error at any point before the commit: the files the
\* transaction created are deleted.
\* Faulty variant: the files of promoted attempts stay behind.
AbortKeepsPromoted(b) ==
  /\ be[b].pc \in {"open", "loop", "scan", "update", "ready", "failed"}
  /\ holder' = [t \in Table |-> IF holder[t] = b THEN Nobody ELSE holder[t]]
  /\ files' = files \ be[b].attempt
  /\ Goes(b, Between(b, TRUE))
  /\ UNCHANGED <<now, row, ver, meta, txns, run, history>>

Abort(b) ==
  /\ be[b].pc \in {"open", "loop", "scan", "update", "ready", "failed"}
  /\ holder' = [t \in Table |-> IF holder[t] = b THEN Nobody ELSE holder[t]]
  /\ files' = files \ (be[b].attempt \cup be[b].promoted)
  /\ Goes(b, Between(b, TRUE))
  /\ UNCHANGED <<now, row, ver, meta, txns, run, history>>

-----------------------------------------------------------------------------
(* The automatic maintenance worker.                                       *)

\* A run starts on a wakeup or at its deadline, and loads the earliest due
\* tables (maintenance_candidates).
StartRun ==
  /\ be[Worker].pc = "idle"
  /\ run.runs < MaxRuns
  /\ run.wake \/ run.deadline \in 1..now
  /\ LET due == {t \in Table : row[t].due # NoDue /\ row[t].due <= now}
         cand(t) == [tbl |-> t, row |-> row[t]]
     IN  \E S \in SUBSET due :
           /\ Cardinality(S) = Min({MaxTables, Cardinality(due)})
           /\ \A t \in S, u \in due \ S : row[t].due <= row[u].due
           /\ run' = [cands |-> {cand(t) : t \in S}, wake |-> FALSE,
                      deadline |-> Never, runs |-> run.runs + 1, ignored |-> {}]
  /\ Goes(Worker, [Idle EXCEPT !.pc = "lock"])
  /\ UNCHANGED <<now, row, ver, holder, meta, files, txns, history>>

\* A run that finds auto_maintenance_enabled off, which it is by default, takes the
\* wakeup or the deadline it was started for and goes idle.  The setting may be
\* another one at every run.
RunDisabled ==
  /\ be[Worker].pc = "idle"
  /\ run.runs < MaxRuns
  /\ run.wake \/ run.deadline \in 1..now
  /\ run' = [cands |-> {}, wake |-> FALSE, deadline |-> Never, runs |-> run.runs + 1,
             ignored |-> {<<t, row[t].due>> : t \in Table}]
  /\ UNCHANGED <<now, row, ver, holder, meta, files, be, txns, history>>

\* The candidate in hand is the earliest one left.
IsNext(c) == c \in run.cands /\ \A d \in run.cands : c.row.due <= d.row.due

\* maintain_relation for a candidate whose relation lock is free and which
\* still matches the catalog: stage a VACUUM of it.
Maintain(c) ==
  /\ be[Worker].pc = "lock" /\ IsNext(c)
  /\ Grantable(Worker, c.tbl, ShareUpdateExclusive)
  /\ row[c.tbl] = c.row
  /\ Goes(Worker, [Locked(Idle, c.tbl, ShareUpdateExclusive) EXCEPT
                     !.pc = "open", !.start = now,
                     !.plan[c.tbl] = [NoPlan EXCEPT !.vacuum = TRUE, !.token = c.row]])
  /\ UNCHANGED <<now, row, ver, holder, meta, files, txns, run, history>>

\* LockSkipped, or the relation is gone: defer the candidate.
SkipLocked(c) ==
  /\ be[Worker].pc = "lock" /\ IsNext(c)
  /\ \/ ~Grantable(Worker, c.tbl, ShareUpdateExclusive)
     \/ row[c.tbl].loc = NoLoc
  /\ Goes(Worker, [Idle EXCEPT !.pc = "defer"])
  /\ UNCHANGED <<now, row, ver, holder, meta, files, txns, run, history>>

\* StaleCandidate: leave it to a later run.
SkipStale(c) ==
  /\ be[Worker].pc = "lock" /\ IsNext(c)
  /\ Grantable(Worker, c.tbl, ShareUpdateExclusive)
  /\ row[c.tbl] # c.row /\ row[c.tbl].loc # NoLoc
  /\ run' = [run EXCEPT !.cands = @ \ {c}]
  /\ UNCHANGED <<now, row, ver, holder, meta, files, be, txns, history>>

\* defer_maintenance, in a transaction of its own and without the relation
\* lock: postpone the row unless it has changed since it was a candidate.
Defer(c) ==
  /\ be[Worker].pc = "defer" /\ IsNext(c)
  /\ Goes(Worker, IF row[c.tbl] = c.row
                  THEN [Idle EXCEPT !.pc = "update", !.op = "defer", !.start = now,
                                    !.tbl = c.tbl, !.seen = ver[c.tbl]]
                  ELSE [Idle EXCEPT !.pc = "lock"])
  /\ run' = [run EXCEPT !.cands = @ \ {c}]
  /\ UNCHANGED <<now, row, ver, holder, meta, files, txns, history>>

\* The candidates, or the next deadline, cannot be read: try again later.
RunFails ==
  /\ \/ be[Worker].pc = "idle" /\ (run.wake \/ run.deadline \in 1..now)
     \/ be[Worker].pc = "lock" /\ run.cands = {}
  /\ run.runs < MaxRuns
  /\ run' = [cands |-> {}, wake |-> run.wake /\ be[Worker].pc = "lock",
             deadline |-> now + Naptime, runs |-> run.runs + 1, ignored |-> {}]
  /\ Goes(Worker, Idle)
  /\ UNCHANGED <<now, row, ver, holder, meta, files, txns, history>>

\* next_worker_schedule: sleep until the earliest deadline in the catalog.
NextSchedule ==
  /\ be[Worker].pc = "lock"
  /\ run.cands = {}
  /\ LET dues == {row[t].due : t \in Table} \ {NoDue}
     IN  run' = [run EXCEPT !.deadline = IF dues = {} THEN Never ELSE Min(dues)]
  /\ Goes(Worker, Idle)
  /\ UNCHANGED <<now, row, ver, holder, meta, files, txns, history>>

-----------------------------------------------------------------------------
PreCommitStep(b) ==
  Attempt(b) \/ Scan(b) \/ Update(b) \/ Commit(b) \/ Finish(b)

ClientStep(b) ==
  \/ Begin(b)
  \/ \E t \in Table : \/ Write(b, t) \/ Define(b, t) \/ Truncate(b, t)
                      \/ Vacuum(b, t) \/ Rebuild(b, t) \/ Drop(b, t)

WorkerStep ==
  \/ StartRun \/ RunDisabled \/ RunFails \/ NextSchedule
  \/ \E c \in run.cands :
       Maintain(c) \/ SkipLocked(c) \/ SkipStale(c) \/ Defer(c)

Step ==
  \/ Tick
  \/ \E b \in Client : ClientStep(b)
  \/ \E b \in Backend : RequestCommit(b) \/ PreCommitStep(b) \/ Abort(b)
  \/ WorkerStep

Next == Step /\ UNCHANGED local

Spec == Init /\ [][Next]_vars

\* PostgreSQL itself rolls back a transaction that raised an error.
AbortFailed(b) == be[b].pc = "failed" /\ Abort(b)

\* Once pre-commit work has begun a backend runs it to the end, or to the abort
\* after its failure: it waits for nothing but catalog tuples.
FairSpec ==
  /\ Spec
  /\ \A b \in Backend : WF_vars((PreCommitStep(b) \/ AbortFailed(b)) /\ UNCHANGED local)

-----------------------------------------------------------------------------
\* No lost update: the metadata every table points at holds exactly what the
\* committed transactions give when they run one after another in commit
\* order (compare-and-swap of TableCommitCoordinator::commit).
CommitsAreSerial ==
  \A t \in Table : row[t].loc # NoLoc => meta[row[t].loc].rows = ideal[t]

\* Maintenance is never forgotten: a table without a deadline has no data
\* change that a completed VACUUM had not planned from (the completion token
\* of PreparedVacuum against a concurrent ScheduleNoLaterThan).
MaintenanceRemembered ==
  \A t \in Table :
    row[t].loc # NoLoc /\ row[t].due = NoDue => meta[row[t].loc].data \subseteq covered[t]

\* A deadline in the catalog has a worker that will look at it: a wakeup is
\* pending, a run that has yet to read the next deadline is under way, or
\* the worker sleeps no longer than the deadline or one naptime.  A run that finds
\* maintenance switched off keeps no deadline; those it ignored wait for the next
\* wakeup, but one that is set or moved after it is watched again.
DueWorkIsWatched ==
  \A t \in Table : row[t].due # NoDue =>
    \/ run.wake
    \/ be[Worker].pc # "idle"
    \/ \E b \in Backend : be[b].pc = "committed" /\ be[b].wakeup
    \/ run.deadline # Never /\ run.deadline <= Max({row[t].due, now + Naptime})
    \/ <<t, row[t].due>> \in run.ignored

\* Metadata files: the catalog only points at files that exist, and a file
\* exists only because a committed transaction published it or a running one
\* still owns it (discard and promote of MetadataMaterializationAttempt).
MetadataFilesAccounted ==
  /\ \A t \in Table : row[t].loc # NoLoc => row[t].loc \in files
  /\ files = 1..Cardinality(Table)
             \cup published
             \cup UNION {be[b].attempt \cup be[b].promoted : b \in Backend}

\* The relation locks keep the TRUNCATE guard true until the transaction
\* publishes the table: TruncateCommitConflict is never raised.
TruncateGuardHolds ==
  \A b \in Backend, t \in Table :
    be[b].plan[t].guard # NoLoc /\ holder[t] # b /\ be[b].pc # "committed"
      => row[t].loc = be[b].plan[t].guard

\* Every rejected turn of the commit loop was caused by a version that some
\* other transaction committed during it, so MetadataCommitConflict means
\* that max_commit_retries + 1 others went ahead; no loop turns more often.
RetriesMeanProgress ==
  \A b \in Backend :
    LET others == ver[be[b].tbl] - be[b].since
    IN  /\ be[b].retries <= MaxRetries + 1
        /\ be[b].pc = "loop" => be[b].retries <= others
        /\ be[b].op \in {"cas", "finish"} => be[b].retries <= others + 1

\* Pre-commit work ends: the commit loop neither blocks for ever on a catalog
\* tuple nor retries for ever, and a transaction that fails in it is rolled back.
PreCommitEnds ==
  \A b \in Client :
    []<>(be[b].pc \in {"idle", "open"})
=============================================================================
