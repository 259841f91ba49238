-------------------------- MODULE TableTransaction --------------------------
(***************************************************************************)
(* TxMetadata for one managed table: the staging operations of statements  *)
(* and DDL, and the transaction callbacks that PostgreSQL's transaction    *)
(* manager fires at savepoints and at the end of the transaction.          *)
(*                                                                         *)
(* A backend is single threaded, so one staging call or one callback is    *)
(* one step.  The tables of a transaction are tracked independently and    *)
(* get the same callbacks, so one table is modelled.                       *)
(***************************************************************************)
EXTENDS ActionLog

CONSTANTS
  MaxLevel,    \* bound: deepest transaction nest level
  MaxCommands  \* bound: staging commands in one transaction

ASSUME BoundsAssumption ==
  /\ MaxLevel \in Nat \ {0}
  /\ MaxCommands \in Nat

VARIABLES
  kind,    \* "local": TRUNCATE rebuilds the table directory;
           \* "object": TRUNCATE is staged as an action
  level,   \* GetCurrentTransactionNestLevel()
  cid,     \* staging commands run so far; savepoint aborts do not rewind it
  failed,  \* a statement raised an error: PostgreSQL will abort this level
  table    \* the ManagedTableState

vars == <<kind, level, cid, failed, table>>

Init ==
  /\ kind \in {"local", "object"}
  /\ level = 1
  /\ cid = 0
  /\ failed = FALSE
  /\ table = NewTable

\* A statement can run and open the relation: no error is pending and DROP
\* TABLE has not removed it from the PostgreSQL catalog.
Command ==
  /\ ~failed
  /\ ~IsDropped(table.txn.log)
  /\ cid < MaxCommands
  /\ cid' = cid + 1

-----------------------------------------------------------------------------
(* Staging.                                                                *)

\* stage_table_mutation: the first mutation remembers the FileIO, then the
\* mutation either records itself or reports a conflict and changes no log.
Staged(after) ==
  /\ table' = [table EXCEPT !.fileIo = TRUE, !.txn = Recorded(@, level, after)]
  /\ UNCHANGED <<kind, level, failed>>

Rejected ==
  /\ table' = [table EXCEPT !.fileIo = TRUE]
  /\ failed' = TRUE
  /\ UNCHANGED <<kind, level>>

\* Faulty variant: does not look for an exclusive action first.
MutateUnchecked(after) == Staged(after)

\* record_action_mutation around a log operation.
Mutate(after) ==
  \/ /\ HasExclusive(table.txn.log)
     /\ Rejected
  \/ /\ ~HasExclusive(table.txn.log)
     /\ Staged(after)

StageBatch ==
  /\ Command
  /\ \E b \in Batch : Mutate(WithBatch(table.txn.log, b))

\* A batch or schema update that turns out empty stages nothing.
StageNothing ==
  /\ Command
  /\ table' = [table EXCEPT !.fileIo = TRUE]
  /\ UNCHANGED <<kind, level, failed>>

StageSchema ==
  /\ Command
  /\ \E t \in Tag : Mutate(WithAction(table.txn.log, "schema", t))

StageProperties ==
  /\ Command
  /\ \E t \in Tag : Mutate(WithAction(table.txn.log, "properties", t))

\* TRUNCATE of a table in object storage.
StageTruncate ==
  /\ Command
  /\ kind = "object"
  /\ \E t \in Tag : Mutate(WithAction(table.txn.log, "truncate", t))

\* Faulty variant: accepts a table whose generation this transaction created.
StageVacuumOnRebuilt ==
  /\ Command
  /\ \/ /\ table.txn.log # <<>>
        /\ Rejected
     \/ /\ table.txn.log = <<>>
        /\ \E t \in Tag : Staged(WithAction(table.txn.log, "exclusive", t))

\* VACUUM stages one aggregate action, which tolerates no other action.  Its
\* first check runs before stage_table_mutation and remembers no FileIO.
StageVacuum ==
  /\ Command
  /\ \/ /\ WasRebuilt(table)
        /\ failed' = TRUE
        /\ UNCHANGED <<kind, level, table>>
     \/ /\ ~WasRebuilt(table)
        /\ table.txn.log # <<>>
        /\ Rejected
     \/ /\ ~WasRebuilt(table)
        /\ table.txn.log = <<>>
        /\ \E t \in Tag : Staged(WithAction(table.txn.log, "exclusive", t))

\* CREATE TABLE and TRUNCATE of a local table publish a new generation through
\* the PostgreSQL catalog and start a fresh log for it.
LocalRebuild ==
  /\ Command
  /\ kind = "local"
  /\ IF HasExclusive(table.txn.log)
     THEN failed' = TRUE /\ UNCHANGED table
     ELSE table' = WithRebuild(table, level) /\ UNCHANGED failed
  /\ UNCHANGED <<kind, level>>

\* DROP TABLE goes to record_drop directly and never remembers a FileIO.
StageDrop ==
  /\ Command
  /\ \/ /\ HasExclusive(table.txn.log)
        /\ failed' = TRUE
        /\ UNCHANGED table
     \/ /\ ~HasExclusive(table.txn.log)
        /\ table' = [table EXCEPT !.txn =
                       Recorded(@, level, WithAction(@.log, "drop", NoTag))]
        /\ UNCHANGED failed
  /\ UNCHANGED <<kind, level>>

-----------------------------------------------------------------------------
(* Transaction callbacks.                                                  *)

Savepoint ==
  /\ ~failed
  /\ level < MaxLevel
  /\ level' = level + 1
  /\ UNCHANGED <<kind, cid, failed, table>>

\* on_commit_sub
CommitSub ==
  /\ ~failed
  /\ level > 1
  /\ table' = PromoteTable(table, level)
  /\ level' = level - 1
  /\ UNCHANGED <<kind, cid, failed>>

\* on_abort_sub: after an error, or by ROLLBACK TO SAVEPOINT.
AbortSub ==
  /\ level > 1
  /\ table' = RollbackTable(table, level)
  /\ level' = level - 1
  /\ failed' = FALSE
  /\ UNCHANGED <<kind, cid>>

EndTransaction ==
  /\ level' = 1
  /\ cid' = 0
  /\ failed' = FALSE
  /\ table' = NewTable
  /\ UNCHANGED kind

\* commit_input and the invariant errors of commit_plan.
NothingToCommit(t) == IsEmpty(t.txn.log) \/ IsDropped(t.txn.log)

CommitInputFails(t) == ~NothingToCommit(t) /\ ~t.fileIo

CommitPlanFails(log) ==
  IF log # <<>> /\ log[1].kind = "exclusive"
  THEN Len(log) # 1
  ELSE \E i \in 1..Len(log) : log[i].kind \in {"exclusive", "drop"}

CommitFails(t) ==
  ~NothingToCommit(t) /\ (CommitInputFails(t) \/ CommitPlanFails(t.txn.log))

\* on_pre_commit, then on_commit.  What publication does is CatalogCommit.
Commit ==
  /\ ~failed
  /\ level = 1
  /\ \/ /\ CommitFails(table)
        /\ failed' = TRUE
        /\ UNCHANGED <<kind, level, cid, table>>
     \/ /\ ~CommitFails(table)
        /\ EndTransaction

\* on_pre_prepare refuses a transaction with changes; otherwise on_prepare.
Prepare ==
  /\ ~failed
  /\ level = 1
  /\ IF HasChanges(table)
     THEN failed' = TRUE /\ UNCHANGED <<kind, level, cid, table>>
     ELSE EndTransaction

\* on_abort.  PostgreSQL aborts the open subtransactions first, one by one.
AbortTransaction ==
  /\ level = 1
  /\ EndTransaction

Next ==
  \/ StageBatch \/ StageNothing \/ StageSchema \/ StageProperties
  \/ StageTruncate \/ StageVacuum \/ LocalRebuild \/ StageDrop
  \/ Savepoint \/ CommitSub \/ AbortSub
  \/ Commit \/ Prepare \/ AbortTransaction

Spec == Init /\ [][Next]_vars

-----------------------------------------------------------------------------
(* Types.                                                                  *)

\* The tracked state of a table (ManagedTableState) keeps its shape.
TypeOK ==
  /\ kind \in {"local", "object"}
  /\ level \in 1..MaxLevel
  /\ cid \in 0..MaxCommands
  /\ failed \in BOOLEAN
  /\ table \in ManagedTableState

-----------------------------------------------------------------------------
(* The savepoint history.                                                  *)

\* The undo information of level_history and rebuild_history is always usable:
\* every marker points into the log it was taken of, markers and levels grow
\* along the history, a savepoint owns at most one rebuild frame and with it
\* the generation that followed, and each retired generation's log would still
\* commit if its savepoint were undone.
HistoryInv == UsableHistory(table, level)

\* commit_all never meets one of its "invariant violated" or "without FileIO"
\* errors, whatever statements, savepoints, errors and rollbacks preceded it.
CommitNeverFails == ~CommitFails(table)

\* VACUUM replans from the committed table, so it never shares a transaction
\* with another change of the table or with a generation the catalog does not
\* show to others yet (stage_vacuum, prepare_local_rebuild).
VacuumStandsAlone ==
  HasExclusive(table.txn.log) =>
    /\ Len(table.txn.log) = 1
    /\ ~WasRebuilt(table)
    /\ table.rebuilds = <<>>

-----------------------------------------------------------------------------
(* Savepoints.                                                             *)

Savepoints ==
  INSTANCE SavepointStack WITH
    Contents  <- [log : Seq(Action), rebuilt : BOOLEAN],
    Untouched <- ContentOf(NewTable),
    current   <- ContentOf(table),
    saved     <- [i \in 1..(level - 1) |-> ContentOf(RollbackTable(table, i + 1))]

\* ROLLBACK TO SAVEPOINT brings back exactly the staged actions and the table
\* generation of the moment the savepoint was opened, and RELEASE loses
\* nothing, also for siblings, nested savepoints and rebuilt generations.
SavepointsRestore == Savepoints!Spec
=============================================================================
