------------------------------ MODULE RowWrites ------------------------------
(***************************************************************************)
(* Reading and changing the rows of one Iceberg table inside a PostgreSQL  *)
(* transaction: the reader overlay of the action log with its caches       *)
(* (TxTableActionLog, TxDataEpoch), the row registry that stands in for    *)
(* the tuple headers a heap would have (RelationRowRegistry), and the      *)
(* modify states of the running statements (MutationSinks,                 *)
(* IcebergModifyState, ForeignModifyState).                                *)
(*                                                                         *)
(* A trigger or a function called by a statement may run further           *)
(* statements and subtransactions on the same table before the calling     *)
(* statement goes on; the query stack has the innermost statement last.    *)
(* Row deletes are those of format version 2, one position-delete file per *)
(* data file.                                                              *)
(***************************************************************************)
EXTENDS Integers, Sequences, FiniteSets
LOCAL INSTANCE SequencesExt

CONSTANTS
  BaseRows,   \* rows of the one data file the table has before
  MaxFiles,   \* MAX_ICEBERG_FILES
  MaxDepth,   \* bound: statements nested in one another
  MaxLevel,   \* bound: transaction nest level
  Workloads   \* bound: how much of each operation a behaviour has, and the
              \* ModifyTable nodes of one statement: a set of records
              \* [queries, claims, reads, subs, ddl, nodes]

VARIABLES
  left,       \* what is left of the workload
  level,      \* GetCurrentTransactionNestLevel()
  command,    \* the current command id
  txn,        \* TableTransactionState: the log and its savepoint history
  cache,      \* the caches of the log and of its data epochs
  registry,   \* RelationRowRegistryInner
  bitmap,     \* OwnedRowPositions: the positions each modify state owns per file
  queries,    \* the running statements, innermost last
  created,    \* data files written so far
  facts,      \* history: what ended statements did and no rollback undid
  over        \* the transaction has ended

vars == <<left, level, command, txn, cache, registry, bitmap, queries, created,
          facts, over>>

\* A data file is its path and its number of rows; a row is a path and a position.
File == Nat \X Nat
Row  == Nat \X Nat
RowsOf(files) == UNION {{f[1]} \X (1..f[2]) : f \in files}
BaseFile == <<0, BaseRows>>

\* TxWriteBatch; the tag of a truncate action is its command id.
WriteBatch == [cid : Nat, adds : SUBSET File, dels : SUBSET Row]
Tx == INSTANCE ActionLog WITH Batch <- WriteBatch, Tag <- Nat, NoTag <- -1

log == txn.log

-----------------------------------------------------------------------------
(* SnapshotDelta (iceberg-lite): the data files and deletes laid over the  *)
(* base, and whether the base itself is cut off.                           *)

EmptyDelta == [cut |-> FALSE, adds |-> {}, dels |-> {}]

AppendDelta(d, e) == [d EXCEPT !.adds = @ \cup e.adds, !.dels = @ \cup e.dels]

TruncateTable == [cut |-> TRUE, adds |-> {}, dels |-> {}]

\* The rows a scan with the overlay d returns.
Shown(d) ==
  (RowsOf(d.adds) \cup (IF d.cut THEN {} ELSE RowsOf({BaseFile}))) \ d.dels

-----------------------------------------------------------------------------
(* The reader overlay.  An Option is a sequence of at most one element.    *)

Everything == -1     \* read_command_id None: the overlay of the whole log

NoCache == [all |-> <<>>, at |-> <<>>, max |-> <<>>, epochs |-> <<>>]

\* invalidate_read_caches; the epochs keep their own caches.
InvalidateReadCaches(c) == [c EXCEPT !.all = <<>>, !.at = <<>>, !.max = <<>>]

Sees(reader, cid) == reader = Everything \/ cid < reader

\* TxDataEpoch::append_visible on an empty delta.
AppendVisible(batches, reader) ==
  FoldLeft(LAMBDA d, b : IF Sees(reader, b.cid) THEN AppendDelta(d, b) ELSE d,
           EmptyDelta, batches)

\* TxDataEpoch::delta: the epoch's cache, or what it would be filled with.
EpochDelta(i) ==
  IF cache.epochs[i] # <<>> THEN cache.epochs[i][1]
  ELSE AppendVisible(log[i].batches, Everything)

\* max_write_command_id_cache, or the maximum it would be filled with.
MaxWriteCommandId ==
  IF cache.max # <<>> THEN cache.max[1]
  ELSE LET cids == UNION {{b.cid : b \in Range(log[i].batches)} : i \in 1..Len(log)}
                   \cup {log[i].tag : i \in {j \in 1..Len(log) : log[j].kind = "truncate"}}
       IN  CHOOSE m \in cids \cup {-1} : \A c \in cids : c <= m

\* The loop of visible_delta.  A dropped table has no overlay.
BuildDelta(reader) ==
  LET Step(d, i) ==
        CASE log[i].kind = "data" ->
               AppendDelta(d, IF reader = Everything THEN EpochDelta(i)
                              ELSE AppendVisible(log[i].batches, reader))
          [] log[i].kind = "truncate" /\ Sees(reader, log[i].tag) -> TruncateTable
          [] OTHER -> d
  IN  IF Tx!IsDropped(log) THEN EmptyDelta
      ELSE FoldLeft(Step, EmptyDelta, [i \in 1..Len(log) |-> i])

\* Every command in the log is before the reader.
NeedsWholeLog(reader) == reader = Everything \/ MaxWriteCommandId < reader

\* visible_delta: its result, and the caches it leaves.
VisibleDelta(reader) ==
  IF NeedsWholeLog(reader)
  THEN IF cache.all # <<>> THEN cache.all[1] ELSE BuildDelta(Everything)
  ELSE IF cache.at # <<>> /\ cache.at[1] = reader THEN cache.at[2]
       ELSE BuildDelta(reader)

AfterRead(reader) ==
  LET whole  == NeedsWholeLog(reader)
      max    == IF reader = Everything THEN cache.max ELSE <<MaxWriteCommandId>>
      build  == whole /\ cache.all = <<>>
      filled == [i \in 1..Len(log) |->
                   IF build /\ log[i].kind = "data" THEN <<EpochDelta(i)>>
                   ELSE cache.epochs[i]]
  IN  [all |-> IF build /\ ~Tx!IsDropped(log) THEN <<VisibleDelta(reader)>> ELSE cache.all,
       at  |-> IF whole \/ Tx!IsDropped(log) THEN cache.at
               ELSE <<reader, VisibleDelta(reader)>>,
       max |-> max,
       epochs |-> filled]

-----------------------------------------------------------------------------
(* Changes of the log and their effect on the caches.                      *)

\* record_batch and TxDataEpoch::push: the epoch that gets the batch, the last
\* one of the log, forgets its cache.
CacheAfterBatch(batch) ==
  LET after == Tx!WithBatch(log, batch)
  IN  [InvalidateReadCaches(cache) EXCEPT !.epochs =
         [i \in 1..Len(after) |-> IF i < Len(after) THEN @[i] ELSE <<>>]]

\* stage_truncate, stage_drop and, which changes no file, stage_schema.
CacheAfterAction(kind) ==
  [(IF kind = "schema" THEN cache ELSE InvalidateReadCaches(cache))
     EXCEPT !.epochs = Append(@, <<>>)]

\* Faulty variant: an epoch cut back to a savepoint keeps its cache.
CacheKeepsEpochs(after) ==
  [InvalidateReadCaches(cache) EXCEPT !.epochs = SubSeq(@, 1, Len(after.log))]

\* truncate, for each frame that rollback_to_level pops: the epoch the kept
\* log ends in forgets its cache.
CacheAfterRollback(after) ==
  [InvalidateReadCaches(cache) EXCEPT !.epochs =
     [i \in 1..Len(after.log) |-> IF i < Len(after.log) THEN @[i] ELSE <<>>]]

RollbackLog(target) ==
  LET after == Tx!RollbackTxn(txn, target)
  IN  /\ txn' = after
      /\ cache' = IF after.hist = txn.hist THEN cache ELSE CacheAfterRollback(after)

-----------------------------------------------------------------------------
(* RelationRowRegistry.                                                    *)

NewRegistry == [paths |-> <<>>, owners |-> {}, next |-> 0]

\* Faulty variant: lets one file too many in.
FilesOverfull == Len(registry.paths) > MaxFiles

\* next_file_id, which fails at the limit.
FilesFull == Len(registry.paths) >= MaxFiles

\* Faulty variant: only the claiming state's own positions are looked at.
OwnClaims(state, id, pos) ==
  {o \in registry.owners : o.file = id /\ o.state = state /\ pos \in bitmap[<<o.state, id>>]}

\* claim: the owners that already have the position.
Claims(state, id, pos) ==
  {o \in registry.owners : o.file = id /\ pos \in bitmap[<<o.state, id>>]}

Owns(state, id) == \E o \in registry.owners : o.file = id /\ o.state = state

\* rollback_to_level: file ids survive, claims of the aborted level do not.
RegistryAfterRollback(reg, target) ==
  [reg EXCEPT !.owners = {o \in @ : o.level < target}]

\* promote_to_level.
RegistryAfterPromote(from) ==
  [registry EXCEPT !.owners =
     {[o EXCEPT !.level = Tx!Reparented(@, from)] : o \in registry.owners}]

-----------------------------------------------------------------------------
(* Statements.  A node is one ModifyTable node and its modify state: the   *)
(* id the registry gave it, the files its accumulator holds a bitmap of,   *)
(* the number of rows it appended, and, for the properties, the rows it    *)
(* reported as changed.                                                    *)

NoState == -1

NewNode == [state |-> NoState, files |-> {}, appended |-> 0, applied |-> {},
            done |-> FALSE]

Top == queries[Len(queries)]

\* The innermost statement has control: the functions it called have returned.
Running == ~over /\ queries # <<>> /\ Top.level = level

Init ==
  /\ left \in Workloads
  /\ level = 1
  /\ command = 1
  /\ txn = Tx!NewTxn
  /\ cache = NoCache
  /\ registry = NewRegistry
  /\ bitmap = << >>
  /\ queries = <<>>
  /\ created = 0
  /\ facts = <<>>
  /\ over = FALSE

\* Uses up one unit of the workload.
Spend(budget) ==
  /\ ~over
  /\ left[budget] > 0
  /\ left' = [left EXCEPT ![budget] = @ - 1]

\* ExecutorStart of a statement that changes rows, at the top level or from a
\* function of the innermost statement, where SPI increments the command id
\* first.  Its target scan plans its files with the overlay of its snapshot.
BeginStatement ==
  /\ Spend("queries")
  /\ Len(queries) < MaxDepth
  /\ ~Tx!IsDropped(log)
  /\ LET cid == IF queries = <<>> THEN command ELSE command + 1
     IN  \E n \in 1..left.nodes :
           /\ command' = cid
           /\ cache' = AfterRead(cid)
           /\ queries' = Append(queries,
                [cid |-> cid, level |-> level, seen |-> Shown(VisibleDelta(cid)),
                 nodes |-> [i \in 1..n |-> NewNode], row |-> <<>>])
  /\ UNCHANGED <<level, txn, registry, bitmap, created, facts, over>>

\* A SELECT or a fetch from a cursor, with the command id its snapshot has, or
\* planning, which reads the whole log.
Read ==
  /\ Spend("reads")
  /\ \E reader \in {Everything} \cup 1..command : cache' = AfterRead(reader)
  /\ UNCHANGED <<level, command, txn, registry, bitmap, queries, created, facts, over>>

\* What an aborted subtransaction undoes, with the registry reg as the failed
\* call left it: on_abort_sub, and the statements that ran inside it.  A bitmap
\* lives as long as an owner or an accumulator holds it.
AbortSub(target, reg) ==
  /\ RollbackLog(target)
  /\ registry' = RegistryAfterRollback(reg, target)
  /\ queries' = SelectSeq(queries, LAMBDA q : q.level < target)
  /\ bitmap' = [k \in {j \in DOMAIN bitmap :
                     \/ \E o \in registry'.owners : j = <<o.state, o.file>>
                     \/ \E q \in Range(queries') : \E n \in Range(q.nodes) :
                          j[1] = n.state /\ j[2] \in n.files} |-> bitmap[k]]
  /\ facts' = SelectSeq(facts, LAMBDA f : f.level < target)
  /\ level' = target - 1
  /\ UNCHANGED <<command, created, over>>

\* on_abort and on_commit drop the tracker.
EndTransaction ==
  /\ over' = TRUE
  /\ txn' = Tx!NewTxn
  /\ cache' = NoCache
  /\ registry' = NewRegistry
  /\ bitmap' = << >>
  /\ queries' = <<>>
  /\ facts' = <<>>
  /\ UNCHANGED <<level, command, created>>

\* An error aborts the innermost subtransaction or the transaction.
Raise(reg) == IF level > 1 THEN AbortSub(level, reg) ELSE EndTransaction

\* The scan returns a row it planned to read: its file is interned when the
\* scan first reaches it.  Row-level BEFORE triggers run before the row is
\* changed.
FetchRow ==
  /\ Running
  /\ Spend("claims")
  /\ Top.row = <<>>
  /\ \E n \in 1..Len(Top.nodes), r \in Top.seen :
       LET known == r[1] \in Range(registry.paths)
           paths == IF known THEN registry.paths ELSE Append(registry.paths, r[1])
       IN  /\ ~Top.nodes[n].done
           /\ IF ~known /\ FilesFull
              THEN Raise(registry)
              ELSE /\ registry' = [registry EXCEPT !.paths = paths]
                   /\ queries' = [queries EXCEPT ![Len(queries)].row =
                        <<n, CHOOSE i \in 1..Len(paths) : paths[i] = r[1], r[2], r>>]
                   /\ UNCHANGED <<level, command, txn, cache, bitmap, created, facts, over>>

\* writer(): the first write opens the modify state, which takes its id from
\* the registry and reads the whole log.
StateOf(node) == IF node.state = NoState THEN registry.next ELSE node.state

OpenedRegistry(node) ==
  IF node.state = NoState THEN [registry EXCEPT !.next = @ + 1] ELSE registry

OpenedCache(node) == IF node.state = NoState THEN AfterRead(Everything) ELSE cache

\* MutationSinks::insert.
InsertRow ==
  /\ Running
  /\ Spend("claims")
  /\ Top.row = <<>>
  /\ \E n \in 1..Len(Top.nodes) :
       LET node == Top.nodes[n]
       IN  /\ ~node.done
           /\ registry' = OpenedRegistry(node)
           /\ cache' = OpenedCache(node)
           /\ queries' = [queries EXCEPT ![Len(queries)].nodes[n] =
                [node EXCEPT !.state = StateOf(node), !.appended = @ + 1]]
  /\ UNCHANGED <<level, command, txn, bitmap, created, facts, over>>

\* The first claim of a row: the state's bitmap of the file gets the position,
\* and a new file an owner and a place in the accumulator.
Claimed(n, id, pos, row, moved) ==
  LET node  == Top.nodes[n]
      state == StateOf(node)
      key   == <<state, id>>
      first == ~Owns(state, id)
  IN  /\ bitmap' = [k \in DOMAIN bitmap \cup {key} |->
                      IF k # key THEN bitmap[k]
                      ELSE IF first THEN {pos} ELSE bitmap[k] \cup {pos}]
      /\ registry' = [OpenedRegistry(node) EXCEPT !.owners =
           IF first THEN @ \cup {[file |-> id, state |-> state, cid |-> Top.cid,
                                  level |-> level]}
           ELSE @]
      /\ queries' = [queries EXCEPT
           ![Len(queries)].row = <<>>,
           ![Len(queries)].nodes[n] =
             [node EXCEPT !.state = state,
                          !.files = IF first THEN @ \cup {id} ELSE @,
                          !.appended = @ + (IF moved THEN 1 ELSE 0),
                          !.applied = @ \cup {row}]]

\* MutationSinks::update and delete, and what the executor makes of the
\* outcome: a row that its own command changed before is skipped, one that
\* another command of the transaction changed is an error.
ChangeRow ==
  /\ Running
  /\ Top.row # <<>>
  /\ LET n == Top.row[1]  id == Top.row[2]  pos == Top.row[3]
         node   == Top.nodes[n]
         before == Claims(StateOf(node), id, pos)
     IN  \/ /\ before = {}
            /\ \E moved \in BOOLEAN : Claimed(n, id, pos, Top.row[4], moved)
            /\ cache' = OpenedCache(node)
            /\ UNCHANGED <<level, command, txn, created, facts, over>>
         \/ /\ before # {}
            /\ \A o \in before : o.cid = Top.cid
            /\ registry' = OpenedRegistry(node)
            /\ cache' = OpenedCache(node)
            /\ queries' = [queries EXCEPT ![Len(queries)].row = <<>>,
                             ![Len(queries)].nodes[n].state = StateOf(node)]
            /\ UNCHANGED <<level, command, txn, bitmap, created, facts, over>>
         \/ /\ \E o \in before : o.cid # Top.cid
            /\ Raise(OpenedRegistry(node))
  /\ UNCHANGED left

\* The files one modify state leaves behind: its data file, and its deletes as
\* the shared bitmaps say.
BatchOf(node) ==
  [cid  |-> Top.cid,
   adds |-> IF node.appended > 0 THEN {<<created + 1, node.appended>>} ELSE {},
   dels |-> UNION {{registry.paths[id]} \X bitmap[<<node.state, id>>] : id \in node.files}]

\* end_modify at the end of a node: finish_statement and stage_statement.
FinishNode ==
  /\ Running
  /\ Top.row = <<>>
  /\ \E n \in 1..Len(Top.nodes) :
       LET node  == Top.nodes[n]
           batch == BatchOf(node)
           empty == batch.adds = {} /\ batch.dels = {}
       IN  /\ ~node.done
           /\ queries' = [queries EXCEPT ![Len(queries)].nodes[n].done = TRUE]
           /\ created' = created + Cardinality(batch.adds)
           /\ txn' = IF empty THEN txn
                     ELSE Tx!Recorded(txn, level, Tx!WithBatch(log, batch))
           /\ cache' = IF empty THEN cache ELSE CacheAfterBatch(batch)
           /\ facts' = IF empty THEN facts
                       ELSE Append(facts, [kind |-> "write", cid |-> Top.cid,
                              level |-> level, adds |-> RowsOf(batch.adds),
                              dels |-> node.applied])
  /\ UNCHANGED <<left, level, command, registry, bitmap, over>>

\* ExecutorEnd, after the AFTER triggers; the next command gets a new id.  The
\* statement's own node, the first, may be unfinished: a caller that wanted so many
\* rows of its RETURNING list and no more.  PostgreSQL completes the nodes of its
\* WITH queries.  The unfinished execution is aborted: what it appended and its
\* accumulator go, nothing is staged, and its claims stay in the registry.
EndStatement ==
  /\ Running
  /\ Top.row = <<>>
  /\ \A n \in 2..Len(Top.nodes) : Top.nodes[n].done
  /\ queries' = SubSeq(queries, 1, Len(queries) - 1)
  /\ command' = command + 1
  /\ facts' = IF Top.nodes[1].done \/ Top.nodes[1].applied = {} THEN facts
              ELSE Append(facts, [kind |-> "abandoned", cid |-> Top.cid, level |-> level,
                                  adds |-> {}, dels |-> Top.nodes[1].applied])
  /\ UNCHANGED <<left, level, txn, cache, registry, bitmap, created, over>>

-----------------------------------------------------------------------------
(* Subtransactions, table-level commands and the end of the transaction.   *)

\* SAVEPOINT, or the start of a block with an exception handler.
StartSub ==
  /\ Spend("subs")
  /\ level < MaxLevel
  /\ level' = level + 1
  /\ UNCHANGED <<command, txn, cache, registry, bitmap, queries, created, facts, over>>

\* on_commit_sub; the statements of the subtransaction have ended.
ReleaseSub ==
  /\ ~over
  /\ level > 1
  /\ \A q \in Range(queries) : q.level < level
  /\ txn' = Tx!PromoteTxn(txn, level)
  /\ registry' = RegistryAfterPromote(level)
  /\ facts' = [i \in 1..Len(facts) |->
                 [facts[i] EXCEPT !.level = Tx!Reparented(@, level)]]
  /\ level' = level - 1
  /\ command' = command + 1
  /\ UNCHANGED <<left, cache, bitmap, queries, created, over>>

\* ROLLBACK TO, or an error of any statement.
RollbackSub ==
  /\ ~over
  /\ level > 1
  /\ AbortSub(level, registry)
  /\ UNCHANGED left

\* TRUNCATE, ALTER TABLE and DROP TABLE, which CheckTableNotInUse keeps out of
\* running statements on the table.
TableCommand ==
  /\ Spend("ddl")
  /\ queries = <<>>
  /\ ~Tx!IsDropped(log)
  /\ \E kind \in {"truncate", "schema", "drop"} :
       LET tag == IF kind = "truncate" THEN command ELSE -1
       IN  /\ txn' = Tx!Recorded(txn, level, Tx!WithAction(log, kind, tag))
           /\ cache' = CacheAfterAction(kind)
           /\ facts' = IF kind # "truncate" THEN facts
                       ELSE Append(facts, [kind |-> "cut", cid |-> command,
                              level |-> level, adds |-> {}, dels |-> {}])
  /\ command' = command + 1
  /\ UNCHANGED <<level, registry, bitmap, queries, created, over>>

\* COMMIT, ROLLBACK or an error outside every subtransaction.
Finish ==
  /\ ~over
  /\ EndTransaction
  /\ UNCHANGED left

Next ==
  \/ BeginStatement
  \/ Read
  \/ FetchRow
  \/ InsertRow
  \/ ChangeRow
  \/ FinishNode
  \/ EndStatement
  \/ StartSub
  \/ ReleaseSub
  \/ RollbackSub
  \/ TableCommand
  \/ Finish

Spec == Init /\ [][Next]_vars

-----------------------------------------------------------------------------
(* Properties.                                                             *)

\* The types of the variables; there is one epoch cache per action of the log.
TypeOK ==
  /\ level \in 1..MaxLevel
  /\ command \in Nat
  /\ txn \in Tx!Txn
  /\ Len(cache.epochs) = Len(log)
  /\ Len(registry.paths) <= MaxFiles
  /\ \A o \in registry.owners : <<o.state, o.file>> \in DOMAIN bitmap
  /\ \A k \in DOMAIN bitmap : bitmap[k] \subseteq Nat
  /\ Len(queries) <= MaxDepth

\* The rows a snapshot of command id "reader" must show: those of the base and
\* of the statements before it that were neither rolled back nor abandoned, from the
\* last TRUNCATE it can see, less those that such statements deleted.
Expected(reader) ==
  LET before == SelectSeq(facts, LAMBDA f : Sees(reader, f.cid))
      cuts   == {0} \cup {i \in 1..Len(before) : before[i].kind = "cut"}
      last   == CHOOSE i \in cuts : \A j \in cuts : j <= i
      kept   == {f \in {before[i] : i \in last+1..Len(before)} : f.kind = "write"}
  IN  ((IF last = 0 THEN RowsOf({BaseFile}) ELSE {}) \cup UNION {f.adds : f \in kept})
        \ UNION {f.dels : f \in kept}

\* visible_delta shows every reader what the statements before it did, no more
\* and no less, whatever its caches hold: after nested statements that completed
\* before the statement that called them, after savepoints were rolled back or
\* released, and on both sides of a TRUNCATE or of a schema change.
ReadersSeeEarlierCommands ==
  Tx!IsDropped(log) \/
    \A reader \in {Everything} \cup 1..(command + 1) :
      Shown(VisibleDelta(reader)) = Expected(reader)

\* A row is changed by one modify state at most: no two statements, and no two
\* nodes of one statement, that were not rolled back have both reported the same row
\* as updated or deleted (an update applied twice would leave two new versions).  And
\* the registry claims exactly the rows that running and ended statements not rolled
\* back have reported, those of a statement that ended unfinished and staged nothing
\* among them: a rollback frees the rows of the aborted subtransaction for a retry
\* and of no other.
RowsClaimedOnce ==
  LET done    == {facts[i].dels : i \in 1..Len(facts)}
      nodes   == {<<q, n>> : q \in 1..Len(queries), n \in 1..left.nodes}
      running == {x \in nodes : x[2] <= Len(queries[x[1]].nodes)
                                /\ ~queries[x[1]].nodes[x[2]].done}
      applied(x) == queries[x[1]].nodes[x[2]].applied
  IN  /\ \A i, j \in 1..Len(facts) : i # j => facts[i].dels \cap facts[j].dels = {}
      /\ \A x, y \in running : x # y => applied(x) \cap applied(y) = {}
      /\ \A x \in running : \A d \in done : applied(x) \cap d = {}
      /\ ~over =>
           UNION {{registry.paths[o.file]} \X bitmap[<<o.state, o.file>>] : o \in registry.owners}
             = UNION (done \cup {n.applied : n \in UNION {Range(q.nodes) : q \in Range(queries)}})
=============================================================================
