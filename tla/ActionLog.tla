------------------------------ MODULE ActionLog ------------------------------
(***************************************************************************)
(* The ordered log of Iceberg actions one table has staged in the current  *)
(* PostgreSQL transaction (TxTableActionLog), the savepoint history that   *)
(* can undo it (TableTransactionState), and the storage-generation history *)
(* a local rebuild adds (ManagedTableState).                               *)
(*                                                                         *)
(* All definitions are constant operators over values, so that the state   *)
(* machines that use them and the proofs share one translation of the      *)
(* code.  The loops of the code are recursive functions over the number of *)
(* iterations.                                                             *)
(***************************************************************************)
EXTENDS Integers, Sequences

CONSTANTS
  Batch,   \* the write batches (TxWriteBatch) a command can publish
  Tag,     \* what tells two schema updates, property updates, truncate
           \* guards or vacuum plans apart
  NoTag    \* the tag of data epochs and drops, which carry none

NoEpoch == -1          \* Option::None of a marker's current_data_epoch
NoLevel == 0           \* Option::None of a rebuild level; real levels are >= 1

ActionKinds == {"schema", "properties", "data", "truncate", "exclusive", "drop"}

\* One TxTableAction.  Only a data action (a TxDataEpoch) has batches.
Action == [kind : ActionKinds, batches : Seq(Batch), tag : Tag \cup {NoTag}]

\* TxTableActionLogMarker: a length of the log and, when the log then ended
\* in a data epoch, that epoch's number of batches.
Marker == [len : Nat, epoch : Nat \cup {NoEpoch}]

-----------------------------------------------------------------------------
(* Sequences.                                                              *)

\* Vec::truncate: nothing happens when the vector is already that short.
Truncated(s, n) == IF n >= Len(s) THEN s ELSE SubSeq(s, 1, n)

LastOf(s) == s[Len(s)]

\* Vec::retain and Vec::dedup_by_key: the elements whose index is in I.
Retain(s, I) ==
  LET keep[i \in 0..Len(s)] ==
        IF i = 0 THEN <<>>
        ELSE IF i \in I THEN Append(keep[i-1], s[i]) ELSE keep[i-1]
  IN  keep[Len(s)]

-----------------------------------------------------------------------------
(* TxTableActionLog.                                                       *)

EndsIn(log, kind) == log # <<>> /\ LastOf(log).kind = kind

Mark(log) ==
  [len   |-> Len(log),
   epoch |-> IF EndsIn(log, "data") THEN Len(LastOf(log).batches) ELSE NoEpoch]

\* truncate; RowWrites has the reader caches it also resets.
TruncateTo(log, m) ==
  LET kept == Truncated(log, m.len)
  IN  IF m.epoch # NoEpoch /\ EndsIn(kept, "data")
      THEN [kept EXCEPT ![Len(kept)].batches = Truncated(@, m.epoch)]
      ELSE kept

IsEmpty(log) ==
  \A i \in 1..Len(log) : log[i].kind = "data" /\ log[i].batches = <<>>

HasExclusive(log) == \E i \in 1..Len(log) : log[i].kind = "exclusive"

IsDropped(log) == EndsIn(log, "drop")

DataAction(bs)  == [kind |-> "data", batches |-> bs, tag |-> NoTag]
PlainAction(k, t) == [kind |-> k, batches |-> <<>>, tag |-> t]

\* record_batch: a batch joins the epoch the log ends in, or opens a new one.
WithBatch(log, b) ==
  IF EndsIn(log, "data")
  THEN [log EXCEPT ![Len(log)].batches = Append(@, b)]
  ELSE Append(log, DataAction(<<b>>))

\* stage_schema, stage_properties, stage_truncate, stage_drop, stage_exclusive.
WithAction(log, k, t) == Append(log, PlainAction(k, t))

-----------------------------------------------------------------------------
(* TableTransactionState: the log and its savepoint history.               *)

\* HistoryFrame and TableTransactionState.
Frame == [level : Nat, mark : Marker]
Txn   == [log : Seq(Action), hist : Seq(Frame)]

NewTxn == [log |-> <<>>, hist |-> <<>>]

\* record_history followed by the mutation that yields the log "after".
Recorded(txn, level, after) ==
  [log  |-> after,
   hist |-> IF level > 1
            THEN Append(txn.hist, [level |-> level, mark |-> Mark(txn.log)])
            ELSE txn.hist]

\* One turn of rollback_to_level's loop, as a function of the state it is in.
PopFrame(target) ==
  [txn \in Txn |->
     IF txn.hist # <<>> /\ LastOf(txn.hist).level >= target
     THEN [log  |-> TruncateTo(txn.log, LastOf(txn.hist).mark),
           hist |-> SubSeq(txn.hist, 1, Len(txn.hist) - 1)]
     ELSE txn]

RollbackTxn(txn, target) ==
  LET turn[i \in 0..Len(txn.hist)] ==
        IF i = 0 THEN txn ELSE PopFrame(target)[turn[i-1]]
  IN  turn[Len(txn.hist)]

Reparented(l, from) == IF l >= from THEN from - 1 ELSE l

\* Faulty variant: keeps the frames that reached the top level.
PromoteTxnKeepsAll(txn, from) ==
  [log  |-> txn.log,
   hist |-> [i \in 1..Len(txn.hist) |->
               [level |-> Reparented(txn.hist[i].level, from),
                mark  |-> txn.hist[i].mark]]]

PromoteTxn(txn, from) ==
  LET frames == [i \in 1..Len(txn.hist) |->
                   [level |-> Reparented(txn.hist[i].level, from),
                    mark  |-> txn.hist[i].mark]]
  IN  [log  |-> txn.log,
       hist |-> Retain(frames, {i \in 1..Len(frames) : frames[i].level > 1})]

-----------------------------------------------------------------------------
(* ManagedTableState: the transaction of the current storage generation,   *)
(* whether its FileIO is known, the level that owns the generation, and    *)
(* one frame per savepoint that replaced the generation.                   *)

\* RebuildFrame and ManagedTableState.
RebuildFrame ==
  [level : Nat, txn : Txn, fileIo : BOOLEAN, previous : Nat]

ManagedTableState ==
  [txn : Txn, fileIo : BOOLEAN, rebuildLevel : Nat, rebuilds : Seq(RebuildFrame)]

NewTable ==
  [txn |-> NewTxn, fileIo |-> FALSE, rebuildLevel |-> NoLevel, rebuilds |-> <<>>]

WasRebuilt(t) == t.rebuildLevel # NoLevel

HasChanges(t) == WasRebuilt(t) \/ ~IsEmpty(t.txn.log)

WithRebuild(t, level) ==
  [txn |-> NewTxn,
   fileIo |-> TRUE,
   rebuildLevel |-> level,
   rebuilds |->
     IF level > 1 /\ ~(t.rebuilds # <<>> /\ LastOf(t.rebuilds).level = level)
     THEN Append(t.rebuilds, [level |-> level, txn |-> t.txn,
                              fileIo |-> t.fileIo, previous |-> t.rebuildLevel])
     ELSE t.rebuilds]

\* One turn of ManagedTableState::rollback_to_level's loop.
PopRebuild(target) ==
  [t \in ManagedTableState |->
     IF t.rebuilds # <<>> /\ LastOf(t.rebuilds).level >= target
     THEN [txn |-> RollbackTxn(LastOf(t.rebuilds).txn, target),
           fileIo |-> LastOf(t.rebuilds).fileIo,
           rebuildLevel |-> LastOf(t.rebuilds).previous,
           rebuilds |-> SubSeq(t.rebuilds, 1, Len(t.rebuilds) - 1)]
     ELSE t]

RollbackTable(t, target) ==
  LET turn[i \in 0..Len(t.rebuilds)] ==
        IF i = 0 THEN [t EXCEPT !.txn = RollbackTxn(@, target)]
        ELSE PopRebuild(target)[turn[i-1]]
  IN  turn[Len(t.rebuilds)]

PromotedFrame(f, from) ==
  [level |-> Reparented(f.level, from), txn |-> PromoteTxn(f.txn, from),
   fileIo |-> f.fileIo, previous |-> Reparented(f.previous, from)]

\* Faulty variant: of the frames that share a level the newest survives.
PromoteTableKeepsNewest(t, from) ==
  LET frames == [i \in 1..Len(t.rebuilds) |-> PromotedFrame(t.rebuilds[i], from)]
      nested == Retain(frames, {i \in 1..Len(frames) : frames[i].level > 1})
  IN  [txn |-> PromoteTxn(t.txn, from),
       fileIo |-> t.fileIo,
       rebuildLevel |-> Reparented(t.rebuildLevel, from),
       rebuilds |-> Retain(nested, {i \in 1..Len(nested) :
                       i = Len(nested) \/ nested[i].level # nested[i+1].level})]

\* Drop frames that reached the top level, then keep the oldest of the frames
\* that now share a level.
PromoteTable(t, from) ==
  LET frames == [i \in 1..Len(t.rebuilds) |-> PromotedFrame(t.rebuilds[i], from)]
      nested == Retain(frames, {i \in 1..Len(frames) : frames[i].level > 1})
  IN  [txn |-> PromoteTxn(t.txn, from),
       fileIo |-> t.fileIo,
       rebuildLevel |-> Reparented(t.rebuildLevel, from),
       rebuilds |-> Retain(nested, {i \in 1..Len(nested) :
                       i = 1 \/ nested[i].level # nested[i-1].level})]

-----------------------------------------------------------------------------
(* Well-formedness: what the invariants say of one log, its history and    *)
(* one storage generation.                                                 *)

\* What a savepoint must bring back: the staged actions, and whether they
\* apply to a generation this transaction created.
ContentOf(t) == [log |-> t.txn.log, rebuilt |-> WasRebuilt(t)]

\* A marker that Mark could have taken of a state the log still contains.
ValidMark(log, m) ==
  /\ m.len \in 0..Len(log)
  /\ IF m.len > 0 /\ log[m.len].kind = "data"
     THEN m.epoch \in 1..Len(log[m.len].batches)
     ELSE m.epoch = NoEpoch

NotAfter(m, n) == m.len < n.len \/ (m.len = n.len /\ m.epoch <= n.epoch)

\* A data epoch is opened for a batch, and only it has batches.
LogInv(log) ==
  \A i \in 1..Len(log) : (log[i].kind = "data") <=> (log[i].batches # <<>>)

HistInv(txn, top) ==
  /\ \A i \in 1..Len(txn.hist) :
       txn.hist[i].level \in 2..top /\ ValidMark(txn.log, txn.hist[i].mark)
  /\ \A i, j \in 1..Len(txn.hist) : i < j =>
       /\ txn.hist[i].level <= txn.hist[j].level
       /\ NotAfter(txn.hist[i].mark, txn.hist[j].mark)

\* Vacuum is alone in its log, a drop ends it, and whoever staged anything
\* else knows the table's FileIO.
CommittableInv(log, fileIo, rebuilt) ==
  /\ HasExclusive(log) => Len(log) = 1 /\ ~rebuilt
  /\ \A i \in 1..Len(log) : log[i].kind = "drop" => i = Len(log)
  /\ (\E i \in 1..Len(log) : log[i].kind # "drop") => fileIo

GenerationInv(txn, fileIo, owner, top) ==
  /\ LogInv(txn.log)
  /\ HistInv(txn, top)
  /\ CommittableInv(txn.log, fileIo, owner # NoLevel)

\* A generation belongs to the level of the newest rebuild frame; without a
\* frame it was there before the transaction or is the top level's own.
OwnerInv(t) ==
  LET Owner(n) == IF n = Len(t.rebuilds) THEN t.rebuildLevel ELSE t.rebuilds[n+1].previous
  IN  \A n \in 0..Len(t.rebuilds) :
        IF n = 0 THEN Owner(n) \in {NoLevel, 1} ELSE Owner(n) = t.rebuilds[n].level

\* A tracked table at nest level top.
UsableHistory(t, top) ==
  /\ GenerationInv(t.txn, t.fileIo, t.rebuildLevel, top)
  /\ \A i \in 1..Len(t.rebuilds) :
       LET f == t.rebuilds[i]
       IN  /\ f.level \in 2..top
           /\ GenerationInv(f.txn, f.fileIo, f.previous, f.level)
           /\ ~HasExclusive(f.txn.log)
  /\ \A i, j \in 1..Len(t.rebuilds) :
       i < j => t.rebuilds[i].level < t.rebuilds[j].level
  /\ OwnerInv(t)
=============================================================================
