----------------------- MODULE TableTransactionProofs -----------------------
(***************************************************************************)
(* Theorems about TxMetadata's table state for every number of savepoints, *)
(* commands, batches and tags: the history is always usable, a commit      *)
(* never meets an invariant error, and the markers and frames implement    *)
(* plain saved copies (SavepointStack).                                    *)
(***************************************************************************)
EXTENDS TableTransaction, ActionLogProofs

-----------------------------------------------------------------------------
(* Committable logs.                                                       *)

\* The actions of a are the first ones of b, up to their batches.
KindPrefix(a, b) ==
  /\ Len(a) \in 0..Len(b)
  /\ \A i \in 1..Len(a) : a[i].kind = b[i].kind

\* b has the actions of a and then one of kind k, or a last data epoch grew.
StagedKinds(a, b, k) ==
  /\ \A i \in 1..Len(a) : b[i].kind = a[i].kind
  /\ \/ Len(b) = Len(a) + 1 /\ b[Len(a) + 1].kind = k
     \/ Len(b) = Len(a) /\ k = "data"

\* Cutting a log keeps it committable.
LEMMA PrefixCommittable ==
  ASSUME NEW a, NEW b, Len(b) \in Nat, KindPrefix(a, b), NEW io, NEW rebuilt,
         CommittableInv(b, io, rebuilt)
  PROVE  /\ CommittableInv(a, io, rebuilt)
         /\ ~HasExclusive(b) => ~HasExclusive(a)
<1>1. /\ Len(a) \in Nat /\ Len(a) <= Len(b)
      /\ \A i \in 1..Len(a) : i \in 1..Len(b) /\ a[i].kind = b[i].kind
  BY DEF KindPrefix
<1>2. HasExclusive(a) => HasExclusive(b)
  BY <1>1 DEF HasExclusive
<1>3. HasExclusive(a) => Len(a) = 1 /\ ~rebuilt
  <2> HAVE HasExclusive(a)
  <2>1. PICK i \in 1..Len(a) : a[i].kind = "exclusive"
    BY DEF HasExclusive
  <2>2. Len(b) = 1 /\ ~rebuilt
    BY <1>2 DEF CommittableInv
  <2>3. Len(b) = 1
    BY <2>2
  <2>4. Len(a) = 1
    <3>1. Len(a) \in Nat /\ Len(a) <= 1 /\ 1 <= i /\ i <= Len(a)
      BY <1>1, <2>3
    <3> QED BY <3>1
  <2> QED BY <2>2, <2>4
<1>4. ASSUME NEW i \in 1..Len(a), a[i].kind = "drop" PROVE i = Len(a)
  <2>1. i \in 1..Len(b) /\ b[i].kind = "drop"
    BY <1>1, <1>4
  <2>2. i = Len(b)
    BY <2>1 DEF CommittableInv
  <2> QED BY <1>1, <2>2
<1>5. (\E i \in 1..Len(a) : a[i].kind # "drop") => io
  <2> HAVE \E i \in 1..Len(a) : a[i].kind # "drop"
  <2>1. \E i \in 1..Len(b) : b[i].kind # "drop"
    BY <1>1
  <2> QED BY <2>1 DEF CommittableInv
<1> QED BY <1>2, <1>3, <1>4, <1>5 DEF CommittableInv

\* Staging onto a log with neither a vacuum nor a drop keeps it committable.
LEMMA StagedCommittable ==
  ASSUME NEW a, NEW b, Len(a) \in Nat, NEW k, StagedKinds(a, b, k),
         NEW io, NEW rebuilt, CommittableInv(a, io, rebuilt),
         ~HasExclusive(a), ~IsDropped(a), a # <<>> \/ Len(a) = 0,
         k = "exclusive" => Len(a) = 0 /\ ~rebuilt
  PROVE  /\ CommittableInv(b, TRUE, rebuilt)
         /\ k = "drop" => CommittableInv(b, io, rebuilt)
<1>1. /\ \A i \in 1..Len(a) : b[i].kind = a[i].kind
      /\ \/ Len(b) = Len(a) + 1 /\ b[Len(a) + 1].kind = k
         \/ Len(b) = Len(a) /\ k = "data"
  BY DEF StagedKinds
<1>2. ASSUME NEW i \in 1..Len(b)
      PROVE  \/ i \in 1..Len(a) /\ b[i].kind = a[i].kind
             \/ i = Len(a) + 1 /\ Len(b) = i /\ b[i].kind = k
  BY <1>1
<1>3. ASSUME NEW i \in 1..Len(a) PROVE a[i].kind \notin {"exclusive", "drop"}
  <2>1. a[i].kind # "exclusive"
    BY DEF HasExclusive
  <2>2. a[i].kind # "drop"
    <3> SUFFICES ASSUME a[i].kind = "drop" PROVE FALSE
      OBVIOUS
    <3>1. i = Len(a)
      BY DEF CommittableInv
    <3>2. a # <<>>
      BY <3>1
    <3> QED BY <3>1, <3>2 DEF IsDropped, EndsIn, LastOf
  <2> QED BY <2>1, <2>2
<1>4. HasExclusive(b) => Len(b) = 1 /\ ~rebuilt
  <2> HAVE HasExclusive(b)
  <2>1. PICK i \in 1..Len(b) : b[i].kind = "exclusive"
    BY DEF HasExclusive
  <2>2. i = Len(a) + 1 /\ Len(b) = i /\ k = "exclusive"
    BY <1>2, <1>3, <2>1
  <2> QED BY <2>2
<1>5. \A i \in 1..Len(b) : b[i].kind = "drop" => i = Len(b)
  BY <1>2, <1>3
<1>6. CommittableInv(b, TRUE, rebuilt)
  BY <1>4, <1>5 DEF CommittableInv
<1>7. k = "drop" => CommittableInv(b, io, rebuilt)
  <2> HAVE k = "drop"
  <2>1. (\E i \in 1..Len(b) : b[i].kind # "drop") => io
    <3> HAVE \E i \in 1..Len(b) : b[i].kind # "drop"
    <3>1. \E i \in 1..Len(a) : a[i].kind # "drop"
      BY <1>2
    <3> QED BY <3>1 DEF CommittableInv
  <2> QED BY <1>4, <1>5, <2>1 DEF CommittableInv
<1> QED BY Zenon, <1>6, <1>7

\* What the log operations append.
LEMMA ActionKindsStaged ==
  ASSUME NEW log \in Seq(Action), NEW k \in ActionKinds, NEW t \in Tag \cup {NoTag}
  PROVE  StagedKinds(log, WithAction(log, k, t), k)
<1> DEFINE a == PlainAction(k, t)
           after == WithAction(log, k, t)
<1>1. a \in Action /\ a.kind = k
  BY DEF PlainAction, Action
<1>2. after = Append(log, a)
  BY DEF WithAction
<1> HIDE DEF a, after
<1>3. Len(after) = Len(log) + 1 /\ after[Len(log) + 1] = a /\ \A i \in 1..Len(log) : after[i] = log[i]
  BY <1>1, <1>2
<1>4. StagedKinds(log, after, k)
  BY <1>1, <1>3 DEF StagedKinds
<1> QED BY <1>4 DEF after

\* record_batch stages nothing but data: it extends the last data action or adds
\* one, and the kinds of all earlier actions stay.
LEMMA BatchKindsStaged ==
  ASSUME NEW log \in Seq(Action), NEW b \in Batch
  PROVE  StagedKinds(log, WithBatch(log, b), "data")
<1> DEFINE after == WithBatch(log, b)
<1>1. CASE EndsIn(log, "data")
  <2>1. after = [log EXCEPT ![Len(log)].batches = Append(@, b)]
    BY <1>1 DEF WithBatch
  <2>2. Len(after) = Len(log) /\ \A i \in 1..Len(log) : after[i].kind = log[i].kind
    <3>1. log \in [1..Len(log) -> Action] /\ Len(log) \in Nat
      OBVIOUS
    <3>2. after \in [1..Len(log) -> Action]
      <4>1. log # <<>> /\ Len(log) \in 1..Len(log)
        BY <1>1 DEF EndsIn
      <4>2. Append(log[Len(log)].batches, b) \in Seq(Batch)
        BY <3>1, <4>1 DEF Action
      <4>3. [log[Len(log)] EXCEPT !.batches = Append(@, b)] \in Action
        BY Zenon, <3>1, <4>1, <4>2 DEF Action
      <4> QED BY Zenon, <2>1, <3>1, <4>3
    <3>3. Len(after) = Len(log)
      BY <3>1, <3>2
    <3>4. ASSUME NEW i \in 1..Len(log) PROVE after[i].kind = log[i].kind
      <4>1. CASE i = Len(log)
        <5>1. after[i] = [log[i] EXCEPT !.batches = Append(@, b)]
          BY <2>1, <3>1, <4>1
        <5>2. log[i] \in Action
          BY <3>1
        <5> QED BY <5>1, <5>2 DEF Action
      <4>2. CASE i # Len(log)
        <5>1. after[i] = log[i]
          BY <2>1, <3>1, <4>2
        <5> QED BY <5>1
      <4> QED BY <4>1, <4>2
    <3> QED BY <3>3, <3>4
  <2> QED BY <2>2 DEF StagedKinds
<1>2. CASE ~EndsIn(log, "data")
  <2> DEFINE a == DataAction(<<b>>)
  <2>1. a \in Action /\ a.kind = "data"
    BY DEF DataAction, Action, ActionKinds
  <2>2. after = Append(log, a)
    BY <1>2 DEF WithBatch
  <2> HIDE DEF a, after
  <2>3. Len(after) = Len(log) + 1 /\ after[Len(log) + 1] = a /\ \A i \in 1..Len(log) : after[i] = log[i]
    BY <2>1, <2>2
  <2>4. StagedKinds(log, after, "data")
    BY <2>1, <2>3 DEF StagedKinds
  <2> QED BY <2>4 DEF after
<1> QED BY <1>1, <1>2

\* A rollback only cuts the log.
LEMMA RollbackPrefix ==
  ASSUME NEW txn, NEW top \in Nat, WellFormed(txn, top), NEW to \in Nat
  PROVE  KindPrefix(RollbackTxn(txn, to).log, txn.log)
<1> DEFINE h == txn.hist
           log == txn.log
<1>1. PICK k : IsCut(h, to, k)
  BY CutExists
<1>2. RollbackTxn(txn, to) = Undone(txn, k)
  BY <1>1, RollbackTxnIs
<1>3. /\ log \in Seq(Action) /\ Len(h) \in Nat
      /\ \A i \in 1..Len(h) : h[i].mark \in Marker /\ ValidMark(log, h[i].mark)
  BY HistoryParts
<1>4. k \in 0..Len(h)
  BY <1>1 DEF IsCut
<1>5. CASE k = Len(h)
  <2>1. Undone(txn, k).log = log
    BY <1>5, Zenon DEF Undone
  <2> QED BY <1>2, <1>3, <2>1 DEF KindPrefix
<1>6. CASE k # Len(h)
  <2> DEFINE m == h[k+1].mark
             cut == TruncateTo(log, m)
  <2>1. Undone(txn, k).log = cut
    BY <1>6, Zenon DEF Undone
  <2>2. m \in Marker /\ ValidMark(log, m)
    BY <1>3, <1>4, <1>6
  <2> HIDE DEF m
  <2>3. /\ cut \in Seq(Action) /\ Len(cut) = m.len
        /\ \A i \in 1..m.len : cut[i] = CutAction(log[i], i = m.len, m)
    BY SMTT(60), <1>3, <2>2, TruncateToElements
  <2>4. m.len \in 0..Len(log)
    BY <2>2 DEF ValidMark
  <2>5. ASSUME NEW i \in 1..m.len PROVE CutAction(log[i], i = m.len, m).kind = log[i].kind
    <3>1. log[i] \in Action
      BY <1>3, <2>4
    <3> QED BY <3>1 DEF CutAction, Action
  <2> HIDE DEF cut, log
  <2>6. KindPrefix(cut, log)
    BY <2>3, <2>4, <2>5 DEF KindPrefix
  <2> QED BY <1>2, <2>1, <2>6 DEF log
<1> QED BY <1>5, <1>6

-----------------------------------------------------------------------------
(* Committable tables.                                                     *)

\* Every generation's log would commit, and no retired one holds a vacuum.
Committable(t) ==
  /\ CommittableInv(t.txn.log, t.fileIo, t.rebuildLevel # NoLevel)
  /\ \A i \in 1..Len(t.rebuilds) :
       /\ CommittableInv(t.rebuilds[i].txn.log, t.rebuilds[i].fileIo, t.rebuilds[i].previous # NoLevel)
       /\ ~HasExclusive(t.rebuilds[i].txn.log)

TableInv(t, at) == TableWellFormed(t, at) /\ Committable(t)

\* The invariant in the terms of the lemmas.
LEMMA UsableHistoryIs ==
  ASSUME NEW t \in ManagedTableState, NEW at \in Nat
  PROVE  UsableHistory(t, at) <=> TableInv(t, at)
<1> DEFINE r == t.rebuilds
<1>1. t.txn \in Txn /\ r \in Seq(RebuildFrame)
  BY DEF ManagedTableState
<1>2. ASSUME NEW i \in 1..Len(r) PROVE r[i].txn \in Txn
  <2>1. r[i] \in RebuildFrame
    BY <1>1
  <2> QED BY <2>1 DEF RebuildFrame
<1>3. ASSUME UsableHistory(t, at) PROVE TableInv(t, at)
  <2>1. /\ WellFormed(t.txn, at)
        /\ CommittableInv(t.txn.log, t.fileIo, t.rebuildLevel # NoLevel)
    BY <1>1, <1>3, Zenon DEF UsableHistory, GenerationInv, WellFormed
  <2>2. ASSUME NEW i \in 1..Len(r)
        PROVE  /\ r[i].level \in 2..at /\ WellFormed(r[i].txn, r[i].level)
               /\ CommittableInv(r[i].txn.log, r[i].fileIo, r[i].previous # NoLevel)
               /\ ~HasExclusive(r[i].txn.log)
    BY <1>2, <1>3, Zenon DEF UsableHistory, GenerationInv, WellFormed
  <2>3. OwnerInv(t) /\ \A i, j \in 1..Len(r) : i < j => r[i].level < r[j].level
    BY <1>3, Zenon DEF UsableHistory
  <2>4. TableWellFormed(t, at)
    BY <2>1, <2>2, <2>3, Zenon DEF TableWellFormed
  <2>5. Committable(t)
    BY <2>1, <2>2, Zenon DEF Committable
  <2> QED BY <2>4, <2>5 DEF TableInv
<1>4. ASSUME TableInv(t, at) PROVE UsableHistory(t, at)
  <2>1. TableWellFormed(t, at) /\ Committable(t)
    BY <1>4 DEF TableInv
  <2>2. GenerationInv(t.txn, t.fileIo, t.rebuildLevel, at)
    BY <2>1, Zenon DEF TableWellFormed, Committable, WellFormed, GenerationInv
  <2>3. ASSUME NEW i \in 1..Len(r)
        PROVE  /\ r[i].level \in 2..at
               /\ GenerationInv(r[i].txn, r[i].fileIo, r[i].previous, r[i].level)
               /\ ~HasExclusive(r[i].txn.log)
    BY <2>1, Zenon DEF TableWellFormed, Committable, WellFormed, GenerationInv
  <2>4. OwnerInv(t) /\ \A i, j \in 1..Len(r) : i < j => r[i].level < r[j].level
    BY <2>1, Zenon DEF TableWellFormed
  <2> QED BY <2>2, <2>3, <2>4, ZenonT(60) DEF UsableHistory
<1> QED BY <1>3, <1>4

\* The table of a new transaction.
LEMMA NewTableInv ==
  ASSUME NEW top \in Nat
  PROVE  TableInv(NewTable, top)
<1>1. WellFormed(NewTxn, top) /\ NewTxn \in Txn
  BY NewTxnWellFormed DEF WellFormed
<1>2. /\ NewTable.txn = NewTxn /\ NewTable.fileIo = FALSE
      /\ NewTable.rebuildLevel = NoLevel /\ NewTable.rebuilds = <<>>
  BY DEF NewTable
<1>3. NewTable \in ManagedTableState
  BY <1>1 DEF NewTable, ManagedTableState, NoLevel
<1>4. Len(<<>>) = 0 /\ 1..0 = {} /\ 2..0 = {}
  OBVIOUS
<1>5. OwnerInv(NewTable)
  BY <1>2, <1>4, OwnerFromParts
<1>6. TableWellFormed(NewTable, top)
  BY <1>1, <1>2, <1>3, <1>4, <1>5 DEF TableWellFormed
<1>7. CommittableInv(<<>>, FALSE, FALSE)
  BY <1>4 DEF CommittableInv, HasExclusive
<1>8. NewTxn.log = <<>>
  BY DEF NewTxn
<1>9. Committable(NewTable)
  BY ZenonT(60), <1>2, <1>4, <1>7, <1>8 DEF Committable
<1> QED BY <1>6, <1>9 DEF TableInv

\* A table with new contents of its current generation.
LEMMA StagedInv ==
  ASSUME NEW t, NEW at \in Nat, at >= 1, TableInv(t, at),
         NEW x, WellFormed(x, at), NEW io \in BOOLEAN,
         CommittableInv(x.log, io, t.rebuildLevel # NoLevel),
         \A to \in 2..at : RollbackTxn(x, to).log = RollbackTxn(t.txn, to).log
  PROVE  /\ TableInv([t EXCEPT !.fileIo = io, !.txn = x], at)
         /\ \A to \in 2..at : ContentOf(RollbackTable([t EXCEPT !.fileIo = io, !.txn = x], to))
                                = ContentOf(RollbackTable(t, to))
<1> DEFINE u == [t EXCEPT !.fileIo = io, !.txn = x]
<1>1. TableWellFormed(t, at) /\ Committable(t)
  BY DEF TableInv
<1>2. TableWellFormed(u, at)
  BY ZenonT(60), <1>1, StagedWellFormed
<1>3. /\ u.txn = x /\ u.fileIo = io
      /\ u.rebuilds = t.rebuilds /\ u.rebuildLevel = t.rebuildLevel
  <2>1. t \in ManagedTableState
    BY <1>1 DEF TableWellFormed
  <2> QED BY <2>1 DEF ManagedTableState
<1> HIDE DEF u
<1>4. Committable(u)
  BY <1>1, <1>3, ZenonT(60) DEF Committable
<1>5. ASSUME NEW to \in 2..at
      PROVE  ContentOf(RollbackTable(u, to)) = ContentOf(RollbackTable(t, to))
  <2>1. to \in Nat /\ to >= 1
    OBVIOUS
  <2>2. RollbackTxn(u.txn, to).log = RollbackTxn(t.txn, to).log
    BY <1>3
  <2> QED BY SMTT(60), <1>1, <1>2, <1>3, <2>1, <2>2, SavedUnderStaging
<1>6. TableInv(u, at)
  BY <1>2, <1>4 DEF TableInv
<1> QED BY <1>5, <1>6 DEF u

\* A table whose current generation recorded a mutation.
MutatedTable(t, at, after, io) ==
  [t EXCEPT !.fileIo = io, !.txn = Recorded(t.txn, at, after)]

\* stage_table_mutation and stage_drop.
LEMMA MutatedInv ==
  ASSUME NEW t, NEW at \in Nat, at >= 1, TableInv(t, at),
         NEW after, Grows(t.txn.log, after), NEW io \in BOOLEAN,
         CommittableInv(after, io, t.rebuildLevel # NoLevel)
  PROVE  /\ TableInv(MutatedTable(t, at, after, io), at)
         /\ \A to \in 2..at : ContentOf(RollbackTable(MutatedTable(t, at, after, io), to))
                                = ContentOf(RollbackTable(t, to))
<1> DEFINE x == Recorded(t.txn, at, after)
<1>1. WellFormed(t.txn, at)
  BY DEF TableInv, TableWellFormed
<1>2. /\ WellFormed(x, at)
      /\ \A to \in 2..at : RollbackTxn(x, to).log = RollbackTxn(t.txn, to).log
  BY <1>1, RecordedRollback
<1>3. x.log = after
  BY Zenon DEF Recorded
<1>0. MutatedTable(t, at, after, io) = [t EXCEPT !.fileIo = io, !.txn = x]
  BY Zenon DEF MutatedTable
<1> HIDE DEF x
<1>4. CommittableInv(x.log, io, t.rebuildLevel # NoLevel)
  BY Zenon, <1>3
<1>5. /\ TableInv([t EXCEPT !.fileIo = io, !.txn = x], at)
      /\ \A to \in 2..at : ContentOf(RollbackTable([t EXCEPT !.fileIo = io, !.txn = x], to))
                             = ContentOf(RollbackTable(t, to))
  BY ZenonT(60), <1>2, <1>4, StagedInv
<1> QED BY <1>0, <1>5

\* A rejected or empty mutation still remembers the FileIO.
LEMMA FileIoInv ==
  ASSUME NEW t, NEW at \in Nat, at >= 1, TableInv(t, at)
  PROVE  LET u == [t EXCEPT !.fileIo = TRUE]
         IN  /\ TableInv(u, at)
             /\ ContentOf(u) = ContentOf(t)
             /\ \A to \in 2..at : ContentOf(RollbackTable(u, to)) = ContentOf(RollbackTable(t, to))
<1> DEFINE u == [t EXCEPT !.fileIo = TRUE]
           x == t.txn
<1>1. WellFormed(x, at) /\ t \in ManagedTableState
  BY DEF TableInv, TableWellFormed
<1>2. u = [t EXCEPT !.fileIo = TRUE, !.txn = x]
  BY Zenon, <1>1 DEF ManagedTableState
<1>3. CommittableInv(x.log, TRUE, t.rebuildLevel # NoLevel)
  BY Zenon DEF TableInv, Committable, CommittableInv
<1>4. u.txn = t.txn /\ u.rebuildLevel = t.rebuildLevel
  BY <1>1 DEF ManagedTableState
<1>5. TRUE \in BOOLEAN
  BY SMTT(60)
<1> HIDE DEF x
<1>6. /\ TableInv([t EXCEPT !.fileIo = TRUE, !.txn = x], at)
      /\ \A to \in 2..at : ContentOf(RollbackTable([t EXCEPT !.fileIo = TRUE, !.txn = x], to))
                             = ContentOf(RollbackTable(t, to))
  <2>1. \A to \in 2..at : RollbackTxn(x, to).log = RollbackTxn(t.txn, to).log
    BY DEF x
  <2> QED BY ZenonT(60), <1>1, <1>3, <1>5, <2>1, StagedInv
<1> HIDE DEF u
<1>7. ContentOf(u) = ContentOf(t)
  BY <1>4, ZenonT(60) DEF ContentOf, WasRebuilt
<1> QED BY Zenon, <1>2, <1>6, <1>7 DEF u

\* record_rebuild, after prepare_local_rebuild has refused a vacuum.
LEMMA RebuildInv ==
  ASSUME NEW t, NEW at \in Nat, at >= 1, TableInv(t, at), ~HasExclusive(t.txn.log)
  PROVE  Committable(WithRebuild(t, at))
<1> DEFINE r == t.rebuilds
           F == [level |-> at, txn |-> t.txn, fileIo |-> t.fileIo, previous |-> t.rebuildLevel]
           r2 == IF at > 1 /\ ~(r # <<>> /\ LastOf(r).level = at) THEN Append(r, F) ELSE r
           u == WithRebuild(t, at)
<1>1. TableWellFormed(t, at) /\ Committable(t)
  BY DEF TableInv
<1>2. /\ t.txn \in Txn /\ t.fileIo \in BOOLEAN /\ t.rebuildLevel \in Nat
      /\ r \in Seq(RebuildFrame) /\ Len(r) \in Nat
  BY SMTT(60), <1>1, TableParts
<1>3. u = [txn |-> NewTxn, fileIo |-> TRUE, rebuildLevel |-> at, rebuilds |-> r2]
  BY ZenonT(60) DEF WithRebuild
<1>4. /\ F \in RebuildFrame /\ F.txn = t.txn
      /\ F.fileIo = t.fileIo /\ F.previous = t.rebuildLevel
  BY SMTT(60), <1>2 DEF RebuildFrame
<1> HIDE DEF F
<1>5. ASSUME NEW i \in 1..Len(r2) PROVE r2[i] = F \/ (i \in 1..Len(r) /\ r2[i] = r[i])
  BY <1>2, <1>4
<1> HIDE DEF r2, u
<1>6. u.txn = NewTxn /\ u.fileIo = TRUE /\ u.rebuildLevel = at /\ u.rebuilds = r2
  BY <1>3
<1>7. NewTxn.log = <<>> /\ Len(<<>>) = 0 /\ 1..0 = {}
  BY DEF NewTxn
<1>8. CommittableInv(u.txn.log, u.fileIo, u.rebuildLevel # NoLevel)
  BY SMTT(60), <1>6, <1>7 DEF CommittableInv, HasExclusive
<1>9. ASSUME NEW i \in 1..Len(r2)
      PROVE  /\ CommittableInv(r2[i].txn.log, r2[i].fileIo, r2[i].previous # NoLevel)
             /\ ~HasExclusive(r2[i].txn.log)
  <2>1. CASE r2[i] = F
    BY <1>1, <1>4, <2>1, ZenonT(60) DEF Committable
  <2>2. CASE i \in 1..Len(r) /\ r2[i] = r[i]
    BY <1>1, <2>2, ZenonT(60) DEF Committable
  <2> QED BY SMTT(60), <1>5, <2>1, <2>2
<1>10. Committable(u)
  BY <1>6, <1>8, <1>9, ZenonT(60) DEF Committable
<1> QED BY <1>10 DEF u

\* on_commit_sub.
LEMMA PromoteInv ==
  ASSUME NEW t, NEW from \in Nat, from >= 2, TableInv(t, from)
  PROVE  Committable(PromoteTable(t, from))
<1> DEFINE r == t.rebuilds
           n == Len(t.rebuilds)
           F == PromotedRebuilds(t, from)
           m == Survivors(t, from)
           R == SubSeq(F, 1, m)
           x == PromoteTxn(t.txn, from)
           o == Reparented(t.rebuildLevel, from)
           io == t.fileIo
           u == PromoteTable(t, from)
<1>1. TableWellFormed(t, from) /\ Committable(t)
  BY DEF TableInv
<1>2. /\ m \in 0..n /\ F \in Seq(RebuildFrame) /\ Len(F) = n
      /\ u = [txn |-> x, fileIo |-> io, rebuildLevel |-> o, rebuilds |-> R]
  BY <1>1, PromoteTableIs
<1>3. n \in Nat /\ t.rebuildLevel \in Nat
      /\ \A i \in 1..n : r[i] \in RebuildFrame /\ r[i].previous \in Nat /\ r[i].level \in Nat
  BY SMTT(60), <1>1, TableParts
<1>4. /\ WellFormed(t.txn, from)
      /\ \A i \in 1..n : r[i].level \in 2..from /\ WellFormed(r[i].txn, r[i].level)
  BY <1>1 DEF TableWellFormed
<1>5. x.log = t.txn.log
  BY <1>4, PromoteTxnRollback
<1>6. o # NoLevel <=> t.rebuildLevel # NoLevel
  BY <1>3 DEF Reparented, NoLevel
<1>7. ASSUME NEW i \in 1..n
      PROVE  /\ F[i].txn.log = r[i].txn.log /\ F[i].fileIo = r[i].fileIo
             /\ F[i].previous # NoLevel <=> r[i].previous # NoLevel
  <2> DEFINE fx == PromoteTxn(r[i].txn, from)
             fl == Reparented(r[i].level, from)
             fp == Reparented(r[i].previous, from)
             fio == r[i].fileIo
  <2>1. F[i] = PromotedFrame(r[i], from)
    BY ZenonT(60) DEF PromotedRebuilds
  <2>2. PromotedFrame(r[i], from) = [level |-> fl, txn |-> fx, fileIo |-> fio, previous |-> fp]
    BY ZenonT(60) DEF PromotedFrame
  <2>3. fx.log = r[i].txn.log
    <3>1. r[i].level \in Nat /\ r[i].level <= from /\ WellFormed(r[i].txn, r[i].level)
      BY SMTT(60), <1>3, <1>4
    <3>2. WellFormed(r[i].txn, from)
      BY SMTT(60), <3>1, WellFormedDeeper
    <3> QED BY SMTT(60), <3>2, PromoteTxnRollback
  <2>4. fp # NoLevel <=> r[i].previous # NoLevel
    <3>1. r[i].previous \in Nat
      BY <1>3
    <3> QED BY <3>1 DEF Reparented, NoLevel
  <2> HIDE DEF fx, fl, fp, fio, F
  <2>5. F[i].txn = fx /\ F[i].fileIo = fio /\ F[i].previous = fp
    BY <2>1, <2>2
  <2> QED BY SMTT(60), <2>3, <2>4, <2>5 DEF fio
<1> HIDE DEF F, m, x
<1>8. Len(R) = m /\ \A i \in 1..m : R[i] = F[i] /\ i \in 1..n
  BY <1>2, <1>3
<1> HIDE DEF R, o, io, u
<1>9. u.txn = x /\ u.fileIo = io /\ u.rebuildLevel = o /\ u.rebuilds = R
  BY <1>2
<1>10. CommittableInv(u.txn.log, u.fileIo, u.rebuildLevel # NoLevel)
  BY <1>1, <1>5, <1>6, <1>9, ZenonT(60) DEF Committable, io
<1>11. ASSUME NEW i \in 1..m
       PROVE  /\ CommittableInv(R[i].txn.log, R[i].fileIo, R[i].previous # NoLevel)
              /\ ~HasExclusive(R[i].txn.log)
  <2>1. i \in 1..n /\ R[i] = F[i]
    BY <1>8
  <2>2. /\ CommittableInv(r[i].txn.log, r[i].fileIo, r[i].previous # NoLevel)
        /\ ~HasExclusive(r[i].txn.log)
    BY <1>1, <2>1, ZenonT(60) DEF Committable
  <2> QED BY <1>7, <2>1, <2>2, ZenonT(60)
<1>12. Committable(u)
  BY <1>8, <1>9, <1>10, <1>11, ZenonT(60) DEF Committable
<1> QED BY <1>12 DEF u

\* on_abort_sub.
LEMMA RollbackInv ==
  ASSUME NEW t, NEW at \in Nat, at >= 2, TableInv(t, at)
  PROVE  Committable(RollbackTable(t, at))
<1> DEFINE r == t.rebuilds
           n == Len(t.rebuilds)
           u == RollbackTable(t, at)
<1>1. TableWellFormed(t, at) /\ Committable(t)
  BY DEF TableInv
<1>2. PICK k : IsCut(r, at, k)
  BY <1>1, RebuildCut
<1>3. k \in 0..n /\ n \in Nat
  BY <1>1, <1>2, TableParts DEF IsCut
<1> DEFINE src == IF k = n THEN t.txn ELSE r[k+1].txn
           own == IF k = n THEN t.rebuildLevel ELSE r[k+1].previous
           io == IF k = n THEN t.fileIo ELSE r[k+1].fileIo
           x == RollbackTxn(src, at)
<1>4. u = UndoneTable(t, at, k)
  BY <1>1, <1>2, RollbackTableIs
<1>5. Len(u.rebuilds) = k /\ \A i \in 1..k : u.rebuilds[i] = r[i]
  BY <1>1, <1>3, <1>4, UndoneTableTyped
<1>6. u.txn = x /\ u.rebuildLevel = own /\ u.fileIo = io
  <2> DEFINE s == IF k = n THEN r ELSE SubSeq(r, 1, k)
  <2>1. UndoneTable(t, at, k) = [txn |-> x, fileIo |-> io, rebuildLevel |-> own, rebuilds |-> s]
    BY Zenon DEF UndoneTable
  <2>2. u = [txn |-> x, fileIo |-> io, rebuildLevel |-> own, rebuilds |-> s]
    BY <1>4, <2>1
  <2> HIDE DEF x, io, s, own, u
  <2> QED BY <2>2
<1> HIDE DEF u
<1>7. \E top \in Nat : WellFormed(src, top)
  <2>1. WellFormed(t.txn, at) /\ \A i \in 1..n : r[i].level \in 2..at /\ WellFormed(r[i].txn, r[i].level)
    BY <1>1 DEF TableWellFormed
  <2>2. k # n => k + 1 \in 1..n
    BY <1>3
  <2>3. CASE k = n
    BY <2>1, <2>3
  <2>4. CASE k # n
    <3>1. r[k+1].level \in Nat /\ WellFormed(src, r[k+1].level)
      BY <2>1, <2>2, <2>4
    <3> QED BY <3>1, Zenon
  <2> QED BY <2>3, <2>4
<1>8. CommittableInv(src.log, io, own # NoLevel)
  <2>1. k # n => k + 1 \in 1..n
    BY <1>3
  <2>2. CASE k = n
    BY <1>1, <2>2, Zenon DEF Committable
  <2>3. CASE k # n
    BY <1>1, <2>1, <2>3, Zenon DEF Committable
  <2> QED BY <2>2, <2>3
<1> HIDE DEF src, own, io
<1>9. PICK top \in Nat : WellFormed(src, top)
  BY <1>7
<1>10. KindPrefix(x.log, src.log)
  BY <1>9, RollbackPrefix
<1>11. Len(src.log) \in Nat
  BY <1>9 DEF WellFormed, Txn
<1> HIDE DEF x
<1>12. CommittableInv(u.txn.log, u.fileIo, u.rebuildLevel # NoLevel)
  <2>1. CommittableInv(x.log, io, own # NoLevel)
    BY <1>8, <1>10, <1>11, PrefixCommittable
  <2> QED BY <1>6, <2>1, Zenon
<1>13. ASSUME NEW i \in 1..k
       PROVE  /\ CommittableInv(u.rebuilds[i].txn.log, u.rebuilds[i].fileIo, u.rebuilds[i].previous # NoLevel)
              /\ ~HasExclusive(u.rebuilds[i].txn.log)
  <2>1. i \in 1..n /\ u.rebuilds[i] = r[i]
    BY <1>3, <1>5
  <2> QED BY <1>1, <2>1, Zenon DEF Committable
<1>14. Committable(u)
  BY <1>5, <1>12, <1>13, Zenon DEF Committable
<1> QED BY <1>14 DEF u

-----------------------------------------------------------------------------
(* Statements.                                                             *)

\* The inductive invariant.
Inv == TypeOK /\ HistoryInv

\* The copies the open savepoints hold, seen through rollback.
SavedAt(t, at) == [i \in 1..(at - 1) |-> ContentOf(RollbackTable(t, i + 1))]

\* What a statement must keep: the table stays usable, and each open savepoint
\* would restore what it would have restored before.
Kept == TableInv(table', level) /\ SavedAt(table', level) = SavedAt(table, level)

\* Equal restored contents at every level are equal copies.
LEMMA SameSaved ==
  ASSUME NEW t, NEW u, NEW at \in Nat,
         \A to \in 2..at : ContentOf(RollbackTable(u, to)) = ContentOf(RollbackTable(t, to))
  PROVE  SavedAt(u, at) = SavedAt(t, at)
<1>1. ASSUME NEW i \in 1..(at - 1)
      PROVE  ContentOf(RollbackTable(u, i + 1)) = ContentOf(RollbackTable(t, i + 1))
  <2>1. i + 1 \in 2..at
    OBVIOUS
  <2> QED BY <2>1, Zenon
<1> QED BY <1>1, Zenon DEF SavedAt

\* What the invariant says of the table and the level.
LEMMA InvParts ==
  ASSUME Inv
  PROVE  /\ TableInv(table, level) /\ level \in Nat /\ level >= 1
         /\ table \in ManagedTableState /\ table.txn.log \in Seq(Action)
         /\ table.fileIo \in BOOLEAN
         /\ LogInv(table.txn.log)
         /\ CommittableInv(table.txn.log, table.fileIo, table.rebuildLevel # NoLevel)
<1>1. table \in ManagedTableState /\ level \in Nat /\ level >= 1
  BY BoundsAssumption DEF Inv, TypeOK
<1>2. TableInv(table, level)
  BY <1>1, UsableHistoryIs DEF Inv, HistoryInv
<1>3. table.txn \in Txn /\ table.fileIo \in BOOLEAN
  BY <1>1 DEF ManagedTableState
<1>4. table.txn.log \in Seq(Action)
  BY <1>3 DEF Txn
<1>5. LogInv(table.txn.log) /\ CommittableInv(table.txn.log, table.fileIo, table.rebuildLevel # NoLevel)
  BY <1>2 DEF TableInv, TableWellFormed, WellFormed, Committable
<1> QED BY <1>1, <1>2, <1>3, <1>4, <1>5

\* A log operation that succeeds.
LEMMA StagedKept ==
  ASSUME Inv, NEW after, Staged(after), NEW k, StagedKinds(table.txn.log, after, k),
         Grows(table.txn.log, after), ~HasExclusive(table.txn.log), ~IsDropped(table.txn.log),
         k = "exclusive" => Len(table.txn.log) = 0 /\ table.rebuildLevel = NoLevel
  PROVE  Kept
<1> DEFINE u == MutatedTable(table, level, after, TRUE)
<1>1. /\ TableInv(table, level) /\ level \in Nat /\ level >= 1
      /\ table.txn.log \in Seq(Action)
      /\ CommittableInv(table.txn.log, table.fileIo, table.rebuildLevel # NoLevel)
  BY InvParts
<1>2. Len(table.txn.log) \in Nat /\ (table.txn.log # <<>> \/ Len(table.txn.log) = 0)
  BY <1>1
<1>3. CommittableInv(after, TRUE, table.rebuildLevel # NoLevel)
  <2> DEFINE log == table.txn.log
             rb == table.rebuildLevel # NoLevel
             io == table.fileIo
  <2>1. /\ k = "exclusive" => Len(log) = 0 /\ ~rb
        /\ StagedKinds(log, after, k) /\ ~HasExclusive(log) /\ ~IsDropped(log)
        /\ CommittableInv(log, io, rb)
        /\ Len(log) \in Nat /\ (log # <<>> \/ Len(log) = 0)
    BY <1>1, <1>2
  <2> HIDE DEF log, rb, io
  <2>2. CommittableInv(after, TRUE, rb)
    BY Zenon, <2>1, StagedCommittable
  <2> QED BY Zenon, <2>2 DEF rb
<1>4. TRUE \in BOOLEAN
  OBVIOUS
<1>5. /\ TableInv(u, level)
      /\ \A to \in 2..level : ContentOf(RollbackTable(u, to)) = ContentOf(RollbackTable(table, to))
  BY Zenon, <1>1, <1>3, <1>4, MutatedInv
<1>6. table' = u
  BY Zenon DEF Staged, MutatedTable
<1> HIDE DEF u
<1>7. SavedAt(u, level) = SavedAt(table, level)
  BY <1>1, <1>5, SameSaved
<1> QED BY <1>5, <1>6, <1>7 DEF Kept

\* A mutation that is refused or empty.
LEMMA FileIoKept ==
  ASSUME Inv, table' = [table EXCEPT !.fileIo = TRUE]
  PROVE  Kept
<1> DEFINE u == [table EXCEPT !.fileIo = TRUE]
<1>1. TableInv(table, level) /\ level \in Nat /\ level >= 1
  BY InvParts
<1>2. /\ TableInv(u, level)
      /\ \A to \in 2..level : ContentOf(RollbackTable(u, to)) = ContentOf(RollbackTable(table, to))
  BY <1>1, FileIoInv
<1>3. table' = u
  OBVIOUS
<1> HIDE DEF u
<1>4. SavedAt(u, level) = SavedAt(table, level)
  BY <1>1, <1>2, SameSaved
<1> QED BY Zenon, <1>2, <1>3, <1>4 DEF Kept

\* An error that stages nothing.
LEMMA UnchangedKept ==
  ASSUME Inv, table' = table
  PROVE  Kept
BY InvParts DEF Kept

\* record_action_mutation, for any operation but VACUUM.
LEMMA MutateKept ==
  ASSUME Inv, NEW after, Mutate(after), NEW k, k # "exclusive",
         StagedKinds(table.txn.log, after, k), Grows(table.txn.log, after),
         ~IsDropped(table.txn.log)
  PROVE  Kept
<1>1. CASE HasExclusive(table.txn.log)
  <2>1. table' = [table EXCEPT !.fileIo = TRUE]
    BY <1>1 DEF Mutate, Rejected
  <2> QED BY <2>1, FileIoKept
<1>2. CASE ~HasExclusive(table.txn.log)
  <2>1. Staged(after)
    BY <1>2 DEF Mutate
  <2> QED BY <1>2, <2>1, StagedKept
<1> QED BY <1>1, <1>2

\* Each staging operation keeps the savepoints.
LEMMA StatementKept ==
  ASSUME Inv,
         \/ StageBatch \/ StageNothing \/ StageSchema \/ StageProperties
         \/ StageTruncate \/ StageVacuum \/ LocalRebuild \/ StageDrop
  PROVE  Kept
<1> DEFINE log == table.txn.log
<1>1. /\ TableInv(table, level) /\ level \in Nat /\ level >= 1
      /\ log \in Seq(Action) /\ LogInv(log) /\ table.fileIo \in BOOLEAN
      /\ CommittableInv(log, table.fileIo, table.rebuildLevel # NoLevel)
  BY InvParts
<1>2. ~IsDropped(log)
  BY DEF StageBatch, StageNothing, StageSchema, StageProperties, StageTruncate,
         StageVacuum, LocalRebuild, StageDrop, Command
<1>3. ASSUME NEW kd \in {"schema", "properties", "truncate", "exclusive", "drop"},
             NEW t \in Tag \cup {NoTag}
      PROVE  Grows(log, WithAction(log, kd, t)) /\ StagedKinds(log, WithAction(log, kd, t), kd)
  <2>1. kd \in ActionKinds /\ kd # "data"
    BY DEF ActionKinds
  <2> HIDE DEF log
  <2> QED BY <1>1, <2>1, ActionGrows, ActionKindsStaged
<1>4. CASE StageBatch
  <2>1. PICK b \in Batch : Mutate(WithBatch(log, b))
    BY <1>4 DEF StageBatch
  <2>2. Grows(log, WithBatch(log, b)) /\ StagedKinds(log, WithBatch(log, b), "data")
    BY <1>1, BatchGrows, BatchKindsStaged
  <2> QED BY <1>2, <2>1, <2>2, MutateKept
<1>5. CASE StageNothing
  BY <1>5, FileIoKept DEF StageNothing
<1>6. CASE StageSchema
  <2>1. PICK t \in Tag : Mutate(WithAction(log, "schema", t))
    BY <1>6 DEF StageSchema
  <2> QED BY <1>2, <1>3, <2>1, MutateKept
<1>7. CASE StageProperties
  <2>1. PICK t \in Tag : Mutate(WithAction(log, "properties", t))
    BY <1>7 DEF StageProperties
  <2> QED BY <1>2, <1>3, <2>1, MutateKept
<1>8. CASE StageTruncate
  <2>1. PICK t \in Tag : Mutate(WithAction(log, "truncate", t))
    BY <1>8 DEF StageTruncate
  <2> QED BY <1>2, <1>3, <2>1, MutateKept
<1>9. CASE StageVacuum
  <2>1. CASE WasRebuilt(table)
    BY <1>9, <2>1, UnchangedKept DEF StageVacuum
  <2>2. CASE ~WasRebuilt(table) /\ log # <<>>
    <3>1. table' = [table EXCEPT !.fileIo = TRUE]
      BY <1>9, <2>2 DEF StageVacuum, Rejected
    <3> QED BY <3>1, FileIoKept
  <2>3. CASE ~WasRebuilt(table) /\ log = <<>>
    <3>1. PICK t \in Tag : Staged(WithAction(log, "exclusive", t))
      BY <1>9, <2>3 DEF StageVacuum
    <3>2. Len(log) = 0 /\ ~HasExclusive(log)
      BY <2>3 DEF HasExclusive
    <3>3. table.rebuildLevel = NoLevel
      BY <2>3 DEF WasRebuilt
    <3>4. Grows(log, WithAction(log, "exclusive", t)) /\ StagedKinds(log, WithAction(log, "exclusive", t), "exclusive")
      BY <1>3
    <3> QED BY <1>2, <3>1, <3>2, <3>3, <3>4, StagedKept
  <2> QED BY <2>1, <2>2, <2>3
<1>10. CASE LocalRebuild
  <2>1. CASE HasExclusive(log)
    BY <1>10, <2>1, UnchangedKept DEF LocalRebuild
  <2>2. CASE ~HasExclusive(log)
    <3>1. table' = WithRebuild(table, level)
      BY <1>10, <2>2 DEF LocalRebuild
    <3>2. /\ TableWellFormed(WithRebuild(table, level), level)
          /\ \A to \in 2..level : ContentOf(RollbackTable(WithRebuild(table, level), to))
                                    = ContentOf(RollbackTable(table, to))
      BY <1>1, RebuildSaved DEF TableInv
    <3>3. Committable(WithRebuild(table, level))
      BY <1>1, <2>2, RebuildInv
    <3>4. SavedAt(WithRebuild(table, level), level) = SavedAt(table, level)
      BY <1>1, <3>2, SameSaved
    <3> QED BY <3>1, <3>2, <3>3, <3>4 DEF Kept, TableInv
  <2> QED BY <2>1, <2>2
<1>11. CASE StageDrop
  <2>1. CASE HasExclusive(log)
    BY <1>11, <2>1, UnchangedKept DEF StageDrop
  <2>2. CASE ~HasExclusive(log)
    <3> DEFINE after == WithAction(log, "drop", NoTag)
               io == table.fileIo
               u == [table EXCEPT !.txn = Recorded(table.txn, level, after)]
               v == MutatedTable(table, level, after, io)
    <3>1. table' = u
      BY <1>11, <2>2, ZenonT(60) DEF StageDrop
    <3>2. Grows(log, after) /\ StagedKinds(log, after, "drop")
      BY <1>3
    <3>3. Len(log) \in Nat /\ (log # <<>> \/ Len(log) = 0)
      BY <1>1
    <3>4. CommittableInv(after, io, table.rebuildLevel # NoLevel)
      <4> HIDE DEF log, after, io
      <4>1. "drop" # "exclusive"
        OBVIOUS
      <4> QED BY Zenon, <1>1, <1>2, <2>2, <3>2, <3>3, <4>1, StagedCommittable DEF io
    <3>5. /\ TableInv(v, level)
          /\ \A to \in 2..level : ContentOf(RollbackTable(v, to)) = ContentOf(RollbackTable(table, to))
      <4>1. io \in BOOLEAN
        BY <1>1
      <4> HIDE DEF after, io
      <4>2. /\ TableInv(table, level) /\ level \in Nat /\ level >= 1
            /\ Grows(table.txn.log, after)
            /\ CommittableInv(after, io, table.rebuildLevel # NoLevel)
        BY <1>1, <3>2, <3>4
      <4> QED BY <4>1, <4>2, MutatedInv
    <3>6. u = v
      <4> DEFINE x == Recorded(table.txn, level, after)
      <4>1. table \in ManagedTableState
        BY InvParts
      <4> HIDE DEF x
      <4>2. [table EXCEPT !.txn = x] = [table EXCEPT !.fileIo = io, !.txn = x]
        BY Zenon, <4>1 DEF ManagedTableState
      <4> QED BY <4>2 DEF x, MutatedTable
    <3> HIDE DEF u, v
    <3>7. SavedAt(v, level) = SavedAt(table, level)
      BY <1>1, <3>5, SameSaved
    <3> QED BY <3>1, <3>5, <3>6, <3>7 DEF Kept
  <2> QED BY <2>1, <2>2
<1> QED BY <1>4, <1>5, <1>6, <1>7, <1>8, <1>9, <1>10, <1>11

-----------------------------------------------------------------------------
(* The copies of the savepoints, as the callbacks move them.               *)

\* What ROLLBACK TO would restore at each level is a sequence with one copy per
\* open savepoint.
LEMMA SavedAtSequence ==
  ASSUME NEW t, NEW at \in Nat, at >= 1
  PROVE  /\ Len(SavedAt(t, at)) = at - 1
         /\ DOMAIN SavedAt(t, at) = 1..(at - 1)
         /\ SavedAt(t, at) \in Seq({SavedAt(t, at)[i] : i \in 1..(at - 1)})
         /\ \A i \in 1..(at - 1) : SavedAt(t, at)[i] = ContentOf(RollbackTable(t, i + 1))
<1> DEFINE s == SavedAt(t, at)
           S == {s[i] : i \in 1..(at - 1)}
<1>1. DOMAIN s = 1..(at - 1) /\ \A i \in 1..(at - 1) : s[i] = ContentOf(RollbackTable(t, i + 1))
  BY Zenon DEF SavedAt
<1>2. s = [i \in 1..(at - 1) |-> s[i]]
  BY Zenon DEF SavedAt
<1> HIDE DEF s
<1>3. s \in [1..(at - 1) -> S]
  BY <1>2
<1> HIDE DEF S
<1>4. at - 1 \in Nat
  OBVIOUS
<1>5. s \in Seq(S) /\ Len(s) = at - 1
  BY <1>3, <1>4
<1> QED BY <1>1, <1>5 DEF s, S

\* At the top level there are none.
LEMMA NoCopies ==
  ASSUME NEW t
  PROVE  SavedAt(t, 1) = <<>>
<1>1. 1 - 1 = 0 /\ 1..0 = {}
  OBVIOUS
<1>2. SavedAt(t, 1) = [i \in {} |-> ContentOf(RollbackTable(t, i + 1))]
  BY <1>1 DEF SavedAt
<1>3. [i \in {} |-> ContentOf(RollbackTable(t, i + 1))] = <<>>
  OBVIOUS
<1> QED BY <1>2, <1>3

\* A savepoint copies the contents of its moment.
LEMMA OpenCopies ==
  ASSUME NEW t, NEW at \in Nat, at >= 1, TableWellFormed(t, at)
  PROVE  SavedAt(t, at + 1) = Append(SavedAt(t, at), ContentOf(t))
<1> DEFINE s == SavedAt(t, at)
           S == {s[i] : i \in 1..(at - 1)}
           c == ContentOf(t)
           n == at - 1
           w == SavedAt(t, at + 1)
<1>1. n \in Nat /\ n + 1 = at /\ (at + 1) - 1 = n + 1 /\ at + 1 \in Nat /\ at + 1 >= 1
  OBVIOUS
<1>2. s \in Seq(S) /\ Len(s) = n /\ \A i \in 1..n : s[i] = ContentOf(RollbackTable(t, i + 1))
  BY Zenon, SavedAtSequence
<1>3. DOMAIN w = 1..(n + 1) /\ \A i \in 1..(n + 1) : w[i] = ContentOf(RollbackTable(t, i + 1))
  BY ZenonT(60), <1>1, SavedAtSequence
<1>4. ContentOf(RollbackTable(t, at + 1)) = c
  <2>1. at + 1 > at
    OBVIOUS
  <2> QED BY <1>1, <2>1, OpenSaved
<1>5. w = [i \in DOMAIN w |-> w[i]]
  BY Zenon DEF SavedAt
<1> HIDE DEF s, S, c, n, w
<1>6. /\ Append(s, c) \in Seq(S \cup {c}) /\ Len(Append(s, c)) = n + 1
      /\ Append(s, c)[n+1] = c /\ \A i \in 1..n : Append(s, c)[i] = s[i]
  BY <1>2
<1>7. Append(s, c) = [i \in 1..(n + 1) |-> Append(s, c)[i]]
  <2> DEFINE a == Append(s, c)
             A == S \cup {c}
  <2>1. a \in Seq(A) /\ Len(a) = n + 1
    BY <1>6
  <2> HIDE DEF a, A
  <2>2. a = [i \in 1..(n + 1) |-> a[i]]
    BY <1>1, <2>1
  <2> QED BY Zenon, <2>2 DEF a
<1>8. ASSUME NEW i \in 1..(n + 1) PROVE w[i] = Append(s, c)[i]
  <2>1. CASE i = n + 1
    <3>1. w[i] = ContentOf(RollbackTable(t, at + 1))
      BY <1>1, <1>3, <2>1
    <3> QED BY <1>4, <1>6, <2>1, <3>1
  <2>2. CASE i # n + 1
    <3>1. i \in 1..n
      BY <1>1, <2>2
    <3> QED BY <1>2, <1>3, <1>6, <3>1
  <2> QED BY Zenon, <2>1, <2>2
<1>9. w = Append(s, c)
  BY <1>3, <1>5, <1>7, <1>8, ZenonT(60)
<1> QED BY <1>9 DEF w, s, c

\* The end of a subtransaction drops the newest copy.
LEMMA CloseCopies ==
  ASSUME NEW t, NEW u, NEW at \in Nat, at >= 2,
         \A to \in 2..(at - 1) : ContentOf(RollbackTable(u, to)) = ContentOf(RollbackTable(t, to))
  PROVE  /\ SavedAt(t, at) # <<>>
         /\ SavedAt(u, at - 1) = SubSeq(SavedAt(t, at), 1, Len(SavedAt(t, at)) - 1)
         /\ SavedAt(t, at)[Len(SavedAt(t, at))] = ContentOf(RollbackTable(t, at))
<1> DEFINE s == SavedAt(t, at)
           S == {s[i] : i \in 1..(at - 1)}
           n == at - 1
           w == SavedAt(u, at - 1)
<1>1. n \in Nat /\ n >= 1 /\ n + 1 = at /\ at >= 1 /\ n \in 1..n
  OBVIOUS
<1>2. s \in Seq(S) /\ Len(s) = n /\ \A i \in 1..n : s[i] = ContentOf(RollbackTable(t, i + 1))
  BY ZenonT(60), <1>1, SavedAtSequence
<1>3. DOMAIN w = 1..(n - 1) /\ \A i \in 1..(n - 1) : w[i] = ContentOf(RollbackTable(u, i + 1))
  BY Zenon, <1>1, SavedAtSequence
<1>4. w = [i \in DOMAIN w |-> w[i]]
  BY Zenon DEF SavedAt
<1>5. ASSUME NEW i \in 1..(n - 1) PROVE w[i] = s[i] /\ i \in 1..n
  <2>1. i \in 1..n /\ i + 1 \in 2..(at - 1)
    BY <1>1
  <2> QED BY <1>2, <1>3, <2>1, ZenonT(60)
<1>6. s[n] = ContentOf(RollbackTable(t, at))
  BY <1>1, <1>2
<1> HIDE DEF s, S, n, w
<1>7. /\ Len(s) - 1 = n - 1 /\ SubSeq(s, 1, n - 1) \in Seq(S) /\ Len(SubSeq(s, 1, n - 1)) = n - 1
      /\ \A i \in 1..(n - 1) : SubSeq(s, 1, n - 1)[i] = s[i]
  BY <1>1, <1>2
<1>8. SubSeq(s, 1, n - 1) = [i \in 1..(n - 1) |-> SubSeq(s, 1, n - 1)[i]]
  BY <1>1, <1>7
<1>9. w = SubSeq(s, 1, n - 1)
  BY <1>3, <1>4, <1>5, <1>7, <1>8, ZenonT(60)
<1>10. s # <<>>
  BY <1>1, <1>2
<1> QED BY <1>2, <1>6, <1>7, <1>9, <1>10 DEF w, s

-----------------------------------------------------------------------------
(* The inductive step.                                                     *)

\* Contents as the abstract specification types them.
LEMMA ContentTyped ==
  ASSUME NEW t \in ManagedTableState
  PROVE  ContentOf(t) \in [log : Seq(Action), rebuilt : BOOLEAN]
<1>1. t.txn \in Txn
  BY DEF ManagedTableState
<1>2. t.txn.log \in Seq(Action)
  BY <1>1 DEF Txn
<1>3. WasRebuilt(t) \in BOOLEAN
  BY DEF WasRebuilt
<1> HIDE DEF WasRebuilt
<1> QED BY <1>2, <1>3 DEF ContentOf

\* One step of the abstract savepoint stack, on the mapped state.
StackStep(t, at, u, to) ==
  \/ ContentOf(u) \in [log : Seq(Action), rebuilt : BOOLEAN] /\ SavedAt(u, to) = SavedAt(t, at)
  \/ SavedAt(u, to) = Append(SavedAt(t, at), ContentOf(t)) /\ ContentOf(u) = ContentOf(t)
  \/ /\ SavedAt(t, at) # <<>>
     /\ SavedAt(u, to) = SubSeq(SavedAt(t, at), 1, Len(SavedAt(t, at)) - 1)
     /\ ContentOf(u) = ContentOf(t) \/ ContentOf(u) = SavedAt(t, at)[Len(SavedAt(t, at))]
  \/ ContentOf(u) = ContentOf(NewTable) /\ SavedAt(u, to) = <<>>
  \/ ContentOf(u) = ContentOf(t) /\ SavedAt(u, to) = SavedAt(t, at)

\* Every step keeps the invariant and is a step of the savepoint stack.
LEMMA InvStep ==
  ASSUME Inv, [Next]_vars
  PROVE  Inv' /\ StackStep(table, level, table', level')
<1>1. /\ TableInv(table, level) /\ level \in Nat /\ level >= 1 /\ table \in ManagedTableState
      /\ TableWellFormed(table, level)
  BY InvParts DEF TableInv
<1>2. /\ kind \in {"local", "object"} /\ level \in 1..MaxLevel /\ cid \in 0..MaxCommands
      /\ failed \in BOOLEAN /\ MaxLevel \in Nat /\ MaxCommands \in Nat /\ MaxLevel >= 1
  BY BoundsAssumption DEF Inv, TypeOK
<1>3. ASSUME kind' \in {"local", "object"}, level' \in 1..MaxLevel, cid' \in 0..MaxCommands,
             failed' \in BOOLEAN, TableInv(table', level')
      PROVE  Inv'
  <2>1. table' \in ManagedTableState
    BY <1>3 DEF TableInv, TableWellFormed
  <2>2. level' \in Nat
    BY <1>2, <1>3
  <2>3. HistoryInv'
    <3>1. UsableHistory(table', level')
      BY <1>3, <2>1, <2>2, UsableHistoryIs
    <3> QED BY <3>1 DEF HistoryInv
  <2> QED BY <1>3, <2>1, <2>3 DEF Inv, TypeOK
<1>4. CASE \/ StageBatch \/ StageNothing \/ StageSchema \/ StageProperties
           \/ StageTruncate \/ StageVacuum \/ LocalRebuild \/ StageDrop
  <2>1. Kept
    BY SMTT(60), <1>4, StatementKept
  <2>2. /\ kind' = kind /\ level' = level /\ cid < MaxCommands /\ cid' = cid + 1
        /\ failed' \in BOOLEAN
    BY ZenonT(60), <1>2, <1>4
       DEF StageBatch, StageNothing, StageSchema, StageProperties, StageTruncate, StageVacuum,
           LocalRebuild, StageDrop, Command, Mutate, Staged, Rejected
  <2>3. TableInv(table', level') /\ SavedAt(table', level') = SavedAt(table, level)
    BY <2>1, <2>2 DEF Kept
  <2>4. cid' \in 0..MaxCommands
    BY <1>2, <2>2
  <2>5. Inv'
    BY <1>2, <1>3, <2>2, <2>3, <2>4
  <2>6. ContentOf(table') \in [log : Seq(Action), rebuilt : BOOLEAN]
    BY <2>3, ContentTyped DEF TableInv, TableWellFormed
  <2> QED BY <2>3, <2>5, <2>6 DEF StackStep
<1>5. CASE Savepoint
  <2>1. /\ kind' = kind /\ cid' = cid /\ failed' = failed /\ table' = table
        /\ level < MaxLevel /\ level' = level + 1
    BY <1>5 DEF Savepoint
  <2>2. level' \in 1..MaxLevel /\ level + 1 \in Nat /\ level <= level + 1
    BY <1>2, <2>1
  <2>3. TableWellFormed(table, level + 1)
    BY <1>1, <2>2, TableDeeper
  <2>4. TableInv(table', level')
    BY <1>1, <2>1, <2>3 DEF TableInv
  <2>5. SavedAt(table, level + 1) = Append(SavedAt(table, level), ContentOf(table))
    BY <1>1, OpenCopies
  <2>6. Inv'
    BY <1>2, <1>3, <2>1, <2>2, <2>4
  <2> QED BY <2>1, <2>5, <2>6 DEF StackStep
<1>6. CASE CommitSub
  <2> DEFINE u == PromoteTable(table, level)
  <2>1. /\ kind' = kind /\ cid' = cid /\ failed' = failed /\ table' = u
        /\ level > 1 /\ level' = level - 1
    BY <1>6 DEF CommitSub
  <2>2. level' \in 1..MaxLevel /\ level >= 2
    BY <1>2, <2>1
  <2>3. /\ TableWellFormed(u, level - 1) /\ ContentOf(u) = ContentOf(table)
        /\ \A to \in 2..(level - 1) : ContentOf(RollbackTable(u, to)) = ContentOf(RollbackTable(table, to))
    BY <1>1, <2>2, PromoteSaved
  <2>4. Committable(u)
    BY <1>1, <2>2, PromoteInv
  <2> HIDE DEF u
  <2>5. TableInv(table', level')
    BY <2>1, <2>3, <2>4 DEF TableInv
  <2>6. /\ SavedAt(table, level) # <<>>
        /\ SavedAt(u, level - 1) = SubSeq(SavedAt(table, level), 1, Len(SavedAt(table, level)) - 1)
    BY <1>1, <2>2, <2>3, CloseCopies
  <2>7. Inv'
    BY <1>2, <1>3, <2>1, <2>2, <2>5
  <2> QED BY <2>1, <2>3, <2>6, <2>7 DEF StackStep
<1>7. CASE AbortSub
  <2> DEFINE u == RollbackTable(table, level)
  <2>1. /\ kind' = kind /\ cid' = cid /\ failed' = FALSE /\ table' = u
        /\ level > 1 /\ level' = level - 1
    BY <1>7 DEF AbortSub
  <2>2. level' \in 1..MaxLevel /\ level >= 2
    BY <1>2, <2>1
  <2>3. /\ TableWellFormed(u, level - 1)
        /\ \A to \in 2..(level - 1) : ContentOf(RollbackTable(u, to)) = ContentOf(RollbackTable(table, to))
    BY <1>1, <2>2, RollbackSaved
  <2>4. Committable(u)
    BY <1>1, <2>2, RollbackInv
  <2>5. /\ SavedAt(table, level) # <<>>
        /\ SavedAt(u, level - 1) = SubSeq(SavedAt(table, level), 1, Len(SavedAt(table, level)) - 1)
        /\ SavedAt(table, level)[Len(SavedAt(table, level))] = ContentOf(u)
    BY <1>1, <2>2, <2>3, CloseCopies
  <2> HIDE DEF u
  <2>6. TableInv(table', level')
    BY <2>1, <2>3, <2>4 DEF TableInv
  <2>7. Inv'
    BY Zenon, <1>2, <1>3, <2>1, <2>2, <2>6
  <2> QED BY <2>1, <2>5, <2>7 DEF StackStep
<1>8. CASE EndTransaction
  <2>1. /\ kind' = kind /\ cid' = 0 /\ failed' = FALSE /\ table' = NewTable /\ level' = 1
    BY <1>8 DEF EndTransaction
  <2>2. TableInv(table', level')
    BY <2>1, NewTableInv
  <2>3. SavedAt(NewTable, 1) = <<>>
    BY NoCopies
  <2>4. Inv'
    <3>1. level' \in 1..MaxLevel /\ cid' \in 0..MaxCommands
      BY <1>2, <2>1
    <3>2. kind' \in {"local", "object"} /\ failed' \in BOOLEAN
      BY Zenon, <1>2, <2>1
    <3> QED BY <1>3, <2>2, <3>1, <3>2
  <2> QED BY <2>1, <2>3, <2>4 DEF StackStep
<1>9. CASE UNCHANGED <<kind, level, cid, table>> /\ failed' \in BOOLEAN
  <2>1. TableInv(table', level')
    BY <1>1, <1>9
  <2>2. Inv'
    BY <1>2, <1>3, <1>9, <2>1
  <2> QED BY <1>9, <2>2 DEF StackStep
<1>10. CASE Commit \/ Prepare \/ AbortTransaction
  <2>1. EndTransaction \/ (UNCHANGED <<kind, level, cid, table>> /\ failed' \in BOOLEAN)
    BY Zenon, <1>10 DEF Commit, Prepare, AbortTransaction
  <2> QED BY <1>8, <1>9, <2>1
<1>11. CASE UNCHANGED vars
  <2>1. UNCHANGED <<kind, level, cid, table>> /\ failed' \in BOOLEAN
    BY <1>2, <1>11 DEF vars
  <2> QED BY <1>9, <2>1
<1> QED BY <1>4, <1>5, <1>6, <1>7, <1>10, <1>11 DEF Next

-----------------------------------------------------------------------------
(* Theorems.                                                               *)

\* The invariant holds in the initial state.
LEMMA InvInit == Init => Inv
<1> SUFFICES ASSUME Init PROVE Inv
  OBVIOUS
<1>1. TableInv(table, level) /\ level \in Nat
  BY NewTableInv DEF Init
<1>2. table \in ManagedTableState
  BY <1>1 DEF TableInv, TableWellFormed
<1>3. HistoryInv
  BY <1>1, <1>2, UsableHistoryIs DEF HistoryInv
<1>4. TypeOK
  <2>1. 1 \in 1..MaxLevel /\ 0 \in 0..MaxCommands
    BY BoundsAssumption
  <2> QED BY <1>2, <2>1, Zenon DEF Init, TypeOK
<1> QED BY <1>3, <1>4 DEF Inv

\* The undo information that savepoint callbacks rely on (level_history and
\* rebuild_history) is usable in every reachable state of every transaction.
THEOREM HistoryIsUsable == Spec => [](TypeOK /\ HistoryInv)
<1>1. Inv /\ [Next]_vars => Inv'
  BY InvStep
<1>2. Spec => []Inv
  BY InvInit, <1>1, PTL DEF Spec
<1>3. Inv => TypeOK /\ HistoryInv
  BY DEF Inv
<1> QED BY <1>2, <1>3, PTL

\* The invariant rules out the errors of commit_input and commit_plan.
LEMMA InvCommits == Inv => CommitNeverFails
<1> SUFFICES ASSUME Inv, CommitFails(table) PROVE FALSE
  BY DEF CommitNeverFails
<1> DEFINE log == table.txn.log
<1>1. /\ log \in Seq(Action) /\ table.fileIo \in BOOLEAN
      /\ CommittableInv(log, table.fileIo, table.rebuildLevel # NoLevel)
  BY InvParts
<1>2. Len(log) \in Nat
  BY <1>1
<1>3. ~IsEmpty(log) /\ ~IsDropped(log) /\ (~table.fileIo \/ CommitPlanFails(log))
  BY DEF CommitFails, NothingToCommit, CommitInputFails
<1>4. ASSUME NEW i \in 1..Len(log) PROVE log[i].kind # "drop"
  <2> SUFFICES ASSUME log[i].kind = "drop" PROVE FALSE
    OBVIOUS
  <2>1. i = Len(log)
    BY <1>1 DEF CommittableInv
  <2>2. log # <<>>
    BY <1>2, <2>1
  <2> QED BY <1>3, <2>1, <2>2 DEF IsDropped, EndsIn, LastOf
<1>5. Len(log) >= 1
  BY <1>2, <1>3 DEF IsEmpty
<1>6. table.fileIo
  <2>1. 1 \in 1..Len(log)
    BY <1>2, <1>5
  <2> QED BY <1>1, <1>4, <2>1 DEF CommittableInv
<1>7. CommitPlanFails(log)
  BY <1>3, <1>6
<1>8. HasExclusive(log) => Len(log) = 1
  BY <1>1 DEF CommittableInv
<1>9. CASE log # <<>> /\ log[1].kind = "exclusive"
  <2>1. 1 \in 1..Len(log)
    BY <1>2, <1>5
  <2>2. HasExclusive(log)
    BY <1>9, <2>1 DEF HasExclusive
  <2> QED BY <1>7, <1>8, <1>9, <2>2 DEF CommitPlanFails
<1>10. CASE ~(log # <<>> /\ log[1].kind = "exclusive")
  <2>1. PICK i \in 1..Len(log) : log[i].kind \in {"exclusive", "drop"}
    BY <1>7, <1>10 DEF CommitPlanFails
  <2>2. log[i].kind = "exclusive"
    BY <1>4, <2>1
  <2>3. Len(log) = 1
    BY <1>8, <2>2 DEF HasExclusive
  <2>4. i = 1 /\ log # <<>>
    <3>1. i \in 1..1
      BY <2>3
    <3>2. log # <<>>
      BY <1>5
    <3> QED BY <3>1, <3>2
  <2> QED BY <1>10, <2>2, <2>4
<1> QED BY <1>9, <1>10

\* Whatever statements, errors and savepoints preceded it, commit_all meets
\* none of its invariant errors.
THEOREM CommitMeetsNoInvariantError == Spec => []CommitNeverFails
BY HistoryIsUsable, InvCommits, PTL DEF Inv

\* The invariant keeps VACUUM alone.
LEMMA InvVacuum == Inv => VacuumStandsAlone
<1> SUFFICES ASSUME Inv, HasExclusive(table.txn.log)
             PROVE  Len(table.txn.log) = 1 /\ ~WasRebuilt(table) /\ table.rebuilds = <<>>
  BY DEF VacuumStandsAlone
<1>1. /\ CommittableInv(table.txn.log, table.fileIo, table.rebuildLevel # NoLevel)
      /\ TableInv(table, level) /\ level \in Nat
  BY InvParts
<1>2. Len(table.txn.log) = 1 /\ table.rebuildLevel = NoLevel
  BY <1>1 DEF CommittableInv
<1>3. TableWellFormed(table, level)
  BY <1>1 DEF TableInv
<1>4. table.rebuilds # <<>> => table.rebuildLevel = table.rebuilds[Len(table.rebuilds)].level
  BY <1>1, <1>3, OwnerParts
<1>5. table.rebuilds # <<>> => table.rebuilds[Len(table.rebuilds)].level \in 2..level
  <2> HAVE table.rebuilds # <<>>
  <2>1. table.rebuilds \in Seq(RebuildFrame)
    BY <1>1, <1>3, TableParts
  <2>2. Len(table.rebuilds) \in 1..Len(table.rebuilds)
    BY <2>1
  <2> QED BY <1>3, <2>2 DEF TableWellFormed
<1>6. table.rebuilds = <<>>
  BY <1>1, <1>2, <1>4, <1>5 DEF NoLevel
<1> QED BY <1>2, <1>6 DEF WasRebuilt

\* VACUUM never shares a transaction with another change of its table.
THEOREM VacuumIsAlone == Spec => []VacuumStandsAlone
BY HistoryIsUsable, InvVacuum, PTL DEF Inv

\* Markers, frames and levels implement the stack of saved copies: a rolled
\* back savepoint restores exactly its moment, a released one loses nothing.
THEOREM SavepointsAreCopies == Spec => SavepointsRestore
<1>1. Init => Savepoints!Init
  <2> SUFFICES ASSUME Init PROVE Savepoints!Init
    OBVIOUS
  <2>1. level = 1 /\ table = NewTable
    BY DEF Init
  <2>2. [i \in 1..(level - 1) |-> ContentOf(RollbackTable(table, i + 1))] = <<>>
    <3>1. SavedAt(table, level) = <<>>
      BY <2>1, NoCopies
    <3> QED BY <3>1 DEF SavedAt
  <2> QED BY <2>1, <2>2 DEF Savepoints!Init
<1>2. Inv /\ [Next]_vars => [Savepoints!Next]_(Savepoints!stackVars)
  <2> SUFFICES ASSUME Inv, [Next]_vars PROVE [Savepoints!Next]_(Savepoints!stackVars)
    OBVIOUS
  <2>1. StackStep(table, level, table', level')
    BY InvStep
  <2> QED BY <2>1, Zenon
      DEF StackStep, SavedAt, Savepoints!Next, Savepoints!Stage, Savepoints!Open,
          Savepoints!Release, Savepoints!Abort, Savepoints!End, Savepoints!stackVars
<1>3. Spec => []Inv
  BY HistoryIsUsable, PTL DEF Inv
<1> QED BY <1>1, <1>2, <1>3, PTL DEF Spec, SavepointsRestore, Savepoints!Spec
=============================================================================
