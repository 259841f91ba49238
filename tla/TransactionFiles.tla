-------------------------- MODULE TransactionFiles --------------------------
(***************************************************************************)
(* Files that a transaction creates and retires: the registry of created   *)
(* storage resources (transaction_resources), the retirement of local      *)
(* generations (local_retirement), the deletes that wait for the commit    *)
(* (transaction::cleanup, CommittedCleanup) and the callback framework that *)
(* drives them, for one backend and one table.                             *)
(*                                                                         *)
(* A file is a number and belongs to a generation of the table, its root.  *)
(* The table is local (a file is created in place) or in object storage (a *)
(* file is staged locally and uploaded when it is finished).  What the     *)
(* catalog and the action log say about the table is a view; PostgreSQL    *)
(* and module TableTransaction restore it when a savepoint is rolled back. *)
(***************************************************************************)
EXTENDS Integers, Sequences, SequencesExt, FiniteSets

CONSTANTS
  Kinds,       \* "local", "object" or both
  MaxLevel,    \* bound: nesting of savepoints
  MaxFiles,    \* bound: files ever created
  MaxRoots,    \* bound: generations ever created
  MaxOutages,  \* bound: files that cannot be deleted for a while
  MaxTxns      \* bound: transactions

ASSUME FilesAssumption ==
  /\ Kinds \subseteq {"local", "object"}
  /\ {MaxLevel, MaxFiles, MaxRoots} \subseteq Nat \ {0}
  /\ {MaxOutages, MaxTxns} \subseteq Nat

VARIABLES
  kind,       \* where the table is stored
  committed,  \* the committed view
  disk,       \* files in place: in the table's directory or object store
  staging,    \* files with a local staging copy
  home,       \* home[f] is the root of file f
  roots,      \* generations created so far
  stuck,      \* files whose deletion fails at present
  outages,    \* bound spent
  begun,      \* bound spent: transactions
  orphans,    \* history: files the code gave up on
  detached,   \* history: files whose cleanup PREPARE has dropped
  prepared,   \* view of the prepared transaction, if there is one
  tx          \* the running transaction

vars == <<kind, committed, disk, staging, home, roots, stuck, outages,
          begun, orphans, detached, prepared, tx>>
still == <<stuck, outages, begun>>
world == <<kind, home, roots, still, detached, prepared>>

-----------------------------------------------------------------------------
(* Views and transactions.                                                 *)

Root == 0..MaxRoots
File == 1..MaxFiles
NoRoot == 0

\* The table as a transaction sees it: its generation, the files its metadata
\* refers to (history included), those that staged batches of the transaction
\* added, those a later TRUNCATE cancelled, whether the action log has actions,
\* whether the tracker holds it for rebuilt or dropped (CREATE counts for local
\* storage only), the nesting level at which the generation was created, and the
\* roots handed to the cleanup queue.
View == [root : Root, files : SUBSET File, mine : SUBSET File,
         canceled : SUBSET File, staged : BOOLEAN, rebuilt : BOOLEAN,
         born : 0..MaxLevel, queue : SUBSET Root]

Empty(root, files, queue) ==
  [root |-> root, files |-> files, mine |-> {}, canceled |-> {},
   staged |-> FALSE, rebuilt |-> FALSE, born |-> 0, queue |-> queue]
NoView == Empty(NoRoot, {}, {})

\* A tracked resource: a created file (and whether it has been uploaded) or a
\* created table directory.
Resource == [level : 1..MaxLevel, type : {"file", "dir"}, id : Nat,
             uploaded : BOOLEAN]

\* pc "open": between or inside statements; "failed": an error was raised;
\* "attempt" and "cas": in the commit loop; "ready": pre-commit is over;
\* "callbacks" and "locks": committed, before and after the commit callbacks.
Idle == [pc |-> "idle", level |-> 1, view |-> NoView, saved |-> <<>>,
         open |-> {}, reg |-> <<>>, attempt |-> <<>>, promoted |-> <<>>,
         cleanup |-> <<>>, retired |-> <<>>, batches |-> <<>>, deferred |-> <<>>]

InRoot(r) == {f \in 1..Len(home) : home[f] = r}

\* ManagedTableState::has_changes.
HasChanges(v) == v.staged \/ v.rebuilt

NewFile == Len(home) + 1

-----------------------------------------------------------------------------
(* Cleanup of tracked resources.                                           *)

FileResource(level, f, uploaded) ==
  [level |-> level, type |-> "file", id |-> f, uploaded |-> uploaded]
DirResource(level, r) ==
  [level |-> level, type |-> "dir", id |-> r, uploaded |-> FALSE]

Elements(s) == {s[i] : i \in 1..Len(s)}
Dirs(s) == {e \in Elements(s) : e.type = "dir"}

\* Files that abort deletes one by one: created local files, uploaded objects.
Listed(s) ==
  {e.id : e \in {e \in Elements(s) : e.type = "file" /\ (kind = "local" \/ e.uploaded)}}

Swept(s) == UNION {InRoot(e.id) : e \in Dirs(s)}

\* A directory with a file that cannot be deleted may keep other files.
Blocked(s) ==
  UNION {InRoot(e.id) : e \in {e \in Dirs(s) : InRoot(e.id) \cap disk \cap stuck # {}}}

FilesOf(s) == {e.id : e \in Elements(s) \ Dirs(s)}

DeleteTracked(s) ==
  LET doomed == disk \cap (Listed(s) \cup Swept(s))
      may == doomed \cap (stuck \cup (Blocked(s) \ Listed(s)))
  IN  \E left \in SUBSET may :
        /\ doomed \cap stuck \subseteq left
        /\ disk' = (disk \ doomed) \cup left
        /\ orphans' = orphans \cup left

\* StorageResource::on_abort of the resources in s: failures are reported only.
AbortCleanup(s) ==
  DeleteTracked(s) /\ staging' = staging \ FilesOf(s)

-----------------------------------------------------------------------------
(* The transaction and its savepoints.                                     *)

Init ==
  /\ kind \in Kinds
  /\ \/ /\ committed = NoView /\ disk = {} /\ home = <<>> /\ roots = 0
     \/ /\ committed = Empty(1, {1}, {}) /\ disk = {1} /\ home = <<1>> /\ roots = 1
  /\ staging = {} /\ stuck = {} /\ outages = 0 /\ begun = 0
  /\ orphans = {} /\ detached = {} /\ prepared = <<>>
  /\ tx = Idle

Begin ==
  /\ tx.pc = "idle" /\ prepared = <<>> /\ begun < MaxTxns
  /\ tx' = [Idle EXCEPT !.pc = "open", !.view = committed]
  /\ begun' = begun + 1
  /\ UNCHANGED <<kind, committed, disk, staging, home, roots, stuck, outages, orphans,
                 detached, prepared>>

\* SAVEPOINT, or an exception block of a function that a statement calls.
Savepoint ==
  /\ tx.pc = "open" /\ tx.level < MaxLevel
  /\ tx' = [tx EXCEPT !.level = @ + 1, !.saved = Append(@, tx.view)]
  /\ UNCHANGED <<committed, disk, staging, orphans, world>>

\* promote_subtransaction_resources: entries of a released level join the
\* parent.  The framework, the registry and the retirements all do this.
Promote(s, l) ==
  [i \in 1..Len(s) |-> IF s[i].level >= l THEN [s[i] EXCEPT !.level = l - 1]
                       ELSE s[i]]

Release ==
  LET l == tx.level
  IN  /\ tx.pc = "open" /\ l > 1
      /\ \A o \in tx.open : o.level < l
      /\ tx' = [tx EXCEPT !.level = l - 1, !.saved = Front(@),
                          !.reg = Promote(@, l), !.retired = Promote(@, l),
                          !.view.born = IF @ >= l THEN l - 1 ELSE @]
      /\ UNCHANGED <<committed, disk, staging, orphans, world>>

Below(s, l) == SelectSeq(s, LAMBDA e : e.level < l)

\* on_abort_sub of the retirements: those of the aborted level are cancelled.
RetirementsBelow(s, l) == Below(s, l)

\* ROLLBACK TO SAVEPOINT, or the end of a failed exception block: the view of
\* the savepoint is back, and what the level created is removed.
RollbackTo ==
  LET l == tx.level
      aborted == SelectSeq(tx.reg, LAMBDA e : e.level >= l)
  IN  /\ tx.pc \in {"open", "failed"} /\ l > 1
      /\ AbortCleanup(aborted)
      /\ tx' = [tx EXCEPT !.pc = "open", !.level = l - 1, !.view = Last(tx.saved),
                          !.saved = Front(@), !.reg = Below(@, l),
                          !.retired = RetirementsBelow(@, l),
                          !.open = {o \in @ : o.level < l}]
      /\ UNCHANGED <<committed, world>>
-----------------------------------------------------------------------------
(* Statements that write.                                                  *)

\* Storage::writer, before the first byte: the file exists and is tracked.
CreateFile ==
  LET n == NewFile
      staged == kind = "object"
  IN  /\ tx.pc = "open" /\ tx.view.root # NoRoot /\ n \in File
      /\ home' = Append(home, tx.view.root)
      /\ disk' = IF staged THEN disk ELSE disk \cup {n}
      /\ staging' = IF staged THEN staging \cup {n} ELSE staging
      /\ tx' = [tx EXCEPT !.reg = Append(@, FileResource(tx.level, n, FALSE)),
                          !.open = @ \cup {[id |-> n, level |-> tx.level, done |-> ~staged]}]
      /\ UNCHANGED <<kind, committed, roots, still, orphans, detached, prepared>>

\* ObjectStorage::finalize_write: upload, then Staged becomes Uploaded.
MarkUploaded(s, f) ==
  [i \in 1..Len(s) |-> IF s[i].type = "file" /\ s[i].id = f
                       THEN [s[i] EXCEPT !.uploaded = TRUE] ELSE s[i]]

FinalizeWrite(o) ==
  /\ tx.pc = "open" /\ o.level = tx.level /\ ~o.done
  /\ disk' = disk \cup {o.id}
  /\ tx' = [tx EXCEPT !.reg = MarkUploaded(@, o.id),
                      !.open = (@ \ {o}) \cup {[o EXCEPT !.done = TRUE]}]
  /\ UNCHANGED <<committed, staging, orphans, world>>

\* The upload fails, and the object may be there all the same: the resource
\* stays Staged and abort does not touch the object store.
UploadFails(o) ==
  /\ tx.pc = "open" /\ o.level = tx.level /\ ~o.done
  /\ \E arrived \in SUBSET {o.id} :
       disk' = disk \cup arrived /\ orphans' = orphans \cup arrived
  /\ tx' = [tx EXCEPT !.pc = "failed"]
  /\ UNCHANGED <<committed, staging, world>>

\* record_batch: the finished file becomes part of what the transaction commits.
RecordBatch(o) ==
  /\ tx.pc = "open" /\ o.level = tx.level /\ o.done
  /\ tx' = [tx EXCEPT !.open = @ \ {o}, !.view.files = @ \cup {o.id},
                      !.view.mine = @ \cup {o.id}, !.view.staged = TRUE]
  /\ UNCHANGED <<committed, disk, staging, orphans, world>>

\* The first metadata file of a generation (BootstrapWriter): written in place
\* or, for object storage, staged and uploaded.
Bootstrap(base, n) ==
  /\ disk' = base \cup {n}
  /\ staging' = IF kind = "object" THEN staging \cup {n} ELSE staging

\* A statement may fail after its files are written and before the catalog and
\* the tracker have the new generation.
Outcome(reg, view, retired) ==
  \E ok \in BOOLEAN :
    tx' = [tx EXCEPT !.pc = IF ok THEN "open" ELSE "failed", !.reg = reg,
                     !.view = IF ok THEN view ELSE @,
                     !.retired = IF ok THEN retired ELSE @]

Generation(root, n, rebuilt) ==
  [Empty(root, {n}, tx.view.queue) EXCEPT !.rebuilt = rebuilt, !.born = tx.level]

\* The directory is tracked before the first file in it is written.
NewGeneration(rebuilt, retired) ==
  LET n == NewFile
      r == roots + 1
  IN  /\ n \in File /\ r \in Root
      /\ home' = Append(home, r) /\ roots' = r
      /\ Bootstrap(disk, n)
      /\ Outcome(tx.reg \o <<DirResource(tx.level, r),
                             FileResource(tx.level, n, kind = "object")>>,
                 Generation(r, n, rebuilt), retired)

\* ManagedTableCreation::execute.
CreateTable ==
  /\ tx.pc = "open" /\ tx.view.root = NoRoot /\ tx.open = {}
  /\ NewGeneration(kind = "local", tx.retired)
  /\ UNCHANGED <<kind, committed, still, orphans, detached, prepared>>

Retirement(root) == [level |-> tx.level, root |-> root]

\* PostgreSQL truncates in place what this subtransaction created, and gives
\* the table a new relfilenode otherwise.
\* Faulty variant: whatever this transaction created.
CreatedInTransaction == tx.view.born > 0

TruncatesInPlace == tx.view.born = tx.level

\* ManagedTableTruncate::execute, local storage.
TruncateNewRoot ==
  /\ tx.pc = "open" /\ kind = "local" /\ tx.view.root # NoRoot /\ tx.open = {}
  /\ ~TruncatesInPlace
  /\ NewGeneration(TRUE, Append(tx.retired, Retirement(tx.view.root)))
  /\ UNCHANGED <<kind, committed, still, orphans, detached, prepared>>

\* The same directory: it is emptied at once.
TruncateSameDirectory ==
  LET n == NewFile
      r == tx.view.root
  IN  /\ tx.pc = "open" /\ kind = "local" /\ r # NoRoot /\ tx.open = {}
      /\ TruncatesInPlace /\ n \in File
      /\ InRoot(r) \cap disk \cap stuck = {}
      /\ home' = Append(home, r)
      /\ Bootstrap(disk \ InRoot(r), n)
      /\ Outcome(Append(tx.reg, FileResource(tx.level, n, FALSE)),
                 Generation(r, n, TRUE), tx.retired)
      /\ UNCHANGED <<kind, committed, roots, still, orphans, detached, prepared>>

\* remove_dir_all stops at a file that cannot be deleted: the statement fails.
TruncateDirectoryFails ==
  LET files == InRoot(tx.view.root) \cap disk
  IN  /\ tx.pc = "open" /\ kind = "local" /\ tx.view.root # NoRoot /\ tx.open = {}
      /\ TruncatesInPlace /\ files \cap stuck # {}
      /\ \E gone \in SUBSET (files \ stuck) : disk' = disk \ gone
      /\ tx' = [tx EXCEPT !.pc = "failed"]
      /\ UNCHANGED <<committed, staging, orphans, world>>

\* stage_truncate, object storage: nothing is deleted before the commit.
StageTruncate ==
  /\ tx.pc = "open" /\ kind = "object" /\ tx.view.root # NoRoot /\ tx.open = {}
  /\ tx' = [tx EXCEPT !.view.files = @ \ tx.view.mine, !.view.mine = {},
                      !.view.canceled = @ \cup tx.view.mine, !.view.staged = TRUE]
  /\ UNCHANGED <<committed, disk, staging, orphans, world>>

Dropped(v) ==
  [Empty(NoRoot, {}, IF kind = "object" THEN v.queue \cup {v.root} ELSE v.queue)
     EXCEPT !.rebuilt = TRUE]

\* IcebergTableDrop::stage: a local root is retired, an object-storage tree is
\* put into the cleanup queue, a table that commits with the transaction.
DropTable(from) ==
  /\ tx.pc = from /\ tx.view.root # NoRoot /\ tx.open = {}
  /\ tx' = [tx EXCEPT !.view = Dropped(@),
                      !.retired = IF kind = "local"
                                  THEN Append(@, Retirement(tx.view.root)) ELSE @]
  /\ UNCHANGED <<committed, disk, staging, orphans, world>>

-----------------------------------------------------------------------------
(* Pre-commit.                                                             *)

\* A table with staged actions is committed; one that was only created,
\* rebuilt or dropped is in the catalog already.
PreCommit ==
  /\ tx.pc = "open" /\ tx.level = 1 /\ tx.open = {}
  /\ tx' = [tx EXCEPT !.pc = IF tx.view.staged /\ tx.view.root # NoRoot
                             THEN "attempt" ELSE "ready"]
  /\ UNCHANGED <<committed, disk, staging, orphans, world>>

\* MetadataMaterializationAttempt::begin and the files of the new snapshot,
\* tracked by the attempt, not by a savepoint level.
Materialize ==
  LET n == NewFile
  IN  /\ tx.pc = "attempt" /\ n \in File
      /\ home' = Append(home, tx.view.root)
      /\ Bootstrap(disk, n)
      /\ tx' = [tx EXCEPT !.pc = "cas",
                          !.attempt = <<FileResource(1, n, kind = "object")>>]
      /\ UNCHANGED <<kind, committed, roots, still, orphans, detached, prepared>>

\* register_canceled_files_for_commit.
CanceledBatch(v) == IF v.canceled = {} THEN <<>> ELSE <<v.canceled>>

\* cas_update succeeds: the attempt is promoted.
PromoteAttempt ==
  /\ tx.pc = "cas"
  /\ tx' = [tx EXCEPT !.pc = "ready", !.attempt = <<>>,
                      !.promoted = @ \o tx.attempt,
                      !.view.files = @ \cup FilesOf(tx.attempt),
                      !.batches = @ \o CanceledBatch(tx.view)]
  /\ UNCHANGED <<committed, disk, staging, orphans, world>>

\* discard_metadata_attempt: what cannot be deleted is kept for the end of the
\* transaction.
\* Faulty variant: it is forgotten.
DiscardForgets(next, batches) ==
  /\ disk' = disk \ (FilesOf(tx.attempt) \ stuck)
  /\ staging' = staging \ FilesOf(tx.attempt)
  /\ tx' = [tx EXCEPT !.pc = next, !.attempt = <<>>, !.batches = batches]

Discard(next, batches) ==
  /\ disk' = disk \ (FilesOf(tx.attempt) \ stuck)
  /\ staging' = staging \ FilesOf(tx.attempt)
  /\ tx' = [tx EXCEPT !.pc = next, !.attempt = <<>>, !.batches = batches,
                      !.cleanup = @ \o SelectSeq(tx.attempt, LAMBDA e : e.id \in stuck)]

\* A conflict starts over, an error or the end of the retries fails, and a
\* commit that leaves the metadata as it is needs no file.
DiscardAttempt ==
  /\ tx.pc = "cas"
  /\ \/ Discard("attempt", tx.batches)
     \/ Discard("failed", tx.batches)
     \/ tx.view.mine = {} /\ Discard("ready", tx.batches \o CanceledBatch(tx.view))
  /\ UNCHANGED <<committed, orphans, world>>
\* The attempt's upload fails, or the loop gives up before it writes anything.
\* Dropping the attempt discards it.
MaterializeFails ==
  LET n == NewFile
  IN  /\ tx.pc = "attempt"
      /\ \/ /\ kind = "object" /\ n \in File
            /\ home' = Append(home, tx.view.root)
            /\ \E arrived \in SUBSET {n} :
                 disk' = disk \cup arrived /\ orphans' = orphans \cup arrived
         \/ UNCHANGED <<home, disk, orphans>>
      /\ tx' = [tx EXCEPT !.pc = "failed"]
      /\ UNCHANGED <<kind, committed, staging, roots, still, detached, prepared>>

-----------------------------------------------------------------------------
(* Commit, abort, prepare and loss of the process.                         *)

\* The commit record: from here on the new view is everyone's.
Commit ==
  /\ tx.pc = "ready"
  /\ committed' = Empty(tx.view.root, tx.view.files, tx.view.queue)
  /\ tx' = [tx EXCEPT !.pc = "callbacks"]
  /\ UNCHANGED <<disk, staging, orphans, world>>

Deferred ==
  (IF tx.retired = <<>> THEN <<>>
   ELSE <<UNION {InRoot(e.root) : e \in Elements(tx.retired)}>>) \o tx.batches

\* The commit callbacks: created files stay and lose their staging copies,
\* rejected metadata is deleted, and retirements and batches are handed over.
OnCommit ==
  /\ tx.pc = "callbacks"
  /\ DeleteTracked(tx.cleanup)
  /\ staging' = staging \ FilesOf(tx.reg \o tx.promoted \o tx.cleanup)
  /\ tx' = [Idle EXCEPT !.pc = "locks", !.deferred = Deferred]
  /\ UNCHANGED <<committed, world>>

\* CommittedCleanup after the locks are released: deletions are best effort.
RunDeferred ==
  /\ tx.pc = "locks" /\ tx.deferred # <<>>
  /\ LET doomed == Head(tx.deferred) \cap disk
     IN  \E left \in SUBSET doomed :
           /\ doomed \cap stuck \subseteq left
           /\ doomed \cap stuck = {} => left = {}
           /\ disk' = disk \ (doomed \ left)
           /\ orphans' = orphans \cup left
  /\ tx' = [tx EXCEPT !.deferred = Tail(@)]
  /\ UNCHANGED <<committed, staging, world>>

Finish ==
  /\ tx.pc = "locks" /\ tx.deferred = <<>>
  /\ tx' = Idle
  /\ UNCHANGED <<committed, disk, staging, orphans, world>>

\* PostgreSQL aborts the open levels from the inside out, then the transaction:
\* everything it created goes.
Abort ==
  /\ tx.pc \in {"open", "failed", "attempt", "cas", "ready"}
  /\ AbortCleanup(tx.reg \o tx.promoted \o tx.cleanup \o tx.attempt)
  /\ tx' = Idle
  /\ UNCHANGED <<committed, world>>

\* The server goes down: the bookkeeping was in the memory of the backend.
Crash ==
  /\ tx.pc # "idle"
  /\ orphans' = orphans \cup ((disk \cup staging) \ committed.files)
  /\ tx' = Idle
  /\ UNCHANGED <<committed, disk, staging, world>>

\* PREPARE TRANSACTION: the tracker refuses changed tables, retirements and
\* batches refuse when there are any, and the registry of created files lets go
\* of what it tracks.
Prepare ==
  /\ tx.pc = "open" /\ tx.level = 1 /\ tx.open = {}
  /\ ~HasChanges(tx.view) /\ tx.retired = <<>> /\ tx.batches = <<>>
  /\ prepared' = <<tx.view>>
  /\ detached' = detached \cup FilesOf(tx.reg)
  /\ tx' = Idle
  /\ UNCHANGED <<kind, committed, disk, staging, home, roots, still, orphans>>

FinishPrepared ==
  /\ prepared # <<>>
  /\ \/ committed' = Empty(prepared[1].root, prepared[1].files, prepared[1].queue)
     \/ UNCHANGED committed
  /\ prepared' = <<>>
  /\ UNCHANGED <<kind, disk, staging, home, roots, still, orphans, detached, tx>>

-----------------------------------------------------------------------------
\* A file cannot be deleted for a while.
Outage ==
  /\ outages < MaxOutages
  /\ \E f \in disk \ stuck : stuck' = stuck \cup {f}
  /\ outages' = outages + 1
  /\ UNCHANGED <<kind, committed, disk, staging, home, roots, begun, orphans, detached,
                 prepared, tx>>

OutageEnds ==
  /\ stuck # {} /\ stuck' = {}
  /\ UNCHANGED <<kind, committed, disk, staging, home, roots, outages, begun, orphans, detached,
                 prepared, tx>>

Statement ==
  \/ CreateFile \/ CreateTable \/ TruncateNewRoot \/ TruncateSameDirectory
  \/ TruncateDirectoryFails \/ StageTruncate \/ DropTable("open")
  \/ \E o \in tx.open : FinalizeWrite(o) \/ UploadFails(o) \/ RecordBatch(o)

OnCommitDrop == kind = "local" /\ DropTable("ready")

Next ==
  \/ Begin \/ Savepoint \/ Release \/ RollbackTo \/ Statement
  \/ PreCommit \/ Materialize \/ MaterializeFails \/ PromoteAttempt \/ DiscardAttempt
  \/ OnCommitDrop \/ Commit \/ OnCommit \/ RunDeferred \/ Finish
  \/ Abort \/ Crash \/ Prepare \/ FinishPrepared \/ Outage \/ OutageEnds

Spec == Init /\ [][Next]_vars

-----------------------------------------------------------------------------
\* What a view can show is there.  In every state, before, during and after a
\* commit, an abort or a crash, the files that the committed metadata and a prepared
\* transaction refer to exist: deletes of retired generations and canceled files run
\* after the commit, abort cleanup touches only what the aborted level created.  And
\* TRUNCATE in place, the cleanup of an inner level and a failed statement never
\* remove a file of the current view or of one that ROLLBACK TO can bring back.
NeededFilesExist ==
  /\ committed.files \subseteq disk
  /\ prepared # <<>> => prepared[1].files \subseteq disk
  /\ tx.pc \notin {"idle", "callbacks", "locks"} =>
       /\ \A i \in 1..Len(tx.saved) : tx.saved[i].files \subseteq disk
       /\ tx.pc # "failed" => tx.view.files \subseteq disk

\* Nothing is left behind: between transactions every file and staging copy is
\* part of the committed table, in a tree the cleanup queue owns, or was given
\* up on for one of the documented reasons (a failed delete, an upload of
\* unknown outcome, a crash, PREPARE).  And what is tracked belongs to a level that is
\* still open, whose end cleans it up (the promotion in on_commit_sub).
NothingLeaks ==
  /\ tx.pc = "idle" /\ prepared = <<>> =>
       (disk \cup staging) \ (orphans \cup detached) \subseteq
          committed.files \cup UNION {InRoot(r) : r \in committed.queue}
  /\ \A e \in Elements(tx.reg) \cup Elements(tx.retired) \cup tx.open : e.level <= tx.level

\* Cleanup that needs the outcome of the transaction does not get lost in
\* PREPARE: when the prepared transaction is finished, what it created is part
\* of the table or gone, and no staging copy remains.
PreparedWorkIsSettled ==
  prepared = <<>> => detached \cap disk \subseteq committed.files /\ detached \cap staging = {}
=============================================================================
