---------------------------- MODULE LocalFileWal ----------------------------
(***************************************************************************)
(* Local Iceberg files and their WAL (lagodb-iceberg/src/storage: local.rs, *)
(* local_file_wal, local_retirement, post_commit_delete).                  *)
(*                                                                         *)
(* One local, logged table.  A transaction writes files in chunks, each    *)
(* chunk to the file first and then to the WAL, truncates, drops, or gives *)
(* up files; what it retires is logged, flushed and unlinked after its     *)
(* commit.  The primary may crash and run crash recovery.  A base backup   *)
(* is copied file by file while all this goes on, and a standby replays    *)
(* the WAL from it, with restarts that go back to a restartpoint.          *)
(*                                                                         *)
(* A file is the set of chunks it holds.  The catalog row is replicated by *)
(* PostgreSQL itself: at a WAL position it is the one of the last commit   *)
(* record.  File and directory names are never reused while WAL that names *)
(* them can be replayed.  Directory entries survive a crash (the code does *)
(* not sync directories, its README calls that a known debt).              *)
(***************************************************************************)
EXTENDS Integers, Sequences, FiniteSets, SequencesExt, FiniteSetsExt, Functions

CONSTANTS
  MaxChunks,     \* bound: chunks of a file
  PerRecord,     \* MAX_DELETE_FILES_PER_RECORD
  MaxFiles,      \* bound: files ever created
  MaxDirs,       \* bound: directories ever created
  Workloads      \* bounds: transactions, statements, crashes, backups,
                 \* restarts of the standby, removals that fail, checkpoints

ASSUME WalAssumption ==
  /\ {MaxFiles, MaxDirs} \subseteq Nat
  /\ {MaxChunks, PerRecord} \subseteq Nat \ {0}
  /\ Workloads \subseteq [txns : Nat, stmts : Nat, crashes : Nat, backups : Nat,
                          restarts : Nat, failures : Nat, points : Nat]

VARIABLES
  disk,      \* the files of the primary
  dirOf,     \* the directory of every file ever created
  dirs,      \* number of directories ever created
  synced,    \* files whose writer was closed
  wal, flushed,
  points,    \* positions of checkpoints; recovery starts at the last
  catalog,   \* committed row of the table
  tx, writer,
  cleanup,   \* batches of CommittedCleanup not yet done
  backup, standby,
  left,      \* what is left of the workload
  size,      \* history: chunks of every closed file
  missed     \* history: files whose removal failed on the standby

vars == <<disk, dirOf, dirs, synced, wal, flushed, points, catalog, tx,
          writer, cleanup, backup, standby, left, size, missed>>
primary == <<disk, dirOf, dirs, synced, catalog, tx, writer, size>>
log == <<wal, flushed, points>>

NoTable == [dir |-> 0, files |-> {}]
NoTx == [open |-> FALSE, row |-> NoTable, dirs |-> {}, files |-> {},
         retired |-> {}, deletes |-> <<>>]
NoWriter == [file |-> 0, at |-> 0, unlogged |-> FALSE]
NoBackup == [pc |-> "none", start |-> 0, copied |-> <<>>, must |-> {}]
NoStandby == [disk |-> <<>>, lossy |-> {}, pos |-> 0, high |-> 0, min |-> 0,
              restart |-> 0, base |-> {}]

Empty == [f \in {} |-> {}]
Without(d, fs) == RestrictDomain(d, LAMBDA f : f \notin fs)
FilesIn(ds) == {f \in DOMAIN dirOf : dirOf[f] \in ds}

-----------------------------------------------------------------------------
(* Redo (rmgr.rs), on r = [disk, lossy].                                   *)

\* Faulty variant: every chunk opens its file with O_CREAT.
RedoWriteCreates(r, f, at) ==
  [r EXCEPT !.disk = [g \in DOMAIN @ \cup {f} |->
                        IF g # f THEN @[g]
                        ELSE IF at = 0 \/ f \notin DOMAIN @ THEN {at} ELSE @[g] \cup {at}]]

\* Offset zero creates or truncates.  A later chunk needs its file; without
\* it the path is remembered as skipped.
RedoWriteFile(r, f, at) ==
  IF at > 0 /\ f \in r.lossy THEN r
  ELSE IF at = 0 THEN [disk |-> [g \in DOMAIN r.disk \cup {f} |->
                                   IF g = f THEN {0} ELSE r.disk[g]],
                       lossy |-> r.lossy \ {f}]
  ELSE IF f \notin DOMAIN r.disk THEN [r EXCEPT !.lossy = @ \cup {f}]
  ELSE [r EXCEPT !.disk[f] = @ \cup {at}]

RedoRemoveDirectory(r, d) == [r EXCEPT !.disk = Without(@, FilesIn({d}))]

RedoDeleteFiles(r, fs) ==
  [disk |-> Without(r.disk, fs), lossy |-> r.lossy \ fs]

\* Faulty variant: every replay is taken for crash recovery.
RedoSkipsWrites(r, rec, crashOnly) ==
  CASE rec.op = "delete_directory" -> RedoRemoveDirectory(r, rec.dir)
    [] rec.op = "delete_files" -> RedoDeleteFiles(r, rec.files)
    [] OTHER -> r

\* Crash recovery of the primary skips writes, which were synced, and
\* truncations, which would erase what was written after them.
Redo(r, rec, crashOnly) ==
  CASE rec.op = "write" -> IF crashOnly THEN r ELSE RedoWriteFile(r, rec.file, rec.at)
    [] rec.op = "delete_directory" -> RedoRemoveDirectory(r, rec.dir)
    [] rec.op = "truncate_directory" ->
         IF crashOnly THEN r ELSE RedoRemoveDirectory(r, rec.dir)
    [] rec.op = "delete_files" -> RedoDeleteFiles(r, rec.files)
    [] rec.op = "commit" -> r

\* What a record removes.
Removes(rec) ==
  CASE rec.op \in {"delete_directory", "truncate_directory"} -> FilesIn({rec.dir})
    [] rec.op = "delete_files" -> rec.files
    [] OTHER -> {}

\* The catalog row at position n of a log.
RowAt(w, n) ==
  LET commits == {i \in 1..n : w[i].op = "commit"}
  IN  IF commits = {} THEN NoTable ELSE w[Max(commits)].row

-----------------------------------------------------------------------------
Init ==
  /\ disk = Empty /\ dirOf = <<>> /\ dirs = 0 /\ synced = {}
  /\ wal = <<>> /\ flushed = 0 /\ points = {0}
  /\ catalog = NoTable /\ tx = NoTx /\ writer = NoWriter
  /\ cleanup = <<>> /\ backup = NoBackup /\ standby = NoStandby
  /\ left \in Workloads
  /\ size = <<>> /\ missed = {}

(* Statements.                                                             *)

\* The cleanup of the transaction before may still go on, in the session that
\* committed it.  (Bound: those of two sessions do not overlap.)
Begin ==
  /\ ~tx.open /\ left.txns > 0
  /\ tx' = [NoTx EXCEPT !.open = TRUE, !.row = catalog]
  /\ left' = [left EXCEPT !.txns = @ - 1]
  /\ UNCHANGED <<disk, dirOf, dirs, synced, log, catalog, writer, cleanup,
                 backup, standby, size, missed>>

AtRest == tx.open /\ writer = NoWriter

\* (Bound on statements.)
Statement ==
  /\ AtRest /\ left.stmts > 0
  /\ left' = [left EXCEPT !.stmts = @ - 1]

\* LocalStorage::writer creates a file of d and registers it.
NewFile(d, others, t) ==
  /\ Len(dirOf) < MaxFiles
  /\ dirOf' = Append(dirOf, d)
  /\ size' = Append(size, 0)
  /\ LET f == Len(dirOf')
     IN  /\ disk' = [g \in DOMAIN others \cup {f} |-> IF g = f THEN {} ELSE others[g]]
         /\ writer' = [NoWriter EXCEPT !.file = f]
         /\ tx' = [t EXCEPT !.files = @ \cup {f}]

\* The table moves to a new, empty directory, and its initial metadata is
\* written there.
NewDirectory(retired) ==
  /\ dirs < MaxDirs
  /\ dirs' = dirs + 1
  /\ NewFile(dirs', disk, [tx EXCEPT !.row = [dir |-> dirs', files |-> {}],
                                     !.dirs = @ \cup {dirs'},
                                     !.retired = @ \cup retired])

\* CREATE TABLE.
CreateTable ==
  /\ Statement /\ tx.row = NoTable
  /\ NewDirectory({})
  /\ UNCHANGED <<synced, log, catalog, cleanup, backup, standby, missed>>

\* Data, manifests or metadata of a statement.
OpenWriter ==
  /\ Statement /\ tx.row # NoTable
  /\ NewFile(tx.row.dir, disk, tx)
  /\ UNCHANGED <<dirs, synced, log, catalog, cleanup, backup, standby, missed>>

\* PgFileWrite::write, first the file and then the WAL record.
WriteChunk ==
  /\ writer.file # 0 /\ ~writer.unlogged /\ writer.at < MaxChunks
  /\ disk' = [disk EXCEPT ![writer.file] = @ \cup {writer.at}]
  /\ writer' = [writer EXCEPT !.unlogged = TRUE]
  /\ UNCHANGED <<dirOf, dirs, synced, log, catalog, tx, cleanup, backup,
                 standby, left, size, missed>>

LogChunk ==
  /\ writer.unlogged
  /\ wal' = wal \o <<[op |-> "write", file |-> writer.file, at |-> writer.at]>>
  /\ writer' = [writer EXCEPT !.unlogged = FALSE, !.at = @ + 1]
  /\ UNCHANGED <<disk, dirOf, dirs, synced, flushed, points, catalog, tx,
                 cleanup, backup, standby, left, size, missed>>

\* FileWrite::close syncs the file; the statement then refers to it.
CloseWriter ==
  /\ writer.at > 0 /\ ~writer.unlogged
  /\ synced' = synced \cup {writer.file}
  /\ size' = [size EXCEPT ![writer.file] = writer.at]
  /\ tx' = [tx EXCEPT !.row.files = @ \cup {writer.file}]
  /\ writer' = NoWriter
  /\ UNCHANGED <<disk, dirOf, dirs, log, catalog, cleanup, backup, standby,
                 left, missed>>

\* TRUNCATE of a generation of this transaction clears it in place.
TruncateInPlace ==
  /\ Statement /\ tx.row.dir \in tx.dirs
  /\ wal' = wal \o <<[op |-> "truncate_directory", dir |-> tx.row.dir]>>
  /\ NewFile(tx.row.dir, Without(disk, FilesIn({tx.row.dir})),
             [tx EXCEPT !.row.files = {}])
  /\ UNCHANGED <<dirs, synced, flushed, points, catalog, cleanup, backup, standby,
                 missed>>

\* TRUNCATE of an older generation builds a new one and retires the old one.
TruncateToNewDirectory ==
  /\ Statement /\ tx.row # NoTable /\ tx.row.dir \notin tx.dirs
  /\ NewDirectory({tx.row.dir})
  /\ UNCHANGED <<synced, log, catalog, cleanup, backup, standby, missed>>

\* DROP TABLE registers the retirement (LocalTableRetirement::register).
DropTable ==
  /\ Statement /\ tx.row # NoTable
  /\ tx' = [tx EXCEPT !.row = NoTable, !.retired = @ \cup {tx.row.dir}]
  /\ UNCHANGED <<disk, dirOf, dirs, synced, log, catalog, writer, cleanup,
                 backup, standby, size, missed>>

\* Files the table no longer refers to, of VACUUM or created and canceled by
\* this transaction (PostCommitFileDeleteBatch::register).
DeleteFiles ==
  \E fs \in SUBSET tx.row.files \ {{}} :
    /\ Statement
    /\ tx' = [tx EXCEPT !.row.files = @ \ fs, !.deletes = Append(@, fs)]
    /\ UNCHANGED <<disk, dirOf, dirs, synced, log, catalog, writer, cleanup,
                   backup, standby, size, missed>>

-----------------------------------------------------------------------------
(* The end of the transaction.                                             *)

Batch(ds, fs) == [pc |-> "log", dirs |-> ds, files |-> fs]

\* The commit record, flushed now (async = FALSE) or later, and the hand-over
\* of the batches to CommittedCleanup.
Commit(async) ==
  /\ AtRest /\ (async => left.crashes > 0)
  /\ wal' = Append(wal, [op |-> "commit", row |-> tx.row, files |-> tx.files])
  /\ flushed' = IF async THEN flushed ELSE Len(wal')
  /\ catalog' = tx.row
  /\ cleanup' = cleanup
       \o (IF tx.retired = {} THEN <<>> ELSE <<Batch(tx.retired, {})>>)
       \o [i \in DOMAIN tx.deletes |-> Batch({}, tx.deletes[i])]
  /\ tx' = NoTx
  /\ UNCHANGED <<disk, dirOf, dirs, synced, points, writer, backup, standby,
                 left, size, missed>>

\* Files and directories of the transaction are removed, without WAL.
Abort ==
  /\ tx.open
  /\ disk' = Without(disk, tx.files \cup FilesIn(tx.dirs))
  /\ tx' = NoTx /\ writer' = NoWriter
  /\ UNCHANGED <<dirOf, dirs, synced, log, catalog, cleanup, backup, standby,
                 left, size, missed>>

\* Faulty variant: what does not fit the first record is not logged.
FirstFileRecord(fs) ==
  <<[op |-> "delete_files", files |-> Range(SubSeq(SetToSeq(fs), 1, PerRecord))]>>

\* log_delete_files: the paths in records of at most PerRecord.
FileRecords(fs) ==
  LET s == SetToSeq(fs)
      n == (Len(s) + PerRecord - 1) \div PerRecord
  IN  [i \in 1..n |-> [op |-> "delete_files",
                       files |-> {s[j] : j \in ((i-1) * PerRecord + 1)..
                                               Min({i * PerRecord, Len(s)})}]]

DirectoryRecords(ds) ==
  LET s == SetToSeq(ds)
  IN  [i \in DOMAIN s |-> [op |-> "delete_directory", dir |-> s[i]]]

DeleteRecords(b) == IF b.files = {} THEN DirectoryRecords(b.dirs) ELSE FileRecords(b.files)

\* LocalTableRetirementBatch::execute and PostCommitFileDeleteBatch::execute:
\* log the batch, flush it, unlink one after the other.
LogBatch ==
  /\ cleanup # <<>> /\ cleanup[1].pc = "log"
  /\ wal' = wal \o DeleteRecords(cleanup[1])
  /\ cleanup' = [cleanup EXCEPT ![1].pc = "flush"]
  /\ UNCHANGED <<primary, flushed, points, backup, standby, left, missed>>

\* Faulty variant: the flush is left to the WAL writer.
FlushLater ==
  /\ cleanup # <<>> /\ cleanup[1].pc = "flush"
  /\ cleanup' = [cleanup EXCEPT ![1].pc = "unlink"]
  /\ UNCHANGED <<primary, log, backup, standby, left, missed>>

FlushBatch ==
  /\ cleanup # <<>> /\ cleanup[1].pc = "flush"
  /\ flushed' = Len(wal)
  /\ cleanup' = [cleanup EXCEPT ![1].pc = "unlink"]
  /\ UNCHANGED <<primary, wal, points, backup, standby, left, missed>>

Unlinked(b, ds, fs) ==
  LET rest == [b EXCEPT !.dirs = @ \ ds, !.files = @ \ fs]
  IN  IF rest.dirs = {} /\ rest.files = {} THEN Tail(cleanup)
      ELSE [cleanup EXCEPT ![1] = rest]

\* One directory or file of the batch; a failure is reported and passed over.
Unlink ==
  /\ cleanup # <<>> /\ cleanup[1].pc = "unlink"
  /\ \E item \in {<<{d}, {}>> : d \in cleanup[1].dirs}
                  \cup {<<{}, {f}>> : f \in cleanup[1].files} :
       /\ cleanup' = Unlinked(cleanup[1], item[1], item[2])
       /\ \/ /\ disk' = Without(disk, FilesIn(item[1]) \cup item[2])
             /\ UNCHANGED left
          \/ /\ left.failures > 0
             /\ left' = [left EXCEPT !.failures = @ - 1]
             /\ UNCHANGED disk
  /\ UNCHANGED <<dirOf, dirs, synced, log, catalog, tx, writer, backup, standby,
                 size, missed>>

-----------------------------------------------------------------------------
(* The server, a base backup and the standby (external).                   *)

\* (Bound.)  A standby runs once the primary has done its work: what it makes
\* of a record depends on its own files and the records before, not on how
\* far the primary is.  Until then only a crash can tell what is flushed.
AtEnd == ~tx.open /\ cleanup = <<>> /\ left.txns = 0

\* The WAL writer.
Flush ==
  /\ flushed < Len(wal) /\ (left.crashes > 0 \/ AtEnd)
  /\ flushed' = Len(wal)
  /\ UNCHANGED <<primary, wal, points, cleanup, backup, standby, left, missed>>

Checkpoint ==
  /\ Len(wal) \notin points /\ left.points > 0
  /\ left' = [left EXCEPT !.points = @ - 1]
  /\ flushed' = Len(wal)
  /\ points' = points \cup {Len(wal)}
  /\ UNCHANGED <<primary, wal, cleanup, backup, standby, missed>>

\* A crash loses the WAL from some point after the flushed part on, and what
\* was not synced; crash recovery replays from the last checkpoint.
Crash ==
  /\ left.crashes > 0
  /\ \E n \in flushed..Len(wal), lose \in SUBSET (DOMAIN disk \ synced) :
       LET found == [f \in DOMAIN disk |-> IF f \in lose THEN {} ELSE disk[f]]
           again == SubSeq(wal, Max(points) + 1, n)
       IN  /\ disk' = FoldLeft(LAMBDA r, rec : Redo(r, rec, TRUE),
                               [disk |-> found, lossy |-> {}], again).disk
           /\ wal' = SubSeq(wal, 1, n)
           /\ flushed' = n
           /\ points' = points \cup {n}
           /\ catalog' = RowAt(wal, n)
  /\ tx' = NoTx /\ writer' = NoWriter /\ cleanup' = <<>>
  /\ backup' = IF backup.pc = "copying" THEN NoBackup ELSE backup
  /\ left' = [left EXCEPT !.crashes = @ - 1]
  /\ UNCHANGED <<dirOf, dirs, synced, standby, size, missed>>

\* pg_basebackup: a checkpoint, then every file in any order.
StartBackup ==
  /\ backup.pc = "none" /\ left.backups > 0
  /\ left' = [left EXCEPT !.backups = @ - 1]
  /\ flushed' = Len(wal) /\ points' = points \cup {Len(wal)}
  /\ backup' = [pc |-> "copying", start |-> Len(wal), copied |-> Empty,
                must |-> DOMAIN disk]
  /\ UNCHANGED <<primary, wal, cleanup, standby, missed>>

CopyFile ==
  /\ backup.pc = "copying"
  /\ \E f \in DOMAIN disk \ DOMAIN backup.copied :
       backup' = [backup EXCEPT !.copied = [g \in DOMAIN @ \cup {f} |->
                                              IF g = f THEN disk[f] ELSE @[g]]]
  /\ UNCHANGED <<primary, log, cleanup, standby, left, missed>>

\* The standby is consistent from the end of its backup on.
StopBackup ==
  /\ backup.pc = "copying"
  /\ backup.must \cap DOMAIN disk \subseteq DOMAIN backup.copied
  /\ flushed' = Len(wal)
  /\ backup' = [backup EXCEPT !.pc = "done", !.must = {}, !.copied = Empty]
  /\ standby' = [disk |-> backup.copied, lossy |-> {}, pos |-> backup.start,
                 high |-> backup.start, min |-> Len(wal), restart |-> backup.start,
                 base |-> DOMAIN backup.copied]
  /\ UNCHANGED <<primary, wal, points, cleanup, left, missed>>

\* Replay of the next record.  A removal that fails is reported and passed
\* over.
Replay ==
  LET s == standby
      rec == wal[s.pos + 1]
      done == Redo([disk |-> s.disk, lossy |-> s.lossy], rec, FALSE)
      next == [s EXCEPT !.pos = @ + 1, !.high = Max({@, s.pos + 1})]
  IN  /\ backup.pc = "done" /\ AtEnd /\ s.pos < flushed
      /\ \/ /\ standby' = [next EXCEPT !.disk = done.disk, !.lossy = done.lossy]
            /\ UNCHANGED <<left, missed>>
         \/ /\ Removes(rec) \cap DOMAIN s.disk # {}
            /\ left.failures > 0
            /\ left' = [left EXCEPT !.failures = @ - 1]
            /\ missed' = missed \cup Removes(rec)
            /\ standby' = [next EXCEPT !.lossy = done.lossy]
      /\ UNCHANGED <<primary, log, cleanup, backup>>

\* PostgreSQL takes a restartpoint at a checkpoint it has replayed, which
\* also moves minRecoveryPoint there.  Pages that are written out may move it
\* further; the earliest point is the one that counts.
Restartpoint ==
  /\ backup.pc = "done"
  /\ \E c \in points : /\ standby.restart < c /\ c <= standby.pos
                        /\ standby' = [standby EXCEPT !.restart = c,
                                                     !.min = Max({@, c})]
  /\ UNCHANGED <<primary, log, cleanup, backup, left, missed>>

\* The startup process forgets its skipped paths and replays again from the
\* restartpoint.
RestartStandby ==
  /\ backup.pc = "done" /\ left.restarts > 0
  /\ standby' = [standby EXCEPT !.pos = standby.restart, !.lossy = {}]
  /\ left' = [left EXCEPT !.restarts = @ - 1]
  /\ UNCHANGED <<primary, log, cleanup, backup, missed>>

-----------------------------------------------------------------------------
Next ==
  \/ Begin \/ CreateTable \/ OpenWriter \/ WriteChunk \/ LogChunk \/ CloseWriter
  \/ TruncateInPlace \/ TruncateToNewDirectory \/ DropTable \/ DeleteFiles
  \/ \E async \in BOOLEAN : Commit(async)
  \/ Abort \/ LogBatch \/ FlushBatch \/ Unlink
  \/ Flush \/ Checkpoint \/ Crash \/ StartBackup \/ CopyFile \/ StopBackup
  \/ Replay \/ Restartpoint \/ RestartStandby

Spec == Init /\ [][Next]_vars

-----------------------------------------------------------------------------
Whole(d, f) == f \in DOMAIN d /\ d[f] = 0..(size[f] - 1)

\* The primary never loses a file of the committed table: neither unlinking
\* after a commit whose record is still in memory, nor crash recovery with
\* the records it replays and those it skips (rmgr.rs, redo; FileSync in
\* close; flush_wal before the unlink).
PrimaryKeepsCommittedFiles == \A f \in catalog.files : Whole(disk, f)

\* Once consistent, a standby has every file of its catalog row in full,
\* whatever the base backup caught of it, unless a removal that it replayed
\* before a restart lies ahead of it again (redo_write_file, write order in
\* PgFileWrite::write).
StandbyHasCommittedFiles ==
  backup.pc = "done" /\ standby.pos >= standby.min =>
    \A f \in RowAt(wal, standby.pos).files :
      \/ Whole(standby.disk, f)
      \/ \E i \in (standby.pos + 1)..standby.high : f \in Removes(wal[i])

\* Replay never leaves a gap in a file, and a path it skips has no file
\* (redo_write_file opens later chunks without O_CREAT).
ReplayLeavesNoGaps ==
  /\ \A f \in DOMAIN standby.disk :
       standby.disk[f] = 0..(Cardinality(standby.disk[f]) - 1)
  /\ standby.lossy \cap DOMAIN standby.disk = {}

\* Files created by transactions that committed.
CommittedFiles == UNION {wal[i].files : i \in {j \in DOMAIN wal : wal[j].op = "commit"}}

\* A standby that has replayed everything keeps no file it has replayed of a
\* committed transaction that the primary has removed: every removal that
\* follows a commit reaches it (log_delete_files, log_delete_directory, log_truncate).
StandbyForgetsRemovedFiles ==
  backup.pc = "done" /\ standby.pos = Len(wal) =>
    (DOMAIN standby.disk \cap CommittedFiles) \ (missed \cup standby.base)
      \subseteq DOMAIN disk
=============================================================================
