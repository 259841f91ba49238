--------------------------- MODULE MCLocalFileWal ---------------------------
(* Small instances of LocalFileWal. *)
EXTENDS LocalFileWal

None == [txns |-> 0, stmts |-> 0, crashes |-> 0, backups |-> 0, restarts |-> 0,
         failures |-> 0, points |-> 0]

\* Crashes of the primary, or a standby with a restart or a failing removal.
CrashOrStandby ==
  {[None EXCEPT !.txns = 2, !.stmts = 4, !.crashes = 1, !.points = 1],
   [None EXCEPT !.txns = 2, !.stmts = 2, !.backups = 1, !.restarts = 1, !.points = 1],
   [None EXCEPT !.txns = 2, !.stmts = 3, !.backups = 1, !.failures = 1]}
=============================================================================
