SPECIFICATION Spec
SYMMETRY Symmetry
CONSTANTS
  Client = {c1, c2}
  Worker = w
  Nobody = nobody
  Table = {1}
  LocalSets = {{}, {1}}
  MaxRetries = 1
  Naptime = 1
  MaxTables = 1
  Work = {"write", "define", "truncate", "rebuild", "vacuum", "drop"}
  MaxTxns = 2
  MaxRuns = 2
  MaxTime = 3
INVARIANTS
  CommitsAreSerial
  MaintenanceRemembered
  DueWorkIsWatched
  TruncateGuardHolds
  RetriesMeanProgress
CHECK_DEADLOCK FALSE
