SPECIFICATION FairSpec
CONSTANTS
  Client = {c1, c2}
  Worker = w
  Nobody = nobody
  Table = {1, 2}
  LocalSets = {{2}}
  MaxRetries = 0
  Naptime = 1
  MaxTables = 1
  Work = {"write", "rebuild"}
  MaxTxns = 3
  MaxRuns = 0
  MaxTime = 1
INVARIANTS
  MetadataFilesAccounted
PROPERTY PreCommitEnds
CHECK_DEADLOCK FALSE
