SPECIFICATION Spec
CONSTANTS
  MaxChunks = 2
  PerRecord = 1
  MaxFiles = 2
  MaxDirs = 2
  Workloads <- CrashOrStandby
INVARIANTS
  PrimaryKeepsCommittedFiles
  StandbyHasCommittedFiles
  ReplayLeavesNoGaps
  StandbyForgetsRemovedFiles
CHECK_DEADLOCK FALSE
