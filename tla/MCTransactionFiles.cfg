SPECIFICATION Spec
CONSTANTS
  Kinds = {"local", "object"}
  MaxLevel = 3
  MaxFiles = 4
  MaxRoots = 3
  MaxOutages = 1
  MaxTxns = 1
INVARIANTS
  NeededFilesExist
  NothingLeaks
CHECK_DEADLOCK FALSE
