SPECIFICATION Spec
CONSTANTS
  Kinds = {"local", "object"}
  MaxLevel = 3
  MaxFiles = 4
  MaxRoots = 3
  MaxOutages = 1
  MaxTxns = 1
INVARIANT PreparedWorkIsSettled
CHECK_DEADLOCK FALSE
