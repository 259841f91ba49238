SPECIFICATION Spec
CONSTANTS
  s1 = s1  l1 = l1  a1 = a1  a2 = a2
  Sessions <- OneSession
  Locations <- OneLocation
  Actors <- OneActor
  MaxAttempts = 2
  PageSize = 1
  Submilli = TRUE
  MaxObjects = 1
  MaxItems = 1
  MaxTxns = 2
  MaxFaults = 1
  MaxFailures = 1
INVARIANTS PendingWorkIsWatched
CHECK_DEADLOCK FALSE
