SPECIFICATION FairSpec
CONSTANTS
  s1 = s1  l1 = l1  a1 = a1  a2 = a2
  Sessions <- OneSession
  Locations <- OneLocation
  Actors <- TwoActors
  MaxAttempts = 2
  PageSize = 1
  Submilli = FALSE
  MaxObjects = 3
  MaxItems = 2
  MaxTxns = 3
  MaxFaults = 2
  MaxFailures = 1
INVARIANTS LiveObjectsSurvive CondemnedObjectsAreQueued NoDoubleDispatch
PROPERTIES QueueDrains
CHECK_DEADLOCK FALSE
