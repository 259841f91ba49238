SPECIFICATION Spec
CONSTANTS
  BaseRows = 2
  MaxFiles = 2
  MaxDepth = 2
  MaxLevel = 2
  Relations = {r1}
  Triggers = 2
  OffsetBase = 2
  BlockBase = 3
  MaxBlock = 4
  MaxStatements = 2
  Servers = {1, 2}
  RestServers = {1}
  Users = {1, 2}
  Tables = {t1}
  MaxNest = 3
  Sessions = {b1, b2}
  Worker = w
  Names = {"m", "n"}
  Spaces = {x, y}
  Credentials = {1}
  Grace = 1
  MaxTime = 2
  Volumes = {p, q}
  Specs = {"chain", "key"}
  Chained = {"chain"}
  Producers = {1, 2, 3}
INVARIANTS
  TypeOK
  ReadersSeeEarlierCommands
  RowsClaimedOnce
  TriggersGetTheirRows
  StagedMatchesRelations
  GenerationsNeverMix
  EverythingPublishedOnce
  CachesAreInvalidated
  VolumesFollowTablespaces
  StoresMatchConfig
  WorkersFollowTheLeader
  RunsAreFreshAndOwned
PROPERTIES
  RollbackRestores
CHECK_DEADLOCK FALSE
