CONSTANTS
  Batch = {b1}
  Tag = {t1}
  NoTag = NoTag
  MaxLevel = 4
  MaxCommands = 4
SPECIFICATION Spec
INVARIANTS
  CommitNeverFails
  VacuumStandsAlone
  HistoryInv
PROPERTY
  SavepointsRestore
