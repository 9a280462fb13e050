SPECIFICATION Spec
CONSTANTS
  Order <- MCOrder
  Forward <- MCForward
  Rollback <- MCRollback
  Items <- MCItems
  Runners = {h1, h2}
  MaxCommands = 4
INVARIANTS
  TypeOK
  RecordedIsPrefix
  RecordedIsApplied
  DataMatchesRecords
PROPERTIES
  ApplyCompletes
SYMMETRY Symmetry
CHECK_DEADLOCK FALSE
