SPECIFICATION FairSpec
CONSTANTS
  NULL = NULL
  MaxRounds = 2
  MaxCalls = 2
  MaxTurns = 1
INVARIANTS
  TypeOK
  HistoryIsPaired
  LaunchesAreShown
  NothingMeansSearched
PROPERTIES
  TurnEnds
CHECK_DEADLOCK FALSE
