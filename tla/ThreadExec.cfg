SPECIFICATION FairSpec
CONSTANTS
  NodeCount = 3
  Period <- MCNonHarmonic
  Deadline <- MCNonHarmonic
  PoolSize = 2
  MaxNodes = 4
  Horizon = 6
  CreateMayFail = TRUE
  StopMayCome = TRUE
INVARIANTS NoPeerAhead OnTimeSnapshot WaitsForAPeer
PROPERTIES EveryInstantCompletes StopQuiesces ImplementsSuperstep
CHECK_DEADLOCK FALSE
