SPECIFICATION FairSpec
CONSTANTS
  NodeCount = 2
  Period <- MCPair
  Deadline <- MCPair
  PoolSize = 2
  MaxNodes = 4
  Horizon = 3
  CreateMayFail = FALSE
  StopMayCome = TRUE
PROPERTY
  StopReturns
CHECK_DEADLOCK FALSE
