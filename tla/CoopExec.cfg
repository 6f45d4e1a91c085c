SPECIFICATION FairSpec
CONSTANTS
  Runtimes = {0, 1}
  NodesOf <- MCNodesOf
  Period <- MCPeriod
  Deadline <- MCDeadline
  Horizon = 14
  StopMayCome = TRUE
INVARIANTS OnTimeTicksAreExact
PROPERTIES InstantsIncrease BacklogDrains StopReturns
