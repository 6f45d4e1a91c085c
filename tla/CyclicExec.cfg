SPECIFICATION FairSpec
CONSTANTS
  Runtimes = {0, 1}
  NodesOf <- MCNodesOf
  Period <- MCPeriod
  Deadline <- MCDeadline
  MaxSlots = 64
  Horizon = 26
INVARIANT AsyncEveryBaseTick
PROPERTY ImplementsTimeTriggered
