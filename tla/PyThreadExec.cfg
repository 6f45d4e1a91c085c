SPECIFICATION ThreadsSpec
CONSTANTS
  n1 = n1
  n2 = n2
  n3 = n3
  Threads <- MCNodes
  Runtimes <- MCRuntimes
  RuntimeOf <- MCRuntimeOf
  Period <- MCPeriod
  Main = n3
  Raising <- MCRaising
  MaxInstant = 2
INVARIANTS TornInstantIsLast
PROPERTIES StopReturnsUnlessAPeerEnded QuietAfterReturn
CHECK_DEADLOCK FALSE
