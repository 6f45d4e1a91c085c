SPECIFICATION Spec
CONSTANTS
  w1 = w1
  w2 = w2
  Workers <- MCWorkers
  NoTask = NoTask
  Nodes <- MCNodes
  Priority <- MCPriority
  MaxTicks = 2
  Spawning <- MCSpawning
INVARIANTS TickIsSynchronous OvertakenOnlyWhenTaken
PROPERTIES EveryActionRuns ShutdownDrains
CHECK_DEADLOCK FALSE
