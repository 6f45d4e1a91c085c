SPECIFICATION SetupSpec
CONSTANTS
  r1 = r1
  r2 = r2
  Runtimes <- MCRuntimes
  Executors <- MCExecutors
  Settings <- MCSettings
  NodeCapacity = 2
  MaxTasks = 2
  MaxSlots = 4
INVARIANTS RunCoversNodes RunIsChecked
CHECK_DEADLOCK FALSE
