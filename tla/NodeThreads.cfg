SPECIFICATION Spec
CONSTANTS
  n1 = n1
  n2 = n2
  r1 = r1
  r2 = r2
  Nodes <- MCNodes
  Writers <- MCNodes
  Resources <- MCResources
  Threads <- MCNodes
  Ports <- MCPorts
  Callbacks <- MCCallbacks
  Nobody = Nobody
  TableSize = 1
  Capacity = 2
  HeadModulus = 4
  MaxEvents = 4
SYMMETRY MCSymmetry
INVARIANTS BarrierHolds MutualExclusion EverySectionIsMeasured SectionsInOrder RingIsLogSuffix ExportNeverStale
