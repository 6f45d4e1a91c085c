SPECIFICATION CheckSpec
CONSTANTS
  Resources <- MCResources
  Timings <- MCTimings
  Accesses <- MCAccesses
  Horizon = 30
INVARIANTS AcceptedMeetDeadlines RejectedMissDeadlines BlockingIsLargest
CHECK_DEADLOCK FALSE
