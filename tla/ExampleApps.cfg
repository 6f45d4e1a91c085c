SPECIFICATION Spec
CONSTANTS
  Apps <- MCApps
  Horizon = 3
INVARIANT PressReachesAll
