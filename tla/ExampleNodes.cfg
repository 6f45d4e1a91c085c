SPECIFICATION Spec
CONSTANTS
  Gaps <- MCGaps
  Lags <- MCLags
  Timeouts <- MCTimeouts
  Rates <- MCRates
  MaxTicks = 7
  MaxSets = 2
INVARIANTS
  VersionsAgree
  AutoOffInTime
  BlinkOnSchedule
  PressSurvives
CHECK_DEADLOCK FALSE
