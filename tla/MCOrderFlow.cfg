CONSTANTS
  BookLevels = 2
  Keys = {1, 2}
  BookEvents <- MCBookEvents
  Volumes = {1}
  Threshold = 1
  TfiWindow = 1
  VelocityWindow = 0
  LargeQty = 1
  MinEvents = 2
  SpoofWindow = 1
  FlagTtl = 2
  MaxLag = 1
  MaxTime = 3
  MaxEvents = 5
SPECIFICATION SpecFlow
INVARIANTS ScoreIsDecayedFlow WindowIsRecent VetoIsExact
CHECK_DEADLOCK FALSE
