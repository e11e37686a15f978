CONSTANTS
  Start <- January2026
  RolloverDays = 5
  QueueSize = 2
  None = None
  MaxDays = 3650
SPECIFICATION CalendarSpec
INVARIANTS ThirdFridayIsFriday NearestIsFirstTradable
CHECK_DEADLOCK FALSE
