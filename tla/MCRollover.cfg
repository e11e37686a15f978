CONSTANTS
  Start <- February2028
  RolloverDays = 5
  QueueSize = 2
  None = None
  MaxDays = 115
SPECIFICATION LiveSpec
INVARIANTS FeedIsActive
PROPERTIES RollsForward Rolled
