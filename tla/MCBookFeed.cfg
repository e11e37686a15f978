CONSTANTS
  Prices = {1, 2, 3}
  MaxSize = 1
  Levels = 2
  MaxWire = 2
  MaxChanges = 3
  MaxBreaks = 1
  MaxLost = 1
SPECIFICATION LiveSpec
INVARIANTS BookInSync NeverCrossed EventsAddUp
PROPERTY CatchesUp
CHECK_DEADLOCK FALSE
