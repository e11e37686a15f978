CONSTANTS
  Kinds = {"order", "quotes", "data", "jwt"}
  Base = 500
  Cap = 30000
  Shift = 6
  Jitter = 25
  MaxItems = 2
  MaxToken = 3
SPECIFICATION LiveSpec
INVARIANTS DelaysGrow OneTryInWindow
PROPERTIES KeepsPromise TokenSettles Stops
CHECK_DEADLOCK FALSE
