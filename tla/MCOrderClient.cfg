CONSTANTS
  Runners = {Si, RI}
  Stream = Stream
  NoSym = NoSym
  Quantities = {0, 3}
  Prior = 0
  MaxOrders = 1
  MaxDrops = 2
SPECIFICATION LiveSpec
INVARIANTS OwnOrdersOnly CountedExactly
PROPERTIES EndIsLearned
CHECK_DEADLOCK FALSE
