CONSTANTS
  Runners = {Si}
  Stream = Stream
  NoSym = NoSym
  Quantities = {1}
  Prior = 0
  MaxOrders = 2
  MaxDrops = 1
  BaseQty = 1
  EntrySides = {1}
  MaxRefused = 1
SPECIFICATION SpecExposure
INVARIANTS StrategyBehindRisk SettledAgrees
CHECK_DEADLOCK FALSE
