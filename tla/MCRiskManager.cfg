CONSTANTS
  Runners = {Si, RI}
  MaxPositions = 1
  MaxDailyLossPct = 5
  MaxDrawdownPct = 9
  PerTradePct = 2
  RolloverZone = {}
  Equities = {100}
  Profits <- FloatingLoss
  FreeMargins = {50}
  Margins = {2, 3}
  Prices = {100, 110}
  MaxOrders = 2
SPECIFICATION LiveSpec
INVARIANTS PeakDominates OneSidedBook OneMoreEntry
PROPERTIES ReasonIsFirstCause LossTrips
