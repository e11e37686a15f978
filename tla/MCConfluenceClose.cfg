CONSTANTS
  History = 2
  Nr7Period = 2
  Ranges = {1, 2}
  Prices = {1, 2}
  FillPrices = {1}
  BaseQty = 1
  SlTicks = 0
  TpTicks = 0
  MaxDaily = 2
  MaxOrders = 2
  MaxTurns = 3
SPECIFICATION Spec
PROPERTIES CloseReduces
