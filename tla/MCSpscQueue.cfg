CONSTANTS
  Producers = {md}
  N = 4
  Items = {a, b}
  NoItem = NoItem
SPECIFICATION Spec
INVARIANTS NoSlotRace IndexInv
PROPERTIES RefinesFifo
