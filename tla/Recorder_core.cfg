SPECIFICATION Spec
CONSTANTS
  Capacity = 4
  MinCount = 2
  CountMod = 8
  Categories = {cDefault, cEvent}
  DefaultCategory = cDefault
  EventCategory = cEvent
  EventKinds <- BothEvents
  StoreOrders <- BothOrders
  Rebindings <- MirroredOnly
  TickSteps <- EveryTick
  MaxTick = 6
  MaxPending = 4
INVARIANTS
  TypeOK
  NeverOutside
  RecorderInv
  CategoriesMatchPending
  TotalTicksIsSpan
PROPERTY
  ImplementsLog
