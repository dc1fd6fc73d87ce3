SPECIFICATION Spec
CONSTANTS
  Capacity = 8
  MinCount = 2
  CountMod = 4
  Categories = {cDefault, cEvent}
  DefaultCategory = cDefault
  EventCategory = cEvent
  EventKinds <- NoKinds
  StoreOrders <- NoOrders
  Rebindings <- NoRebinding
  TickSteps <- EveryTick
  MaxTick = 7
  MaxPending = 6
PROPERTY
  ImplementsLog
