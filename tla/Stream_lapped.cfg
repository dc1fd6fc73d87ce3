SPECIFICATION FairStreamSpec
CONSTANTS
  Capacity = 2
  MinCount = 1
  CountMod = 8
  Categories = {cDefault}
  DefaultCategory = cDefault
  EventCategory = cDefault
  EventKinds <- NoKinds
  StoreOrders <- NoOrders
  Rebindings <- NoRebinding
  TickSteps <- StrictTicks
  MaxTick = 6
  MaxPending = 2
  Discards = FALSE
  LapBefore = TRUE
  LapAfter = TRUE
  Modes <- Polling
  MaxRestarts = 0
  MaxPrograms = 1

  
PROPERTY
  CatchesUp
