SPECIFICATION StreamSpec
CONSTANTS
  Capacity = 4
  MinCount = 1
  CountMod = 8
  Categories = {cDefault}
  DefaultCategory = cDefault
  EventCategory = cDefault
  EventKinds <- QuietEvents
  StoreOrders <- VectorOrder
  Rebindings <- NoRebinding
  TickSteps <- StrictTicks
  MaxTick = 5
  MaxPending = 4
  Discards = FALSE
  LapBefore = FALSE
  LapAfter = FALSE
  Modes <- Polling
  MaxRestarts = 0
  MaxPrograms = 0
INVARIANT
  OutputIsSegment
