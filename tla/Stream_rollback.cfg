SPECIFICATION FairStreamSpec
CONSTANTS
  Capacity = 4
  MinCount = 1
  CountMod = 8
  Categories = {cDefault}
  DefaultCategory = cDefault
  EventCategory = cDefault
  EventKinds <- NoKinds
  StoreOrders <- NoOrders
  Rebindings <- NoRebinding
  TickSteps <- StrictTicks
  MaxTick = 3
  MaxPending = 3
  Discards = TRUE
  LapBefore = FALSE
  LapAfter = FALSE
  Modes <- Polling
  MaxRestarts = 0
  MaxPrograms = 0
PROPERTY
  CommittedIsCopied
