SPECIFICATION FairStreamSpec
CONSTANTS
  Capacity = 4
  MinCount = 1
  CountMod = 8
  Categories = {cDefault}
  DefaultCategory = cDefault
  EventCategory = cDefault
  EventKinds <- QuietEvents
  StoreOrders <- InOrder
  Rebindings <- NoRebinding
  TickSteps <- StrictTicks
  MaxTick = 6
  MaxPending = 4
  Discards = FALSE
  LapBefore = TRUE
  LapAfter = FALSE
  Modes <- BothModes
  MaxRestarts = 1
  MaxPrograms = 0
INVARIANTS
  StreamTypeOK
  OutputIsSegment
  OnceCopiesCommitted
PROPERTY
  CommittedIsCopied
