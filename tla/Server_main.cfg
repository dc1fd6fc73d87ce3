SPECIFICATION FairServerSpec
CONSTANTS
  Count = 3
  InputLists <- BothLists
  Capacity = 3
  Block = 2
  MaxRecorded <- Recordings
INVARIANTS
  ServerTypeOK
  OutputsDistinct
  CleanExitIsComplete
  FailureCostsLessThanBlock
  ServerInv
PROPERTIES
  StopEnds
  RecordedIsCopied
CHECK_DEADLOCK FALSE
