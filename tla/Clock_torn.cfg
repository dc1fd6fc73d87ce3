SPECIFICATION ClockSpec
CONSTANTS
  Syncers = {s1}
  Rate = 2
  WallSteps <- RateStep
  Modulus = 16
  MaxTick = 4
  MaxSyncs = 2
  MaxConversions = 2
INVARIANT
  TicksKeepOrder
CHECK_DEADLOCK FALSE
