SPECIFICATION ClockSpec
CONSTANTS
  Syncers = {s1, s2}
  Rate = 2
  WallSteps <- AnyStep
  Modulus = 8
  MaxTick = 2
  MaxSyncs = 2
  MaxConversions = 2
SYMMETRY SymmetricSyncers
INVARIANTS
  ClockTypeOK
  UntornIsExact
  OrderBetweenSyncs
CHECK_DEADLOCK FALSE
