CONSTANTS
  Symbols = {s1}
  Feeders = {f1}
  Operators = {o1}
  Prices = {1, 2, 3}
  LatestEntry = 3
  LastSlot = 3
  MaxOrbRange = 1
  MaxTicks = 4
  MaxGen = 2
  MaxTroubles = 1
  MaxLate = 1
  None = None
SPECIFICATION FairSpec
INVARIANTS BucketIsCandle FirstBreakoutSignals
PROPERTIES EmittedIsDelivered ImplementsSignalService
CHECK_DEADLOCK FALSE
