CONSTANTS
  s1 = s1
  s2 = s2
  Symbols = {s1, s2}
  Sides = {"BUY"}
  Sector <- MCSector
  Deliveries = {d1, d2}
  Operators = {o1}
  Candles = {c1}
  Method = "FIXED_RISK"
  RawSizes = {2, 4}
  TotalCapital = 8
  MaxPerTrade = 3
  MinPerTrade = 1
  MaxExposure = 5
  MaxPerStrategy = 7
  MaxPerSector = 6
  MaxOpen = 3
  MaxCorrelated = 3
  MaxTroubles = 1
  None = None
  Pids = {1, 2}
  Pnls <- MCPnls
  StartingCapital = 6
  CapitalPerTrade = 3
  EntryPrice = 2
  MaxPaperOpen = 2
  MaxPosition = 3
  MaxDailyLoss = 3
  Limits <- MCLimits
  MaxMarks = 1
SYMMETRY Symmetry
SPECIFICATION Spec
INVARIANTS ExposureWithinCap HaltHolds AccountMatchesLedger TradesWithinCap CooldownHolds
CHECK_DEADLOCK FALSE
