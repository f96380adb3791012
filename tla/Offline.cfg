CONSTANTS
  Jobs = {j1, j2}
  Dates = {1, 2, 3}
  LastDate = 2
  MaxRows = 3
  BatchSize = 2
  MaxFaults = 2
  MaxRestarts = 1
  Requests = {r1, r2}
  Versions = {v1, v2}
  FirstVersion = v1
  Experiments = {e1}
  Scores = {49, 50}
  MaxScorecards = 2
  MaxCalls = 5
  LastDay = 6
  Weekend = {4, 5}
  Tasks = {t1, t2}
  LookbackOccurrences = 2
  MinOccurrences = 1
  MinWins = 2
  MinWinRatePct = 50
  Tables <- MCTables
  MaxRuns = 2
  None = None
  Shapes <- MCShapes
  OpenSlot = 0
  WindowSlots = {1, 2}
  EodSlot = 4
  MaxOrbRangePct = 60
  CapitalPerTrade = 5000
  Brokerage = 20
  PriceScale = 1000
  SlippageTicks = 1
  MonthLengths <- MCMonthLengths
  WfConfigs <- MCWfConfigs
  Histories <- MCHistories
  Grid <- MCGrid
  Base <- MCBase
  Sharpes <- MCSharpes
  Pnls <- MCPnls
  TradeKinds <- MCTradeKinds
  MaxTrades = 4
  MaxSimulated = 3
  LastTradeDay = 2
  DaysPerMonth = 2
  FromDay = 1
  StartingCapital = 10
  SimulationCount = 2
  RuinThresholds = {30, 40, 50}
  MinTradesForRanking = 3
  MinBucketEntries = 3
  MinTradesForClassify = 3
  SignalTable <- MCSignalTable
  RunTable <- MCRunTable
  ReportDays = {1, 2, 3}
  ReportPnls <- MCReportPnls
  Slips = {0, 1}
  BrokeragePerSide = 1
  TotalCapital = 100
  MaxDocuments = 5
  MinTrades = 1
SPECIFICATION Spec
INVARIANTS CompletedHasResults LiveIsEarned SingleFlight NightlyMatchesBacktest
  ReplaysAgree OutOfSample StatisticsAgree ReportsReconcile
PROPERTY VerdictIsFinal
SYMMETRY Symmetry
CHECK_DEADLOCK FALSE
