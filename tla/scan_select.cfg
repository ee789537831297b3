\* Three coins of two sectors, one of them new; two scans and a fault.
CONSTANTS
  k1 = k1
  k2 = k2
  k3 = k3
  Coins = {k1, k2, k3}
  Listed <- MCListed
  Sector <- MCSector
  Unknown = "unknown"
  Metrics <- MCMetrics
  DayLength = 3
  FirstTime = 13
  MaxTime = 15
  Window = 2
  Keep = 3
  PageSize = 1
  MaxConcurrent = 1
  MaxRetries = 3
  ApiTimeout = 31
  SyncTimeout = 60
  MaxFaults = 1
  TopN = 2
  BacktestTopN = 2
  FinalN = 2
  MinRows = 1
  FallbackCoin = k1
  ScanTimeout = 1
  MaxScans = 2
SPECIFICATION Spec
INVARIANTS
  HistoryUnbroken
  ChosenPassedAllGates
  ChosenOnFreshData
  HeldBoughtByFallback
PROPERTIES
  ScanEnds
CHECK_DEADLOCK FALSE
