\* Every history of five bars of six kinds after two calm ones, in the four modes.
CONSTANTS
  Histories <- MCHistories
  Window = 2
  RecentBars = 2
  Donchian = 2
  Slack = 1
  TrendPeriod = 3
  AtrPeriod = 2
  ObvShort = 2
  AdxFrom = 2
  KTenths = 5
  DynamicK = FALSE
  FakeoutBars = 1
  TimeoutBars = 2
  StopAtr = 2
  TakeAtr = 3
  Capitals = {115, 4000}
  Fee = 1
  Slip = 1
SPECIFICATION Spec
INVARIANTS
  CashAccounted
  ExecutionHonest
  NoLookAhead
  TrackingInSync
  ReportConsistent
CHECK_DEADLOCK FALSE
