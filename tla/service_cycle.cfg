\* Each program by itself: three jobs of the scheduler with two runs each, three messages
\* to the bot, two runs of the runner, one breakout analysis, two calls of the API;
\* two disturbances.
CONSTANTS
  MaPeriods <- MCMaPeriods
  EmaPeriods <- MCEmaPeriods
  MacdSpans <- MCMacdSpans
  Period = 3
  StochD = 2
  BandPeriod = 6
  CciPeriod = 4
  RocPeriod = 3
  TrendBars = 1
  Lookback = 5
  MaxSlippage = 50
  BetaDays = 5
  Offset = 1
  Keep = 2
  Ttl = 2
  Window = 1
  Week = 3
  Overbought = 7500
  Programs = {"scheduler", "bot", "runner", "breakout", "api", "rules"}
  Jobs = {"trading", "immediate", "position"}
  Replies <- MCReplies
  Responses <- MCResponses
  RsiReadings <- MCRsi
  Markets <- MCMarkets
  MaxFaults = 2
  MaxRuns = 2
  MaxUpdates = 3
  MaxVolume = 2
SPECIFICATION Spec
INVARIANTS
  JobsAccounted
  RunnerOrdersJustified
  BreakoutRecorded
  CreatedOnce
  FilterAgrees
  BooksAgree
  BarsAgree
  AdaptersAgree
  ExitsHold
PROPERTY MessagesHandled
CHECK_DEADLOCK FALSE
