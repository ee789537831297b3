\* The API alone, two calls, no disturbance.
CONSTANTS
  MaPeriods <- MCMaPeriods
  EmaPeriods <- MCEmaPeriods
  MacdSpans <- MCMacdSpans
  Period = 3
  StochD = 2
  BandPeriod = 6
  CciPeriod = 4
  RocPeriod = 3
  TrendBars = 2
  Lookback = 5
  MaxSlippage = 50
  BetaDays = 5
  Offset = 1
  Keep = 2
  Ttl = 2
  Window = 1
  Week = 3
  Overbought = 7500
  Programs = {"api"}
  Jobs = {"trading"}
  Replies <- MCReplies
  Responses <- MCResponses
  RsiReadings <- MCRsi
  Markets <- MCMarkets
  MaxFaults = 0
  MaxRuns = 2
  MaxUpdates = 3
  MaxVolume = 2
SPECIFICATION Spec
INVARIANT ControlObeyed
CHECK_DEADLOCK FALSE
