\* One process, the hourly trading job and the position job, which overlap
\* through the re-entrant lock, without a startup job; one fault, two candles.
CONSTANTS
  Processes = {p1}
  Jobs = {trading, position}
  CronJobs = {trading}
  StartupJobs = {}
  FaultKinds = {"crash", "loss", "abort", "database", "exchange", "timeout"}
  MaxFaults = 1
  MaxGrants = 2
  MaxHour = 1
  MaxManual = 0
SPECIFICATION CycleSpec
PROPERTY JobsEnd
CHECK_DEADLOCK FALSE
