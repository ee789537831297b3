\* Two processes with the hourly and the startup job each (RUN_IMMEDIATELY is
\* on by default), which overlap through the re-entrant lock; two faults of
\* any kind, one manual run, one candle.
CONSTANTS
  Processes = {p1, p2}
  Jobs = {trading, immediate}
  CronJobs = {trading}
  StartupJobs = {immediate}
  FaultKinds = {"crash", "loss", "abort", "database", "exchange", "timeout"}
  MaxFaults = 2
  MaxGrants = 2
  MaxHour = 0
  MaxManual = 1
SYMMETRY Symmetry
SPECIFICATION CycleSpec
INVARIANTS
  DuplicatesCostFaults
  OrdersRecorded
  NoPhantomTrades
CHECK_DEADLOCK FALSE
