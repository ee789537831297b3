\* Two orders, two prices, two volumes, a restart or a clean-up, and the calculators.
CONSTANTS
  o1 = o1
  o2 = o2
  Orders = {o1, o2}
  Base = 2000
  Unit = 20
  FeeRate = 1
  MinFee = 0
  StopLoss = 100
  TakeProfit = 200
  MaxSize = 600
  Prices = {10, 13}
  Volumes = {1, 2}
  Budgets = {0, 1, 999, 1000, 1001, 2999, 3000, 5005, 100000}
  Targets = {1, 7, 1000, 1999, 9999}
  Values = {5, 1005, 9999, 100005}
  Risks = {10, 40}
  Written = {"open"}
  MaxHeld = 5
  MaxBooks = 3
  MaxFaults = 1
SYMMETRY MCSymmetry
SPECIFICATION Spec
INVARIANTS
  AvgWithinPrices
  PositionAddsUp
  BookedWereExecuted
  BudgetExceededByOne
  CalculatorsAgree
CHECK_DEADLOCK FALSE
