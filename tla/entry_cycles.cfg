\* Two overlapping cycles on an account with up to two positions; one price
\* move, one failed read, one sale.  The unit is 2,500 KRW.
CONSTANTS
  Cycles = {c1, c2}
  Tickers = {eth, btc, xrp, sol}
  Fallback = eth
  MaxPositions = 2
  MinPosition = 4
  MinOrder = 2
  InitCash = {8000}
  InitValues = {0, 4}
  Swing = 5
  MaxMoves = 1
  MaxFaults = 1
  MaxSells = 1
SPECIFICATION Spec
INVARIANTS
  PositionsBounded
  CapitalCommittedOnce
CHECK_DEADLOCK FALSE
