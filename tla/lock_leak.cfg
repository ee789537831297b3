\* One process whose two jobs overlap, without any fault.
CONSTANTS
  Processes = {p1}
  Jobs = {trading, position}
  FaultKinds = {}
  MaxFaults = 0
  MaxGrants = 2
SPECIFICATION Spec
INVARIANT IdleHoldsNothing
