\* Three jobs over the two lock names of LOCK_IDS.
CONSTANTS
  Jobs = {trading, immediate, position}
  Names = {trading_cycle, position_management}
SPECIFICATION Spec
INVARIANTS
  LocksMatchOwners
PROPERTY ImplementsPort
