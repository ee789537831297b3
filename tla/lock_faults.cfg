\* Two processes, two jobs each, every fault the environment can produce.
CONSTANTS
  Processes = {p1, p2}
  Jobs = {trading, position}
  FaultKinds = {"crash", "loss", "abort"}
  MaxFaults = 2
  MaxGrants = 3
SPECIFICATION Spec
INVARIANTS
  GrantsCoverHolders
  CrossProcessExclusion
  HeldHasOwner
PROPERTY ImplementsPort
