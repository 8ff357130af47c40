CONSTANTS
  Tests = 1
  Compilers = {"right"}
  Programs = {"right", "flood"}
  Modes = {"docker"}
  FaultKinds = {}
  MaxFaults = 0
SPECIFICATION Spec
INVARIANT GivenUpIsKilled
CHECK_DEADLOCK FALSE
