\* The drives that have a Security Subsystem Class.
CONSTANTS
  Sess = {s1}
  NoCmd = none
  Attempts = 1
  Capacity = 2
  Slots = 2
  MaxCalls = 1
  FaultSets = {{}}
SPECIFICATION Spec
CHECK_DEADLOCK FALSE
INVARIANTS EnterpriseServed
