\* A drive and a transport that do what they should, and answer.
CONSTANTS
  Sess = {s1, s2}
  NoCmd = none
  Attempts = 1
  Capacity = 2
  Slots = 2
  MaxCalls = 4
  FaultSets = {{}}
SPECIFICATION FairSpec
CHECK_DEADLOCK FALSE
PROPERTIES CallsReturn Released
