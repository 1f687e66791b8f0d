SPECIFICATION ResponseSpec
CONSTANTS
  Room = 8
  Word = 256
INVARIANTS OnlyWithStatus
CHECK_DEADLOCK FALSE
