\* A response that was judged stops.
SPECIFICATION MessageSpec
CONSTANTS
  MaxBuffer = 512
  RawSizes = {1, 18, 200}
  TextSizes = {0, 15, 16, 2047, 2048}
  MaxLost = 30
  MaxLong = 2052
  Room = 8
  Word = 256
CHECK_DEADLOCK FALSE
INVARIANTS Framed CleanTail NothingLost NoStrayToken StatusTold
