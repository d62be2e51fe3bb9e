CONSTANTS
  Capacity = 14
  ReadMax = 12
  MsgLen = 6
  Batch = 3
  Total = 18
  Garbage <- AnyLength
SPECIFICATION FairSpec
INVARIANT NeverAborts
CHECK_DEADLOCK FALSE
