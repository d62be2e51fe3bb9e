CONSTANTS
  Capacity = 20
  ReadMax = 12
  MsgLen = 6
  Batch = 3
  Total = 18
  Garbage <- AnyLength
SPECIFICATION FairSpec
PROPERTY BatchDelivered
CHECK_DEADLOCK FALSE
