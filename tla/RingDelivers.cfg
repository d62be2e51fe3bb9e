CONSTANTS
  Capacity = 14
  ReadMax = 12
  MsgLen = 6
  Batch = 2
  Total = 84
  Garbage <- AnyLength
SPECIFICATION FairSpec
INVARIANTS TypeOK FramesIntact RingHoldsStream HeadContiguous NeverAborts
PROPERTY BatchDelivered
CHECK_DEADLOCK FALSE
