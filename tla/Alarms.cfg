CONSTANTS
  idle = idle  ack = ack  rto = rto
  Alarm = {idle, ack, rto}
  Horizon = 3
  MaxCalls = 4
SPECIFICATION FairSpec
INVARIANTS TypeOK TimerCovers SameView IInv
PROPERTIES ImplementsClock EveryAlarmEnds
CHECK_DEADLOCK FALSE
