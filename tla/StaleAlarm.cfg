CONSTANTS
  idle = idle  ack = ack  rto = rto
  Alarm = {idle, ack, rto}
  Horizon = 2
  MaxCalls = 3
SYMMETRY AlarmSymmetry
SPECIFICATION Spec
INVARIANT NoStaleToken
CHECK_DEADLOCK FALSE
