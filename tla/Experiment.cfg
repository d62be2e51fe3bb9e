SPECIFICATION Spec
CONSTANTS
  con = con
  a1 = a1
  a2 = a2
  p1 = p1
  p2 = p2
  p3 = p3
  Root = con
  Topologies <- MCTopologies
  Second = 4
  Half = 2
  Starttime = 1
  Basetime = 4
  Modulus = 262
  Handshake = 3
  Latency = 1
  Itr = 1
  Unready = {p1, p2, p3, a1, a2}
  k = 3
  Width = 8
  SizeWidth = 8
  Sizes = {2, 3, 5, 7}
  Random <- MCRandom
  Garbage = {0, 7}
INVARIANTS PollsFindChannels NoRequestLost AverageExact WholeBlocksStayInside
PROPERTY FirstIterationEnds
CHECK_DEADLOCK FALSE
