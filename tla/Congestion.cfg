CONSTANTS
  kDefaultTCPMSS = 10
  InitialWindow = 6
  MaxWindow = 8
  InitialWindows = {4}
  kMinRTTWindowLength = 4
  Infinite = 100
  Rtts <- RttsOf
  VegasRtts = {1, 2, 3}
  CopaRtts = {1, 2}
  Algorithms = {"vegas", "copa"}
  Second = 1000000
  MaxBytes = 200
  MaxPackets <- PacketsOf
  MaxTime <- TimeOf
  AckOnly = {3}
  LateAcks = {2}
  MaxInFlight <- InFlightOf
  VegasInFlight = 4
  CopaInFlight = 2
  VegasPackets = 5
  VegasTime = 7
  CopaPackets = 6
  CopaTime = 7
SPECIFICATION Spec
INVARIANTS TypeOK WindowAtLeastMinimum ModeTracksRecovery VegasCheckHolds CopaChecksHold
PROPERTIES OneCutPerFlight VelocityPointsAlong
CHECK_DEADLOCK FALSE
