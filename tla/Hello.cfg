SPECIFICATION Spec
CONSTANTS
  c1 = c1
  c2 = c2
  s1 = s1
  s2 = s2
  Servers = {s1, s2}
  ServerOf <- MCServerOf
  Clients <- MCClients
  Types <- MCTypes
  Start <- MCStart
  Stop <- MCStop
  ServerStop = 4
  MaxPackets <- MCMaxPackets
  MaxDrops = 1
  TagBase = 2
  GoodputInterval = 2
INVARIANTS OnlyTwinStreamsDangle LossCountRight GoodputComplete
PROPERTY EverythingReleased
CHECK_DEADLOCK FALSE
