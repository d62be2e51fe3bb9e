CONSTANTS
  con = con  agg1 = agg1  agg2 = agg2  p1 = p1  p2 = p2  p3 = p3  p4 = p4
  Root = con
  Node <- DirectNode
  Parent <- DirectParent
  Blocks = 2
  Itr = 3
  Unready <- NoLinks
  StaleVSize = {0}
SPECIFICATION FairSpec
INVARIANT StopOnlyWhenDone
PROPERTY AllIterationsPerformed
CHECK_DEADLOCK FALSE
