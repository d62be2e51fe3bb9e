CONSTANTS
  con = con  agg1 = agg1  agg2 = agg2  p1 = p1  p2 = p2  p3 = p3  p4 = p4
  Root = con
  Node <- TreeNode
  Parent <- TreeParent
  Blocks = 2
  Itr = 2
  Unready <- NoLinks
  StaleVSize = {0}
SPECIFICATION FairSpec
INVARIANTS PollNeverDies RequestFindsIdle
PROPERTIES EveryRoundCompletes ImplementsService
CHECK_DEADLOCK FALSE
