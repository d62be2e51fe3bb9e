CONSTANTS
  con = con  agg1 = agg1  agg2 = agg2  p1 = p1  p2 = p2  p3 = p3  p4 = p4
  Root = con
  Node <- TreeNode
  Parent <- TreeParent
  Blocks = 1
  Itr = 2
  Unready <- NoLinks
  StaleVSize = {0}
SPECIFICATION Spec
INVARIANT StopOnlyWhenDone
CHECK_DEADLOCK FALSE
