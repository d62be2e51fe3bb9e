CONSTANTS
  con = con  agg1 = agg1  agg2 = agg2  p1 = p1  p2 = p2  p3 = p3  p4 = p4
  Root = con
  Node <- DeepNode
  Parent <- DeepParent
  Blocks = 3
  Itr = 3
  Unready <- DeepLinks
  StaleVSize = {0, 4}
SPECIFICATION Spec
INVARIANTS TypeOK ResultIsComplete CountIsContributions SumsOneRound LockStep IInv
CHECK_DEADLOCK FALSE
