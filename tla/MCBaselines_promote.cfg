SPECIFICATION Spec
CONSTANTS
  feature = feature
  main = main
  f1 = f1
  f2 = f2
  m1 = m1
  Request = {r1}
  Snap = {f1, m1}
  Branch = {feature, main}
  OwnBranch <- MCOwnBranch
  Regions = {g1}
  NoRegions = NoRegions
  MaxIds = 4
  MaxClock = 5
  None = None
INVARIANTS
  PromotedIsActive
CHECK_DEADLOCK FALSE
