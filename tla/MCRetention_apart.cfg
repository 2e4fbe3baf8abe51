SPECIFICATION ApartSpec
CONSTANTS
  Request = {r1}
  Snap = {s1, s2, s3}
  main = main
  Ident = {main}
  Hash = {h1, h2}
  MainOf <- MCOwnBranch
  Deployments = {TRUE}
  MaxAccepts = 2
  DiffHash = DiffHash
  None = None
  KeepLast = 0
  MaxTasks = 2
SYMMETRY Symmetry
INVARIANTS
  RetentionTypeOK
  TasksLoseNothing
PROPERTIES
  ImplementsLibrary
  BaselineRowsKept
  OnlyBrokenDeleted
CHECK_DEADLOCK FALSE
