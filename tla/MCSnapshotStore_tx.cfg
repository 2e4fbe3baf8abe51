SPECIFICATION Spec
CONSTANTS
  Request = {r1, r2}
  Snap = {s1, s2, s3}
  feature = feature
  main = main
  Ident = {main}
  Hash = {h1, h2}
  MainOf <- MCOwnBranch
  Deployments = {TRUE}
  MaxAccepts = 1
  DiffHash = DiffHash
  None = None
SYMMETRY Symmetry
INVARIANTS
  TypeOK
  OriginalKeepsFile
  CleanupIsPrivate
