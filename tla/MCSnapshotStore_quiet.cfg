SPECIFICATION QuietBounded
CONSTANTS
  Request = {r1, r2}
  Snap = {s1, s2, s3}
  feature = feature
  main = main
  Ident = {feature, main}
  Hash = {h1, h2}
  MainOf <- MCFallback
  Deployments = {TRUE, FALSE}
  MaxAccepts = 2
  DiffHash = DiffHash
  None = None
SYMMETRY Symmetry
INVARIANTS
  StoreConsistent
PROPERTIES
  ImplementsLibrary
