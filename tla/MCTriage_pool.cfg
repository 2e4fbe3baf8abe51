SPECIFICATION Spec
CONSTANTS
  Checks = {c1, c2}
  Instances = {i1, i2}
  Requests = {}
  InsertedAs = {"open"}
  Verdicts <- MCVerdicts
  Severity <- MCSeverity
  Fallback = "uncertain"
  AutoAcceptable = {"noise"}
  Masking = TRUE
  Batch = 2
  MaxAttempts = 2
  TTL = 1
  Slow = 1
  MaxCrashes = 1
  MaxToggles = 0
  MaxReviews = 1
SYMMETRY Symmetry
INVARIANTS
  TypeOK
  LeaseExclusive
  EffectsBounded
  WorstFollows
PROPERTIES
  VerdictStays
  ImplementsQueue
CHECK_DEADLOCK FALSE
