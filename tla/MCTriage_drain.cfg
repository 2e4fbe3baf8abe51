SPECIFICATION FairSpec
CONSTANTS
  Checks = {c1}
  Instances = {i1, i2}
  Requests = {r1}
  InsertedAs = {"open", "failed"}
  Verdicts <- MCVerdicts
  Severity <- MCSeverity
  Fallback = "uncertain"
  AutoAcceptable = {"noise"}
  Masking = FALSE
  Batch = 1
  MaxAttempts = 2
  TTL = 1
  Slow = 1
  MaxCrashes = 1
  MaxToggles = 1
  MaxReviews = 0
PROPERTIES
  Drained
CHECK_DEADLOCK FALSE
