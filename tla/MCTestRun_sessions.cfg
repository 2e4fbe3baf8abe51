SPECIFICATION Spec
CONSTANTS
  Request = {r1, r2}
  Test = {t1, t2}
  Check = {c1, c2}
  MaxCuts = 1
  MaxMixed = 1
  None = None
SYMMETRY Symmetry
INVARIANTS
  TypeOK
  StatusAtRest
  ChecksAndTests
  FinishedReported
CHECK_DEADLOCK FALSE
