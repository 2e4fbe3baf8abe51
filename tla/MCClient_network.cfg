SPECIFICATION FairSpec
CONSTANTS
  Driver = {d1, d2}
  AutoAccept = {d1}
  Image = {i1, i2}
  MaxAttempts = 2
  MaxCalls = 4
  MaxLate = 1
  None = None
INVARIANTS
  TypeOK
  AtMostOnce
  SessionKept
PROPERTIES
  AcceptanceKept
  CallsReturn
CHECK_DEADLOCK FALSE
