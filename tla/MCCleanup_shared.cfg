SPECIFICATION FairSpec
CONSTANTS
  Server = {s1, s2}
  Admin = {a1}
  Conf = {d2, unset}
  Default = d1
  Unset = unset
  TTL = 1
  MinInterval = 3
  MaxEdits = 1
  MaxCrashes = 1
  None = None
INVARIANTS
  TypeOK
  EditSurvives
PROPERTIES
  NoStaleSweep
  SweptAgain
CHECK_DEADLOCK FALSE
