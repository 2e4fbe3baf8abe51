SPECIFICATION FairSpec
CONSTANTS
  Job = {j1, j2}
  Admin = {}
  Kind = {"backup", "images", "restore"}
  Max = 1
  ArchiveLock = {1}
  Faults = {"create", "work", "release"}
  MaxProgress = 1
  MaxCrashes = 1
  None = None
PROPERTIES
  JobsEnd
  SlotsReturned
CHECK_DEADLOCK FALSE
