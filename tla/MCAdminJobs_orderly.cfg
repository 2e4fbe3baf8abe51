SPECIFICATION OrderlySpec
CONSTANTS
  Job = {j1, j2}
  Admin = {a1}
  Kind = {"backup", "images", "restore"}
  Max = 1
  ArchiveLock = {1, None}
  Faults = {"create", "upload", "work", "release"}
  MaxProgress = 1
  MaxCrashes = 1
  None = None
SYMMETRY Symmetry
INVARIANTS
  TypeOK
  RunningHasWorker
  DataRecoverable
  AdmissionHolds
CHECK_DEADLOCK FALSE
