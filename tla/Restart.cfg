SPECIFICATION RestartSpec
CONSTANTS
  Faults = {"drop"}
  FsyncMode = "batch"
  FsyncBatch = 3
  Clock = {1}
  MaxRecords = 6
  MaxGap = 1
  AhpLevel = 2
  CrashKinds = {"kill", "tear", "power"}
  RecoveryCanFail = TRUE
  MaxEstimate = 2
  MaxCrashes = 2
INVARIANTS RestartInv
PROPERTIES ImplementsAuditLog
CHECK_DEADLOCK FALSE
