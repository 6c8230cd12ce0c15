SPECIFICATION FairSpec
CONSTANTS
  Faults = {"drop"}
  FsyncMode = "none"
  FsyncBatch = 1
  Clock = {0}
  MaxRecords = 40
  MaxGap = 1
  NoThread = NoThread
  Threads = {t1, t2}
  Checkpointers = {c1}
  Level = 3
  CheckpointInterval = 3
  WitnessInterval = 3
  Endpoints = 1
  Phase1CanFail = TRUE
  MaxCalls = 3
INVARIANTS ChainUnderThreads CheckpointsTruthful FailureRemembered
PROPERTIES CallsReturn
CHECK_DEADLOCK FALSE
