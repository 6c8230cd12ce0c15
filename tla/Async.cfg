SPECIFICATION FairSpec
CONSTANTS
  Tasks = {t1, t2}
  Nobody = Nobody
  MaxQueue = 1
  CheckpointInterval = 2
  Existing <- NoFile
  Faults = {"phase1", "serialize", "drop", "torn", "cancel"}
  CanStop = TRUE
  MaxFaultKinds = 2
  MaxCalls = 3
INVARIANTS PipelineInv StopFlushes MerkleCoverage
PROPERTIES CallsReturn StopReturns
CHECK_DEADLOCK FALSE
