SPECIFICATION WriterSpec
CONSTANTS
  Faults = {"invalid", "serialize", "drop", "torn", "keep", "fsync"}
  FsyncMode = "batch"
  FsyncBatch = 2
  Clock = {1, 2}
  MaxRecords = 4
  MaxGap = 2
INVARIANTS
  WriterTypeOK HashLinked  TimestampsMonotone OnlyRaisedMissing
  DurabilityWindow CheckpointTruth VerifiesWithoutFaults
CHECK_DEADLOCK FALSE
