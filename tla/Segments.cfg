SPECIFICATION SegmentsSpec
CONSTANTS
  Absent = Absent
  BatchSize = 2
  MaxBytes = 5
  MaxRecords = 9
  MaxTime = 1
  MaxTrouble = 2
  MaxExports = 2
INVARIANTS  TailFollows ExportedOnce
CHECK_DEADLOCK FALSE
