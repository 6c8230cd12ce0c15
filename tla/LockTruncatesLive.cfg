SPECIFICATION Spec
CONSTANTS
  Procs = {p1, p2}
  NoProc = NoProc
  MaxRecords = 3
  MaxInodes = 2
INVARIANTS WrittenRecordsStay
CHECK_DEADLOCK FALSE
