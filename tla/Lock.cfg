SPECIFICATION Spec
CONSTANTS
  Procs = {p1, p2, p3}
  NoProc = NoProc
  MaxRecords = 3
  MaxInodes = 3
SYMMETRY ProcSymmetry
INVARIANTS LockInv 
PROPERTIES RefusedByLiveWriter
CHECK_DEADLOCK FALSE
