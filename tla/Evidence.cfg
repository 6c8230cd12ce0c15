SPECIFICATION EvidenceSpec
CONSTANTS
  Workers = {t1, t2}
  Stores = {s1, s2}
  Payloads = {p1, p2, p3}
  t1 = t1
  t2 = t2
  s1 = s1
  s2 = s2
  p1 = p1
  p2 = p2
  p3 = p3
  MaxFiles = 1
  MaxAge = 1
  CleanupInterval = 2
  MaxTime = 2
  MaxCalls = 4
  MaxTrouble = 1
SYMMETRY Symmetric
INVARIANTS StoreInv
PROPERTIES EvictsOldestWhenOver
CHECK_DEADLOCK FALSE
