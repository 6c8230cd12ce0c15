SPECIFICATION FairSpec
CONSTANTS
  a1 = a1
  a2 = a2
  m1 = m1
  None = None
  Agents = {a1, a2}
  Tools = {m1}
  First = a1
  MaxCalls = 3
  MaxTroubles = 1
INVARIANTS LinkInv  
PROPERTIES EverythingSettles
CHECK_DEADLOCK FALSE
