SPECIFICATION TracingSpec
CONSTANTS
  t1 = t1
  t2 = t2
  r1 = r1
  r2 = r2
  s1 = s1
  s2 = s2
  s3 = s3
  x1 = x1
  x2 = x2
  Tasks = {t1, t2}
  AllRecorders = {r1, r2}
  Spans = {s1, s2, s3}
  Runs = {x1, x2}
  HandlerRecorder = r1
  SessionRecorders = {r1}
  Faults = {"invalid", "late", "kept", "lost"}
  MaxUses = 3
  MaxFaults = 1
SYMMETRY Symmetry
INVARIANTS SpansInv 
CHECK_DEADLOCK FALSE
