SPECIFICATION InstrSpec
CONSTANTS
  Threads = {t1, t2}
  Agents = {t1}
  t1 = t1
  t2 = t2
  r1 = r1
  r2 = r2
  Recorders = {r1, r2}
  AsyncRecorders = {r2}
  Kinds = {"urllib", "send", "mcp", "function", "coroutine", "stream", "grpc", "langchain", "legacy"}
  MaxDepth = 2
INVARIANTS PatchInv
  
CHECK_DEADLOCK FALSE
