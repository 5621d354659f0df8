SPECIFICATION SysSpec
CONSTANTS
  c1 = c1
  c2 = c2
  x1 = x1
  x2 = x2
  NoCall = NoCall
  Calls <- OneCall
  Contexts <- OneContext
  CtxOf <- OwnContext
  Variants = {"sync", "async_nores"}
  Fails = {}
  SysFails = {}
  Signals = FALSE
  Reuse = {}
  Teardown = FALSE
INVARIANTS
  MemoryLeakFree
CHECK_DEADLOCK FALSE
