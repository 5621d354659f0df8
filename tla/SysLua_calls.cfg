SPECIFICATION SysSpec
CONSTANTS
  c1 = c1
  c2 = c2
  x1 = x1
  x2 = x2
  NoCall = NoCall
  Calls <- OneCall
  Contexts <- OneContext
  CtxOf <- OwnContext
  Variants = {"sync", "async_nores"}
  Fails = {"d", "lw", "res"}
  SysFails = {"code", "copy", "lc", "L", "wq", "bind", "info", "put"}
  Signals = TRUE
  Reuse = {}
  Teardown = FALSE
INVARIANTS
  ContextInUse
  CleansUp
  ReportsOutcome
PROPERTIES
  SysEventuallyReturns
CHECK_DEADLOCK FALSE
