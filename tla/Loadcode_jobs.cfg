SPECIFICATION FairSpec
CONSTANTS
  c1 = c1
  c2 = c2
  x1 = x1
  NoCall = NoCall
  Calls <- TwoCalls
  Contexts <- OneContext
  CtxOf <- AllOnOne
  Variants = {"loadcode", "loadcode_nores", "direct", "sync", "async", "async_nores", "openlib"}
  Fails = {"d", "lw", "res"}
  Signals = FALSE
  Reuse = {"loadcode", "sync", "direct"}
  Teardown = TRUE
INVARIANTS
  TypeOK
  MutualExclusion
  ContextMemory
  NoLeak
  CallbackOnce
  HandlerMemory
  WaiterMemory
  UninterruptedWait
PROPERTIES
  ImplementsService
  EventuallyCalledBack
  EventuallyReturns
CHECK_DEADLOCK FALSE
