SPECIFICATION Spec
CONSTANTS
  c1 = c1
  c2 = c2
  x1 = x1
  NoCall = NoCall
  Calls <- TwoCalls
  Contexts <- OneContext
  CtxOf <- AllOnOne
  Variants = {"sync", "async"}
  Fails = {}
  Signals = FALSE
  Reuse = {"async"}
  Teardown = FALSE
SYMMETRY CallSymmetry
INVARIANTS
  CallbackOnce
CHECK_DEADLOCK FALSE
