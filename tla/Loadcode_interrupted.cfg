SPECIFICATION Spec
CONSTANTS
  c1 = c1
  c2 = c2
  x1 = x1
  NoCall = NoCall
  Calls <- TwoCalls
  Contexts <- OneContext
  CtxOf <- AllOnOne
  Variants = {"sync"}
  Fails = {}
  Signals = TRUE
  Reuse = {}
  Teardown = FALSE
SYMMETRY CallSymmetry
INVARIANTS
  WaitsUntilDone
CHECK_DEADLOCK FALSE
