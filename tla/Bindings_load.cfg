SPECIFICATION FairSpec
CONSTANTS
  m1 = m1
  m2 = m2
  l1 = l1
  l2 = l2
  l3 = l3
  x1 = x1
  Default = Default
  NoModule = NoModule
  Modules <- TwoModules
  Loaders <- ThreeLoaders
  Contexts <- TwoContexts
  CtxOf <- LastAlone
  BindFails = {"b", "ab", "reg"}
INVARIANTS
  FunctionsLoaded
  RefsExplained
  LoadsAll
PROPERTIES
  LoadEnds
CHECK_DEADLOCK FALSE
