SPECIFICATION Spec
CONSTANTS
  boxNodeCount = 7
  ParentAddr <- Parent7
  Prims <- Prims7
  Below <- Below7
  WarpSubwarps = 3
  IntSubwarps = 3
  resetThreadCount = 8
  MaxUpdates = 3
  InvalidValue = Invalid
INVARIANT BoxesFresh
PROPERTY ChildrenFirst
