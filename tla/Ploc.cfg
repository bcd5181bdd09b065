SPECIFICATION FairSpec
CONSTANTS
  primCount = 6
  MaxCode = 1
  PlocRadius = 2
  WarpSize = 4
  Warps = 2
  queueCount = 6
  Alignment = 2
  MaxDistance = 2
  InvalidValue = Invalid
INVARIANT OneTree
INVARIANT RangeComplete
PROPERTY ImplementsAgglomeration
PROPERTY Termination
