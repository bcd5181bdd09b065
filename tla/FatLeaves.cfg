SPECIFICATION BuildSpec
CONSTANTS
  primCount = 4
  MaxCode = 3
  MaxFatLeafSize = 2
  InvalidValue = Invalid
INVARIANT RadixTree
INVARIANT BoxesFit
INVARIANT FatLeavesExact
PROPERTY ImplementsBottomUp
PROPERTY CountsBottomUp
PROPERTY BuildEnds
