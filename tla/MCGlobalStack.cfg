SPECIFICATION FairSpec
CONSTANTS
  Warp <- Warps3
  Lanes <- Lanes3
  WarpSize = 2
  MaxResident = 2
  stackCount = 4
  stackSize = 2
  entryWords = 1
  SharedSizes = {0, 2}
  Values <- Values3
  Nothing = Nothing
  a = a
  b = b
  c = c
INVARIANT BufferIntact
PROPERTY ImplementsLifo
PROPERTY EveryWarpServed
