SPECIFICATION BuildSpec
CONSTANTS
  Ref <- Ref13
  Node <- Tree13
  BranchingFactor = 3
  MaxFatLeafSize = 2
  WarpSubwarps = 2
  IntSubwarps = 2
  BlockTasks = 2
  MaxResident = 1
  WarpSize = 2
  CompactWarps = 2
  PacketTasksPerWarp = 2
  MinPairs = 2
  MaxPairs = 3
  InvalidValue = Invalid
INVARIANT UntornTask
INVARIANT ReferencesPartitioned
INVARIANT NoTaskAbandoned
INVARIANT RangesPacked
INVARIANT BoxNodesFit
INVARIANT WideTree
INVARIANT LeavesPacked
INVARIANT PrimNodesFit
PROPERTY Termination
PROPERTY ImplementsTreeSplit
