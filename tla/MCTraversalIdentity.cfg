SPECIFICATION Spec
CONSTANTS
  TopScene = "top"
  Children <- TheChildren
  Contents <- TheContents
  Cover <- TheCover
  Scenes = {"top", "inner"}
  Customs = {"hair"}
  Instances <- TheInstances
  RootIndex = 0
  InvalidValue = InvalidValue
  BranchingFactor = 2
  MaxInstanceLevels = 2
  Configurations <- Resuming
  Far = 3
  MaxHits = 2
INVARIANT HitsExact
CHECK_DEADLOCK FALSE
