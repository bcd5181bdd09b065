SPECIFICATION FairSpec
CONSTANTS
  TopScene = "top"
  Children <- TheChildren
  Contents <- TheContents
  Cover <- TheCover
  Scenes = {"top", "inner"}
  Customs = {"hair"}
  Instances <- TheInstances
  RootIndex = 0
  InvalidValue = InvalidValue
  BranchingFactor = 2
  MaxInstanceLevels = 2
  Configurations <- Sound
  Far = 3
  MaxHits = 2
INVARIANT HitsExact
INVARIANT RayInSpace
INVARIANT MarksMatch
PROPERTY CallReturns
CHECK_DEADLOCK FALSE
