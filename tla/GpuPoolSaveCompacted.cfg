SPECIFICATION Spec
CONSTANTS
  Client = {c1}
  Kinds = {"geometry"}
  DeviceSize = 3
  MaxBatch = 2
  CallsMayFail = FALSE
  NoClient = NoClient
  NoFile = NoFile
INVARIANT SaveInBounds
