SPECIFICATION Spec
CONSTANTS
  Client = {c1, c2}
  Kinds = {"geometry", "scene"}
  DeviceSize = 3
  MaxBatch = 2
  CallsMayFail = TRUE
  NoClient = NoClient
  NoFile = NoFile
INVARIANT ObjectsBacked
INVARIANT CountsExact
PROPERTY NoLeak
CHECK_DEADLOCK FALSE
