SPECIFICATION FairSpec
CONSTANTS
  Client = {c1}
  Kinds = {"scene"}
  DeviceSize = 3
  MaxBatch = 2
  CallsMayFail = FALSE
  NoClient = NoClient
  NoFile = NoFile
PROPERTY InputsDestroyed
CHECK_DEADLOCK FALSE
