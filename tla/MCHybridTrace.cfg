SPECIFICATION TraceSpec
CONSTANTS
  Context = {c1, c2, amd}
  DeviceType <- Devices
  Thread = {t1, t2}
  Kernel = {k1}
  Stream = {s1}
  RayCount <- Batches
  Width = 8
  Precision = 2
  Unit = 4
  Fraction = {0, 1, 3, 4, 6, Wild}
  MinCpuBatch = {3}
  blockSize = 2
  DriverMayFail = TRUE
  t1 = t1
  amd = amd
  Wild = Wild
  NullStream = NullStream
  NoContext = NoContext
  NoThread = NoThread
INVARIANT EachRayOnce
INVARIANT ShareSound
INVARIANT CompiledOnce
SYMMETRY ContextSymmetry
