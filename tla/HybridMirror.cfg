SPECIFICATION Spec
CONSTANTS
  Geometry = {g1}
  Scene = {s1, s2}
  Data = {d1, d2, d3}
  Input = {i1, i2, a1}
  Boxes = {a1}
  RtcCount = 4
  MaxBatch = 2
  MaxFaults = 1
  Mixing = {g1}
  Null = Null
  NotBuilt = NotBuilt
SYMMETRY Symmetry
INVARIANT TypeOK
INVARIANT Mirrored
INVARIANT NoDangling
INVARIANT SidesAgree
INVARIANT NoOrphans
CHECK_DEADLOCK FALSE
