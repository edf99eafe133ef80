CONSTANTS
  Sessions = {s1, s2}
  Devices = {d1, d2}
  MaxData = 2
  NoID = NoID
  Hole = Hole
SYMMETRY DeviceSymmetry
SPECIFICATION Spec
CHECK_DEADLOCK FALSE
INVARIANT TypeOK
INVARIANT LoginMatchesStreams
INVARIANT NotMisfiled
INVARIANT LinePerAck
