CONSTANTS
  Sessions = {s1}
  Devices = {d1}
  MaxData = 2
  NoID = NoID
  Hole = Hole
SPECIFICATION Spec
CHECK_DEADLOCK FALSE
INVARIANT AckedIsOutput
