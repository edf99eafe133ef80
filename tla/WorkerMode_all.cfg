CONSTANTS
  Conns = {c1, c2}
  Fds <- OneFd
  Workers = {w1, w2}
  MaxRequests = 3
  NoConn = NoConn
  NullDevice = NullDevice
SPECIFICATION Spec
SYMMETRY Symmetry
CHECK_DEADLOCK FALSE
INVARIANT TypeOK
INVARIANT OwnDevice
INVARIANT OvertakingBounded
INVARIANT OnlyExpiredDangle
 
