CONSTANTS
  Conns = {c1, c2}
  Fds <- TwoFds
  ThreadNum = 1
  Timer = Timer
  NoConn = NoConn
  NullDevice = NullDevice
SPECIFICATION FairSpec
CHECK_DEADLOCK FALSE
INVARIANT TypeOK
INVARIANT TablesAgree
INVARIANT OwnDevice
INVARIANT PolledIsTracked
INVARIANT NoEventAfterClose
PROPERTY ImplementsRegistry
PROPERTY ClosedIsReclaimed
