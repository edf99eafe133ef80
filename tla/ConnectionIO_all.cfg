CONSTANTS
  Pieces = 2
  MaxMsgs = 4
  SendBuf = 3
SPECIFICATION FairSpec
CHECK_DEADLOCK FALSE
INVARIANT TypeOK
INVARIANT ReplyWaitsForCause
INVARIANT PiecesConserved
INVARIANT NoLostReadEdge
INVARIANT NeverSendsWhenFull
PROPERTY RequestsAreHandled
PROPERTY ShutdownIsNoticed
