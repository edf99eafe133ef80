CONSTANTS
  Base = 4
  Messages <- MCMessages
  MaxSent = 3
SPECIFICATION Spec
CHECK_DEADLOCK FALSE
INVARIANT TypeOK
INVARIANT OnlyPartialFrameWaits
INVARIANT JunkIsHarmless
PROPERTY ImplementsMailbox
