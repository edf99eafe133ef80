CONSTANTS
  Callers = {c1, c2}
  MaxCalls = 2
  Loop = Loop
  Nobody = Nobody
SPECIFICATION FairSpec
CHECK_DEADLOCK FALSE
INVARIANT TypeOK
INVARIANT NoStrandedTask
PROPERTY ImplementsMailbox
PROPERTY QueuedIsRun
PROPERTY StopIsPrompt
