CONSTANTS
  ThreadNum = 2
  Main = Main
  Tables = {connMapMutex}
  Signals = {SIGTERM, SIGINT}
  FirstSignal = SIGTERM
  MaxSignals = 2
  MaxSections = 1
  NoOne = NoOne
SPECIFICATION FairSpec
CHECK_DEADLOCK FALSE
INVARIANT TypeOK
INVARIANT OneSignalIsSafe
INVARIANT CleanExit
PROPERTY StopEnds
