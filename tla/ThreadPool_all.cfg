CONSTANTS
  Workers = {w1, w2, w3}
  Tasks = {t1, t2, t3}
  Nobody = Nobody
  NoTask = NoTask
SPECIFICATION FairSpec
CHECK_DEADLOCK FALSE
INVARIANT TypeOK
INVARIANT EnoughAwake
PROPERTY QueuedIsExecuted
PROPERTY ImplementsWorkQueue
