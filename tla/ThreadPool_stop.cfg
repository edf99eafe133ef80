CONSTANTS
  Workers = {w1, w2}
  Tasks = {t1}
  Nobody = Nobody
  NoTask = NoTask
SPECIFICATION FairSpec
CHECK_DEADLOCK FALSE
PROPERTY StopTerminates
