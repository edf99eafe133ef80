CONSTANTS
  Workers = {w1, w2}
  Tasks = {t1, t2, t3}
  Nobody = Nobody
  NoTask = NoTask
SYMMETRY PoolSymmetry
SPECIFICATION Spec
CHECK_DEADLOCK FALSE
INVARIANT DrainedOnExit
