SPECIFICATION Spec
CONSTANTS
  t1 = t1
  t2 = t2
  k1 = k1
  k2 = k2
  k3 = k3
  k4 = k4
  Free = Free
  NoTask = NoTask
  Nobody = Nobody
  DefaultExpire = 1
  MaxTime = 0
  Threads <- TwoThreads
  Tasks <- FourTasks
  NKeys = 3
INVARIANTS FullStoreRefuses
CHECK_DEADLOCK FALSE
