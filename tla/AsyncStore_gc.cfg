SPECIFICATION FairSpecWithGc
CONSTANTS
  t1 = t1
  t2 = t2
  k1 = k1
  k2 = k2
  k3 = k3
  k4 = k4
  Free = Free
  NoTask = NoTask
  Nobody = Nobody
  DefaultExpire = 1
  MaxTime = 3
  Threads <- OneThread
  Tasks <- TwoTasks
  NKeys = 3
PROPERTIES GcDiscardsExpired
CHECK_DEADLOCK FALSE
