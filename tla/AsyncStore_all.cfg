SPECIFICATION FairSpec
CONSTANTS
  t1 = t1
  t2 = t2
  k1 = k1
  k2 = k2
  k3 = k3
  k4 = k4
  Free = Free
  NoTask = NoTask
  Nobody = Nobody
  DefaultExpire = 1
  MaxTime = 1
  Threads <- TwoThreads
  Tasks <- FourTasks
  NKeys = 2
INVARIANTS TicketsKept NoOrphans ExpiryFollowsTask AnswersFit
PROPERTIES ImplementsResults NothingStuck IdsIncremental
CHECK_DEADLOCK FALSE
