SPECIFICATION FairSpec
CONSTANTS
  c1 = c1
  c2 = c2
  t1 = t1
  t2 = t2
  k1 = k1
  k2 = k2
  None = None
  Conns <- TwoConns
  IoThreads <- OneThread
  Requests <- FewRequests
  MaxRequests = 2
  Tasks <- OneTask
  Keys <- TwoKeys
PROPERTIES RequestAnswered
CHECK_DEADLOCK FALSE
