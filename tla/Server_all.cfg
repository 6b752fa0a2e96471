SPECIFICATION Spec
CONSTANTS
  c1 = c1
  c2 = c2
  t1 = t1
  t2 = t2
  k1 = k1
  k2 = k2
  None = None
  Conns <- TwoConns
  IoThreads <- TwoThreads
  Requests <- AllRequests
  MaxRequests = 2
  Tasks <- OneTask
  Keys <- TwoKeys
SYMMETRY Symmetry
INVARIANTS OneThing AnswersFitRequests ClosedForAReason ResultReachesOne
CHECK_DEADLOCK FALSE
