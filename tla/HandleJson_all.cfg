SPECIFICATION Spec
CONSTANTS
  n1 = n1
  n2 = n2
  Names <- TwoNames
  Bridgeless <- OneName
  Listed <- OneName
  Requests <- AllRequests
INVARIANTS HandlesOwned HandlesReleased EachAccountedFor NoneAfterFailure
INVARIANTS RefusedDoesNothing UndefinedForAReason
CHECK_DEADLOCK FALSE
