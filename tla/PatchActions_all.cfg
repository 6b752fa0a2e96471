SPECIFICATION Spec
CONSTANTS
  Requests <- AllRequests
  MaxActions = 3
  NObjects = 2
  NotInt = NotInt
  NoError = NoError
INVARIANTS OneOutcomeEach ChainHolds NothingElseSkipped
INVARIANTS FailuresReported LibvirtErrorFits
CHECK_DEADLOCK FALSE
