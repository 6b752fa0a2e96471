SPECIFICATION Spec
CONSTANTS
  Null = Null
  Unborn = Unborn
  Garbage = Garbage
  N = 3
  CpusPerByte = 2
  Objects <- Three
  Vars <- Three
INVARIANTS OwnersCounted MemoryForAReason NothingLeft ListsDelivered AnswersTrue
CHECK_DEADLOCK FALSE
