SPECIFICATION Spec
CONSTANTS
  Workers = {"a", "b"}
  Asked <- MCAsked
INVARIANTS
  CalledForAReason
PROPERTIES
  RefusedForAReason
