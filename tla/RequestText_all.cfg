SPECIFICATION TextSpec
CONSTANTS
  Nibbles = {0, 10}
  Targets <- MCTargets
  Headers <- MCHeaders
  Tags <- MCTags
  KnownFlags <- MCFlags
  Codings <- MCCodings
  Letters = {"a"}
INVARIANTS KeysTravel
INVARIANTS PartsArePath FirstAppearance FlagsAsListed
INVARIANTS EncodedAsAsked
CHECK_DEADLOCK FALSE
