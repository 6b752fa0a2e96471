SPECIFICATION Spec
CONSTANT Nibbles = {0, 10}
INVARIANTS IdsComeBack
CHECK_DEADLOCK FALSE
