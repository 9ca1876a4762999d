CONSTANTS
  Writers <- MCWriters
SPECIFICATION Spec
INVARIANTS NeverStarved
CHECK_DEADLOCK FALSE
