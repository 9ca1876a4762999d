CONSTANTS
  Writers <- MCWriters
SPECIFICATION FairSpec
INVARIANTS IInv OneWriter IdleIsQuiet
PROPERTIES ReadsAgain WritesEnd CutsInOnlyLate
CHECK_DEADLOCK FALSE
