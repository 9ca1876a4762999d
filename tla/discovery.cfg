CONSTANTS
  Topics <- MCTopics
  Leftovers <- FirstOrNot
  MaxOutages = 2
  MaxRequests = 2
SPECIFICATION FairSpec
INVARIANTS IInv EchoSpeaksForAll GateHolds
PROPERTIES GateReopens
CHECK_DEADLOCK FALSE
