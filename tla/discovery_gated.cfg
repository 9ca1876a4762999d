CONSTANTS
  Topics <- MCTopics
  Leftovers <- First
  MaxOutages = 1
  MaxRequests = 1
SPECIFICATION Spec
INVARIANTS Gated
CHECK_DEADLOCK FALSE
