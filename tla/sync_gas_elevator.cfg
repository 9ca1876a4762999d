CONSTANTS
  Home <- HomeGasElevator
  Rooms <- MCRooms
  Subs <- MCSubs
  Values <- MCValues
  Kind <- MCKind
  Members <- MCMembers
  Sweep <- MCSweep
  Payloads <- MCPayloads
  InitState <- MCInitState
  DefaultSpeed = "low"
  Unencodable <- MCUnencodable
  RetryLimit = 1
  RetryInterval = 0
  GasDelay = 1
  ScanInterval = 1
  PollLimit = 1
  PollStep = 0
  Steps <- StepsUnit
  MaxInputs = 2
SPECIFICATION FairSpec
INVARIANTS IInv BurstBounded
PROPERTIES EventuallySettled DeliversCommands
