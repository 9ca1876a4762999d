CONSTANTS
  Home <- HomeLights
  Rooms <- MCRooms
  Subs <- MCSubs
  Values <- MCValues
  Kind <- MCKind
  Members <- MCMembers
  Sweep <- MCSweep
  Payloads <- MCPayloads
  InitState <- MCInitState
  DefaultSpeed = "low"
  Unencodable <- MCUnencodable
  RetryLimit = 1
  RetryInterval = 0
  GasDelay = 1
  ScanInterval = 1
  PollLimit = 1
  PollStep = 0
  Steps <- StepsShortLong
  MaxInputs = 2
SPECIFICATION Spec
INVARIANTS FreshFrame RetriesBounded
PROPERTIES DeliversCommands
