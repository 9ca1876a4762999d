CONSTANTS
  Home <- HomeLights
  Rooms <- MCRooms
  Subs <- MCSubs
  Values <- MCValues
  Kind <- MCKind
  Members <- MCMembers
  Sweep <- MCSweep
  Payloads <- MCPayloads
  InitState <- MCInitState
  DefaultSpeed = "low"
  Unencodable = {}
  RetryLimit = 0
  RetryInterval = 0
  GasDelay = 0
  ScanInterval = 1
  PollLimit = 0
  PollStep = 0
  Steps <- StepsUnit
  MaxInputs = 2
  MaxFaults = 1
SPECIFICATION PadSpec
INVARIANTS InForce
