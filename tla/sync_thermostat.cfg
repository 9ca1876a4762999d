CONSTANTS
  Home <- HomeThermostat
  Rooms <- MCRooms
  Subs <- MCSubs
  Values <- MCValues
  Kind <- MCKind
  Members <- MCMembers
  Sweep <- MCSweep
  Payloads <- MCPayloads
  InitState <- MCInitState
  DefaultSpeed = "low"
  Unencodable <- MCUnencodable
  RetryLimit = 0
  RetryInterval = 0
  GasDelay = 1
  ScanInterval = 1
  PollLimit = 1
  PollStep = 0
  Steps <- StepsUnit
  MaxInputs = 2
SPECIFICATION FairSpec
PROPERTIES NoEarlyWithdrawal NoGroundLost EventuallySettled ScanServed
