CONSTANTS
  Settings <- MCSettings
  Modes <- MCModes
  Speeds <- MCSpeeds
  UnitSpeeds <- MCUnitSpeeds
  ModePayloads <- MCModePayloads
  SpeedPayloads <- MCSpeedPayloads
  DefaultSpeed = "low"
  MaxPending = 1
  MaxPresses = 1
  MaxCommands = 2
SPECIFICATION FairSpec
INVARIANTS IInv ShownTrue
PROPERTIES WallDecides UnitObeys ProxyShown
