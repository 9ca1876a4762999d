CONSTANTS
  Names <- MCNames
  Addresses <- MCAddresses
  WallAddress = "00"
  NoRoom = NoRoom
  NoAddress = NoAddress
  Houses <- MCHouses
  Options <- MCOptions
SPECIFICATION StartSpec
INVARIANTS ComesHome SessionComplete
PROPERTIES FromItsOwnAddress EveryPartStarts PollingStarts
CHECK_DEADLOCK FALSE
