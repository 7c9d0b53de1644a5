CONSTANTS
  s1 = s1
  s2 = s2
  b1 = b1
  b2 = b2
  origin = origin
  c1 = c1
  NoCall = NoCall
  Origin = origin
  StopNames <- MCStopNames
  BusNames <- MCBusNames
  Coordinates <- MCCoordinates
  Lengths <- MCLengths
  StopLists <- MCStopLists
  MaxBuses = 2
  MaxLengths = 2
SPECIFICATION ReloadSpec
INVARIANTS
  TypeOK
  StopIndexExact
  BusIndexNewest
  BusesInStopExact
  LoadedIsSaved
  NoStopInvented
\* Once it is loaded nothing changes the catalogue.
CHECK_DEADLOCK FALSE
