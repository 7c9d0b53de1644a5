CONSTANTS
  s1 = s1
  s2 = s2
  b1 = b1
  b2 = b2
  origin = origin
  c1 = c1
  c2 = c2
  NoCall = NoCall
  Origin = origin
  NoType = NoType
  NotAnInt = NotAnInt
  StopNames <- MCStopNames
  BusNames <- MCBusNames
  Coordinates <- MCCoordinates
  Lengths <- MCLengths
  StopLists <- MCStopLists
  Documents <- MCDocuments
  MaxBuses = 3
  MaxLengths = 4
SPECIFICATION LoaderSpec
INVARIANTS
  CatalogueIsWhatWasSaid
  AllOrEmpty
PROPERTY
  StopsStayPut
\* make_base ends.
CHECK_DEADLOCK FALSE
