SPECIFICATION MCSpec
CONSTANTS
  StopCount = 3
  BusNames = {11, 12}
  UnknownBus = 13
  UnknownStop = 0
  IntBits = 4
  NaN = NaN
  Distances <- MCDistances
  WaitTime = 2
  NoLength = NoLength
  NoSpan = NoSpan
INVARIANTS
  TypeOK
  EdgesExplained
  RidesAreReal
  RidesComplete
  ThrowsForAGap
  InfoAgreesWithRides
\* The constructor may throw, and then nothing is asked.
CHECK_DEADLOCK FALSE
