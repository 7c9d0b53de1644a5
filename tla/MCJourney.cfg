SPECIFICATION MCSpec
CONSTANTS
  StopCount = 3
  BusNames = {b1, b2}
  WaitTime = 1
  NoLength = NoLength
  NoSpan = NoSpan
  NoRoute = NoRoute
  NoEdge = NoEdge
  Unknown = Unknown
INVARIANTS
  JourneyCanBeTravelled
  JourneyIsFastest
PROPERTY
  RouterSurvives
\* make_base may throw for a missing length and leave no router to load.
CHECK_DEADLOCK FALSE
