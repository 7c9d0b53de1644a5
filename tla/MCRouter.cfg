CONSTANTS
  VertexCount = 4
  NoRoute = NoRoute
  NoEdge = NoEdge
SPECIFICATION MCSpec
\* The constructor returns or throws, and there is nothing more to do.
CHECK_DEADLOCK FALSE
INVARIANTS
  IInv
PROPERTIES
  HalvesStay
  ImplementsRouteTable
