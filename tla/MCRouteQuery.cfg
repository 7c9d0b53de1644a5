CONSTANTS
  VertexCount = 4
  NoRoute = NoRoute
  NoEdge = NoEdge
SPECIFICATION MCSpec
INVARIANTS
  QueryInv
  AnswerIsThePath
  NoVertexTwice
PROPERTIES
  EveryQueryAnswered
