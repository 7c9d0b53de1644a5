------------------------------ MODULE MCRouter ------------------------------
(***************************************************************************)
(* Graphs of four vertices: three edges of any kind (loops, parallel edges *)
(* and zero weights), two of which one may be negative, or four edges with *)
(* the same weight.                                                        *)
(***************************************************************************)
EXTENDS Router, MCGraphs

MCInit ==
  /\ \/ IsSmallGraph(graph, 4, 3, Edge(4, {0, 1}))
     \/ IsSmallGraph(graph, 4, 2, Edge(4, {-1, 2}))
     \/ IsSmallGraph(graph, 4, 4, WithoutLoops(Edge(4, {1})))
  /\ Init

MCSpec == MCInit /\ [][Next]_vars
=============================================================================
