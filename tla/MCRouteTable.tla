---------------------------- MODULE MCRouteTable ----------------------------
(***************************************************************************)
(* Graphs of four vertices.  Those whose edges join only three of them     *)
(* have loops, parallel edges, zero-weight cycles and some negative edges; *)
(* the others have as many as four edges, enough for a route to be joined  *)
(* from two routes of several edges.                                       *)
(***************************************************************************)
EXTENDS RouteTable, MCGraphs

MCInit ==
  /\ \/ IsSmallGraph(graph, 4, 3, Edge(3, {0, 1, 3}))
     \/ IsSmallGraph(graph, 4, 2, Edge(3, {-1, 1}))
     \/ IsSmallGraph(graph, 4, 4, WithoutLoops(Edge(4, {0, 1})))
  /\ Init

MCSpec == MCInit /\ [][Next]_vars
=============================================================================
