---------------------------- MODULE MCRouteQuery ----------------------------
(***************************************************************************)
(* Graphs of four vertices, where zero-weight edges make cycles that cost  *)
(* nothing: four edges of weight 0, or three that may also cost 1.         *)
(***************************************************************************)
EXTENDS RouteQuery, MCGraphs

MCInit ==
  /\ \/ IsSmallGraph(graph, 4, 3, WithoutLoops(Edge(4, {0, 1})))
     \/ IsSmallGraph(graph, 4, 4, WithoutLoops(Edge(4, {0})))
     \/ IsSmallGraph(graph, 4, 2, Edge(4, {0, 1}))
  /\ QueryInit

(* Follow, but edges is not made longer than any path: a walk that goes    *)
(* round a cycle comes back to a state it was in, which TLC can tell.  The *)
(* code never gets there, as NoVertexTwice does not let edges grow so.     *)
MCFollow ==
  IF Len(edges) <= VertexCount
    THEN Follow
    ELSE /\ state = "walking" /\ edge_id # NoEdge
         /\ edge_id' \in PreviousEdge(from, graph.edges[edge_id].from)
         /\ UNCHANGED <<vars, state, from, to, edges, walked>>

MCNext == Construct \/ (\E f, t \in Vertex : Ask(f, t)) \/ MCFollow \/ Answer

MCSpec ==
  /\ MCInit /\ [][MCNext]_queryVars
  /\ WF_queryVars(Construct) /\ WF_queryVars(MCFollow \/ Answer)
=============================================================================
