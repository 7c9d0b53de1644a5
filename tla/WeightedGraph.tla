--------------------------- MODULE WeightedGraph ---------------------------
(***************************************************************************)
(* graph::DirectedWeightedGraph of src/TransportSystem/graph.h.            *)
(*                                                                         *)
(* A graph is the record of its two members.  Vertices are numbered from 0 *)
(* as in the code; an EdgeId is a position in the sequence edges, which    *)
(* starts at 1, so that identifier i of the code is i + 1 here.  A weight  *)
(* (double in the code) is an integer.                                     *)
(***************************************************************************)
EXTENDS Integers, Sequences

(* DirectedWeightedGraph(vertex_count): no edges, empty incidence lists.   *)
EmptyGraph(vertex_count) ==
  [edges |-> << >>,
   incidence_lists |-> [v \in 0 .. vertex_count - 1 |-> << >>]]

Vertices(g) == DOMAIN g.incidence_lists
EdgeIds(g) == DOMAIN g.edges

(* AddEdge: the edge is numbered by its place and listed at its source.    *)
AddEdge(g, edge) ==
  [edges |-> Append(g.edges, edge),
   incidence_lists |-> [g.incidence_lists EXCEPT
                          ![edge.from] = Append(@, Len(g.edges) + 1)]]

Edge(n, Weights) == [from : 0 .. n - 1, to : 0 .. n - 1, weight : Weights]

(* What AddEdge makes of any sequence of edges between n vertices: the     *)
(* incidence list of a vertex holds the edges that leave it, each once, in *)
(* the order of their identifiers.                                         *)
IsGraph(g, n) ==
  /\ DOMAIN g = {"edges", "incidence_lists"}
  /\ g.edges \in Seq(Edge(n, Int))
  /\ g.incidence_lists \in [0 .. n - 1 -> Seq(DOMAIN g.edges)]
  /\ \A v \in 0 .. n - 1 :
       LET list == g.incidence_lists[v] IN
       /\ \A e \in DOMAIN g.edges :
            g.edges[e].from = v <=> \E i \in DOMAIN list : list[i] = e
       /\ \A i, j \in DOMAIN list : i < j => list[i] < list[j]
=============================================================================
