------------------------------ MODULE MCGraphs ------------------------------
(***************************************************************************)
(* All small graphs, built by AddEdge.  Two orders of adding the same      *)
(* edges differ only in the names of the edges, except for edges with the  *)
(* same ends, so the ends of an edge are not before those of the edge      *)
(* added before it.                                                        *)
(*                                                                         *)
(* The graphs are described by a formula, not collected in a set: there    *)
(* are tens of thousands, and TLC generates them as initial states without *)
(* comparing them with one another.                                        *)
(***************************************************************************)
EXTENDS WeightedGraph

Place(edge, n) == n * edge.from + edge.to

WithoutLoops(edges) == {e \in edges : e.from # e.to}

(* Adding the edges of s, one after the other.                             *)
GraphOf(n, s) ==
  LET after[k \in 0 .. Len(s)] ==
        IF k = 0 THEN EmptyGraph(n) ELSE AddEdge(after[k-1], s[k])
  IN after[Len(s)]

(* g has n vertices and at most m of the given edges.                      *)
IsSmallGraph(g, n, m, edges) ==
  \E k \in 0 .. m : \E s \in [1 .. k -> edges] :
    /\ \A i \in 1 .. k - 1 : Place(s[i], n) <= Place(s[i+1], n)
    /\ g = GraphOf(n, s)
=============================================================================
