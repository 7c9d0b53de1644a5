------------------------------- MODULE Router -------------------------------
(***************************************************************************)
(* The constructor of graph::Router in src/TransportSystem/router.h: a     *)
(* first loop fills the table from the edges, and then Floyd and           *)
(* Warshall's three loops improve it in place, reading and writing the     *)
(* same table.  There is one step per assignment to the table; the local   *)
(* loop variables are variables here, and pc tells the two loops apart.    *)
(***************************************************************************)
EXTENDS WeightedGraph

CONSTANTS VertexCount, NoRoute, NoEdge

ASSUME RouterAssumption ==
  /\ VertexCount \in Nat
  /\ NoEdge \notin Nat
  /\ NoRoute \notin [weight : Nat, prev_edge : Nat \cup {NoEdge}]

VARIABLES
  graph,                  \* graph_
  routes_internal_data_,  \* from -> to -> optional<RouteInternalData>
  pc,                     \* "initialize", "relax", "done" or "thrown"
  vertex,                 \* vertex of the first loop, vertex_through of the second
  next_edge,              \* first loop: place in the vertex's incidence list,
                          \* 0 before the vertex's own cell is set
  vertex_from, vertex_to  \* second loop

loop == <<vertex, next_edge, vertex_from, vertex_to>>
vars == <<graph, routes_internal_data_, pc, loop>>

Vertex == 0 .. VertexCount - 1
Route == [weight : Nat, prev_edge : EdgeIds(graph) \cup {NoEdge}]

Cell(from, to) == routes_internal_data_[from][to]

Write(from, to, route) ==
  routes_internal_data_' = [routes_internal_data_ EXCEPT ![from][to] = route]

IncidentEdges == graph.incidence_lists[vertex]

-----------------------------------------------------------------------------
Init ==
  /\ IsGraph(graph, VertexCount)
  /\ routes_internal_data_ = [from \in Vertex |-> [to \in Vertex |-> NoRoute]]
  /\ pc = "initialize"
  /\ vertex = 0 /\ next_edge = 0
  /\ vertex_from = 0 /\ vertex_to = 0

(* The vertex's own cell is set before its edges are looked at.            *)
InitializeVertex ==
  /\ pc = "initialize" /\ vertex < VertexCount /\ next_edge = 0
  /\ Write(vertex, vertex, [weight |-> 0, prev_edge |-> NoEdge])
  /\ next_edge' = 1
  /\ UNCHANGED <<graph, pc, vertex, vertex_from, vertex_to>>

(* Mutant of InitializeEdge: the weight is not looked at.                  *)
InitializeAnyEdge ==
  /\ pc = "initialize" /\ vertex < VertexCount
  /\ next_edge \in DOMAIN IncidentEdges
  /\ LET edge_id == IncidentEdges[next_edge]
         edge == graph.edges[edge_id]
     IN Write(vertex, edge.to, [weight |-> edge.weight, prev_edge |-> edge_id])
  /\ next_edge' = next_edge + 1
  /\ UNCHANGED <<graph, pc, vertex, vertex_from, vertex_to>>

InitializeEdge ==
  /\ pc = "initialize" /\ vertex < VertexCount
  /\ next_edge \in DOMAIN IncidentEdges
  /\ LET edge_id == IncidentEdges[next_edge]
         edge == graph.edges[edge_id]
     IN /\ edge.weight >= 0
        /\ IF Cell(vertex, edge.to) = NoRoute \/ Cell(vertex, edge.to).weight > edge.weight
             THEN Write(vertex, edge.to, [weight |-> edge.weight, prev_edge |-> edge_id])
             ELSE UNCHANGED routes_internal_data_
  /\ next_edge' = next_edge + 1
  /\ UNCHANGED <<graph, pc, vertex, vertex_from, vertex_to>>

ThrowNegativeWeight ==
  /\ pc = "initialize" /\ vertex < VertexCount
  /\ next_edge \in DOMAIN IncidentEdges
  /\ graph.edges[IncidentEdges[next_edge]].weight < 0
  /\ pc' = "thrown"
  /\ UNCHANGED <<graph, routes_internal_data_, loop>>

NextVertex ==
  /\ pc = "initialize" /\ vertex < VertexCount
  /\ next_edge > Len(IncidentEdges)
  /\ vertex' = vertex + 1 /\ next_edge' = 0
  /\ UNCHANGED <<graph, routes_internal_data_, pc, vertex_from, vertex_to>>

StartRelaxing ==
  /\ pc = "initialize" /\ vertex = VertexCount
  /\ pc' = IF VertexCount = 0 THEN "done" ELSE "relax"
  /\ vertex' = 0
  /\ UNCHANGED <<graph, routes_internal_data_, next_edge, vertex_from, vertex_to>>

-----------------------------------------------------------------------------
(* The heads of the three loops.                                           *)
NextRow ==
  /\ vertex_to' = 0
  /\ IF vertex_from + 1 < VertexCount
       THEN vertex_from' = vertex_from + 1 /\ UNCHANGED <<vertex, pc>>
       ELSE /\ vertex_from' = 0
            /\ vertex' = vertex + 1
            /\ pc' = IF vertex + 1 < VertexCount THEN pc ELSE "done"

NextCell ==
  IF vertex_to + 1 < VertexCount
    THEN vertex_to' = vertex_to + 1 /\ UNCHANGED <<vertex_from, vertex, pc>>
    ELSE NextRow

(* Mutant of SkipRow: without a first half only one cell is skipped.       *)
SkipCell ==
  /\ pc = "relax" /\ vertex_to = 0
  /\ Cell(vertex_from, vertex) = NoRoute
  /\ vertex_from' = (vertex_from + 2) % VertexCount
  /\ vertex_to' = 0
  /\ vertex' = IF vertex_from + 2 < VertexCount THEN vertex ELSE vertex + 1
  /\ pc' = IF vertex' < VertexCount THEN pc ELSE "done"
  /\ UNCHANGED <<graph, routes_internal_data_, next_edge>>

(* No route to the vertex gone through: the inner loop is not entered.     *)
SkipRow ==
  /\ pc = "relax" /\ vertex_to = 0
  /\ Cell(vertex_from, vertex) = NoRoute
  /\ NextRow
  /\ UNCHANGED <<graph, routes_internal_data_, next_edge>>

(* Mutant of RelaxRoute: the weight of the second half is forgotten.       *)
RelaxByFirstHalf ==
  /\ pc = "relax"
  /\ vertex_to > 0 \/ Cell(vertex_from, vertex) # NoRoute
  /\ LET route_from == Cell(vertex_from, vertex)
         route_to == Cell(vertex, vertex_to)
         route_relaxing == Cell(vertex_from, vertex_to)
     IN IF route_to # NoRoute
             /\ (route_relaxing = NoRoute \/ route_from.weight < route_relaxing.weight)
          THEN Write(vertex_from, vertex_to, [weight |-> route_from.weight,
                                              prev_edge |-> route_to.prev_edge])
          ELSE UNCHANGED routes_internal_data_
  /\ NextCell
  /\ UNCHANGED <<graph, next_edge>>

(* RelaxRoute.  The code holds references to the cells of the two halves,  *)
(* so both are read as they are now; one of them may be the cell written.  *)
RelaxRoute ==
  /\ pc = "relax"
  /\ vertex_to > 0 \/ Cell(vertex_from, vertex) # NoRoute
  /\ LET route_from == Cell(vertex_from, vertex)
         route_to == Cell(vertex, vertex_to)
         route_relaxing == Cell(vertex_from, vertex_to)
         candidate_weight == route_from.weight + route_to.weight
     IN IF route_to # NoRoute
             /\ (route_relaxing = NoRoute \/ candidate_weight < route_relaxing.weight)
          THEN Write(vertex_from, vertex_to,
                     [weight |-> candidate_weight,
                      prev_edge |-> IF route_to.prev_edge # NoEdge
                                      THEN route_to.prev_edge
                                      ELSE route_from.prev_edge])
          ELSE UNCHANGED routes_internal_data_
  /\ NextCell
  /\ UNCHANGED <<graph, next_edge>>

Next ==
  \/ InitializeVertex \/ InitializeEdge \/ ThrowNegativeWeight \/ NextVertex
  \/ StartRelaxing \/ SkipRow \/ RelaxRoute

Spec == Init /\ [][Next]_vars

-----------------------------------------------------------------------------
TypeOK ==
  /\ IsGraph(graph, VertexCount)
  /\ routes_internal_data_ \in [Vertex -> [Vertex -> Route \cup {NoRoute}]]
  /\ pc \in {"initialize", "relax", "done", "thrown"}
  /\ vertex \in 0 .. VertexCount
  /\ next_edge \in Nat
  /\ vertex_from \in Nat /\ vertex_to \in Nat
  /\ pc = "relax" => {vertex, vertex_from, vertex_to} \subseteq Vertex

(* While a pass goes through a vertex, the cells of routes to and from     *)
(* that vertex do not change.  They are what the references route_from and *)
(* route_to of the running loops refer to, and what makes a pass in place  *)
(* the same as one that reads a copy of the table.                         *)
HalvesStay ==
  [][pc = "relax" => \A v \in Vertex :
        /\ routes_internal_data_'[v][vertex] = Cell(v, vertex)
        /\ routes_internal_data_'[vertex][v] = Cell(vertex, v)]_vars

-----------------------------------------------------------------------------
(* The abstract table.  Between two passes it is the table; during a pass  *)
(* it is what the pass will have made of it, which relaxing the cells not  *)
(* yet reached shows.  Until the first loop is done there are no routes.   *)
PassBegun == pc = "relax" /\ (vertex_from > 0 \/ vertex_to > 0)

BarThrough ==
  IF pc \in {"initialize", "thrown"} THEN 0
  ELSE IF pc = "done" THEN VertexCount
  ELSE IF PassBegun THEN vertex + 1 ELSE vertex

BarPhase ==
  IF pc = "initialize" THEN "new" ELSE IF pc = "thrown" THEN "failed" ELSE "relaxing"

Pass == INSTANCE RouteTable WITH
  routes <- routes_internal_data_, through <- 0, phase <- "relaxing"

BarRoutes ==
  IF pc \in {"initialize", "thrown"} THEN Pass!NoRoutes
  ELSE IF PassBegun THEN Pass!Relaxed(routes_internal_data_, vertex)
  ELSE routes_internal_data_

Table == INSTANCE RouteTable WITH
  routes <- BarRoutes, through <- BarThrough, phase <- BarPhase

-----------------------------------------------------------------------------
(* The edges the first loop has looked at: none of them is negative.       *)
Seen ==
  {e \in EdgeIds(graph) : \/ graph.edges[e].from < vertex
                          \/ \E i \in 1 .. next_edge - 1 : IncidentEdges[i] = e}

(* The route is the first of the cheapest of these edges.                  *)
IsFirstCheapest(route, edge_ids) ==
  IF edge_ids = {} THEN route = NoRoute
  ELSE /\ route # NoRoute /\ route.prev_edge \in edge_ids
       /\ route.weight = graph.edges[route.prev_edge].weight
       /\ \A e \in edge_ids : \/ route.weight < graph.edges[e].weight
                              \/ route.weight = graph.edges[e].weight /\ route.prev_edge <= e

StandingStill == [weight |-> 0, prev_edge |-> NoEdge]

SeenBetween(from, to) ==
  {e \in Seen : graph.edges[e].from = from /\ graph.edges[e].to = to}

CellSoFar(v, t) ==
  IF v > vertex \/ (v = vertex /\ next_edge = 0) THEN Cell(v, t) = NoRoute
  ELSE IF v = t THEN Cell(v, t) = StandingStill
  ELSE IsFirstCheapest(Cell(v, t), SeenBetween(v, t))

InitializedSoFar ==
  pc = "initialize" =>
    /\ vertex_from = 0 /\ vertex_to = 0
    /\ vertex = VertexCount => next_edge = 0
    /\ vertex < VertexCount => next_edge <= Len(IncidentEdges) + 1
    /\ \A e \in Seen : graph.edges[e].weight >= 0
    /\ \A v, t \in Vertex : CellSoFar(v, t)

Passed(from, to) == from < vertex_from \/ (from = vertex_from /\ to < vertex_to)

(* A cell that the running pass has left is what relaxing it makes of it,  *)
(* although cells it was made of may have been written since.              *)
RelaxedSoFar ==
  /\ pc \in {"relax", "done"} => \A v \in Vertex : Cell(v, v) = StandingStill
  /\ pc = "relax" =>
       /\ vertex_to > 0 => Cell(vertex_from, vertex) # NoRoute
       /\ \A f, t \in Vertex : Passed(f, t) =>
            Pass!RelaxRoute(routes_internal_data_, vertex, f, t) = Cell(f, t)

(* What the loops keep, each as far as it has come: inductive, and what    *)
(* the refinement rests on.                                                *)
IInv == TypeOK /\ InitializedSoFar /\ RelaxedSoFar

(* Every construction is one RouteTable allows.                            *)
ImplementsRouteTable == Table!Spec
=============================================================================
