----------------------------- MODULE RouteTable -----------------------------
(***************************************************************************)
(* What graph::Router of src/TransportSystem/router.h promises while it is *)
(* constructed: a table of routes that is improved once per vertex, each   *)
(* time by allowing routes to go through that vertex too.                  *)
(*                                                                         *)
(* One step here is a whole pass of the code over its table, and the pass  *)
(* reads the table as it was before the pass.  The code updates the table  *)
(* in place, cell by cell, while it still reads it: module Router is that  *)
(* code, and implements this specification.                                *)
(***************************************************************************)
EXTENDS WeightedGraph

CONSTANTS
  VertexCount,   \* number of vertices of the graph
  NoRoute,       \* an empty optional<RouteInternalData>
  NoEdge         \* an empty optional<EdgeId>

ASSUME RouteTableAssumption ==
  /\ VertexCount \in Nat
  /\ NoEdge \notin Nat
  /\ NoRoute \notin Nat
  /\ NoRoute \notin [weight : Nat, prev_edge : Nat \cup {NoEdge}]

VARIABLES
  graph,    \* the graph, never changed
  routes,   \* from -> to -> the best route known, or NoRoute
  through,  \* the vertex the next pass goes through
  phase     \* "new", "relaxing", or "failed" once the constructor threw

vars == <<graph, routes, through, phase>>

Vertex == 0 .. VertexCount - 1
Route == [weight : Nat, prev_edge : EdgeIds(graph) \cup {NoEdge}]
Phase == {"new", "relaxing", "failed"}

-----------------------------------------------------------------------------
(* The edges from one vertex to another, and the first of the cheapest     *)
(* ones: a later edge replaces an earlier one only if it is cheaper.       *)
EdgesBetween(from, to) ==
  {e \in EdgeIds(graph) : graph.edges[e].from = from /\ graph.edges[e].to = to}

FirstCheapest(from, to) ==
  CHOOSE e \in EdgesBetween(from, to) : \A o \in EdgesBetween(from, to) :
    \/ graph.edges[e].weight < graph.edges[o].weight
    \/ graph.edges[e].weight = graph.edges[o].weight /\ e <= o

(* InitializeRoutesInternalData: standing still costs nothing and has no   *)
(* last edge; any other route is a single edge.                            *)
InitialRoute(from, to) ==
  IF from = to THEN [weight |-> 0, prev_edge |-> NoEdge]
  ELSE IF EdgesBetween(from, to) = {} THEN NoRoute
  ELSE LET e == FirstCheapest(from, to) IN
       [weight |-> graph.edges[e].weight, prev_edge |-> e]

(* Mutant of Joined: the last edge is taken from the first half.           *)
JoinedSwapped(route_from, route_to) ==
  [weight |-> route_from.weight + route_to.weight,
   prev_edge |-> IF route_from.prev_edge # NoEdge THEN route_from.prev_edge
                                                  ELSE route_to.prev_edge]

(* RelaxRoute: the route from -> through -> to, taken over a known route   *)
(* only if it is strictly cheaper.  Its last edge is the second half's, or *)
(* the first half's when the second half has none.                         *)
Joined(route_from, route_to) ==
  [weight |-> route_from.weight + route_to.weight,
   prev_edge |-> IF route_to.prev_edge # NoEdge THEN route_to.prev_edge
                                                ELSE route_from.prev_edge]

(* Mutant of Better: <= for <.                                             *)
BetterOrEqual(route, candidate) ==
  IF route = NoRoute \/ candidate.weight <= route.weight THEN candidate ELSE route

(* Mutant of Better: a route that is known is never improved.              *)
BetterIfNone(route, candidate) == IF route = NoRoute THEN candidate ELSE route

(* Mutant of Better: the weights are not compared.                         *)
BetterAlways(route, candidate) == candidate

Better(route, candidate) ==
  IF route = NoRoute \/ candidate.weight < route.weight THEN candidate ELSE route

RelaxRoute(table, v, from, to) ==
  IF table[from][v] = NoRoute \/ table[v][to] = NoRoute
    THEN table[from][to]
    ELSE Better(table[from][to], Joined(table[from][v], table[v][to]))

Relaxed(table, v) ==
  [from \in Vertex |-> [to \in Vertex |-> RelaxRoute(table, v, from, to)]]

-----------------------------------------------------------------------------
NoRoutes == [from \in Vertex |-> [to \in Vertex |-> NoRoute]]

Init ==
  /\ IsGraph(graph, VertexCount)
  /\ routes = NoRoutes
  /\ through = 0
  /\ phase = "new"

HasNegativeEdge == \E e \in EdgeIds(graph) : graph.edges[e].weight < 0

Initialize ==
  /\ phase = "new"
  /\ ~HasNegativeEdge
  /\ routes' = [from \in Vertex |-> [to \in Vertex |-> InitialRoute(from, to)]]
  /\ phase' = "relaxing"
  /\ UNCHANGED <<graph, through>>

(* "Edges' weights should be non-negative".                                *)
Throw ==
  /\ phase = "new"
  /\ HasNegativeEdge
  /\ phase' = "failed"
  /\ UNCHANGED <<graph, routes, through>>

RelaxThrough ==
  /\ phase = "relaxing"
  /\ through < VertexCount
  /\ routes' = Relaxed(routes, through)
  /\ through' = through + 1
  /\ UNCHANGED <<graph, phase>>

Next == Initialize \/ Throw \/ RelaxThrough

Spec == Init /\ [][Next]_vars

Built == phase = "relaxing" /\ through = VertexCount

-----------------------------------------------------------------------------
TypeOK ==
  /\ IsGraph(graph, VertexCount)
  /\ routes \in [Vertex -> [Vertex -> Route \cup {NoRoute}]]
  /\ through \in 0 .. VertexCount
  /\ phase \in Phase

(* Standing still stays free and edgeless through every pass.              *)
DiagonalFree ==
  phase = "relaxing" =>
    \A v \in Vertex : routes[v][v] = [weight |-> 0, prev_edge |-> NoEdge]

(* No edge beats the route between its ends.                               *)
NoEdgeBeats ==
  phase = "relaxing" =>
    \A e \in EdgeIds(graph) :
      LET route == routes[graph.edges[e].from][graph.edges[e].to] IN
      route # NoRoute /\ route.weight <= graph.edges[e].weight

(* The last edge of a route is an edge into its end, from a vertex that    *)
(* has a route of its own, and the route costs no less than that route and *)
(* the edge.  BuildRoute dereferences the route to that vertex without     *)
(* asking whether there is one.                                            *)
LastEdgeSound ==
  \A from, to \in Vertex :
    LET route == routes[from][to] IN
    (from # to /\ route # NoRoute) =>
      /\ route.prev_edge \in EdgeIds(graph)
      /\ LET edge == graph.edges[route.prev_edge] IN
         /\ edge.to = to
         /\ routes[from][edge.from] # NoRoute
         /\ route.weight >= routes[from][edge.from].weight + edge.weight

(* After the pass through v no detour through v is shorter, and passes     *)
(* through later vertices do not lose that.                                *)
ClosedThrough ==
  \A v \in 0 .. through - 1 : \A from, to \in Vertex :
    (routes[from][v] # NoRoute /\ routes[v][to] # NoRoute) =>
      /\ routes[from][to] # NoRoute
      /\ routes[from][to].weight <= routes[from][v].weight + routes[v][to].weight

(* A Router that is not built yet, or never will be, has no routes.        *)
NothingBeforeStart == phase # "relaxing" => routes = NoRoutes /\ through = 0

(* All of the above, which is inductive: ClosedThrough is kept by a pass   *)
(* only because the diagonal is free, and a candidate the pass takes only  *)
(* has a sound last edge because its halves have one.                      *)
IInv ==
  /\ TypeOK
  /\ NothingBeforeStart
  /\ DiagonalFree
  /\ NoEdgeBeats
  /\ LastEdgeSound
  /\ ClosedThrough

(* The reference.  From the weights d of the lightest walks of at most k   *)
(* edges come those of at most k + 1: a walk is lengthened by an edge, or  *)
(* is left as it is.  With non-negative weights VertexCount edges are      *)
(* enough for a shortest walk.                                             *)
WalkWeights(d, from, to) ==
  {d[from][graph.edges[e].from] + graph.edges[e].weight :
     e \in {e \in EdgeIds(graph) : /\ graph.edges[e].to = to
                                   /\ d[from][graph.edges[e].from] # NoRoute}}
    \cup ({d[from][to]} \ {NoRoute})

OneEdgeMore(d) ==
  LET Lightest(S) == CHOOSE x \in S : \A y \in S : x <= y IN
  [from \in Vertex |-> [to \in Vertex |->
     IF WalkWeights(d, from, to) = {} THEN NoRoute
                                      ELSE Lightest(WalkWeights(d, from, to))]]

WithoutEdges ==
  [from \in Vertex |-> [to \in Vertex |-> IF from = to THEN 0 ELSE NoRoute]]

Distances ==
  LET distance[k \in 0 .. VertexCount] ==
        IF k = 0 THEN WithoutEdges ELSE OneEdgeMore(distance[k - 1])
  IN distance[VertexCount]

(* The finished table holds a route exactly where there is a walk, and its *)
(* weight is the least a walk can have.                                    *)
ShortestWhenBuilt ==
  Built => \A from, to \in Vertex :
             IF routes[from][to] = NoRoute
               THEN Distances[from][to] = NoRoute
               ELSE routes[from][to].weight = Distances[from][to]

(* A pass never loses a route and never makes one longer, and a Router is  *)
(* never built over a negative edge.                                       *)
Improves ==
  phase = "relaxing" => \A from, to \in Vertex :
    routes[from][to] # NoRoute =>
      /\ routes'[from][to] # NoRoute
      /\ routes'[from][to].weight <= routes[from][to].weight

OnlyImproves == [][Improves]_vars
=============================================================================
