---------------------------- MODULE RouterProofs ----------------------------
(***************************************************************************)
(* Theorems about Router: for every graph and every number of vertices,    *)
(* the loops of the constructor, which write into the table they read,     *)
(* make the passes that RouteTable promises.                               *)
(***************************************************************************)
EXTENDS Router, TLAPS

Tables == [Vertex -> [Vertex -> Route \cup {NoRoute}]]

(* What IsGraph says of the edges and of the incidence lists.              *)
LEMMA GraphType ==
  ASSUME IsGraph(graph, VertexCount), NEW e \in EdgeIds(graph)
  PROVE  /\ e \in Nat
         /\ graph.edges[e].from \in Vertex
         /\ graph.edges[e].to \in Vertex
         /\ graph.edges[e].weight \in Int
<1>1. graph.edges \in Seq(Edge(VertexCount, Int))
  BY DEF IsGraph
<1>2. graph.edges[e] \in Edge(VertexCount, Int) /\ e \in Nat
  BY <1>1 DEF EdgeIds
<1> QED BY <1>2 DEF Edge, Vertex

LEMMA ListType ==
  ASSUME IsGraph(graph, VertexCount), NEW v \in Vertex
  PROVE  LET list == graph.incidence_lists[v] IN
         /\ list \in Seq(EdgeIds(graph))
         /\ Len(list) \in Nat
         /\ DOMAIN list = 1 .. Len(list)
         /\ \A i \in DOMAIN list : list[i] \in EdgeIds(graph) /\ graph.edges[list[i]].from = v
         /\ \A e \in EdgeIds(graph) :
              graph.edges[e].from = v => \E i \in DOMAIN list : list[i] = e
         /\ \A i, j \in DOMAIN list : i < j => list[i] < list[j]
<1> DEFINE list == graph.incidence_lists[v]
<1>1. list \in Seq(EdgeIds(graph))
  BY DEF IsGraph, Vertex, EdgeIds
<1>2. /\ \A e \in EdgeIds(graph) : graph.edges[e].from = v <=> \E i \in DOMAIN list : list[i] = e
      /\ \A i, j \in DOMAIN list : i < j => list[i] < list[j]
  BY DEF IsGraph, Vertex, EdgeIds
<1>3. Len(list) \in Nat /\ DOMAIN list = 1 .. Len(list)
      /\ \A i \in DOMAIN list : list[i] \in EdgeIds(graph)
  BY <1>1
<1> HIDE DEF list
<1>4. \A i \in DOMAIN list : graph.edges[list[i]].from = v
  BY <1>2, <1>3
<1>5. /\ list \in Seq(EdgeIds(graph))
      /\ Len(list) \in Nat
      /\ DOMAIN list = 1 .. Len(list)
      /\ \A i \in DOMAIN list : list[i] \in EdgeIds(graph) /\ graph.edges[list[i]].from = v
      /\ \A e \in EdgeIds(graph) :
           graph.edges[e].from = v => \E i \in DOMAIN list : list[i] = e
      /\ \A i, j \in DOMAIN list : i < j => list[i] < list[j]
  BY <1>1, <1>2, <1>3, <1>4
<1> QED BY <1>5 DEF list

LEMMA RouteFields ==
  ASSUME IsGraph(graph, VertexCount), NEW r \in Route
  PROVE  r # NoRoute /\ r.weight \in Nat /\ r.prev_edge \in EdgeIds(graph) \cup {NoEdge}
<1>1. EdgeIds(graph) \subseteq Nat
  BY GraphType
<1> QED BY <1>1, RouterAssumption DEF Route

LEMMA StandingIsRoute == StandingStill \in Route
BY DEF StandingStill, Route

-----------------------------------------------------------------------------
(* What relaxing a cell yields.                                            *)
LEMMA RelaxRouteCases ==
  ASSUME NEW T, NEW v, NEW f, NEW t
  PROVE  LET r == T[f][v]
             q == T[v][t]
             c == T[f][t]
             w == r.weight + q.weight
             j == [weight |-> w,
                   prev_edge |-> IF q.prev_edge # NoEdge THEN q.prev_edge ELSE r.prev_edge]
         IN Pass!RelaxRoute(T, v, f, t) =
              IF r = NoRoute \/ q = NoRoute THEN c
              ELSE IF c = NoRoute \/ w < c.weight THEN j ELSE c
BY DEF Pass!RelaxRoute, Pass!Better, Pass!Joined

LEMMA RelaxRouteType ==
  ASSUME IsGraph(graph, VertexCount), NEW T \in Tables,
         NEW v \in Vertex, NEW f \in Vertex, NEW t \in Vertex
  PROVE  Pass!RelaxRoute(T, v, f, t) \in Route \cup {NoRoute}
<1> DEFINE r == T[f][v]
           q == T[v][t]
           c == T[f][t]
           w == r.weight + q.weight
           j == [weight |-> w,
                 prev_edge |-> IF q.prev_edge # NoEdge THEN q.prev_edge ELSE r.prev_edge]
<1>1. r \in Route \cup {NoRoute} /\ q \in Route \cup {NoRoute} /\ c \in Route \cup {NoRoute}
  BY DEF Tables
<1>2. Pass!RelaxRoute(T, v, f, t) =
        IF r = NoRoute \/ q = NoRoute THEN c
        ELSE IF c = NoRoute \/ w < c.weight THEN j ELSE c
  BY RelaxRouteCases
<1>3. CASE r = NoRoute \/ q = NoRoute
  BY <1>1, <1>2, <1>3
<1>4. CASE r \in Route /\ q \in Route
  <2>1. /\ r.weight \in Nat /\ r.prev_edge \in EdgeIds(graph) \cup {NoEdge}
        /\ q.weight \in Nat /\ q.prev_edge \in EdgeIds(graph) \cup {NoEdge}
    BY <1>4, RouteFields
  <2> HIDE DEF r, q
  <2>2. j \in Route
    BY <2>1 DEF Route
  <2> QED BY <1>1, <1>2, <2>2
<1> QED BY <1>1, <1>3, <1>4

(* Writing the cell of one pair, with the diagonal free, changes nothing   *)
(* that the running pass reads, and relaxing after it gives what relaxing  *)
(* before it would have given.                                             *)
LEMMA CellRelaxed ==
  ASSUME IsGraph(graph, VertexCount), NEW T \in Tables,
         \A x \in Vertex : T[x][x] = StandingStill,
         NEW v \in Vertex, NEW f \in Vertex, NEW t \in Vertex, NEW S,
         S[f][t] = Pass!RelaxRoute(T, v, f, t),
         \A x, y \in Vertex : (x # f \/ y # t) => S[x][y] = T[x][y]
  PROVE  /\ \A x \in Vertex : S[x][x] = StandingStill
         /\ \A x \in Vertex : S[x][v] = T[x][v] /\ S[v][x] = T[v][x]
         /\ \A x, y \in Vertex : Pass!RelaxRoute(S, v, x, y) = Pass!RelaxRoute(T, v, x, y)
         /\ S[f][t] = Pass!RelaxRoute(S, v, f, t)
<1> DEFINE new == Pass!RelaxRoute(T, v, f, t)
           r == T[f][v]
           q == T[v][t]
           c == T[f][t]
           w == r.weight + q.weight
           j == [weight |-> w,
                 prev_edge |-> IF q.prev_edge # NoEdge THEN q.prev_edge ELSE r.prev_edge]
<1>1. new \in Route \cup {NoRoute}
  BY RelaxRouteType
<1>3. S[f][t] = new /\ \A x, y \in Vertex : (x # f \/ y # t) => S[x][y] = T[x][y]
  OBVIOUS
<1>4. /\ r \in Route \cup {NoRoute} /\ q \in Route \cup {NoRoute} /\ c \in Route \cup {NoRoute}
  BY DEF Tables
<1>5. new = IF r = NoRoute \/ q = NoRoute THEN c
            ELSE IF c = NoRoute \/ w < c.weight THEN j ELSE c
  BY RelaxRouteCases
<1>6. StandingStill # NoRoute /\ StandingStill.weight = 0
  BY RouteFields, StandingIsRoute DEF StandingStill
<1>7. (r # NoRoute => r.weight \in Nat) /\ (q # NoRoute => q.weight \in Nat)
      /\ (c # NoRoute => c.weight \in Nat)
  BY <1>4, RouteFields
<1>8. (t = v \/ f = v \/ f = t) => new = c
  <2>1. CASE t = v
    <3>1. q = StandingStill /\ r = c
      BY <2>1
    <3> HIDE DEF r, q, c, new
    <3> QED BY <3>1, <1>5, <1>6, <1>7
  <2>2. CASE f = v
    <3>1. r = StandingStill /\ q = c
      BY <2>2
    <3> HIDE DEF r, q, c, new
    <3> QED BY <3>1, <1>5, <1>6, <1>7
  <2>3. CASE f = t
    <3>1. c = StandingStill
      BY <2>3
    <3> HIDE DEF r, q, c, new
    <3> QED BY <3>1, <1>5, <1>6, <1>7
  <2> QED BY <2>1, <2>2, <2>3
<1>9. \A x \in Vertex : S[x][x] = T[x][x] /\ S[x][v] = T[x][v] /\ S[v][x] = T[v][x]
  BY <1>3, <1>8
<1>10. S[f][v] = r /\ S[v][t] = q
  BY <1>9
<1>11. Pass!RelaxRoute(S, v, f, t) = new
  <2>1. Pass!RelaxRoute(S, v, f, t) =
          IF r = NoRoute \/ q = NoRoute THEN new
          ELSE IF new = NoRoute \/ w < new.weight THEN j ELSE new
    BY <1>3, <1>10, RelaxRouteCases
  <2> HIDE DEF r, q, c, new
  <2> QED BY <2>1, <1>5, <1>7
<1>12. ASSUME NEW x \in Vertex, NEW y \in Vertex
       PROVE  Pass!RelaxRoute(S, v, x, y) = Pass!RelaxRoute(T, v, x, y)
  <2>1. CASE x = f /\ y = t
    BY <2>1, <1>11
  <2>2. CASE x # f \/ y # t
    <3>1. S[x][y] = T[x][y] /\ S[x][v] = T[x][v] /\ S[v][y] = T[v][y]
      BY <2>2, <1>3, <1>9
    <3> QED BY <3>1, RelaxRouteCases
  <2> QED BY <2>1, <2>2
<1> QED BY <1>3, <1>9, <1>11, <1>12

-----------------------------------------------------------------------------
(* The invariant holds at the start and every step keeps it.               *)
LEMMA InitInvariant == Init => IInv
<1> SUFFICES ASSUME Init PROVE IInv
  OBVIOUS
<1>1. TypeOK
  BY RouterAssumption DEF Init, TypeOK, Vertex
<1>2. Seen = {}
  <2>1. \A e \in EdgeIds(graph) : ~(graph.edges[e].from < 0)
    BY GraphType, <1>1, RouterAssumption DEF TypeOK, Vertex
  <2> QED BY <2>1 DEF Seen, Init
<1>3. \A v, t \in Vertex : CellSoFar(v, t)
  <2>1. \A v \in Vertex : v > vertex \/ (v = vertex /\ next_edge = 0)
    BY RouterAssumption DEF Init, Vertex
  <2> QED BY <2>1 DEF CellSoFar, Init, Cell
<1>4. vertex < VertexCount => next_edge <= Len(IncidentEdges) + 1
  <2> SUFFICES ASSUME vertex < VertexCount PROVE next_edge <= Len(IncidentEdges) + 1
    OBVIOUS
  <2>1. vertex \in Vertex
    BY RouterAssumption DEF Init, Vertex
  <2>2. Len(IncidentEdges) \in Nat
    BY <2>1, <1>1, ListType DEF TypeOK, IncidentEdges
  <2> QED BY <2>2 DEF Init
<1>5. InitializedSoFar /\ RelaxedSoFar
  BY <1>2, <1>3, <1>4 DEF Init, InitializedSoFar, RelaxedSoFar
<1> QED BY <1>1, <1>5 DEF IInv

LEMMA InitializeVertexKeeps == IInv /\ InitializeVertex => IInv'
<1> SUFFICES ASSUME IInv, InitializeVertex PROVE IInv'
  OBVIOUS
<1> USE DEF InitializeVertex
<1>0. TypeOK /\ InitializedSoFar /\ vertex \in Vertex /\ routes_internal_data_ \in Tables
  BY RouterAssumption DEF IInv, TypeOK, Vertex, Tables
<1>1. /\ routes_internal_data_' = [routes_internal_data_ EXCEPT ![vertex][vertex] = StandingStill]
      /\ UNCHANGED <<graph, pc, vertex, vertex_from, vertex_to>> /\ next_edge' = 1
  BY DEF Write, StandingStill
<1>2. /\ routes_internal_data_'[vertex][vertex] = StandingStill
      /\ \A x, y \in Vertex : (x # vertex \/ y # vertex) =>
           routes_internal_data_'[x][y] = routes_internal_data_[x][y]
  BY <1>0, <1>1 DEF Tables
<1>3. TypeOK'
  <2>1. routes_internal_data_' \in Tables
    BY <1>0, <1>1, StandingIsRoute DEF Tables
  <2> QED BY <1>0, <1>1, <2>1 DEF TypeOK, Tables, Route
<1>4. Seen' = Seen
  BY <1>1 DEF Seen, IncidentEdges
<1>5. ASSUME NEW v \in Vertex, NEW t \in Vertex
      PROVE  CellSoFar(v, t)'
  <2>1. CellSoFar(v, t)
    BY <1>0 DEF InitializedSoFar
  <2>2. CASE v # vertex
    <3>1. Cell(v, t)' = Cell(v, t)
      BY <1>2, <2>2 DEF Cell
    <3>2. SeenBetween(v, t)' = SeenBetween(v, t)
      BY <1>1, <1>4 DEF SeenBetween
    <3>3. IsFirstCheapest(Cell(v, t), SeenBetween(v, t))' = IsFirstCheapest(Cell(v, t), SeenBetween(v, t))
      BY <1>1, <3>1, <3>2 DEF IsFirstCheapest
    <3> QED BY <1>1, <2>1, <2>2, <3>1, <3>3 DEF CellSoFar
  <2>3. CASE v = vertex /\ v = t
    BY <1>0, <1>1, <1>2, <2>3 DEF CellSoFar, Cell, Vertex
  <2>4. CASE v = vertex /\ v # t
    <3>1. Cell(v, t)' = NoRoute
      BY <1>2, <2>1, <2>4 DEF Cell, CellSoFar
    <3>2. \A e \in Seen : graph.edges[e].from < vertex
      BY <1>0 DEF Seen, Vertex
    <3>3. SeenBetween(v, t)' = {}
      BY <1>0, <1>1, <1>4, <2>4, <3>2 DEF SeenBetween, Vertex
    <3> QED BY <1>0, <1>1, <2>4, <3>1, <3>3 DEF CellSoFar, IsFirstCheapest, Vertex
  <2> QED BY <2>2, <2>3, <2>4
<1>6. Len(IncidentEdges)' \in Nat
  BY <1>0, <1>1, ListType DEF TypeOK, IncidentEdges
<1>7. InitializedSoFar'
  <2>1. vertex' # VertexCount /\ vertex_from' = 0 /\ vertex_to' = 0
        /\ next_edge' <= Len(IncidentEdges)' + 1
    BY <1>0, <1>1, <1>6, RouterAssumption DEF InitializedSoFar, Vertex
  <2>2. \A e \in Seen' : graph'.edges[e].weight >= 0
    BY <1>0, <1>1, <1>4 DEF InitializedSoFar
  <2> QED BY <1>5, <2>1, <2>2 DEF InitializedSoFar
<1>8. RelaxedSoFar'
  BY <1>1 DEF RelaxedSoFar
<1> QED BY <1>3, <1>7, <1>8 DEF IInv

(* The edge the first loop is at is not among those it has seen, and has   *)
(* the greatest number of those that leave the vertex.                     *)
LEMMA NextEdgeIsNew ==
  ASSUME TypeOK, InitializedSoFar, pc = "initialize", vertex \in Vertex,
         next_edge \in DOMAIN IncidentEdges
  PROVE  LET edge_id == IncidentEdges[next_edge] IN
         /\ edge_id \in EdgeIds(graph)
         /\ graph.edges[edge_id].from = vertex
         /\ \A e \in Seen : graph.edges[e].from = vertex => e < edge_id
<1> DEFINE list == graph.incidence_lists[vertex]
<1>1. /\ Len(list) \in Nat /\ DOMAIN list = 1 .. Len(list)
      /\ \A i \in DOMAIN list : list[i] \in EdgeIds(graph) /\ graph.edges[list[i]].from = vertex
      /\ \A i, j \in DOMAIN list : i < j => list[i] < list[j]
  BY ListType DEF TypeOK
<1>2. IncidentEdges = list
  BY DEF IncidentEdges
<1> HIDE DEF list
<1>3. ASSUME NEW e \in Seen, graph.edges[e].from = vertex
      PROVE  e < list[next_edge]
  <2>1. PICK i \in 1 .. next_edge - 1 : list[i] = e
    BY <1>2, <1>3 DEF Seen, Vertex
  <2>2. i \in DOMAIN list /\ i < next_edge
    BY <1>1, <1>2, <2>1
  <2> QED BY <1>1, <1>2, <2>1, <2>2
<1> QED BY <1>1, <1>2, <1>3

LEMMA InitializeEdgeKeeps == IInv /\ InitializeEdge => IInv'
<1> SUFFICES ASSUME IInv, InitializeEdge PROVE IInv'
  OBVIOUS
<1> USE DEF InitializeEdge
<1> DEFINE edge_id == IncidentEdges[next_edge]
           edge == graph.edges[edge_id]
           old == Cell(vertex, edge.to)
           taken == [weight |-> edge.weight, prev_edge |-> edge_id]
<1>0. /\ TypeOK /\ InitializedSoFar /\ vertex \in Vertex /\ pc = "initialize"
      /\ routes_internal_data_ \in Tables /\ next_edge \in DOMAIN IncidentEdges
  BY RouterAssumption DEF IInv, TypeOK, Vertex, Tables
<1>1. /\ UNCHANGED <<graph, pc, vertex, vertex_from, vertex_to>> /\ next_edge' = next_edge + 1
      /\ edge.weight >= 0
      /\ \/ /\ old = NoRoute \/ old.weight > edge.weight
            /\ routes_internal_data_' = [routes_internal_data_ EXCEPT ![vertex][edge.to] = taken]
         \/ /\ ~(old = NoRoute \/ old.weight > edge.weight)
            /\ routes_internal_data_' = routes_internal_data_
  BY DEF Write
<1>2. /\ edge_id \in EdgeIds(graph) /\ edge.from = vertex
      /\ \A e \in Seen : graph.edges[e].from = vertex => e < edge_id
  BY <1>0, NextEdgeIsNew
<1>3. /\ edge_id \in Nat /\ edge.to \in Vertex /\ edge.weight \in Nat
      /\ \A e \in EdgeIds(graph) : e \in Nat /\ graph.edges[e].weight \in Int
  <2>1. edge_id \in Nat /\ edge.to \in Vertex /\ edge.weight \in Int
    BY <1>0, <1>2, GraphType DEF TypeOK
  <2>2. \A e \in EdgeIds(graph) : e \in Nat /\ graph.edges[e].weight \in Int
    BY <1>0, GraphType DEF TypeOK
  <2> QED BY <1>1, <2>1, <2>2
<1>4. Seen' = Seen \cup {edge_id}
  <2>1. next_edge \in Nat /\ next_edge >= 1 /\ next_edge <= Len(IncidentEdges)
    BY <1>0, ListType, SMTT(20) DEF TypeOK, IncidentEdges
  <2>2. 1 .. next_edge' - 1 = (1 .. next_edge - 1) \cup {next_edge}
    BY <1>1, <2>1
  <2>3. IncidentEdges' = IncidentEdges
    BY <1>1 DEF IncidentEdges
  <2> HIDE DEF edge_id, edge, old, taken
  <2>4. Seen' = {e \in EdgeIds(graph) :
                   \/ graph.edges[e].from < vertex
                   \/ \E i \in (1 .. next_edge - 1) \cup {next_edge} : IncidentEdges[i] = e}
    BY <1>1, <2>2, <2>3 DEF Seen
  <2> QED BY <1>2, <2>4 DEF Seen, edge_id
<1>5. taken \in Route
  BY <1>2, <1>3 DEF Route
<1>6. /\ taken # NoRoute /\ StandingStill # NoRoute /\ StandingStill.weight = 0
      /\ old # NoRoute => old \in Route /\ old.weight \in Nat
  <2>1. old \in Route \cup {NoRoute}
    BY <1>0, <1>3 DEF Tables, Cell
  <2> QED BY <1>0, <1>5, <2>1, RouteFields, StandingIsRoute DEF TypeOK, StandingStill
<1>7. TypeOK'
  <2>1. routes_internal_data_' \in Tables
    BY <1>0, <1>1, <1>3, <1>5 DEF Tables
  <2>2. next_edge' \in Nat
    BY <1>0, <1>1 DEF TypeOK
  <2> QED BY <1>0, <1>1, <2>1, <2>2 DEF TypeOK, Tables, Route
<1>8. \A x, y \in Vertex : (x # vertex \/ y # edge.to) =>
        routes_internal_data_'[x][y] = routes_internal_data_[x][y]
  BY <1>0, <1>1, <1>3 DEF Tables
<1>9. routes_internal_data_'[vertex][edge.to] =
        IF old = NoRoute \/ old.weight > edge.weight THEN taken ELSE old
  BY <1>0, <1>1, <1>3, SMTT(30) DEF Tables, Cell
<1>10. next_edge > 0 /\ next_edge' > 0
  <2>1. next_edge >= 1 /\ next_edge \in Nat
    BY <1>0, ListType, SMTT(30) DEF TypeOK, IncidentEdges
  <2> QED BY <1>1, <2>1
<1>11. ASSUME NEW v \in Vertex, NEW t \in Vertex
       PROVE  CellSoFar(v, t)'
  <2>1. CellSoFar(v, t)
    BY <1>0 DEF InitializedSoFar
  <2>2. CASE v # vertex \/ t # edge.to
    <3>1. Cell(v, t)' = Cell(v, t)
      BY <1>8, <2>2 DEF Cell
    <3>2. SeenBetween(v, t)' = SeenBetween(v, t)
      BY <1>1, <1>2, <1>4, <2>2 DEF SeenBetween
    <3>3. IsFirstCheapest(Cell(v, t), SeenBetween(v, t))' = IsFirstCheapest(Cell(v, t), SeenBetween(v, t))
      BY <1>1, <3>1, <3>2 DEF IsFirstCheapest
    <3>4. (v > vertex \/ (v = vertex /\ next_edge' = 0)) <=> (v > vertex \/ (v = vertex /\ next_edge = 0))
      BY <1>10
    <3> QED BY <1>1, <2>1, <3>1, <3>3, <3>4 DEF CellSoFar
  <2>3. CASE v = vertex /\ t = edge.to /\ v = t
    <3>1. old = StandingStill
      BY <1>0, <1>10, <2>1, <2>3 DEF CellSoFar, Vertex
    <3> HIDE DEF edge_id, edge, old, taken
    <3>2. Cell(v, t)' = StandingStill
      BY <1>3, <1>6, <1>9, <2>3, <3>1 DEF Cell
    <3> QED BY <1>0, <1>1, <1>10, <2>3, <3>2, SMTT(30) DEF CellSoFar, Vertex
  <2>4. CASE v = vertex /\ t = edge.to /\ v # t
    <3> DEFINE seen == SeenBetween(v, t)
               new == Cell(v, t)'
    <3>1. SeenBetween(v, t)' = seen \cup {edge_id}
      BY <1>1, <1>2, <1>4, <2>4 DEF SeenBetween
    <3>2. IsFirstCheapest(old, seen)
      BY <1>0, <1>10, <2>1, <2>4 DEF CellSoFar, Vertex
    <3>3. \A e \in seen : e < edge_id /\ e \in EdgeIds(graph)
      BY <1>2, <2>4 DEF SeenBetween, Seen
    <3>4. new = IF old = NoRoute \/ old.weight > edge.weight THEN taken ELSE old
      BY <1>9, <2>4 DEF Cell
    <3>5. /\ new.prev_edge \in seen \cup {edge_id}
          /\ new.weight = graph.edges[new.prev_edge].weight
          /\ \A e \in seen \cup {edge_id} :
               \/ new.weight < graph.edges[e].weight
               \/ new.weight = graph.edges[e].weight /\ new.prev_edge <= e
      <4>1. CASE seen = {}
        <5>1. new = taken
          BY <3>2, <3>4, <4>1 DEF IsFirstCheapest
        <5> QED BY <1>3, <4>1, <5>1
      <4>2. CASE seen # {}
        <5>0. old.prev_edge \in EdgeIds(graph) /\ old.prev_edge \in Nat /\ old.weight \in Int
          BY <1>3, <3>2, <3>3, <4>2 DEF IsFirstCheapest
        <5>1. /\ old.prev_edge \in seen
              /\ old.weight = graph.edges[old.prev_edge].weight
              /\ \A e \in seen : \/ old.weight < graph.edges[e].weight
                                 \/ old.weight = graph.edges[e].weight /\ old.prev_edge <= e
          BY <3>2, <4>2 DEF IsFirstCheapest
        <5>2. old # NoRoute
          BY <3>2, <4>2 DEF IsFirstCheapest
        <5>3. CASE old.weight > edge.weight
          <6>1. new = taken
            BY <3>4, <5>3
          <6>2. \A e \in seen : taken.weight < graph.edges[e].weight
            <7> SUFFICES ASSUME NEW e \in seen PROVE edge.weight < graph.edges[e].weight
              OBVIOUS
            <7>a. e \in EdgeIds(graph)
              BY <3>3, Zenon
            <7>b. graph.edges[e].weight \in Int
              BY <1>3, <7>a, Zenon
            <7>c. old.weight < graph.edges[e].weight \/ old.weight = graph.edges[e].weight
              BY <5>1, Zenon
            <7>1. graph.edges[e].weight \in Int /\ old.weight <= graph.edges[e].weight
              BY <5>0, <7>b, <7>c
            <7> HIDE DEF old, edge, seen
            <7> QED BY <1>3, <5>0, <5>3, <7>1
          <6> HIDE DEF seen, new
          <6> QED BY <1>3, <6>1, <6>2
        <5>4. CASE ~(old.weight > edge.weight)
          <6>1. new = old
            BY <3>4, <5>2, <5>4
          <6>2. \/ old.weight < edge.weight
                \/ old.weight = edge.weight /\ old.prev_edge <= edge_id
            <7>1. old.prev_edge < edge_id
              BY <3>3, <5>1
            <7> HIDE DEF old, edge, edge_id
            <7> QED BY <1>3, <5>0, <5>4, <7>1
          <6> HIDE DEF seen, new, old
          <6> QED BY <5>1, <6>1, <6>2
        <5> QED BY <5>3, <5>4
      <4> QED BY <4>1, <4>2
    <3>6. new # NoRoute
      BY <1>6, <3>4
    <3>7. IsFirstCheapest(Cell(v, t), SeenBetween(v, t))'
      <4> HIDE DEF seen, new, edge_id
      <4>1. SeenBetween(v, t)' # {}
        BY <3>1
      <4>2. /\ new # NoRoute /\ new.prev_edge \in SeenBetween(v, t)'
            /\ new.weight = graph'.edges[new.prev_edge].weight
            /\ \A e \in SeenBetween(v, t)' :
               \/ new.weight < graph'.edges[e].weight
               \/ new.weight = graph'.edges[e].weight /\ new.prev_edge <= e
        BY <1>1, <3>1, <3>5, <3>6
      <4> QED BY <4>1, <4>2 DEF IsFirstCheapest, new
    <3> QED BY <1>0, <1>1, <1>10, <2>4, <3>7 DEF CellSoFar, Vertex
  <2> QED BY <2>2, <2>3, <2>4
<1>12. InitializedSoFar'
  <2>1. next_edge' <= Len(IncidentEdges)' + 1
    <3>1. IncidentEdges' = IncidentEdges
      BY <1>1 DEF IncidentEdges
    <3>2. next_edge <= Len(IncidentEdges) /\ next_edge \in Nat /\ Len(IncidentEdges) \in Nat
      BY <1>0, ListType DEF TypeOK, IncidentEdges
    <3> QED BY <1>1, <3>1, <3>2
  <2>2. \A e \in Seen' : graph'.edges[e].weight >= 0
    BY <1>0, <1>1, <1>3, <1>4 DEF InitializedSoFar
  <2>3. vertex' # VertexCount /\ vertex_from' = 0 /\ vertex_to' = 0
    BY <1>0, <1>1, RouterAssumption DEF InitializedSoFar, Vertex
  <2> QED BY <1>11, <2>1, <2>2, <2>3 DEF InitializedSoFar
<1>13. RelaxedSoFar'
  BY <1>0, <1>1 DEF RelaxedSoFar
<1> QED BY <1>7, <1>12, <1>13 DEF IInv

LEMMA NextVertexKeeps == IInv /\ NextVertex => IInv'
<1> SUFFICES ASSUME IInv, NextVertex PROVE IInv'
  OBVIOUS
<1> USE DEF NextVertex
<1>0. /\ TypeOK /\ InitializedSoFar /\ vertex \in Vertex /\ vertex \in Nat
      /\ next_edge \in Nat
  BY RouterAssumption DEF IInv, TypeOK, Vertex
<1>1. /\ UNCHANGED <<graph, routes_internal_data_, pc, vertex_from, vertex_to>>
      /\ vertex' = vertex + 1 /\ next_edge' = 0
  OBVIOUS
<1>2. Len(IncidentEdges) \in Nat /\ next_edge = Len(IncidentEdges) + 1
  <2>1. Len(IncidentEdges) \in Nat
    BY <1>0, ListType DEF TypeOK, IncidentEdges
  <2>2. next_edge <= Len(IncidentEdges) + 1
    BY <1>0, RouterAssumption DEF InitializedSoFar
  <2> QED BY <1>0, <2>1, <2>2
<1>3. \A e \in EdgeIds(graph) : graph.edges[e].from \in Nat
  BY <1>0, GraphType DEF TypeOK, Vertex
<1>4. Seen' = Seen
  <2>1. \A e \in EdgeIds(graph) :
           (\E i \in 1 .. next_edge - 1 : IncidentEdges[i] = e) <=> graph.edges[e].from = vertex
    <3>1. DOMAIN IncidentEdges = 1 .. next_edge - 1
      BY <1>0, <1>2, ListType DEF TypeOK, IncidentEdges
    <3> QED BY <1>0, <3>1, ListType DEF TypeOK, IncidentEdges
  <2>2. Seen = {e \in EdgeIds(graph) : graph.edges[e].from < vertex + 1}
    BY <1>0, <1>3, <2>1 DEF Seen
  <2>3. 1 .. next_edge' - 1 = {}
    BY <1>1
  <2> QED BY <1>1, <2>2, <2>3 DEF Seen
<1>5. TypeOK'
  BY <1>0, <1>1, RouterAssumption DEF TypeOK, Vertex, Route
<1>6. ASSUME NEW v \in Vertex, NEW t \in Vertex
      PROVE  CellSoFar(v, t)'
  <2>1. CellSoFar(v, t) /\ v \in Nat
    BY <1>0 DEF InitializedSoFar, Vertex
  <2>2. (v > vertex' \/ (v = vertex' /\ next_edge' = 0)) <=> (v > vertex \/ (v = vertex /\ next_edge = 0))
    BY <1>0, <1>1, <1>2, <2>1
  <2>3. Cell(v, t)' = Cell(v, t) /\ SeenBetween(v, t)' = SeenBetween(v, t)
    BY <1>1, <1>4 DEF Cell, SeenBetween
  <2>4. IsFirstCheapest(Cell(v, t), SeenBetween(v, t))' = IsFirstCheapest(Cell(v, t), SeenBetween(v, t))
    BY <1>1, <2>3 DEF IsFirstCheapest
  <2> QED BY <2>1, <2>2, <2>3, <2>4 DEF CellSoFar
<1>7. InitializedSoFar'
  <2>1. \A e \in Seen' : graph'.edges[e].weight >= 0
    BY <1>0, <1>1, <1>4 DEF InitializedSoFar
  <2>2. vertex' < VertexCount => Len(IncidentEdges)' \in Nat
    <3> SUFFICES ASSUME vertex' < VertexCount PROVE Len(IncidentEdges)' \in Nat
      OBVIOUS
    <3>1. vertex + 1 \in Vertex
      BY <1>0, <1>1, RouterAssumption DEF Vertex
    <3>2. Len(graph.incidence_lists[vertex + 1]) \in Nat
      BY <1>0, <3>1, ListType DEF TypeOK
    <3> QED BY <1>1, <3>2 DEF IncidentEdges
  <2>3. vertex_from' = 0 /\ vertex_to' = 0
    BY <1>0, <1>1 DEF InitializedSoFar
  <2>4. vertex' < VertexCount => next_edge' <= Len(IncidentEdges)' + 1
    BY <1>1, <2>2
  <2> QED BY <1>1, <1>6, <2>1, <2>3, <2>4 DEF InitializedSoFar
<1>8. RelaxedSoFar'
  BY <1>1 DEF RelaxedSoFar
<1> QED BY <1>5, <1>7, <1>8 DEF IInv

LEMMA ThrowKeeps == IInv /\ ThrowNegativeWeight => IInv'
<1> SUFFICES ASSUME IInv, ThrowNegativeWeight PROVE IInv'
  OBVIOUS
<1>1. TypeOK'
  BY DEF IInv, ThrowNegativeWeight, TypeOK, loop, Route
<1>2. InitializedSoFar' /\ RelaxedSoFar'
  BY DEF ThrowNegativeWeight, InitializedSoFar, RelaxedSoFar
<1> QED BY <1>1, <1>2 DEF IInv

(* When the first loop is done it has seen every edge, and each cell is    *)
(* what RouteTable initializes it with.                                    *)
LEMMA AllSeen ==
  ASSUME IInv, pc = "initialize", vertex = VertexCount
  PROVE  /\ Seen = EdgeIds(graph)
         /\ \A e \in EdgeIds(graph) : graph.edges[e].weight >= 0
         /\ \A v, t \in Vertex : Cell(v, t) = Pass!InitialRoute(v, t)
<1>0. TypeOK /\ InitializedSoFar
  BY DEF IInv
<1>1. Seen = EdgeIds(graph)
  <2>1. \A e \in EdgeIds(graph) : graph.edges[e].from < vertex
    BY <1>0, GraphType, RouterAssumption DEF TypeOK, Vertex
  <2> QED BY <2>1 DEF Seen
<1>2. \A e \in EdgeIds(graph) : graph.edges[e].weight >= 0
  BY <1>0, <1>1 DEF InitializedSoFar
<1>3. ASSUME NEW v \in Vertex, NEW t \in Vertex
      PROVE  Cell(v, t) = Pass!InitialRoute(v, t)
  <2> DEFINE es == SeenBetween(v, t)
             c == Cell(v, t)
  <2>1. CellSoFar(v, t) /\ ~(v > vertex \/ (v = vertex /\ next_edge = 0))
    BY <1>0, RouterAssumption DEF InitializedSoFar, Vertex
  <2>2. Pass!EdgesBetween(v, t) = es
    BY <1>1 DEF Pass!EdgesBetween, SeenBetween, Pass!EdgeIds, EdgeIds
  <2>3. CASE v = t
    BY <2>1, <2>3 DEF CellSoFar, StandingStill, Pass!InitialRoute
  <2>4. CASE v # t /\ es = {}
    BY <2>1, <2>2, <2>4 DEF CellSoFar, IsFirstCheapest, Pass!InitialRoute
  <2>5. CASE v # t /\ es # {}
    <3> DEFINE W(e) == graph.edges[e].weight
               Is(e) == \A o \in es : W(e) < W(o) \/ (W(e) = W(o) /\ e <= o)
    <3>1. c # NoRoute /\ c.prev_edge \in es /\ c.weight = W(c.prev_edge) /\ Is(c.prev_edge)
      BY <2>1, <2>5 DEF CellSoFar, IsFirstCheapest
    <3>2. \A e \in es : e \in Nat /\ W(e) \in Int
      BY <1>0, GraphType DEF SeenBetween, Seen, TypeOK
    <3>3. Pass!FirstCheapest(v, t) = CHOOSE e \in es : Is(e)
      BY <2>2 DEF Pass!FirstCheapest
    <3>4. \A e, o \in es : Is(e) /\ Is(o) => e = o
      BY <3>2
    <3>5. Pass!FirstCheapest(v, t) = c.prev_edge
      <4> HIDE DEF es, Is, c
      <4> QED BY <3>1, <3>3, <3>4
    <3>6. c \in Route
      BY <1>0, <3>1 DEF TypeOK, Cell
    <3>7. c = [weight |-> W(c.prev_edge), prev_edge |-> c.prev_edge]
      <4>1. c = [weight |-> c.weight, prev_edge |-> c.prev_edge]
        BY <3>6 DEF Route
      <4> QED BY <3>1, <4>1
    <3> QED BY <2>2, <2>5, <3>5, <3>7 DEF Pass!InitialRoute
  <2> QED BY <2>3, <2>4, <2>5
<1> QED BY <1>1, <1>2, <1>3

LEMMA StartRelaxingKeeps == IInv /\ StartRelaxing => IInv'
<1> SUFFICES ASSUME IInv, StartRelaxing PROVE IInv'
  OBVIOUS
<1> USE DEF StartRelaxing
<1>0. TypeOK /\ InitializedSoFar /\ vertex_from = 0 /\ vertex_to = 0
  BY DEF IInv, InitializedSoFar
<1>1. TypeOK'
  BY <1>0, RouterAssumption DEF TypeOK, Vertex, Route
<1>2. \A v \in Vertex : Cell(v, v)' = StandingStill
  BY AllSeen DEF Cell, Pass!InitialRoute, StandingStill
<1>3. \A f, t \in Vertex : ~Passed(f, t)'
  BY <1>0, RouterAssumption DEF Passed, Vertex
<1>4. InitializedSoFar' /\ RelaxedSoFar'
  BY <1>0, <1>2, <1>3 DEF InitializedSoFar, RelaxedSoFar
<1> QED BY <1>1, <1>4 DEF IInv

-----------------------------------------------------------------------------
(* A step of the running pass.                                             *)
LEMMA RelaxStep ==
  ASSUME IInv, RelaxRoute
  PROVE  /\ {vertex, vertex_from, vertex_to} \subseteq Vertex
         /\ Cell(vertex_from, vertex) # NoRoute
         /\ routes_internal_data_' = [routes_internal_data_ EXCEPT ![vertex_from][vertex_to] =
              Pass!RelaxRoute(routes_internal_data_, vertex, vertex_from, vertex_to)]
<1> DEFINE T == routes_internal_data_
           r == T[vertex_from][vertex]
           q == T[vertex][vertex_to]
           c == T[vertex_from][vertex_to]
           w == r.weight + q.weight
           j == [weight |-> w,
                 prev_edge |-> IF q.prev_edge # NoEdge THEN q.prev_edge ELSE r.prev_edge]
<1>1. /\ vertex \in Vertex /\ vertex_from \in Vertex /\ vertex_to \in Vertex
      /\ T \in Tables
  BY DEF IInv, TypeOK, RelaxRoute, Tables
<1>2. r # NoRoute
  BY <1>1 DEF IInv, RelaxedSoFar, RelaxRoute, Cell, Vertex
<1>3. Pass!RelaxRoute(T, vertex, vertex_from, vertex_to) =
        IF r = NoRoute \/ q = NoRoute THEN c
        ELSE IF c = NoRoute \/ w < c.weight THEN j ELSE c
  BY RelaxRouteCases
<1>4. T = [T EXCEPT ![vertex_from][vertex_to] = c]
  BY <1>1 DEF Tables
<1>5. CASE q # NoRoute /\ (c = NoRoute \/ w < c.weight)
  <2>1. T' = [T EXCEPT ![vertex_from][vertex_to] = j]
    BY <1>5 DEF RelaxRoute, Write, Cell
  <2>2. Pass!RelaxRoute(T, vertex, vertex_from, vertex_to) = j
    BY <1>2, <1>3, <1>5
  <2> QED BY <1>1, <1>2, <2>1, <2>2 DEF Cell
<1>6. CASE ~(q # NoRoute /\ (c = NoRoute \/ w < c.weight))
  <2>1. T' = T
    BY <1>6 DEF RelaxRoute, Write, Cell
  <2>2. Pass!RelaxRoute(T, vertex, vertex_from, vertex_to) = c
    BY <1>2, <1>3, <1>6
  <2> QED BY <1>1, <1>2, <1>4, <2>1, <2>2 DEF Cell
<1> QED BY <1>5, <1>6

LEMMA TableStep ==
  ASSUME IInv, SkipRow \/ RelaxRoute
  PROVE  LET T == routes_internal_data_
             S == routes_internal_data_'
         IN /\ S \in Tables /\ graph' = graph
            /\ \A x \in Vertex : S[x][x] = StandingStill
            /\ \A x \in Vertex : S[x][vertex] = T[x][vertex] /\ S[vertex][x] = T[vertex][x]
            /\ \A x, y \in Vertex :
                 Pass!RelaxRoute(S, vertex, x, y) = Pass!RelaxRoute(T, vertex, x, y)
            /\ \A x, y \in Vertex :
                 Passed(x, y) \/ (x = vertex_from /\ (y = vertex_to \/ SkipRow)) =>
                   Pass!RelaxRoute(S, vertex, x, y) = S[x][y]
<1> DEFINE T == routes_internal_data_
           S == routes_internal_data_'
<1>1. /\ vertex \in Vertex /\ vertex_from \in Vertex /\ vertex_to \in Vertex
      /\ T \in Tables /\ graph' = graph /\ IsGraph(graph, VertexCount)
      /\ \A x \in Vertex : T[x][x] = StandingStill
      /\ \A x, y \in Vertex : Passed(x, y) => Pass!RelaxRoute(T, vertex, x, y) = T[x][y]
  BY DEF IInv, TypeOK, RelaxRoute, SkipRow, Tables, RelaxedSoFar, Cell
<1>2. CASE SkipRow
  <2>1. S = T /\ T[vertex_from][vertex] = NoRoute
    BY <1>2 DEF SkipRow, Cell
  <2>2. \A y \in Vertex : Pass!RelaxRoute(T, vertex, vertex_from, y) = T[vertex_from][y]
    BY <2>1, RelaxRouteCases
  <2> HIDE DEF T, S
  <2> QED BY <1>1, <2>1, <2>2 DEF T, S
<1>3. CASE RelaxRoute
  <2>1. S = [T EXCEPT ![vertex_from][vertex_to] =
               Pass!RelaxRoute(T, vertex, vertex_from, vertex_to)]
    BY <1>3, RelaxStep
  <2>2. /\ S \in Tables
        /\ S[vertex_from][vertex_to] = Pass!RelaxRoute(T, vertex, vertex_from, vertex_to)
        /\ \A x, y \in Vertex : (x # vertex_from \/ y # vertex_to) => S[x][y] = T[x][y]
    <3>1. Pass!RelaxRoute(T, vertex, vertex_from, vertex_to) \in Route \cup {NoRoute}
      BY <1>1, RelaxRouteType
    <3> HIDE DEF T, S
    <3> QED BY <1>1, <2>1, <3>1 DEF Tables
  <2>5. /\ \A x \in Vertex : S[x][x] = StandingStill
        /\ \A x \in Vertex : S[x][vertex] = T[x][vertex] /\ S[vertex][x] = T[vertex][x]
        /\ \A x, y \in Vertex :
             Pass!RelaxRoute(S, vertex, x, y) = Pass!RelaxRoute(T, vertex, x, y)
        /\ S[vertex_from][vertex_to] = Pass!RelaxRoute(S, vertex, vertex_from, vertex_to)
    <3> HIDE DEF T, S
    <3> QED BY <1>1, <2>2, CellRelaxed
  <2>3. ~SkipRow
    BY <1>3, RelaxStep DEF SkipRow
  <2>4. ASSUME NEW x \in Vertex, NEW y \in Vertex,
               Passed(x, y) \/ (x = vertex_from /\ y = vertex_to)
        PROVE  Pass!RelaxRoute(S, vertex, x, y) = S[x][y]
    <3>1. CASE x = vertex_from /\ y = vertex_to
      BY <2>5, <3>1
    <3>2. CASE x # vertex_from \/ y # vertex_to
      BY <1>1, <2>2, <2>4, <2>5, <3>2
    <3> QED BY <3>1, <3>2
  <2> QED BY <1>1, <2>2, <2>3, <2>4, <2>5
<1> QED BY <1>2, <1>3

(* Where the loops go next: to a cell of the same pass, all cells before   *)
(* which are passed, or, when all cells are passed, to the next pass.      *)
LEMMA Advance ==
  ASSUME IInv, SkipRow \/ RelaxRoute
  PROVE  \/ /\ pc' = "relax" /\ vertex' = vertex
            /\ vertex_from' \in Vertex /\ vertex_to' \in Vertex
            /\ vertex_from' > 0 \/ vertex_to' > 0
            /\ vertex_to' > 0 => vertex_from' = vertex_from /\ ~SkipRow
            /\ \A x, y \in Vertex : Passed(x, y)' =>
                 Passed(x, y) \/ (x = vertex_from /\ (y = vertex_to \/ SkipRow))
         \/ /\ vertex' = vertex + 1 /\ vertex_from' = 0 /\ vertex_to' = 0
            /\ pc' = IF vertex + 1 < VertexCount THEN "relax" ELSE "done"
            /\ \A x, y \in Vertex :
                 Passed(x, y) \/ (x = vertex_from /\ (y = vertex_to \/ SkipRow))
<1>1. /\ vertex \in Vertex /\ vertex_from \in Vertex /\ vertex_to \in Vertex
      /\ VertexCount \in Nat /\ pc = "relax"
  BY RouterAssumption DEF IInv, TypeOK, RelaxRoute, SkipRow
<1>2. RelaxRoute => ~SkipRow
  BY RelaxStep DEF SkipRow
<1>3. CASE RelaxRoute /\ vertex_to + 1 < VertexCount
  <2>1. /\ vertex_to' = vertex_to + 1 /\ UNCHANGED <<vertex_from, vertex, pc>>
    BY <1>3 DEF RelaxRoute, NextCell
  <2>2. \A x, y \in Vertex : Passed(x, y)' => Passed(x, y) \/ (x = vertex_from /\ y = vertex_to)
    BY <1>1, <2>1 DEF Passed, Vertex
  <2> QED BY <1>1, <1>2, <1>3, <2>1, <2>2 DEF Vertex
<1>4. CASE SkipRow \/ (RelaxRoute /\ ~(vertex_to + 1 < VertexCount))
  <2>1. NextRow
    BY <1>4 DEF SkipRow, RelaxRoute, NextCell
  <2>2. \A y \in Vertex : y < vertex_to \/ y = vertex_to \/ SkipRow
    BY <1>1, <1>4 DEF Vertex
  <2>3. CASE vertex_from + 1 < VertexCount
    <3>1. vertex_to' = 0 /\ vertex_from' = vertex_from + 1 /\ UNCHANGED <<vertex, pc>>
      BY <2>1, <2>3 DEF NextRow
    <3>2. \A x, y \in Vertex : Passed(x, y)' =>
             Passed(x, y) \/ (x = vertex_from /\ (y = vertex_to \/ SkipRow))
      BY <1>1, <2>2, <3>1 DEF Passed, Vertex
    <3>3. 0 \in Vertex /\ vertex_from' \in Vertex /\ vertex_from' > 0
      BY <1>1, <2>3, <3>1 DEF Vertex
    <3> QED BY <1>1, <3>1, <3>2, <3>3
  <2>4. CASE ~(vertex_from + 1 < VertexCount)
    <3>1. /\ vertex_to' = 0 /\ vertex_from' = 0 /\ vertex' = vertex + 1
          /\ pc' = IF vertex + 1 < VertexCount THEN "relax" ELSE "done"
      BY <1>1, <2>1, <2>4 DEF NextRow
    <3>2. \A x, y \in Vertex : Passed(x, y) \/ (x = vertex_from /\ (y = vertex_to \/ SkipRow))
      BY <1>1, <2>2, <2>4 DEF Passed, Vertex
    <3> QED BY <3>1, <3>2
  <2> QED BY <2>3, <2>4
<1> QED BY <1>3, <1>4

LEMMA PassStepKeeps ==
  ASSUME IInv, SkipRow \/ RelaxRoute
  PROVE  IInv'
<1> DEFINE S == routes_internal_data_'
<1>1. /\ S \in Tables /\ graph' = graph
      /\ \A x \in Vertex : S[x][x] = StandingStill
      /\ \A x \in Vertex : S[x][vertex] = Cell(x, vertex)
      /\ \A x, y \in Vertex :
           Passed(x, y) \/ (x = vertex_from /\ (y = vertex_to \/ SkipRow)) =>
             Pass!RelaxRoute(S, vertex, x, y) = S[x][y]
  BY TableStep DEF Cell
<1>2. /\ TypeOK /\ vertex \in Vertex /\ vertex_from \in Vertex /\ VertexCount \in Nat
      /\ next_edge' = next_edge
  BY RouterAssumption DEF IInv, TypeOK, RelaxRoute, SkipRow
<1> HIDE DEF S
<1>3. CASE /\ pc' = "relax" /\ vertex' = vertex
           /\ vertex_from' \in Vertex /\ vertex_to' \in Vertex
           /\ vertex_to' > 0 => vertex_from' = vertex_from /\ ~SkipRow
           /\ \A x, y \in Vertex : Passed(x, y)' =>
                Passed(x, y) \/ (x = vertex_from /\ (y = vertex_to \/ SkipRow))
  <2>1. TypeOK'
    BY <1>1, <1>2, <1>3 DEF TypeOK, Tables, Route, Vertex, S
  <2>2. vertex_to' > 0 => Cell(vertex_from, vertex)' # NoRoute
    <3> SUFFICES ASSUME vertex_to' > 0 PROVE Cell(vertex_from, vertex)' # NoRoute
      OBVIOUS
    <3>1. RelaxRoute /\ vertex_from' = vertex_from
      BY <1>3
    <3> QED BY <1>1, <1>2, <1>3, <3>1, RelaxStep DEF Cell, S
  <2>3. \A f, t \in Vertex : Passed(f, t)' =>
           Pass!RelaxRoute(S, vertex, f, t) = S[f][t]
    BY <1>1, <1>3
  <2>4. RelaxedSoFar'
    BY <1>1, <1>3, <2>2, <2>3 DEF RelaxedSoFar, Cell, S
  <2>5. InitializedSoFar'
    BY <1>3 DEF InitializedSoFar
  <2> QED BY <2>1, <2>4, <2>5 DEF IInv
<1>4. CASE /\ vertex' = vertex + 1 /\ vertex_from' = 0 /\ vertex_to' = 0
           /\ pc' = IF vertex + 1 < VertexCount THEN "relax" ELSE "done"
  <2>1. TypeOK'
    BY <1>1, <1>2, <1>4 DEF TypeOK, Tables, Route, Vertex, S
  <2>2. \A f, t \in Vertex : ~Passed(f, t)'
    BY <1>4 DEF Passed, Vertex
  <2>3. RelaxedSoFar'
    BY <1>1, <1>4, <2>2 DEF RelaxedSoFar, Cell, S
  <2>4. InitializedSoFar'
    BY <1>4 DEF InitializedSoFar
  <2> QED BY <2>1, <2>3, <2>4 DEF IInv
<1> QED BY <1>3, <1>4, Advance

LEMMA StepInvariant == IInv /\ [Next]_vars => IInv'
<1> SUFFICES ASSUME IInv, [Next]_vars PROVE IInv'
  OBVIOUS
<1>1. CASE UNCHANGED vars
  <2>1. TypeOK'
    BY <1>1 DEF IInv, TypeOK, vars, loop, Route
  <2>2. InitializedSoFar'
    <3>1. /\ graph' = graph /\ routes_internal_data_' = routes_internal_data_
          /\ pc' = pc /\ vertex' = vertex /\ next_edge' = next_edge
          /\ vertex_from' = vertex_from /\ vertex_to' = vertex_to
      BY <1>1 DEF vars, loop
    <3>2. ASSUME NEW f, NEW t
          PROVE  Cell(f, t)' = Cell(f, t) /\ SeenBetween(f, t)' = SeenBetween(f, t)
      BY <3>1 DEF Cell, Seen, SeenBetween, IncidentEdges
    <3>3. ASSUME NEW f, NEW t
          PROVE  IsFirstCheapest(Cell(f, t), SeenBetween(f, t))'
                   = IsFirstCheapest(Cell(f, t), SeenBetween(f, t))
      <4>1. Cell(f, t)' = Cell(f, t) /\ SeenBetween(f, t)' = SeenBetween(f, t)
        BY <3>2
      <4> QED BY <3>1, <4>1 DEF IsFirstCheapest
    <3>4. ASSUME pc = "initialize", NEW f \in Vertex, NEW t \in Vertex
          PROVE  CellSoFar(f, t)'
      <4>1. CellSoFar(f, t)
        BY <3>4 DEF IInv, InitializedSoFar
      <4>2. /\ Cell(f, t)' = Cell(f, t)
            /\ IsFirstCheapest(Cell(f, t), SeenBetween(f, t))'
                 = IsFirstCheapest(Cell(f, t), SeenBetween(f, t))
        BY <3>2, <3>3
      <4>3. vertex' = vertex /\ next_edge' = next_edge
        BY <3>1
      <4> QED BY <4>1, <4>2, <4>3, Zenon DEF CellSoFar
    <3>5. Seen' = Seen /\ IncidentEdges' = IncidentEdges
      BY <3>1 DEF Seen, IncidentEdges
    <3>6. InitializedSoFar
      BY DEF IInv
    <3>7. pc = "initialize" => \A f, t \in Vertex : CellSoFar(f, t)'
      BY <3>4
    <3> QED BY <3>1, <3>5, <3>6, <3>7 DEF InitializedSoFar, Vertex
  <2>3. RelaxedSoFar'
    BY <1>1 DEF IInv, RelaxedSoFar, vars, loop, Cell, Passed
  <2> QED BY <2>1, <2>2, <2>3 DEF IInv
<1> QED BY <1>1, InitializeVertexKeeps, InitializeEdgeKeeps, NextVertexKeeps, ThrowKeeps,
           StartRelaxingKeeps, PassStepKeeps DEF Next

(* IInv: after any number of steps of the constructor every cell of the    *)
(* table is what the loops have had to make of it so far: the first of the *)
(* cheapest edges seen, or a fixed point of the pass that runs.            *)
THEOREM LoopInvariant == Spec => []IInv
<1>1. Init => IInv
  BY InitInvariant
<1>2. IInv /\ [Next]_vars => IInv'
  BY StepInvariant
<1> QED BY <1>1, <1>2, PTL DEF Spec

(* HalvesStay: no step of a pass writes a cell that the references of the  *)
(* running loops refer to, other than with what it holds.                  *)
THEOREM HalvesNeverChange == Spec => HalvesStay
<1> DEFINE A == pc = "relax" => \A v \in Vertex :
                  /\ routes_internal_data_'[v][vertex] = Cell(v, vertex)
                  /\ routes_internal_data_'[vertex][v] = Cell(vertex, v)
<1>1. IInv /\ [Next]_vars => [A]_vars
  <2> SUFFICES ASSUME IInv, Next, pc = "relax" PROVE A
    OBVIOUS
  <2>1. SkipRow \/ RelaxRoute
    BY DEF Next, InitializeVertex, InitializeEdge, ThrowNegativeWeight, NextVertex, StartRelaxing
  <2> QED BY <2>1, TableStep DEF Cell
<1>2. [][A]_vars => HalvesStay
  BY PTL DEF HalvesStay
<1> QED BY <1>1, <1>2, LoopInvariant, PTL DEF Spec

-----------------------------------------------------------------------------
(* The refinement: what a step is in the eyes of RouteTable.               *)
LEMMA BarInit == Init => Table!Init
<1> SUFFICES ASSUME Init PROVE Table!Init
  OBVIOUS
<1>1. Table!IsGraph(graph, VertexCount)
  <2>1. IsGraph(graph, VertexCount)
    BY DEF Init
  <2> QED BY <2>1 DEF IsGraph, Table!IsGraph, Edge, Table!Edge
<1>2. BarThrough = 0 /\ BarPhase = "new" /\ BarRoutes = Pass!NoRoutes
  BY DEF Init, BarRoutes, BarThrough, BarPhase
<1>3. Pass!NoRoutes = Table!NoRoutes
  BY DEF Pass!NoRoutes, Table!NoRoutes, Pass!Vertex, Table!Vertex
<1> QED BY <1>1, <1>2, <1>3 DEF Table!Init

LEMMA BarInitializing ==
  ASSUME IInv, InitializeVertex \/ InitializeEdge \/ NextVertex
  PROVE  UNCHANGED Table!vars
<1>1. pc = "initialize" /\ UNCHANGED <<pc, graph>>
  BY DEF InitializeVertex, InitializeEdge, NextVertex
<1>2. /\ BarRoutes = Pass!NoRoutes /\ BarThrough = 0 /\ BarPhase = "new"
      /\ BarRoutes' = Pass!NoRoutes /\ BarThrough' = 0 /\ BarPhase' = "new"
  <2>1. Pass!NoRoutes' = Pass!NoRoutes
    BY DEF Pass!NoRoutes, Pass!Vertex
  <2> QED BY <1>1, <2>1 DEF BarRoutes, BarThrough, BarPhase
<1> QED BY <1>1, <1>2 DEF Table!vars

LEMMA BarThrow == ASSUME IInv, ThrowNegativeWeight PROVE Table!Throw
<1>1. pc = "initialize" /\ pc' = "thrown" /\ UNCHANGED graph
  BY DEF ThrowNegativeWeight
<1>2. Table!HasNegativeEdge
  <2>1. vertex \in Vertex /\ IsGraph(graph, VertexCount)
    BY RouterAssumption DEF ThrowNegativeWeight, IInv, TypeOK, Vertex
  <2>2. IncidentEdges[next_edge] \in EdgeIds(graph)
    BY <2>1, ListType DEF ThrowNegativeWeight, IncidentEdges
  <2> QED BY <2>2 DEF ThrowNegativeWeight, Table!HasNegativeEdge, Table!EdgeIds, EdgeIds
<1> QED BY <1>1, <1>2 DEF Table!Throw, BarRoutes, BarThrough, BarPhase, PassBegun

LEMMA BarInitialized == ASSUME IInv, StartRelaxing PROVE Table!Initialize
<1>1. /\ pc = "initialize" /\ vertex = VertexCount /\ vertex' = 0
      /\ pc' = IF VertexCount = 0 THEN "done" ELSE "relax"
      /\ UNCHANGED <<graph, routes_internal_data_, vertex_from, vertex_to>>
      /\ vertex_from = 0 /\ vertex_to = 0
  BY DEF StartRelaxing, IInv, InitializedSoFar
<1>2. /\ \A e \in EdgeIds(graph) : graph.edges[e].weight >= 0
      /\ \A v, t \in Vertex : Cell(v, t) = Pass!InitialRoute(v, t)
      /\ \A e \in EdgeIds(graph) : graph.edges[e].weight \in Int
  BY <1>1, AllSeen, GraphType DEF IInv, TypeOK
<1>3. ~Table!HasNegativeEdge
  BY <1>2 DEF Table!HasNegativeEdge, Table!EdgeIds, EdgeIds
<1>4. BarRoutes' = routes_internal_data_ /\ BarThrough' = 0 /\ BarPhase' = "relaxing"
  BY <1>1, RouterAssumption DEF BarRoutes, BarThrough, BarPhase, PassBegun
<1>5. routes_internal_data_ =
        [from \in Table!Vertex |-> [to \in Table!Vertex |-> Table!InitialRoute(from, to)]]
  <2>1. routes_internal_data_ = [from \in Vertex |-> [to \in Vertex |-> Cell(from, to)]]
    BY DEF IInv, TypeOK, Cell
  <2>2. \A from, to : Table!InitialRoute(from, to) = Pass!InitialRoute(from, to)
    BY DEF Table!InitialRoute, Pass!InitialRoute, Table!EdgesBetween, Pass!EdgesBetween,
           Table!FirstCheapest, Pass!FirstCheapest, Table!EdgeIds, Pass!EdgeIds
  <2>3. Table!Vertex = Vertex
    BY DEF Table!Vertex, Vertex
  <2> QED BY <1>2, <2>1, <2>2, <2>3
<1>6. BarThrough = 0 /\ BarPhase = "new"
  BY <1>1 DEF BarThrough, BarPhase
<1> QED BY <1>1, <1>3, <1>4, <1>5, <1>6 DEF Table!Initialize

LEMMA RelaxedIs ==
  ASSUME NEW T, NEW v
  PROVE  /\ Pass!Relaxed(T, v) =
              [x \in Vertex |-> [y \in Vertex |-> Pass!RelaxRoute(T, v, x, y)]]
         /\ Table!Relaxed(T, v) = Pass!Relaxed(T, v)
BY DEF Pass!Relaxed, Table!Relaxed, Pass!RelaxRoute, Table!RelaxRoute, Pass!Better, Table!Better,
       Pass!Joined, Table!Joined, Pass!Vertex, Table!Vertex, Vertex

(* A step in the middle of a pass changes nothing in the eyes of           *)
(* RouteTable, and the first step of a pass is the whole pass.             *)
LEMMA BarPass ==
  ASSUME IInv, SkipRow \/ RelaxRoute
  PROVE  Table!RelaxThrough \/ UNCHANGED Table!vars
<1> DEFINE T == routes_internal_data_
           S == routes_internal_data_'
<1>1. /\ S \in Tables /\ graph' = graph
      /\ \A x, y \in Vertex : Pass!RelaxRoute(S, vertex, x, y) = Pass!RelaxRoute(T, vertex, x, y)
      /\ \A x, y \in Vertex :
           Passed(x, y) \/ (x = vertex_from /\ (y = vertex_to \/ SkipRow)) =>
             Pass!RelaxRoute(S, vertex, x, y) = S[x][y]
  BY TableStep
<1>2. /\ pc = "relax" /\ vertex \in Vertex /\ vertex \in Nat /\ vertex < VertexCount
      /\ vertex_from \in Nat /\ vertex_to \in Nat /\ VertexCount \in Nat
  BY RouterAssumption DEF IInv, TypeOK, SkipRow, RelaxRoute, Vertex
<1>3. Pass!Relaxed(S, vertex) = Pass!Relaxed(T, vertex)
  <2> HIDE DEF T, S
  <2> QED BY <1>1, RelaxedIs
<1>4. /\ BarPhase = "relaxing"
      /\ PassBegun => BarThrough = vertex + 1 /\ BarRoutes = Pass!Relaxed(T, vertex)
      /\ ~PassBegun => BarThrough = vertex /\ BarRoutes = T
  BY <1>2 DEF BarPhase, BarThrough, BarRoutes
<1>5. BarPhase' = "relaxing" /\ BarThrough' = vertex + 1 /\ BarRoutes' = Pass!Relaxed(T, vertex)
  <2>1. CASE /\ pc' = "relax" /\ vertex' = vertex
             /\ vertex_from' > 0 \/ vertex_to' > 0
    <3>1. PassBegun'
      BY <2>1 DEF PassBegun
    <3>2. BarRoutes' = Pass!Relaxed(S, vertex')
      BY <2>1, <3>1 DEF BarRoutes
    <3> QED BY <1>3, <2>1, <3>1, <3>2 DEF BarPhase, BarThrough
  <2>2. CASE /\ vertex' = vertex + 1 /\ vertex_from' = 0 /\ vertex_to' = 0
             /\ pc' = IF vertex + 1 < VertexCount THEN "relax" ELSE "done"
             /\ \A x, y \in Vertex :
                  Passed(x, y) \/ (x = vertex_from /\ (y = vertex_to \/ SkipRow))
    <3>1. ~PassBegun' /\ BarRoutes' = S
      BY <2>2 DEF PassBegun, BarRoutes
    <3>2. S = Pass!Relaxed(S, vertex)
      <4>1. \A x, y \in Vertex : Pass!RelaxRoute(S, vertex, x, y) = S[x][y]
        BY <1>1, <2>2
      <4>2. S = [x \in Vertex |-> [y \in Vertex |-> S[x][y]]]
        BY <1>1 DEF Tables
      <4> HIDE DEF S
      <4> QED BY <4>1, <4>2, RelaxedIs
    <3>3. BarThrough' = vertex + 1 /\ BarPhase' = "relaxing"
      BY <1>2, <2>2, <3>1 DEF BarThrough, BarPhase
    <3> QED BY <1>3, <3>1, <3>2, <3>3
  <2> QED BY <2>1, <2>2, Advance
<1>6. CASE PassBegun
  BY <1>1, <1>4, <1>5, <1>6 DEF Table!vars
<1>7. CASE ~PassBegun
  <2>1. BarRoutes' = Table!Relaxed(BarRoutes, BarThrough)
    BY <1>4, <1>5, <1>7, RelaxedIs
  <2> QED BY <1>1, <1>2, <1>4, <1>5, <1>7, <2>1 DEF Table!RelaxThrough
<1> QED BY <1>6, <1>7

(* ImplementsRouteTable: the constructor, which improves the table in      *)
(* place, makes exactly the passes of RouteTable, so what is proved of     *)
(* those holds of it.                                                      *)
THEOREM RouterImplementsRouteTable == Spec => ImplementsRouteTable
<1>1. Init => Table!Init
  BY BarInit
<1>2. IInv /\ [Next]_vars => [Table!Next]_(Table!vars)
  <2> SUFFICES ASSUME IInv, [Next]_vars
               PROVE  Table!Next \/ UNCHANGED Table!vars
    OBVIOUS
  <2>1. CASE UNCHANGED vars
    BY <2>1 DEF vars, loop, Table!vars, BarRoutes, BarThrough, BarPhase, PassBegun
  <2> QED BY <2>1, BarInitializing, BarThrow, BarInitialized, BarPass DEF Next, Table!Next
<1>3. Table!Init /\ [][Table!Next]_(Table!vars) => ImplementsRouteTable
  BY PTL DEF ImplementsRouteTable, Table!Spec
<1> QED BY <1>1, <1>2, <1>3, LoopInvariant, PTL DEF Spec
=============================================================================
