-------------------------- MODULE RouteQueryProofs --------------------------
(***************************************************************************)
(* Theorems about RouteTable and RouteQuery.  For every graph and every    *)
(* number of vertices: the invariants of the table and, once it is built,  *)
(* that no walk through the graph is shorter than the route in it, which   *)
(* is as light as the lightest walk of at most VertexCount edges; and that *)
(* BuildRoute only dereferences routes that exist, and that what it        *)
(* answers is a path whose edges add up to the weight it answers.          *)
(***************************************************************************)
EXTENDS RouteQuery, FiniteSets, FiniteSetTheorems, WellFoundedInduction, SequenceTheorems,
        TLAPS

-----------------------------------------------------------------------------
(* A set of natural numbers that is not empty has a least element.         *)
LEMMA LeastNat ==
  ASSUME NEW T \in SUBSET Nat, T # {}
  PROVE  \E x \in T : \A y \in T : x <= y
<1> DEFINE R == {ss \in Nat \X Nat : ss[1] < ss[2]}
<1>1. IsWellFoundedOn(R, Nat)
  BY NatLessThanWellFounded DEF OpToRel
<1>2. PICK x \in T : \A y \in T : ~ (<<y, x>> \in R)
  <2> HIDE DEF R
  <2> QED BY <1>1, WFMin
<1>3. \A y \in T : y \in Nat /\ x \in Nat /\ ~(y < x)
  BY <1>2
<1> QED BY <1>3

(* What IsGraph says of the edges.                                         *)
LEMMA EdgeType ==
  ASSUME NEW g, NEW n \in Nat, IsGraph(g, n), NEW e \in EdgeIds(g)
  PROVE  /\ e \in Nat
         /\ g.edges[e].from \in 0 .. n - 1
         /\ g.edges[e].to \in 0 .. n - 1
         /\ g.edges[e].weight \in Int
<1>1. g.edges \in Seq(Edge(n, Int))
  BY DEF IsGraph
<1>2. g.edges[e] \in Edge(n, Int) /\ e \in Nat
  BY <1>1 DEF EdgeIds
<1> QED BY <1>2 DEF Edge

(* Between two vertices with an edge there is a first cheapest one, and it *)
(* is no dearer than any other.                                            *)
LEMMA FirstCheapestExists ==
  ASSUME IsGraph(graph, VertexCount), ~HasNegativeEdge,
         NEW f \in Vertex, NEW t \in Vertex, EdgesBetween(f, t) # {}
  PROVE  /\ FirstCheapest(f, t) \in EdgesBetween(f, t)
         /\ \A o \in EdgesBetween(f, t) :
              graph.edges[FirstCheapest(f, t)].weight <= graph.edges[o].weight
<1> DEFINE es == EdgesBetween(f, t)
           W(e) == graph.edges[e].weight
<1>1. \A e \in es : e \in EdgeIds(graph) /\ e \in Nat /\ W(e) \in Nat
  <2> SUFFICES ASSUME NEW e \in es
               PROVE  e \in EdgeIds(graph) /\ e \in Nat /\ W(e) \in Nat
    OBVIOUS
  <2>1. e \in EdgeIds(graph)
    BY DEF EdgesBetween
  <2>2. e \in Nat /\ W(e) \in Int
    BY <2>1, EdgeType, RouteTableAssumption
  <2> QED BY <2>1, <2>2 DEF HasNegativeEdge
<1>2. PICK w \in {W(e) : e \in es} : \A v \in {W(e) : e \in es} : w <= v
  <2>1. PICK ws : ws = {W(e) : e \in es}
    OBVIOUS
  <2>2. ws \in SUBSET Nat
    BY <1>1, <2>1
  <2>3. ws # {}
    BY <2>1
  <2>4. \E w \in ws : \A v \in ws : w <= v
    BY <2>2, <2>3, LeastNat, Zenon
  <2> QED BY <2>1, <2>4, Zenon
<1>3. PICK c \in {e \in es : W(e) = w} : \A o \in {e \in es : W(e) = w} : c <= o
  <2>1. {e \in es : W(e) = w} \in SUBSET Nat
    BY <1>1
  <2>2. {e \in es : W(e) = w} # {}
    BY <1>2
  <2> QED BY <2>1, <2>2, LeastNat
<1> DEFINE Is(e) == \A o \in es : W(e) < W(o) \/ (W(e) = W(o) /\ e <= o)
<1>4. c \in es /\ Is(c)
  <2>1. c \in es /\ W(c) = w
    BY <1>3
  <2>2. ASSUME NEW o \in es
        PROVE  W(c) < W(o) \/ (W(c) = W(o) /\ c <= o)
    <3>1. W(c) <= W(o)
      BY <1>2, <2>1
    <3>2. W(c) \in Nat /\ W(o) \in Nat
      BY <1>1, <2>1
    <3> HIDE DEF W, es
    <3>3. CASE W(o) = w
      BY <3>3, <1>3, <2>1
    <3>4. CASE W(o) # w
      BY <3>4, <3>1, <3>2, <2>1
    <3> QED BY <3>3, <3>4
  <2> QED BY <2>1, <2>2
<1>5. FirstCheapest(f, t) = CHOOSE e \in es : Is(e)
  BY DEF FirstCheapest
<1>6. FirstCheapest(f, t) \in es /\ Is(FirstCheapest(f, t))
  <2> HIDE DEF Is, es
  <2> QED BY <1>4, <1>5
<1>7. \A e, o \in es : Is(e) => W(e) <= W(o)
  BY <1>1
<1> QED BY <1>6, <1>7

-----------------------------------------------------------------------------
Table == [Vertex -> [Vertex -> Route \cup {NoRoute}]]

(* What a pass makes of a table: routes are not lost and get no longer,    *)
(* detours through v are covered, and a cell that changed is such a detour.*)
IsPass(old, v, new) ==
  /\ new \in Table
  /\ \A f, t \in Vertex : old[f][t] # NoRoute =>
        new[f][t] # NoRoute /\ new[f][t].weight <= old[f][t].weight
  /\ \A f, t \in Vertex : (old[f][v] # NoRoute /\ old[v][t] # NoRoute) =>
        new[f][t] # NoRoute /\ new[f][t].weight <= old[f][v].weight + old[v][t].weight
  /\ \A f, t \in Vertex :
        \/ new[f][t] = old[f][t]
        \/ /\ old[f][v] # NoRoute /\ old[v][t] # NoRoute
           /\ new[f][t] = Joined(old[f][v], old[v][t])
           /\ \/ old[f][t] = NoRoute
              \/ old[f][v].weight + old[v][t].weight < old[f][t].weight

LEMMA RouteFields ==
  ASSUME IsGraph(graph, VertexCount), NEW r \in Route
  PROVE  r # NoRoute /\ r.weight \in Nat /\ r.prev_edge \in EdgeIds(graph) \cup {NoEdge}
<1>1. EdgeIds(graph) \subseteq Nat
  BY EdgeType, RouteTableAssumption
<1> QED BY <1>1, RouteTableAssumption DEF Route

LEMMA JoinedIsRoute ==
  ASSUME NEW r \in Route, NEW q \in Route
  PROVE  /\ Joined(r, q) \in Route
         /\ Joined(r, q).weight = r.weight + q.weight
         /\ q.prev_edge # NoEdge => Joined(r, q).prev_edge = q.prev_edge
BY DEF Joined, Route

LEMMA RelaxedTable ==
  ASSUME IsGraph(graph, VertexCount), NEW table \in Table, NEW v \in Vertex
  PROVE  IsPass(table, v, Relaxed(table, v))
<1> DEFINE new(f, t) == RelaxRoute(table, v, f, t)
<1>1. \A f, t \in Vertex : Relaxed(table, v)[f][t] = new(f, t)
  BY DEF Relaxed
<1>2. \A f, t \in Vertex : table[f][t] \in Route \cup {NoRoute}
  BY DEF Table
<1>3. ASSUME NEW f \in Vertex, NEW t \in Vertex
      PROVE  /\ new(f, t) \in Route \cup {NoRoute}
             /\ table[f][t] # NoRoute =>
                  new(f, t) # NoRoute /\ new(f, t).weight <= table[f][t].weight
             /\ (table[f][v] # NoRoute /\ table[v][t] # NoRoute) =>
                  /\ new(f, t) # NoRoute
                  /\ new(f, t).weight <= table[f][v].weight + table[v][t].weight
             /\ \/ new(f, t) = table[f][t]
                \/ /\ table[f][v] # NoRoute /\ table[v][t] # NoRoute
                   /\ new(f, t) = Joined(table[f][v], table[v][t])
                   /\ table[f][t] = NoRoute
                        \/ table[f][v].weight + table[v][t].weight < table[f][t].weight
  <2>0. /\ table[f][v] \in Route \cup {NoRoute}
        /\ table[v][t] \in Route \cup {NoRoute}
        /\ table[f][t] \in Route \cup {NoRoute}
    BY <1>2
  <2>1. CASE table[f][v] = NoRoute \/ table[v][t] = NoRoute
    <3>1. new(f, t) = table[f][t]
      BY <2>1 DEF RelaxRoute
    <3>2. table[f][t] # NoRoute => table[f][t].weight \in Nat
      BY <2>0, RouteFields
    <3> QED BY <2>0, <2>1, <3>1, <3>2
  <2>2. CASE table[f][v] # NoRoute /\ table[v][t] # NoRoute
    <3> DEFINE c == Joined(table[f][v], table[v][t])
    <3>1. /\ table[f][v].weight \in Nat /\ table[v][t].weight \in Nat
          /\ c \in Route /\ c # NoRoute
          /\ c.weight = table[f][v].weight + table[v][t].weight
      BY <2>0, <2>2, RouteFields, JoinedIsRoute
    <3>2. table[f][t] # NoRoute => table[f][t].weight \in Nat
      BY <2>0, RouteFields
    <3>3. new(f, t) = IF table[f][t] = NoRoute \/ c.weight < table[f][t].weight
                        THEN c ELSE table[f][t]
      BY <2>2 DEF RelaxRoute, Better
    <3> HIDE DEF c, new
    <3>4. CASE table[f][t] = NoRoute \/ c.weight < table[f][t].weight
      BY <2>0, <2>2, <3>1, <3>2, <3>3, <3>4 DEF c
    <3>5. CASE ~(table[f][t] = NoRoute \/ c.weight < table[f][t].weight)
      BY <2>0, <2>2, <3>1, <3>2, <3>3, <3>5
    <3> QED BY <3>4, <3>5
  <2> QED BY <2>1, <2>2
<1>4. Relaxed(table, v) \in Table
  BY <1>3 DEF Relaxed, Table
<1> HIDE DEF new
<1> QED BY <1>1, <1>3, <1>4 DEF IsPass

-----------------------------------------------------------------------------
LEMMA InitEstablishes == Init => IInv
<1> SUFFICES ASSUME Init PROVE IInv
  OBVIOUS
<1> USE RouteTableAssumption DEF Init
<1>1. routes \in Table /\ \A f, t \in Vertex : routes[f][t] = NoRoute
  BY DEF NoRoutes, Table
<1>2. TypeOK /\ NothingBeforeStart
  BY <1>1 DEF TypeOK, NothingBeforeStart, Phase, Table
<1>3. DiagonalFree /\ NoEdgeBeats /\ LastEdgeSound
  BY <1>1 DEF DiagonalFree, NoEdgeBeats, LastEdgeSound
<1>4. ClosedThrough
  BY DEF ClosedThrough
<1> QED BY <1>2, <1>3, <1>4 DEF IInv

LEMMA InitializeKeeps == IInv /\ Initialize => IInv'
<1> SUFFICES ASSUME IInv, Initialize PROVE IInv'
  OBVIOUS
<1> USE RouteTableAssumption
<1>1. /\ IsGraph(graph, VertexCount) /\ ~HasNegativeEdge
      /\ graph' = graph /\ through = 0 /\ through' = 0 /\ phase' = "relaxing"
      /\ \A f, t \in Vertex : routes'[f][t] = InitialRoute(f, t)
  BY DEF IInv, TypeOK, NothingBeforeStart, Initialize
<1>2. ASSUME NEW f \in Vertex, NEW t \in Vertex, f # t, EdgesBetween(f, t) # {}
      PROVE  LET e == FirstCheapest(f, t) IN
             /\ e \in EdgesBetween(f, t)
             /\ e \in EdgeIds(graph)
             /\ InitialRoute(f, t) = [weight |-> graph.edges[e].weight, prev_edge |-> e]
             /\ InitialRoute(f, t) \in Route
             /\ \A o \in EdgesBetween(f, t) : graph.edges[e].weight <= graph.edges[o].weight
  <2> DEFINE e == FirstCheapest(f, t)
  <2>1. /\ e \in EdgesBetween(f, t)
        /\ \A o \in EdgesBetween(f, t) : graph.edges[e].weight <= graph.edges[o].weight
    BY <1>1, <1>2, FirstCheapestExists
  <2>2. e \in EdgeIds(graph) /\ graph.edges[e].weight \in Int
    BY <1>1, <2>1, EdgeType DEF EdgesBetween
  <2>3. graph.edges[e].weight \in Nat
    BY <1>1, <2>2 DEF HasNegativeEdge
  <2>4. InitialRoute(f, t) = [weight |-> graph.edges[e].weight, prev_edge |-> e]
    BY <1>2 DEF InitialRoute
  <2> HIDE DEF e
  <2> QED BY <2>1, <2>2, <2>3, <2>4 DEF Route, e
<1>3. \A v \in Vertex : InitialRoute(v, v) = [weight |-> 0, prev_edge |-> NoEdge]
  BY DEF InitialRoute
<1>4. \A f, t \in Vertex : (f # t /\ EdgesBetween(f, t) = {}) => InitialRoute(f, t) = NoRoute
  BY DEF InitialRoute
<1>5. \A f, t \in Vertex : InitialRoute(f, t) \in Route \cup {NoRoute}
  BY <1>2, <1>3, <1>4 DEF Route
<1>6. TypeOK'
  BY <1>1, <1>5 DEF TypeOK, Initialize, Phase, Route
<1>7. DiagonalFree'
  BY <1>1, <1>3 DEF DiagonalFree
<1>8. NoEdgeBeats'
  <2> SUFFICES ASSUME NEW e \in EdgeIds(graph)
               PROVE  /\ InitialRoute(graph.edges[e].from, graph.edges[e].to) # NoRoute
                      /\ InitialRoute(graph.edges[e].from, graph.edges[e].to).weight
                           <= graph.edges[e].weight
    <3>1. \A e \in EdgeIds(graph) : /\ graph.edges[e].from \in Vertex
                                    /\ graph.edges[e].to \in Vertex
      BY <1>1, EdgeType DEF Vertex
    <3> QED BY <1>1, <3>1 DEF NoEdgeBeats
  <2> DEFINE f == graph.edges[e].from
             t == graph.edges[e].to
  <2>1. f \in Vertex /\ t \in Vertex /\ e \in EdgesBetween(f, t) /\ graph.edges[e].weight \in Nat
    BY <1>1, EdgeType DEF Vertex, EdgesBetween, HasNegativeEdge
  <2>2. InitialRoute(f, t) \in Route => InitialRoute(f, t) # NoRoute
    BY <1>1, RouteFields
  <2>3. CASE f = t
    <3>1. InitialRoute(f, t) = [weight |-> 0, prev_edge |-> NoEdge]
      BY <1>3, <2>1, <2>3
    <3>2. InitialRoute(f, t) \in Route
      BY <3>1 DEF Route
    <3> QED BY <2>1, <2>2, <3>1, <3>2
  <2>4. CASE f # t
    <3>1. /\ InitialRoute(f, t) \in Route
          /\ InitialRoute(f, t).weight = graph.edges[FirstCheapest(f, t)].weight
          /\ graph.edges[FirstCheapest(f, t)].weight <= graph.edges[e].weight
      BY <1>2, <2>1, <2>4
    <3> QED BY <2>2, <3>1
  <2> QED BY <2>3, <2>4
<1> DEFINE SoundInitially(f, t, e) ==
             /\ e \in EdgeIds(graph)
             /\ graph.edges[e].to = t
             /\ graph.edges[e].from \in Vertex
             /\ InitialRoute(f, graph.edges[e].from) # NoRoute
             /\ InitialRoute(f, t).weight
                  >= InitialRoute(f, graph.edges[e].from).weight + graph.edges[e].weight
<1>9. LastEdgeSound'
  <2> SUFFICES ASSUME NEW f \in Vertex, NEW t \in Vertex, f # t, InitialRoute(f, t) # NoRoute
               PROVE  SoundInitially(f, t, InitialRoute(f, t).prev_edge)
    <3>1. ASSUME NEW f \in Vertex, NEW t \in Vertex, f # t, routes'[f][t] # NoRoute,
                 NEW o, o = routes'[f][t].prev_edge
          PROVE  /\ o \in EdgeIds(graph)
                 /\ graph.edges[o].to = t
                 /\ routes'[f][graph.edges[o].from] # NoRoute
                 /\ routes'[f][t].weight
                      >= routes'[f][graph.edges[o].from].weight + graph.edges[o].weight
      <4>1. routes'[f][t] = InitialRoute(f, t)
        BY <1>1
      <4>2. SoundInitially(f, t, o)
        BY <3>1, <4>1
      <4>3. routes'[f][graph.edges[o].from] = InitialRoute(f, graph.edges[o].from)
        BY <1>1, <4>2
      <4> QED BY <4>1, <4>2, <4>3
    <3>2. graph' = graph
      BY <1>1
    <3> QED BY <3>1, <3>2 DEF LastEdgeSound
  <2> DEFINE e == FirstCheapest(f, t)
  <2>1. EdgesBetween(f, t) # {}
    BY <1>4
  <2>2. /\ e \in EdgesBetween(f, t) /\ e \in EdgeIds(graph)
        /\ InitialRoute(f, t) = [weight |-> graph.edges[e].weight, prev_edge |-> e]
    BY <1>2, <2>1
  <2>3. graph.edges[e].from = f /\ graph.edges[e].to = t /\ graph.edges[e].weight \in Int
    BY <1>1, <2>2, EdgeType DEF EdgesBetween
  <2>4. InitialRoute(f, f) = [weight |-> 0, prev_edge |-> NoEdge] /\ InitialRoute(f, f) # NoRoute
    BY <1>3
  <2> HIDE DEF e
  <2> QED BY <2>2, <2>3, <2>4
<1>10. ClosedThrough' /\ NothingBeforeStart'
  BY <1>1 DEF ClosedThrough, NothingBeforeStart
<1> QED BY <1>6, <1>7, <1>8, <1>9, <1>10 DEF IInv

LEMMA RelaxThroughKeeps == IInv /\ RelaxThrough => IInv'
<1> SUFFICES ASSUME IInv, RelaxThrough PROVE IInv'
  OBVIOUS
<1> USE RouteTableAssumption
<1> DEFINE k == through
           R(f, t) == routes[f][t]
           Q(f, t) == routes'[f][t]
<1>1. /\ IsGraph(graph, VertexCount)
      /\ graph' = graph /\ phase = "relaxing" /\ phase' = "relaxing"
      /\ k \in Vertex /\ through' = k + 1 /\ k \in Nat
      /\ routes \in Table
      /\ routes' = Relaxed(routes, k)
  BY DEF IInv, TypeOK, RelaxThrough, Table, Vertex
<1>2. /\ routes' \in Table
      /\ \A f, t \in Vertex : R(f, t) # NoRoute =>
            Q(f, t) # NoRoute /\ Q(f, t).weight <= R(f, t).weight
      /\ \A f, t \in Vertex : (R(f, k) # NoRoute /\ R(k, t) # NoRoute) =>
            Q(f, t) # NoRoute /\ Q(f, t).weight <= R(f, k).weight + R(k, t).weight
      /\ \A f, t \in Vertex :
            \/ Q(f, t) = R(f, t)
            \/ /\ R(f, k) # NoRoute /\ R(k, t) # NoRoute
               /\ Q(f, t) = Joined(R(f, k), R(k, t))
               /\ R(f, t) = NoRoute \/ R(f, k).weight + R(k, t).weight < R(f, t).weight
  <2>1. IsPass(routes, k, routes')
    BY <1>1, RelaxedTable
  <2> QED BY <2>1 DEF IsPass
<1>3. /\ \A f, t \in Vertex : R(f, t) # NoRoute =>
            R(f, t) \in Route /\ R(f, t).weight \in Nat
      /\ \A f, t \in Vertex : Q(f, t) # NoRoute =>
            Q(f, t) \in Route /\ Q(f, t).weight \in Nat
  BY <1>1, <1>2, RouteFields DEF Table
<1>4. \A f, t \in Vertex : (R(f, k) # NoRoute /\ R(k, t) # NoRoute) =>
        /\ Joined(R(f, k), R(k, t)).weight = R(f, k).weight + R(k, t).weight
        /\ Joined(R(f, k), R(k, t)).weight \in Nat
        /\ Joined(R(f, k), R(k, t)) # NoRoute
        /\ R(k, t).prev_edge # NoEdge =>
             Joined(R(f, k), R(k, t)).prev_edge = R(k, t).prev_edge
  BY <1>1, <1>3, JoinedIsRoute, RouteFields
<1>5. \A v \in Vertex : R(v, v) # NoRoute /\ R(v, v).weight = 0 /\ R(v, v).prev_edge = NoEdge
  <2>1. \A v \in Vertex : R(v, v) = [weight |-> 0, prev_edge |-> NoEdge]
    BY <1>1 DEF IInv, DiagonalFree
  <2> QED BY <2>1
<1>6. \A v \in Vertex : Q(v, v) = R(v, v)
  BY <1>1, <1>2, <1>3, <1>5
<1>7. TypeOK'
  BY <1>1, <1>2 DEF IInv, TypeOK, Table, Route, Vertex, Phase
<1>8. DiagonalFree'
  BY <1>1, <1>6 DEF IInv, DiagonalFree
<1>9. NoEdgeBeats'
  <2> SUFFICES ASSUME NEW e \in EdgeIds(graph)
               PROVE  /\ Q(graph.edges[e].from, graph.edges[e].to) # NoRoute
                      /\ Q(graph.edges[e].from, graph.edges[e].to).weight
                            <= graph.edges[e].weight
    BY <1>1 DEF NoEdgeBeats
  <2>1. /\ graph.edges[e].from \in Vertex /\ graph.edges[e].to \in Vertex
        /\ graph.edges[e].weight \in Int
    BY <1>1, EdgeType DEF Vertex
  <2>2. /\ R(graph.edges[e].from, graph.edges[e].to) # NoRoute
        /\ R(graph.edges[e].from, graph.edges[e].to).weight <= graph.edges[e].weight
    BY <1>1 DEF IInv, NoEdgeBeats
  <2> HIDE DEF R, Q
  <2> QED BY <1>2, <1>3, <2>1, <2>2
<1> DEFINE LastEdge(f, t, r, e) ==
             /\ e \in EdgeIds(graph)
             /\ graph.edges[e].to = t
             /\ R(f, graph.edges[e].from) # NoRoute
             /\ r.weight >= R(f, graph.edges[e].from).weight + graph.edges[e].weight
<1>10. \A f, t \in Vertex : (f # t /\ R(f, t) # NoRoute) =>
          LastEdge(f, t, R(f, t), R(f, t).prev_edge)
  BY DEF IInv, LastEdgeSound
<1>11. LastEdgeSound'
  <2> SUFFICES ASSUME NEW f \in Vertex, NEW t \in Vertex, f # t, Q(f, t) # NoRoute
               PROVE  /\ Q(f, t).prev_edge \in EdgeIds(graph)
                      /\ graph.edges[Q(f, t).prev_edge].to = t
                      /\ Q(f, graph.edges[Q(f, t).prev_edge].from) # NoRoute
                      /\ Q(f, t).weight >= Q(f, graph.edges[Q(f, t).prev_edge].from).weight
                                              + graph.edges[Q(f, t).prev_edge].weight
    <3>1. graph' = graph
      BY <1>1
    <3> QED BY <3>1, Zenon DEF LastEdgeSound
  <2>1. CASE Q(f, t) = R(f, t)
    <3> DEFINE e == R(f, t).prev_edge
               v == graph.edges[e].from
    <3>1. LastEdge(f, t, R(f, t), e)
      BY <1>10, <2>1
    <3>2. v \in Vertex /\ graph.edges[e].weight \in Int
      BY <1>1, <3>1, EdgeType DEF Vertex
    <3>3. Q(f, v) # NoRoute /\ Q(f, v).weight <= R(f, v).weight
      BY <1>2, <3>1, <3>2
    <3>4. R(f, t).weight \in Nat /\ R(f, v).weight \in Nat /\ Q(f, v).weight \in Nat
      BY <1>3, <2>1, <3>1, <3>2, <3>3
    <3> HIDE DEF e, v, R, Q
    <3> QED BY <2>1, <3>1, <3>2, <3>3, <3>4 DEF e, v
  <2>2. CASE Q(f, t) # R(f, t)
    <3>1. /\ R(f, k) # NoRoute /\ R(k, t) # NoRoute
          /\ Q(f, t) = Joined(R(f, k), R(k, t))
          /\ R(f, t) = NoRoute \/ R(f, k).weight + R(k, t).weight < R(f, t).weight
      BY <1>2, <2>2
    <3>2. k # t
      BY <1>1, <1>3, <1>5, <3>1
    <3> DEFINE e == R(k, t).prev_edge
               v == graph.edges[e].from
    <3>3. LastEdge(k, t, R(k, t), e)
      BY <1>1, <1>10, <3>1, <3>2
    <3>4. v \in Vertex /\ graph.edges[e].weight \in Int /\ e # NoEdge
      BY <1>1, <3>3, EdgeType DEF Vertex
    <3>5. Q(f, t).prev_edge = e /\ Q(f, t).weight = R(f, k).weight + R(k, t).weight
      BY <1>1, <1>4, <3>1, <3>4
    <3>6. Q(f, v) # NoRoute /\ Q(f, v).weight <= R(f, k).weight + R(k, v).weight
      BY <1>2, <3>1, <3>3, <3>4
    <3>7. /\ R(f, k).weight \in Nat /\ R(k, t).weight \in Nat
          /\ R(k, v).weight \in Nat /\ Q(f, v).weight \in Nat
      BY <1>1, <1>3, <3>1, <3>3, <3>4, <3>6
    <3> HIDE DEF e, v, R, Q
    <3> QED BY <3>3, <3>4, <3>5, <3>6, <3>7 DEF v
  <2> QED BY <2>1, <2>2
<1>12. ClosedThrough'
  <2> SUFFICES ASSUME NEW v \in 0 .. k, NEW f \in Vertex, NEW t \in Vertex,
                      Q(f, v) # NoRoute, Q(v, t) # NoRoute
               PROVE  Q(f, t) # NoRoute /\ Q(f, t).weight <= Q(f, v).weight + Q(v, t).weight
    <3>1. through' - 1 = k
      BY <1>1
    <3> QED BY <3>1 DEF ClosedThrough
  <2>1. v \in Vertex
    BY <1>1 DEF Vertex
  <2>2. /\ Q(f, v).weight \in Nat /\ Q(v, t).weight \in Nat
        /\ Q(f, t) # NoRoute => Q(f, t).weight \in Nat
    BY <1>3, <2>1
  <2>3. ASSUME NEW a \in Vertex, NEW b \in Vertex, Q(a, b) # NoRoute, Q(a, b) # R(a, b)
        PROVE  /\ R(a, k) # NoRoute /\ R(k, b) # NoRoute
               /\ Q(a, b).weight = R(a, k).weight + R(k, b).weight
               /\ R(a, k).weight \in Nat /\ R(k, b).weight \in Nat
    BY <1>1, <1>2, <1>3, <1>4, <2>3
  <2>4. ASSUME NEW a \in Vertex, NEW b \in Vertex, v # k,
               R(a, v) # NoRoute, R(v, b) # NoRoute
        PROVE  R(a, b) # NoRoute /\ R(a, b).weight <= R(a, v).weight + R(v, b).weight
    <3>1. v \in 0 .. through - 1
      BY <1>1, <2>4
    <3>2. ClosedThrough
      BY DEF IInv
    <3> QED BY <2>4, <3>1, <3>2 DEF ClosedThrough
  <2>5. CASE v = k
    <3>0. R(k, k) # NoRoute /\ R(k, k).weight = 0 /\ k \in Vertex
      BY <1>1, <1>5
    <3>1. Q(f, k) = R(f, k)
      <4>1. R(f, k) # NoRoute => R(f, k).weight \in Nat
        BY <1>3, <3>0
      <4> HIDE DEF k, R, Q
      <4> QED BY <1>2, <3>0, <4>1
    <3>2. Q(k, t) = R(k, t)
      <4>1. R(k, t) # NoRoute => R(k, t).weight \in Nat
        BY <1>3, <3>0
      <4> HIDE DEF k, R, Q
      <4> QED BY <1>2, <3>0, <4>1
    <3> QED BY <1>2, <2>5, <3>1, <3>2
  <2>6. CASE v # k /\ Q(f, v) = R(f, v) /\ Q(v, t) = R(v, t)
    <3>1. R(f, t) # NoRoute /\ R(f, t).weight <= R(f, v).weight + R(v, t).weight
      BY <2>4, <2>6
    <3>2. Q(f, t) # NoRoute /\ Q(f, t).weight <= R(f, t).weight /\ R(f, t).weight \in Nat
      BY <1>2, <1>3, <3>1
    <3> HIDE DEF R, Q
    <3> QED BY <2>2, <2>6, <3>1, <3>2
  <2>7. CASE v # k /\ Q(f, v) # R(f, v) /\ Q(v, t) = R(v, t)
    <3>1. /\ R(f, k) # NoRoute /\ R(k, v) # NoRoute
          /\ Q(f, v).weight = R(f, k).weight + R(k, v).weight
          /\ R(f, k).weight \in Nat /\ R(k, v).weight \in Nat
      BY <2>1, <2>3, <2>7
    <3>2. R(k, t) # NoRoute /\ R(k, t).weight <= R(k, v).weight + R(v, t).weight
      BY <1>1, <2>4, <2>7, <3>1
    <3>3. Q(f, t) # NoRoute /\ Q(f, t).weight <= R(f, k).weight + R(k, t).weight
      BY <1>2, <3>1, <3>2
    <3>4. R(k, t).weight \in Nat /\ R(v, t).weight \in Nat
      BY <1>1, <1>3, <2>2, <2>7, <3>2
    <3> HIDE DEF R, Q
    <3> QED BY <2>2, <2>7, <3>1, <3>2, <3>3, <3>4
  <2>8. CASE v # k /\ Q(f, v) = R(f, v) /\ Q(v, t) # R(v, t)
    <3>1. /\ R(v, k) # NoRoute /\ R(k, t) # NoRoute
          /\ Q(v, t).weight = R(v, k).weight + R(k, t).weight
          /\ R(v, k).weight \in Nat /\ R(k, t).weight \in Nat
      BY <2>1, <2>3, <2>8
    <3>2. R(f, k) # NoRoute /\ R(f, k).weight <= R(f, v).weight + R(v, k).weight
      BY <1>1, <2>4, <2>8, <3>1
    <3>3. Q(f, t) # NoRoute /\ Q(f, t).weight <= R(f, k).weight + R(k, t).weight
      BY <1>2, <3>1, <3>2
    <3>4. R(f, k).weight \in Nat /\ R(f, v).weight \in Nat
      BY <1>1, <1>3, <2>2, <2>8, <3>2
    <3> HIDE DEF R, Q
    <3> QED BY <2>2, <2>8, <3>1, <3>2, <3>3, <3>4
  <2>9. CASE v # k /\ Q(f, v) # R(f, v) /\ Q(v, t) # R(v, t)
    <3>1. /\ R(f, k) # NoRoute /\ R(k, v) # NoRoute
          /\ Q(f, v).weight = R(f, k).weight + R(k, v).weight
          /\ R(f, k).weight \in Nat /\ R(k, v).weight \in Nat
      BY <2>1, <2>3, <2>9
    <3>2. /\ R(v, k) # NoRoute /\ R(k, t) # NoRoute
          /\ Q(v, t).weight = R(v, k).weight + R(k, t).weight
          /\ R(v, k).weight \in Nat /\ R(k, t).weight \in Nat
      BY <2>1, <2>3, <2>9
    <3>3. Q(f, t) # NoRoute /\ Q(f, t).weight <= R(f, k).weight + R(k, t).weight
      BY <1>2, <3>1, <3>2
    <3> HIDE DEF R, Q
    <3> QED BY <2>2, <3>1, <3>2, <3>3
  <2> QED BY <2>5, <2>6, <2>7, <2>8, <2>9
<1>13. NothingBeforeStart'
  BY <1>1 DEF NothingBeforeStart
<1> QED BY <1>7, <1>8, <1>9, <1>11, <1>12, <1>13 DEF IInv

LEMMA StepKeeps == IInv /\ [Next]_vars => IInv'
<1> SUFFICES ASSUME IInv, [Next]_vars PROVE IInv'
  OBVIOUS
<1>1. CASE Initialize
  BY <1>1, InitializeKeeps
<1>2. CASE Throw
  <2>1. /\ graph' = graph /\ routes' = routes /\ through' = through
        /\ phase = "new" /\ phase' = "failed"
    BY <1>2 DEF Throw
  <2>2. TypeOK'
    BY <2>1, Zenon DEF IInv, TypeOK, Phase, Route
  <2>3. NothingBeforeStart' /\ DiagonalFree' /\ NoEdgeBeats'
    BY <2>1 DEF IInv, NothingBeforeStart, DiagonalFree, NoEdgeBeats, NoRoutes
  <2>4. LastEdgeSound'
    BY <2>1 DEF IInv, LastEdgeSound
  <2>5. ClosedThrough'
    BY <2>1 DEF IInv, ClosedThrough
  <2> QED BY <2>2, <2>3, <2>4, <2>5, Zenon DEF IInv
<1>3. CASE RelaxThrough
  BY <1>3, RelaxThroughKeeps
<1>4. CASE UNCHANGED vars
  <2>1. /\ graph' = graph /\ routes' = routes /\ through' = through
        /\ phase' = phase
    BY <1>4 DEF vars
  <2>2. TypeOK' /\ NothingBeforeStart' /\ DiagonalFree' /\ NoEdgeBeats'
    BY <2>1, Zenon DEF IInv, TypeOK, Phase, Route, NothingBeforeStart, DiagonalFree,
                       NoEdgeBeats, NoRoutes
  <2>3. LastEdgeSound'
    BY <2>1 DEF IInv, LastEdgeSound
  <2>4. ClosedThrough'
    BY <2>1 DEF IInv, ClosedThrough
  <2> QED BY <2>2, <2>3, <2>4, Zenon DEF IInv
<1> QED BY <1>1, <1>2, <1>3, <1>4 DEF Next

(* On every graph the table keeps its invariant through all passes: in     *)
(* particular each route has a last edge after a route, which is what      *)
(* BuildRoute dereferences unasked.                                        *)
THEOREM TableInvariant == Spec => []IInv
BY InitEstablishes, StepKeeps, PTL DEF Spec

(* A pass never loses a route and never makes one longer.                  *)
THEOREM RoutesOnlyImprove == Spec => OnlyImproves
<1>1. IInv /\ [Next]_vars => [Improves]_vars
  <2> SUFFICES ASSUME IInv, RelaxThrough PROVE Improves
    BY DEF Next, Initialize, Throw, Improves
  <2>1. /\ IsGraph(graph, VertexCount) /\ routes \in Table /\ through \in Vertex
        /\ routes' = Relaxed(routes, through)
    BY RouteTableAssumption DEF IInv, TypeOK, RelaxThrough, Table, Vertex
  <2>2. IsPass(routes, through, routes')
    BY <2>1, RelaxedTable
  <2> QED BY <2>2 DEF IsPass, Improves
<1> QED BY <1>1, TableInvariant, PTL DEF Spec, OnlyImproves

-----------------------------------------------------------------------------
(* A walk of n edges: the vertices it visits and what it has cost so far.  *)
IsWalk(n, at, cost) ==
  /\ at \in [0 .. n -> Vertex]
  /\ cost \in [0 .. n -> Int]
  /\ cost[0] = 0
  /\ \A i \in 0 .. n - 1 : \E e \in EdgeIds(graph) :
       /\ graph.edges[e].from = at[i]
       /\ graph.edges[e].to = at[i + 1]
       /\ cost[i + 1] = cost[i] + graph.edges[e].weight

NoWalkIsCheaper ==
  Built => \A n \in Nat : \A at, cost : IsWalk(n, at, cost) =>
             /\ routes[at[0]][at[n]] # NoRoute
             /\ routes[at[0]][at[n]].weight <= cost[n]

LEMMA BuiltIsShortest == IInv => NoWalkIsCheaper
<1> SUFFICES ASSUME IInv, Built,
                    NEW n \in Nat, NEW at, NEW cost, IsWalk(n, at, cost)
             PROVE  /\ routes[at[0]][at[n]] # NoRoute
                    /\ routes[at[0]][at[n]].weight <= cost[n]
  BY DEF NoWalkIsCheaper
<1> USE RouteTableAssumption
<1> DEFINE Good(i) == /\ routes[at[0]][at[i]] # NoRoute
                      /\ routes[at[0]][at[i]].weight <= cost[i]
<1>1. /\ IsGraph(graph, VertexCount) /\ routes \in Table
      /\ \A i \in 0 .. n : at[i] \in Vertex /\ cost[i] \in Int
      /\ cost[0] = 0
  BY DEF IInv, TypeOK, Table, IsWalk
<1>2. Good(0)
  <2>1. routes[at[0]][at[0]] = [weight |-> 0, prev_edge |-> NoEdge]
    BY <1>1 DEF IInv, DiagonalFree, Built
  <2>2. routes[at[0]][at[0]] # NoRoute
    BY <2>1
  <2> QED BY <1>1, <2>1, <2>2
<1>3. ASSUME NEW i \in 0 .. n - 1, Good(i) PROVE Good(i + 1)
  <2>1. PICK e \in EdgeIds(graph) :
          /\ graph.edges[e].from = at[i]
          /\ graph.edges[e].to = at[i + 1]
          /\ cost[i + 1] = cost[i] + graph.edges[e].weight
    BY DEF IsWalk
  <2> DEFINE f == at[0]
             v == at[i]
             t == at[i + 1]
             w == graph.edges[e].weight
  <2>2. f \in Vertex /\ v \in Vertex /\ t \in Vertex /\ w \in Int /\ cost[i] \in Int
    BY <1>1, EdgeType
  <2>3. routes[v][t] # NoRoute /\ routes[v][t].weight <= w
    BY <2>1 DEF IInv, NoEdgeBeats, Built
  <2>4. v \in 0 .. through - 1
    BY <2>2 DEF Built, Vertex
  <2>5. routes[f][t] # NoRoute /\ routes[f][t].weight <= routes[f][v].weight + routes[v][t].weight
    BY <1>3, <2>2, <2>3, <2>4 DEF IInv, ClosedThrough
  <2>6. /\ routes[f][v].weight \in Nat /\ routes[v][t].weight \in Nat
        /\ routes[f][t].weight \in Nat
    BY <1>1, <1>3, <2>2, <2>3, <2>5, RouteFields DEF Table
  <2>7. routes[f][v].weight <= cost[i] /\ cost[i + 1] = cost[i] + w
    BY <1>3, <2>1
  <2> HIDE DEF f, v, t, w
  <2>8. routes[f][t].weight <= cost[i + 1]
    BY <2>2, <2>3, <2>5, <2>6, <2>7
  <2> QED BY <2>5, <2>8 DEF f, t
<1>4. \A i \in 0 .. n : Good(i)
  <2> DEFINE Bad == {i \in 0 .. n : ~Good(i)}
  <2> SUFFICES ASSUME Bad # {} PROVE FALSE
    OBVIOUS
  <2>1. PICK b \in Bad : \A c \in Bad : b <= c
    <3>1. Bad \in SUBSET Nat
      OBVIOUS
    <3> QED BY <3>1, LeastNat
  <2> HIDE DEF Good
  <2>2. b \in 0 .. n /\ b # 0 /\ ~Good(b)
    BY <1>2
  <2>3. b - 1 \in 0 .. n - 1 /\ Good(b - 1) /\ (b - 1) + 1 = b
    BY <2>1, <2>2
  <2> QED BY <1>3, <2>2, <2>3
<1>5. Good(n)
  BY <1>4
<1> QED BY <1>5

(* Once the table is built it has a route wherever the graph has a walk,   *)
(* and no walk, however long, is cheaper than the route.                   *)
THEOREM NoCheaperWalk == Spec => []NoWalkIsCheaper
BY TableInvariant, BuiltIsShortest, PTL

(* In a built table the route to a vertex costs exactly what the route to  *)
(* where its last edge starts costs, and that edge.                        *)
LEMMA LastEdgeExact ==
  ASSUME IInv, Built, NEW f \in Vertex, NEW t \in Vertex, routes[f][t] # NoRoute,
         NEW p, p = routes[f][t].prev_edge
  PROVE  /\ routes[f][t].weight \in Nat
         /\ p = NoEdge <=> f = t
         /\ f = t => routes[f][t].weight = 0
         /\ p # NoEdge =>
              /\ p \in EdgeIds(graph)
              /\ graph.edges[p].from \in Vertex
              /\ graph.edges[p].to = t
              /\ graph.edges[p].weight \in Nat
              /\ routes[f][graph.edges[p].from] # NoRoute
              /\ routes[f][t].weight
                   = routes[f][graph.edges[p].from].weight + graph.edges[p].weight
<1> USE RouteTableAssumption
<1>1. /\ IsGraph(graph, VertexCount)
      /\ \A a, b \in Vertex : routes[a][b] \in Route \cup {NoRoute}
      /\ phase = "relaxing" /\ through = VertexCount
  BY DEF IInv, TypeOK, Built
<1>2. \A a, b \in Vertex : routes[a][b] # NoRoute => routes[a][b].weight \in Nat
  BY <1>1, RouteFields
<1>3. CASE f = t
  <2>1. routes[f][t] = [weight |-> 0, prev_edge |-> NoEdge]
    BY <1>1, <1>3 DEF IInv, DiagonalFree
  <2> QED BY <1>3, <2>1
<1>4. CASE f # t
  <2> DEFINE v == graph.edges[p].from
             w == graph.edges[p].weight
  <2>1. /\ p \in EdgeIds(graph) /\ graph.edges[p].to = t
        /\ routes[f][v] # NoRoute /\ routes[f][t].weight >= routes[f][v].weight + w
    BY <1>4 DEF IInv, LastEdgeSound
  <2>2. p \in Nat /\ v \in Vertex /\ w \in Int
    BY <1>1, <2>1, EdgeType DEF Vertex
  <2>3. routes[v][t] # NoRoute /\ routes[v][t].weight <= w
    BY <1>1, <2>1 DEF IInv, NoEdgeBeats
  <2>4. v \in 0 .. through - 1
    BY <1>1, <2>2 DEF Vertex
  <2>5. routes[f][t].weight <= routes[f][v].weight + routes[v][t].weight
    BY <2>1, <2>3, <2>4 DEF IInv, ClosedThrough
  <2>6. /\ routes[f][t].weight \in Nat /\ routes[f][v].weight \in Nat
        /\ routes[v][t].weight \in Nat
    BY <1>2, <2>1, <2>2, <2>3
  <2>7. p # NoEdge
    BY <2>2
  <2> HIDE DEF v, w
  <2>8. w \in Nat /\ routes[f][t].weight = routes[f][v].weight + w
    BY <2>1, <2>2, <2>3, <2>5, <2>6
  <2> QED BY <1>4, <2>1, <2>2, <2>6, <2>7, <2>8 DEF v, w
<1> QED BY <1>3, <1>4

-----------------------------------------------------------------------------
(* Around a cycle of weight zero weights alone do not tell in which order  *)
(* routes continue each other.  A rank does, where the weights are equal:  *)
(* the route to where the last edge starts is cheaper, or of lower rank.   *)
RankBelow(b) == [Vertex -> [Vertex -> 0 .. b]]

Before(rank, f, v, t) ==
  \/ routes[f][v].weight < routes[f][t].weight
  \/ routes[f][v].weight = routes[f][t].weight /\ rank[f][v] < rank[f][t]

Ranks(rank) ==
  \A f, t \in Vertex : (f # t /\ routes[f][t] # NoRoute) =>
     Before(rank, f, graph.edges[routes[f][t].prev_edge].from, t)

Ranked == phase = "relaxing" => \E b \in Nat : \E rank \in RankBelow(b) : Ranks(rank)

(* At first a route is an edge that starts where the route does.           *)
LEMMA InitializeRanks == IInv /\ Initialize => Ranked'
<1> SUFFICES ASSUME IInv, Initialize PROVE Ranked'
  OBVIOUS
<1> USE RouteTableAssumption
<1>1. /\ IsGraph(graph, VertexCount) /\ ~HasNegativeEdge /\ graph' = graph
      /\ \A f, t \in Vertex : routes'[f][t] = InitialRoute(f, t)
  BY DEF IInv, TypeOK, Initialize
<1> DEFINE rank == [f \in Vertex |-> [t \in Vertex |-> IF f = t THEN 0 ELSE 1]]
<1>2. rank \in RankBelow(1)
  BY DEF RankBelow
<1>3. ASSUME NEW f \in Vertex, NEW t \in Vertex, f # t, routes'[f][t] # NoRoute
      PROVE  (Before(rank, f, graph.edges[routes[f][t].prev_edge].from, t))'
  <2> DEFINE e == FirstCheapest(f, t)
  <2>1. EdgesBetween(f, t) # {} /\ InitialRoute(f, t) = [weight |-> graph.edges[e].weight, prev_edge |-> e]
    BY <1>1, <1>3 DEF InitialRoute
  <2>2. e \in EdgesBetween(f, t)
    BY <1>1, <1>3, <2>1, FirstCheapestExists
  <2>3. graph.edges[e].from = f /\ graph.edges[e].weight \in Nat
    BY <1>1, <2>2, EdgeType DEF EdgesBetween, HasNegativeEdge
  <2>4. InitialRoute(f, f).weight = 0
    BY DEF InitialRoute
  <2> HIDE DEF e
  <2>5. /\ routes'[f][t].weight \in Nat /\ routes'[f][t].prev_edge = e
        /\ routes'[f][f].weight = 0 /\ graph'.edges[e].from = f
    BY <1>1, <2>1, <2>3, <2>4
  <2>6. rank[f][f] = 0 /\ rank[f][t] = 1
    BY <1>3
  <2> HIDE DEF rank
  <2> QED BY <2>5, <2>6 DEF Before
<1>4. (Ranks(rank))'
  BY <1>3 DEF Ranks
<1> QED BY <1>2, <1>4 DEF Ranked

(* A pass gives the routes that it improves a rank above all others of     *)
(* their row, in the order of the halves they end with.                    *)
LEMMA RelaxThroughRanks == IInv /\ Ranked /\ RelaxThrough => Ranked'
<1> SUFFICES ASSUME IInv, Ranked, RelaxThrough PROVE Ranked'
  OBVIOUS
<1> USE RouteTableAssumption
<1>1. /\ IsGraph(graph, VertexCount) /\ graph' = graph
      /\ phase = "relaxing" /\ through \in Vertex /\ routes \in Table
      /\ routes' = Relaxed(routes, through)
  BY DEF IInv, TypeOK, RelaxThrough, Table, Vertex
<1>2. PICK k \in Vertex : k = through
  BY <1>1
<1>3. PICK b \in Nat : \E rank \in RankBelow(b) : Ranks(rank)
  BY <1>1 DEF Ranked
<1>4. PICK rank \in RankBelow(b) : Ranks(rank)
  BY <1>3
<1> DEFINE R(f, t) == routes[f][t]
           Q(f, t) == routes'[f][t]
           r(f, t) == rank[f][t]
           table == [f \in Vertex |-> [t \in Vertex |->
                     IF Q(f, t) = R(f, t) THEN r(f, t) ELSE b + 1 + r(k, t)]]
           c == 2 * b + 1
<1>5. \A f, t \in Vertex : r(f, t) \in Nat /\ r(f, t) <= b
  BY <1>4 DEF RankBelow
<1>6. c \in Nat /\ table \in RankBelow(c)
  BY <1>5 DEF RankBelow
<1>7. PICK new \in RankBelow(c) : \A f, t \in Vertex :
        /\ Q(f, t) = R(f, t) => new[f][t] = r(f, t)
        /\ Q(f, t) # R(f, t) => new[f][t] = b + 1 + r(k, t)
  <2>1. \A f, t \in Vertex :
          /\ Q(f, t) = R(f, t) => table[f][t] = r(f, t)
          /\ Q(f, t) # R(f, t) => table[f][t] = b + 1 + r(k, t)
    OBVIOUS
  <2> HIDE DEF table
  <2> QED BY <1>6, <2>1
<1> HIDE DEF table
<1>8. IsPass(routes, k, routes')
  BY <1>1, <1>2, RelaxedTable
<1>9. /\ \A f, t \in Vertex : R(f, t) # NoRoute =>
            Q(f, t) # NoRoute /\ Q(f, t).weight <= R(f, t).weight
      /\ \A f, t \in Vertex : (R(f, k) # NoRoute /\ R(k, t) # NoRoute) =>
            Q(f, t) # NoRoute /\ Q(f, t).weight <= R(f, k).weight + R(k, t).weight
      /\ \A f, t \in Vertex : Q(f, t) # R(f, t) =>
            /\ R(f, k) # NoRoute /\ R(k, t) # NoRoute
            /\ Q(f, t) = Joined(R(f, k), R(k, t))
            /\ R(f, t) = NoRoute \/ R(f, k).weight + R(k, t).weight < R(f, t).weight
  BY <1>8 DEF IsPass
<1>10. /\ \A f, t \in Vertex : R(f, t) # NoRoute =>
             R(f, t) \in Route /\ R(f, t).weight \in Nat
       /\ \A f, t \in Vertex : Q(f, t) # NoRoute => Q(f, t).weight \in Nat
  <2>1. routes' \in Table
    BY <1>8 DEF IsPass
  <2> QED BY <1>1, <2>1, RouteFields DEF Table
<1>11. \A f, t \in Vertex : Q(f, t) # R(f, t) =>
         /\ Q(f, t).weight = R(f, k).weight + R(k, t).weight
         /\ R(k, t).prev_edge # NoEdge => Q(f, t).prev_edge = R(k, t).prev_edge
  BY <1>9, <1>10, JoinedIsRoute
<1>12. \A v \in Vertex : R(v, v) # NoRoute /\ R(v, v).weight = 0
  BY <1>1 DEF IInv, DiagonalFree
(* What the table of before says of the last edge of a route.              *)
<1>13. ASSUME NEW f \in Vertex, NEW t \in Vertex, f # t, R(f, t) # NoRoute,
              NEW v, v = graph.edges[R(f, t).prev_edge].from
       PROVE  /\ v \in Vertex /\ R(f, v) # NoRoute /\ R(f, t).prev_edge # NoEdge
              /\ \/ R(f, v).weight < R(f, t).weight
                 \/ R(f, v).weight = R(f, t).weight /\ r(f, v) < r(f, t)
  <2>1. R(f, t).prev_edge \in EdgeIds(graph) /\ R(f, v) # NoRoute
    BY <1>13 DEF IInv, LastEdgeSound
  <2>2. v \in Vertex /\ R(f, t).prev_edge \in Nat
    BY <1>1, <1>13, <2>1, EdgeType DEF Vertex
  <2>3. Before(rank, f, v, t)
    BY <1>4, <1>13 DEF Ranks
  <2> QED BY <2>1, <2>2, <2>3 DEF Before
<1> SUFFICES ASSUME NEW f \in Vertex, NEW t \in Vertex, f # t, Q(f, t) # NoRoute,
                    NEW v, v = graph.edges[Q(f, t).prev_edge].from
             PROVE  \/ Q(f, v).weight < Q(f, t).weight
                    \/ Q(f, v).weight = Q(f, t).weight /\ new[f][v] < new[f][t]
  <2>1. \A f, t \in Vertex : (f # t /\ Q(f, t) # NoRoute) =>
           (Before(new, f, graph.edges[routes[f][t].prev_edge].from, t))'
    BY <1>1, ZenonT(60) DEF Before
  <2>2. (Ranks(new))'
    BY <2>1 DEF Ranks
  <2> QED BY <1>6, <1>7, <2>2 DEF Ranked
<1>14. CASE Q(f, t) = R(f, t)
  <2>1. /\ v \in Vertex /\ R(f, v) # NoRoute
        /\ \/ R(f, v).weight < R(f, t).weight
           \/ R(f, v).weight = R(f, t).weight /\ r(f, v) < r(f, t)
    <3>1. R(f, t) # NoRoute /\ v = graph.edges[R(f, t).prev_edge].from
      BY <1>14, Zenon
    <3> HIDE DEF R, r
    <3> QED BY <3>1, <1>13
  <2>2. R(f, v).weight \in Nat /\ R(f, t).weight \in Nat /\ Q(f, v).weight \in Nat
    BY <1>9, <1>10, <1>14, <2>1
  <2>3. CASE Q(f, v) = R(f, v)
    BY <1>7, <1>14, <2>1, <2>3
  <2>4. CASE Q(f, v) # R(f, v)
    <3>1. Q(f, v).weight < R(f, v).weight
      BY <1>9, <1>11, <2>1, <2>4
    <3> HIDE DEF R, Q
    <3> QED BY <1>14, <2>1, <2>2, <3>1
  <2> QED BY <2>3, <2>4
<1>15. CASE Q(f, t) # R(f, t)
  <2>1. /\ R(f, k) # NoRoute /\ R(k, t) # NoRoute
        /\ Q(f, t).weight = R(f, k).weight + R(k, t).weight
    BY <1>9, <1>11, <1>15
  <2>2. k # t
    <3> SUFFICES ASSUME k = t PROVE FALSE
      OBVIOUS
    <3>1. R(f, k).weight \in Nat /\ R(k, k).weight = 0 /\ R(f, k) = R(f, t)
      BY <1>10, <1>12, <2>1
    <3>2. R(f, k).weight + R(k, t).weight < R(f, t).weight
      BY <1>9, <1>15, <2>1, <3>1
    <3> QED BY <3>1, <3>2
  <2>3. Q(f, t).prev_edge = R(k, t).prev_edge
    <3>1. R(k, t).prev_edge # NoEdge
      BY <1>13, <2>1, <2>2
    <3> QED BY <1>11, <1>15, <3>1
  <2>4. /\ v \in Vertex /\ R(k, v) # NoRoute
        /\ \/ R(k, v).weight < R(k, t).weight
           \/ R(k, v).weight = R(k, t).weight /\ r(k, v) < r(k, t)
    <3>1. R(k, t) # NoRoute /\ v = graph.edges[R(k, t).prev_edge].from
      BY <2>1, <2>3, Zenon
    <3> HIDE DEF R, r
    <3> QED BY <3>1, <2>2, <1>13
  <2>5. Q(f, v) # NoRoute /\ Q(f, v).weight <= R(f, k).weight + R(k, v).weight
    BY <1>9, <2>1, <2>4
  <2>6. /\ R(f, k).weight \in Nat /\ R(k, t).weight \in Nat /\ R(k, v).weight \in Nat
        /\ Q(f, v).weight \in Nat
    BY <1>10, <2>1, <2>4, <2>5
  <2>7. /\ r(k, v) \in Nat /\ r(k, t) \in Nat /\ r(f, v) \in Nat /\ r(f, v) <= b
    BY <1>5, <2>4
  <2>8. /\ new[f][t] = b + 1 + r(k, t)
        /\ Q(f, v) = R(f, v) => new[f][v] = r(f, v)
        /\ Q(f, v) # R(f, v) => new[f][v] = b + 1 + r(k, v)
    BY <1>7, <1>15, <2>4
  <2>9. Q(f, v) # R(f, v) => Q(f, v).weight = R(f, k).weight + R(k, v).weight
    BY <1>11, <2>4
  <2> HIDE DEF R, Q, r
  <2>10. CASE Q(f, v) = R(f, v)
    BY <2>1, <2>4, <2>5, <2>6, <2>7, <2>8, <2>10
  <2>11. CASE Q(f, v) # R(f, v)
    BY <2>1, <2>4, <2>5, <2>6, <2>7, <2>8, <2>9, <2>11, SMTT(20)
  <2> QED BY <2>10, <2>11
<1> QED BY <1>14, <1>15

LEMMA StepRanks == IInv /\ Ranked /\ [Next]_vars => Ranked'
<1> SUFFICES ASSUME IInv, Ranked, [Next]_vars PROVE Ranked'
  OBVIOUS
<1>1. CASE Initialize
  BY <1>1, InitializeRanks
<1>2. CASE Throw
  BY <1>2 DEF Throw, Ranked
<1>3. CASE RelaxThrough
  BY <1>3, RelaxThroughRanks
<1>4. CASE UNCHANGED vars
  <2>1. phase' = phase /\ routes' = routes /\ graph' = graph
    BY <1>4 DEF vars
  <2>2. ASSUME NEW rank, Ranks(rank) PROVE Ranks(rank)'
    BY <2>1, <2>2, Zenon DEF Ranks, Before
  <2> QED BY <2>1, <2>2 DEF Ranked, RankBelow
<1> QED BY <1>1, <1>2, <1>3, <1>4 DEF Next

LEMMA BeforeIsAnOrder ==
  ASSUME IInv, NEW b \in Nat, NEW rank \in RankBelow(b), NEW f \in Vertex,
         NEW u \in Vertex, NEW v \in Vertex, NEW t \in Vertex,
         routes[f][u] # NoRoute, routes[f][v] # NoRoute, routes[f][t] # NoRoute
  PROVE  /\ ~Before(rank, f, t, t)
         /\ Before(rank, f, u, v) /\ Before(rank, f, v, t) => Before(rank, f, u, t)
<1>1. \A x \in Vertex : routes[f][x] # NoRoute => routes[f][x].weight \in Nat
  BY RouteFields DEF IInv, TypeOK
<1>2. \A x \in Vertex : rank[f][x] \in Nat
  BY DEF RankBelow
<1> DEFINE w(x) == routes[f][x].weight
           r(x) == rank[f][x]
<1>3. /\ w(u) \in Nat /\ w(v) \in Nat /\ w(t) \in Nat
      /\ r(u) \in Nat /\ r(v) \in Nat /\ r(t) \in Nat
  BY <1>1, <1>2
<1>4. \A x, y : Before(rank, f, x, y) <=> \/ w(x) < w(y)
                                          \/ w(x) = w(y) /\ r(x) < r(y)
  BY DEF Before
<1> HIDE DEF w, r
<1> QED BY <1>3, <1>4

-----------------------------------------------------------------------------
(* The reference Distances: what one more edge does to a table of weights. *)
Weights == [Vertex -> [Vertex -> Nat \cup {NoRoute}]]

LEMMA BuiltWeights ==
  ASSUME IInv, Built
  PROVE  \A e \in EdgeIds(graph) :
           /\ graph.edges[e].from \in Vertex
           /\ graph.edges[e].to \in Vertex
           /\ graph.edges[e].weight \in Nat
<1> SUFFICES ASSUME NEW e \in EdgeIds(graph)
             PROVE  /\ graph.edges[e].from \in Vertex
                    /\ graph.edges[e].to \in Vertex
                    /\ graph.edges[e].weight \in Nat
  OBVIOUS
<1> USE RouteTableAssumption
<1> DEFINE f == graph.edges[e].from
           t == graph.edges[e].to
<1>1. IsGraph(graph, VertexCount) /\ phase = "relaxing"
  BY DEF IInv, TypeOK, Built
<1>2. f \in Vertex /\ t \in Vertex /\ graph.edges[e].weight \in Int
  BY <1>1, EdgeType DEF Vertex
<1>3. routes[f][t] # NoRoute /\ routes[f][t].weight <= graph.edges[e].weight
  BY <1>1 DEF IInv, NoEdgeBeats
<1>4. routes[f][t].weight \in Nat
  BY <1>2, <1>3, RouteFields DEF IInv, TypeOK
<1> QED BY <1>2, <1>3, <1>4

LEMMA OneEdgeMoreType ==
  ASSUME IInv, Built, NEW d, d \in Weights
  PROVE  /\ OneEdgeMore(d) \in Weights
         /\ \A f, t \in Vertex :
              LET x == OneEdgeMore(d)[f][t] IN
              /\ x = NoRoute <=> WalkWeights(d, f, t) = {}
              /\ x # NoRoute => x \in WalkWeights(d, f, t)
              /\ \A y \in WalkWeights(d, f, t) : y \in Nat /\ x <= y
<1> USE RouteTableAssumption
<1> DEFINE L(f, t) == CHOOSE x \in WalkWeights(d, f, t) :
                        \A y \in WalkWeights(d, f, t) : x <= y
<1>1. ASSUME NEW f \in Vertex, NEW t \in Vertex
      PROVE  WalkWeights(d, f, t) \in SUBSET Nat
  <2>1. ASSUME NEW e \in EdgeIds(graph), d[f][graph.edges[e].from] # NoRoute
        PROVE  d[f][graph.edges[e].from] + graph.edges[e].weight \in Nat
    <3>1. graph.edges[e].from \in Vertex /\ graph.edges[e].weight \in Nat
      BY BuiltWeights
    <3>2. d[f][graph.edges[e].from] \in Nat
      BY <2>1, <3>1 DEF Weights
    <3> QED BY <3>1, <3>2
  <2>2. d[f][t] \in Nat \cup {NoRoute}
    BY DEF Weights
  <2> QED BY <2>1, <2>2 DEF WalkWeights
<1>2. ASSUME NEW f \in Vertex, NEW t \in Vertex, WalkWeights(d, f, t) # {}
      PROVE  /\ L(f, t) \in WalkWeights(d, f, t)
             /\ \A y \in WalkWeights(d, f, t) : L(f, t) <= y
  <2>1. \E x \in WalkWeights(d, f, t) : \A y \in WalkWeights(d, f, t) : x <= y
    BY <1>1, <1>2, LeastNat
  <2> QED BY <2>1
<1> HIDE DEF L
<1>3. OneEdgeMore(d) = [f \in Vertex |-> [t \in Vertex |->
         IF WalkWeights(d, f, t) = {} THEN NoRoute ELSE L(f, t)]]
  BY DEF OneEdgeMore, L
<1>4. \A f, t \in Vertex : OneEdgeMore(d)[f][t] =
         IF WalkWeights(d, f, t) = {} THEN NoRoute ELSE L(f, t)
  BY <1>3
<1>5. \A f, t \in Vertex : WalkWeights(d, f, t) # {} => L(f, t) \in Nat /\ L(f, t) # NoRoute
  BY <1>1, <1>2
<1>6. OneEdgeMore(d) \in Weights
  BY <1>3, <1>5 DEF Weights
<1>7. ASSUME NEW f \in Vertex, NEW t \in Vertex, NEW x, x = OneEdgeMore(d)[f][t]
      PROVE  /\ x = NoRoute <=> WalkWeights(d, f, t) = {}
             /\ x # NoRoute => x \in WalkWeights(d, f, t)
             /\ \A y \in WalkWeights(d, f, t) : y \in Nat /\ x <= y
  <2>1. CASE WalkWeights(d, f, t) = {}
    BY <1>4, <1>7, <2>1
  <2>2. CASE WalkWeights(d, f, t) # {}
    <3>1. x = L(f, t)
      BY <1>4, <1>7, <2>2
    <3> QED BY <1>1, <1>2, <1>5, <2>2, <3>1
  <2> QED BY <2>1, <2>2
<1> QED BY <1>6, <1>7

(* The weights of the lightest walks of at most k edges, for each k up to n. *)
Iterates(h, n) ==
  /\ h \in [0 .. n -> Weights]
  /\ h[0] = WithoutEdges
  /\ \A k \in 1 .. n : h[k] = OneEdgeMore(h[k - 1])

LEMMA IteratesExist ==
  ASSUME IInv, Built, NEW n \in Nat PROVE \E h : Iterates(h, n)
<1> DEFINE T == {m \in Nat : ~\E h : Iterates(h, m)}
<1>1. ASSUME T # {} PROVE FALSE
  <2>1. PICK m \in T : \A y \in T : m <= y
    <3> HIDE DEF T
    <3>1. T \in SUBSET Nat
      BY DEF T
    <3> QED BY <1>1, <3>1, LeastNat
  <2>2. m \in Nat /\ ~\E h : Iterates(h, m)
    OBVIOUS
  <2>3. m # 0
    <3>1. WithoutEdges \in Weights
      BY DEF WithoutEdges, Weights
    <3>2. Iterates([k \in 0 .. 0 |-> WithoutEdges], 0)
      BY <3>1 DEF Iterates
    <3> QED BY <2>2, <3>2
  <2>4. m - 1 \in Nat /\ \E h : Iterates(h, m - 1)
    BY <2>1, <2>2, <2>3
  <2>5. PICK h : Iterates(h, m - 1)
    BY <2>4
  <2>6. h[m - 1] \in Weights /\ h \in [0 .. m - 1 -> Weights]
    BY <2>4, <2>5 DEF Iterates
  <2> DEFINE x == OneEdgeMore(h[m - 1])
             g == [k \in 0 .. m |-> IF k = m THEN x ELSE h[k]]
  <2>7. x \in Weights
    BY <2>6, OneEdgeMoreType
  <2> HIDE DEF x
  <2>8. /\ g \in [0 .. m -> Weights]
        /\ g[m] = x
        /\ \A k \in 0 .. m - 1 : g[k] = h[k]
    BY <2>2, <2>3, <2>6, <2>7
  <2> HIDE DEF g
  <2>9. ASSUME NEW k \in 1 .. m PROVE g[k] = OneEdgeMore(g[k - 1])
    <3>1. k - 1 \in 0 .. m - 1 /\ k \in Int /\ 1 <= k /\ k <= m
      BY <2>2
    <3>2. g[k - 1] = h[k - 1]
      BY <2>8, <3>1
    <3>3. CASE k = m
      BY <2>8, <3>2, <3>3 DEF x
    <3>4. CASE k # m
      <4>1. k \in 0 .. m - 1 /\ k \in 1 .. m - 1
        BY <2>2, <3>1, <3>4
      <4>2. h[k] = OneEdgeMore(h[k - 1])
        BY <2>5, <4>1 DEF Iterates
      <4> QED BY <2>8, <3>2, <4>1, <4>2
    <3> QED BY <3>3, <3>4
  <2>10. g[0] = WithoutEdges
    BY <2>2, <2>3, <2>5, <2>8 DEF Iterates
  <2>11. Iterates(g, m)
    BY <2>8, <2>9, <2>10 DEF Iterates
  <2> QED BY <2>2, <2>11
<1> QED BY <1>1

LEMMA DistancesAreIterates ==
  ASSUME IInv, Built
  PROVE  \E h : Iterates(h, VertexCount) /\ Distances = h[VertexCount]
<1> USE RouteTableAssumption
<1> DEFINE Is(h) == h = [k \in 0 .. VertexCount |->
                          IF k = 0 THEN WithoutEdges ELSE OneEdgeMore(h[k - 1])]
<1>1. PICK g : Iterates(g, VertexCount)
  BY IteratesExist
<1>2. Is(g)
  <2>1. g = [k \in 0 .. VertexCount |-> g[k]]
    BY <1>1 DEF Iterates
  <2>2. ASSUME NEW k \in 0 .. VertexCount
        PROVE  g[k] = IF k = 0 THEN WithoutEdges ELSE OneEdgeMore(g[k - 1])
    <3>1. CASE k = 0
      BY <1>1, <3>1 DEF Iterates
    <3>2. CASE k # 0
      BY <1>1, <3>2 DEF Iterates
    <3> QED BY <3>1, <3>2
  <2> QED BY <2>1, <2>2
<1>3. PICK f : f = CHOOSE h : Is(h)
  OBVIOUS
<1>4. Distances = f[VertexCount]
  BY <1>3 DEF Distances
<1> HIDE DEF Is
<1>5. Is(f)
  BY <1>2, <1>3, Zenon
(* A function that satisfies the recursion is g: they cannot first differ. *)
<1>6. \A k \in 0 .. VertexCount : f[k] = g[k]
  <2> DEFINE T == {k \in 0 .. VertexCount : f[k] # g[k]}
  <2> SUFFICES ASSUME T # {} PROVE FALSE
    OBVIOUS
  <2>1. PICK m \in T : \A y \in T : m <= y
    <3> HIDE DEF T
    <3>1. T \in SUBSET Nat
      BY DEF T
    <3> QED BY <3>1, LeastNat
  <2>2. \A k \in 0 .. VertexCount : f[k] = IF k = 0 THEN WithoutEdges ELSE OneEdgeMore(f[k - 1])
    BY <1>5 DEF Is
  <2>3. m \in 0 .. VertexCount /\ f[m] # g[m]
    OBVIOUS
  <2>4. CASE m = 0
    BY <1>1, <2>2, <2>3, <2>4 DEF Iterates
  <2>5. CASE m # 0
    <3>1. m - 1 \in 0 .. VertexCount /\ m \in 1 .. VertexCount /\ ~(m <= m - 1)
      BY <2>3, <2>5
    <3>2. f[m - 1] = g[m - 1]
      BY <2>1, <3>1
    <3>3. f[m] = OneEdgeMore(f[m - 1]) /\ g[m] = OneEdgeMore(g[m - 1])
      BY <1>1, <2>2, <2>3, <2>5, <3>1 DEF Iterates
    <3> QED BY <2>3, <3>2, <3>3
  <2> QED BY <2>4, <2>5
<1>7. f[VertexCount] = g[VertexCount]
  BY <1>6
<1> QED BY <1>1, <1>4, <1>7

(* However many edges it may have, no walk is lighter than the route.      *)
LEMMA NoIterateBeats ==
  ASSUME IInv, Built, NEW h, NEW n \in Nat, Iterates(h, n), NEW k \in 0 .. n,
         NEW f \in Vertex, NEW t \in Vertex, h[k][f][t] # NoRoute
  PROVE  routes[f][t] # NoRoute /\ routes[f][t].weight <= h[k][f][t]
<1> USE RouteTableAssumption
<1> DEFINE Good(m) == \A a, b \in Vertex : h[m][a][b] # NoRoute =>
                        routes[a][b] # NoRoute /\ routes[a][b].weight <= h[m][a][b]
           T == {m \in 0 .. n : ~Good(m)}
<1>1. ASSUME T # {} PROVE FALSE
  <2>1. PICK m \in T : \A y \in T : m <= y
    <3> HIDE DEF T
    <3>1. T \in SUBSET Nat
      BY DEF T
    <3> QED BY <1>1, <3>1, LeastNat
  <2>2. m \in 0 .. n /\ ~Good(m)
    BY <2>1
  <2>3. \A v \in Vertex : routes[v][v] # NoRoute /\ routes[v][v].weight = 0
    BY DEF IInv, DiagonalFree, Built
  <2>4. CASE m = 0
    <3>1. \A a, b \in Vertex : h[m][a][b] = IF a = b THEN 0 ELSE NoRoute
      BY <2>4 DEF Iterates, WithoutEdges
    <3> QED BY <2>2, <2>3, <3>1
  <2>5. CASE m # 0
    <3>1. m - 1 \in 0 .. n /\ m \in 1 .. n /\ ~(m <= m - 1)
      BY <2>2, <2>5
    <3>2. Good(m - 1)
      <4>1. m - 1 \notin T
        <5> HIDE DEF T
        <5> QED BY <2>1, <3>1
      <4> HIDE DEF Good
      <4> QED BY <3>1, <4>1
    <3>3. PICK d : d = h[m - 1] /\ d \in Weights /\ h[m] = OneEdgeMore(d)
      BY <3>1 DEF Iterates
    <3>4. ASSUME NEW a \in Vertex, NEW b \in Vertex, h[m][a][b] # NoRoute
          PROVE  routes[a][b] # NoRoute /\ routes[a][b].weight <= h[m][a][b]
      <4>1. PICK x : x = h[m][a][b]
        OBVIOUS
      <4>2. x \in WalkWeights(d, a, b)
        BY <3>3, <3>4, <4>1, OneEdgeMoreType
      <4>3. CASE x = d[a][b] /\ x # NoRoute
        BY <3>2, <3>3, <4>1, <4>3
      <4>4. CASE \E e \in EdgeIds(graph) :
                   /\ graph.edges[e].to = b /\ d[a][graph.edges[e].from] # NoRoute
                   /\ x = d[a][graph.edges[e].from] + graph.edges[e].weight
        <5>1. PICK e \in EdgeIds(graph) :
                   /\ graph.edges[e].to = b /\ d[a][graph.edges[e].from] # NoRoute
                   /\ x = d[a][graph.edges[e].from] + graph.edges[e].weight
          BY <4>4
        <5>2. PICK v, w : v = graph.edges[e].from /\ w = graph.edges[e].weight
          OBVIOUS
        <5>3. v \in Vertex /\ w \in Nat
          BY <5>2, BuiltWeights
        <5>a. d[a][v] # NoRoute
          BY <5>1, <5>2, Zenon
        <5>b. d[a][v] \in Nat
          BY <3>3, <5>3, <5>a DEF Weights
        <5>c. routes[a][v] # NoRoute /\ routes[a][v].weight <= d[a][v]
          BY <3>2, <3>3, <5>3, <5>a, Zenon
        <5>4. routes[a][v] # NoRoute /\ routes[a][v].weight <= d[a][v] /\ d[a][v] \in Nat
          BY <5>b, <5>c
        <5>5. routes[v][b] # NoRoute /\ routes[v][b].weight <= w
          BY <5>1, <5>2 DEF IInv, NoEdgeBeats, Built
        <5>6. v \in 0 .. through - 1
          BY <5>3 DEF Built, Vertex
        <5>7. routes[a][b] # NoRoute /\ routes[a][b].weight <= routes[a][v].weight + routes[v][b].weight
          BY <5>3, <5>4, <5>5, <5>6 DEF IInv, ClosedThrough
        <5>8. /\ routes[a][v].weight \in Nat /\ routes[v][b].weight \in Nat
              /\ routes[a][b].weight \in Nat
          BY <5>3, <5>4, <5>5, <5>7, RouteFields DEF IInv, TypeOK
        <5>9. x = d[a][v] + w
          BY <5>1, <5>2
        <5> QED BY <4>1, <5>3, <5>4, <5>5, <5>7, <5>8, <5>9
      <4> QED BY <4>2, <4>3, <4>4 DEF WalkWeights
    <3> QED BY <2>2, <3>4
  <2> QED BY <2>4, <2>5
<1>2. Good(k)
  <2> HIDE DEF Good
  <2> QED BY <1>1
<1> QED BY <1>2

(* The vertices whose route from f comes before that to t, in the order of *)
(* a rank.                                                                 *)
Below(rank, f, t) == {u \in Vertex : routes[f][u] # NoRoute /\ Before(rank, f, u, t)}

LEMMA BelowIsFinite ==
  ASSUME NEW rank, NEW f, NEW t
  PROVE  /\ IsFiniteSet(Below(rank, f, t))
         /\ Cardinality(Below(rank, f, t)) \in Nat
         /\ Cardinality(Below(rank, f, t)) <= VertexCount
<1> USE RouteTableAssumption
<1>1. IsFiniteSet(Vertex) /\ Cardinality(Vertex) = VertexCount
  <2>1. CASE VertexCount = 0
    <3>1. Vertex = {}
      BY <2>1 DEF Vertex
    <3> QED BY <2>1, <3>1, FS_EmptySet
  <2>2. CASE VertexCount # 0
    BY <2>2, FS_Interval DEF Vertex
  <2> QED BY <2>1, <2>2
<1>2. Below(rank, f, t) \subseteq Vertex
  BY DEF Below
<1> QED BY <1>1, <1>2, FS_Subset, FS_CardinalityType

LEMMA BelowGrows ==
  ASSUME IInv, Built, NEW b \in Nat, NEW rank \in RankBelow(b), NEW f \in Vertex,
         NEW v \in Vertex, NEW t \in Vertex, routes[f][v] # NoRoute,
         routes[f][t] # NoRoute, Before(rank, f, v, t)
  PROVE  Cardinality(Below(rank, f, v)) + 1 <= Cardinality(Below(rank, f, t))
<1>1. v \notin Below(rank, f, v)
  BY BeforeIsAnOrder DEF Below
<1>2. Below(rank, f, v) \cup {v} \subseteq Below(rank, f, t)
  BY BeforeIsAnOrder DEF Below
<1>3. Cardinality(Below(rank, f, v) \cup {v}) = Cardinality(Below(rank, f, v)) + 1
  BY <1>1, BelowIsFinite, FS_AddElement
<1>4. Cardinality(Below(rank, f, v) \cup {v}) <= Cardinality(Below(rank, f, t))
  BY <1>2, BelowIsFinite, FS_Subset
<1> QED BY <1>3, <1>4

(* Going back over the last edges of a route meets each vertex below it at *)
(* most once: so many edges weigh no more than the route.                  *)
LEMMA IteratesReach ==
  ASSUME IInv, Built, NEW b \in Nat, NEW rank \in RankBelow(b), Ranks(rank),
         NEW h, NEW n \in Nat, Iterates(h, n), NEW k \in 0 .. n,
         NEW f \in Vertex, NEW t \in Vertex, routes[f][t] # NoRoute,
         Cardinality(Below(rank, f, t)) <= k
  PROVE  h[k][f][t] # NoRoute /\ h[k][f][t] <= routes[f][t].weight
<1> USE RouteTableAssumption
<1> DEFINE C(a, c) == Cardinality(Below(rank, a, c))
           Good(m) == /\ \A a \in Vertex : h[m][a][a] # NoRoute /\ h[m][a][a] <= 0
                      /\ \A a, c \in Vertex : (routes[a][c] # NoRoute /\ C(a, c) <= m) =>
                           h[m][a][c] # NoRoute /\ h[m][a][c] <= routes[a][c].weight
           T == {m \in 0 .. n : ~Good(m)}
<1>1. \A a, c \in Vertex : C(a, c) \in Nat
  BY BelowIsFinite
<1>2. \A v \in Vertex : routes[v][v] # NoRoute /\ routes[v][v].weight = 0
  BY DEF IInv, DiagonalFree, Built
(* The last edge of a route that is not empty.                             *)
<1>3. ASSUME NEW a \in Vertex, NEW c \in Vertex, a # c, routes[a][c] # NoRoute
      PROVE  \E e \in EdgeIds(graph) :
               /\ graph.edges[e].to = c
               /\ routes[a][graph.edges[e].from] # NoRoute
               /\ routes[a][c].weight
                    = routes[a][graph.edges[e].from].weight + graph.edges[e].weight
               /\ C(a, graph.edges[e].from) + 1 <= C(a, c)
  <2>1. PICK p : p = routes[a][c].prev_edge
    OBVIOUS
  <2>2. p # NoEdge
    BY <1>3, <2>1, LastEdgeExact
  <2>3. /\ p \in EdgeIds(graph) /\ graph.edges[p].to = c
        /\ graph.edges[p].from \in Vertex
        /\ routes[a][graph.edges[p].from] # NoRoute
        /\ routes[a][c].weight = routes[a][graph.edges[p].from].weight + graph.edges[p].weight
    BY <1>3, <2>1, <2>2, LastEdgeExact, SMTT(20)
  <2>4. Before(rank, a, graph.edges[p].from, c)
    BY <1>3, <2>1 DEF Ranks
  <2>5. C(a, graph.edges[p].from) + 1 <= C(a, c)
    BY <1>3, <2>3, <2>4, BelowGrows
  <2> QED BY <2>3, <2>5
<1> HIDE DEF C
<1>4. ASSUME T # {} PROVE FALSE
  <2>1. PICK m \in T : \A y \in T : m <= y
    <3> HIDE DEF T
    <3>1. T \in SUBSET Nat
      BY DEF T
    <3> QED BY <1>4, <3>1, LeastNat
  <2>2. m \in 0 .. n /\ ~Good(m)
    BY <2>1
  <2>3. CASE m = 0
    <3>1. \A a, c \in Vertex : h[m][a][c] = IF a = c THEN 0 ELSE NoRoute
      BY <2>3 DEF Iterates, WithoutEdges
    <3>2. ASSUME NEW a \in Vertex, NEW c \in Vertex, routes[a][c] # NoRoute, C(a, c) <= m
          PROVE  a = c
      <4> SUFFICES ASSUME a # c PROVE FALSE
        OBVIOUS
      <4>1. PICK e \in EdgeIds(graph) : C(a, graph.edges[e].from) + 1 <= C(a, c)
        BY <1>3, <3>2
      <4>2. graph.edges[e].from \in Vertex
        BY BuiltWeights
      <4>3. C(a, graph.edges[e].from) \in Nat /\ C(a, c) \in Nat
        BY <1>1, <4>2
      <4> QED BY <2>3, <3>2, <4>1, <4>3
    <3>3. Good(m)
      BY <1>2, <3>1, <3>2, RouteTableAssumption
    <3> QED BY <2>2, <3>3
  <2>4. CASE m # 0
    <3>1. m - 1 \in 0 .. n /\ m \in 1 .. n /\ ~(m <= m - 1)
      BY <2>2, <2>4
    <3>2. Good(m - 1)
      <4>1. m - 1 \notin T
        <5> HIDE DEF T
        <5> QED BY <2>1, <3>1
      <4> HIDE DEF Good
      <4> QED BY <3>1, <4>1
    <3>3. PICK d : d = h[m - 1] /\ d \in Weights /\ h[m] = OneEdgeMore(d)
      BY <3>1 DEF Iterates
    <3>4. \A a, c \in Vertex : \A y \in WalkWeights(d, a, c) :
            y \in Nat /\ h[m][a][c] # NoRoute /\ h[m][a][c] <= y
      BY <3>3, OneEdgeMoreType
    <3>5. ASSUME NEW a \in Vertex
          PROVE  h[m][a][a] # NoRoute /\ h[m][a][a] <= 0
      <4>1. d[a][a] # NoRoute /\ d[a][a] <= 0 /\ d[a][a] \in Nat
        BY <3>2, <3>3 DEF Weights
      <4>2. d[a][a] \in WalkWeights(d, a, a) /\ d[a][a] = 0
        BY <4>1 DEF WalkWeights
      <4> QED BY <3>4, <4>2
    <3>6. ASSUME NEW a \in Vertex, NEW c \in Vertex, routes[a][c] # NoRoute, C(a, c) <= m
          PROVE  h[m][a][c] # NoRoute /\ h[m][a][c] <= routes[a][c].weight
      <4>1. CASE a = c
        BY <1>2, <3>5, <4>1
      <4>2. CASE a # c
        <5>1. PICK e \in EdgeIds(graph) :
               /\ graph.edges[e].to = c
               /\ routes[a][graph.edges[e].from] # NoRoute
               /\ routes[a][c].weight
                    = routes[a][graph.edges[e].from].weight + graph.edges[e].weight
               /\ C(a, graph.edges[e].from) + 1 <= C(a, c)
          BY <1>3, <3>6, <4>2
        <5>2. PICK v, w : v = graph.edges[e].from /\ w = graph.edges[e].weight
          OBVIOUS
        <5>3. v \in Vertex /\ w \in Nat
          BY <5>2, BuiltWeights
        <5>4. C(a, v) <= m - 1
          <6>1. C(a, v) \in Nat /\ C(a, c) \in Nat /\ C(a, v) + 1 <= C(a, c) /\ m \in Int
            BY <1>1, <2>2, <5>1, <5>2, <5>3
          <6> QED BY <3>6, <6>1
        <5>5. d[a][v] # NoRoute /\ d[a][v] <= routes[a][v].weight
          BY <3>2, <3>3, <5>1, <5>2, <5>3, <5>4
        <5>6. d[a][v] + w \in WalkWeights(d, a, c)
          BY <5>1, <5>2, <5>5 DEF WalkWeights
        <5>7. h[m][a][c] # NoRoute /\ h[m][a][c] <= d[a][v] + w
          BY <3>4, <5>6
        <5>8. /\ d[a][v] \in Nat /\ h[m][a][c] \in Nat
              /\ routes[a][v].weight \in Nat
              /\ routes[a][c].weight = routes[a][v].weight + w
          <6>1. d[a][v] \in Nat
            BY <3>3, <5>3, <5>5 DEF Weights
          <6>2. h[m][a][c] \in Nat
            BY <2>2, <5>7 DEF Iterates, Weights
          <6>3. routes[a][v].weight \in Nat
            BY <5>1, <5>2, <5>3, RouteFields DEF IInv, TypeOK
          <6> QED BY <5>1, <5>2, <6>1, <6>2, <6>3
        <5> QED BY <5>3, <5>5, <5>7, <5>8
      <4> QED BY <4>1, <4>2
    <3>7. Good(m)
      BY <3>5, <3>6
    <3> QED BY <2>2, <3>7
  <2> QED BY <2>3, <2>4
<1>5. Good(k)
  <2> HIDE DEF Good
  <2> QED BY <1>4
<1>6. C(f, t) <= k
  BY DEF C
<1> QED BY <1>5, <1>6

LEMMA BuiltIsDistances == IInv /\ Ranked => ShortestWhenBuilt
<1> SUFFICES ASSUME IInv, Ranked, Built, NEW f \in Vertex, NEW t \in Vertex
             PROVE  IF routes[f][t] = NoRoute
                      THEN Distances[f][t] = NoRoute
                      ELSE routes[f][t].weight = Distances[f][t]
  BY DEF ShortestWhenBuilt
<1> USE RouteTableAssumption
<1>1. PICK h : Iterates(h, VertexCount) /\ Distances = h[VertexCount]
  BY DistancesAreIterates
<1>2. h[VertexCount][f][t] \in Nat \cup {NoRoute}
  BY <1>1 DEF Iterates, Weights
<1>3. CASE routes[f][t] = NoRoute
  BY <1>1, <1>3, NoIterateBeats
<1>4. CASE routes[f][t] # NoRoute
  <2>1. PICK b \in Nat : \E rank \in RankBelow(b) : Ranks(rank)
    BY DEF Ranked, Built
  <2>2. PICK rank \in RankBelow(b) : Ranks(rank)
    BY <2>1
  <2>3. Cardinality(Below(rank, f, t)) <= VertexCount
    BY BelowIsFinite
  <2>4. h[VertexCount][f][t] # NoRoute /\ h[VertexCount][f][t] <= routes[f][t].weight
    BY <1>1, <1>4, <2>2, <2>3, IteratesReach
  <2>5. routes[f][t].weight <= h[VertexCount][f][t]
    BY <1>1, <2>4, NoIterateBeats
  <2>6. routes[f][t].weight \in Nat
    BY <1>4, RouteFields DEF IInv, TypeOK
  <2> QED BY <1>1, <1>2, <1>4, <2>4, <2>5, <2>6
<1> QED BY <1>3, <1>4

THEOREM RanksInvariant == Spec => [](IInv /\ Ranked)
<1>1. Init => IInv /\ Ranked
  BY InitEstablishes DEF Init, Ranked
<1>2. IInv /\ Ranked /\ [Next]_vars => (IInv /\ Ranked)'
  BY StepKeeps, StepRanks
<1> QED BY <1>1, <1>2, PTL DEF Spec

(* The finished table is right: it has a route exactly where the graph has *)
(* a walk, and the weight of the route is the least that a walk weighs.    *)
THEOREM TableIsShortest == Spec => []ShortestWhenBuilt
BY RanksInvariant, BuiltIsDistances, PTL

-----------------------------------------------------------------------------
(* A table that is built stays as it is.                                   *)
LEMMA BuiltStays == IInv /\ Built => ~Next
BY DEF IInv, TypeOK, Built, Next, Initialize, Throw, RelaxThrough

LEMMA QueryInitEstablishes == QueryInit => QueryInv
<1> SUFFICES ASSUME QueryInit PROVE QueryInv
  OBVIOUS
<1>1. IInv
  BY InitEstablishes DEF QueryInit
<1>2. QueryTypeOK
  BY <1>1 DEF IInv, QueryTypeOK, QueryInit
<1> QED BY <1>1, <1>2 DEF QueryInit, QueryInv, OnTheRoute, AnsweredOnBuilt,
             DereferencesARoute, Connected, WeightsAddUp, AnswerIsThePath

LEMMA ConstructKeeps == QueryInv /\ Construct => QueryInv'
<1> SUFFICES ASSUME QueryInv, Construct PROVE QueryInv'
  OBVIOUS
<1>1. IInv' /\ ~Built
  BY StepKeeps, BuiltStays DEF QueryInv, Construct
<1>2. state # "walking" /\ state # "answered"
  BY <1>1 DEF QueryInv, OnTheRoute, AnsweredOnBuilt
<1>3. /\ state' = state /\ from' = from /\ to' = to /\ edge_id' = edge_id
      /\ edges' = edges /\ walked' = walked /\ graph' = graph
  BY DEF Construct, query, Next, Initialize, Throw, RelaxThrough
<1>4. QueryTypeOK'
  BY <1>1, <1>2, <1>3 DEF QueryInv, QueryTypeOK, IInv
<1> QED BY <1>1, <1>2, <1>3, <1>4 DEF QueryInv, OnTheRoute, AnsweredOnBuilt,
             DereferencesARoute, Connected, WeightsAddUp, AnswerIsThePath

LEMMA AskKeeps ==
  ASSUME QueryInv, NEW f \in Vertex, NEW t \in Vertex, Ask(f, t)
  PROVE  QueryInv'
<1>1. /\ IInv' /\ IInv /\ Built /\ Built'
      /\ graph' = graph /\ routes' = routes
      /\ from' = f /\ to' = t /\ edges' = << >> /\ walked' = 0
  BY StepKeeps DEF QueryInv, Ask, vars, Built
<1>2. Here' = t
  BY <1>1 DEF Here
<1>3. f \in Nat /\ t \in Nat
  BY RouteTableAssumption DEF Vertex
<1>4. CASE routes[f][t] = NoRoute
  <2>1. state' = "answered" /\ edge_id' = NoEdge
    BY <1>4 DEF Ask
  <2> QED BY <1>1, <1>3, <1>4, <2>1 DEF QueryInv, QueryTypeOK, IInv, OnTheRoute,
             AnsweredOnBuilt, DereferencesARoute, Connected, WeightsAddUp, AnswerIsThePath
<1>5. CASE routes[f][t] # NoRoute
  <2>1. state' = "walking" /\ edge_id' = routes[f][t].prev_edge
    BY <1>5 DEF Ask
  <2>2. /\ edge_id' \in EdgeIds(graph) \cup {NoEdge}
        /\ edge_id' = NoEdge <=> t = f
        /\ edge_id' # NoEdge => /\ graph.edges[edge_id'].to = t
                                /\ graph.edges[edge_id'].from \in Vertex
                                /\ routes[f][graph.edges[edge_id'].from] # NoRoute
    BY <1>1, <1>5, <2>1, LastEdgeExact
  <2>3. routes[f][t].weight \in Nat
    BY <1>1, <1>5, LastEdgeExact
  <2>4. QueryTypeOK'
    BY <1>1, <1>3, <2>1, <2>2 DEF QueryInv, QueryTypeOK, IInv
  <2>5. OnTheRoute' /\ AnsweredOnBuilt'
    BY <1>1, <1>2, <2>1 DEF OnTheRoute, AnsweredOnBuilt
  <2>6. DereferencesARoute' /\ Connected'
    BY <1>1, <1>2, <2>1, <2>2, SMTT(20) DEF DereferencesARoute, Connected
  <2>7. WeightsAddUp' /\ AnswerIsThePath'
    BY <1>1, <1>2, <1>5, <2>1, <2>3 DEF WeightsAddUp, AnswerIsThePath, RouteWeight
  <2> QED BY <1>1, <2>4, <2>5, <2>6, <2>7 DEF QueryInv
<1> QED BY <1>4, <1>5

LEMMA FollowKeeps == QueryInv /\ Follow => QueryInv'
<1> SUFFICES ASSUME QueryInv, Follow PROVE QueryInv'
  OBVIOUS
<1> USE RouteTableAssumption
<1> DEFINE v == graph.edges[edge_id].from
           w == graph.edges[edge_id].weight
<1>1. /\ IInv' /\ IInv /\ Built /\ Built'
      /\ graph' = graph /\ routes' = routes
      /\ state = "walking" /\ state' = "walking"
      /\ from' = from /\ to' = to /\ from \in Vertex /\ to \in Vertex
      /\ edges' = Append(edges, edge_id) /\ walked' = walked + w
      /\ edge_id \in EdgeIds(graph) /\ edge_id # NoEdge
      /\ edges \in Seq(EdgeIds(graph)) /\ walked \in Nat
      /\ Here \in Vertex /\ edge_id = routes[from][Here].prev_edge
      /\ routes[from][Here] # NoRoute
      /\ routes[from][to].weight = routes[from][Here].weight + walked
  BY StepKeeps DEF QueryInv, QueryTypeOK, OnTheRoute, WeightsAddUp, RouteWeight,
                   Follow, vars, Built
<1>2. /\ v \in Vertex /\ graph.edges[edge_id].to = Here /\ w \in Nat
      /\ routes[from][v] # NoRoute /\ Here # from
      /\ routes[from][Here].weight = routes[from][v].weight + w
      /\ routes[from][Here].weight \in Nat
  <2> DEFINE h == Here
  <2>1. h \in Vertex /\ routes[from][h] # NoRoute /\ routes[from][h].prev_edge = edge_id
    BY <1>1
  <2> HIDE DEF h
  <2>2. IInv /\ Built /\ from \in Vertex
    BY <1>1
  <2>3. edge_id # NoEdge
    BY <1>1
  <2>4. /\ edge_id = NoEdge <=> from = h
        /\ routes[from][h].weight \in Nat
        /\ edge_id # NoEdge =>
             /\ v \in Vertex
             /\ graph.edges[edge_id].to = h
             /\ w \in Nat
             /\ routes[from][v] # NoRoute
             /\ routes[from][h].weight = routes[from][v].weight + w
    BY <2>1, <2>2, LastEdgeExact
  <2> QED BY <2>1, <2>3, <2>4 DEF h
<1>3. edge_id' = routes[from][v].prev_edge
  BY <1>2 DEF Follow, PreviousEdge
<1>4. /\ edge_id' \in EdgeIds(graph) \cup {NoEdge}
      /\ edge_id' = NoEdge <=> v = from
      /\ edge_id' # NoEdge => /\ graph.edges[edge_id'].to = v
                              /\ graph.edges[edge_id'].from \in Vertex
                              /\ routes[from][graph.edges[edge_id'].from] # NoRoute
  <2>1. PICK u, p : u = v /\ p = edge_id'
    OBVIOUS
  <2> HIDE DEF v, w
  <2>2. /\ IInv /\ Built /\ from \in Vertex /\ u \in Vertex
        /\ routes[from][u] # NoRoute /\ p = routes[from][u].prev_edge
    BY <1>1, <1>2, <1>3, <2>1, Zenon
  <2>3. /\ p = NoEdge <=> from = u
        /\ p # NoEdge => /\ p \in EdgeIds(graph)
                         /\ graph.edges[p].to = u
                         /\ graph.edges[p].from \in Vertex
                         /\ routes[from][graph.edges[p].from] # NoRoute
    BY <2>2, LastEdgeExact
  <2> QED BY <2>1, <2>3, Zenon
<1>5. routes[from][v].weight \in Nat
  <2> HIDE DEF v, w
  <2>1. IInv /\ Built /\ from \in Vertex
    BY <1>1, Zenon
  <2> QED BY <1>2, <2>1, LastEdgeExact
<1> HIDE DEF w
<1>6. /\ edges' \in Seq(EdgeIds(graph)) /\ Len(edges') = Len(edges) + 1 /\ edges' # << >>
      /\ edges'[Len(edges) + 1] = edge_id /\ Len(edges) \in Nat
      /\ \A i \in 1 .. Len(edges) : edges'[i] = edges[i]
  BY <1>1
<1>7. Here' = v
  BY <1>1, <1>6 DEF Here
<1>8. Connected'
  <2>1. edges'[1] = IF edges = << >> THEN edge_id ELSE edges[1]
    BY <1>1, <1>6
  <2>2. graph.edges[edges'[1]].to = to
    <3>1. CASE edges = << >>
      BY <1>2, <2>1, <3>1 DEF Here
    <3>2. CASE edges # << >>
      BY <1>1, <2>1, <3>2 DEF QueryInv, Connected
    <3> QED BY <3>1, <3>2
  <2>3. ASSUME NEW i \in 1 .. Len(edges') - 1
        PROVE  graph.edges[edges'[i]].from = graph.edges[edges'[i+1]].to
    <3>1. CASE i = Len(edges)
      <4>a. Len(edges) \in 1 .. Len(edges)
        BY <1>6, <3>1
      <4>1. edges # << >> /\ Here = graph.edges[edges[i]].from
        BY <3>1, <4>a DEF Here
      <4>2. edges'[i + 1] = edge_id /\ edges'[i] = edges[i]
        BY <1>6, <3>1, <4>a, Zenon
      <4>3. graph.edges[edge_id].to = Here
        BY <1>2, Zenon
      <4> QED BY <4>1, <4>2, <4>3, Zenon
    <3>2. CASE i # Len(edges)
      <4>1. i \in 1 .. Len(edges) - 1 /\ i + 1 \in 1 .. Len(edges) /\ i \in 1 .. Len(edges)
        BY <1>6, <3>2
      <4>2. graph.edges[edges[i]].from = graph.edges[edges[i+1]].to
        BY <1>1, <4>1 DEF QueryInv, Connected
      <4> QED BY <1>6, <4>1, <4>2
    <3> QED BY <3>1, <3>2
  <2>4. edge_id' # NoEdge => graph.edges[edge_id'].to = Here'
    BY <1>4, <1>7, Zenon
  <2>5. edge_id' = NoEdge => Here' = from
    BY <1>4, <1>7, Zenon
  <2>6. graph' = graph /\ to' = to /\ from' = from
    BY <1>1
  <2> QED BY <2>2, <2>3, <2>4, <2>5, <2>6, Zenon DEF Connected
<1>9. QueryTypeOK'
  <2>1. walked' \in Nat
    <3>1. walked' = walked + w /\ walked \in Nat
      BY <1>1, Zenon
    <3>2. w \in Nat
      BY <1>2, Zenon
    <3> QED BY <3>1, <3>2
  <2>2. TypeOK'
    BY <1>1 DEF IInv
  <2> QED BY <1>1, <1>4, <1>6, <2>1, <2>2 DEF QueryInv, QueryTypeOK
<1>10. OnTheRoute'
  <2>1. from # to
    BY <1>1, <1>2 DEF QueryInv, OnTheRoute, Here
  <2> QED BY <1>1, <1>2, <1>3, <1>7, <2>1 DEF OnTheRoute
<1>11. WeightsAddUp'
  <2>1. routes[from][to].weight = routes[from][v].weight + (walked + w)
    <3>1. routes[from][to].weight = routes[from][Here].weight + walked /\ walked \in Nat
      BY <1>1
    <3>2. routes[from][Here].weight = routes[from][v].weight + w
      BY <1>2
    <3>3. w \in Nat /\ routes[from][Here].weight \in Nat
      BY <1>2
    <3> DEFINE x == routes[from][v].weight
               y == routes[from][Here].weight
               z == routes[from][to].weight
    <3>4. x \in Nat /\ y \in Nat /\ z = y + walked /\ y = x + w /\ walked \in Nat /\ w \in Nat
      BY <1>5, <3>1, <3>2, <3>3
    <3> HIDE DEF x, y, z
    <3>5. z = x + (walked + w)
      BY <3>4
    <3> QED BY <3>5 DEF x, z
  <2> QED BY <1>1, <1>2, <1>7, <2>1 DEF WeightsAddUp, RouteWeight
<1>12. DereferencesARoute' /\ AnsweredOnBuilt' /\ AnswerIsThePath'
  BY <1>1, <1>4 DEF DereferencesARoute, AnsweredOnBuilt, AnswerIsThePath
<1> QED BY <1>1, <1>8, <1>9, <1>10, <1>11, <1>12 DEF QueryInv

(* An answer has the edges collected in reverse.                           *)
LEMMA AnswerReverses ==
  ASSUME Answer, NEW S, edges \in Seq(S)
  PROVE  /\ edges' \in Seq(S) /\ Len(edges') = Len(edges) /\ Len(edges) \in Nat
         /\ \A i \in 1 .. Len(edges) : edges'[i] = edges[Len(edges) + 1 - i]
         /\ edges' = << >> <=> edges = << >>
<1>a. PICK s, r : s = edges /\ r = edges'
  OBVIOUS
<1>b. s \in Seq(S) /\ r = [i \in DOMAIN s |-> s[Len(s) + 1 - i]]
  BY <1>a DEF Answer
<1> DEFINE n == Len(s)
<1>1. n \in Nat /\ DOMAIN s = 1 .. n /\ \A i \in 1 .. n : s[i] \in S
  BY <1>b
<1>2. \A i \in 1 .. n : n + 1 - i \in 1 .. n
  BY <1>1
<1> HIDE DEF n
<1>3. r \in [1 .. n -> S] /\ r = [i \in 1 .. n |-> s[n + 1 - i]]
  BY <1>b, <1>1, <1>2 DEF n
<1>4. r \in Seq(S)
  BY <1>1, <1>3, SeqDef
<1>5. Len(r) = n
  BY <1>1, <1>3, <1>4
<1>6. r = << >> <=> s = << >>
  BY <1>b, <1>1, <1>4, <1>5 DEF n
<1>7. \A i \in 1 .. n : r[i] = s[n + 1 - i]
  BY <1>3
<1> QED BY <1>a, <1>1, <1>4, <1>5, <1>6, <1>7 DEF n

LEMMA AnswerKeeps == QueryInv /\ Answer => QueryInv'
<1> SUFFICES ASSUME QueryInv, Answer PROVE QueryInv'
  OBVIOUS
<1> USE RouteTableAssumption
<1> DEFINE n == Len(edges)
<1>1. /\ IInv' /\ IInv /\ Built /\ Built'
      /\ graph' = graph /\ routes' = routes
      /\ state = "walking" /\ state' = "answered"
      /\ from' = from /\ to' = to /\ from \in Vertex /\ to \in Vertex
      /\ walked' = walked /\ edge_id' = edge_id /\ edge_id = NoEdge
      /\ edges \in Seq(EdgeIds(graph)) /\ walked \in Nat
      /\ Here = from /\ routes[from][from] # NoRoute
      /\ routes[from][to].weight = routes[from][from].weight + walked
      /\ edges # << >> => from # to
  BY StepKeeps DEF QueryInv, QueryTypeOK, OnTheRoute, WeightsAddUp, RouteWeight,
                   Connected, Answer, vars, Built
<1>2. routes[from][from].weight = 0
  BY <1>1, LastEdgeExact
<1>3. /\ edges' \in Seq(EdgeIds(graph)) /\ Len(edges') = n /\ n \in Nat
      /\ \A i \in 1 .. n : edges'[i] = edges[n + 1 - i]
      /\ edges' = << >> <=> edges = << >>
  <2>1. edges \in Seq(EdgeIds(graph))
    BY <1>1, Zenon
  <2> QED BY <2>1, AnswerReverses
<1>4. \A i \in 1 .. n - 1 : graph.edges[edges[i]].from = graph.edges[edges[i+1]].to
  BY <1>1 DEF QueryInv, Connected
<1>5. edges # << >> => /\ n \in 1 .. n /\ 1 \in 1 .. n
                      /\ graph.edges[edges[n]].from = from
                      /\ graph.edges[edges[1]].to = to
  <2>1. edges # << >> => n > 0
    BY <1>1
  <2> QED BY <1>1, <1>3, <2>1 DEF QueryInv, Connected, Here
<1>6. edges' = << >> <=> from = to
  BY <1>1, <1>3 DEF Here
<1>7. edges' # << >> => /\ graph.edges[edges'[1]].from = from
                       /\ graph.edges[edges'[n]].to = to
  <2>1. n + 1 - 1 = n /\ n + 1 - n = 1
    BY <1>3
  <2> QED BY <1>3, <1>5, <2>1
<1>8. ASSUME NEW i \in 1 .. n - 1
      PROVE  graph.edges[edges'[i]].to = graph.edges[edges'[i+1]].from
  <2>1. /\ n - i \in 1 .. n - 1 /\ (n - i) + 1 = n + 1 - i
        /\ i \in 1 .. n /\ i + 1 \in 1 .. n /\ n + 1 - (i + 1) = n - i
    BY <1>3
  <2>2. graph.edges[edges[n - i]].from = graph.edges[edges[n + 1 - i]].to
    BY <1>4, <2>1
  <2>3. edges'[i] = edges[n + 1 - i] /\ edges'[i+1] = edges[n - i]
    BY <1>3, <2>1
  <2> QED BY <2>2, <2>3
<1>9. AnswerIsThePath'
  <2>1. routes[from][to].weight = walked
    BY <1>1, <1>2
  <2> QED BY <1>1, <1>3, <1>6, <1>7, <1>8, <2>1 DEF AnswerIsThePath, RouteWeight
<1>10. QueryTypeOK'
  BY <1>1, <1>3 DEF QueryInv, QueryTypeOK, IInv
<1>11. OnTheRoute' /\ AnsweredOnBuilt' /\ DereferencesARoute' /\ Connected' /\ WeightsAddUp'
  BY <1>1 DEF OnTheRoute, AnsweredOnBuilt, DereferencesARoute, Connected, WeightsAddUp
<1> QED BY <1>1, <1>9, <1>10, <1>11 DEF QueryInv

LEMMA QueryStepKeeps == QueryInv /\ [QueryNext]_queryVars => QueryInv'
<1> SUFFICES ASSUME QueryInv, [QueryNext]_queryVars PROVE QueryInv'
  OBVIOUS
<1>1. CASE Construct
  BY <1>1, ConstructKeeps
<1>2. ASSUME NEW f \in Vertex, NEW t \in Vertex, Ask(f, t) PROVE QueryInv'
  BY <1>2, AskKeeps
<1>3. CASE Follow
  BY <1>3, FollowKeeps
<1>4. CASE Answer
  BY <1>4, AnswerKeeps
<1>5. CASE UNCHANGED queryVars
  <2>1. IInv'
    BY <1>5, StepKeeps DEF QueryInv, queryVars
  <2>2. QueryTypeOK' /\ OnTheRoute' /\ AnsweredOnBuilt'
    BY <1>5, <2>1 DEF QueryInv, queryVars, vars, query, QueryTypeOK, IInv,
                      OnTheRoute, AnsweredOnBuilt, Here, Built
  <2>3. DereferencesARoute' /\ Connected' /\ WeightsAddUp' /\ AnswerIsThePath'
    BY <1>5 DEF QueryInv, queryVars, vars, query, DereferencesARoute, Connected,
                WeightsAddUp, AnswerIsThePath, Here, RouteWeight
  <2> QED BY <2>1, <2>2, <2>3 DEF QueryInv
<1> QED BY <1>1, <1>2, <1>3, <1>4, <1>5 DEF QueryNext

(* BuildRoute never dereferences an empty optional, and the edges it       *)
(* collects are connected and account for the weight of the route.         *)
THEOREM WalkSafe == QuerySpec => []QueryInv
BY QueryInitEstablishes, QueryStepKeeps, PTL DEF QuerySpec

(* What BuildRoute answers is a path from the one vertex to the other, and *)
(* the weights of its edges add up to the weight answered.                 *)
THEOREM AnswersArePaths == QuerySpec => []AnswerIsThePath
<1>1. QueryInv => AnswerIsThePath
  BY DEF QueryInv
<1> QED BY WalkSafe, <1>1, PTL

(* The weight answered is the least any walk can cost.                     *)
THEOREM AnswersAreCheapest == QuerySpec => []NoWalkIsCheaper
<1>1. QueryInv => NoWalkIsCheaper
  BY BuiltIsShortest DEF QueryInv
<1> QED BY WalkSafe, <1>1, PTL

-----------------------------------------------------------------------------
(* Where the i-th edge collected leads.                                    *)
Target(i) == graph.edges[edges[i]].to

(* The walk descends: where it is comes before every vertex it has been    *)
(* at, and these come in the order in which it met them.                   *)
Descends(rank) ==
  /\ \A i \in 1 .. Len(edges) :
        /\ Target(i) \in Vertex /\ routes[from][Target(i)] # NoRoute
        /\ Before(rank, from, Here, Target(i))
  /\ \A i, j \in 1 .. Len(edges) :
        i < j => Before(rank, from, Target(j), Target(i))

WalkOrdered ==
  state = "walking" =>
    \A b \in Nat : \A rank \in RankBelow(b) : Ranks(rank) => Descends(rank)

WalkInv ==
  /\ QueryInv
  /\ Ranked
  /\ WalkOrdered
  /\ state # "walking" => NoVertexTwice

(* A step of the walk goes to a vertex before the one where it was, and    *)
(* so before all those where it has been.                                  *)
LEMMA FollowDescends ==
  ASSUME QueryInv, Follow, NEW b \in Nat, NEW rank \in RankBelow(b),
         Ranks(rank), Descends(rank)
  PROVE  Descends(rank)'
<1> DEFINE v == graph.edges[edge_id].from
           h == Here
<1>1. /\ IInv /\ Built /\ graph' = graph /\ routes' = routes /\ from' = from
      /\ from \in Vertex /\ h \in Vertex /\ routes[from][h] # NoRoute
      /\ edge_id = routes[from][h].prev_edge /\ edge_id # NoEdge
      /\ graph.edges[edge_id].to = h /\ routes[from][v] # NoRoute
      /\ edges' = Append(edges, edge_id) /\ edges \in Seq(EdgeIds(graph))
      /\ edge_id \in EdgeIds(graph)
  BY DEF QueryInv, QueryTypeOK, OnTheRoute, WeightsAddUp, DereferencesARoute,
         Connected, Follow, vars
<1>2. v \in Vertex /\ from # h
  <2> HIDE DEF h
  <2>1. PICK p : p = edge_id
    OBVIOUS
  <2>2. p = routes[from][h].prev_edge /\ p # NoEdge
    BY <1>1, <2>1
  <2>3. IInv /\ Built /\ from \in Vertex /\ h \in Vertex /\ routes[from][h] # NoRoute
    BY <1>1
  <2>4. graph.edges[p].from \in Vertex /\ from # h
    BY <2>2, <2>3, LastEdgeExact
  <2> QED BY <2>1, <2>4
<1>3. Before(rank, from, v, h)
  <2> HIDE DEF h
  <2> QED BY <1>1, <1>2 DEF Ranks
<1>4. PICK n \in Nat :
        /\ Len(edges) = n /\ Len(edges') = n + 1
        /\ edges' # << >> /\ edges'[n + 1] = edge_id
        /\ \A i \in 1 .. n : edges'[i] = edges[i]
  BY <1>1
<1>5. Here' = v
  BY <1>1, <1>4 DEF Here
<1>6. Target(n + 1)' = h /\ \A i \in 1 .. n : Target(i)' = Target(i)
  BY <1>1, <1>4 DEF Target
<1>7. ASSUME NEW i \in 1 .. n
      PROVE  /\ Target(i) \in Vertex /\ routes[from][Target(i)] # NoRoute
             /\ Before(rank, from, h, Target(i)) /\ Before(rank, from, v, Target(i))
  <2>1. /\ Target(i) \in Vertex /\ routes[from][Target(i)] # NoRoute
        /\ Before(rank, from, h, Target(i))
    BY <1>4, <1>7 DEF Descends
  <2> HIDE DEF h, v
  <2> QED BY <1>1, <1>2, <1>3, <2>1, BeforeIsAnOrder
<1>8. ASSUME NEW i \in 1 .. n + 1
      PROVE  (/\ Target(i) \in Vertex /\ routes[from][Target(i)] # NoRoute
              /\ Before(rank, from, Here, Target(i)))'
  <2>1. CASE i = n + 1
    <3> HIDE DEF h, v
    <3> QED BY <1>1, <1>2, <1>3, <1>5, <1>6, <2>1 DEF Before
  <2>2. CASE i # n + 1
    <3>1. i \in 1 .. n
      BY <1>4, <2>2
    <3> HIDE DEF h, v
    <3> QED BY <1>1, <1>5, <1>6, <1>7, <3>1 DEF Before
  <2> QED BY <2>1, <2>2
<1>9. ASSUME NEW i \in 1 .. n + 1, NEW j \in 1 .. n + 1, i < j
      PROVE  (Before(rank, from, Target(j), Target(i)))'
  <2>1. i \in 1 .. n
    BY <1>4, <1>9
  <2>2. CASE j = n + 1
    <3>1. Target(j)' = h /\ Target(i)' = Target(i)
      BY <1>6, <2>1, <2>2
    <3>2. Before(rank, from, h, Target(i))
      BY <1>7, <2>1
    <3> HIDE DEF h
    <3> QED BY <1>1, <3>1, <3>2 DEF Before
  <2>3. CASE j # n + 1
    <3>1. j \in 1 .. n
      BY <1>4, <2>3
    <3>2. Target(j)' = Target(j) /\ Target(i)' = Target(i)
      BY <1>6, <2>1, <3>1
    <3>3. Before(rank, from, Target(j), Target(i))
      BY <1>4, <1>9, <2>1, <3>1 DEF Descends
    <3> QED BY <1>1, <3>2, <3>3 DEF Before
  <2> QED BY <2>2, <2>3
<1> QED BY <1>1, <1>4, <1>8, <1>9 DEF Descends

LEMMA WalkOrderedKept == QueryInv /\ WalkOrdered /\ [QueryNext]_queryVars => WalkOrdered'
<1> SUFFICES ASSUME QueryInv, WalkOrdered, [QueryNext]_queryVars, state' = "walking",
                    NEW b \in Nat, NEW rank \in RankBelow(b), Ranks(rank)'
             PROVE  Descends(rank)'
  BY DEF WalkOrdered, RankBelow
<1>1. CASE Construct
  <2>1. ~Built
    BY <1>1, BuiltStays DEF QueryInv, Construct
  <2> QED BY <1>1, <2>1 DEF Construct, query, QueryInv, OnTheRoute
<1>2. ASSUME NEW f \in Vertex, NEW t \in Vertex, Ask(f, t) PROVE Descends(rank)'
  <2>1. edges' = << >>
    BY <1>2 DEF Ask
  <2>2. Len(edges') = 0
    BY <2>1
  <2> QED BY <2>2 DEF Descends
<1>3. CASE Follow
  <2>1. routes' = routes /\ graph' = graph /\ state = "walking"
    BY <1>3 DEF Follow, vars
  <2>2. Ranks(rank)
    BY <2>1 DEF Ranks, Before
  <2>3. Descends(rank)
    BY <2>1, <2>2 DEF WalkOrdered
  <2> QED BY <1>3, <2>2, <2>3, FollowDescends
<1>4. CASE Answer
  BY <1>4 DEF Answer
<1>5. CASE UNCHANGED queryVars
  <2>1. UNCHANGED <<routes, graph, state, from, to, edges>>
    BY <1>5 DEF queryVars, vars, query
  <2>2. Ranks(rank)
    BY <2>1 DEF Ranks, Before
  <2>3. Descends(rank)
    BY <2>1, <2>2 DEF WalkOrdered
  <2>4. /\ routes' = routes /\ graph' = graph /\ from' = from /\ to' = to
        /\ edges' = edges
    BY <2>1
  <2>5. Here' = Here /\ \A i : Target(i)' = Target(i)
    BY <2>4 DEF Here, Target
  <2>6. \A u, t : Before(rank, from, u, t)' <=> Before(rank, from, u, t)
    BY <2>4 DEF Before
  <2> QED BY <2>3, <2>4, <2>5, <2>6 DEF Descends
<1> QED BY <1>1, <1>2, <1>3, <1>4, <1>5 DEF QueryNext

(* Vertices in order differ.                                               *)
LEMMA OrderedIsDistinct ==
  ASSUME QueryInv, Ranked, WalkOrdered, state = "walking"
  PROVE  NoVertexTwice
<1>1. IInv /\ phase = "relaxing" /\ edges \in Seq(EdgeIds(graph)) /\ from \in Vertex
  BY DEF QueryInv, QueryTypeOK, OnTheRoute, Built
<1>2. PICK b \in Nat : \E rank \in RankBelow(b) : Ranks(rank)
  BY <1>1 DEF Ranked
<1>3. PICK rank \in RankBelow(b) : Ranks(rank)
  BY <1>2
<1>4. Descends(rank)
  BY <1>3 DEF WalkOrdered
<1>5. ASSUME NEW i \in 1 .. Len(edges), NEW j \in 1 .. Len(edges), i < j
      PROVE  Target(i) # Target(j)
  <2>1. /\ Before(rank, from, Target(j), Target(i))
        /\ Target(i) \in Vertex /\ routes[from][Target(i)] # NoRoute
    BY <1>4, <1>5 DEF Descends
  <2>2. ~Before(rank, from, Target(i), Target(i))
    BY <1>1, <1>3, <2>1, BeforeIsAnOrder
  <2> QED BY <2>1, <2>2
<1>6. DOMAIN edges = 1 .. Len(edges) /\ Len(edges) \in Nat
  BY <1>1
<1>7. \A i, j \in 1 .. Len(edges) : i # j => i < j \/ j < i
  BY <1>6
<1> QED BY <1>5, <1>6, <1>7 DEF NoVertexTwice, Target

LEMMA WalkInitEstablishes == QueryInit => WalkInv
<1> SUFFICES ASSUME QueryInit PROVE WalkInv
  OBVIOUS
<1>1. phase = "new" /\ state = "idle" /\ edges = << >>
  BY DEF QueryInit, Init
<1>2. Ranked /\ WalkOrdered
  BY <1>1 DEF Ranked, WalkOrdered
<1>3. NoVertexTwice
  BY <1>1 DEF NoVertexTwice
<1> QED BY <1>2, <1>3, QueryInitEstablishes DEF WalkInv

LEMMA WalkStepKeeps == WalkInv /\ [QueryNext]_queryVars => WalkInv'
<1> SUFFICES ASSUME WalkInv, [QueryNext]_queryVars PROVE WalkInv'
  OBVIOUS
<1>1. QueryInv /\ IInv /\ Ranked /\ WalkOrdered /\ NoVertexTwice
  BY OrderedIsDistinct DEF WalkInv, QueryInv
<1>2. QueryInv' /\ WalkOrdered'
  BY <1>1, QueryStepKeeps, WalkOrderedKept
<1>3. Ranked'
  <2>1. [Next]_vars
    BY DEF QueryNext, Construct, Ask, Follow, Answer, queryVars
  <2> QED BY <1>1, <2>1, StepRanks
<1>4. ASSUME state' # "walking" PROVE NoVertexTwice'
  <2>1. CASE Construct
    BY <1>1, <2>1 DEF Construct, query, Next, Initialize, Throw, RelaxThrough, NoVertexTwice
  <2>2. ASSUME NEW f \in Vertex, NEW t \in Vertex, Ask(f, t) PROVE NoVertexTwice'
    BY <2>2 DEF Ask, NoVertexTwice
  <2>3. CASE Follow
    BY <1>4, <2>3 DEF Follow
  <2>4. CASE Answer
    <3> DEFINE n == Len(edges)
    <3>1. /\ graph' = graph /\ edges \in Seq(EdgeIds(graph))
          /\ edges' = [i \in DOMAIN edges |-> edges[n + 1 - i]]
      BY <1>1, <2>4 DEF Answer, vars, QueryInv, QueryTypeOK
    <3>2. /\ n \in Nat /\ DOMAIN edges = 1 .. n /\ DOMAIN edges' = 1 .. n
          /\ \A i \in 1 .. n : edges'[i] = edges[n + 1 - i]
      BY <3>1
    <3>3. ASSUME NEW i \in 1 .. n, NEW j \in 1 .. n, i # j
          PROVE  graph.edges[edges'[i]].to # graph.edges[edges'[j]].to
      <4>1. n + 1 - i \in 1 .. n /\ n + 1 - j \in 1 .. n /\ n + 1 - i # n + 1 - j
        BY <3>2, <3>3
      <4>2. graph.edges[edges[n + 1 - i]].to # graph.edges[edges[n + 1 - j]].to
        BY <1>1, <3>2, <4>1 DEF NoVertexTwice
      <4> QED BY <3>2, <4>2
    <3> QED BY <3>1, <3>2, <3>3 DEF NoVertexTwice
  <2>5. CASE UNCHANGED queryVars
    BY <1>1, <2>5 DEF queryVars, vars, query, NoVertexTwice
  <2> QED BY <2>1, <2>2, <2>3, <2>4, <2>5 DEF QueryNext
<1> QED BY <1>2, <1>3, <1>4 DEF WalkInv

(* BuildRoute never visits a vertex twice, whatever the weights: that is   *)
(* why its loop ends.                                                      *)
THEOREM NoVertexVisitedTwice == QuerySpec => []NoVertexTwice
<1>1. WalkInv => NoVertexTwice
  BY OrderedIsDistinct DEF WalkInv
<1> QED BY WalkInitEstablishes, WalkStepKeeps, <1>1, PTL DEF QuerySpec
=============================================================================
