--------------------------- MODULE JourneyProofs ---------------------------
(***************************************************************************)
(* Theorems about what stat requests are answered, in Journey and in       *)
(* Statistics.  For every catalogue, the router that process_requests      *)
(* loads is the one make_base saved, and it answers every Route request    *)
(* with a journey that can be travelled and that no other one beats, or    *)
(* with "not found" exactly when there is none; and what Bus and Stop      *)
(* requests are told of the catalogue agrees with its rides.               *)
(*                                                                         *)
(* The argument about journeys joins three others: what RouteQueryProofs   *)
(* knows of the table built for any graph, here for the graph of stops;    *)
(* what TransportRouterProofs knows of that graph; and what makes a path   *)
(* in it a journey and a journey a path.  The one about Bus and Stop       *)
(* requests needs of the graph that every ride is in it, with its time.    *)
(***************************************************************************)
EXTENDS Journey, Statistics, TransportRouterProofs, FiniteSets, FiniteSetTheorems

(* The theorems about RouteTable, for the graph of stops.                  *)
RT == INSTANCE RouteQueryProofs WITH
  graph <- graph_of_stops, state <- "idle", from <- 0, to <- 0, edge_id <- NoEdge,
  edges <- << >>, walked <- 0

(* What RouteTable assumes of its constants holds of those it has here.    *)
LEMMA TableAssumption ==
  /\ VertexCount \in Nat
  /\ NoEdge \notin Nat
  /\ NoRoute \notin Nat
  /\ NoRoute \notin [weight : Nat, prev_edge : Nat \cup {NoEdge}]
BY JourneyAssumption, TransportRouterAssumption DEF VertexCount

(* Whoever follows last edges back from v is nearer each time, and so gets *)
(* a sequence of edges: the function of BuildRoute exists.                 *)
LeadsBack(V, E, none, last, source, c, b) ==
  /\ b \in Nat
  /\ \A v \in V : c[v] \in Nat /\ c[v] < b
  /\ \A v \in V : last[v] # none =>
       last[v] \in E /\ source[v] \in V /\ c[source[v]] < c[v]

LEMMA FollowExists ==
  ASSUME NEW V, NEW E, NEW none, NEW last, NEW source, NEW c, NEW b,
         LeadsBack(V, E, none, last, source, c, b)
  PROVE  \E f \in [V -> Seq(E)] :
           \A v \in V : f[v] = IF last[v] = none THEN << >>
                               ELSE Append(f[source[v]], last[v])
<1> DEFINE S(k) == {v \in V : c[v] < k}
           Is(f, k) == /\ f \in [S(k) -> Seq(E)]
                       /\ \A v \in S(k) : f[v] = IF last[v] = none THEN << >>
                                                 ELSE Append(f[source[v]], last[v])
           T == {k \in Nat : ~\E f : Is(f, k)}
<1> USE DEF LeadsBack
<1>1. ASSUME T # {} PROVE FALSE
  <2>1. PICK m \in T : \A y \in T : m <= y
    <3> HIDE DEF T
    <3>1. T \in SUBSET Nat
      BY DEF T
    <3> QED BY <1>1, <3>1, LeastNat
  <2>2. m \in Nat /\ ~\E f : Is(f, m)
    BY <2>1
  <2>3. m # 0
    <3> SUFFICES ASSUME m = 0 PROVE FALSE
      OBVIOUS
    <3>1. S(m) = {}
      OBVIOUS
    <3>2. Is([v \in {} |-> << >>], m)
      BY <3>1
    <3> QED BY <2>2, <3>2
  <2>4. m - 1 \in Nat /\ \E f : Is(f, m - 1)
    <3>1. m - 1 \in Nat /\ m - 1 \notin T
      <4> HIDE DEF T
      <4> QED BY <2>1, <2>2, <2>3
    <3> HIDE DEF Is
    <3> QED BY <3>1
  <2>5. PICK f : Is(f, m - 1)
    BY <2>4
  <2> DEFINE g == [v \in S(m) |-> IF last[v] = none THEN << >>
                                   ELSE Append(f[source[v]], last[v])]
  <2>6. S(m - 1) \subseteq S(m) /\ \A v \in S(m) : last[v] # none => source[v] \in S(m - 1)
    BY <2>2, <2>4
  <2>7. \A v \in S(m - 1) : g[v] = f[v]
    BY <2>5, <2>6
  <2>8. \A v \in S(m) : last[v] # none => f[source[v]] \in Seq(E) /\ g[source[v]] = f[source[v]]
    BY <2>5, <2>6, <2>7
  <2>9. g \in [S(m) -> Seq(E)]
    <3>1. ASSUME NEW v \in S(m)
          PROVE  (IF last[v] = none THEN << >> ELSE Append(f[source[v]], last[v])) \in Seq(E)
      <4>1. CASE last[v] = none
        BY <4>1
      <4>2. CASE last[v] # none
        <5>1. last[v] \in E /\ f[source[v]] \in Seq(E)
          BY <2>8, <4>2
        <5> QED BY <4>2, <5>1
      <4> QED BY <4>1, <4>2
    <3> QED BY <3>1
  <2>10. \A v \in S(m) : g[v] = IF last[v] = none THEN << >> ELSE Append(g[source[v]], last[v])
    BY <2>8
  <2> HIDE DEF g
  <2>11. Is(g, m)
    BY <2>9, <2>10
  <2> QED BY <2>2, <2>11
<1>2. \E f : Is(f, b)
  <2> HIDE DEF Is
  <2> QED BY <1>1
<1>3. S(b) = V
  OBVIOUS
<1> QED BY <1>2, <1>3

(* What the finished table says of the graph of stops.                     *)
Reach(f, t) == routes[f][t] # NoRoute
Time(f, t) == routes[f][t].weight
Last(f, t) == routes[f][t].prev_edge

TableIsDone ==
  /\ \A f, t \in Router!Vertex : Reach(f, t) =>
       /\ Time(f, t) \in Nat
       /\ Last(f, t) = NoEdge <=> f = t
       /\ f # t => /\ Last(f, t) \in EdgeIds(graph_of_stops)
                   /\ From(Last(f, t)) \in Router!Vertex
                   /\ To(Last(f, t)) = t
                   /\ graph_of_stops.edges[Last(f, t)].weight \in Nat
                   /\ Reach(f, From(Last(f, t)))
                   /\ Time(f, t) = Time(f, From(Last(f, t)))
                                     + graph_of_stops.edges[Last(f, t)].weight
  /\ \A v \in Router!Vertex : Reach(v, v) /\ Time(v, v) = 0
  /\ \A e \in EdgeIds(graph_of_stops) :
       /\ From(e) \in Router!Vertex /\ To(e) \in Router!Vertex
       /\ Reach(From(e), To(e))
       /\ Time(From(e), To(e)) <= graph_of_stops.edges[e].weight
  /\ \A f, v, t \in Router!Vertex : (Reach(f, v) /\ Reach(v, t)) =>
       Reach(f, t) /\ Time(f, t) <= Time(f, v) + Time(v, t)

(* How many vertices have a route from f that comes before that to t.      *)
IsDepth(depth, f) ==
  /\ \A v \in Router!Vertex : depth[v] \in Nat /\ depth[v] <= VertexCount
  /\ \A t \in Router!Vertex : (f # t /\ Reach(f, t)) => depth[From(Last(f, t))] < depth[t]

LEMMA BuiltIsDone == RT!IInv /\ RT!Built => TableIsDone
<1> SUFFICES ASSUME RT!IInv, RT!Built PROVE TableIsDone
  OBVIOUS
<1> USE TableAssumption
<1>1. /\ RT!Vertex = Router!Vertex
      /\ \A e : graph_of_stops.edges[e].from = From(e) /\ graph_of_stops.edges[e].to = To(e)
      /\ RT!EdgeIds(graph_of_stops) = EdgeIds(graph_of_stops)
  BY DEF RT!Vertex, Router!Vertex, From, To, RT!EdgeIds, EdgeIds
<1>2. /\ RT!IsGraph(graph_of_stops, VertexCount)
      /\ phase = "relaxing" /\ through = VertexCount
  BY DEF RT!IInv, RT!TypeOK, RT!Built
<1>3. ASSUME NEW f \in Router!Vertex, NEW t \in Router!Vertex, Reach(f, t)
      PROVE  /\ Time(f, t) \in Nat
             /\ Last(f, t) = NoEdge <=> f = t
             /\ f # t => /\ Last(f, t) \in EdgeIds(graph_of_stops)
                         /\ From(Last(f, t)) \in Router!Vertex
                         /\ To(Last(f, t)) = t
                         /\ graph_of_stops.edges[Last(f, t)].weight \in Nat
                         /\ Reach(f, From(Last(f, t)))
                         /\ Time(f, t) = Time(f, From(Last(f, t)))
                                           + graph_of_stops.edges[Last(f, t)].weight
  <2>1. PICK p : p = routes[f][t].prev_edge
    OBVIOUS
  <2>2. f \in RT!Vertex /\ t \in RT!Vertex /\ routes[f][t] # NoRoute
    BY <1>1, <1>3 DEF Reach
  <2>3. /\ routes[f][t].weight \in Nat
        /\ p = NoEdge <=> f = t
        /\ f = t => routes[f][t].weight = 0
    BY <2>1, <2>2, RT!LastEdgeExact
  <2>4. ASSUME p # NoEdge
        PROVE  /\ p \in RT!EdgeIds(graph_of_stops)
               /\ graph_of_stops.edges[p].from \in RT!Vertex
               /\ graph_of_stops.edges[p].to = t
    BY <2>1, <2>2, <2>4, RT!LastEdgeExact
  <2>5. ASSUME p # NoEdge
        PROVE  /\ graph_of_stops.edges[p].weight \in Nat
               /\ routes[f][graph_of_stops.edges[p].from] # NoRoute
    BY <2>1, <2>2, <2>5, RT!LastEdgeExact
  <2>6. ASSUME p # NoEdge
        PROVE  routes[f][t].weight
                 = routes[f][graph_of_stops.edges[p].from].weight + graph_of_stops.edges[p].weight
    BY <2>1, <2>2, <2>6, RT!LastEdgeExact
  <2> QED BY <1>1, <2>1, <2>3, <2>4, <2>5, <2>6 DEF Reach, Time, Last
<1>4. \A v \in Router!Vertex : Reach(v, v) /\ Time(v, v) = 0
  <2>1. \A v \in RT!Vertex : routes[v][v] = [weight |-> 0, prev_edge |-> NoEdge]
    BY <1>2 DEF RT!IInv, RT!DiagonalFree
  <2> QED BY <1>1, <2>1 DEF Reach, Time
<1>5. ASSUME NEW e \in EdgeIds(graph_of_stops)
      PROVE  /\ From(e) \in Router!Vertex /\ To(e) \in Router!Vertex
             /\ Reach(From(e), To(e))
             /\ Time(From(e), To(e)) <= graph_of_stops.edges[e].weight
  <2>1. /\ routes[From(e)][To(e)] # NoRoute
        /\ routes[From(e)][To(e)].weight <= graph_of_stops.edges[e].weight
    BY <1>1, <1>2 DEF RT!IInv, RT!NoEdgeBeats
  <2>2. From(e) \in 0 .. VertexCount - 1 /\ To(e) \in 0 .. VertexCount - 1
    BY <1>1, <1>2, RT!EdgeType
  <2> QED BY <2>1, <2>2 DEF Reach, Time, Router!Vertex
<1>6. ASSUME NEW f \in Router!Vertex, NEW v \in Router!Vertex, NEW t \in Router!Vertex,
             Reach(f, v), Reach(v, t)
      PROVE  Reach(f, t) /\ Time(f, t) <= Time(f, v) + Time(v, t)
  <2>1. v \in 0 .. through - 1
    BY <1>2 DEF Router!Vertex
  <2> QED BY <1>1, <1>6, <2>1 DEF RT!IInv, RT!ClosedThrough, Reach, Time
<1> QED BY <1>3, <1>4, <1>5, <1>6 DEF TableIsDone

(* The order the ranks of RouteQueryProofs give has such a depth.          *)
LEMMA DepthExists ==
  ASSUME RT!IInv, RT!Built, RT!Ranked, NEW f \in Router!Vertex
  PROVE  \E depth : IsDepth(depth, f)
<1> USE TableAssumption
<1>1. RT!Vertex = Router!Vertex /\ phase = "relaxing"
  BY DEF RT!Vertex, Router!Vertex, RT!Built
<1>2. PICK b \in Nat : \E rank \in RT!RankBelow(b) : RT!Ranks(rank)
  BY <1>1 DEF RT!Ranked
<1>3. PICK rank \in RT!RankBelow(b) : RT!Ranks(rank)
  BY <1>2
<1> DEFINE depth == [t \in Router!Vertex |-> RT!Cardinality(RT!Below(rank, f, t))]
<1>4. \A t \in Router!Vertex : depth[t] \in Nat /\ depth[t] <= VertexCount
  BY RT!BelowIsFinite
<1>5. ASSUME NEW t \in Router!Vertex, f # t, Reach(f, t)
      PROVE  depth[From(Last(f, t))] < depth[t]
  <2>1. PICK v : v = From(Last(f, t))
    OBVIOUS
  <2>2. v \in Router!Vertex /\ Reach(f, v)
    BY <1>5, <2>1, BuiltIsDone DEF TableIsDone
  <2>3. RT!Before(rank, f, v, t)
    BY <1>1, <1>3, <1>5, <2>1 DEF RT!Ranks, Reach, From, Last
  <2>4. RT!Cardinality(RT!Below(rank, f, v)) + 1 <= RT!Cardinality(RT!Below(rank, f, t))
    BY <1>1, <1>3, <1>5, <2>2, <2>3, RT!BelowGrows DEF Reach
  <2>5. depth[v] \in Nat /\ depth[t] \in Nat
    BY <1>4, <2>2
  <2> QED BY <2>1, <2>2, <2>4, <2>5
<1> HIDE DEF depth
<1>6. IsDepth(depth, f)
  BY <1>4, <1>5 DEF IsDepth
<1> QED BY <1>6

-----------------------------------------------------------------------------
(* The vertex at which passengers arrive at some stop.                     *)
IsIn(v) == \E s \in Stop : v = stop_vertexs_[s].in

(* A wait leads away from the "in" of a stop, a ride to the "in" of one.   *)
EdgesAlternate ==
  \A e \in EdgeIds(graph_of_stops) :
    IF IsWait(e) THEN IsIn(From(e)) /\ ~IsIn(To(e)) ELSE ~IsIn(From(e)) /\ IsIn(To(e))

EdgeTimes(q) == [k \in 1 .. Len(q) |-> graph_of_stops.edges[q[k]].weight]

(* The edges q lead from f to t, a wait and a ride in turn, and take as    *)
(* long as the table says.                                                 *)
Path(q, f, t) ==
  /\ q \in Seq(EdgeIds(graph_of_stops))
  /\ q = << >> => f = t
  /\ q # << >> => From(q[1]) = f /\ To(q[Len(q)]) = t
  /\ \A i \in 1 .. Len(q) - 1 : To(q[i]) = From(q[i + 1])
  /\ \A i \in 1 .. Len(q) : IsWait(q[i]) <=> i % 2 = 1
  /\ IsIn(t) <=> Len(q) % 2 = 0
  /\ \A g : IsSum(g, 0, Len(q), EdgeTimes(q)) => g[Len(q)] = Time(f, t)

LEMMA PathBegins ==
  ASSUME TableIsDone, NEW f \in Router!Vertex, IsIn(f) PROVE Path(<< >>, f, f)
<1>1. Len(<< >>) = 0 /\ Time(f, f) = 0
  BY DEF TableIsDone
<1>2. << >> \in Seq(EdgeIds(graph_of_stops))
  OBVIOUS
<1>3. ASSUME NEW g, IsSum(g, 0, 0, EdgeTimes(<< >>)) PROVE g[0] = 0
  BY <1>3 DEF IsSum
<1> QED BY <1>1, <1>2, <1>3 DEF Path

(* An edge more, if it is the one the table says, and the path is one      *)
(* still.                                                                  *)
LEMMA PathGrows ==
  ASSUME TableIsDone, EdgesAlternate, NEW f \in Router!Vertex,
         NEW e \in EdgeIds(graph_of_stops), NEW q, Path(q, f, From(e)),
         NEW w \in Nat, w = graph_of_stops.edges[e].weight,
         Time(f, To(e)) = Time(f, From(e)) + w
  PROVE  Path(Append(q, e), f, To(e))
<1>1. PICK E : E = EdgeIds(graph_of_stops)
  OBVIOUS
<1>2. q \in Seq(E) /\ e \in E
  BY <1>1 DEF Path
<1>3. PICK n, p : n = Len(q) /\ p = Append(q, e)
  OBVIOUS
<1>4. /\ n \in Nat /\ p \in Seq(E) /\ Len(p) = n + 1 /\ p[n + 1] = e
      /\ \A i \in 1 .. n : p[i] = q[i]
      /\ p # << >> /\ (q = << >> <=> n = 0)
  BY <1>2, <1>3
<1>5. From(p[1]) = f
  <2>1. CASE n = 0
    BY <1>3, <1>4, <2>1 DEF Path
  <2>2. CASE n # 0
    BY <1>3, <1>4, <2>2 DEF Path
  <2> QED BY <2>1, <2>2
<1>6. \A i \in 1 .. Len(p) - 1 : To(p[i]) = From(p[i + 1])
  <2>1. ASSUME NEW i \in 1 .. n PROVE To(p[i]) = From(p[i + 1])
    <3>1. CASE i = n
      <4>1. q # << >> /\ To(q[n]) = From(e)
        BY <1>3, <1>4, <2>1, <3>1 DEF Path
      <4> QED BY <1>4, <3>1, <4>1
    <3>2. CASE i # n
      <4>1. i \in 1 .. Len(q) - 1 /\ i \in 1 .. n /\ i + 1 \in 1 .. n
        BY <1>3, <1>4, <3>2
      <4> QED BY <1>4, <4>1 DEF Path
    <3> QED BY <3>1, <3>2
  <2> QED BY <1>4, <2>1
<1>7. /\ IsWait(e) <=> (n + 1) % 2 = 1
      /\ IsIn(To(e)) <=> (n + 1) % 2 = 0
  <2>1. IsWait(e) <=> n % 2 = 0
    BY <1>3 DEF EdgesAlternate, Path
  <2>2. IsIn(To(e)) <=> ~IsWait(e)
    BY DEF EdgesAlternate
  <2>3. n % 2 = 0 <=> (n + 1) % 2 = 1
    BY <1>4
  <2>4. (n + 1) % 2 = 0 <=> (n + 1) % 2 # 1
    BY <1>4
  <2> QED BY <2>1, <2>2, <2>3, <2>4
<1>8. \A i \in 1 .. n + 1 : IsWait(p[i]) <=> i % 2 = 1
  <2>1. ASSUME NEW i \in 1 .. n + 1 PROVE IsWait(p[i]) <=> i % 2 = 1
    <3>1. CASE i = n + 1
      BY <1>4, <1>7, <3>1
    <3>2. CASE i # n + 1
      <4>1. i \in 1 .. n
        BY <1>4, <3>2
      <4> QED BY <1>3, <1>4, <4>1 DEF Path
    <3> QED BY <3>1, <3>2
  <2> QED BY <2>1
<1>9. ASSUME NEW g, IsSum(g, 0, n + 1, EdgeTimes(p)) PROVE g[n + 1] = Time(f, To(e))
  <2>1. PICK h : h = [k \in 0 .. n |-> g[k]]
    OBVIOUS
  <2>2. PICK d, d1 : d = EdgeTimes(q) /\ d1 = EdgeTimes(p)
    OBVIOUS
  <2>3. /\ d1[n + 1] = w /\ \A k \in 1 .. n : d1[k] = d[k]
    BY <1>3, <1>4, <2>2 DEF EdgeTimes
  <2>4. g[0] = 0 /\ \A k \in 1 .. n + 1 : g[k] = g[k - 1] + d1[k]
    BY <1>4, <1>9, <2>2 DEF IsSum
  <2>5. IsSum(h, 0, n, d)
    <3>1. ASSUME NEW k \in 0 + 1 .. n PROVE h[k] = h[k - 1] + d[k]
      <4>1. k \in 1 .. n + 1 /\ k \in 1 .. n /\ k \in 0 .. n /\ k - 1 \in 0 .. n
        BY <1>4
      <4> QED BY <2>1, <2>3, <2>4, <4>1
    <3>2. DOMAIN h = 0 .. n /\ h[0] = 0
      BY <1>4, <2>1, <2>4
    <3> QED BY <3>1, <3>2 DEF IsSum
  <2>6. h[n] = Time(f, From(e))
    BY <1>3, <2>2, <2>5 DEF Path
  <2>7. h[n] = g[n] /\ g[n + 1] = g[n] + w
    <3>1. n + 1 \in 1 .. n + 1 /\ (n + 1) - 1 = n /\ n \in 0 .. n
      BY <1>4
    <3> QED BY <2>1, <2>3, <2>4, <3>1
  <2> QED BY <2>6, <2>7
<1> QED BY <1>1, <1>3, <1>4, <1>5, <1>6, <1>7, <1>8, <1>9 DEF Path

(* What BuildRoute returns is a path, as long as the table says.           *)
LEMMA RouteIsPath ==
  ASSUME TableIsDone, EdgesAlternate, NEW from \in Router!Vertex, IsIn(from),
         NEW depth, IsDepth(depth, from), NEW to \in Reached(from)
  PROVE  Path(BuildRoute(from, to), from, to)
<1> USE TableAssumption
<1>1. PICK V, E : V = Reached(from) /\ E = EdgeIds(graph_of_stops)
  OBVIOUS
<1>2. PICK last, source : /\ last = [v \in V |-> Last(from, v)]
                          /\ source = [v \in V |-> From(Last(from, v))]
  OBVIOUS
<1>3. \A v \in V : v \in Router!Vertex /\ Reach(from, v) /\ last[v] = Last(from, v)
                   /\ source[v] = From(last[v])
  BY <1>1, <1>2 DEF Reached, Reach
<1>4. ASSUME NEW v \in V, last[v] # NoEdge
      PROVE  /\ last[v] \in E /\ source[v] \in V /\ depth[source[v]] < depth[v]
             /\ To(last[v]) = v
             /\ graph_of_stops.edges[last[v]].weight \in Nat
             /\ Time(from, v) = Time(from, source[v]) + graph_of_stops.edges[last[v]].weight
  <2>1. from # v
    BY <1>3, <1>4 DEF TableIsDone
  <2>2. /\ last[v] \in E /\ source[v] \in Router!Vertex
        /\ To(last[v]) = v
        /\ graph_of_stops.edges[last[v]].weight \in Nat
        /\ Reach(from, source[v])
        /\ Time(from, v) = Time(from, source[v]) + graph_of_stops.edges[last[v]].weight
    BY <1>1, <1>3, <2>1 DEF TableIsDone
  <2>3. depth[source[v]] < depth[v]
    BY <1>3, <2>1 DEF IsDepth
  <2> QED BY <1>1, <2>2, <2>3 DEF Reached, Reach
<1>5. \A v \in V : depth[v] \in Nat /\ depth[v] < VertexCount + 1
  BY <1>3 DEF IsDepth
<1> DEFINE Is(h) == h = [v \in V |-> IF last[v] = NoEdge THEN << >>
                                     ELSE Append(h[source[v]], last[v])]
<1>6. PICK g \in [V -> Seq(E)] :
         \A v \in V : g[v] = IF last[v] = NoEdge THEN << >> ELSE Append(g[source[v]], last[v])
  <2>1. PICK b : b = VertexCount + 1 /\ b \in Nat
    OBVIOUS
  <2>2. \A v \in V : depth[v] \in Nat /\ depth[v] < b
    BY <1>5, <2>1
  <2>3. \A v \in V : last[v] # NoEdge =>
          last[v] \in E /\ source[v] \in V /\ depth[source[v]] < depth[v]
    BY <1>4
  <2>4. LeadsBack(V, E, NoEdge, last, source, depth, b)
    BY <2>1, <2>2, <2>3 DEF LeadsBack
  <2> QED BY <2>4, FollowExists
<1>7. \E h : Is(h)
  BY <1>6
<1>8. BuildRoute(from, to) = (CHOOSE h : Is(h))[to]
  BY <1>1, <1>2, <1>3 DEF BuildRoute, Last
<1> HIDE DEF Is
<1>9. PICK f : f = CHOOSE h : Is(h)
  OBVIOUS
<1>10. Is(f)
  BY <1>7, <1>9, Zenon
<1>11. \A v \in V : f[v] = IF last[v] = NoEdge THEN << >> ELSE Append(f[source[v]], last[v])
  BY <1>10 DEF Is
<1> DEFINE T == {depth[v] : v \in {u \in V : ~Path(f[u], from, u)}}
<1>12. ASSUME T # {} PROVE FALSE
  <2>1. PICK m \in T : \A y \in T : m <= y
    <3>1. T \in SUBSET Nat
      BY <1>5
    <3> HIDE DEF T
    <3> QED BY <1>12, <3>1, LeastNat
  <2>2. PICK v \in V : ~Path(f[v], from, v) /\ m = depth[v]
    OBVIOUS
  <2>3. CASE last[v] = NoEdge
    <3>1. v = from
      BY <1>3, <2>3 DEF TableIsDone
    <3>2. f[v] = << >>
      BY <1>11, <2>3
    <3> QED BY <2>2, <3>1, <3>2, PathBegins
  <2>4. CASE last[v] # NoEdge
    <3>1. PICK e, u, w : e = last[v] /\ u = source[v] /\ w = graph_of_stops.edges[e].weight
      OBVIOUS
    <3>2. /\ e \in E /\ u \in V /\ depth[u] < depth[v] /\ To(e) = v /\ w \in Nat
          /\ Time(from, v) = Time(from, u) + w /\ From(e) = u
      BY <1>3, <1>4, <2>4, <3>1
    <3>3. Path(f[u], from, u)
      <4>1. CASE ~Path(f[u], from, u)
        <5>1. depth[u] \in T
          BY <3>2, <4>1
        <5>2. depth[u] \in Nat /\ depth[v] \in Nat
          BY <1>5, <3>2
        <5> HIDE DEF T
        <5> QED BY <2>1, <2>2, <3>2, <5>1, <5>2
      <4> QED BY <4>1
    <3>4. f[v] = Append(f[u], e)
      BY <1>11, <2>4, <3>1
    <3>5. PICK q : q = f[u]
      OBVIOUS
    <3>6. Path(Append(q, e), from, To(e))
      BY <1>1, <3>1, <3>2, <3>3, <3>5, PathGrows
    <3> QED BY <2>2, <3>2, <3>4, <3>5, <3>6
  <2> QED BY <2>3, <2>4
<1>13. Path(f[to], from, to)
  <2> HIDE DEF Path
  <2> QED BY <1>1, <1>12
<1> QED BY <1>8, <1>9, <1>13

-----------------------------------------------------------------------------
(* Every stop that has vertices has its wait, of the time that is set.     *)
EveryStopWaits ==
  /\ \A e \in EdgeIds(graph_of_stops) : IsWait(e) => info_about_edge[e].weight_ = WaitTime
  /\ \A s \in DOMAIN stop_vertexs_ : \E e \in EdgeIds(graph_of_stops) :
       IsWait(e) /\ info_about_edge[e].name_ = s

LEMMA WaitsKept == RidesInv /\ EveryStopWaits /\ [Next]_vars => EveryStopWaits'
<1> SUFFICES ASSUME RidesInv, EveryStopWaits, [Next]_vars PROVE EveryStopWaits'
  OBVIOUS
<1> USE TransportRouterAssumption
<1>1. RInv
  BY DEF RidesInv
<1>2. PICK m : m = Len(graph_of_stops.edges)
  OBVIOUS
<1>3. CASE CreateVertex
  <2>1. PICK v \in Nat : v = total_vertex /\ OneMore(v, v + 1, WaitTime, m + 1, NoSpan, m)
    BY <1>1, <1>2, <1>3, WaitAdded
  <2>2. /\ m \in Nat /\ EdgeIds(graph_of_stops) = 1 .. m /\ EdgeIds(graph_of_stops)' = 1 .. m + 1
        /\ info_about_edge'[m + 1] = [name_ |-> m + 1, weight_ |-> WaitTime, span_count_ |-> NoSpan]
        /\ \A e \in 1 .. m : info_about_edge'[e] = info_about_edge[e]
    BY <2>1 DEF OneMore
  <2>3. DOMAIN stop_vertexs_' = DOMAIN stop_vertexs_ \cup {m + 1}
    BY <1>2, <1>3 DEF CreateVertex, Assign
  <2>4. \A e \in 1 .. m : IsWait(e)' <=> IsWait(e)
    BY <2>2 DEF IsWait
  <2>5. IsWait(m + 1)' /\ info_about_edge'[m + 1].weight_ = WaitTime
        /\ info_about_edge'[m + 1].name_ = m + 1
    BY <2>2 DEF IsWait
  <2>6. ASSUME NEW e \in 1 .. m + 1, IsWait(e)' PROVE info_about_edge'[e].weight_ = WaitTime
    <3>1. CASE e = m + 1
      BY <2>5, <3>1
    <3>2. CASE e # m + 1
      <4>1. e \in 1 .. m
        BY <2>2, <3>2
      <4> QED BY <2>2, <2>4, <2>6, <4>1 DEF EveryStopWaits
    <3> QED BY <3>1, <3>2
  <2>7. ASSUME NEW s \in DOMAIN stop_vertexs_ \cup {m + 1}
        PROVE  \E e \in 1 .. m + 1 : IsWait(e)' /\ info_about_edge'[e].name_ = s
    <3>1. CASE s = m + 1
      BY <2>2, <2>5, <3>1
    <3>2. CASE s # m + 1
      <4>1. PICK e \in 1 .. m : IsWait(e) /\ info_about_edge[e].name_ = s
        BY <2>2, <2>7, <3>2 DEF EveryStopWaits
      <4>2. e \in 1 .. m + 1
        BY <2>2
      <4> QED BY <2>2, <2>4, <4>1, <4>2
    <3> QED BY <3>1, <3>2
  <2> QED BY <2>2, <2>3, <2>6, <2>7 DEF EveryStopWaits
<1>4. CASE CreateEdge
  <2>1. PICK f, t, w, name, span : OneMore(f, t, w, name, span, m) /\ span = stops_count'
    BY <1>1, <1>2, <1>4, RideAdded
  <2>2. /\ m \in Nat /\ EdgeIds(graph_of_stops) = 1 .. m /\ EdgeIds(graph_of_stops)' = 1 .. m + 1
        /\ info_about_edge'[m + 1] = [name_ |-> name, weight_ |-> w, span_count_ |-> span]
        /\ \A e \in 1 .. m : info_about_edge'[e] = info_about_edge[e]
    BY <2>1 DEF OneMore
  <2>3. DOMAIN stop_vertexs_' = DOMAIN stop_vertexs_
    BY <1>4 DEF CreateEdge
  <2>4. \A e \in 1 .. m : IsWait(e)' <=> IsWait(e)
    BY <2>2 DEF IsWait
  <2>5. ~IsWait(m + 1)'
    <3>1. stops_count \in Nat /\ stops_count' = stops_count + 1
      BY <1>1, <1>4 DEF RInv, GraphInv, TypeOK, CreateEdge
    <3>2. span \in Nat
      BY <2>1, <3>1
    <3>3. span # NoSpan
      BY <3>2
    <3> QED BY <2>2, <3>3 DEF IsWait
  <2>6. ASSUME NEW e \in 1 .. m + 1, IsWait(e)' PROVE info_about_edge'[e].weight_ = WaitTime
    <3>1. e # m + 1
      BY <2>5, <2>6
    <3>2. e \in 1 .. m
      BY <2>2, <3>1
    <3> QED BY <2>2, <2>4, <2>6, <3>2 DEF EveryStopWaits
  <2>7. ASSUME NEW s \in DOMAIN stop_vertexs_
        PROVE  \E e \in 1 .. m + 1 : IsWait(e)' /\ info_about_edge'[e].name_ = s
    <3>1. PICK e \in 1 .. m : IsWait(e) /\ info_about_edge[e].name_ = s
      BY <2>2 DEF EveryStopWaits
    <3>2. e \in 1 .. m + 1
      BY <2>2
    <3> QED BY <2>2, <2>4, <3>1, <3>2
  <2> QED BY <2>2, <2>3, <2>6, <2>7 DEF EveryStopWaits
<1>5. CASE UNCHANGED built
  BY <1>5 DEF built, EveryStopWaits, IsWait
<1>6. StartEdges \/ ThrowNoLength \/ NextFrom \/ TurnBack \/ NextBus \/ Finish \/ UNCHANGED vars
        => UNCHANGED built
  BY DEF StartEdges, ThrowNoLength, NextFrom, TurnBack, NextBus, Finish, vars, built
<1> QED BY <1>3, <1>4, <1>5, <1>6 DEF Next

LEMMA WaitsAtFirst == Init => EveryStopWaits
BY DEF Init, EmptyGraph, EdgeIds, EveryStopWaits

(* The finished graph, with what the answers to Route requests rest on.    *)
Finished == pc = "done" /\ RidesInv /\ EveryStopWaits

(* No two vertices of stops are the same.                                  *)
LEMMA StopsNumbered ==
  ASSUME Finished
  PROVE  /\ DOMAIN stop_vertexs_ = Stop
         /\ \A s \in Stop : /\ stop_vertexs_[s].in \in Router!Vertex
                            /\ stop_vertexs_[s].out \in Router!Vertex
         /\ \A a, b \in Stop : /\ stop_vertexs_[a].in # stop_vertexs_[b].out
                               /\ stop_vertexs_[a].in = stop_vertexs_[b].in => a = b
                               /\ stop_vertexs_[a].out = stop_vertexs_[b].out => a = b
<1> USE TransportRouterAssumption
<1>1. VerticesNumbered /\ TypeOK /\ pc = "done"
  BY DEF Finished, RidesInv, RInv, GraphInv
<1>2. DOMAIN stop_vertexs_ = Stop
  BY <1>1 DEF VerticesNumbered
<1>3. ASSUME NEW s \in Stop
      PROVE  stop_vertexs_[s].in \in Router!Vertex /\ stop_vertexs_[s].out \in Router!Vertex
  <2>1. /\ s \in Nat /\ 1 <= s /\ s <= StopCount
        /\ stop_vertexs_[s].in = 2 * s - 2 /\ stop_vertexs_[s].out = 2 * s - 1
    BY <1>1, <1>2 DEF VerticesNumbered, Stop
  <2> QED BY <2>1 DEF Router!Vertex, VertexCount
<1> QED BY <1>1, <1>2, <1>3, NumbersDiffer

LEMMA Alternating == Finished => EdgesAlternate
<1> SUFFICES ASSUME Finished, NEW e \in EdgeIds(graph_of_stops)
             PROVE  IF IsWait(e) THEN IsIn(From(e)) /\ ~IsIn(To(e))
                                 ELSE ~IsIn(From(e)) /\ IsIn(To(e))
  BY DEF EdgesAlternate
<1>1. EdgesExplained
  BY DEF Finished, RidesInv, RInv, GraphInv
<1>2. CASE IsWait(e)
  BY <1>1, <1>2, StopsNumbered DEF EdgesExplained, IsIn
<1>3. CASE ~IsWait(e)
  BY <1>1, <1>3, StopsNumbered DEF EdgesExplained, IsIn
<1> QED BY <1>2, <1>3

(* A wait that an edge of the finished graph stands for.                   *)
LEMMA WaitOfEdge ==
  ASSUME Finished, NEW e \in EdgeIds(graph_of_stops), IsWait(e)
  PROVE  \E s \in Stop :
           /\ info_about_edge[e] = [name_ |-> s, weight_ |-> WaitTime, span_count_ |-> NoSpan]
           /\ From(e) = stop_vertexs_[s].in /\ To(e) = stop_vertexs_[s].out
           /\ graph_of_stops.edges[e].weight = WaitTime
<1>1. EdgesExplained /\ TypeOK /\ EveryStopWaits
  BY DEF Finished, RidesInv, RInv, GraphInv
<1>2. PICK s : s = info_about_edge[e].name_
  OBVIOUS
<1>3. s \in Stop /\ From(e) = stop_vertexs_[s].in /\ To(e) = stop_vertexs_[s].out
  BY <1>1, <1>2, StopsNumbered DEF EdgesExplained
<1>4. info_about_edge[e] \in [name_ : BusNames \cup Stop, weight_ : Nat,
                              span_count_ : Nat \cup {NoSpan}]
  BY <1>1 DEF TypeOK, EdgesExplained
<1>5. info_about_edge[e].weight_ = WaitTime /\ info_about_edge[e].span_count_ = NoSpan
  BY <1>1 DEF EveryStopWaits, IsWait
<1>6. info_about_edge[e].weight_ = graph_of_stops.edges[e].weight
  BY <1>1 DEF EdgesExplained
<1> QED BY <1>2, <1>3, <1>4, <1>5, <1>6

(* And a ride.                                                             *)
LEMMA RideOfEdge ==
  ASSUME Finished, NEW e \in EdgeIds(graph_of_stops), ~IsWait(e)
  PROVE  \E ride \in Rides :
           /\ info_about_edge[e] = [name_ |-> ride.name, weight_ |-> ride.time,
                                    span_count_ |-> ride.spans]
           /\ ride.from \in Stop /\ ride.to \in Stop
           /\ From(e) = stop_vertexs_[ride.from].out /\ To(e) = stop_vertexs_[ride.to].in
           /\ graph_of_stops.edges[e].weight = ride.time
<1>1. RidesAreReal /\ IsDatabase /\ EdgesExplained
  BY DEF Finished, RidesInv, RInv, GraphInv, TypeOK
<1>2. PICK b \in DOMAIN all_buses_ : \E back \in Directions(b) : \E p \in Places(b) :
             IsRide(e, b, back, p[1], p[2])
  BY <1>1 DEF RidesAreReal
<1>3. PICK back \in Directions(b) : \E p \in Places(b) : IsRide(e, b, back, p[1], p[2])
  BY <1>2
<1>4. PICK p \in Places(b) : IsRide(e, b, back, p[1], p[2])
  BY <1>3
<1>5. PICK way, i, j : way = Way(b, back) /\ i = p[1] /\ j = p[2]
  OBVIOUS
<1>6. /\ info_about_edge[e] = [name_ |-> all_buses_[b].name,
                               weight_ |-> RoadTime(way, i, j), span_count_ |-> j - i]
      /\ From(e) = stop_vertexs_[way[i]].out /\ To(e) = stop_vertexs_[way[j]].in
  BY <1>4, <1>5 DEF IsRide
<1>7. way[i] \in Stop /\ way[j] \in Stop
  <2>1. PICK stops : stops = all_buses_[b].stops /\ stops \in Seq(Stop)
    BY <1>1, BusFields
  <2>2. i \in DOMAIN stops /\ j \in DOMAIN stops
    BY <1>5, <2>1 DEF Places
  <2>3. PICK n \in Nat : n = Len(stops) /\ DOMAIN stops = 1 .. n
    BY <2>1
  <2>4. CASE back
    <3>1. way = [k \in 1 .. n |-> stops[n + 1 - k]]
      BY <1>5, <2>1, <2>3, <2>4 DEF Way
    <3>2. n + 1 - i \in 1 .. n /\ n + 1 - j \in 1 .. n
      BY <2>2, <2>3
    <3>3. i \in 1 .. n /\ j \in 1 .. n
      BY <2>2, <2>3
    <3>4. way[i] = stops[n + 1 - i] /\ way[j] = stops[n + 1 - j]
      BY <3>1, <3>3
    <3>5. \A k \in 1 .. n : stops[k] \in Stop
      BY <2>1, <2>3
    <3> QED BY <3>2, <3>4, <3>5
  <2>5. CASE ~back
    BY <1>5, <2>1, <2>2, <2>5 DEF Way
  <2> QED BY <2>4, <2>5
<1>8. PICK ride : ride = [name |-> all_buses_[b].name, from |-> way[i], to |-> way[j],
                          time |-> RoadTime(way, i, j), spans |-> j - i]
  OBVIOUS
<1>9. ride \in Rides
  BY <1>4, <1>5, <1>8 DEF Rides
<1>10. graph_of_stops.edges[e].weight = ride.time
  BY <1>1, <1>6, <1>8 DEF EdgesExplained
<1> QED BY <1>6, <1>7, <1>8, <1>9, <1>10

-----------------------------------------------------------------------------
(* The items GetRouteInfo makes of edges.                                  *)
Items(q) == [i \in DOMAIN q |-> info_about_edge[q[i]]]

(* The items of a path between two stops can be travelled.                 *)
LEMMA PathCanBeTravelled ==
  ASSUME Finished, NEW from \in Stop, NEW to \in Stop, NEW q,
         Path(q, stop_vertexs_[from].in, stop_vertexs_[to].in)
  PROVE  CanBeTravelled(Items(q), from, to)
<1> USE TransportRouterAssumption
<1>1. PICK E, items : E = EdgeIds(graph_of_stops) /\ items = Items(q)
  OBVIOUS
<1>2. PICK n : n = Len(q)
  OBVIOUS
<1>3. q \in Seq(E)
  BY <1>1 DEF Path
<1>4. /\ n \in Nat /\ \A i \in 1 .. n : q[i] \in E
      /\ DOMAIN q = 1 .. n /\ (q = << >> <=> n = 0)
  BY <1>2, <1>3
<1>5. /\ items \in [1 .. n -> {info_about_edge[e] : e \in E}]
      /\ \A i \in 1 .. n : items[i] = info_about_edge[q[i]]
  BY <1>1, <1>4 DEF Items
<1>6. Len(items) = n
  BY <1>4, <1>5
<1>7. n % 2 = 0
  <2>1. IsIn(stop_vertexs_[to].in)
    BY DEF IsIn
  <2> QED BY <1>2, <2>1 DEF Path
<1>8. PICK h : h = n \div 2 /\ h \in Nat /\ n = 2 * h
  BY <1>4, <1>7
<1>9. PICK stops : stops = [k \in 1 .. h + 1 |-> IF k = h + 1 THEN to ELSE items[2 * k - 1].name_]
  OBVIOUS
(* The waits, at the odd places, and the rides at the even ones.           *)
<1>10. ASSUME NEW k \in 1 .. h
       PROVE  /\ stops[k] \in Stop
              /\ items[2 * k - 1] = [name_ |-> stops[k], weight_ |-> WaitTime, span_count_ |-> NoSpan]
              /\ From(q[2 * k - 1]) = stop_vertexs_[stops[k]].in
              /\ To(q[2 * k - 1]) = stop_vertexs_[stops[k]].out
  <2>1. 2 * k - 1 \in 1 .. n /\ (2 * k - 1) % 2 = 1
    BY <1>8
  <2>2. PICK e : e = q[2 * k - 1] /\ e \in E /\ IsWait(e)
    BY <1>2, <1>4, <2>1 DEF Path
  <2>3. PICK s \in Stop :
           /\ info_about_edge[e] = [name_ |-> s, weight_ |-> WaitTime, span_count_ |-> NoSpan]
           /\ From(e) = stop_vertexs_[s].in /\ To(e) = stop_vertexs_[s].out
    BY <1>1, <2>2, WaitOfEdge
  <2>4. items[2 * k - 1] = info_about_edge[e]
    BY <1>5, <2>1, <2>2
  <2>5. stops[k] = items[2 * k - 1].name_
    <3>1. k \in 1 .. h + 1 /\ k # h + 1
      BY <1>8
    <3> QED BY <1>9, <3>1
  <2>6. stops[k] = s
    BY <2>3, <2>4, <2>5
  <2> QED BY <2>2, <2>3, <2>4, <2>6
<1>11. stops[h + 1] = to
  <2>1. h + 1 \in 1 .. h + 1
    BY <1>8
  <2> QED BY <1>9, <2>1
<1>12. \A k \in 1 .. h + 1 : stops[k] \in Stop
  <2>1. ASSUME NEW k \in 1 .. h + 1, k # h + 1 PROVE k \in 1 .. h
    BY <1>8, <2>1
  <2> QED BY <1>10, <1>11, <2>1
<1>13. stops[1] = from
  <2>1. CASE h = 0
    <3>1. stop_vertexs_[from].in = stop_vertexs_[to].in
      BY <1>4, <1>8, <2>1 DEF Path
    <3>2. from = to
      BY <3>1, StopsNumbered
    <3> QED BY <1>11, <2>1, <3>2
  <2>2. CASE h # 0
    <3>1. 1 \in 1 .. h /\ 2 * 1 - 1 = 1 /\ n # 0
      BY <1>8, <2>2
    <3>2. From(q[1]) = stop_vertexs_[from].in
      BY <1>4, <3>1 DEF Path
    <3>3. stop_vertexs_[stops[1]].in = stop_vertexs_[from].in /\ stops[1] \in Stop
      BY <1>10, <3>1, <3>2
    <3> QED BY <3>3, StopsNumbered
  <2> QED BY <2>1, <2>2
(* A ride ends where the next wait is, or at the end.                      *)
<1>14. ASSUME NEW k \in 1 .. h PROVE To(q[2 * k]) = stop_vertexs_[stops[k + 1]].in
  <2>1. CASE k = h
    <3>1. n # 0 /\ 2 * k = n
      BY <1>8, <2>1
    <3>2. To(q[n]) = stop_vertexs_[to].in
      BY <1>2, <1>4, <3>1 DEF Path
    <3> QED BY <1>11, <2>1, <3>1, <3>2
  <2>2. CASE k # h
    <3>1. 2 * k \in 1 .. n - 1 /\ k + 1 \in 1 .. h /\ 2 * (k + 1) - 1 = 2 * k + 1
      BY <1>8, <2>2
    <3>2. To(q[2 * k]) = From(q[2 * k + 1])
      BY <1>2, <3>1 DEF Path
    <3>3. From(q[2 * (k + 1) - 1]) = stop_vertexs_[stops[k + 1]].in
      BY <1>10, <3>1
    <3> QED BY <3>1, <3>2, <3>3
  <2> QED BY <2>1, <2>2
<1>15. ASSUME NEW k \in 1 .. h
       PROVE  \E ride \in Rides :
                /\ items[2 * k] = [name_ |-> ride.name, weight_ |-> ride.time,
                                   span_count_ |-> ride.spans]
                /\ ride.from = stops[k] /\ ride.to = stops[k + 1]
  <2>1. /\ 2 * k \in 1 .. n /\ (2 * k) % 2 # 1
        /\ 2 * k - 1 \in 1 .. n - 1 /\ (2 * k - 1) + 1 = 2 * k /\ k \in 1 .. h + 1 /\ k + 1 \in 1 .. h + 1
    BY <1>8
  <2>2. PICK e : e = q[2 * k] /\ e \in E /\ ~IsWait(e)
    BY <1>2, <1>4, <2>1 DEF Path
  <2>3. PICK ride \in Rides :
           /\ info_about_edge[e] = [name_ |-> ride.name, weight_ |-> ride.time,
                                    span_count_ |-> ride.spans]
           /\ ride.from \in Stop /\ ride.to \in Stop
           /\ From(e) = stop_vertexs_[ride.from].out /\ To(e) = stop_vertexs_[ride.to].in
    BY <1>1, <2>2, RideOfEdge
  <2>4. items[2 * k] = info_about_edge[e]
    BY <1>5, <2>1, <2>2
  <2>5. From(e) = stop_vertexs_[stops[k]].out
    <3>1. To(q[2 * k - 1]) = From(q[(2 * k - 1) + 1])
      BY <1>2, <2>1 DEF Path
    <3> QED BY <1>10, <2>1, <2>2, <3>1
  <2>6. To(e) = stop_vertexs_[stops[k + 1]].in
    BY <1>14, <2>2
  <2>7. ride.from = stops[k] /\ ride.to = stops[k + 1]
    BY <1>12, <2>1, <2>3, <2>5, <2>6, StopsNumbered
  <2> QED BY <2>3, <2>4, <2>7
<1>16. stops = [k \in 1 .. Len(items) \div 2 + 1 |->
                  IF k = Len(items) \div 2 + 1 THEN to ELSE items[2 * k - 1].name_]
  BY <1>6, <1>8, <1>9
<1>17. /\ Len(items) % 2 = 0 /\ Len(items) \div 2 = h
       /\ \A k \in 1 .. h :
            /\ items[2 * k - 1] = [name_ |-> stops[k], weight_ |-> WaitTime,
                                  span_count_ |-> NoSpan]
            /\ \E ride \in Rides :
                 /\ items[2 * k] = [name_ |-> ride.name, weight_ |-> ride.time,
                                   span_count_ |-> ride.spans]
                 /\ ride.from = stops[k] /\ ride.to = stops[k + 1]
  BY <1>6, <1>7, <1>8, <1>10, <1>15
<1>18. CanBeTravelled(items, from, to)
  BY <1>13, <1>16, <1>17, Zenon DEF CanBeTravelled
<1> QED BY <1>1, <1>18

(* TotalTime adds up the times of the items.                               *)
LEMMA TotalIsSum ==
  ASSUME NEW n \in Nat, NEW items, Len(items) = n, NEW d,
         \A k \in 1 .. n : d[k] \in Nat /\ d[k] = items[k].weight_
  PROVE  \E g : IsSum(g, 0, n, d) /\ TotalTime(items) = g[n]
<1> DEFINE Adds(h) == h = [k \in 0 .. Len(items) |->
                             IF k = 0 THEN 0 ELSE h[k - 1] + items[k].weight_]
<1>1. PICK g \in [0 .. n -> Nat] : IsSum(g, 0, n, d)
  <2>1. \A k \in 0 + 1 .. n : d[k] \in Nat
    OBVIOUS
  <2>2. 0 \in Int /\ n \in Int /\ 0 <= n
    OBVIOUS
  <2> HIDE DEF Adds
  <2> QED BY <2>1, <2>2, SumExists
<1>2. Adds(g)
  <2>1. ASSUME NEW k \in 0 .. n
        PROVE  g[k] = IF k = 0 THEN 0 ELSE g[k - 1] + items[k].weight_
    <3>1. CASE k = 0
      BY <1>1, <3>1 DEF IsSum
    <3>2. CASE k # 0
      <4>1. k \in 1 .. n /\ k \in 0 + 1 .. n
        BY <3>2
      <4> QED BY <1>1, <3>2, <4>1 DEF IsSum
    <3> QED BY <3>1, <3>2
  <2> QED BY <2>1
<1>3. PICK f : f = CHOOSE h : Adds(h)
  OBVIOUS
<1>4. TotalTime(items) = f[n]
  BY <1>3 DEF TotalTime
<1> HIDE DEF Adds
<1>5. Adds(f)
  BY <1>2, <1>3, Zenon
<1>6. IsSum(f, 0, n, d)
  <2>1. \A k \in 0 .. n : f[k] = IF k = 0 THEN 0 ELSE f[k - 1] + items[k].weight_
    BY <1>5 DEF Adds
  <2>2. DOMAIN f = 0 .. n
    BY <1>5 DEF Adds
  <2>3. ASSUME NEW k \in 0 + 1 .. n PROVE f[k] = f[k - 1] + d[k]
    <3>1. k \in 0 .. n /\ k # 0 /\ k \in 1 .. n
      OBVIOUS
    <3> QED BY <2>1, <3>1
  <2> QED BY <2>1, <2>2, <2>3 DEF IsSum
<1> QED BY <1>4, <1>6

(* And take the time that the table has.                                   *)
LEMMA PathTakesItsTime ==
  ASSUME Finished, TableIsDone, NEW f, NEW t, NEW q, Path(q, f, t)
  PROVE  TotalTime(Items(q)) = Time(f, t)
<1>1. PICK E, items, n, d : /\ E = EdgeIds(graph_of_stops) /\ items = Items(q) /\ n = Len(q)
                            /\ d = EdgeTimes(q)
  OBVIOUS
<1>2. q \in Seq(E)
  BY <1>1 DEF Path
<1>3. n \in Nat /\ \A i \in 1 .. n : q[i] \in E
  BY <1>1, <1>2
<1>4. /\ items \in [1 .. n -> {info_about_edge[e] : e \in E}]
      /\ \A i \in 1 .. n : items[i] = info_about_edge[q[i]]
  BY <1>1, <1>2, <1>3 DEF Items
<1>5. Len(items) = n
  BY <1>3, <1>4
<1>6. ASSUME NEW k \in 1 .. n PROVE d[k] \in Nat /\ d[k] = items[k].weight_
  <2>1. EdgesExplained /\ TypeOK
    BY DEF Finished, RidesInv, RInv, GraphInv
  <2>2. PICK e : e = q[k] /\ e \in E
    BY <1>3
  <2>3. info_about_edge[e].weight_ \in Nat /\ info_about_edge[e].weight_ = graph_of_stops.edges[e].weight
    BY <1>1, <2>1, <2>2 DEF EdgesExplained, TypeOK
  <2>4. d[k] = graph_of_stops.edges[e].weight
    BY <1>1, <2>2 DEF EdgeTimes
  <2> QED BY <1>4, <2>2, <2>3, <2>4
<1>7. PICK g : IsSum(g, 0, n, d) /\ TotalTime(items) = g[n]
  BY <1>3, <1>5, <1>6, TotalIsSum
<1> QED BY <1>1, <1>7 DEF Path

-----------------------------------------------------------------------------
In(s) == stop_vertexs_[s].in

(* Every ride of a bus and every wait has its edge.                        *)
LEMMA EdgeOfRide ==
  ASSUME Finished, NEW ride \in Rides
  PROVE  /\ ride.from \in Stop /\ ride.to \in Stop /\ ride.time \in Nat
         /\ \E e \in EdgeIds(graph_of_stops) :
              /\ From(e) = stop_vertexs_[ride.from].out /\ To(e) = In(ride.to)
              /\ graph_of_stops.edges[e].weight = ride.time
<1>1. /\ IsDatabase /\ TypeOK /\ EdgesExplained /\ bus \in Nat /\ bus > Len(all_buses_)
      /\ RidesMade /\ pc = "done"
  BY DEF Finished, RidesInv, RInv, GraphInv, TypeOK, LoopsInOrder
<1>2. PICK b \in DOMAIN all_buses_ : \E back \in Directions(b) : \E p \in Places(b) :
        ride = [name |-> all_buses_[b].name,
                from |-> Way(b, back)[p[1]], to |-> Way(b, back)[p[2]],
                time |-> RoadTime(Way(b, back), p[1], p[2]), spans |-> p[2] - p[1]]
  BY DEF Rides
<1>3. PICK back \in Directions(b) : \E p \in Places(b) :
        ride = [name |-> all_buses_[b].name,
                from |-> Way(b, back)[p[1]], to |-> Way(b, back)[p[2]],
                time |-> RoadTime(Way(b, back), p[1], p[2]), spans |-> p[2] - p[1]]
  BY <1>2
<1>4. PICK p \in Places(b) :
        ride = [name |-> all_buses_[b].name,
                from |-> Way(b, back)[p[1]], to |-> Way(b, back)[p[2]],
                time |-> RoadTime(Way(b, back), p[1], p[2]), spans |-> p[2] - p[1]]
  BY <1>3
<1>5. b < bus
  BY <1>1 DEF IsDatabase
<1>6. PICK e \in EdgeIds(graph_of_stops) : ~IsWait(e) /\ IsRide(e, b, back, p[1], p[2])
  BY <1>1, <1>5 DEF RidesMade, Passed, IsMade
<1>7. /\ info_about_edge[e].weight_ = ride.time
      /\ From(e) = stop_vertexs_[ride.from].out /\ To(e) = In(ride.to)
  BY <1>4, <1>6 DEF IsRide, In
<1>8. info_about_edge[e].weight_ \in Nat /\ info_about_edge[e].weight_ = graph_of_stops.edges[e].weight
  BY <1>1 DEF EdgesExplained, TypeOK
<1>9. ride.from \in Stop /\ ride.to \in Stop
  <2>1. PICK n, way : n = Len(all_buses_[b].stops) /\ way = Way(b, back)
    OBVIOUS
  <2>2. back \in BOOLEAN
    BY DEF Directions
  <2>3. \A i \in 1 .. n : way[i] \in Stop
    BY <1>1, <2>1, <2>2, WayStretches
  <2>4. p[1] \in 1 .. n /\ p[2] \in 1 .. n
    BY <1>1, <2>1, PlacesOfBus
  <2> QED BY <1>4, <2>1, <2>3, <2>4
<1> QED BY <1>7, <1>8, <1>9

LEMMA EdgeOfWait ==
  ASSUME Finished, NEW s \in Stop
  PROVE  \E e \in EdgeIds(graph_of_stops) :
           /\ From(e) = In(s) /\ To(e) = stop_vertexs_[s].out
           /\ graph_of_stops.edges[e].weight = WaitTime
<1>1. PICK e \in EdgeIds(graph_of_stops) : IsWait(e) /\ info_about_edge[e].name_ = s
  BY StopsNumbered DEF Finished, EveryStopWaits
<1>2. PICK r \in Stop :
           /\ info_about_edge[e] = [name_ |-> r, weight_ |-> WaitTime, span_count_ |-> NoSpan]
           /\ From(e) = stop_vertexs_[r].in /\ To(e) = stop_vertexs_[r].out
           /\ graph_of_stops.edges[e].weight = WaitTime
  BY <1>1, WaitOfEdge
<1>3. r = s
  BY <1>1, <1>2
<1> QED BY <1>2, <1>3 DEF In

(* A journey that goes on by one ride is not faster than the route.        *)
LEMMA RouteBeatsRide ==
  ASSUME Finished, TableIsDone, NEW f \in Router!Vertex, NEW ride \in Rides,
         Reach(f, In(ride.from))
  PROVE  /\ Reach(f, In(ride.to))
         /\ Time(f, In(ride.to)) \in Nat /\ Time(f, In(ride.from)) \in Nat
         /\ Time(f, In(ride.to)) <= Time(f, In(ride.from)) + WaitTime + ride.time
<1> USE TransportRouterAssumption
<1>1. PICK x, y, z : x = In(ride.from) /\ y = stop_vertexs_[ride.from].out /\ z = In(ride.to)
  OBVIOUS
<1>2. ride.from \in Stop /\ ride.to \in Stop /\ ride.time \in Nat
  BY EdgeOfRide
<1>3. x \in Router!Vertex /\ y \in Router!Vertex /\ z \in Router!Vertex
  BY <1>1, <1>2, StopsNumbered DEF In
<1>4. Reach(x, y) /\ Time(x, y) <= WaitTime
  BY <1>1, <1>2, EdgeOfWait DEF TableIsDone
<1>5. Reach(y, z) /\ Time(y, z) <= ride.time
  BY <1>1, EdgeOfRide DEF TableIsDone
<1>6. Reach(f, y) /\ Time(f, y) <= Time(f, x) + Time(x, y)
  BY <1>1, <1>3, <1>4 DEF TableIsDone
<1>7. Reach(f, z) /\ Time(f, z) <= Time(f, y) + Time(y, z)
  BY <1>3, <1>5, <1>6 DEF TableIsDone
<1>8. /\ Time(x, y) \in Nat /\ Time(y, z) \in Nat /\ Time(f, y) \in Nat
      /\ Time(f, x) \in Nat /\ Time(f, z) \in Nat
  BY <1>1, <1>3, <1>4, <1>5, <1>6, <1>7 DEF TableIsDone
<1>9. Time(f, z) <= Time(f, x) + WaitTime + ride.time
  BY <1>2, <1>4, <1>5, <1>6, <1>7, <1>8
<1> QED BY <1>1, <1>7, <1>8, <1>9

(* A route to another stop ends with a wait and a ride.                    *)
LEMMA RouteEndsWithRide ==
  ASSUME Finished, TableIsDone, NEW from \in Stop, NEW to \in Stop, from # to,
         Reach(In(from), In(to)), NEW depth, IsDepth(depth, In(from))
  PROVE  \E ride \in Rides :
           /\ ride.to = to /\ Reach(In(from), In(ride.from))
           /\ Time(In(from), In(to)) = Time(In(from), In(ride.from)) + WaitTime + ride.time
           /\ depth[In(ride.from)] < depth[In(to)]
<1> USE TransportRouterAssumption
<1>1. PICK f, t : f = In(from) /\ t = In(to)
  OBVIOUS
<1>2. f \in Router!Vertex /\ t \in Router!Vertex /\ f # t /\ Reach(f, t) /\ IsIn(t) /\ IsIn(f)
  BY <1>1, StopsNumbered DEF In, IsIn
<1>3. PICK e : e = Last(f, t)
  OBVIOUS
<1>4. /\ e \in EdgeIds(graph_of_stops) /\ From(e) \in Router!Vertex /\ To(e) = t
      /\ Reach(f, From(e)) /\ Time(f, t) = Time(f, From(e)) + graph_of_stops.edges[e].weight
      /\ depth[From(e)] < depth[t]
  BY <1>1, <1>2, <1>3 DEF TableIsDone, IsDepth
<1>5. ~IsWait(e)
  BY <1>2, <1>4, Alternating DEF EdgesAlternate
<1>6. PICK ride \in Rides :
           /\ ride.from \in Stop /\ ride.to \in Stop
           /\ From(e) = stop_vertexs_[ride.from].out /\ To(e) = stop_vertexs_[ride.to].in
           /\ graph_of_stops.edges[e].weight = ride.time
  BY <1>4, <1>5, RideOfEdge
<1>7. ride.to = to
  BY <1>1, <1>4, <1>6, StopsNumbered DEF In
<1>8. PICK u : u = stop_vertexs_[ride.from].out
  OBVIOUS
<1>9. ~IsIn(u) /\ u \in Router!Vertex /\ Reach(f, u) /\ f # u
  <2>1. ~IsIn(u)
    BY <1>6, <1>8, StopsNumbered DEF IsIn
  <2> QED BY <1>2, <1>4, <1>6, <1>8, <2>1
<1>10. PICK c : c = Last(f, u)
  OBVIOUS
<1>11. /\ c \in EdgeIds(graph_of_stops) /\ From(c) \in Router!Vertex /\ To(c) = u
       /\ Reach(f, From(c)) /\ Time(f, u) = Time(f, From(c)) + graph_of_stops.edges[c].weight
       /\ depth[From(c)] < depth[u]
  BY <1>1, <1>2, <1>9, <1>10 DEF TableIsDone, IsDepth
<1>12. IsWait(c)
  BY <1>9, <1>11, Alternating DEF EdgesAlternate
<1>13. PICK s \in Stop :
           /\ From(c) = stop_vertexs_[s].in /\ To(c) = stop_vertexs_[s].out
           /\ graph_of_stops.edges[c].weight = WaitTime
  BY <1>11, <1>12, WaitOfEdge
<1>14. s = ride.from /\ From(c) = In(ride.from)
  <2>1. stop_vertexs_[s].out = stop_vertexs_[ride.from].out
    BY <1>8, <1>11, <1>13, Zenon
  <2>2. s \in Stop /\ ride.from \in Stop
    BY <1>6, <1>13, Zenon
  <2>3. s = ride.from
    BY <2>1, <2>2, StopsNumbered
  <2> QED BY <1>13, <2>3, Zenon DEF In
<1>15. Time(f, From(c)) \in Nat /\ ride.time \in Nat
  BY <1>2, <1>11, EdgeOfRide DEF TableIsDone
<1>16. Time(f, t) = Time(f, In(ride.from)) + WaitTime + ride.time
  BY <1>4, <1>6, <1>8, <1>11, <1>13, <1>14, <1>15
<1>17. depth[In(ride.from)] < depth[t]
  <2>1. depth[u] \in Nat /\ depth[t] \in Nat /\ depth[From(c)] \in Nat
    BY <1>2, <1>9, <1>11 DEF IsDepth
  <2> QED BY <1>4, <1>6, <1>8, <1>11, <1>14, <2>1
<1> QED BY <1>1, <1>7, <1>11, <1>14, <1>16, <1>17

-----------------------------------------------------------------------------
Times == [Stop -> Nat \cup {NoLength}]

(* One more ride: the least of the times there are, if there are any.      *)
LEMMA OneRideMoreType ==
  ASSUME Finished, NEW d, d \in Times
  PROVE  /\ OneRideMore(d) \in Times
         /\ \A s \in Stop :
              LET x == OneRideMore(d)[s] IN
              /\ x = NoLength <=> JourneyTimes(d, s) = {}
              /\ x # NoLength => x \in JourneyTimes(d, s)
              /\ \A y \in JourneyTimes(d, s) : y \in Nat /\ x <= y
<1> USE TransportRouterAssumption
<1> DEFINE L(s) == CHOOSE x \in JourneyTimes(d, s) : \A y \in JourneyTimes(d, s) : x <= y
<1>1. ASSUME NEW s \in Stop PROVE JourneyTimes(d, s) \in SUBSET Nat
  <2>1. ASSUME NEW ride \in Rides, d[ride.from] # NoLength
        PROVE  d[ride.from] + WaitTime + ride.time \in Nat
    <3>1. ride.from \in Stop /\ ride.time \in Nat
      BY EdgeOfRide
    <3>2. d[ride.from] \in Nat
      BY <2>1, <3>1 DEF Times
    <3> QED BY <3>1, <3>2
  <2>2. d[s] \in Nat \cup {NoLength}
    BY DEF Times
  <2> QED BY <2>1, <2>2 DEF JourneyTimes
<1>2. ASSUME NEW s \in Stop, JourneyTimes(d, s) # {}
      PROVE  L(s) \in JourneyTimes(d, s) /\ \A y \in JourneyTimes(d, s) : L(s) <= y
  <2>1. \E x \in JourneyTimes(d, s) : \A y \in JourneyTimes(d, s) : x <= y
    BY <1>1, <1>2, LeastNat
  <2> QED BY <2>1
<1> HIDE DEF L
<1>3. OneRideMore(d) = [s \in Stop |-> IF JourneyTimes(d, s) = {} THEN NoLength ELSE L(s)]
  BY DEF OneRideMore, L
<1>4. \A s \in Stop : OneRideMore(d)[s] = IF JourneyTimes(d, s) = {} THEN NoLength ELSE L(s)
  BY <1>3
<1>5. \A s \in Stop : JourneyTimes(d, s) # {} => L(s) \in Nat /\ L(s) # NoLength
  BY <1>1, <1>2
<1>6. OneRideMore(d) \in Times
  BY <1>3, <1>5 DEF Times
<1>7. ASSUME NEW s \in Stop, NEW x, x = OneRideMore(d)[s]
      PROVE  /\ x = NoLength <=> JourneyTimes(d, s) = {}
             /\ x # NoLength => x \in JourneyTimes(d, s)
             /\ \A y \in JourneyTimes(d, s) : y \in Nat /\ x <= y
  <2>1. CASE JourneyTimes(d, s) = {}
    BY <1>4, <1>7, <2>1
  <2>2. CASE JourneyTimes(d, s) # {}
    <3>1. x = L(s)
      BY <1>4, <1>7, <2>2
    <3> QED BY <1>1, <1>2, <1>5, <2>2, <3>1
  <2> QED BY <2>1, <2>2
<1> QED BY <1>6, <1>7

(* The least times with at most k rides from a stop, for each k up to n.   *)
StartAt(from) == [s \in Stop |-> IF s = from THEN 0 ELSE NoLength]

RideByRide(h, from, n) ==
  /\ h \in [0 .. n -> Times]
  /\ h[0] = StartAt(from)
  /\ \A k \in 1 .. n : h[k] = OneRideMore(h[k - 1])

LEMMA RideByRideExists ==
  ASSUME Finished, NEW from, NEW n \in Nat PROVE \E h : RideByRide(h, from, n)
<1> DEFINE T == {m \in Nat : ~\E h : RideByRide(h, from, m)}
<1>1. ASSUME T # {} PROVE FALSE
  <2>1. PICK m \in T : \A y \in T : m <= y
    <3> HIDE DEF T
    <3>1. T \in SUBSET Nat
      BY DEF T
    <3> QED BY <1>1, <3>1, LeastNat
  <2>2. m \in Nat /\ ~\E h : RideByRide(h, from, m)
    OBVIOUS
  <2>3. m # 0
    <3>1. StartAt(from) \in Times
      BY DEF StartAt, Times
    <3>2. RideByRide([k \in 0 .. 0 |-> StartAt(from)], from, 0)
      BY <3>1 DEF RideByRide
    <3> QED BY <2>2, <3>2
  <2>4. m - 1 \in Nat /\ \E h : RideByRide(h, from, m - 1)
    BY <2>1, <2>2, <2>3
  <2>5. PICK h : RideByRide(h, from, m - 1)
    BY <2>4
  <2>6. h[m - 1] \in Times /\ h \in [0 .. m - 1 -> Times]
    BY <2>4, <2>5 DEF RideByRide
  <2> DEFINE x == OneRideMore(h[m - 1])
             g == [k \in 0 .. m |-> IF k = m THEN x ELSE h[k]]
  <2>7. x \in Times
    BY <2>6, OneRideMoreType
  <2> HIDE DEF x
  <2>8. /\ g \in [0 .. m -> Times]
        /\ g[m] = x
        /\ \A k \in 0 .. m - 1 : g[k] = h[k]
    BY <2>2, <2>3, <2>6, <2>7
  <2> HIDE DEF g
  <2>9. ASSUME NEW k \in 1 .. m PROVE g[k] = OneRideMore(g[k - 1])
    <3>1. k - 1 \in 0 .. m - 1 /\ k \in Int /\ 1 <= k /\ k <= m
      BY <2>2
    <3>2. g[k - 1] = h[k - 1]
      BY <2>8, <3>1
    <3>3. CASE k = m
      BY <2>8, <3>2, <3>3 DEF x
    <3>4. CASE k # m
      <4>1. k \in 0 .. m - 1 /\ k \in 1 .. m - 1
        BY <2>2, <3>1, <3>4
      <4>2. h[k] = OneRideMore(h[k - 1])
        BY <2>5, <4>1 DEF RideByRide
      <4> QED BY <2>8, <3>2, <4>1, <4>2
    <3> QED BY <3>3, <3>4
  <2>10. g[0] = StartAt(from)
    BY <2>2, <2>3, <2>5, <2>8 DEF RideByRide
  <2>11. RideByRide(g, from, m)
    BY <2>8, <2>9, <2>10 DEF RideByRide
  <2> QED BY <2>2, <2>11
<1> QED BY <1>1

(* Fastest is their last row.                                              *)
LEMMA FastestIsRideByRide ==
  ASSUME Finished, NEW from
  PROVE  \E h : RideByRide(h, from, StopCount) /\ Fastest(from) = h[StopCount]
<1> USE TransportRouterAssumption
<1> DEFINE Is(h) == h = [k \in 0 .. StopCount |->
                          IF k = 0 THEN [stop \in Stop |-> IF stop = from THEN 0 ELSE NoLength]
                                   ELSE OneRideMore(h[k - 1])]
<1>1. PICK g : RideByRide(g, from, StopCount)
  BY RideByRideExists
<1>2. Is(g)
  <2>1. g = [k \in 0 .. StopCount |-> g[k]]
    BY <1>1 DEF RideByRide
  <2>2. ASSUME NEW k \in 0 .. StopCount
        PROVE  g[k] = IF k = 0 THEN StartAt(from) ELSE OneRideMore(g[k - 1])
    <3>1. CASE k = 0
      BY <1>1, <3>1 DEF RideByRide
    <3>2. CASE k # 0
      BY <1>1, <3>2 DEF RideByRide
    <3> QED BY <3>1, <3>2
  <2> QED BY <2>1, <2>2 DEF StartAt
<1>3. PICK f : f = CHOOSE h : Is(h)
  OBVIOUS
<1>4. Fastest(from) = f[StopCount]
  BY <1>3 DEF Fastest
<1> HIDE DEF Is
<1>5. Is(f)
  BY <1>2, <1>3, Zenon
<1>6. \A k \in 0 .. StopCount : f[k] = IF k = 0 THEN StartAt(from) ELSE OneRideMore(f[k - 1])
  BY <1>5 DEF Is, StartAt
<1>7. \A k \in 0 .. StopCount : f[k] = g[k]
  <2> DEFINE T == {k \in 0 .. StopCount : f[k] # g[k]}
  <2> SUFFICES ASSUME T # {} PROVE FALSE
    OBVIOUS
  <2>1. PICK m \in T : \A y \in T : m <= y
    <3> HIDE DEF T
    <3>1. T \in SUBSET Nat
      BY DEF T
    <3> QED BY <3>1, LeastNat
  <2>2. m \in 0 .. StopCount /\ f[m] # g[m]
    OBVIOUS
  <2>3. CASE m = 0
    BY <1>1, <1>6, <2>2, <2>3 DEF RideByRide
  <2>4. CASE m # 0
    <3>1. m - 1 \in 0 .. StopCount /\ m \in 1 .. StopCount /\ ~(m <= m - 1)
      BY <2>2, <2>4
    <3>2. f[m - 1] = g[m - 1]
      BY <2>1, <3>1
    <3>3. f[m] = OneRideMore(f[m - 1]) /\ g[m] = OneRideMore(g[m - 1])
      BY <1>1, <1>6, <2>2, <2>4, <3>1 DEF RideByRide
    <3> QED BY <2>2, <3>2, <3>3
  <2> QED BY <2>3, <2>4
<1> QED BY <1>1, <1>4, <1>7

(* However many rides it may have, no journey is faster than the route.    *)
LEMMA NoJourneyBeats ==
  ASSUME Finished, TableIsDone, NEW from \in Stop, NEW h, NEW n \in Nat,
         RideByRide(h, from, n), NEW k \in 0 .. n, NEW to \in Stop, h[k][to] # NoLength
  PROVE  Reach(In(from), In(to)) /\ Time(In(from), In(to)) <= h[k][to]
<1> USE TransportRouterAssumption
<1>1. PICK f : f = In(from) /\ f \in Router!Vertex
  BY StopsNumbered DEF In
<1> DEFINE Good(m) == \A s \in Stop : h[m][s] # NoLength =>
                        Reach(f, In(s)) /\ Time(f, In(s)) <= h[m][s]
           T == {m \in 0 .. n : ~Good(m)}
<1>2. ASSUME T # {} PROVE FALSE
  <2>1. PICK m \in T : \A y \in T : m <= y
    <3> HIDE DEF T
    <3>1. T \in SUBSET Nat
      BY DEF T
    <3> QED BY <1>2, <3>1, LeastNat
  <2>2. m \in 0 .. n /\ ~Good(m)
    BY <2>1
  <2>3. CASE m = 0
    <3>1. \A s \in Stop : h[m][s] = IF s = from THEN 0 ELSE NoLength
      BY <2>3 DEF RideByRide, StartAt
    <3>2. Reach(f, f) /\ Time(f, f) = 0
      BY <1>1 DEF TableIsDone
    <3> QED BY <1>1, <2>2, <3>1, <3>2
  <2>4. CASE m # 0
    <3>1. m - 1 \in 0 .. n /\ m \in 1 .. n /\ ~(m <= m - 1)
      BY <2>2, <2>4
    <3>2. Good(m - 1)
      <4>1. m - 1 \notin T
        <5> HIDE DEF T
        <5> QED BY <2>1, <3>1
      <4> HIDE DEF Good
      <4> QED BY <3>1, <4>1
    <3>3. PICK d : d = h[m - 1] /\ d \in Times /\ h[m] = OneRideMore(d)
      BY <3>1 DEF RideByRide
    <3>4. ASSUME NEW s \in Stop, h[m][s] # NoLength
          PROVE  Reach(f, In(s)) /\ Time(f, In(s)) <= h[m][s]
      <4>1. PICK x : x = h[m][s]
        OBVIOUS
      <4>2. x \in JourneyTimes(d, s)
        BY <3>3, <3>4, <4>1, OneRideMoreType
      <4>3. CASE x = d[s] /\ x # NoLength
        BY <3>2, <3>3, <4>1, <4>3
      <4>4. CASE \E ride \in Rides : /\ ride.to = s /\ d[ride.from] # NoLength
                                     /\ x = d[ride.from] + WaitTime + ride.time
        <5>1. PICK ride \in Rides : /\ ride.to = s /\ d[ride.from] # NoLength
                                    /\ x = d[ride.from] + WaitTime + ride.time
          BY <4>4
        <5>2. PICK v, w : v = ride.from /\ w = ride.time
          OBVIOUS
        <5>3. v \in Stop /\ w \in Nat
          BY <5>2, EdgeOfRide
        <5>4. Reach(f, In(v)) /\ Time(f, In(v)) <= d[v] /\ d[v] \in Nat
          BY <3>2, <3>3, <5>1, <5>2, <5>3 DEF Times
        <5>5. /\ Reach(f, In(s)) /\ Time(f, In(s)) \in Nat /\ Time(f, In(v)) \in Nat
              /\ Time(f, In(s)) <= Time(f, In(v)) + WaitTime + w
          BY <1>1, <5>1, <5>2, <5>4, RouteBeatsRide
        <5>6. x = d[v] + WaitTime + w
          BY <5>1, <5>2
        <5> QED BY <4>1, <5>3, <5>4, <5>5, <5>6
      <4> QED BY <4>2, <4>3, <4>4 DEF JourneyTimes
    <3> QED BY <2>2, <3>4
  <2> QED BY <2>3, <2>4
<1>3. Good(k)
  <2> HIDE DEF Good
  <2> QED BY <1>2
<1> QED BY <1>1, <1>3

(* The stops that come before one on the way.                              *)
StopsBelow(depth, f, t) == {s \in Stop : Reach(f, In(s)) /\ depth[In(s)] < depth[In(t)]}

LEMMA StopsBelowIsFinite ==
  ASSUME NEW depth, NEW f, NEW t
  PROVE  /\ IsFiniteSet(StopsBelow(depth, f, t))
         /\ Cardinality(StopsBelow(depth, f, t)) \in Nat
         /\ Cardinality(StopsBelow(depth, f, t)) <= StopCount
<1> USE TransportRouterAssumption
<1>1. IsFiniteSet(Stop) /\ Cardinality(Stop) = StopCount
  <2>1. CASE StopCount = 0
    <3>1. Stop = {}
      BY <2>1 DEF Stop
    <3> QED BY <2>1, <3>1, FS_EmptySet
  <2>2. CASE StopCount # 0
    BY <2>2, FS_Interval DEF Stop
  <2> QED BY <2>1, <2>2
<1>2. StopsBelow(depth, f, t) \subseteq Stop
  BY DEF StopsBelow
<1> QED BY <1>1, <1>2, FS_Subset, FS_CardinalityType

LEMMA StopsBelowGrow ==
  ASSUME Finished, NEW depth, NEW f, IsDepth(depth, f), NEW s \in Stop, NEW t \in Stop,
         Reach(f, In(s)), depth[In(s)] < depth[In(t)]
  PROVE  Cardinality(StopsBelow(depth, f, s)) + 1 <= Cardinality(StopsBelow(depth, f, t))
<1>1. \A r \in Stop : depth[In(r)] \in Nat
  BY StopsNumbered DEF In, IsDepth
<1>2. s \notin StopsBelow(depth, f, s)
  BY <1>1 DEF StopsBelow
<1>3. StopsBelow(depth, f, s) \cup {s} \subseteq StopsBelow(depth, f, t)
  BY <1>1 DEF StopsBelow
<1>4. Cardinality(StopsBelow(depth, f, s) \cup {s}) = Cardinality(StopsBelow(depth, f, s)) + 1
  BY <1>2, StopsBelowIsFinite, FS_AddElement
<1>5. Cardinality(StopsBelow(depth, f, s) \cup {s}) <= Cardinality(StopsBelow(depth, f, t))
  BY <1>3, StopsBelowIsFinite, FS_Subset
<1> QED BY <1>4, <1>5

(* As many rides as there are stops below are enough for a journey that is *)
(* as fast as the route.                                                   *)
LEMMA JourneysReach ==
  ASSUME Finished, TableIsDone, NEW from \in Stop, NEW depth, IsDepth(depth, In(from)),
         NEW h, NEW n \in Nat, RideByRide(h, from, n), NEW k \in 0 .. n,
         NEW to \in Stop, Reach(In(from), In(to)),
         Cardinality(StopsBelow(depth, In(from), to)) <= k
  PROVE  h[k][to] # NoLength /\ h[k][to] <= Time(In(from), In(to))
<1> USE TransportRouterAssumption
<1>1. PICK f : f = In(from) /\ f \in Router!Vertex
  BY StopsNumbered DEF In
<1> DEFINE C(s) == Cardinality(StopsBelow(depth, f, s))
           Good(m) == /\ h[m][from] # NoLength /\ h[m][from] <= 0
                      /\ \A s \in Stop : (Reach(f, In(s)) /\ C(s) <= m) =>
                           h[m][s] # NoLength /\ h[m][s] <= Time(f, In(s))
           T == {m \in 0 .. n : ~Good(m)}
<1>2. \A s \in Stop : C(s) \in Nat
  BY StopsBelowIsFinite
<1>3. Time(f, f) = 0
  BY <1>1 DEF TableIsDone
<1>4. ASSUME NEW s \in Stop, s # from, Reach(f, In(s))
      PROVE  \E ride \in Rides :
               /\ ride.to = s /\ ride.from \in Stop /\ ride.time \in Nat
               /\ Reach(f, In(ride.from)) /\ Time(f, In(ride.from)) \in Nat
               /\ Time(f, In(s)) = Time(f, In(ride.from)) + WaitTime + ride.time
               /\ C(ride.from) + 1 <= C(s)
  <2>1. PICK ride \in Rides :
           /\ ride.to = s /\ Reach(f, In(ride.from))
           /\ Time(f, In(s)) = Time(f, In(ride.from)) + WaitTime + ride.time
           /\ depth[In(ride.from)] < depth[In(s)]
    BY <1>1, <1>4, RouteEndsWithRide
  <2>2. ride.from \in Stop /\ ride.time \in Nat
    BY EdgeOfRide
  <2>3. Time(f, In(ride.from)) \in Nat
    BY <1>1, <2>1, RouteBeatsRide
  <2>4. C(ride.from) + 1 <= C(s)
    BY <1>1, <2>1, <2>2, StopsBelowGrow
  <2> QED BY <2>1, <2>2, <2>3, <2>4
<1> HIDE DEF C
<1>5. ASSUME T # {} PROVE FALSE
  <2>1. PICK m \in T : \A y \in T : m <= y
    <3> HIDE DEF T
    <3>1. T \in SUBSET Nat
      BY DEF T
    <3> QED BY <1>5, <3>1, LeastNat
  <2>2. m \in 0 .. n /\ ~Good(m)
    BY <2>1
  <2>3. CASE m = 0
    <3>1. \A s \in Stop : h[m][s] = IF s = from THEN 0 ELSE NoLength
      BY <2>3 DEF RideByRide, StartAt
    <3>2. ASSUME NEW s \in Stop, Reach(f, In(s)), C(s) <= m PROVE s = from
      <4> SUFFICES ASSUME s # from PROVE FALSE
        OBVIOUS
      <4>1. PICK ride \in Rides : ride.from \in Stop /\ C(ride.from) + 1 <= C(s)
        BY <1>4, <3>2
      <4>2. C(ride.from) \in Nat /\ C(s) \in Nat
        BY <1>2, <4>1
      <4> QED BY <2>3, <3>2, <4>1, <4>2
    <3>3. Good(m)
      BY <1>1, <1>3, <3>1, <3>2
    <3> QED BY <2>2, <3>3
  <2>4. CASE m # 0
    <3>1. m - 1 \in 0 .. n /\ m \in 1 .. n /\ ~(m <= m - 1)
      BY <2>2, <2>4
    <3>2. Good(m - 1)
      <4>1. m - 1 \notin T
        <5> HIDE DEF T
        <5> QED BY <2>1, <3>1
      <4> HIDE DEF Good
      <4> QED BY <3>1, <4>1
    <3>3. PICK d : d = h[m - 1] /\ d \in Times /\ h[m] = OneRideMore(d)
      BY <3>1 DEF RideByRide
    <3>4. \A s \in Stop : \A y \in JourneyTimes(d, s) :
            y \in Nat /\ h[m][s] # NoLength /\ h[m][s] <= y
      BY <3>3, OneRideMoreType
    <3>5. h[m][from] # NoLength /\ h[m][from] <= 0
      <4>1. d[from] # NoLength /\ d[from] <= 0 /\ d[from] \in Nat
        BY <3>2, <3>3 DEF Times
      <4>2. d[from] \in JourneyTimes(d, from) /\ d[from] = 0
        BY <4>1 DEF JourneyTimes
      <4> QED BY <3>4, <4>2
    <3>6. ASSUME NEW s \in Stop, Reach(f, In(s)), C(s) <= m
          PROVE  h[m][s] # NoLength /\ h[m][s] <= Time(f, In(s))
      <4>1. CASE s = from
        BY <1>1, <1>3, <3>5, <4>1
      <4>2. CASE s # from
        <5>1. PICK ride \in Rides :
               /\ ride.to = s /\ ride.from \in Stop /\ ride.time \in Nat
               /\ Reach(f, In(ride.from)) /\ Time(f, In(ride.from)) \in Nat
               /\ Time(f, In(s)) = Time(f, In(ride.from)) + WaitTime + ride.time
               /\ C(ride.from) + 1 <= C(s)
          BY <1>4, <3>6, <4>2
        <5>2. PICK v, w : v = ride.from /\ w = ride.time
          OBVIOUS
        <5>3. C(v) <= m - 1
          <6>1. C(v) \in Nat /\ C(s) \in Nat /\ C(v) + 1 <= C(s) /\ m \in Int
            BY <1>2, <2>2, <5>1, <5>2
          <6> QED BY <3>6, <6>1
        <5>4. d[v] # NoLength /\ d[v] <= Time(f, In(v)) /\ v \in Stop
          BY <3>2, <3>3, <5>1, <5>2, <5>3
        <5>5. d[v] + WaitTime + w \in JourneyTimes(d, s)
          BY <5>1, <5>2, <5>4 DEF JourneyTimes
        <5>6. h[m][s] # NoLength /\ h[m][s] <= d[v] + WaitTime + w
          BY <3>4, <5>5
        <5>7. d[v] \in Nat /\ h[m][s] \in Nat
          <6>1. d[v] \in Nat
            BY <3>3, <5>4 DEF Times
          <6>2. h[m][s] \in Nat
            BY <2>2, <5>6 DEF RideByRide, Times
          <6> QED BY <6>1, <6>2
        <5>8. /\ Time(f, In(v)) \in Nat /\ w \in Nat
              /\ Time(f, In(s)) = Time(f, In(v)) + WaitTime + w
          BY <5>1, <5>2
        <5> QED BY <5>4, <5>6, <5>7, <5>8
      <4> QED BY <4>1, <4>2
    <3>7. Good(m)
      BY <3>5, <3>6
    <3> QED BY <2>2, <3>7
  <2> QED BY <2>3, <2>4
<1>6. Good(k)
  <2> HIDE DEF Good
  <2> QED BY <1>5
<1>7. C(to) <= k
  BY <1>1 DEF C
<1> QED BY <1>1, <1>6, <1>7

(* The table of routes is that of the fastest journeys.                    *)
LEMMA RoutesAreFastest ==
  ASSUME Finished, TableIsDone, NEW from \in Stop, NEW to \in Stop,
         NEW depth, IsDepth(depth, In(from))
  PROVE  /\ Reach(In(from), In(to)) => Fastest(from)[to] = Time(In(from), In(to))
         /\ ~Reach(In(from), In(to)) => Fastest(from)[to] = NoLength
<1> USE TransportRouterAssumption
<1>1. PICK h : RideByRide(h, from, StopCount) /\ Fastest(from) = h[StopCount]
  BY FastestIsRideByRide
<1>2. h[StopCount][to] \in Nat \cup {NoLength}
  BY <1>1 DEF RideByRide, Times
<1>3. CASE ~Reach(In(from), In(to))
  BY <1>1, <1>3, NoJourneyBeats
<1>4. CASE Reach(In(from), In(to))
  <2>1. h[StopCount][to] # NoLength /\ h[StopCount][to] <= Time(In(from), In(to))
    BY <1>1, <1>4, JourneysReach, StopsBelowIsFinite
  <2>2. Time(In(from), In(to)) <= h[StopCount][to]
    BY <1>1, <2>1, NoJourneyBeats
  <2>3. Time(In(from), In(to)) \in Nat
    <3>1. In(from) \in Router!Vertex /\ In(to) \in Router!Vertex
      BY StopsNumbered DEF In
    <3> QED BY <1>4, <3>1 DEF TableIsDone
  <2> QED BY <1>1, <1>2, <1>4, <2>1, <2>2, <2>3
<1> QED BY <1>3, <1>4

-----------------------------------------------------------------------------
(* What GetRouteInfo would answer is right for every two stops.            *)
AnswersRight ==
  \A a, b \in Stop :
    IF Reach(In(a), In(b))
      THEN /\ CanBeTravelled(RouteInfo(a, b).items_, a, b)
           /\ RouteInfo(a, b).total_time = Fastest(a)[b]
      ELSE Fastest(a)[b] = NoLength

(* A table that is built for a finished graph gives the right answers.     *)
LEMMA BuiltAnswersRight ==
  ASSUME Finished, RT!IInv, RT!Built, RT!Ranked PROVE AnswersRight
<1> SUFFICES ASSUME NEW a \in Stop, NEW b \in Stop
             PROVE  IF Reach(In(a), In(b))
                      THEN /\ CanBeTravelled(RouteInfo(a, b).items_, a, b)
                           /\ RouteInfo(a, b).total_time = Fastest(a)[b]
                      ELSE Fastest(a)[b] = NoLength
  BY DEF AnswersRight
<1>1. PICK f, t : f = In(a) /\ t = In(b)
  OBVIOUS
<1>2. f \in Router!Vertex /\ t \in Router!Vertex /\ IsIn(f)
  BY <1>1, StopsNumbered DEF In, IsIn
<1>3. TableIsDone
  BY BuiltIsDone
<1>4. PICK depth : IsDepth(depth, f)
  BY <1>2, DepthExists
<1>5. /\ Reach(f, t) => Fastest(a)[b] = Time(f, t)
      /\ ~Reach(f, t) => Fastest(a)[b] = NoLength
  BY <1>1, <1>3, <1>4, RoutesAreFastest
<1>6. ASSUME Reach(f, t)
      PROVE  /\ CanBeTravelled(RouteInfo(a, b).items_, a, b)
             /\ RouteInfo(a, b).total_time = Time(f, t)
  <2>1. t \in Reached(f)
    BY <1>2, <1>6 DEF Reached, Reach
  <2>2. PICK q : q = BuildRoute(f, t)
    OBVIOUS
  <2>3. Path(q, f, t)
    BY <1>2, <1>3, <1>4, <2>1, <2>2, Alternating, RouteIsPath
  <2>4. RouteInfo(a, b) = Answer("route", Items(q))
    BY <1>1, <2>2 DEF RouteInfo, Items, In
  <2>5. CanBeTravelled(Items(q), a, b)
    BY <1>1, <2>3, PathCanBeTravelled DEF In
  <2>6. TotalTime(Items(q)) = Time(f, t)
    BY <1>3, <2>3, PathTakesItsTime
  <2> QED BY <2>4, <2>5, <2>6 DEF Answer
<1> QED BY <1>1, <1>5, <1>6

-----------------------------------------------------------------------------
(* The rides and the least times are those of the catalogue, which stays.  *)
LEMMA JourneysStay ==
  ASSUME UNCHANGED db
  PROVE  /\ \A items, a, b : CanBeTravelled(items, a, b)' <=> CanBeTravelled(items, a, b)
         /\ \A a : Fastest(a)' = Fastest(a)
<1>1. /\ all_buses_' = all_buses_
      /\ \A way, i, j : RoadTime(way, i, j)' = RoadTime(way, i, j)
      /\ \A b, back : Way(b, back)' = Way(b, back)
      /\ \A b : Directions(b)' = Directions(b) /\ Places(b)' = Places(b)
  BY RoadsStay DEF db
<1>2. Rides' = Rides
  BY DEF Rides, RoadTime, GetLenghtBetweenStops, Way, Directions, Places, db
<1>3. \A items, a, b : CanBeTravelled(items, a, b)' <=> CanBeTravelled(items, a, b)
  BY <1>2 DEF CanBeTravelled
<1>4. \A a : Fastest(a)' = Fastest(a)
  BY <1>2 DEF Fastest, OneRideMore, JourneyTimes
<1> QED BY <1>3, <1>4

(* BuildRoute's function depends on no more than the edges it follows.     *)
LEMMA FollowAlike ==
  ASSUME NEW V, NEW none, NEW last, NEW s1, NEW s2,
         \A v \in V : last[v] # none => s1[v] = s2[v]
  PROVE  (CHOOSE h : h = [v \in V |-> IF last[v] = none THEN << >>
                                      ELSE Append(h[s1[v]], last[v])])
         = CHOOSE h : h = [v \in V |-> IF last[v] = none THEN << >>
                                      ELSE Append(h[s2[v]], last[v])]
<1>1. ASSUME NEW h
      PROVE  [v \in V |-> IF last[v] = none THEN << >> ELSE Append(h[s1[v]], last[v])]
             = [v \in V |-> IF last[v] = none THEN << >> ELSE Append(h[s2[v]], last[v])]
  OBVIOUS
<1> QED BY <1>1

(* The answers stay right when all that they are made of stays: the        *)
(* targets of edges are not part of it.                                    *)
LEMMA AnswersStay ==
  ASSUME AnswersRight, TableIsDone, UNCHANGED db, DOMAIN stop_vertexs_ = Stop,
         \A s \in Stop : In(s) \in Router!Vertex,
         routes' = routes, stop_vertexs_' = stop_vertexs_, info_about_edge' = info_about_edge,
         \A e \in EdgeIds(graph_of_stops) : From(e)' = From(e)
  PROVE  AnswersRight'
<1>1. ASSUME NEW f \in Router!Vertex, NEW t
      PROVE  BuildRoute(f, t)' = BuildRoute(f, t)
  <2>1. PICK V : V = Reached(f) /\ V = Reached(f)'
    BY DEF Reached, Router!Vertex
  <2>2. PICK last, s1, s2 : /\ last = [v \in V |-> Last(f, v)]
                            /\ s1 = [v \in V |-> From(Last(f, v))]
                            /\ s2 = [v \in V |-> From(Last(f, v))']
    OBVIOUS
  <2>3. \A v \in V : last[v] # NoEdge => s1[v] = s2[v]
    <3> SUFFICES ASSUME NEW v \in V, last[v] # NoEdge PROVE s1[v] = s2[v]
      OBVIOUS
    <3>1. v \in Router!Vertex /\ Reach(f, v)
      BY <2>1 DEF Reached, Reach
    <3>2. Last(f, v) \in EdgeIds(graph_of_stops)
      BY <2>2, <3>1 DEF TableIsDone
    <3>3. Last(f, v)' = Last(f, v)
      BY DEF Last
    <3>4. From(Last(f, v))' = From(Last(f, v))
      BY <3>2, <3>3
    <3> QED BY <2>2, <3>4
  <2>4. BuildRoute(f, t) = (CHOOSE h : h = [v \in V |-> IF last[v] = NoEdge THEN << >>
                                      ELSE Append(h[s1[v]], last[v])])[t]
    BY <2>1, <2>2 DEF BuildRoute, Last
  <2>5. BuildRoute(f, t)' = (CHOOSE h : h = [v \in V |-> IF last[v] = NoEdge THEN << >>
                                      ELSE Append(h[s2[v]], last[v])])[t]
    BY <2>1, <2>2 DEF BuildRoute, Last, From
  <2>6. (CHOOSE h : h = [v \in V |-> IF last[v] = NoEdge THEN << >>
                                     ELSE Append(h[s1[v]], last[v])])
        = CHOOSE h : h = [v \in V |-> IF last[v] = NoEdge THEN << >>
                                     ELSE Append(h[s2[v]], last[v])]
    BY <2>3, FollowAlike, ZenonT(60)
  <2> QED BY <2>4, <2>5, <2>6, ZenonT(60)
<1>2. ASSUME NEW a \in Stop, NEW b \in Stop PROVE RouteInfo(a, b)' = RouteInfo(a, b)
  <2>1. PICK f, t : f = In(a) /\ t = In(b) /\ f \in Router!Vertex
    OBVIOUS
  <2>2. PICK q : q = BuildRoute(f, t) /\ q = BuildRoute(f, t)'
    BY <1>1, <2>1
  <2>3. RouteInfo(a, b) = Answer("route", [i \in DOMAIN q |-> info_about_edge[q[i]]])
    BY <2>1, <2>2 DEF RouteInfo, In
  <2>4. RouteInfo(a, b)' = Answer("route", [i \in DOMAIN q |-> info_about_edge[q[i]]])
    BY <2>1, <2>2 DEF RouteInfo, In
  <2> QED BY <2>3, <2>4
<1>3. ASSUME NEW a \in Stop, NEW b \in Stop
      PROVE  IF Reach(In(a), In(b))'
               THEN /\ CanBeTravelled(RouteInfo(a, b).items_, a, b)'
                    /\ RouteInfo(a, b)'.total_time = Fastest(a)'[b]
               ELSE Fastest(a)'[b] = NoLength
  <2>1. PICK r : r = RouteInfo(a, b)
    OBVIOUS
  <2>2. r = RouteInfo(a, b)'
    BY <1>2, <2>1
  <2>3. Reach(In(a), In(b))' <=> Reach(In(a), In(b))
    BY DEF Reach, In
  <2>4. CanBeTravelled(r.items_, a, b)' <=> CanBeTravelled(r.items_, a, b)
    BY JourneysStay
  <2>5. Fastest(a)' = Fastest(a)
    BY JourneysStay
  <2>6. IF Reach(In(a), In(b))
          THEN CanBeTravelled(r.items_, a, b) /\ r.total_time = Fastest(a)[b]
          ELSE Fastest(a)[b] = NoLength
    BY <2>1 DEF AnswersRight
  <2> QED BY <2>2, <2>3, <2>4, <2>5, <2>6
<1> QED BY <1>3 DEF AnswersRight

-----------------------------------------------------------------------------
(* What SaveToProto makes of the router.                                   *)
Saved ==
  [total_vertex_ |-> total_vertex, graph_of_stops_ |-> SaveGraphToProto,
   router |-> SaveRouterToProto, stop_vertexs_ |-> stop_vertexs_,
   info_about_edge |-> [e \in DOMAIN info_about_edge |-> SavedTrip(info_about_edge[e])]]

(* While make_base runs: the graph, and then the table, are as their own   *)
(* modules have them, and nobody has asked anything.                       *)
Creating ==
  /\ RidesInv /\ EveryStopWaits
  /\ pc # "done" => RT!Init
  /\ pc = "done" => RT!IInv /\ RT!Ranked
  /\ answer.outcome = "none"

(* The inductive invariant: each stage rests on what the one before has    *)
(* made.                                                                   *)
JourneyInv ==
  /\ stage \in {"creating", "saved", "loaded"}
  /\ stage # "loaded" => Creating
  /\ stage = "saved" => pc = "done" /\ RT!Built /\ proto = Saved
  /\ stage = "loaded" => DOMAIN stop_vertexs_ = Stop /\ AnswersRight
  /\ JourneyCanBeTravelled /\ JourneyIsFastest

LEMMA NoneIsFine ==
  answer.outcome = "none" => JourneyCanBeTravelled /\ JourneyIsFastest
BY DEF JourneyCanBeTravelled, JourneyIsFastest

LEMMA JourneyStarts == JourneyInit => JourneyInv
<1> SUFFICES ASSUME JourneyInit PROVE JourneyInv
  OBVIOUS
<1>1. RidesInv /\ EveryStopWaits
  BY InitRides, WaitsAtFirst DEF JourneyInit
<1>2. RT!Init
  <2>1. IsGraph(graph_of_stops, VertexCount)
    BY <1>1 DEF RidesInv, RInv, GraphInv, TypeOK
  <2> QED BY <2>1 DEF JourneyInit, RT!Init, RT!IsGraph, IsGraph, RT!Edge, Edge,
                      RT!NoRoutes, Router!NoRoutes, RT!Vertex, Router!Vertex
<1>3. pc = "vertices" /\ stage = "creating" /\ answer.outcome = "none"
  BY DEF JourneyInit, Init, Answer
<1>4. Creating
  BY <1>1, <1>2, <1>3 DEF Creating
<1> QED BY <1>3, <1>4, NoneIsFine DEF JourneyInv

LEMMA CreateGraphKeeps == JourneyInv /\ CreateGraph => JourneyInv'
<1> SUFFICES ASSUME JourneyInv, CreateGraph PROVE JourneyInv'
  OBVIOUS
<1> USE TableAssumption
<1>1. /\ RidesInv /\ EveryStopWaits /\ RInv /\ Next
      /\ stage = "creating" /\ stage' = "creating"
      /\ routes' = routes /\ through' = through /\ phase' = phase
      /\ answer.outcome = "none" /\ answer' = answer
      /\ (pc # "done" => RT!Init)
  BY DEF JourneyInv, Creating, CreateGraph, table, more, RidesInv
<1>2. pc # "done"
  BY <1>1 DEF Next, CreateVertex, StartEdges, CreateEdge, ThrowNoLength, NextFrom, TurnBack,
              NextBus, Finish, Riding
<1>3. RidesInv'
  BY <1>1, WaitStep, StartEdgesStep, RideStep, ThrowStep, NextFromStep, TurnBackStep,
     NextBusStep, FinishStep DEF Next
<1>4. EveryStopWaits'
  BY <1>1, WaitsKept
<1>5. RT!Init'
  <2>1. IsGraph(graph_of_stops', VertexCount)
    BY <1>3 DEF RidesInv, RInv, GraphInv, TypeOK
  <2> QED BY <1>1, <1>2, <2>1 DEF RT!Init, RT!IsGraph, IsGraph, RT!Edge, Edge,
                      RT!NoRoutes, RT!Vertex
<1>6. CASE pc' = "done"
  <2>1. graph_of_stops' = graph_of_stops
    BY <1>1, <1>2, <1>6 DEF Next, CreateVertex, StartEdges, CreateEdge, ThrowNoLength, NextFrom,
         TurnBack, NextBus, Finish, built
  <2>2. RT!IInv
    BY <1>1, <1>2, RT!InitEstablishes
  <2>3. RT!Ranked
    BY <1>1, <1>2 DEF RT!Init, RT!Ranked
  <2>4. UNCHANGED RT!vars
    BY <1>1, <2>1 DEF RT!vars
  <2>5. RT!IInv' /\ RT!Ranked'
    BY <2>2, <2>3, <2>4, RT!StepKeeps, RT!StepRanks
  <2>6. Creating'
    BY <1>1, <1>3, <1>4, <1>6, <2>5 DEF Creating
  <2> QED BY <1>1, <2>6, NoneIsFine DEF JourneyInv, JourneyCanBeTravelled, JourneyIsFastest
<1>7. CASE pc' # "done"
  <2>1. Creating'
    BY <1>1, <1>3, <1>4, <1>5, <1>7 DEF Creating
  <2> QED BY <1>1, <2>1 DEF JourneyInv, JourneyCanBeTravelled, JourneyIsFastest
<1> QED BY <1>6, <1>7

(* A step of the table alone.                                              *)
LEMMA RouterStepIsTableStep == Router!Next => RT!Next
<1>1. /\ RT!Vertex = Router!Vertex /\ RT!HasNegativeEdge = Router!HasNegativeEdge
      /\ \A f, t : RT!InitialRoute(f, t) = Router!InitialRoute(f, t)
  BY DEF RT!Vertex, Router!Vertex, RT!HasNegativeEdge, Router!HasNegativeEdge,
         RT!EdgeIds, Router!EdgeIds, EdgeIds, RT!InitialRoute, Router!InitialRoute,
         RT!EdgesBetween, Router!EdgesBetween, RT!FirstCheapest, Router!FirstCheapest
<1>2. \A t, v : RT!Relaxed(t, v) = Router!Relaxed(t, v)
  BY DEF RT!Relaxed, Router!Relaxed, RT!RelaxRoute, Router!RelaxRoute, RT!Joined, Router!Joined,
         RT!Better, Router!Better, RT!Vertex, Router!Vertex
<1>3. Router!Initialize => RT!Initialize
  BY <1>1 DEF RT!Initialize, Router!Initialize
<1>4. Router!Throw => RT!Throw
  BY <1>1 DEF RT!Throw, Router!Throw
<1>5. Router!RelaxThrough => RT!RelaxThrough
  BY <1>2 DEF RT!RelaxThrough, Router!RelaxThrough
<1> QED BY <1>3, <1>4, <1>5 DEF RT!Next, Router!Next

LEMMA BuildRouterKeeps == JourneyInv /\ BuildRouter => JourneyInv'
<1> SUFFICES ASSUME JourneyInv, BuildRouter PROVE JourneyInv'
  OBVIOUS
<1> USE TableAssumption
<1>1. /\ RidesInv /\ EveryStopWaits /\ UNCHANGED vars
      /\ stage = "creating" /\ stage' = "creating" /\ pc = "done"
      /\ answer.outcome = "none" /\ answer' = answer
      /\ RT!IInv /\ RT!Ranked /\ Router!Next
  BY DEF JourneyInv, Creating, BuildRouter, more
<1>2. RidesInv' /\ EveryStopWaits'
  BY <1>1, NoStep, WaitsKept
<1>3. RT!IInv' /\ RT!Ranked'
  BY <1>1, RouterStepIsTableStep, RT!StepKeeps, RT!StepRanks
<1>4. pc' = "done"
  BY <1>1 DEF vars
<1>5. Creating'
  BY <1>1, <1>2, <1>3, <1>4 DEF Creating
<1> QED BY <1>1, <1>5 DEF JourneyInv, JourneyCanBeTravelled, JourneyIsFastest

-----------------------------------------------------------------------------
LEMMA SaveToProtoKeeps == JourneyInv /\ SaveToProto => JourneyInv'
<1> SUFFICES ASSUME JourneyInv, SaveToProto PROVE JourneyInv'
  OBVIOUS
<1> USE TableAssumption
<1>1. /\ RidesInv /\ EveryStopWaits /\ UNCHANGED vars
      /\ routes' = routes /\ through' = through /\ phase' = phase
      /\ stage' = "saved" /\ Router!Built
      /\ answer.outcome = "none" /\ answer' = answer
      /\ pc # "done" => RT!Init
      /\ pc = "done" => RT!IInv /\ RT!Ranked
  BY DEF JourneyInv, Creating, SaveToProto, table
<1>2. pc = "done" /\ RT!IInv /\ RT!Ranked /\ RT!Built
  BY <1>1 DEF RT!Init, RT!Built, Router!Built
<1>3. UNCHANGED RT!vars /\ pc' = pc /\ graph_of_stops' = graph_of_stops
      /\ total_vertex' = total_vertex /\ stop_vertexs_' = stop_vertexs_
      /\ info_about_edge' = info_about_edge
  BY <1>1 DEF RT!vars, vars, built
<1>4. RidesInv' /\ EveryStopWaits'
  BY <1>1, NoStep, WaitsKept
<1>5. RT!IInv' /\ RT!Ranked'
  BY <1>2, <1>3, RT!StepKeeps, RT!StepRanks
<1>6. RT!Built'
  BY <1>1, <1>2 DEF RT!Built
<1>7. Creating'
  BY <1>1, <1>2, <1>3, <1>4, <1>5 DEF Creating
<1>8. proto' = Saved
  BY DEF SaveToProto, Saved
<1>9. Saved' = Saved
  BY <1>1, <1>3 DEF Saved, SaveGraphToProto, SaveRouterToProto, Router!Vertex, From
<1>10. JourneyCanBeTravelled' /\ JourneyIsFastest'
  BY <1>1 DEF JourneyCanBeTravelled, JourneyIsFastest
<1> QED BY <1>1, <1>2, <1>3, <1>6, <1>7, <1>8, <1>9, <1>10 DEF JourneyInv

(* Loading undoes saving, but for the targets of the edges.                *)
LEMMA LoadRestores ==
  ASSUME JourneyInv, Load
  PROVE  /\ routes' = routes
         /\ total_vertex' = total_vertex
         /\ stop_vertexs_' = stop_vertexs_
         /\ info_about_edge' = info_about_edge
         /\ graph_of_stops'.incidence_lists = graph_of_stops.incidence_lists
         /\ DOMAIN graph_of_stops'.edges = DOMAIN graph_of_stops.edges
         /\ \A e \in EdgeIds(graph_of_stops) :
              /\ graph_of_stops'.edges[e].from = From(e)
              /\ graph_of_stops'.edges[e].weight = graph_of_stops.edges[e].weight
<1> USE TableAssumption
<1>1. Creating /\ pc = "done" /\ proto = Saved
  BY DEF JourneyInv, Load
<1>2. TypeOK /\ RT!TypeOK
  BY <1>1 DEF Creating, RidesInv, RInv, GraphInv, RT!IInv
<1>3. PICK V : V = Router!Vertex
  OBVIOUS
<1>4. routes' = routes
  <2>1. routes \in [V -> [V -> RT!Route \cup {NoRoute}]]
    BY <1>2, <1>3 DEF RT!TypeOK, RT!Vertex, Router!Vertex
  <2>2. routes' = [from \in V |-> [to \in V |-> LoadedRoute(SaveRouterToProto[from][to])]]
    BY <1>1, <1>3 DEF Load, Saved, SaveRouterToProto
  <2>3. ASSUME NEW f \in V, NEW t \in V
        PROVE  LoadedRoute(SaveRouterToProto[f][t]) = routes[f][t]
    <3>1. CASE routes[f][t] = NoRoute
      BY <1>3, <3>1 DEF LoadedRoute, SaveRouterToProto
    <3>2. CASE routes[f][t] # NoRoute
      <4>1. PICK w, p : /\ w = routes[f][t].weight /\ p = routes[f][t].prev_edge
                        /\ routes[f][t] = [weight |-> w, prev_edge |-> p]
        BY <2>1, <3>2 DEF RT!Route
      <4>2. SaveRouterToProto[f][t] =
              [is_initialisation |-> TRUE, weight |-> w,
               prev_edge |-> IF p # NoEdge THEN <<p>> ELSE << >>]
        BY <1>3, <3>2, <4>1 DEF SaveRouterToProto
      <4>3. LoadedRoute(SaveRouterToProto[f][t]) = [weight |-> w, prev_edge |-> p]
        <5>1. CASE p # NoEdge
          BY <4>2, <5>1 DEF LoadedRoute
        <5>2. CASE p = NoEdge
          BY <4>2, <5>2 DEF LoadedRoute
        <5> QED BY <5>1, <5>2
      <4> QED BY <4>1, <4>3
    <3> QED BY <3>1, <3>2
  <2> QED BY <2>1, <2>2, <2>3
<1>5. info_about_edge' = info_about_edge
  <2>1. PICK E : E = DOMAIN info_about_edge
    OBVIOUS
  <2>2. info_about_edge \in [E -> [name_ : BusNames \cup Stop, weight_ : Nat,
                                  span_count_ : Nat \cup {NoSpan}]]
    BY <1>2, <2>1 DEF TypeOK
  <2>3. info_about_edge' = [e \in E |-> LoadedTrip(SavedTrip(info_about_edge[e]))]
    BY <1>1, <2>1 DEF Load, Saved
  <2>4. ASSUME NEW e \in E PROVE LoadedTrip(SavedTrip(info_about_edge[e])) = info_about_edge[e]
    <3>1. PICK n, w, s : info_about_edge[e] = [name_ |-> n, weight_ |-> w, span_count_ |-> s]
      BY <2>2
    <3>2. CASE s = NoSpan
      BY <3>1, <3>2 DEF LoadedTrip, SavedTrip
    <3>3. CASE s # NoSpan
      BY <3>1, <3>3 DEF LoadedTrip, SavedTrip
    <3> QED BY <3>2, <3>3
  <2> QED BY <2>2, <2>3, <2>4
<1>6. /\ graph_of_stops'.incidence_lists = graph_of_stops.incidence_lists
      /\ graph_of_stops'.edges = [e \in EdgeIds(graph_of_stops) |->
                                    [from |-> From(e), to |-> From(e),
                                     weight |-> graph_of_stops.edges[e].weight]]
  BY <1>1 DEF Load, Saved, SaveGraphToProto
<1>7. total_vertex' = total_vertex /\ stop_vertexs_' = stop_vertexs_
  BY <1>1 DEF Load, Saved
<1> QED BY <1>4, <1>5, <1>6, <1>7 DEF EdgeIds

LEMMA LoadKeeps == JourneyInv /\ Load => JourneyInv'
<1> SUFFICES ASSUME JourneyInv, Load PROVE JourneyInv'
  OBVIOUS
<1>1. /\ Creating /\ pc = "done" /\ RT!Built /\ RT!IInv /\ RT!Ranked
      /\ UNCHANGED db /\ stage' = "loaded" /\ answer' = answer /\ answer.outcome = "none"
  BY DEF JourneyInv, Load, Creating
<1>2. Finished
  BY <1>1 DEF Finished, Creating
<1>3. AnswersRight /\ TableIsDone
  BY <1>1, <1>2, BuiltAnswersRight, BuiltIsDone
<1>4. DOMAIN stop_vertexs_ = Stop /\ \A s \in Stop : In(s) \in Router!Vertex
  BY <1>2, StopsNumbered DEF In
<1>5. /\ routes' = routes /\ stop_vertexs_' = stop_vertexs_ /\ info_about_edge' = info_about_edge
      /\ \A e \in EdgeIds(graph_of_stops) : From(e)' = From(e)
  BY LoadRestores DEF From
<1>6. AnswersRight'
  BY <1>1, <1>3, <1>4, <1>5, AnswersStay
<1>7. JourneyCanBeTravelled' /\ JourneyIsFastest'
  BY <1>1 DEF JourneyCanBeTravelled, JourneyIsFastest
<1> QED BY <1>1, <1>4, <1>5, <1>6, <1>7 DEF JourneyInv

(* The answer that is given is the one that is right.                      *)
LEMMA GetRouteInfoKeeps ==
  ASSUME JourneyInv, NEW from \in Stop \cup {Unknown}, NEW to \in Stop \cup {Unknown},
         GetRouteInfo(from, to)
  PROVE  JourneyInv'
<1>1. /\ stage = "loaded" /\ stage' = "loaded" /\ UNCHANGED vars
      /\ routes' = routes /\ asked' = <<from, to>>
      /\ DOMAIN stop_vertexs_ = Stop /\ AnswersRight
  BY DEF JourneyInv, GetRouteInfo, table
<1>2. /\ UNCHANGED db /\ stop_vertexs_' = stop_vertexs_ /\ info_about_edge' = info_about_edge
      /\ graph_of_stops' = graph_of_stops
  BY <1>1 DEF vars, built
<1>3. \A e : From(e)' = From(e)
  BY <1>2 DEF From
<1>4. AnswersRight'
  <2>1. \A a, b : RouteInfo(a, b)' = RouteInfo(a, b)
    BY <1>1, <1>2, <1>3 DEF RouteInfo, BuildRoute, Reached, Router!Vertex, From
  <2>2. \A a, b : Reach(In(a), In(b))' <=> Reach(In(a), In(b))
    BY <1>1, <1>2 DEF Reach, In
  <2>3. \A a : Fastest(a)' = Fastest(a)
    BY <1>2, JourneysStay
  <2>4. \A items, a, b : CanBeTravelled(items, a, b)' <=> CanBeTravelled(items, a, b)
    BY <1>2, JourneysStay
  <2>5. ASSUME NEW a \in Stop, NEW b \in Stop
        PROVE  IF Reach(In(a), In(b))'
                 THEN /\ CanBeTravelled(RouteInfo(a, b).items_, a, b)'
                      /\ RouteInfo(a, b)'.total_time = Fastest(a)'[b]
                 ELSE Fastest(a)'[b] = NoLength
    <3>1. PICK r : r = RouteInfo(a, b) /\ r = RouteInfo(a, b)'
      BY <2>1
    <3>2. IF Reach(In(a), In(b))
            THEN CanBeTravelled(r.items_, a, b) /\ r.total_time = Fastest(a)[b]
            ELSE Fastest(a)[b] = NoLength
      BY <1>1, <3>1 DEF AnswersRight
    <3> QED BY <2>2, <2>3, <2>4, <3>1, <3>2
  <2> QED BY <2>5 DEF AnswersRight
<1>5. /\ answer'.outcome = "route" =>
           CanBeTravelled(answer'.items_, from, to) /\ answer'.total_time = Fastest(from)[to]
      /\ answer'.outcome = "not found" => Fastest(from)[to] = NoLength
      /\ answer'.outcome = "logic_error" => from \notin Stop
      /\ answer'.outcome = "out_of_range" => from \in Stop /\ to \notin Stop
  <2>1. CASE from \notin Stop
    <3>1. answer'.outcome = "logic_error"
      BY <1>1, <2>1 DEF GetRouteInfo, Answer
    <3> QED BY <2>1, <3>1
  <2>2. CASE from \in Stop /\ to \notin Stop
    <3>1. answer'.outcome = "out_of_range"
      BY <1>1, <2>2 DEF GetRouteInfo, Answer
    <3> QED BY <2>2, <3>1
  <2>3. CASE from \in Stop /\ to \in Stop /\ ~Reach(In(from), In(to))
    <3>1. answer'.outcome = "not found"
      BY <1>1, <2>3 DEF GetRouteInfo, Answer, Reach, In
    <3>2. Fastest(from)[to] = NoLength
      BY <1>1, <2>3 DEF AnswersRight
    <3> QED BY <3>1, <3>2
  <2>4. CASE from \in Stop /\ to \in Stop /\ Reach(In(from), In(to))
    <3>1. answer' = RouteInfo(from, to)
      BY <1>1, <2>4 DEF GetRouteInfo, Reach, In
    <3>2. answer'.outcome = "route"
      BY <3>1 DEF RouteInfo, Answer
    <3>3. /\ CanBeTravelled(answer'.items_, from, to)
          /\ answer'.total_time = Fastest(from)[to]
      BY <1>1, <2>4, <3>1 DEF AnswersRight
    <3> QED BY <3>2, <3>3
  <2> QED BY <2>1, <2>2, <2>3, <2>4
<1>6. PICK items, time : items = answer'.items_ /\ time = answer'.total_time
  OBVIOUS
<1>7. /\ CanBeTravelled(items, from, to)' <=> CanBeTravelled(items, from, to)
      /\ Fastest(from)' = Fastest(from)
  BY <1>2, JourneysStay
<1>8. asked'[1] = from /\ asked'[2] = to
  BY <1>1
<1>9. JourneyCanBeTravelled'
  BY <1>5, <1>6, <1>7, <1>8 DEF JourneyCanBeTravelled
<1>10. JourneyIsFastest'
  BY <1>5, <1>7, <1>8 DEF JourneyIsFastest
<1> QED BY <1>1, <1>2, <1>4, <1>9, <1>10 DEF JourneyInv

-----------------------------------------------------------------------------
LEMMA JourneyStutters == JourneyInv /\ UNCHANGED allVars => JourneyInv'
<1> SUFFICES ASSUME JourneyInv, UNCHANGED allVars PROVE JourneyInv'
  OBVIOUS
<1> USE TableAssumption
<1>1. /\ UNCHANGED vars /\ UNCHANGED <<routes, through, phase>>
      /\ stage' = stage /\ proto' = proto /\ asked' = asked /\ answer' = answer
  BY DEF allVars, table, more
<1>2. /\ UNCHANGED db /\ pc' = pc /\ stop_vertexs_' = stop_vertexs_
      /\ info_about_edge' = info_about_edge /\ graph_of_stops' = graph_of_stops
      /\ total_vertex' = total_vertex /\ UNCHANGED RT!vars
  BY <1>1 DEF vars, built, RT!vars
<1>3. /\ \A items, a, b : CanBeTravelled(items, a, b)' <=> CanBeTravelled(items, a, b)
      /\ \A a : Fastest(a)' = Fastest(a)
  BY <1>2, JourneysStay
<1>4. Creating => Creating'
  <2> SUFFICES ASSUME Creating PROVE Creating'
    OBVIOUS
  <2>1. RidesInv' /\ EveryStopWaits'
    BY <1>1, NoStep, WaitsKept DEF Creating
  <2>2. pc # "done" => RT!Init'
    BY <1>1, <1>2 DEF Creating, RT!Init
  <2>3. pc = "done" => RT!IInv' /\ RT!Ranked'
    BY <1>2, RT!StepKeeps, RT!StepRanks DEF Creating
  <2> QED BY <1>1, <1>2, <2>1, <2>2, <2>3 DEF Creating
<1>5. RT!Built' = RT!Built /\ Saved' = Saved
  BY <1>1, <1>2 DEF RT!Built, Saved, SaveGraphToProto, SaveRouterToProto, Router!Vertex, From
<1>6. AnswersRight => AnswersRight'
  <2>1. \A a, b : RouteInfo(a, b)' = RouteInfo(a, b)
    BY <1>1, <1>2 DEF RouteInfo, BuildRoute, Reached, Router!Vertex, From
  <2>2. \A a, b : Reach(In(a), In(b))' <=> Reach(In(a), In(b))
    BY <1>1, <1>2 DEF Reach, In
  <2>3. ASSUME AnswersRight, NEW a \in Stop, NEW b \in Stop
        PROVE  IF Reach(In(a), In(b))'
                 THEN /\ CanBeTravelled(RouteInfo(a, b).items_, a, b)'
                      /\ RouteInfo(a, b)'.total_time = Fastest(a)'[b]
                 ELSE Fastest(a)'[b] = NoLength
    <3>1. PICK r : r = RouteInfo(a, b) /\ r = RouteInfo(a, b)'
      BY <2>1
    <3>2. IF Reach(In(a), In(b))
            THEN CanBeTravelled(r.items_, a, b) /\ r.total_time = Fastest(a)[b]
            ELSE Fastest(a)[b] = NoLength
      BY <2>3, <3>1 DEF AnswersRight
    <3> QED BY <1>3, <2>2, <3>1, <3>2
  <2> QED BY <2>3 DEF AnswersRight
<1>7. PICK items, from, to : items = answer.items_ /\ from = asked[1] /\ to = asked[2]
  OBVIOUS
<1>8. /\ CanBeTravelled(items, from, to)' <=> CanBeTravelled(items, from, to)
      /\ Fastest(from)' = Fastest(from)
  BY <1>3
<1>9. JourneyCanBeTravelled'
  BY <1>1, <1>7, <1>8 DEF JourneyInv, JourneyCanBeTravelled
<1>10. JourneyIsFastest'
  <2>1. JourneyIsFastest
    BY DEF JourneyInv
  <2> QED BY <1>1, <1>7, <1>8, <2>1 DEF JourneyIsFastest
<1> QED BY <1>1, <1>2, <1>4, <1>5, <1>6, <1>9, <1>10 DEF JourneyInv

(* The invariant holds in every state of Journey.                          *)
LEMMA JourneyInvariant == JourneySpec => []JourneyInv
<1>1. JourneyInv /\ [JourneyNext]_allVars => JourneyInv'
  BY CreateGraphKeeps, BuildRouterKeeps, SaveToProtoKeeps, LoadKeeps, GetRouteInfoKeeps,
     JourneyStutters DEF JourneyNext
<1> QED BY JourneyStarts, <1>1, PTL DEF JourneySpec

(* Every route that is answered can be travelled: it waits at the stop it  *)
(* starts from, rides with buses that really make these rides, in the time *)
(* and the number of spans they take, and ends at the stop that was asked  *)
(* for.                                                                    *)
THEOREM JourneysCanBeTravelled == JourneySpec => []JourneyCanBeTravelled
<1>1. JourneyInv => JourneyCanBeTravelled
  BY DEF JourneyInv
<1> QED BY <1>1, JourneyInvariant, PTL

(* The total time answered is the least there is, "not found" is answered  *)
(* exactly if no journey leads there, and a request throws exactly if it   *)
(* names an unknown stop.                                                  *)
THEOREM JourneysAreFastest == JourneySpec => []JourneyIsFastest
<1>1. JourneyInv => JourneyIsFastest
  BY DEF JourneyInv
<1> QED BY <1>1, JourneyInvariant, PTL

(* The router process_requests works with is the one make_base saved.      *)
THEOREM LoadedRouterIsSaved == JourneySpec => RouterSurvives
<1>1. JourneyInv /\ [JourneyNext]_allVars =>
        [stage = "saved" =>
           /\ routes' = routes
           /\ total_vertex' = total_vertex
           /\ stop_vertexs_' = stop_vertexs_
           /\ info_about_edge' = info_about_edge
           /\ graph_of_stops'.incidence_lists = graph_of_stops.incidence_lists
           /\ DOMAIN graph_of_stops'.edges = DOMAIN graph_of_stops.edges
           /\ \A e \in EdgeIds(graph_of_stops) :
                /\ graph_of_stops'.edges[e].from = From(e)
                /\ graph_of_stops'.edges[e].weight = graph_of_stops.edges[e].weight
        ]_allVars
  <2> SUFFICES ASSUME JourneyInv, JourneyNext, stage = "saved"
               PROVE  Load
    BY LoadRestores
  <2>1. ~CreateGraph /\ ~BuildRouter /\ ~SaveToProto
    BY DEF CreateGraph, BuildRouter, SaveToProto
  <2>2. \A from, to : ~GetRouteInfo(from, to)
    BY DEF GetRouteInfo
  <2> QED BY <2>1, <2>2 DEF JourneyNext
<1> QED BY <1>1, JourneyInvariant, PTL DEF JourneySpec, RouterSurvives

-----------------------------------------------------------------------------
(* The n numbers of c after i are those of d after p.                      *)
SameNumbers(c, i, d, p, n) == \A k \in 1 .. n : c[i + k] = d[p + k] /\ d[p + k] \in Nat

NaturalSum(f, i, j, c) == f \in [i .. j -> Nat] /\ IsSum(f, i, j, c)

GoesOn(f, i, j, c, g, l, d, p, n) ==
  /\ NaturalSum(f, i, j, c) /\ NaturalSum(g, 0, l, d) /\ SameNumbers(c, i, d, p, n)
  /\ n \in Nat /\ i \in Int /\ j \in Int /\ j = i + n
  /\ l \in Nat /\ p \in Nat /\ p + n <= l

(* A sum goes on from place p by what its next n numbers add up to.        *)
LEMMA SumGoesOn ==
  ASSUME NEW n, NEW i, NEW j, NEW f, NEW c, NEW l, NEW g, NEW d, NEW p,
         GoesOn(f, i, j, c, g, l, d, p, n)
  PROVE  g[p + n] = g[p] + f[j]
<1>0. /\ f \in [i .. j -> Nat] /\ IsSum(f, i, j, c) /\ g \in [0 .. l -> Nat] /\ IsSum(g, 0, l, d)
      /\ n \in Nat /\ i \in Int /\ j \in Int /\ j = i + n
      /\ l \in Nat /\ p \in Nat /\ p + n <= l /\ SameNumbers(c, i, d, p, n)
  BY DEF GoesOn, NaturalSum
<1> DEFINE T == {k \in 0 .. n : g[p + k] # g[p] + f[i + k]}
<1>1. ASSUME T # {} PROVE FALSE
  <2>1. PICK k \in T : \A y \in T : k <= y
    <3>1. T \in SUBSET Nat
      OBVIOUS
    <3> HIDE DEF T
    <3> QED BY <1>1, <3>1, LeastNat
  <2>2. k \in 0 .. n /\ g[p + k] # g[p] + f[i + k]
    OBVIOUS
  <2>3. k # 0
    <3>1. f[i] = 0
      BY <1>0, Zenon DEF IsSum
    <3>2. i + 0 = i /\ p + 0 = p /\ p \in 0 .. l
      BY <1>0
    <3>3. g[p] \in Nat
      BY <1>0, <3>2
    <3>4. PICK a : a = g[p]
      OBVIOUS
    <3>5. a + 0 = a
      BY <3>3, <3>4
    <3> QED BY <2>2, <3>1, <3>2, <3>4, <3>5
  <2>4. PICK h \in 0 .. n : h + 1 = k /\ k \in 1 .. n
    <3>1. k - 1 \in 0 .. n /\ k - 1 + 1 = k
      BY <1>0, <2>2, <2>3
    <3> QED BY <1>0, <2>2, <2>3, <3>1, SMTT(20)
  <2>5. g[p + h] = g[p] + f[i + h]
    <3>1. h \notin T
      <4> HIDE DEF T
      <4> QED BY <2>1, <2>4
    <3> QED BY <3>1
  <2>6. f[i + k] = f[i + h] + c[i + k] /\ g[p + k] = g[p + h] + d[p + k]
    <3>1. /\ i + k \in i + 1 .. j /\ p + k \in 0 + 1 .. l
          /\ (i + k) - 1 = i + h /\ (p + k) - 1 = p + h
      BY <1>0, <2>4
    <3>2. f[i + k] = f[(i + k) - 1] + c[i + k]
      BY <1>0, <3>1 DEF IsSum
    <3>3. g[p + k] = g[(p + k) - 1] + d[p + k]
      BY <1>0, <3>1 DEF IsSum
    <3> QED BY <3>1, <3>2, <3>3
  <2>7. /\ c[i + k] = d[p + k] /\ d[p + k] \in Nat
        /\ f[i + h] \in Nat /\ g[p] \in Nat /\ g[p + h] \in Nat
    <3>1. c[i + k] = d[p + k] /\ d[p + k] \in Nat
      BY <1>0, <2>4 DEF SameNumbers
    <3>2. i + h \in i .. j /\ p \in 0 .. l /\ p + h \in 0 .. l
      BY <1>0, <2>4
    <3> QED BY <1>0, <3>1, <3>2
  <2> HIDE DEF T
  <2>8. g[p + k] = g[p] + f[i + k]
    BY <1>0, <2>5, <2>6, <2>7
  <2> QED BY <2>2, <2>8
<1>2. n \notin T
  BY <1>0, <1>1
<1> QED BY <1>0, <1>2

(* The numbers of c are those of d, then those of d backwards.             *)
Mirrored(c, d, m) ==
  \A k \in 1 .. m : c[k] = d[k] /\ c[m + k] = d[m + 1 - k] /\ d[k] \in Nat

(* Back from the end the same numbers add up to the same.                  *)
LEMMA SumMirrored ==
  ASSUME NEW m \in Nat, NEW f, NEW d, NaturalSum(f, 0, m, d),
         NEW l \in Nat, l = m + m, NEW g, NEW c, NaturalSum(g, 0, l, c), Mirrored(c, d, m)
  PROVE  g[l] = 2 * f[m]
<1>0. /\ f \in [0 .. m -> Nat] /\ IsSum(f, 0, m, d) /\ g \in [0 .. l -> Nat] /\ IsSum(g, 0, l, c)
      /\ \A k \in 1 .. m : c[k] = d[k] /\ c[m + k] = d[m + 1 - k] /\ d[k] \in Nat
  BY DEF NaturalSum, Mirrored
<1>1. g[m] = f[m]
  <2>1. PICK h : h = [k \in 0 .. m |-> g[k]]
    OBVIOUS
  <2>2. IsSum(h, 0, m, d) /\ h[m] = g[m]
    BY <1>0, <2>1 DEF IsSum
  <2>3. 0 \in Int /\ m \in Int /\ 0 <= m /\ m <= m
    OBVIOUS
  <2>4. f[m] = h[m]
    BY <1>0, <2>2, <2>3, SumsAgree
  <2> QED BY <2>2, <2>4
<1> DEFINE T == {k \in 0 .. m : g[m + k] + f[m - k] # f[m] + f[m]}
<1>2. ASSUME T # {} PROVE FALSE
  <2>1. PICK k \in T : \A y \in T : k <= y
    <3>1. T \in SUBSET Nat
      OBVIOUS
    <3> HIDE DEF T
    <3> QED BY <1>2, <3>1, LeastNat
  <2>2. k \in 0 .. m /\ g[m + k] + f[m - k] # f[m] + f[m]
    OBVIOUS
  <2>3. k # 0
    BY <1>1, <2>2
  <2>4. PICK h \in 0 .. m : h + 1 = k /\ k \in 1 .. m
    <3>1. k - 1 \in 0 .. m /\ k - 1 + 1 = k
      BY <2>2, <2>3
    <3> QED BY <2>2, <2>3, <3>1
  <2>5. g[m + h] + f[m - h] = f[m] + f[m]
    <3>1. h \notin T
      <4> HIDE DEF T
      <4> QED BY <2>1, <2>4
    <3> QED BY <3>1
  <2>6. f[m - h] = f[m - k] + d[m + 1 - k] /\ g[m + k] = g[m + h] + c[m + k]
    <3>1. /\ m - h \in 0 + 1 .. m /\ m + k \in 0 + 1 .. l
          /\ (m - h) - 1 = m - k /\ (m + k) - 1 = m + h /\ m - h = m + 1 - k
      BY <2>4
    <3> QED BY <1>0, <3>1 DEF IsSum
  <2>7. /\ c[m + k] = d[m + 1 - k] /\ d[m + 1 - k] \in Nat
        /\ f[m - k] \in Nat /\ f[m - h] \in Nat /\ g[m + h] \in Nat /\ f[m] \in Nat
    <3>1. m + 1 - k \in 1 .. m /\ m - k \in 0 .. m /\ m - h \in 0 .. m /\ m + h \in 0 .. l
      BY <2>4
    <3>2. c[m + k] = d[m + 1 - k] /\ d[m + 1 - k] \in Nat
      BY <1>0, <2>4, <3>1
    <3> HIDE DEF T
    <3>3. f[m - k] \in Nat /\ f[m - h] \in Nat /\ g[m + h] \in Nat /\ f[m] \in Nat
      <4>1. m \in 0 .. m
        OBVIOUS
      <4>2. /\ \A y \in 0 .. m : f[y] \in Nat
            /\ \A y \in 0 .. l : g[y] \in Nat
        BY <1>0
      <4> QED BY <3>1, <4>1, <4>2, Zenon
    <3> QED BY <3>2, <3>3
  <2> HIDE DEF T
  <2>8. g[m + k] + f[m - k] = f[m] + f[m]
    BY <2>5, <2>6, <2>7
  <2> QED BY <2>2, <2>8
<1>3. m \notin T
  BY <1>2
<1>4. m - m = 0 /\ m + m = l /\ f[0] = 0 /\ f[m] \in Nat /\ g[l] \in Nat
  BY <1>0 DEF IsSum
<1> QED BY <1>3, <1>4

(* The total is the sum up to the last number.                             *)
LEMMA NumbersAddUp ==
  ASSUME NEW numbers, NEW l \in Nat, Len(numbers) = l, \A k \in 1 .. l : numbers[k] \in Nat
  PROVE  \E f \in [0 .. l -> Nat] : IsSum(f, 0, l, numbers) /\ Total(numbers) = f[l]
<1> DEFINE Adds(f) == f = [k \in 0 .. l |-> IF k = 0 THEN 0 ELSE f[k - 1] + numbers[k]]
<1>1. ASSUME NEW f, Adds(f) PROVE IsSum(f, 0, l, numbers)
  <2>1. DOMAIN f = 0 .. l
    BY <1>1
  <2>2. f[0] = 0
    BY <1>1
  <2>3. ASSUME NEW k \in 0 + 1 .. l PROVE f[k] = f[k - 1] + numbers[k]
    <3>1. k \in 0 .. l /\ k # 0
      OBVIOUS
    <3> QED BY <1>1, <3>1
  <2> QED BY <2>1, <2>2, <2>3 DEF IsSum
<1>2. ASSUME NEW f \in [0 .. l -> Nat], IsSum(f, 0, l, numbers) PROVE Adds(f)
  <2>1. ASSUME NEW k \in 0 .. l PROVE f[k] = IF k = 0 THEN 0 ELSE f[k - 1] + numbers[k]
    <3>1. CASE k = 0
      BY <1>2, <3>1 DEF IsSum
    <3>2. CASE k # 0
      <4>1. k \in 0 + 1 .. l
        BY <3>2
      <4> QED BY <1>2, <3>2, <4>1 DEF IsSum
    <3> QED BY <3>1, <3>2
  <2> QED BY <2>1
<1>3. PICK g \in [0 .. l -> Nat] : IsSum(g, 0, l, numbers)
  <2>1. \A k \in 0 + 1 .. l : numbers[k] \in Nat
    OBVIOUS
  <2>2. 0 \in Int /\ l \in Int /\ 0 <= l
    OBVIOUS
  <2> QED BY <2>1, <2>2, SumExists
<1>4. Total(numbers) = (CHOOSE f : Adds(f))[l]
  BY DEF Total
<1>5. Adds(g)
  BY <1>2, <1>3
<1> HIDE DEF Adds
<1>6. PICK f : f = CHOOSE h : Adds(h)
  OBVIOUS
<1>7. Adds(f)
  BY <1>5, <1>6, Zenon
<1>8. IsSum(f, 0, l, numbers)
  BY <1>1, <1>7
<1>9. ASSUME NEW k \in 0 .. l PROVE f[k] = g[k]
  <2>1. PICK h : h = [o \in 0 .. k |-> g[o]]
    OBVIOUS
  <2>2. k \in Int /\ 0 <= k /\ k <= l /\ 0 \in Int /\ l \in Int
    OBVIOUS
  <2>3. IsSum(h, 0, k, numbers) /\ h[k] = g[k]
    BY <1>3, <2>1 DEF IsSum
  <2> QED BY <1>8, <2>2, <2>3, SumsAgree
<1>10. f \in [0 .. l -> Nat]
  <2>1. f = [k \in 0 .. l |-> f[k]]
    BY <1>7 DEF Adds
  <2> QED BY <1>3, <1>9, <2>1
<1> QED BY <1>4, <1>6, <1>8, <1>10

(* Numbers can be put in order.                                            *)
LEMMA OrderExists ==
  ASSUME NEW S \in SUBSET Nat, IsFiniteSet(S)
  PROVE  \E s \in [1 .. Cardinality(S) -> S] : \A i, j \in DOMAIN s : i < j => s[i] < s[j]
<1> DEFINE Ordered(R) ==
             \E s \in [1 .. Cardinality(R) -> R] : \A i, j \in DOMAIN s : i < j => s[i] < s[j]
           T == {n \in Nat : \E R \in SUBSET Nat : IsFiniteSet(R) /\ Cardinality(R) = n /\ ~Ordered(R)}
<1>1. ASSUME T # {} PROVE FALSE
  <2> HIDE DEF Ordered
  <2>1. PICK n \in T : \A y \in T : n <= y
    <3>1. T \in SUBSET Nat
      OBVIOUS
    <3> HIDE DEF T
    <3> QED BY <1>1, <3>1, LeastNat
  <2>2. n \in Nat /\ \E R \in SUBSET Nat : IsFiniteSet(R) /\ Cardinality(R) = n /\ ~Ordered(R)
    BY <2>1
  <2>3. PICK R \in SUBSET Nat : IsFiniteSet(R) /\ Cardinality(R) = n /\ ~Ordered(R)
    BY <2>2
  <2>4. CASE n = 0
    <3>1. R = {} /\ Cardinality({}) = 0
      BY <2>3, <2>4, FS_EmptySet
    <3>2. << >> \in [1 .. 0 -> {}] /\ \A i, j \in DOMAIN << >> : i < j => << >>[i] < << >>[j]
      OBVIOUS
    <3> QED BY <2>3, <3>1, <3>2 DEF Ordered
  <2>5. CASE n # 0
    <3>1. R # {}
      BY <2>3, <2>5, FS_EmptySet
    <3>2. PICK x \in R : \A y \in R : x <= y
      BY <3>1, LeastNat
    <3>3. PICK Q : Q = R \ {x}
      OBVIOUS
    <3>4. PICK o \in Nat : n = o + 1
      <4>1. n - 1 \in Nat /\ n = n - 1 + 1
        BY <2>2, <2>5
      <4> QED BY <4>1
    <3>5. Q \in SUBSET Nat /\ IsFiniteSet(Q) /\ Cardinality(Q) = o
      <4>1. IsFiniteSet(R \ {x}) /\ Cardinality(R \ {x}) = Cardinality(R) - 1
        BY <2>3, <3>2, FS_RemoveElement
      <4> QED BY <2>3, <3>3, <3>4, <4>1
    <3>6. o \notin T
      <4> HIDE DEF T
      <4> QED BY <2>1, <2>2, <3>4
    <3>7. Ordered(Q)
      BY <3>5, <3>6
    <3>8. PICK s \in [1 .. o -> Q] : \A i, j \in 1 .. o : i < j => s[i] < s[j]
      <4>1. PICK s \in [1 .. o -> Q] : \A i, j \in DOMAIN s : i < j => s[i] < s[j]
        BY <3>5, <3>7 DEF Ordered
      <4>2. DOMAIN s = 1 .. o
        OBVIOUS
      <4> QED BY <4>1, <4>2
    <3>9. PICK t : t = [i \in 1 .. n |-> IF i = 1 THEN x ELSE s[i - 1]]
      OBVIOUS
    <3>10. \A i \in 1 .. n : i # 1 => i - 1 \in 1 .. o /\ t[i] = s[i - 1] /\ s[i - 1] \in Q
      BY <2>2, <3>4, <3>9
    <3>11. 1 \in 1 .. n => t[1] = x
      BY <3>9
    <3>12. \A i \in 1 .. n : t[i] \in R
      BY <3>3, <3>2, <3>10, <3>11
    <3>13. t \in [1 .. n -> R]
      BY <3>9, <3>12
    <3>14. ASSUME NEW i \in 1 .. n, NEW j \in 1 .. n, i < j PROVE t[i] < t[j]
      <4>1. j # 1 /\ t[j] = s[j - 1] /\ s[j - 1] \in Q /\ j - 1 \in 1 .. o
        BY <2>2, <3>10, <3>14
      <4>2. CASE i = 1
        <5>1. s[j - 1] \in Nat /\ x \in Nat /\ x <= s[j - 1] /\ x # s[j - 1]
          BY <2>3, <3>2, <3>3, <4>1
        <5> QED BY <3>11, <4>1, <4>2, <5>1
      <4>3. CASE i # 1
        <5>1. t[i] = s[i - 1] /\ i - 1 \in 1 .. o /\ i - 1 < j - 1
          BY <2>2, <3>10, <3>14, <4>3
        <5> QED BY <3>8, <4>1, <5>1
      <4> QED BY <4>2, <4>3
    <3>15. \A i, j \in DOMAIN t : i < j => t[i] < t[j]
      BY <3>9, <3>14
    <3> QED BY <2>3, <3>13, <3>15 DEF Ordered
  <2> QED BY <2>4, <2>5
<1>2. Cardinality(S) \in Nat
  BY FS_CardinalityType
<1>3. Cardinality(S) \notin T
  BY <1>1
<1>4. Ordered(S)
  <2> HIDE DEF Ordered
  <2> QED BY <1>2, <1>3
<1> QED BY <1>4

(* A set that is gone through in order is gone through, each element once. *)
LEMMA InOrderFacts ==
  ASSUME NEW S \in SUBSET Nat, IsFiniteSet(S), NEW s, s = InOrder(S)
  PROVE  /\ Elements(s) = S /\ Len(s) \in Nat /\ DOMAIN s = 1 .. Len(s)
         /\ \A i \in 2 .. Len(s) : s[i - 1] < s[i]
<1> DEFINE Is(h) == /\ h \in [1 .. Cardinality(S) -> S]
                    /\ \A i, j \in DOMAIN h : i < j => h[i] < h[j]
<1>1. \E h : Is(h)
  BY OrderExists
<1>2. s = CHOOSE h \in [1 .. Cardinality(S) -> S] : \A i, j \in DOMAIN h : i < j => h[i] < h[j]
  BY DEF InOrder
<1>3. s = CHOOSE h : Is(h)
  BY <1>2
<1> HIDE DEF Is
<1>4. Is(s)
  BY <1>1, <1>3, Zenon
<1>5. PICK n \in Nat : n = Cardinality(S)
  BY FS_CardinalityType
<1>6. s \in [1 .. n -> S] /\ DOMAIN s = 1 .. n /\ \A i, j \in 1 .. n : i < j => s[i] < s[j]
  <2>1. s \in [1 .. n -> S] /\ \A i, j \in DOMAIN s : i < j => s[i] < s[j]
    BY <1>4, <1>5 DEF Is
  <2>2. DOMAIN s = 1 .. n
    BY <2>1
  <2> QED BY <2>1, <2>2
<1>7. Len(s) = n
  <2>1. s \in Seq(S)
    BY <1>6
  <2> QED BY <1>6, <2>1
<1>8. s \in Injection(1 .. n, S)
  <2>1. ASSUME NEW i \in 1 .. n, NEW j \in 1 .. n, s[i] = s[j] PROVE i = j
    <3>1. s[i] \in Nat /\ s[j] \in Nat
      BY <1>6
    <3>2. ~(i < j) /\ ~(j < i)
      BY <1>6, <2>1, <3>1
    <3> QED BY <3>2
  <2> QED BY <1>6, <2>1 DEF Injection, IsInjective
<1>9. s \in Surjection(1 .. n, S)
  <2>1. Cardinality(1 .. n) = n
    BY FS_Interval
  <2> QED BY <1>5, <1>8, <2>1, FS_Injection
<1>10. Elements(s) = S
  BY <1>6, <1>9 DEF Elements, Surjection
<1>11. \A i \in 2 .. n : s[i - 1] < s[i]
  BY <1>6
<1> QED BY <1>6, <1>7, <1>10, <1>11

(* The finished graph: every bus can ride along its whole way.             *)
Ready == pc = "done" /\ RidesInv

LEMMA ReadyFacts ==
  ASSUME Ready
  PROVE  /\ IsDatabase /\ RidesAreReal /\ RidesComplete
         /\ \A b \in DOMAIN all_buses_ : BusBridged(b)
         /\ \A s, t \in Stop : /\ stop_vertexs_[s].in = stop_vertexs_[t].in => s = t
                               /\ stop_vertexs_[s].out = stop_vertexs_[t].out => s = t
<1>1. RInv /\ TypeOK /\ LoopsInOrder /\ VerticesNumbered /\ pc = "done" /\ RidesAreReal /\ IsDatabase
  BY DEF Ready, RidesInv, RInv, GraphInv, TypeOK
<1>2. \A b \in DOMAIN all_buses_ : BusBridged(b)
  <2>1. bus > Len(all_buses_) /\ bus \in Nat
    BY <1>1 DEF LoopsInOrder, TypeOK
  <2>2. \A b \in DOMAIN all_buses_ : b < bus
    BY <1>1, <2>1 DEF IsDatabase
  <2> QED BY <1>1, <2>2 DEF LoopsInOrder
<1>3. RidesComplete
  BY RidesAreComplete DEF Ready
<1>4. \A s, t \in Stop : /\ stop_vertexs_[s].in = stop_vertexs_[t].in => s = t
                         /\ stop_vertexs_[s].out = stop_vertexs_[t].out => s = t
  <2>1. DOMAIN stop_vertexs_ = Stop
    BY <1>1 DEF VerticesNumbered
  <2>2. \A s \in Stop : stop_vertexs_[s].in = 2 * s - 2 /\ stop_vertexs_[s].out = 2 * s - 1 /\ s \in Int
    BY <1>1, <2>1, TransportRouterAssumption DEF VerticesNumbered, Stop
  <2> QED BY <2>2
<1> QED BY <1>1, <1>2, <1>3, <1>4

(* What is known of the length from p to q is known alike, but where a bus *)
(* stands still.                                                           *)
LEMMA ReadAlike ==
  ASSUME IsDatabase, NEW p \in Stop, NEW q \in Stop, Bridged(p, q)
  PROVE  IF p = q /\ <<p, q>> \notin DOMAIN length_between_stops_
           THEN RoadBetween(p, q) = NoLength
           ELSE RoadBetween(p, q) = GetLenghtBetweenStops(p, q) /\ RoadBetween(p, q) \in Nat
<1>1. \A pair \in DOMAIN length_between_stops_ : length_between_stops_[pair] \in Nat
  BY DEF IsDatabase
<1>2. p # q => <<p, q>> \in DOMAIN length_between_stops_ \/ <<q, p>> \in DOMAIN length_between_stops_
  BY DEF Bridged
<1> QED BY <1>1, <1>2 DEF RoadBetween, GetLenghtBetweenStops

LEMMA JoinFacts ==
  ASSUME NEW S, NEW s \in Seq(S), NEW t \in Seq(S)
  PROVE  /\ Len(s \o t) = Len(s) + Len(t)
         /\ \A i \in 1 .. Len(s) : (s \o t)[i] = s[i]
         /\ \A i \in 1 .. Len(t) : (s \o t)[Len(s) + i] = t[i]
OBVIOUS

(* The n stops w of bus b, of which there are some, and its trip.          *)
Trips(b, w, n, trip) ==
  /\ b \in DOMAIN all_buses_ /\ w = all_buses_[b].stops /\ n = Len(w) /\ w # << >>
  /\ trip = RoundTrip(b)

(* The trip goes along the way of the bus, then back along it.             *)
TripShape(b, w, n, trip) ==
  /\ n \in Nat /\ n >= 1 /\ DOMAIN w = 1 .. n
  /\ \A i \in 1 .. n : w[i] \in Stop
  /\ Len(trip) \in Nat /\ Len(trip) >= n
  /\ Len(trip) = IF all_buses_[b].is_loop_trip THEN n ELSE n + n - 1
  /\ \A i \in 1 .. n : trip[i] = w[i]
  /\ ~all_buses_[b].is_loop_trip => \A k \in 1 .. n : trip[n - 1 + k] = w[n + 1 - k]

LEMMA TripFacts ==
  ASSUME IsDatabase, NEW b, NEW w, NEW n, NEW trip, Trips(b, w, n, trip)
  PROVE  TripShape(b, w, n, trip)
<1>1. w \in Seq(Stop) /\ n = Len(w) /\ w # << >>
  BY BusFields DEF Trips
<1>2. n \in Nat /\ n >= 1 /\ DOMAIN w = 1 .. n /\ \A i \in 1 .. n : w[i] \in Stop
  BY <1>1
<1>3. CASE all_buses_[b].is_loop_trip
  BY <1>1, <1>2, <1>3 DEF Trips, RoundTrip, Way, TripShape
<1>4. CASE ~all_buses_[b].is_loop_trip
  <2>1. PICK v : v = [i \in 1 .. n |-> w[n + 1 - i]]
    OBVIOUS
  <2>2. trip = w \o Tail(v)
    BY <1>1, <1>2, <1>4, <2>1 DEF Trips, RoundTrip, Way
  <2>3. v \in Seq(Stop) /\ Len(v) = n
    BY <1>2, <2>1
  <2>4. PICK u : u = Tail(v)
    OBVIOUS
  <2>5. PICK m \in Nat : n = m + 1
    <3>1. n - 1 \in Nat /\ n = n - 1 + 1
      BY <1>2
    <3> QED BY <3>1
  <2>6. u \in Seq(Stop) /\ Len(u) = m /\ \A k \in 1 .. m : u[k] = v[k + 1]
    BY <1>2, <2>3, <2>4, <2>5
  <2>7. /\ Len(trip) = n + m
        /\ \A i \in 1 .. n : trip[i] = w[i]
        /\ \A o \in 1 .. m : trip[n + o] = u[o]
    <3>1. trip = w \o u /\ w \in Seq(Stop) /\ u \in Seq(Stop) /\ Len(w) = n /\ Len(u) = m
      BY <1>1, <2>2, <2>4, <2>6
    <3> QED BY <3>1, JoinFacts
  <2>8. ASSUME NEW k \in 1 .. n PROVE trip[n - 1 + k] = w[n + 1 - k]
    <3>1. CASE k = 1
      BY <1>2, <2>7, <3>1
    <3>2. CASE k # 1
      <4>1. PICK o \in 1 .. m : k = o + 1
        <5>1. k - 1 \in 1 .. m /\ k = k - 1 + 1
          BY <1>2, <2>5, <3>2
        <5> QED BY <5>1
      <4>2. trip[n + o] = v[k]
        BY <2>6, <2>7, <4>1
      <4>3. v[k] = w[n + 1 - k]
        BY <1>2, <2>1
      <4>4. n - 1 + k = n + o
        BY <1>2, <4>1
      <4> QED BY <4>2, <4>3, <4>4
    <3> QED BY <3>1, <3>2
  <2>9. Len(trip) = n + n - 1 /\ Len(trip) \in Nat /\ Len(trip) >= n
    BY <1>2, <2>5, <2>7
  <2> QED BY <1>2, <1>4, <2>7, <2>8, <2>9 DEF TripShape
<1> QED BY <1>3, <1>4

(* Of two stops that follow each other on the trip the bus has the stretch *)
(* between them one way or the other.                                      *)
LEMMA TripStretches ==
  ASSUME IsDatabase, NEW b, NEW w, NEW n, NEW trip, Trips(b, w, n, trip),
         NEW i \in Int, 1 <= i, i < Len(trip)
  PROVE  \E k \in 2 .. n : \/ trip[i] = w[k - 1] /\ trip[i + 1] = w[k]
                           \/ trip[i] = w[k] /\ trip[i + 1] = w[k - 1]
<1>1. /\ n \in Nat /\ n >= 1
      /\ Len(trip) = IF all_buses_[b].is_loop_trip THEN n ELSE n + n - 1
      /\ \A j \in 1 .. n : trip[j] = w[j]
      /\ ~all_buses_[b].is_loop_trip => \A k \in 1 .. n : trip[n - 1 + k] = w[n + 1 - k]
  BY TripFacts DEF TripShape
<1>2. CASE i < n
  <2>1. i + 1 \in 2 .. n /\ trip[i] = w[i] /\ trip[i + 1] = w[i + 1] /\ (i + 1) - 1 = i
    BY <1>1, <1>2
  <2> QED BY <2>1
<1>3. CASE i >= n
  <2>1. ~all_buses_[b].is_loop_trip /\ i < n + n - 1
    BY <1>1, <1>3
  <2>2. PICK k \in 1 .. n - 1 : i = n - 1 + k
    <3>1. i - (n - 1) \in 1 .. n - 1 /\ i = (n - 1) + (i - (n - 1))
      BY <1>1, <1>3, <2>1
    <3> QED BY <3>1
  <2>3. trip[n - 1 + k] = w[n + 1 - k] /\ trip[n - 1 + (k + 1)] = w[n + 1 - (k + 1)]
    <3>1. k \in 1 .. n /\ k + 1 \in 1 .. n
      BY <1>1
    <3> QED BY <1>1, <2>1, <3>1
  <2>4. /\ n + 1 - k \in 2 .. n /\ n + 1 - (k + 1) = (n + 1 - k) - 1
        /\ n - 1 + (k + 1) = i + 1
    BY <1>1, <2>2
  <2> QED BY <2>2, <2>3, <2>4
<1> QED BY <1>1, <1>2, <1>3

(* SummationLenght throws exactly if the bus stands still.                 *)
LEMMA ThrownIfItStands ==
  ASSUME Ready, NEW b \in DOMAIN all_buses_, all_buses_[b].stops # << >>
  PROVE  /\ NoLength \in Elements(Legs(RoundTrip(b))) <=> StandsStill(b)
         /\ ~StandsStill(b) => \A i \in 1 .. Len(RoundTrip(b)) - 1 :
              /\ Legs(RoundTrip(b))[i] \in Nat
              /\ Legs(RoundTrip(b))[i] = GetLenghtBetweenStops(RoundTrip(b)[i], RoundTrip(b)[i + 1])
<1>1. PICK w, n, trip : w = all_buses_[b].stops /\ n = Len(w) /\ trip = RoundTrip(b)
  OBVIOUS
<1>2. IsDatabase /\ BusBridged(b) /\ Trips(b, w, n, trip)
  BY <1>1, ReadyFacts DEF Trips
<1>3. /\ n \in Nat /\ n >= 1
      /\ Len(trip) = IF all_buses_[b].is_loop_trip THEN n ELSE n + n - 1
      /\ \A i \in 1 .. n : w[i] \in Stop /\ trip[i] = w[i]
      /\ Len(trip) \in Nat /\ Len(trip) >= n
  BY <1>2, TripFacts DEF TripShape
<1>4. PICK m \in Int : m = Len(trip) - 1
  BY <1>3
<1>5. PICK legs : legs = Legs(trip)
  OBVIOUS
<1>6. DOMAIN legs = 1 .. m /\ \A i \in 1 .. m : legs[i] = RoadBetween(trip[i], trip[i + 1])
  BY <1>4, <1>5 DEF Legs
<1>7. ASSUME NEW i \in 1 .. m
      PROVE  \E k \in 2 .. n : \/ trip[i] = w[k - 1] /\ trip[i + 1] = w[k]
                               \/ trip[i] = w[k] /\ trip[i + 1] = w[k - 1]
  <2>1. i \in Int /\ 1 <= i /\ i < Len(trip)
    BY <1>3, <1>4
  <2> QED BY <1>2, <2>1, TripStretches
<1>8. \A k \in 2 .. n : Bridged(w[k - 1], w[k]) /\ w[k - 1] \in Stop /\ w[k] \in Stop
  <2>1. \A k \in 2 .. n : Bridged(w[k - 1], w[k])
    BY <1>1, <1>2 DEF BusBridged, StretchBridged
  <2>2. \A k \in 2 .. n : k - 1 \in 1 .. n /\ k \in 1 .. n
    BY <1>3
  <2> QED BY <1>3, <2>1, <2>2
<1>9. ASSUME NEW i \in 1 .. m
      PROVE  /\ trip[i] \in Stop /\ trip[i + 1] \in Stop /\ Bridged(trip[i], trip[i + 1])
  <2>1. PICK k \in 2 .. n : \/ trip[i] = w[k - 1] /\ trip[i + 1] = w[k]
                            \/ trip[i] = w[k] /\ trip[i + 1] = w[k - 1]
    BY <1>7
  <2>2. Bridged(w[k], w[k - 1])
    BY <1>8 DEF Bridged
  <2> QED BY <1>8, <2>1, <2>2
<1>10. StandsStill(b) <=> \E k \in 2 .. n :
          w[k - 1] = w[k] /\ <<w[k], w[k]>> \notin DOMAIN length_between_stops_
  BY <1>1 DEF StandsStill
<1>11. ASSUME NEW i \in 1 .. m, legs[i] = NoLength PROVE StandsStill(b)
  <2>1. trip[i] = trip[i + 1] /\ <<trip[i], trip[i + 1]>> \notin DOMAIN length_between_stops_
    <3>1. RoadBetween(trip[i], trip[i + 1]) \notin Nat
      BY <1>6, <1>11, TransportRouterAssumption
    <3> QED BY <1>2, <1>9, <3>1, ReadAlike
  <2>2. PICK k \in 2 .. n : \/ trip[i] = w[k - 1] /\ trip[i + 1] = w[k]
                            \/ trip[i] = w[k] /\ trip[i + 1] = w[k - 1]
    BY <1>7
  <2> QED BY <1>10, <2>1, <2>2
<1>12. ASSUME StandsStill(b) PROVE \E i \in 1 .. m : legs[i] = NoLength
  <2>1. PICK k \in 2 .. n : w[k - 1] = w[k] /\ <<w[k], w[k]>> \notin DOMAIN length_between_stops_
    BY <1>10, <1>12
  <2>2. k - 1 \in 1 .. m /\ (k - 1) + 1 = k /\ k - 1 \in 1 .. n /\ k \in 1 .. n
    BY <1>3, <1>4
  <2>3. legs[k - 1] = RoadBetween(w[k - 1], w[k])
    BY <1>3, <1>6, <2>2
  <2>4. RoadBetween(w[k - 1], w[k]) = NoLength
    BY <1>2, <1>8, <2>1, ReadAlike
  <2> QED BY <2>2, <2>3, <2>4
<1>13. ASSUME ~StandsStill(b), NEW i \in 1 .. m
       PROVE  legs[i] \in Nat /\ legs[i] = GetLenghtBetweenStops(trip[i], trip[i + 1])
  <2>1. legs[i] # NoLength
    BY <1>11, <1>13
  <2> QED BY <1>2, <1>6, <1>9, <2>1, ReadAlike
<1>14. NoLength \in Elements(legs) <=> \E i \in 1 .. m : legs[i] = NoLength
  BY <1>6 DEF Elements
<1> QED BY <1>1, <1>4, <1>5, <1>11, <1>12, <1>13, <1>14

(* The road lengths of a way add up to the time of the road.               *)
LEMMA WayTimes ==
  ASSUME Ready, NEW b \in DOMAIN all_buses_, all_buses_[b].stops # << >>,
         NEW back \in BOOLEAN, NEW n, n = Len(all_buses_[b].stops), NEW way, way = Way(b, back)
  PROVE  /\ RoadTime(way, 1, n) \in Nat
         /\ n = 1 => RoadTime(way, 1, n) = 0
         /\ \E f \in [1 .. n -> Nat] : /\ IsSum(f, 1, n, StretchLengths(way, 1, n))
                                       /\ RoadTime(way, 1, n) = f[n]
<1>1. IsDatabase /\ BusBridged(b)
  BY ReadyFacts
<1>2. /\ n \in Nat /\ n >= 1 /\ \A i \in 1 .. n : way[i] \in Stop
      /\ \A i \in 2 .. n : Bridged(way[i - 1], way[i])
  <2>1. /\ n \in Nat /\ \A i \in 1 .. n : way[i] \in Stop
        /\ \A i \in 2 .. n :
             Bridged(way[i - 1], way[i]) <=> StretchBridged(b, IF back THEN n + 2 - i ELSE i)
    BY <1>1, WayStretches
  <2>2. n >= 1
    BY <1>1, BusFields
  <2>3. \A i \in 2 .. n : StretchBridged(b, IF back THEN n + 2 - i ELSE i)
    BY <1>1, <2>1 DEF BusBridged
  <2> QED BY <2>1, <2>2, <2>3
<1>3. \A k \in 1 + 1 .. n : GetLenghtBetweenStops(way[k - 1], way[k]) \in Nat
  <2> SUFFICES ASSUME NEW k \in 2 .. n PROVE GetLenghtBetweenStops(way[k - 1], way[k]) \in Nat
    OBVIOUS
  <2>1. way[k - 1] \in Stop /\ way[k] \in Stop /\ Bridged(way[k - 1], way[k])
    BY <1>2
  <2> QED BY <1>1, <2>1, LengthOrNone
<1>4. 1 \in Int /\ n \in Int /\ 1 <= n
  BY <1>2
<1>5. PICK f \in [1 .. n -> Nat] : /\ IsSum(f, 1, n, StretchLengths(way, 1, n))
                                   /\ RoadTime(way, 1, n) = f[n]
  BY <1>3, <1>4, RoadTimeIsSum
<1>6. f[n] \in Nat /\ f[1] = 0
  BY <1>4, <1>5 DEF IsSum
<1> QED BY <1>5, <1>6

(* What SummationLenght sums is the time along the whole way and back.     *)
LEMMA TripTime ==
  ASSUME Ready, NEW b \in DOMAIN all_buses_, all_buses_[b].stops # << >>, ~StandsStill(b),
         NEW n, n = Len(all_buses_[b].stops)
  PROVE  Total(Legs(RoundTrip(b))) = RoadTime(Way(b, FALSE), 1, n)
           + (IF all_buses_[b].is_loop_trip THEN 0 ELSE RoadTime(Way(b, TRUE), 1, n))
<1>1. PICK w, trip : w = all_buses_[b].stops /\ trip = RoundTrip(b)
  OBVIOUS
<1>2. IsDatabase /\ Trips(b, w, n, trip)
  BY <1>1, ReadyFacts DEF Trips
<1>3. /\ n \in Nat /\ n >= 1 /\ DOMAIN w = 1 .. n
      /\ Len(trip) \in Nat /\ Len(trip) >= n
      /\ Len(trip) = IF all_buses_[b].is_loop_trip THEN n ELSE n + n - 1
      /\ \A i \in 1 .. n : trip[i] = w[i]
      /\ ~all_buses_[b].is_loop_trip => \A k \in 1 .. n : trip[n - 1 + k] = w[n + 1 - k]
  <2>1. TripShape(b, w, n, trip)
    BY <1>2, TripFacts
  <2> QED BY <2>1 DEF TripShape
<1>4. PICK m \in Nat : n = m + 1
  <2>1. n - 1 \in Nat /\ n = n - 1 + 1
    BY <1>3
  <2> QED BY <2>1
<1>5. PICK l \in Nat : Len(trip) = l + 1 /\ l = IF all_buses_[b].is_loop_trip THEN m ELSE m + m
  <2>1. Len(trip) - 1 \in Nat /\ Len(trip) = Len(trip) - 1 + 1
    BY <1>3
  <2> QED BY <1>3, <1>4, <2>1
<1>6. PICK legs : legs = Legs(trip)
  OBVIOUS
<1>7. /\ Len(legs) = l
      /\ \A i \in 1 .. l : /\ legs[i] \in Nat
                           /\ legs[i] = GetLenghtBetweenStops(trip[i], trip[i + 1])
  <2>1. Len(trip) - 1 = l
    BY <1>5
  <2>2. Len(legs) = l
    BY <1>6, <2>1 DEF Legs
  <2> QED BY <1>1, <1>6, <2>1, <2>2, ThrownIfItStands
<1>8. PICK g \in [0 .. l -> Nat] : IsSum(g, 0, l, legs) /\ Total(legs) = g[l]
  BY <1>7, NumbersAddUp
<1>9. ASSUME NEW back \in BOOLEAN, NEW way, way = Way(b, back), NEW p \in Nat, p + m <= l,
             \A k \in 1 .. n : trip[p + k] = way[k]
      PROVE  g[p + m] = g[p] + RoadTime(way, 1, n)
  <2>1. PICK f \in [1 .. n -> Nat] : /\ IsSum(f, 1, n, StretchLengths(way, 1, n))
                                     /\ RoadTime(way, 1, n) = f[n]
    BY <1>9, WayTimes
  <2>2. PICK c : c = StretchLengths(way, 1, n)
    OBVIOUS
  <2>3. SameNumbers(c, 1, legs, p, m)
    <3> SUFFICES ASSUME NEW k \in 1 .. m PROVE c[1 + k] = legs[p + k] /\ legs[p + k] \in Nat
      BY DEF SameNumbers
    <3>1. c[1 + k] = GetLenghtBetweenStops(way[(1 + k) - 1], way[1 + k])
      <4>1. 1 + k \in 1 + 1 .. n
        BY <1>4
      <4> QED BY <2>2, <4>1 DEF StretchLengths
    <3>2. (1 + k) - 1 = k /\ p + (1 + k) = (p + k) + 1 /\ p + k \in 1 .. l /\ k \in 1 .. n /\ 1 + k \in 1 .. n
      BY <1>4, <1>9
    <3>3. trip[p + k] = way[k] /\ trip[(p + k) + 1] = way[1 + k]
      BY <1>9, <3>2
    <3> QED BY <1>7, <3>1, <3>2, <3>3
  <2>4. PICK o \in Int : o = 1
    OBVIOUS
  <2>5. GoesOn(f, o, n, c, g, l, legs, p, m)
    <3>1. NaturalSum(f, o, n, c) /\ NaturalSum(g, 0, l, legs) /\ SameNumbers(c, o, legs, p, m)
      BY <1>8, <2>1, <2>2, <2>3, <2>4 DEF NaturalSum
    <3>2. n \in Int /\ n = o + m /\ p + m <= l
      BY <1>4, <1>9, <2>4
    <3> QED BY <3>1, <3>2 DEF GoesOn
  <2>6. g[p + m] = g[p] + f[n]
    <3>1. PICK q, k : q = p /\ k = m
      OBVIOUS
    <3>2. GoesOn(f, o, n, c, g, l, legs, q, k)
      BY <2>5, <3>1
    <3>3. g[q + k] = g[q] + f[n]
      BY <3>2, SumGoesOn
    <3> QED BY <3>1, <3>3
  <2> QED BY <2>1, <2>6
<1>10. g[0] = 0
  BY <1>8 DEF IsSum
<1>11. PICK there, home : there = RoadTime(Way(b, FALSE), 1, n) /\ home = RoadTime(Way(b, TRUE), 1, n)
  OBVIOUS
<1>12. g[m] = there /\ there \in Nat
  <2>1. PICK z \in Nat : z = 0
    OBVIOUS
  <2>2. z + m <= l /\ z + m = m
    BY <1>5, <2>1
  <2>3. PICK way : way = Way(b, FALSE)
    OBVIOUS
  <2>4. \A k \in 1 .. n : z + k = k
    BY <2>1
  <2>5. \A k \in 1 .. n : trip[z + k] = way[k]
    BY <1>1, <1>3, <2>3, <2>4 DEF Way
  <2>6. g[z + m] = g[z] + RoadTime(way, 1, n)
    BY <1>9, <2>2, <2>3, <2>5
  <2>7. RoadTime(way, 1, n) \in Nat
    BY <2>3, WayTimes
  <2>8. there = RoadTime(way, 1, n)
    BY <1>11, <2>3
  <2> QED BY <1>10, <2>1, <2>2, <2>6, <2>7, <2>8
<1>13. g[l] = there + (IF all_buses_[b].is_loop_trip THEN 0 ELSE home)
  <2>1. CASE all_buses_[b].is_loop_trip
    BY <1>5, <1>12, <2>1
  <2>2. CASE ~all_buses_[b].is_loop_trip
    <3>1. PICK way : way = Way(b, TRUE)
      OBVIOUS
    <3>2. \A k \in 1 .. n : way[k] = w[n + 1 - k]
      BY <1>1, <1>3, <3>1 DEF Way
    <3>3. n - 1 = m /\ m + m <= l /\ m + m = l
      BY <1>4, <1>5, <2>2
    <3>4. \A k \in 1 .. n : trip[m + k] = way[k]
      <4>1. \A k \in 1 .. n : trip[n - 1 + k] = w[n + 1 - k]
        BY <1>3, <2>2
      <4> QED BY <3>2, <3>3, <4>1
    <3>5. g[m + m] = g[m] + RoadTime(way, 1, n)
      BY <1>9, <3>1, <3>3, <3>4
    <3>6. home = RoadTime(way, 1, n)
      BY <1>11, <3>1
    <3> QED BY <1>12, <2>2, <3>3, <3>5, <3>6
  <2> QED BY <2>1, <2>2
<1> QED BY <1>1, <1>6, <1>8, <1>11, <1>13

(* The ride along the whole way is an edge of the graph.                   *)
LEMMA WholeWayRidden ==
  ASSUME Ready, NEW b \in DOMAIN all_buses_, NEW n, n = Len(all_buses_[b].stops), n > 1,
         NEW back \in Directions(b)
  PROVE  RoadTime(Way(b, back), 1, n) \in WholeRides(b, back)
<1>1. IsDatabase /\ RidesComplete /\ pc = "done" /\ back \in BOOLEAN
  BY ReadyFacts DEF Ready, Directions
<1>2. PICK way : way = Way(b, back)
  OBVIOUS
<1>3. n \in Nat /\ Len(way) = n /\ DOMAIN all_buses_[b].stops = 1 .. n
  <2>1. n \in Nat /\ Len(way) = n
    BY <1>1, <1>2, WayStretches
  <2> QED BY <1>1, <2>1, BusFields
<1>4. <<1, n>> \in Places(b)
  BY <1>3 DEF Places
<1>5. PICK e \in EdgeIds(graph_of_stops) : ~IsWait(e) /\ IsRide(e, b, back, 1, n)
  <2>1. PICK p \in Places(b) : p = <<1, n>>
    BY <1>4
  <2>2. PICK e \in EdgeIds(graph_of_stops) : ~IsWait(e) /\ IsRide(e, b, back, p[1], p[2])
    BY <1>1 DEF RidesComplete
  <2> QED BY <2>1, <2>2
<1>6. /\ info_about_edge[e].name_ = all_buses_[b].name
      /\ info_about_edge[e].weight_ = RoadTime(way, 1, n)
      /\ info_about_edge[e].span_count_ = n - 1
      /\ From(e) = stop_vertexs_[way[1]].out /\ To(e) = stop_vertexs_[way[n]].in
  BY <1>2, <1>5 DEF IsRide
<1> QED BY <1>2, <1>3, <1>5, <1>6 DEF WholeRides

(* The distances along a trip, and what the length of its line is of them. *)
LegsOfTrip(legs, trip, distance) ==
  legs = [i \in 1 .. Len(trip) - 1 |-> distance[<<trip[i], trip[i + 1]>>]]

MeasuresTrip(line, n, trip, legs) ==
  /\ line = IF NaN \in Elements(legs) THEN NaN ELSE Total(legs)
  /\ (n > 1 /\ \A i \in 1 .. Len(trip) - 1 : legs[i] \notin {0, NaN}) => line \notin {0, NaN}

(* The way back is as long as the way there, so the distances along the    *)
(* way count once for a bus that is a loop and twice for another, and some *)
(* distance along the way makes a length.                                  *)
LEMMA LineOfTrip ==
  ASSUME IsDatabase, NEW b, NEW w, NEW n, NEW trip, Trips(b, w, n, trip),
         NEW distance \in Distances,
         NEW legs, LegsOfTrip(legs, trip, distance)
  PROVE  MeasuresTrip(SummationLineLenght(b, distance), n, trip, legs)
<1>1. TripShape(b, w, n, trip)
  BY TripFacts
<1>2. /\ n \in Nat /\ n >= 1 /\ \A i \in 1 .. n : w[i] \in Stop /\ trip[i] = w[i]
      /\ Len(trip) \in Nat
      /\ Len(trip) = IF all_buses_[b].is_loop_trip THEN n ELSE n + n - 1
  BY <1>1 DEF TripShape
<1>3. PICK m \in Nat : n = m + 1
  <2>1. n - 1 \in Nat /\ n = n - 1 + 1
    BY <1>2
  <2> QED BY <2>1
<1>4. PICK l \in Nat : /\ Len(trip) - 1 = l /\ l = IF all_buses_[b].is_loop_trip THEN m ELSE m + m
                       /\ m <= l
  <2>1. Len(trip) = IF all_buses_[b].is_loop_trip THEN m + 1 ELSE m + 1 + (m + 1) - 1
    BY <1>2, <1>3
  <2>2. CASE all_buses_[b].is_loop_trip
    BY <2>1, <2>2
  <2>3. CASE ~all_buses_[b].is_loop_trip
    <3>1. Len(trip) - 1 = m + m /\ m + m \in Nat /\ m <= m + m
      BY <2>1, <2>3
    <3> QED BY <2>3, <3>1
  <2> QED BY <2>2, <2>3
<1>5. PICK short : short = [i \in 1 .. m |-> distance[<<w[i], w[i + 1]>>]]
  OBVIOUS
<1>6. SummationLineLenght(b, distance) = IF NaN \in Elements(short) THEN NaN
        ELSE (IF all_buses_[b].is_loop_trip THEN 1 ELSE 2) * Total(short)
  <2>1. Way(b, FALSE) = w /\ Len(w) - 1 = m
    BY <1>3 DEF Trips, Way
  <2> QED BY <1>5, <2>1 DEF SummationLineLenght
<1>7. /\ DOMAIN short = 1 .. m /\ Len(short) = m
      /\ DOMAIN legs = 1 .. l /\ Len(legs) = l
      /\ \A i \in 1 .. m : short[i] = distance[<<w[i], w[i + 1]>>]
      /\ \A i \in 1 .. l : legs[i] = distance[<<trip[i], trip[i + 1]>>]
  <2>1. /\ DOMAIN short = 1 .. m /\ Len(short) = m
        /\ \A i \in 1 .. m : short[i] = distance[<<w[i], w[i + 1]>>]
    BY <1>5
  <2>2. legs = [i \in 1 .. l |-> distance[<<trip[i], trip[i + 1]>>]]
    BY <1>4 DEF LegsOfTrip
  <2>3. PICK h : h = [i \in 1 .. l |-> distance[<<trip[i], trip[i + 1]>>]]
    OBVIOUS
  <2>4. legs = h
    BY <2>2, <2>3
  <2>5. \A i \in 1 .. l : h[i] = distance[<<trip[i], trip[i + 1]>>]
    BY <2>3
  <2>6. DOMAIN h = 1 .. l
    BY <2>3
  <2>7. Len(h) = l
    BY <2>3
  <2> QED BY <2>1, <2>4, <2>5, <2>6, <2>7
<1>8. \A s, t \in Stop : /\ distance[<<s, t>>] \in Nat \cup {NaN}
                         /\ distance[<<s, t>>] = distance[<<t, s>>]
  BY StatisticsAssumption
<1>9. ASSUME NEW i \in 1 .. m PROVE short[i] \in Nat \cup {NaN} /\ legs[i] = short[i]
  <2>1. i \in 1 .. n /\ i + 1 \in 1 .. n /\ i \in 1 .. l
    BY <1>3, <1>4
  <2>2. w[i] \in Stop /\ w[i + 1] \in Stop /\ trip[i] = w[i] /\ trip[i + 1] = w[i + 1]
    BY <1>2, <2>1
  <2>3. short[i] = distance[<<w[i], w[i + 1]>>] /\ legs[i] = distance[<<trip[i], trip[i + 1]>>]
    BY <1>7, <2>1, Zenon
  <2>4. distance[<<w[i], w[i + 1]>>] \in Nat \cup {NaN}
    BY <1>8, <2>2, Zenon
  <2> QED BY <2>2, <2>3, <2>4, Zenon
<1>10. ASSUME ~all_buses_[b].is_loop_trip, NEW k \in 1 .. m PROVE legs[m + k] = short[m + 1 - k]
  <2>1. \A j \in 1 .. n : trip[n - 1 + j] = w[n + 1 - j]
    BY <1>1, <1>10 DEF TripShape
  <2>2. k \in 1 .. n /\ k + 1 \in 1 .. n /\ m + k \in 1 .. l
    BY <1>3, <1>4, <1>10
  <2>3. trip[n - 1 + k] = w[n + 1 - k] /\ trip[n - 1 + (k + 1)] = w[n + 1 - (k + 1)]
    BY <2>1, <2>2
  <2>4. /\ n - 1 + k = m + k /\ n - 1 + (k + 1) = (m + k) + 1
        /\ n + 1 - k = (m + 1 - k) + 1 /\ n + 1 - (k + 1) = m + 1 - k
    BY <1>3
  <2>5. PICK o \in 1 .. m : o = m + 1 - k
    OBVIOUS
  <2>6. trip[m + k] = w[o + 1] /\ trip[(m + k) + 1] = w[o]
    BY <2>3, <2>4, <2>5
  <2>7. w[o] \in Stop /\ w[o + 1] \in Stop
    <3>1. o \in 1 .. n /\ o + 1 \in 1 .. n
      BY <1>3
    <3> QED BY <1>2, <3>1
  <2>8. legs[m + k] = distance[<<w[o + 1], w[o]>>] /\ short[o] = distance[<<w[o], w[o + 1]>>]
    BY <1>7, <2>2, <2>6
  <2> QED BY <1>8, <2>5, <2>7, <2>8
<1>11. NaN \in Elements(legs) <=> NaN \in Elements(short)
  <2>1. NaN \in Elements(legs) <=> \E i \in 1 .. l : legs[i] = NaN
    BY <1>7 DEF Elements
  <2>2. NaN \in Elements(short) <=> \E i \in 1 .. m : short[i] = NaN
    BY <1>7 DEF Elements
  <2>3. ASSUME NEW i \in 1 .. m, short[i] = NaN PROVE \E j \in 1 .. l : legs[j] = NaN
    <3>1. i \in 1 .. l
      BY <1>4
    <3> QED BY <1>9, <2>3, <3>1
  <2>4. ASSUME NEW i \in 1 .. l, legs[i] = NaN PROVE \E j \in 1 .. m : short[j] = NaN
    <3>1. CASE i <= m
      <4>1. i \in 1 .. m
        BY <3>1
      <4> QED BY <1>9, <2>4, <4>1
    <3>2. CASE ~(i <= m)
      <4>1. ~all_buses_[b].is_loop_trip
        BY <1>4, <3>2
      <4>2. PICK k \in 1 .. m : i = m + k
        <5>1. i - m \in 1 .. m /\ i = m + (i - m)
          BY <1>4, <3>2, <4>1
        <5> QED BY <5>1
      <4>3. PICK o \in 1 .. m : o = m + 1 - k
        OBVIOUS
      <4> QED BY <1>10, <2>4, <4>1, <4>2, <4>3
    <3> QED BY <3>1, <3>2
  <2> QED BY <2>1, <2>2, <2>3, <2>4
<1>12. CASE NaN \in Elements(short)
  <2>1. PICK i \in 1 .. m : short[i] = NaN
    BY <1>7, <1>12 DEF Elements
  <2>2. i \in 1 .. l
    BY <1>4
  <2>3. legs[i] = NaN
    BY <1>9, <2>1
  <2> QED BY <1>4, <1>6, <1>11, <1>12, <2>2, <2>3 DEF MeasuresTrip
<1>13. CASE NaN \notin Elements(short)
  <2>1. \A i \in 1 .. m : short[i] \in Nat
    BY <1>7, <1>9, <1>13 DEF Elements
  <2>2. \A i \in 1 .. l : legs[i] \in Nat
    <3> SUFFICES ASSUME NEW i \in 1 .. l PROVE legs[i] \in Nat
      OBVIOUS
    <3>1. CASE i <= m
      <4>1. i \in 1 .. m
        BY <3>1
      <4> QED BY <1>9, <2>1, <4>1
    <3>2. CASE ~(i <= m)
      <4>1. ~all_buses_[b].is_loop_trip
        BY <1>4, <3>2
      <4>2. PICK k \in 1 .. m : i = m + k
        <5>1. i - m \in 1 .. m /\ i = m + (i - m)
          BY <1>4, <3>2, <4>1
        <5> QED BY <5>1
      <4>3. PICK o \in 1 .. m : o = m + 1 - k
        OBVIOUS
      <4> QED BY <1>10, <2>1, <4>1, <4>2, <4>3
    <3> QED BY <3>1, <3>2
  <2>3. PICK f \in [0 .. m -> Nat] : IsSum(f, 0, m, short) /\ Total(short) = f[m]
    BY <1>7, <2>1, NumbersAddUp
  <2>4. PICK g \in [0 .. l -> Nat] : IsSum(g, 0, l, legs) /\ Total(legs) = g[l]
    BY <1>7, <2>2, NumbersAddUp
  <2>5. g[l] = (IF all_buses_[b].is_loop_trip THEN 1 ELSE 2) * f[m]
    <3>1. CASE all_buses_[b].is_loop_trip
      <4>1. l = m
        BY <1>4, <3>1
      <4>2. legs = short
        BY <1>5, <1>7, <1>9, <4>1 DEF LegsOfTrip
      <4>3. Total(legs) = Total(short)
        BY <4>2
      <4> QED BY <2>3, <2>4, <3>1, <4>3
    <3>2. CASE ~all_buses_[b].is_loop_trip
      <4>1. l = m + m
        BY <1>4, <3>2
      <4>2. Mirrored(legs, short, m) /\ NaturalSum(f, 0, m, short) /\ NaturalSum(g, 0, l, legs)
        BY <1>9, <1>10, <2>1, <2>3, <2>4, <3>2 DEF Mirrored, NaturalSum
      <4>3. g[l] = 2 * f[m]
        BY <4>1, <4>2, SumMirrored
      <4> QED BY <3>2, <4>3
    <3> QED BY <3>1, <3>2
  <2>6. SummationLineLenght(b, distance) = Total(legs)
    BY <1>6, <1>13, <2>3, <2>4, <2>5
  <2>7. ASSUME n > 1, \A i \in 1 .. l : legs[i] \notin {0, NaN}
        PROVE  SummationLineLenght(b, distance) \notin {0, NaN}
    <3>1. m \in 1 .. m /\ m \in 1 .. l /\ m \in 0 + 1 .. m /\ m - 1 \in 0 .. m
      BY <1>3, <1>4, <2>7
    <3>2. short[m] \in Nat /\ short[m] # 0
      BY <1>9, <2>1, <2>7, <3>1
    <3>3. f[m] = f[m - 1] + short[m] /\ f[m - 1] \in Nat
      BY <2>3, <3>1 DEF IsSum
    <3>4. f[m] \in Nat /\ f[m] > 0
      BY <3>2, <3>3
    <3>5. g[l] \in Nat /\ g[l] # 0
      BY <2>5, <3>4
    <3> QED BY <2>4, <2>6, <3>5, StatisticsAssumption
  <2> QED BY <1>4, <1>11, <1>13, <2>6, <2>7 DEF MeasuresTrip
<1> QED BY <1>12, <1>13

(* The bus that is found for a name has it.                                *)
LEMMA FoundHasName ==
  ASSUME IsDatabase, NEW name, HasBus(name)
  PROVE  FindBus(name) \in DOMAIN all_buses_ /\ all_buses_[FindBus(name)].name = name
<1>1. PICK l \in Nat : DOMAIN all_buses_ = 1 .. l
  BY DEF IsDatabase
<1> DEFINE Named(b) == all_buses_[b].name = name
           Is(b) == /\ b \in DOMAIN all_buses_ /\ Named(b)
                    /\ \A c \in DOMAIN all_buses_ : Named(c) => c <= b
           T == {k \in Nat : \E c \in 1 .. l : Named(c) /\ k = l - c}
<1>2. PICK k \in T : \A j \in T : k <= j
  <2>1. PICK c \in 1 .. l : Named(c)
    BY <1>1 DEF HasBus
  <2>2. l - c \in T
    BY <2>1
  <2>3. T \in SUBSET Nat
    OBVIOUS
  <2> HIDE DEF T
  <2> QED BY <2>2, <2>3, LeastNat
<1>3. PICK b \in 1 .. l : Named(b) /\ k = l - b
  OBVIOUS
<1>4. ASSUME NEW c \in 1 .. l, Named(c) PROVE c <= b
  <2>1. l - c \in T
    BY <1>4
  <2>2. k <= l - c
    <3> HIDE DEF T
    <3> QED BY <1>2, <2>1
  <2> QED BY <1>3, <2>2
<1>5. Is(b)
  BY <1>1, <1>3, <1>4
<1>6. FindBus(name) = CHOOSE c : Is(c)
  BY DEF FindBus
<1>7. Is(FindBus(name))
  <2> HIDE DEF Is
  <2> QED BY <1>5, <1>6, Zenon
<1> QED BY <1>7

(* A bus has no more stops than it stops at.                               *)
LEMMA FewerStops ==
  ASSUME NEW n \in Nat, NEW w, DOMAIN w = 1 .. n, w = [i \in 1 .. n |-> w[i]]
  PROVE  Cardinality(Elements(w)) <= n
<1>1. w \in Surjection(1 .. n, Elements(w))
  BY DEF Surjection, Elements
<1>2. IsFiniteSet(1 .. n) /\ Cardinality(1 .. n) = n
  BY FS_Interval
<1>3. Cardinality(Elements(w)) <= Cardinality(1 .. n)
  BY <1>1, <1>2, FS_Surjection
<1> QED BY <1>2, <1>3

LEMMA MoreThanOne ==
  ASSUME NEW n \in Nat, n >= 1, n # 1
  PROVE  n > 1
OBVIOUS

(* The road length of a trip is what the rides along the whole way take.   *)
LEMMA RidesMakeTrip ==
  ASSUME Ready, NEW b \in DOMAIN all_buses_, all_buses_[b].stops # << >>, ~StandsStill(b),
         NEW n, n = Len(all_buses_[b].stops)
  PROVE  \E there \in IF n = 1 THEN {0} ELSE WholeRides(b, FALSE),
            home \in IF n = 1 \/ all_buses_[b].is_loop_trip THEN {0} ELSE WholeRides(b, TRUE) :
           Total(Legs(RoundTrip(b))) = there + home
<1>1. PICK out, back : out = RoadTime(Way(b, FALSE), 1, n) /\ back = RoadTime(Way(b, TRUE), 1, n)
  OBVIOUS
<1>2. Total(Legs(RoundTrip(b))) = out + (IF all_buses_[b].is_loop_trip THEN 0 ELSE back)
  BY <1>1, TripTime
<1>3. out \in Nat /\ back \in Nat /\ (n = 1 => out = 0 /\ back = 0)
  <2>1. \A back_ \in BOOLEAN : /\ RoadTime(Way(b, back_), 1, n) \in Nat
                               /\ n = 1 => RoadTime(Way(b, back_), 1, n) = 0
    BY WayTimes
  <2> QED BY <1>1, <2>1
<1>4. n \in Nat /\ n >= 1
  BY ReadyFacts, BusFields
<1>5. CASE n = 1
  BY <1>2, <1>3, <1>5
<1>6. CASE n # 1
  <2>1. n > 1
    BY <1>4, <1>6, MoreThanOne
  <2>4. FALSE \in Directions(b) /\ (~all_buses_[b].is_loop_trip => TRUE \in Directions(b))
    BY DEF Directions
  <2>2. out \in WholeRides(b, FALSE)
    BY <1>1, <2>1, <2>4, WholeWayRidden
  <2>3. ~all_buses_[b].is_loop_trip => back \in WholeRides(b, TRUE)
    BY <1>1, <2>1, <2>4, WholeWayRidden
  <2> QED BY <1>2, <1>3, <1>6, <2>2, <2>3
<1> QED BY <1>5, <1>6

(* The curvature of a bus measures its trip.                               *)
LEMMA CurvatureMeasuresTrip ==
  ASSUME Ready, NEW name, HasBus(name), all_buses_[FindBus(name)].stops # << >>,
         NEW distance \in Distances, NEW route, info.asked = name,
         info.line_length = SummationLineLenght(FindBus(name), distance),
         info.curvature = Curvature(route, SummationLineLenght(FindBus(name), distance))
  PROVE  CurvatureIsOfTheTrip
<1>1. PICK b, w, n, trip : /\ b = FindBus(name) /\ w = all_buses_[b].stops /\ n = Len(w)
                           /\ trip = RoundTrip(b)
  OBVIOUS
<1>2. IsDatabase /\ Trips(b, w, n, trip)
  BY <1>1, ReadyFacts, FoundHasName DEF Trips
<1>3. PICK legs : LegsOfTrip(legs, trip, distance)
  BY DEF LegsOfTrip
<1>4. MeasuresTrip(SummationLineLenght(b, distance), n, trip, legs)
  BY <1>2, <1>3, LineOfTrip
<1>6. ASSUME Len(trip) > 1,
             \A i \in 1 .. Len(trip) - 1 : \A d \in Distances :
               d[<<trip[i], trip[i + 1]>>] \notin {0, NaN}
      PROVE  info.curvature = "number"
  <2>1. n > 1
    <3>1. n \in Nat /\ n >= 1 /\ Len(trip) = IF all_buses_[b].is_loop_trip THEN n ELSE n + n - 1
      BY <1>2, TripFacts DEF TripShape
    <3> QED BY <1>6, <3>1
  <2>2. \A i \in 1 .. Len(trip) - 1 : legs[i] \notin {0, NaN}
    BY <1>3, <1>6 DEF LegsOfTrip
  <2>3. SummationLineLenght(b, distance) \notin {0, NaN}
    BY <1>4, <2>1, <2>2 DEF MeasuresTrip
  <2> QED BY <1>1, <2>3 DEF Curvature
<1>7. FindBus(info.asked) = b
  BY <1>1
<1>8. \E d \in Distances :
        LET ls == [i \in 1 .. Len(trip) - 1 |-> d[<<trip[i], trip[i + 1]>>]] IN
        info.line_length = IF NaN \in Elements(ls) THEN NaN ELSE Total(ls)
  <2> WITNESS distance \in Distances
  <2> QED BY <1>1, <1>3, <1>4 DEF LegsOfTrip, MeasuresTrip
<1> QED BY <1>1, <1>6, <1>7, <1>8 DEF CurvatureIsOfTheTrip

LEMMA BusAnswerAgrees ==
  ASSUME Ready, NEW name, BusAnswer(name, info)
  PROVE  InfoAgreesWithRides
<1>1. PICK b : b = FindBus(name)
  OBVIOUS
<1>2. CASE ~HasBus(name) /\ info = Info(name, "no bus")
  <2>1. info.outcome = "no bus" /\ info.asked = name
    BY <1>2 DEF Info
  <2> QED BY <1>2, <2>1 DEF InfoAgreesWithRides, CurvatureIsOfTheTrip
<1>3. CASE HasBus(name) /\ all_buses_[b].stops = << >> /\ info = Info(name, "undefined")
  <2>1. info.outcome = "undefined" /\ info.asked = name
    BY <1>3 DEF Info
  <2>2. ~StandsStill(b)
    <3>1. Len(all_buses_[b].stops) = 0
      BY <1>3
    <3> QED BY <3>1 DEF StandsStill
  <2> QED BY <1>1, <2>1, <2>2 DEF InfoAgreesWithRides, CurvatureIsOfTheTrip
<1>4. ASSUME HasBus(name), all_buses_[b].stops # << >>
      PROVE  /\ b \in DOMAIN all_buses_ /\ IsDatabase
             /\ NoLength \in Elements(Legs(RoundTrip(b))) <=> StandsStill(b)
  <2>1. b \in DOMAIN all_buses_ /\ IsDatabase
    BY <1>1, <1>4, FoundHasName, ReadyFacts
  <2> QED BY <1>4, <2>1, ThrownIfItStands
<1>5. CASE /\ HasBus(name) /\ all_buses_[b].stops # << >>
           /\ NoLength \in Elements(Legs(RoundTrip(b)))
           /\ info = Info(name, "thrown")
  <2>1. info.outcome = "thrown" /\ info.asked = name
    BY <1>5 DEF Info
  <2>2. StandsStill(b)
    BY <1>4, <1>5
  <2> QED BY <1>1, <1>5, <2>1, <2>2 DEF InfoAgreesWithRides, CurvatureIsOfTheTrip
<1>6. ASSUME HasBus(name), all_buses_[b].stops # << >>,
             NoLength \notin Elements(Legs(RoundTrip(b))), NEW distance \in Distances,
             info = [Info(name, "bus") EXCEPT
             !.line_length = SummationLineLenght(b, distance),
             !.curvature = Curvature(SummationLenght(b), SummationLineLenght(b, distance)),
             !.quantity_stop = IF all_buses_[b].is_loop_trip THEN Len(all_buses_[b].stops)
                                                             ELSE Len(all_buses_[b].stops) * 2 - 1,
             !.unique_stops = Cardinality(Elements(all_buses_[b].stops)),
             !.route_length = SummationLenght(b)]
      PROVE  InfoAgreesWithRides
  <2>1. PICK w, n, trip : w = all_buses_[b].stops /\ n = Len(w) /\ trip = RoundTrip(b)
    OBVIOUS
  <2>2. /\ info.outcome = "bus" /\ info.asked = name
        /\ info.line_length = SummationLineLenght(b, distance)
        /\ info.curvature = Curvature(SummationLenght(b), SummationLineLenght(b, distance))
        /\ info.quantity_stop = IF all_buses_[b].is_loop_trip THEN n ELSE n * 2 - 1
        /\ info.unique_stops = Cardinality(Elements(w))
        /\ info.route_length = SummationLenght(b)
    BY <1>6, <2>1 DEF Info
  <2>3. b \in DOMAIN all_buses_ /\ IsDatabase /\ ~StandsStill(b) /\ Trips(b, w, n, trip)
    BY <1>4, <1>6, <2>1 DEF Trips
  <2>4. CurvatureIsOfTheTrip
    BY <1>1, <1>6, <2>2, CurvatureMeasuresTrip
  <2>5. \E there \in IF n = 1 THEN {0} ELSE WholeRides(b, FALSE),
           home \in IF n = 1 \/ all_buses_[b].is_loop_trip THEN {0} ELSE WholeRides(b, TRUE) :
          info.route_length = Wrapped(there + home)
    <3>1. PICK there \in IF n = 1 THEN {0} ELSE WholeRides(b, FALSE),
               home \in IF n = 1 \/ all_buses_[b].is_loop_trip THEN {0} ELSE WholeRides(b, TRUE) :
                 Total(Legs(RoundTrip(b))) = there + home
      BY <1>6, <2>1, <2>3, RidesMakeTrip
    <3>2. info.route_length = Wrapped(there + home)
      BY <2>2, <3>1 DEF SummationLenght
    <3> QED BY <3>2
  <2>6. n \in Nat /\ DOMAIN w = 1 .. n /\ w = [i \in 1 .. n |-> w[i]]
    <3>1. w \in Seq(Stop)
      BY <2>1, <2>3, BusFields
    <3> QED BY <2>1, <3>1
  <2>7. info.quantity_stop = Len(trip)
    <3>1. Len(trip) = IF all_buses_[b].is_loop_trip THEN n ELSE n + n - 1
      BY <2>3, TripFacts DEF TripShape
    <3> QED BY <2>2, <2>6, <3>1
  <2>8. info.unique_stops <= n
    BY <2>2, <2>6, FewerStops
  <2>9. FindBus(info.asked) = b
    BY <1>1, <2>2
  <2> QED BY <2>1, <2>2, <2>3, <2>4, <2>5, <2>7, <2>8, <2>9 DEF InfoAgreesWithRides
<1> QED BY <1>1, <1>2, <1>3, <1>5, <1>6 DEF BusAnswer

(* The buses that stop at a stop, by name.                                 *)
BusesAt(stop) ==
  {all_buses_[b].name : b \in {c \in DOMAIN all_buses_ : stop \in Elements(all_buses_[c].stops)}}

LEMMA BusesAtFinite ==
  ASSUME IsDatabase, NEW stop
  PROVE  BusesAt(stop) \in SUBSET Nat /\ IsFiniteSet(BusesAt(stop))
<1>1. PICK l \in Nat : DOMAIN all_buses_ = 1 .. l
  BY DEF IsDatabase
<1>2. PICK D : D = {c \in DOMAIN all_buses_ : stop \in Elements(all_buses_[c].stops)}
  OBVIOUS
<1>3. IsFiniteSet(D)
  <2>1. IsFiniteSet(1 .. l) /\ D \subseteq 1 .. l
    BY <1>1, <1>2, FS_Interval
  <2> QED BY <2>1, FS_Subset
<1>4. PICK f : f = [b \in D |-> all_buses_[b].name]
  OBVIOUS
<1>5. f \in Surjection(D, BusesAt(stop))
  BY <1>2, <1>4 DEF BusesAt, Surjection
<1>6. IsFiniteSet(BusesAt(stop))
  BY <1>3, <1>5, FS_Surjection
<1>7. \A b \in DOMAIN all_buses_ : all_buses_[b].name \in BusNames
  BY BusFields
<1> QED BY <1>6, <1>7, StatisticsAssumption DEF BusesAt

(* The buses that stop at a stop are those that have a ride there, and     *)
(* those that stop nowhere else.                                           *)
LEMMA BusesAtRide ==
  ASSUME Ready, NEW stop \in Stop, NEW name
  PROVE  name \in BusesAt(stop) <=> stop \in CallsAt(name) \cup OnlyStandsAt(name)
<1>1. /\ IsDatabase /\ RidesAreReal /\ RidesComplete /\ pc = "done"
      /\ \A s, t \in Stop : /\ stop_vertexs_[s].in = stop_vertexs_[t].in => s = t
                            /\ stop_vertexs_[s].out = stop_vertexs_[t].out => s = t
  BY ReadyFacts DEF Ready
<1>2. ASSUME NEW b \in DOMAIN all_buses_
      PROVE  \E w, n : /\ w = all_buses_[b].stops /\ w \in Seq(Stop) /\ n = Len(w) /\ n \in Nat
                       /\ DOMAIN w = 1 .. n /\ \A i \in 1 .. n : w[i] \in Stop
  <2>1. all_buses_[b].stops \in Seq(Stop)
    BY <1>1, BusFields
  <2> QED BY <2>1
<1>3. ASSUME NEW b \in DOMAIN all_buses_, all_buses_[b].name = name,
             stop \in Elements(all_buses_[b].stops)
      PROVE  stop \in CallsAt(name) \cup OnlyStandsAt(name)
  <2>1. PICK w, n : /\ w = all_buses_[b].stops /\ w \in Seq(Stop) /\ n = Len(w) /\ n \in Nat
                    /\ DOMAIN w = 1 .. n /\ \A i \in 1 .. n : w[i] \in Stop
    BY <1>2
  <2>2. PICK i \in 1 .. n : w[i] = stop
    BY <1>3, <2>1 DEF Elements
  <2>3. CASE n = 1
    <3>1. w = <<stop>>
      BY <2>1, <2>2, <2>3
    <3> QED BY <1>3, <2>1, <3>1 DEF OnlyStandsAt
  <2>4. CASE n # 1
    <3>1. \E p \in Places(b) : w[p[1]] = stop \/ w[p[2]] = stop
      <4>1. CASE i = 1
        <5>1. 1 \in 1 .. n /\ n \in 1 .. n /\ 1 < n
          <6>1. n \in Nat
            BY <2>1
          <6>2. n >= 1
            BY <6>1
          <6> QED BY <2>4, <6>1, <6>2, MoreThanOne
        <5>2. <<1, n>> \in Places(b)
          BY <2>1, <5>1 DEF Places
        <5> QED BY <2>2, <4>1, <5>2
      <4>2. CASE i # 1
        <5>1. <<1, i>> \in Places(b)
          BY <2>1, <2>2, <4>2 DEF Places
        <5> QED BY <2>2, <5>1
      <4> QED BY <4>1, <4>2
    <3>2. PICK p \in Places(b) : w[p[1]] = stop \/ w[p[2]] = stop
      BY <3>1
    <3>3. FALSE \in Directions(b) /\ Way(b, FALSE) = w
      BY <2>1 DEF Directions, Way
    <3>4. PICK e \in EdgeIds(graph_of_stops) : ~IsWait(e) /\ IsRide(e, b, FALSE, p[1], p[2])
      BY <1>1, <3>3 DEF RidesComplete
    <3>5. /\ info_about_edge[e].name_ = name
          /\ From(e) = stop_vertexs_[w[p[1]]].out
          /\ To(e) = stop_vertexs_[w[p[2]]].in
      <4>1. info_about_edge[e].name_ = all_buses_[b].name
        BY <3>4 DEF IsRide
      <4>2. From(e) = stop_vertexs_[w[p[1]]].out /\ To(e) = stop_vertexs_[w[p[2]]].in
        BY <3>3, <3>4 DEF IsRide
      <4> QED BY <1>3, <4>1, <4>2
    <3> QED BY <3>2, <3>4, <3>5 DEF CallsAt
  <2> QED BY <2>3, <2>4
<1>4. ASSUME stop \in CallsAt(name)
      PROVE  \E b \in DOMAIN all_buses_ :
               all_buses_[b].name = name /\ stop \in Elements(all_buses_[b].stops)
  <2>1. PICK e \in EdgeIds(graph_of_stops) :
          /\ ~IsWait(e) /\ info_about_edge[e].name_ = name
          /\ From(e) = stop_vertexs_[stop].out \/ To(e) = stop_vertexs_[stop].in
    BY <1>4 DEF CallsAt
  <2>2. PICK b \in DOMAIN all_buses_ : \E back \in Directions(b) :
          \E p \in Places(b) : IsRide(e, b, back, p[1], p[2])
    BY <1>1, <2>1 DEF RidesAreReal
  <2>3. PICK back \in Directions(b) : \E p \in Places(b) : IsRide(e, b, back, p[1], p[2])
    BY <2>2
  <2>4. PICK p \in Places(b) : IsRide(e, b, back, p[1], p[2])
    BY <2>3
  <2>5. PICK w, n : /\ w = all_buses_[b].stops /\ w \in Seq(Stop) /\ n = Len(w) /\ n \in Nat
                    /\ DOMAIN w = 1 .. n /\ \A i \in 1 .. n : w[i] \in Stop
    BY <1>2
  <2>6. PICK way : way = Way(b, back)
    OBVIOUS
  <2>7. /\ info_about_edge[e].name_ = all_buses_[b].name
        /\ From(e) = stop_vertexs_[way[p[1]]].out /\ To(e) = stop_vertexs_[way[p[2]]].in
    BY <2>4, <2>6 DEF IsRide
  <2>8. p[1] \in 1 .. n /\ p[2] \in 1 .. n
    BY <2>5 DEF Places
  <2>9. \A i \in 1 .. n : way[i] \in Stop /\ way[i] \in Elements(w)
    <3>1. \A i \in 1 .. n : way[i] = IF back THEN w[n + 1 - i] ELSE w[i]
      BY <2>5, <2>6 DEF Way
    <3>2. \A i \in 1 .. n : n + 1 - i \in 1 .. n
      BY <2>5
    <3> QED BY <2>5, <3>1, <3>2 DEF Elements
  <2>10. stop = way[p[1]] \/ stop = way[p[2]]
    BY <1>1, <2>1, <2>7, <2>8, <2>9
  <2> QED BY <2>1, <2>5, <2>7, <2>8, <2>9, <2>10
<1>5. ASSUME stop \in OnlyStandsAt(name)
      PROVE  \E b \in DOMAIN all_buses_ :
               all_buses_[b].name = name /\ stop \in Elements(all_buses_[b].stops)
  <2>1. PICK b \in DOMAIN all_buses_ : all_buses_[b].name = name /\ all_buses_[b].stops = <<stop>>
    BY <1>5 DEF OnlyStandsAt
  <2>2. stop \in Elements(<<stop>>)
    BY DEF Elements
  <2> QED BY <2>1, <2>2
<1> QED BY <1>3, <1>4, <1>5 DEF BusesAt

LEMMA StopAnswerAgrees ==
  ASSUME Ready, NEW stop, StopAnswer(stop, info)
  PROVE  InfoAgreesWithRides
<1>1. CASE stop \notin Stop
  <2>1. info.outcome = "no stop"
    BY <1>1 DEF StopAnswer, Info
  <2> QED BY <2>1 DEF InfoAgreesWithRides, CurvatureIsOfTheTrip
<1>2. CASE stop \in Stop
  <2>1. info = [Info(stop, "stop") EXCEPT !.buses = InOrder(BusesAt(stop))]
    BY <1>2 DEF StopAnswer, BusesAt
  <2>2. info.outcome = "stop" /\ info.asked = stop /\ info.buses = InOrder(BusesAt(stop))
    BY <2>1 DEF Info
  <2>3. PICK s : s = InOrder(BusesAt(stop))
    OBVIOUS
  <2>4. Elements(s) = BusesAt(stop) /\ \A i \in 2 .. Len(s) : s[i - 1] < s[i]
    <3>1. BusesAt(stop) \in SUBSET Nat /\ IsFiniteSet(BusesAt(stop))
      BY BusesAtFinite, ReadyFacts
    <3> QED BY <2>3, <3>1, InOrderFacts
  <2>5. \A name \in BusNames :
          name \in Elements(info.buses) <=> info.asked \in CallsAt(name) \cup OnlyStandsAt(name)
    BY <1>2, <2>2, <2>3, <2>4, BusesAtRide
  <2> QED BY <2>2, <2>3, <2>4, <2>5 DEF InfoAgreesWithRides, CurvatureIsOfTheTrip
<1> QED BY <1>1, <1>2

(* An answer is about the finished graph, which no longer changes.         *)
Answered ==
  \/ info = Info(UnknownBus, "none")
  \/ pc = "done" /\ \E name : BusAnswer(name, info)
  \/ pc = "done" /\ \E stop : StopAnswer(stop, info)

AnswersInv == RidesInv /\ Answered

LEMMA AnsweredAgrees == AnswersInv => InfoAgreesWithRides
<1> SUFFICES ASSUME AnswersInv PROVE InfoAgreesWithRides
  OBVIOUS
<1>1. CASE info = Info(UnknownBus, "none")
  <2>1. info.outcome = "none"
    BY <1>1 DEF Info
  <2> QED BY <2>1 DEF InfoAgreesWithRides, CurvatureIsOfTheTrip
<1>2. CASE pc = "done" /\ \E name : BusAnswer(name, info)
  BY <1>2, BusAnswerAgrees DEF AnswersInv, Ready
<1>3. CASE pc = "done" /\ \E stop : StopAnswer(stop, info)
  BY <1>3, StopAnswerAgrees DEF AnswersInv, Ready
<1> QED BY <1>1, <1>2, <1>3 DEF AnswersInv, Answered

(* What is answered depends on the catalogue alone.                        *)
LEMMA SameAnswers ==
  ASSUME UNCHANGED db, NEW x
  PROVE  /\ \A name : BusAnswer(name, x) => BusAnswer(name, x)'
         /\ \A stop : StopAnswer(stop, x) => StopAnswer(stop, x)'
<1>1. all_buses_' = all_buses_ /\ length_between_stops_' = length_between_stops_
  BY DEF db
<1>2. \A name : HasBus(name)' <=> HasBus(name)
  BY <1>1 DEF HasBus
<1>3. \A name : FindBus(name)' = FindBus(name)
  BY <1>1 DEF FindBus
<1>4. \A b : Legs(RoundTrip(b))' = Legs(RoundTrip(b))
  BY <1>1 DEF Legs, RoundTrip, Way, RoadBetween
<1>5. \A b, distance : SummationLineLenght(b, distance)' = SummationLineLenght(b, distance)
  BY <1>1 DEF SummationLineLenght, Way
<1>6. \A b : SummationLenght(b)' = SummationLenght(b)
  BY <1>4 DEF SummationLenght
<1>7. \A name : BusAnswer(name, x) => BusAnswer(name, x)'
  BY <1>1, <1>2, <1>3, <1>4, <1>5, <1>6 DEF BusAnswer
<1>8. \A stop : StopAnswer(stop, x) => StopAnswer(stop, x)'
  BY <1>1 DEF StopAnswer
<1> QED BY <1>7, <1>8

LEMMA AnswersStep == AnswersInv /\ [StatNext]_statVars => AnswersInv'
<1> SUFFICES ASSUME AnswersInv, [StatNext]_statVars PROVE AnswersInv'
  OBVIOUS
<1>1. RidesInv' /\ UNCHANGED db
  <2>1. [Next]_vars
    BY DEF StatNext, statVars, GetInfoBus, GetInfoStop, vars
  <2>2. UNCHANGED db
    BY <2>1 DEF Next, vars, CreateVertex, StartEdges, CreateEdge, ThrowNoLength, NextFrom,
       TurnBack, NextBus, Finish, db
  <2> QED BY <2>1, <2>2, RidesStep DEF AnswersInv
<1>2. PICK x : x = info'
  OBVIOUS
<1>3. CASE UNCHANGED info /\ pc' = pc
  <2>1. x = info
    BY <1>2, <1>3
  <2> QED BY <1>1, <1>2, <1>3, <2>1, SameAnswers DEF AnswersInv, Answered
<1>4. CASE Next /\ UNCHANGED info
  <2>1. pc # "done"
    BY <1>4 DEF Next, CreateVertex, StartEdges, CreateEdge, ThrowNoLength, NextFrom, TurnBack,
       NextBus, Finish, Riding
  <2> QED BY <1>1, <1>4, <2>1 DEF AnswersInv, Answered
<1>5. ASSUME NEW name, GetInfoBus(name) PROVE AnswersInv'
  <2>1. pc = "done" /\ BusAnswer(name, x) /\ pc' = pc
    BY <1>2, <1>5 DEF GetInfoBus, vars
  <2> QED BY <1>1, <1>2, <2>1, SameAnswers DEF AnswersInv, Answered
<1>6. ASSUME NEW stop, GetInfoStop(stop) PROVE AnswersInv'
  <2>1. pc = "done" /\ StopAnswer(stop, x) /\ pc' = pc
    BY <1>2, <1>6 DEF GetInfoStop, vars
  <2> QED BY <1>1, <1>2, <2>1, SameAnswers DEF AnswersInv, Answered
<1> QED BY <1>3, <1>4, <1>5, <1>6 DEF StatNext, statVars, vars

(* Bus and Stop requests are answered as the rides of the router are.      *)
THEOREM AnswersAgreeWithRides == StatSpec => []InfoAgreesWithRides
<1>1. StatInit => AnswersInv
  BY InitRides DEF StatInit, AnswersInv, Answered
<1>2. StatSpec => []AnswersInv
  BY <1>1, AnswersStep, PTL DEF StatSpec
<1> QED BY <1>2, AnsweredAgrees, PTL
=============================================================================
