----------------------- MODULE TransportRouterProofs -----------------------
(***************************************************************************)
(* Theorems about TransportRouter: for every catalogue the graph built of  *)
(* it is one of waits and rides that begin and end where they should, it   *)
(* has every ride of every bus, with its time, once, and it is finished    *)
(* only if no bus crosses a stretch without a length.                      *)
(***************************************************************************)
EXTENDS TransportRouter, WellFoundedInduction, TLAPS

(* The constructor does not throw between the stops p and q.               *)
Bridged(p, q) == p = q \/ {<<p, q>>, <<q, p>>} \cap DOMAIN length_between_stops_ # {}

StretchBridged(b, i) == Bridged(all_buses_[b].stops[i - 1], all_buses_[b].stops[i])

BusBridged(b) == \A i \in 2 .. Len(all_buses_[b].stops) : StretchBridged(b, i)

(* The vertices of a stop are numbered by its place.                       *)
VerticesNumbered ==
  /\ DOMAIN stop_vertexs_ = IF pc = "vertices" THEN 1 .. Len(graph_of_stops.edges) ELSE Stop
  /\ pc = "vertices" => /\ Len(graph_of_stops.edges) <= StopCount
                        /\ total_vertex = 2 * Len(graph_of_stops.edges)
  /\ \A s \in DOMAIN stop_vertexs_ :
       stop_vertexs_[s].in = 2 * s - 2 /\ stop_vertexs_[s].out = 2 * s - 1

(* The loops: the first inner loop of a bus has been over every stretch of *)
(* it before any other begins.                                             *)
LoopsInOrder ==
  /\ from_it > 0 /\ from_it < to_it /\ bus > 0
  /\ pc = "vertices" => bus = 1 /\ ~backwards /\ from_it = 1 /\ to_it = 2
  /\ pc \in {"edges", "done"} => \A b \in DOMAIN all_buses_ : b < bus => BusBridged(b)
  /\ pc = "edges" =>
       \A i \in 2 .. Len(all_buses_[bus].stops) :
         (bus \in DOMAIN all_buses_ /\ (backwards \/ from_it > 1 \/ i < to_it))
            => StretchBridged(bus, i)
  /\ pc = "done" => bus > Len(all_buses_)
  /\ pc = "thrown" => \E b \in DOMAIN all_buses_ : ~BusBridged(b)

GraphInv == TypeOK /\ VerticesNumbered /\ EdgesExplained

RInv == GraphInv /\ LoopsInOrder

(* f[k] is what the values of d after i and up to k add up to.             *)
IsSum(f, i, j, d) ==
  /\ DOMAIN f = i .. j
  /\ f[i] = 0
  /\ \A k \in i + 1 .. j : f[k] = f[k - 1] + d[k]

(* The length of every stretch of the way between the places i and j.      *)
StretchLengths(way, i, j) ==
  [k \in i + 1 .. j |-> GetLenghtBetweenStops(way[k - 1], way[k])]

(* The pairs of n places.                                                  *)
Pairs(n) == (n * (n - 1)) \div 2

(* The rides of every bus, and of the first k buses together.              *)
RideCounts ==
  [b \in DOMAIN all_buses_ |->
     (IF all_buses_[b].is_loop_trip THEN 1 ELSE 2) * Pairs(Len(all_buses_[b].stops))]

RidesOfFirst(k) == (CHOOSE f : IsSum(f, 0, Len(all_buses_), RideCounts))[k]

(* What the loops have added up since they started from from_it.           *)
TimesAddUp ==
  /\ pc = "vertices" => /\ time_to_road = 0 /\ stops_count = 0
                        /\ \A e \in EdgeIds(graph_of_stops) : IsWait(e)
  /\ Riding =>
       /\ backwards => ~all_buses_[bus].is_loop_trip
       /\ \A k \in from_it + 1 .. to_it - 1 : GetLenghtBetweenStops(Stops[k - 1], Stops[k]) \in Nat
       /\ time_to_road = RoadTime(Stops, from_it, to_it - 1)
       /\ stops_count = to_it - 1 - from_it

(* The loops have been over the ride with bus b from place i to place j.   *)
Passed(b, back, i, j) ==
  \/ b < bus
  \/ b = bus /\ \/ backwards /\ ~back
                \/ back = backwards /\ (i < from_it \/ (i = from_it /\ j < to_it))

IsMade(b, back, i, j) ==
  \E e \in EdgeIds(graph_of_stops) : ~IsWait(e) /\ IsRide(e, b, back, i, j)

RidesMade ==
  pc \in {"edges", "done"} =>
    \A b \in DOMAIN all_buses_ : \A back \in Directions(b) : \A p \in Places(b) :
      Passed(b, back, p[1], p[2]) => IsMade(b, back, p[1], p[2])

(* No other edge is there: as many as rides have been passed, and waits.   *)
RidesMadeOnce ==
  LET n == Len(all_buses_[bus].stops) IN
  /\ pc \in {"edges", "done"} /\ bus \notin DOMAIN all_buses_ =>
       /\ bus = Len(all_buses_) + 1
       /\ Len(graph_of_stops.edges) = StopCount + RidesOfFirst(bus - 1)
  /\ Riding =>
       /\ from_it <= n \/ from_it = 1
       /\ to_it <= n + 1 \/ to_it = from_it + 1
       /\ Len(graph_of_stops.edges)
            = StopCount + RidesOfFirst(bus - 1) + (IF backwards THEN Pairs(n) ELSE 0)
                + Pairs(n) - Pairs(n - from_it + 1) + (to_it - 1 - from_it)

(* All of the above, which is inductive.                                   *)
RidesInv ==
  RInv /\ TimesAddUp /\ RidesAreReal /\ RidesMade /\ RidesMadeOnce

-----------------------------------------------------------------------------
LEMMA LengthOrNone ==
  ASSUME IsDatabase, NEW p \in Stop, NEW q \in Stop
  PROVE  IF Bridged(p, q) THEN GetLenghtBetweenStops(p, q) \in Nat
                          ELSE GetLenghtBetweenStops(p, q) = NoLength
<1>1. \A pair \in DOMAIN length_between_stops_ : length_between_stops_[pair] \in Nat
  BY DEF IsDatabase
<1>2. {<<p, q>>, <<q, p>>} \cap DOMAIN length_between_stops_ # {}
        <=> <<p, q>> \in DOMAIN length_between_stops_ \/ <<q, p>> \in DOMAIN length_between_stops_
  OBVIOUS
<1> QED BY <1>1, <1>2 DEF Bridged, GetLenghtBetweenStops

LEMMA SequenceFacts ==
  ASSUME NEW S, NEW list \in Seq(S)
  PROVE  /\ Len(list) \in Nat /\ DOMAIN list = 1 .. Len(list)
         /\ \A k \in 1 .. Len(list) : list[k] \in S
OBVIOUS

LEMMA AppendFacts ==
  ASSUME NEW S, NEW list \in Seq(S), NEW e \in S
  PROVE  /\ Append(list, e) \in Seq(S) /\ DOMAIN Append(list, e) = 1 .. Len(list) + 1
         /\ Append(list, e)[Len(list) + 1] = e
         /\ \A k \in 1 .. Len(list) : Append(list, e)[k] = list[k]
OBVIOUS

(* What AddEdge of the graph returns is a graph.                           *)
LEMMA AddEdgeKeeps ==
  ASSUME NEW n \in Nat, NEW g, IsGraph(g, n), NEW e \in Edge(n, Int)
  PROVE  /\ IsGraph(AddEdge(g, e), n)
         /\ AddEdge(g, e).edges = Append(g.edges, e)
         /\ g.edges \in Seq(Edge(n, Int))
<1> DEFINE m == Len(g.edges)
           lists == g.incidence_lists
           v == e.from
           es == Append(g.edges, e)
           new == [lists EXCEPT ![v] = Append(@, m + 1)]
<1>1. /\ g.edges \in Seq(Edge(n, Int)) /\ m \in Nat /\ DOMAIN g.edges = 1 .. m
      /\ lists \in [0 .. n - 1 -> Seq(1 .. m)]
      /\ \A u \in 0 .. n - 1 :
           /\ \A i \in 1 .. m : g.edges[i].from = u <=> \E k \in DOMAIN lists[u] : lists[u][k] = i
           /\ \A i, j \in DOMAIN lists[u] : i < j => lists[u][i] < lists[u][j]
  <2>1. g.edges \in Seq(Edge(n, Int))
    BY DEF IsGraph
  <2>2. m \in Nat /\ DOMAIN g.edges = 1 .. m
    BY <2>1, SequenceFacts, Zenon
  <2>3. /\ lists \in [0 .. n - 1 -> Seq(DOMAIN g.edges)]
        /\ \A u \in 0 .. n - 1 :
             /\ \A i \in DOMAIN g.edges :
                  g.edges[i].from = u <=> \E k \in DOMAIN lists[u] : lists[u][k] = i
             /\ \A i, j \in DOMAIN lists[u] : i < j => lists[u][i] < lists[u][j]
    BY Zenon DEF IsGraph
  <2> HIDE DEF m, lists
  <2>4. lists \in [0 .. n - 1 -> Seq(1 .. m)]
    BY <2>2, <2>3
  <2>5. \A u \in 0 .. n - 1 : \A i \in 1 .. m :
          g.edges[i].from = u <=> \E k \in DOMAIN lists[u] : lists[u][k] = i
    <3>1. PICK D : D = DOMAIN g.edges
      OBVIOUS
    <3>2. \A u \in 0 .. n - 1 : \A i \in D :
            g.edges[i].from = u <=> \E k \in DOMAIN lists[u] : lists[u][k] = i
      BY <2>3, <3>1
    <3> QED BY <2>2, <3>1, <3>2
  <2> QED BY <2>1, <2>2, <2>3, <2>4, <2>5
<1>2. v \in 0 .. n - 1
  BY DEF Edge
<1>3. /\ es \in Seq(Edge(n, Int))
      /\ DOMAIN es = 1 .. m + 1
      /\ es[m + 1].from = v
      /\ \A i \in 1 .. m : es[i] = g.edges[i]
  BY <1>1
<1>4. /\ AddEdge(g, e).edges = es
      /\ AddEdge(g, e).incidence_lists = new
      /\ DOMAIN AddEdge(g, e) = {"edges", "incidence_lists"}
  BY DEF AddEdge
<1> HIDE DEF m, lists, v, es
<1>5. ASSUME NEW u \in 0 .. n - 1
      PROVE  /\ new[u] \in Seq(1 .. m + 1)
             /\ \A i \in 1 .. m + 1 :
                  es[i].from = u <=> \E k \in DOMAIN new[u] : new[u][k] = i
             /\ \A i, j \in DOMAIN new[u] : i < j => new[u][i] < new[u][j]
  <2> DEFINE list == lists[u]
             l == Len(list)
  <2>1. /\ list \in Seq(1 .. m) /\ l \in Nat /\ DOMAIN list = 1 .. l
        /\ \A k \in 1 .. l : list[k] \in 1 .. m
        /\ \A i \in 1 .. m : g.edges[i].from = u <=> \E k \in 1 .. l : list[k] = i
        /\ \A i, j \in 1 .. l : i < j => list[i] < list[j]
    <3>1. lists[u] \in Seq(1 .. m)
      BY <1>1
    <3>2. l \in Nat /\ DOMAIN list = 1 .. l /\ \A k \in 1 .. l : list[k] \in 1 .. m
      BY <3>1, SequenceFacts, Zenon
    <3>3. /\ \A i \in 1 .. m : g.edges[i].from = u <=> \E k \in DOMAIN list : list[k] = i
          /\ \A i, j \in DOMAIN list : i < j => list[i] < list[j]
      BY <1>1, Zenon
    <3> HIDE DEF l, list
    <3>4. \A i \in 1 .. m : g.edges[i].from = u <=> \E k \in 1 .. l : list[k] = i
      BY <3>2, <3>3, Zenon
    <3>5. \A i, j \in 1 .. l : i < j => list[i] < list[j]
      BY <3>2, <3>3, Zenon
    <3>6. list \in Seq(1 .. m)
      BY <3>1 DEF list
    <3> QED BY <3>2, <3>4, <3>5, <3>6, Zenon
  <2>2. CASE u = v
    <3>1. new[u] = Append(list, m + 1)
      BY <1>1, <1>2, <2>2
    <3>2. list \in Seq(1 .. m + 1)
      BY <1>1, <2>1
    <3> HIDE DEF list, new
    <3>3. /\ new[u] \in Seq(1 .. m + 1) /\ DOMAIN new[u] = 1 .. l + 1
          /\ new[u][l + 1] = m + 1 /\ \A k \in 1 .. l : new[u][k] = list[k]
      <4>1. m + 1 \in 1 .. m + 1
        BY <1>1
      <4>2. /\ Append(list, m + 1) \in Seq(1 .. m + 1)
            /\ DOMAIN Append(list, m + 1) = 1 .. l + 1
            /\ Append(list, m + 1)[l + 1] = m + 1
            /\ \A k \in 1 .. l : Append(list, m + 1)[k] = list[k]
        BY <3>2, <4>1, AppendFacts
      <4> HIDE DEF l
      <4> QED BY <3>1, <4>2
    <3>4. ASSUME NEW i \in 1 .. m + 1
          PROVE  es[i].from = u <=> \E k \in 1 .. l + 1 : new[u][k] = i
      <4> HIDE DEF l
      <4>1. CASE i = m + 1
        BY <1>3, <2>1, <2>2, <3>3, <4>1
      <4>2. CASE i # m + 1
        <5>1. i \in 1 .. m /\ es[i] = g.edges[i]
          BY <1>1, <1>3, <4>2
        <5>2. ASSUME NEW k \in 1 .. l, list[k] = i
              PROVE  \E o \in 1 .. l + 1 : new[u][o] = i
          <6>1. k \in 1 .. l + 1
            BY <2>1
          <6> QED BY <3>3, <5>2, <6>1, Zenon
        <5>3. ASSUME NEW k \in 1 .. l + 1, new[u][k] = i
              PROVE  \E o \in 1 .. l : list[o] = i
          <6>1. k # l + 1
            BY <3>3, <4>2, <5>3
          <6>2. k \in 1 .. l
            BY <2>1, <6>1
          <6> QED BY <3>3, <5>3, <6>2
        <5> QED BY <2>1, <5>1, <5>2, <5>3
      <4> QED BY <4>1, <4>2
    <3>5. ASSUME NEW i \in 1 .. l + 1, NEW j \in 1 .. l + 1, i < j
          PROVE  new[u][i] < new[u][j]
      <4> HIDE DEF l
      <4>1. i \in 1 .. l /\ new[u][i] = list[i] /\ list[i] \in 1 .. m
        BY <2>1, <3>3, <3>5
      <4>2. CASE j = l + 1
        BY <1>1, <3>3, <4>1, <4>2
      <4>3. CASE j # l + 1
        <5>1. j \in 1 .. l
          BY <2>1, <4>3
        <5> QED BY <2>1, <3>3, <3>5, <4>1, <5>1
      <4> QED BY <4>2, <4>3
    <3> QED BY <3>3, <3>4, <3>5
  <2>3. CASE u # v
    <3>1. new[u] = list
      BY <1>1, <1>2, <2>3
    <3> HIDE DEF list, new
    <3>2. new[u] \in Seq(1 .. m + 1)
      BY <1>1, <2>1, <3>1
    <3>3. ASSUME NEW i \in 1 .. m + 1
          PROVE  es[i].from = u <=> \E k \in 1 .. l : list[k] = i
      <4>1. CASE i = m + 1
        BY <1>1, <1>3, <2>1, <2>3, <4>1
      <4>2. CASE i # m + 1
        <5>1. i \in 1 .. m /\ es[i] = g.edges[i]
          BY <1>1, <1>3, <4>2
        <5> HIDE DEF l
        <5> QED BY <2>1, <5>1
      <4> QED BY <4>1, <4>2
    <3> QED BY <2>1, <3>1, <3>2, <3>3
  <2> QED BY <2>2, <2>3
<1>6. new \in [0 .. n - 1 -> Seq(1 .. m + 1)]
  <2>1. DOMAIN new = 0 .. n - 1
    BY <1>1
  <2>2. new = [u \in 0 .. n - 1 |-> new[u]]
    BY <1>1
  <2> HIDE DEF new
  <2> QED BY <1>5, <2>1, <2>2
<1> HIDE DEF new
<1> DEFINE G == AddEdge(g, e)
<1>7. /\ DOMAIN G = {"edges", "incidence_lists"} /\ G.edges = es /\ G.incidence_lists = new
      /\ DOMAIN G.edges = 1 .. m + 1
  BY <1>3, <1>4 DEF es
<1> HIDE DEF G
<1>8. IsGraph(G, n)
  BY <1>3, <1>5, <1>6, <1>7 DEF IsGraph
<1> QED BY <1>1, <1>7, <1>8 DEF G, es

Description == [name_ : BusNames \cup Stop, weight_ : Nat, span_count_ : Nat \cup {NoSpan}]

(* One more edge, with its description, beside those that were there.      *)
OneMore(f, t, w, name, span, m) ==
  /\ IsGraph(graph_of_stops', VertexCount) /\ m \in Nat
  /\ info_about_edge' \in [1 .. m + 1 -> Description]
  /\ EdgeIds(graph_of_stops) = 1 .. m /\ EdgeIds(graph_of_stops') = 1 .. m + 1
  /\ Len(graph_of_stops'.edges) = m + 1
  /\ info_about_edge'[m + 1] = [name_ |-> name, weight_ |-> w, span_count_ |-> span]
  /\ graph_of_stops'.edges[m + 1] = [from |-> f, to |-> t, weight |-> w]
  /\ \A e \in 1 .. m : /\ info_about_edge'[e] = info_about_edge[e]
                       /\ graph_of_stops'.edges[e] = graph_of_stops.edges[e]

LEMMA EdgeAdded ==
  ASSUME TypeOK, EdgesExplained,
         NEW f \in 0 .. VertexCount - 1, NEW t \in 0 .. VertexCount - 1, NEW w \in Nat,
         NEW name \in BusNames \cup Stop, NEW span \in Nat \cup {NoSpan},
         AddEdgeWithInfo(f, t, w, name, span),
         NEW m, m = Len(graph_of_stops.edges)
  PROVE  OneMore(f, t, w, name, span, m)
<1> USE TransportRouterAssumption
<1> DEFINE edge == [from |-> f, to |-> t, weight |-> w]
           es == graph_of_stops.edges
           info == [name_ |-> name, weight_ |-> w, span_count_ |-> span]
<1>1. VertexCount \in Nat /\ edge \in Edge(VertexCount, Int) /\ info \in Description
  BY DEF VertexCount, Edge, Description
<1>2. IsGraph(graph_of_stops, VertexCount) /\ graph_of_stops' = AddEdge(graph_of_stops, edge)
  BY DEF TypeOK, AddEdgeWithInfo
<1> HIDE DEF edge
<1>3. /\ IsGraph(graph_of_stops', VertexCount)
      /\ graph_of_stops'.edges = Append(es, edge) /\ es \in Seq(Edge(VertexCount, Int))
  BY <1>1, <1>2, AddEdgeKeeps
<1>4. /\ m \in Nat /\ DOMAIN es = 1 .. m /\ DOMAIN Append(es, edge) = 1 .. m + 1
      /\ Append(es, edge)[m + 1] = edge /\ Len(Append(es, edge)) = m + 1
      /\ \A e \in 1 .. m : Append(es, edge)[e] = es[e]
  BY <1>1, <1>3
<1>5. DOMAIN info_about_edge = 1 .. m /\ info_about_edge \in [1 .. m -> Description]
  BY <1>4 DEF TypeOK, EdgesExplained, EdgeIds, Description
<1>6. /\ info_about_edge' = Assign(info_about_edge, m + 1, info)
      /\ (1 .. m) \cup {m + 1} = 1 .. m + 1
  BY <1>4, <1>5 DEF AddEdgeWithInfo, Insert
<1> HIDE DEF info
<1>7. info_about_edge' = [e \in 1 .. m + 1 |-> IF e = m + 1 THEN info ELSE info_about_edge[e]]
  BY <1>5, <1>6 DEF Assign
<1>8. info_about_edge' \in [1 .. m + 1 -> Description]
  BY <1>1, <1>4, <1>5, <1>7
<1>9. info_about_edge'[m + 1] = info /\ \A e \in 1 .. m : info_about_edge'[e] = info_about_edge[e]
  BY <1>4, <1>7
<1> QED BY <1>3, <1>4, <1>8, <1>9 DEF EdgeIds, edge, info, OneMore

LEMMA InitKeeps == Init => RInv
<1> SUFFICES ASSUME Init PROVE RInv
  OBVIOUS
<1> USE TransportRouterAssumption
<1>1. /\ graph_of_stops.edges = << >> /\ EdgeIds(graph_of_stops) = {}
      /\ Len(graph_of_stops.edges) = 0 /\ DOMAIN stop_vertexs_ = {} /\ DOMAIN info_about_edge = {}
      /\ 1 .. 0 = {}
  BY DEF Init, EmptyGraph, EdgeIds
<1>2. IsGraph(graph_of_stops, VertexCount)
  <2> DEFINE g == EmptyGraph(VertexCount)
  <2>1. /\ g.edges = << >> /\ DOMAIN g = {"edges", "incidence_lists"} /\ DOMAIN g.edges = {}
        /\ g.incidence_lists = [v \in 0 .. VertexCount - 1 |-> << >>]
    BY DEF EmptyGraph
  <2>2. /\ g.edges \in Seq(Edge(VertexCount, Int))
        /\ g.incidence_lists \in [0 .. VertexCount - 1 -> Seq(DOMAIN g.edges)]
    BY <2>1
  <2>3. \A v \in 0 .. VertexCount - 1 : g.incidence_lists[v] = << >> /\ DOMAIN << >> = {}
    BY <2>1
  <2> HIDE DEF g
  <2>4. IsGraph(g, VertexCount)
    BY <2>1, <2>2, <2>3 DEF IsGraph
  <2> QED BY <2>4 DEF Init, g
<1>3. TypeOK
  <2>1. \A S : << >> \in [{} -> S]
    OBVIOUS
  <2>2. /\ stop_vertexs_ \in [{} -> [in : Nat, out : Nat]]
        /\ info_about_edge \in [{} -> Description]
    BY <2>1 DEF Init
  <2> QED BY <1>1, <1>2, <2>2 DEF Init, TypeOK, Description
<1>4. VerticesNumbered /\ EdgesExplained
  BY <1>1 DEF Init, VerticesNumbered, EdgesExplained
<1>5. LoopsInOrder
  BY DEF Init, LoopsInOrder
<1> QED BY <1>3, <1>4, <1>5 DEF RInv, GraphInv

(* Vertices of different stops differ, and no in vertex is an out vertex.  *)
LEMMA NumbersDiffer ==
  ASSUME VerticesNumbered, TypeOK, NEW a \in DOMAIN stop_vertexs_, NEW b \in DOMAIN stop_vertexs_
  PROVE  /\ stop_vertexs_[a].in # stop_vertexs_[b].out
         /\ a # b => /\ stop_vertexs_[a].in # stop_vertexs_[b].in
                     /\ stop_vertexs_[a].out # stop_vertexs_[b].out
<1>1. a \in Int /\ b \in Int
  BY TransportRouterAssumption DEF TypeOK, Stop
<1>2. /\ stop_vertexs_[a].in = 2 * a - 2 /\ stop_vertexs_[a].out = 2 * a - 1
      /\ stop_vertexs_[b].in = 2 * b - 2 /\ stop_vertexs_[b].out = 2 * b - 1
  BY DEF VerticesNumbered
<1> QED BY <1>1, <1>2

(* The edge that a new pair of vertices gets.                              *)
LEMMA WaitAdded ==
  ASSUME RInv, CreateVertex, NEW m, m = Len(graph_of_stops.edges)
  PROVE  \E v \in Nat : /\ v = total_vertex
                        /\ OneMore(v, v + 1, WaitTime, m + 1, NoSpan, m)
<1> USE TransportRouterAssumption
<1>1. /\ TypeOK /\ VerticesNumbered /\ EdgesExplained /\ pc = "vertices" /\ m + 1 \in Stop
      /\ AddEdgeWithInfo(total_vertex, total_vertex + 1, WaitTime, m + 1, NoSpan)
  BY DEF RInv, GraphInv, CreateVertex
<1>2. m \in Nat /\ total_vertex = 2 * m
  BY <1>1 DEF VerticesNumbered, TypeOK, IsGraph
<1>3. PICK v, t, stop : v = total_vertex /\ t = v + 1 /\ stop = m + 1
  OBVIOUS
<1>4. v \in 0 .. VertexCount - 1 /\ t \in 0 .. VertexCount - 1 /\ v \in Nat
  BY <1>1, <1>2, <1>3 DEF Stop, VertexCount
<1>5. AddEdgeWithInfo(v, t, WaitTime, stop, NoSpan) /\ stop \in BusNames \cup Stop
  BY <1>1, <1>3
<1>6. OneMore(v, t, WaitTime, stop, NoSpan, m)
  <2>1. WaitTime \in Nat /\ NoSpan \in Nat \cup {NoSpan}
    OBVIOUS
  <2> QED BY <1>1, <1>4, <1>5, <2>1, EdgeAdded
<1> QED BY <1>3, <1>4, <1>6

LEMMA CreateVertexKeeps == RInv /\ CreateVertex => RInv'
<1> SUFFICES ASSUME RInv, CreateVertex PROVE RInv'
  OBVIOUS
<1> USE TransportRouterAssumption
<1>1. PICK m : m = Len(graph_of_stops.edges)
  OBVIOUS
<1>2. /\ TypeOK /\ VerticesNumbered /\ EdgesExplained /\ LoopsInOrder
      /\ pc = "vertices" /\ pc' = pc /\ m + 1 \in Stop
      /\ AddEdgeWithInfo(total_vertex, total_vertex + 1, WaitTime, m + 1, NoSpan)
      /\ stop_vertexs_' = Assign(stop_vertexs_, m + 1,
                                 [in |-> total_vertex, out |-> total_vertex + 1])
      /\ total_vertex' = total_vertex + 2
      /\ UNCHANGED <<db, bus, backwards, inner>>
  BY <1>1 DEF RInv, GraphInv, CreateVertex
<1>3. /\ DOMAIN stop_vertexs_ = 1 .. m /\ total_vertex = 2 * m
      /\ \A s \in 1 .. m : /\ stop_vertexs_[s].in = 2 * s - 2
                           /\ stop_vertexs_[s].out = 2 * s - 1
      /\ stop_vertexs_ \in [1 .. m -> [in : Nat, out : Nat]]
  BY <1>1, <1>2 DEF VerticesNumbered, TypeOK
<1>4. m \in Nat
  BY <1>1, <1>2 DEF TypeOK, IsGraph
<1>5. PICK v : v \in Nat /\ v = total_vertex /\ OneMore(v, v + 1, WaitTime, m + 1, NoSpan, m)
  BY <1>1, WaitAdded
<1>6. v \in Nat
  BY <1>5
<1>7. /\ IsGraph(graph_of_stops', VertexCount)
      /\ info_about_edge' \in [1 .. m + 1 -> Description]
      /\ EdgeIds(graph_of_stops) = 1 .. m /\ EdgeIds(graph_of_stops') = 1 .. m + 1
      /\ Len(graph_of_stops'.edges) = m + 1
      /\ info_about_edge'[m + 1] = [name_ |-> m + 1, weight_ |-> WaitTime, span_count_ |-> NoSpan]
      /\ graph_of_stops'.edges[m + 1] = [from |-> v, to |-> v + 1, weight |-> WaitTime]
      /\ \A e \in 1 .. m : /\ info_about_edge'[e] = info_about_edge[e]
                           /\ graph_of_stops'.edges[e] = graph_of_stops.edges[e]
  BY <1>5 DEF OneMore
<1> DEFINE r == [in |-> v, out |-> v + 1]
<1>8. (1 .. m) \cup {m + 1} = 1 .. m + 1 /\ m + 1 \notin 1 .. m
  BY <1>4
<1>9. stop_vertexs_' = [s \in 1 .. m + 1 |-> IF s = m + 1 THEN r ELSE stop_vertexs_[s]]
  BY <1>2, <1>3, <1>5, <1>8 DEF Assign
<1>10. /\ stop_vertexs_'[m + 1] = r
       /\ \A s \in 1 .. m : stop_vertexs_'[s] = stop_vertexs_[s]
       /\ DOMAIN stop_vertexs_' = 1 .. m + 1
  BY <1>4, <1>9
<1>11. stop_vertexs_' \in [DOMAIN stop_vertexs_' -> [in : Nat, out : Nat]]
  BY <1>3, <1>6, <1>8, <1>9
<1>12. TypeOK'
  <2>1. DOMAIN stop_vertexs_' \subseteq Stop
    BY <1>2, <1>4, <1>10 DEF Stop
  <2>2. total_vertex' \in Nat
    BY <1>2, <1>5, <1>6
  <2> QED BY <1>2, <1>7, <1>11, <2>1, <2>2 DEF TypeOK, Description, db, inner, IsDatabase
<1>13. VerticesNumbered'
  <2>1. \A s \in 1 .. m + 1 : /\ stop_vertexs_'[s].in = 2 * s - 2
                              /\ stop_vertexs_'[s].out = 2 * s - 1
    <3> SUFFICES ASSUME NEW s \in 1 .. m + 1
                 PROVE  /\ stop_vertexs_'[s].in = 2 * s - 2
                        /\ stop_vertexs_'[s].out = 2 * s - 1
      OBVIOUS
    <3>1. CASE s = m + 1
      BY <1>3, <1>4, <1>5, <1>10, <3>1
    <3>2. CASE s # m + 1
      BY <1>3, <1>4, <1>10, <3>2
    <3> QED BY <3>1, <3>2
  <2>2. m + 1 <= StopCount /\ total_vertex' = 2 * (m + 1)
    BY <1>2, <1>3, <1>4 DEF Stop
  <2> QED BY <1>2, <1>7, <1>10, <2>1, <2>2 DEF VerticesNumbered
<1>14. EdgesExplained'
  <2>1. ASSUME NEW e \in 1 .. m + 1
        PROVE  (/\ info_about_edge[e].weight_ = graph_of_stops.edges[e].weight
                /\ IF IsWait(e)
                     THEN /\ info_about_edge[e].name_ \in DOMAIN stop_vertexs_
                          /\ From(e) = stop_vertexs_[info_about_edge[e].name_].in
                          /\ To(e) = stop_vertexs_[info_about_edge[e].name_].out
                     ELSE \E a, b \in DOMAIN stop_vertexs_ :
                            From(e) = stop_vertexs_[a].out /\ To(e) = stop_vertexs_[b].in)'
    <3>1. CASE e = m + 1
      BY <1>7, <1>10, <3>1 DEF IsWait, From, To
    <3>2. CASE e # m + 1
      <4>1. e \in 1 .. m
        BY <1>4, <3>2
      <4>2. /\ info_about_edge[e].weight_ = graph_of_stops.edges[e].weight
            /\ IF IsWait(e)
                 THEN /\ info_about_edge[e].name_ \in 1 .. m
                      /\ From(e) = stop_vertexs_[info_about_edge[e].name_].in
                      /\ To(e) = stop_vertexs_[info_about_edge[e].name_].out
                 ELSE \E a, b \in 1 .. m :
                        From(e) = stop_vertexs_[a].out /\ To(e) = stop_vertexs_[b].in
        <5>1. EdgesExplained /\ e \in EdgeIds(graph_of_stops) /\ DOMAIN stop_vertexs_ = 1 .. m
          BY <1>2, <1>3, <1>7, <4>1
        <5>2. /\ info_about_edge[e].weight_ = graph_of_stops.edges[e].weight
              /\ IF IsWait(e)
                   THEN /\ info_about_edge[e].name_ \in DOMAIN stop_vertexs_
                        /\ From(e) = stop_vertexs_[info_about_edge[e].name_].in
                        /\ To(e) = stop_vertexs_[info_about_edge[e].name_].out
                   ELSE \E a, b \in DOMAIN stop_vertexs_ :
                          From(e) = stop_vertexs_[a].out /\ To(e) = stop_vertexs_[b].in
          BY <5>1, Zenon DEF EdgesExplained
        <5> QED BY <5>1, <5>2
      <4>3. /\ From(e)' = From(e) /\ To(e)' = To(e) /\ IsWait(e)' = IsWait(e)
            /\ info_about_edge'[e] = info_about_edge[e]
            /\ graph_of_stops'.edges[e] = graph_of_stops.edges[e]
        BY <1>7, <4>1 DEF IsWait, From, To
      <4>4. /\ \A s \in 1 .. m : s \in DOMAIN stop_vertexs_'
            /\ \A s \in 1 .. m : stop_vertexs_'[s] = stop_vertexs_[s]
        BY <1>4, <1>10
      <4>5. CASE IsWait(e)
        BY <4>2, <4>3, <4>4, <4>5
      <4>6. CASE ~IsWait(e)
        BY <4>2, <4>3, <4>4, <4>6
      <4> QED BY <4>5, <4>6
    <3> QED BY <3>1, <3>2
  <2>2. \A a, b \in DOMAIN stop_vertexs_' :
           /\ stop_vertexs_'[a].in # stop_vertexs_'[b].out
           /\ a # b => /\ stop_vertexs_'[a].in # stop_vertexs_'[b].in
                       /\ stop_vertexs_'[a].out # stop_vertexs_'[b].out
    <3>1. \A s \in 1 .. m + 1 : /\ stop_vertexs_'[s].in = 2 * s - 2
                                /\ stop_vertexs_'[s].out = 2 * s - 1
      BY <1>2, <1>10, <1>13 DEF VerticesNumbered
    <3> QED BY <1>4, <1>10, <3>1
  <2>3. DOMAIN info_about_edge' = 1 .. m + 1
    BY <1>7
  <2> QED BY <1>7, <2>1, <2>2, <2>3 DEF EdgesExplained
<1>15. LoopsInOrder'
  BY <1>2 DEF LoopsInOrder, db, inner
<1> QED BY <1>12, <1>13, <1>14, <1>15 DEF RInv, GraphInv

LEMMA BusFields ==
  ASSUME IsDatabase, NEW b \in DOMAIN all_buses_
  PROVE  all_buses_[b].name \in BusNames /\ all_buses_[b].stops \in Seq(Stop)
<1>1. all_buses_ \in Seq(Bus)
  BY DEF IsDatabase
<1>2. all_buses_[b] \in Bus
  BY <1>1
<1> QED BY <1>2 DEF Bus

(* The way back of a bus has the stretches of the way there.               *)
LEMMA WayStretches ==
  ASSUME IsDatabase, NEW b \in DOMAIN all_buses_, NEW back \in BOOLEAN,
         NEW n, n = Len(all_buses_[b].stops), NEW way, way = Way(b, back)
  PROVE  /\ n \in Nat /\ Len(way) = n /\ DOMAIN way = 1 .. n
         /\ \A i \in 1 .. n : way[i] \in Stop
         /\ \A i \in 2 .. n :
              Bridged(way[i - 1], way[i]) <=> StretchBridged(b, IF back THEN n + 2 - i ELSE i)
<1> DEFINE stops == all_buses_[b].stops
<1>1. stops \in Seq(Stop)
  BY BusFields
<1> HIDE DEF stops
<1>2. n \in Nat /\ n = Len(stops) /\ DOMAIN stops = 1 .. n /\ \A i \in 1 .. n : stops[i] \in Stop
  BY <1>1 DEF stops
<1>3. \A i : StretchBridged(b, i) <=> Bridged(stops[i - 1], stops[i])
  BY DEF StretchBridged, stops
<1>4. CASE ~back
  <2>1. way = stops
    BY <1>4 DEF Way, stops
  <2> QED BY <1>2, <1>3, <1>4, <2>1
<1>5. CASE back
  <2>1. way = [i \in 1 .. n |-> stops[n + 1 - i]]
    BY <1>2, <1>5 DEF Way, stops
  <2>2. \A i \in 1 .. n : n + 1 - i \in 1 .. n
    BY <1>2
  <2>3. way \in [1 .. n -> Stop] /\ \A i \in 1 .. n : way[i] = stops[n + 1 - i]
    BY <1>2, <2>1, <2>2
  <2>4. way \in Seq(Stop) /\ Len(way) = n
    BY <1>2, <2>3
  <2>5. ASSUME NEW i \in 2 .. n
        PROVE  Bridged(way[i - 1], way[i]) <=> StretchBridged(b, n + 2 - i)
    <3>1. /\ i \in 1 .. n /\ i - 1 \in 1 .. n
          /\ n + 1 - i = (n + 2 - i) - 1 /\ n + 1 - (i - 1) = n + 2 - i
      BY <1>2
    <3>2. way[i] = stops[(n + 2 - i) - 1] /\ way[i - 1] = stops[n + 2 - i]
      BY <2>3, <3>1
    <3>3. \A x, y : Bridged(x, y) <=> Bridged(y, x)
      BY DEF Bridged
    <3> QED BY <1>3, <3>2, <3>3
  <2> QED BY <1>2, <1>5, <2>3, <2>4, <2>5
<1> QED BY <1>4, <1>5

(* What a step has before it while a bus is ridden.                        *)
LEMMA RidingFacts ==
  ASSUME RInv, Riding, to_it <= Len(Stops), NEW n, n = Len(all_buses_[bus].stops)
  PROVE  /\ n \in Nat /\ from_it \in 1 .. n /\ to_it \in 2 .. n
         /\ Stops[from_it] \in Stop /\ Stops[to_it] \in Stop /\ Stops[to_it - 1] \in Stop
         /\ IF StretchBridged(bus, IF backwards THEN n + 2 - to_it ELSE to_it)
              THEN NextLength \in Nat ELSE NextLength = NoLength
<1>1. /\ IsDatabase /\ bus \in DOMAIN all_buses_ /\ backwards \in BOOLEAN
      /\ from_it \in Nat /\ to_it \in Nat /\ from_it > 0 /\ from_it < to_it
  BY DEF RInv, GraphInv, TypeOK, LoopsInOrder, Riding
<1>2. PICK way : way = Stops
  OBVIOUS
<1>3. /\ n \in Nat /\ Len(way) = n /\ \A i \in 1 .. n : way[i] \in Stop
      /\ \A i \in 2 .. n : Bridged(way[i - 1], way[i])
              <=> StretchBridged(bus, IF backwards THEN n + 2 - i ELSE i)
  BY <1>1, <1>2, WayStretches DEF Stops
<1>4. from_it \in 1 .. n /\ to_it \in 2 .. n /\ to_it \in 1 .. n /\ to_it - 1 \in 1 .. n
  BY <1>1, <1>2, <1>3
<1>5. way[from_it] \in Stop /\ way[to_it] \in Stop /\ way[to_it - 1] \in Stop
  BY <1>3, <1>4
<1>6. PICK p, q : p = way[to_it - 1] /\ q = way[to_it]
  OBVIOUS
<1>7. IF Bridged(p, q) THEN GetLenghtBetweenStops(p, q) \in Nat
                       ELSE GetLenghtBetweenStops(p, q) = NoLength
  BY <1>1, <1>5, <1>6, LengthOrNone
<1>8. NextLength = GetLenghtBetweenStops(p, q)
  BY <1>2, <1>6 DEF NextLength
<1>9. Bridged(p, q) <=> StretchBridged(bus, IF backwards THEN n + 2 - to_it ELSE to_it)
  BY <1>3, <1>4, <1>6
<1> QED BY <1>2, <1>3, <1>4, <1>5, <1>7, <1>8, <1>9

LEMMA StretchesStay ==
  ASSUME UNCHANGED db
  PROVE  \A b : /\ BusBridged(b)' <=> BusBridged(b)
                /\ \A i : StretchBridged(b, i)' <=> StretchBridged(b, i)
BY DEF BusBridged, StretchBridged, Bridged, db

(* When an inner loop is over, every stretch of the bus has been crossed.  *)
LEMMA LoopOver ==
  ASSUME RInv, Riding, to_it > Len(Stops)
  PROVE  BusBridged(bus)
<1>1. IsDatabase /\ bus \in DOMAIN all_buses_ /\ backwards \in BOOLEAN /\ to_it \in Nat
  BY DEF RInv, GraphInv, TypeOK, Riding
<1>2. PICK n : n = Len(all_buses_[bus].stops)
  OBVIOUS
<1>3. n \in Nat /\ Len(Stops) = n
  BY <1>1, <1>2, WayStretches DEF Stops
<1>4. \A i \in 2 .. n : i < to_it => StretchBridged(bus, i)
  BY <1>1, <1>2 DEF RInv, LoopsInOrder, Riding
<1> QED BY <1>1, <1>2, <1>3, <1>4 DEF BusBridged

(* The edge that a ride gets.                                              *)
LEMMA RideAdded ==
  ASSUME RInv, CreateEdge, NEW m, m = Len(graph_of_stops.edges), NEW w, w = time_to_road',
         NEW span, span = stops_count'
  PROVE  /\ OneMore(stop_vertexs_[Stops[from_it]].out, stop_vertexs_[Stops[to_it]].in,
                    w, all_buses_[bus].name, span, m)
         /\ NextLength \in Nat
<1> USE TransportRouterAssumption
<1>1. PICK n, f, t, name :
        /\ n = Len(all_buses_[bus].stops) /\ name = all_buses_[bus].name
        /\ f = stop_vertexs_[Stops[from_it]].out /\ t = stop_vertexs_[Stops[to_it]].in
  OBVIOUS
<1>2. /\ TypeOK /\ VerticesNumbered /\ EdgesExplained /\ Riding /\ pc = "edges"
      /\ bus \in DOMAIN all_buses_ /\ to_it <= Len(Stops) /\ NextLength # NoLength
      /\ w = time_to_road + NextLength /\ span = stops_count + 1
      /\ AddEdgeWithInfo(f, t, w, name, span)
  BY <1>1 DEF RInv, GraphInv, CreateEdge, Riding
<1>3. /\ Stops[from_it] \in Stop /\ Stops[to_it] \in Stop
      /\ IF StretchBridged(bus, IF backwards THEN n + 2 - to_it ELSE to_it)
           THEN NextLength \in Nat ELSE NextLength = NoLength
  BY <1>1, <1>2, RidingFacts
<1>4. NextLength \in Nat /\ w \in Nat /\ span \in Nat
  <2>1. NextLength \in Nat
    BY <1>2, <1>3
  <2>2. time_to_road \in Nat /\ stops_count \in Nat
    BY <1>2 DEF TypeOK
  <2> QED BY <1>2, <2>1, <2>2
<1>5. PICK a \in Stop, b \in Stop : a = Stops[from_it] /\ b = Stops[to_it]
  BY <1>3
<1>6. f = 2 * a - 1 /\ t = 2 * b - 2
  BY <1>1, <1>2, <1>5 DEF VerticesNumbered
<1>7. f \in 0 .. VertexCount - 1 /\ t \in 0 .. VertexCount - 1
  BY <1>6 DEF Stop, VertexCount
<1>8. name \in BusNames \cup Stop /\ span \in Nat \cup {NoSpan}
  BY <1>1, <1>2, <1>4, BusFields DEF TypeOK
<1>9. OneMore(f, t, w, name, span, m)
  BY <1>2, <1>4, <1>7, <1>8, EdgeAdded
<1> QED BY <1>1, <1>4, <1>9

LEMMA CreateEdgeKeeps == RInv /\ CreateEdge => RInv'
<1> SUFFICES ASSUME RInv, CreateEdge PROVE RInv'
  OBVIOUS
<1> USE TransportRouterAssumption
<1>1. PICK m, n, w, span :
        /\ m = Len(graph_of_stops.edges) /\ n = Len(all_buses_[bus].stops)
        /\ w = time_to_road + NextLength /\ span = stops_count + 1
  OBVIOUS
<1>2. PICK f, t, name :
        /\ f = stop_vertexs_[Stops[from_it]].out /\ t = stop_vertexs_[Stops[to_it]].in
        /\ name = all_buses_[bus].name
  OBVIOUS
<1>3. /\ TypeOK /\ VerticesNumbered /\ EdgesExplained /\ LoopsInOrder
      /\ Riding /\ pc = "edges" /\ pc' = pc /\ to_it <= Len(Stops) /\ NextLength # NoLength
      /\ bus \in DOMAIN all_buses_
      /\ time_to_road' = w /\ stops_count' = span /\ to_it' = to_it + 1
      /\ UNCHANGED <<db, total_vertex, stop_vertexs_, bus, backwards, from_it>>
  BY <1>1 DEF RInv, GraphInv, CreateEdge, Riding
<1>5. /\ n \in Nat /\ from_it \in 1 .. n /\ to_it \in 2 .. n
      /\ Stops[from_it] \in Stop /\ Stops[to_it] \in Stop
      /\ IF StretchBridged(bus, IF backwards THEN n + 2 - to_it ELSE to_it)
           THEN NextLength \in Nat ELSE NextLength = NoLength
  BY <1>1, <1>3, RidingFacts
<1>6. w \in Nat /\ span \in Nat
  <2>1. NextLength \in Nat
    BY <1>3, <1>5
  <2>2. time_to_road \in Nat /\ stops_count \in Nat
    BY <1>3 DEF TypeOK
  <2> QED BY <1>1, <2>1, <2>2
<1>7. PICK a \in Stop, b \in Stop : a = Stops[from_it] /\ b = Stops[to_it]
  BY <1>5
<1>8. /\ a \in DOMAIN stop_vertexs_ /\ b \in DOMAIN stop_vertexs_ /\ DOMAIN stop_vertexs_ = Stop
      /\ f = stop_vertexs_[a].out /\ t = stop_vertexs_[b].in /\ f = 2 * a - 1 /\ t = 2 * b - 2
  BY <1>2, <1>3, <1>7 DEF VerticesNumbered
<1>11. OneMore(f, t, w, name, span, m)
  BY <1>1, <1>2, <1>3, RideAdded
<1>12. /\ IsGraph(graph_of_stops', VertexCount) /\ m \in Nat
       /\ info_about_edge' \in [1 .. m + 1 -> Description]
       /\ EdgeIds(graph_of_stops) = 1 .. m /\ EdgeIds(graph_of_stops') = 1 .. m + 1
       /\ info_about_edge'[m + 1] = [name_ |-> name, weight_ |-> w, span_count_ |-> span]
       /\ graph_of_stops'.edges[m + 1] = [from |-> f, to |-> t, weight |-> w]
       /\ \A e \in 1 .. m : /\ info_about_edge'[e] = info_about_edge[e]
                            /\ graph_of_stops'.edges[e] = graph_of_stops.edges[e]
  BY <1>11 DEF OneMore
<1>13. TypeOK'
  <2>1. to_it' \in Nat /\ DOMAIN info_about_edge' = 1 .. m + 1
    BY <1>3, <1>12 DEF TypeOK
  <2> QED BY <1>3, <1>6, <1>12, <2>1 DEF TypeOK, Description, db, IsDatabase
<1>14. VerticesNumbered'
  BY <1>3 DEF VerticesNumbered
<1>15. EdgesExplained'
  <2>1. ASSUME NEW e \in 1 .. m + 1
        PROVE  (/\ info_about_edge[e].weight_ = graph_of_stops.edges[e].weight
                /\ IF IsWait(e)
                     THEN /\ info_about_edge[e].name_ \in DOMAIN stop_vertexs_
                          /\ From(e) = stop_vertexs_[info_about_edge[e].name_].in
                          /\ To(e) = stop_vertexs_[info_about_edge[e].name_].out
                     ELSE \E x, y \in DOMAIN stop_vertexs_ :
                            From(e) = stop_vertexs_[x].out /\ To(e) = stop_vertexs_[y].in)'
    <3>1. CASE e = m + 1
      <4>1. /\ From(e)' = f /\ To(e)' = t /\ ~IsWait(e)'
            /\ info_about_edge'[e].weight_ = graph_of_stops'.edges[e].weight
        BY <1>6, <1>12, <3>1 DEF IsWait, From, To
      <4> QED BY <1>3, <1>8, <4>1
    <3>2. CASE e # m + 1
      <4>1. e \in 1 .. m
        BY <1>12, <3>2
      <4>2. /\ From(e)' = From(e) /\ To(e)' = To(e) /\ IsWait(e)' = IsWait(e)
            /\ info_about_edge'[e] = info_about_edge[e]
            /\ graph_of_stops'.edges[e] = graph_of_stops.edges[e]
        BY <1>12, <4>1 DEF IsWait, From, To
      <4>3. /\ info_about_edge[e].weight_ = graph_of_stops.edges[e].weight
            /\ IF IsWait(e)
                 THEN /\ info_about_edge[e].name_ \in DOMAIN stop_vertexs_
                      /\ From(e) = stop_vertexs_[info_about_edge[e].name_].in
                      /\ To(e) = stop_vertexs_[info_about_edge[e].name_].out
                 ELSE \E x, y \in DOMAIN stop_vertexs_ :
                        From(e) = stop_vertexs_[x].out /\ To(e) = stop_vertexs_[y].in
        BY <1>3, <1>12, <4>1 DEF EdgesExplained
      <4>4. CASE IsWait(e)
        BY <1>3, <4>2, <4>3, <4>4
      <4>5. CASE ~IsWait(e)
        BY <1>3, <4>2, <4>3, <4>5
      <4> QED BY <4>4, <4>5
    <3> QED BY <3>1, <3>2
  <2>2. DOMAIN info_about_edge' = 1 .. m + 1
    BY <1>12
  <2> QED BY <1>3, <1>12, <2>1, <2>2 DEF EdgesExplained
<1>16. LoopsInOrder'
  <2>1. \A b1 : /\ BusBridged(b1)' <=> BusBridged(b1)
                /\ \A i : StretchBridged(b1, i)' <=> StretchBridged(b1, i)
    BY <1>3, StretchesStay
  <2>2. from_it > 0 /\ from_it < to_it' /\ bus > 0
    BY <1>3 DEF LoopsInOrder, TypeOK
  <2>3. ASSUME NEW i \in 2 .. n, backwards \/ from_it > 1 \/ i < to_it + 1
        PROVE  StretchBridged(bus, i)
    <3>1. backwards \/ from_it > 1 \/ i < to_it => StretchBridged(bus, i)
      BY <1>1, <1>3 DEF LoopsInOrder
    <3>2. ~backwards => StretchBridged(bus, to_it)
      BY <1>3, <1>5
    <3>3. i < to_it + 1 => i < to_it \/ i = to_it
      BY <1>5
    <3> QED BY <2>3, <3>1, <3>2, <3>3
  <2> QED BY <1>1, <1>3, <2>1, <2>2, <2>3 DEF LoopsInOrder, db
<1> QED BY <1>13, <1>14, <1>15, <1>16 DEF RInv, GraphInv

(* A step of the loops alone leaves the graph as it was.                   *)
LEMMA GraphStays ==
  ASSUME GraphInv, UNCHANGED <<db, built>>, pc = "vertices" <=> pc' = "vertices",
         pc' \in {"vertices", "edges", "done", "thrown"},
         bus' \in Nat, backwards' \in BOOLEAN, from_it' \in Nat, to_it' \in Nat,
         time_to_road' \in Nat, stops_count' \in Nat
  PROVE  GraphInv'
<1>1. UNCHANGED <<all_buses_, length_between_stops_, graph_of_stops, total_vertex,
                  stop_vertexs_, info_about_edge>>
  BY DEF db, built
<1>2. TypeOK'
  BY <1>1 DEF GraphInv, TypeOK, IsDatabase
<1>3. VerticesNumbered'
  BY <1>1 DEF GraphInv, VerticesNumbered
<1>4. EdgesExplained'
  BY <1>1 DEF GraphInv, EdgesExplained, IsWait, From, To
<1> QED BY <1>2, <1>3, <1>4 DEF GraphInv

LEMMA StartEdgesKeeps == RInv /\ StartEdges => RInv'
<1> SUFFICES ASSUME RInv, StartEdges PROVE RInv'
  OBVIOUS
<1>1. /\ TypeOK /\ VerticesNumbered /\ EdgesExplained /\ LoopsInOrder
      /\ pc = "vertices" /\ pc' = "edges" /\ Len(graph_of_stops.edges) = StopCount
      /\ UNCHANGED <<db, built, bus, backwards, inner>>
  BY DEF RInv, GraphInv, StartEdges
<1>2. TypeOK'
  BY <1>1 DEF TypeOK, IsDatabase, db, built, inner
<1>3. VerticesNumbered'
  BY <1>1 DEF VerticesNumbered, built, Stop
<1>4. EdgesExplained'
  BY <1>1 DEF EdgesExplained, IsWait, From, To, built
<1>5. LoopsInOrder'
  <2>1. bus = 1 /\ ~backwards /\ from_it = 1 /\ to_it = 2
    BY <1>1 DEF LoopsInOrder
  <2>2. \A i : i \in 2 .. Len(all_buses_[1].stops) => ~(i < 2)
    OBVIOUS
  <2>3. \A b \in DOMAIN all_buses_ : ~(b < 1)
    BY <1>1 DEF TypeOK, IsDatabase
  <2> QED BY <1>1, <2>1, <2>2, <2>3 DEF LoopsInOrder, db, inner
<1> QED BY <1>2, <1>3, <1>4, <1>5 DEF RInv, GraphInv

LEMMA ThrowKeeps == RInv /\ ThrowNoLength => RInv'
<1> SUFFICES ASSUME RInv, ThrowNoLength PROVE RInv'
  OBVIOUS
<1> USE TransportRouterAssumption
<1>1. /\ GraphInv /\ TypeOK /\ LoopsInOrder /\ Riding /\ pc = "edges" /\ bus \in DOMAIN all_buses_
      /\ to_it <= Len(Stops) /\ NextLength = NoLength /\ pc' = "thrown"
      /\ UNCHANGED <<db, built, bus, backwards, inner>>
  BY DEF RInv, GraphInv, ThrowNoLength, Riding
<1>2. GraphInv'
  <2>1. /\ bus' \in Nat /\ backwards' \in BOOLEAN /\ from_it' \in Nat /\ to_it' \in Nat
        /\ time_to_road' \in Nat /\ stops_count' \in Nat
    BY <1>1 DEF TypeOK, inner
  <2> QED BY <1>1, <2>1, GraphStays
<1>3. PICK n : n = Len(all_buses_[bus].stops)
  OBVIOUS
<1>4. /\ n \in Nat /\ to_it \in 2 .. n
      /\ IF StretchBridged(bus, IF backwards THEN n + 2 - to_it ELSE to_it)
           THEN NextLength \in Nat ELSE NextLength = NoLength
  BY <1>1, <1>3, RidingFacts
<1>5. PICK i : i = IF backwards THEN n + 2 - to_it ELSE to_it
  OBVIOUS
<1>6. i \in 2 .. n /\ ~StretchBridged(bus, i)
  BY <1>1, <1>4, <1>5
<1>7. ~BusBridged(bus)
  BY <1>3, <1>6 DEF BusBridged
<1>8. LoopsInOrder'
  <2>1. \A b : BusBridged(b)' <=> BusBridged(b)
    BY <1>1, StretchesStay
  <2> QED BY <1>1, <1>7, <2>1 DEF LoopsInOrder, db, inner
<1> QED BY <1>2, <1>8 DEF RInv

(* The steps that end an inner loop.                                       *)
LEMMA LoopEndKeeps ==
  ASSUME RInv, Riding, to_it > Len(Stops), NEW f \in Nat \ {0}, StartFrom(f),
         UNCHANGED <<db, built, pc>>, NEW b, b = bus', NEW back \in BOOLEAN, back = backwards',
         (b = bus /\ (back \/ f > 1)) \/ (b = bus + 1 /\ ~back /\ f = 1)
  PROVE  RInv'
<1>1. /\ GraphInv /\ TypeOK /\ LoopsInOrder /\ pc = "edges" /\ bus \in DOMAIN all_buses_
      /\ bus \in Nat /\ bus > 0 /\ pc' = "edges"
      /\ from_it' = f /\ to_it' = f + 1 /\ time_to_road' = 0 /\ stops_count' = 0
      /\ all_buses_' = all_buses_ /\ UNCHANGED db /\ UNCHANGED <<db, built>>
  BY DEF RInv, GraphInv, TypeOK, LoopsInOrder, Riding, StartFrom, db
<1>2. b \in Nat /\ b > 0
  BY <1>1
<1>3. GraphInv'
  <2>1. /\ bus' \in Nat /\ backwards' \in BOOLEAN /\ from_it' \in Nat /\ to_it' \in Nat
        /\ time_to_road' \in Nat /\ stops_count' \in Nat
    BY <1>1, <1>2
  <2> QED BY <1>1, <2>1, GraphStays
<1>4. BusBridged(bus)
  BY LoopOver
<1>5. \A x : /\ BusBridged(x)' <=> BusBridged(x)
             /\ \A i : StretchBridged(x, i)' <=> StretchBridged(x, i)
  BY <1>1, StretchesStay
<1>6. \A x \in DOMAIN all_buses_ : x < b => BusBridged(x)
  <2> SUFFICES ASSUME NEW x \in DOMAIN all_buses_, x < b PROVE BusBridged(x)
    OBVIOUS
  <2>1. x \in Nat
    BY <1>1 DEF TypeOK, IsDatabase
  <2>2. x < bus \/ x = bus
    BY <1>1, <2>1
  <2>3. x < bus => BusBridged(x)
    BY <1>1 DEF LoopsInOrder
  <2> QED BY <1>4, <2>2, <2>3
<1>7. ASSUME NEW i \in 2 .. Len(all_buses_[b].stops), back \/ f > 1 \/ i < f + 1
      PROVE  StretchBridged(b, i)
  <2>1. ~(b = bus + 1 /\ ~back /\ f = 1)
    BY <1>7
  <2>2. b = bus
    BY <2>1
  <2> QED BY <1>4, <2>2 DEF BusBridged
<1>8. LoopsInOrder'
  <2>1. /\ from_it' > 0 /\ from_it' < to_it' /\ bus' > 0
    BY <1>1, <1>2
  <2> QED BY <1>1, <1>5, <1>6, <1>7, <2>1 DEF LoopsInOrder
<1> QED BY <1>3, <1>8 DEF RInv

LEMMA FinishKeeps == RInv /\ Finish => RInv'
<1> SUFFICES ASSUME RInv, Finish PROVE RInv'
  OBVIOUS
<1>1. /\ GraphInv /\ TypeOK /\ LoopsInOrder /\ pc = "edges" /\ pc' = "done"
      /\ bus > Len(all_buses_) /\ UNCHANGED <<db, built, bus, backwards, inner>>
  BY DEF RInv, GraphInv, Finish
<1>2. GraphInv'
  <2>1. /\ bus' \in Nat /\ backwards' \in BOOLEAN /\ from_it' \in Nat /\ to_it' \in Nat
        /\ time_to_road' \in Nat /\ stops_count' \in Nat
    BY <1>1 DEF TypeOK, inner
  <2> QED BY <1>1, <2>1, GraphStays
<1>3. LoopsInOrder'
  <2>1. \A b : BusBridged(b)' <=> BusBridged(b)
    BY <1>1, StretchesStay
  <2> QED BY <1>1, <2>1 DEF LoopsInOrder, db, inner
<1> QED BY <1>2, <1>3 DEF RInv

LEMMA RStepKeeps == RInv /\ [Next]_vars => RInv'
<1> SUFFICES ASSUME RInv, [Next]_vars PROVE RInv'
  OBVIOUS
<1>1. from_it \in Nat /\ from_it > 0 /\ backwards \in BOOLEAN
  BY DEF RInv, GraphInv, TypeOK, LoopsInOrder
<1>2. CASE CreateVertex
  BY <1>2, CreateVertexKeeps
<1>3. CASE StartEdges
  BY <1>3, StartEdgesKeeps
<1>4. CASE CreateEdge
  BY <1>4, CreateEdgeKeeps
<1>5. CASE ThrowNoLength
  BY <1>5, ThrowKeeps
<1>6. CASE NextFrom
  <2>1. PICK f, b, back : f = from_it + 1 /\ b = bus' /\ back = backwards'
    OBVIOUS
  <2>2. /\ Riding /\ to_it > Len(Stops) /\ StartFrom(f) /\ UNCHANGED <<db, built, pc>>
        /\ b = bus /\ back = backwards /\ back \in BOOLEAN
    BY <1>1, <1>6, <2>1 DEF NextFrom
  <2>3. f \in Nat \ {0} /\ f > 1
    BY <1>1, <2>1
  <2>4. (b = bus /\ (back \/ f > 1)) \/ (b = bus + 1 /\ ~back /\ f = 1)
    BY <2>2, <2>3
  <2> QED BY <2>1, <2>2, <2>3, <2>4, LoopEndKeeps
<1>7. CASE TurnBack
  <2>1. PICK f, b, back : f = 1 /\ b = bus' /\ back = backwards'
    OBVIOUS
  <2>2. /\ Riding /\ to_it > Len(Stops) /\ StartFrom(f) /\ UNCHANGED <<db, built, pc>>
        /\ b = bus /\ back = TRUE /\ back \in BOOLEAN
    BY <1>7, <2>1 DEF TurnBack
  <2>3. f \in Nat \ {0} /\ f = 1
    BY <1>1, <2>1
  <2>4. (b = bus /\ (back \/ f > 1)) \/ (b = bus + 1 /\ ~back /\ f = 1)
    BY <2>2, <2>3
  <2> QED BY <2>1, <2>2, <2>3, <2>4, LoopEndKeeps
<1>8. CASE NextBus
  <2>1. PICK f, b, back : f = 1 /\ b = bus' /\ back = backwards'
    OBVIOUS
  <2>2. /\ Riding /\ to_it > Len(Stops) /\ StartFrom(f) /\ UNCHANGED <<db, built, pc>>
        /\ b = bus + 1 /\ back = FALSE /\ back \in BOOLEAN
    BY <1>8, <2>1 DEF NextBus
  <2>3. f \in Nat \ {0} /\ f = 1
    BY <1>1, <2>1
  <2>4. (b = bus /\ (back \/ f > 1)) \/ (b = bus + 1 /\ ~back /\ f = 1)
    BY <2>2, <2>3
  <2> QED BY <2>1, <2>2, <2>3, <2>4, LoopEndKeeps
<1>9. CASE Finish
  BY <1>9, FinishKeeps
<1>10. CASE UNCHANGED vars
  <2>1. /\ UNCHANGED <<db, built, pc, bus, backwards, inner>>
        /\ from_it' = from_it /\ to_it' = to_it /\ time_to_road' = time_to_road
        /\ stops_count' = stops_count /\ GraphInv /\ TypeOK /\ LoopsInOrder
    BY <1>10 DEF vars, inner, RInv, GraphInv
  <2>2. GraphInv'
    <3>1. /\ bus' \in Nat /\ backwards' \in BOOLEAN /\ from_it' \in Nat /\ to_it' \in Nat
          /\ time_to_road' \in Nat /\ stops_count' \in Nat
          /\ pc' \in {"vertices", "edges", "done", "thrown"}
      BY <2>1 DEF TypeOK
    <3> QED BY <2>1, <3>1, GraphStays
  <2>3. \A b : /\ BusBridged(b)' <=> BusBridged(b)
               /\ \A i : StretchBridged(b, i)' <=> StretchBridged(b, i)
    BY <2>1, StretchesStay
  <2>4. LoopsInOrder'
    BY <2>1, <2>3 DEF LoopsInOrder, db
  <2> QED BY <2>2, <2>4 DEF RInv
<1> QED BY <1>2, <1>3, <1>4, <1>5, <1>6, <1>7, <1>8, <1>9, <1>10 DEF Next

LEMMA GraphInvariant == Spec => []RInv
BY InitKeeps, RStepKeeps, PTL DEF Spec

(* The graph, its incidence lists and the descriptions of its edges are    *)
(* well-typed for every catalogue.                                         *)
THEOREM GraphTypeOK == Spec => []TypeOK
<1>1. RInv => TypeOK
  BY DEF RInv, GraphInv
<1> QED BY GraphInvariant, <1>1, PTL

(* Every edge is a wait at a stop or a ride from behind the wait at one    *)
(* stop to before the wait at another, as its description says.            *)
THEOREM EveryEdgeExplained == Spec => []EdgesExplained
<1>1. RInv => EdgesExplained
  BY DEF RInv, GraphInv
<1> QED BY GraphInvariant, <1>1, PTL

(* The constructor throws exactly if some bus crosses a stretch without a  *)
(* length.                                                                 *)
THEOREM ThrowsExactlyForAGap == Spec => []ThrowsForAGap
<1>1. RInv => ThrowsForAGap
  <2> SUFFICES ASSUME RInv PROVE ThrowsForAGap
    OBVIOUS
  <2> DEFINE Gap(b, i) ==
               LET p == all_buses_[b].stops[i - 1]
                   q == all_buses_[b].stops[i]
               IN p # q /\ {<<p, q>>, <<q, p>>} \cap DOMAIN length_between_stops_ = {}
  <2>1. \A b, i : Gap(b, i) <=> ~StretchBridged(b, i)
    BY DEF StretchBridged, Bridged
  <2>2. pc = "done" => \A b \in DOMAIN all_buses_ : BusBridged(b)
    BY DEF RInv, GraphInv, TypeOK, IsDatabase, LoopsInOrder
  <2>3. pc = "thrown" => \E b \in DOMAIN all_buses_ : ~BusBridged(b)
    BY DEF RInv, LoopsInOrder
  <2>4. \A b : BusBridged(b) <=> ~\E i \in 2 .. Len(all_buses_[b].stops) : Gap(b, i)
    <3> HIDE DEF Gap
    <3> QED BY <2>1 DEF BusBridged
  <2>5. ThrowsForAGap <=>
          /\ pc = "done" => ~\E b \in DOMAIN all_buses_ :
                               \E i \in 2 .. Len(all_buses_[b].stops) : Gap(b, i)
          /\ pc = "thrown" => \E b \in DOMAIN all_buses_ :
                               \E i \in 2 .. Len(all_buses_[b].stops) : Gap(b, i)
    BY DEF ThrowsForAGap
  <2> HIDE DEF Gap
  <2> QED BY <2>2, <2>3, <2>4, <2>5
<1> QED BY GraphInvariant, <1>1, PTL

-----------------------------------------------------------------------------
(* A set of natural numbers that is not empty has a least element.         *)
LEMMA LeastNat ==
  ASSUME NEW T \in SUBSET Nat, T # {}
  PROVE  \E x \in T : \A y \in T : x <= y
<1> DEFINE R == {ss \in Nat \X Nat : ss[1] < ss[2]}
<1>1. IsWellFoundedOn(R, Nat)
  BY NatLessThanWellFounded DEF OpToRel
<1>2. PICK x \in T : \A y \in T : ~ (<<y, x>> \in R)
  <2> HIDE DEF R
  <2> QED BY <1>1, WFMin
<1>3. \A y \in T : y \in Nat /\ x \in Nat /\ ~(y < x)
  BY <1>2
<1> QED BY <1>3

LEMMA SumExists ==
  ASSUME NEW i \in Int, NEW j \in Int, i <= j, NEW d, \A k \in i + 1 .. j : d[k] \in Nat
  PROVE  \E f \in [i .. j -> Nat] : IsSum(f, i, j, d)
<1> DEFINE Summed(n) == \E f \in [i .. n -> Nat] : IsSum(f, i, n, d)
           T == {n \in Nat : i + n <= j /\ ~Summed(i + n)}
<1>1. ASSUME T # {} PROVE FALSE
  <2>1. PICK x \in T : \A y \in T : x <= y
    <3> HIDE DEF T
    <3>1. T \in SUBSET Nat
      BY DEF T
    <3> QED BY <1>1, <3>1, LeastNat
  <2>2. x \in Nat /\ i + x <= j /\ ~Summed(i + x)
    BY <2>1
  <2>3. x # 0
    <3>1. SUFFICES ASSUME x = 0 PROVE FALSE
      OBVIOUS
    <3>2. [k \in i .. i |-> 0] \in [i .. i -> Nat] /\ IsSum([k \in i .. i |-> 0], i, i, d)
      BY DEF IsSum
    <3>3. i + x = i
      BY <3>1
    <3> QED BY <2>2, <3>2, <3>3
  <2>4. Summed(i + (x - 1))
    <3>1. x - 1 \notin T /\ x - 1 \in Nat /\ i + (x - 1) <= j
      <4> HIDE DEF T
      <4> QED BY <2>1, <2>2, <2>3
    <3> HIDE DEF Summed
    <3> QED BY <3>1
  <2> DEFINE n == i + x
  <2>5. PICK f \in [i .. n - 1 -> Nat] : IsSum(f, i, n - 1, d)
    <3>1. i + (x - 1) = n - 1
      BY <2>2
    <3> QED BY <2>4, <3>1
  <2>6. n \in Int /\ i < n /\ n <= j /\ d[n] \in Nat /\ f[n - 1] \in Nat
    BY <2>2, <2>3
  <2> HIDE DEF n
  <2> DEFINE g == [k \in i .. n |-> IF k = n THEN f[n - 1] + d[n] ELSE f[k]]
  <2>7. g \in [i .. n -> Nat]
    BY <2>6
  <2>8. g[n] = f[n - 1] + d[n] /\ \A k \in i .. n - 1 : g[k] = f[k]
    BY <2>6
  <2>9. ASSUME NEW k \in i + 1 .. n PROVE g[k] = g[k - 1] + d[k]
    <3> HIDE DEF g
    <3>1. CASE k = n
      BY <2>6, <2>8, <3>1
    <3>2. CASE k # n
      BY <2>5, <2>6, <2>8, <3>2 DEF IsSum
    <3> QED BY <3>1, <3>2
  <2>10. IsSum(g, i, n, d)
    <3>1. DOMAIN g = i .. n
      OBVIOUS
    <3> HIDE DEF g
    <3>2. g[i] = 0
      BY <2>5, <2>6, <2>8 DEF IsSum
    <3> QED BY <2>9, <3>1, <3>2 DEF IsSum
  <2>11. Summed(n)
    <3> HIDE DEF g
    <3> QED BY <2>7, <2>10
  <2> QED BY <2>2, <2>11 DEF n
<1>2. j - i \in Nat /\ i + (j - i) = j
  OBVIOUS
<1>3. j - i \notin T
  BY <1>1
<1> QED BY <1>2, <1>3

(* Sums of the same agree as far as both go.                               *)
LEMMA SumsAgree ==
  ASSUME NEW i \in Int, NEW j \in Int, NEW l \in Int, i <= j, j <= l,
         NEW d, NEW f, NEW g, IsSum(f, i, j, d), IsSum(g, i, l, d)
  PROVE  f[j] = g[j]
<1> DEFINE T == {n \in Nat : i + n <= j /\ f[i + n] # g[i + n]}
<1>1. ASSUME T # {} PROVE FALSE
  <2>1. PICK x \in T : \A y \in T : x <= y
    <3> HIDE DEF T
    <3>1. T \in SUBSET Nat
      BY DEF T
    <3> QED BY <1>1, <3>1, LeastNat
  <2>2. x \in Nat /\ i + x <= j /\ f[i + x] # g[i + x]
    BY <2>1
  <2>3. x # 0
    BY <2>2 DEF IsSum
  <2>4. f[i + (x - 1)] = g[i + (x - 1)]
    <3>1. x - 1 \notin T /\ x - 1 \in Nat /\ i + (x - 1) <= j
      <4> HIDE DEF T
      <4> QED BY <2>1, <2>2, <2>3
    <3> QED BY <3>1
  <2>5. i + x \in i + 1 .. j /\ i + x \in i + 1 .. l /\ (i + x) - 1 = i + (x - 1)
    BY <2>2, <2>3
  <2> QED BY <2>2, <2>4, <2>5 DEF IsSum
<1>2. j - i \in Nat /\ i + (j - i) = j
  OBVIOUS
<1>3. j - i \notin T
  BY <1>1
<1> QED BY <1>2, <1>3

(* The last value is added to the sum of those before it.                  *)
LEMMA SumGrows ==
  ASSUME NEW i \in Int, NEW j \in Int, i < j, NEW c, NEW d, NEW f, NEW g,
         IsSum(f, i, j, d), IsSum(g, i, j - 1, c), \A k \in i + 1 .. j - 1 : c[k] = d[k]
  PROVE  f[j] = g[j - 1] + d[j]
<1>1. PICK o \in Int : o = j - 1
  OBVIOUS
<1>2. i <= o /\ o <= j
  BY <1>1
<1>3. IsSum(g, i, o, d)
  BY <1>1 DEF IsSum
<1>4. g[o] = f[o]
  BY <1>2, <1>3, SumsAgree
<1> QED BY <1>1, <1>4 DEF IsSum

LEMMA RoadTimeIsSum ==
  ASSUME NEW way, NEW i \in Int, NEW j \in Int, i <= j,
         \A k \in i + 1 .. j : GetLenghtBetweenStops(way[k - 1], way[k]) \in Nat
  PROVE  \E f \in [i .. j -> Nat] : /\ IsSum(f, i, j, StretchLengths(way, i, j))
                                    /\ RoadTime(way, i, j) = f[j]
<1> DEFINE d == StretchLengths(way, i, j)
           Adds(f) == f = [k \in i .. j |->
             IF k = i THEN 0 ELSE f[k - 1] + GetLenghtBetweenStops(way[k - 1], way[k])]
<1>1. \A k \in i + 1 .. j : d[k] = GetLenghtBetweenStops(way[k - 1], way[k])
  BY DEF StretchLengths
<1>2. \A k \in i + 1 .. j : d[k] \in Nat
  BY <1>1
<1> HIDE DEF d
<1>3. ASSUME NEW f, Adds(f) PROVE IsSum(f, i, j, d)
  <2>1. DOMAIN f = i .. j
    BY <1>3
  <2>2. f[i] = 0
    BY <1>3
  <2>3. ASSUME NEW k \in i + 1 .. j PROVE f[k] = f[k - 1] + d[k]
    <3>1. k \in i .. j /\ k # i
      OBVIOUS
    <3> QED BY <1>1, <1>3, <3>1
  <2> QED BY <2>1, <2>2, <2>3 DEF IsSum
<1>4. ASSUME NEW f \in [i .. j -> Nat], IsSum(f, i, j, d) PROVE Adds(f)
  <2>1. ASSUME NEW k \in i .. j
        PROVE  f[k] = IF k = i THEN 0 ELSE f[k - 1] + GetLenghtBetweenStops(way[k - 1], way[k])
    <3>1. CASE k = i
      BY <1>4, <3>1 DEF IsSum
    <3>2. CASE k # i
      <4>1. k \in i + 1 .. j
        BY <3>2
      <4> QED BY <1>1, <1>4, <3>2, <4>1 DEF IsSum
    <3> QED BY <3>1, <3>2
  <2> QED BY <2>1
<1>5. PICK g \in [i .. j -> Nat] : IsSum(g, i, j, d)
  BY <1>2, SumExists
<1>6. RoadTime(way, i, j) = (CHOOSE f : Adds(f))[j]
  BY DEF RoadTime
<1>7. Adds(g)
  BY <1>4, <1>5
<1> HIDE DEF Adds
<1>8. PICK f : f = CHOOSE h : Adds(h)
  OBVIOUS
<1>9. Adds(f)
  BY <1>7, <1>8, Zenon
<1>10. IsSum(f, i, j, d)
  BY <1>3, <1>9
<1>11. \A k \in i .. j : f[k] = g[k]
  <2>1. ASSUME NEW k \in i .. j PROVE f[k] = g[k]
    <3> DEFINE h == [o \in i .. k |-> g[o]]
    <3>1. k \in Int /\ i <= k /\ k <= j
      OBVIOUS
    <3>2. IsSum(h, i, k, d) /\ h[k] = g[k]
      BY <1>5 DEF IsSum
    <3> HIDE DEF h
    <3> QED BY <1>10, <3>1, <3>2, SumsAgree
  <2> QED BY <2>1
<1>12. f \in [i .. j -> Nat]
  <2>1. f = [k \in i .. j |-> f[k]]
    BY <1>9 DEF Adds
  <2> QED BY <1>5, <1>11, <2>1
<1> QED BY <1>6, <1>8, <1>10, <1>12 DEF d

LEMMA RoadGrows ==
  ASSUME NEW way, NEW i \in Int, NEW j \in Int, i < j,
         \A k \in i + 1 .. j : GetLenghtBetweenStops(way[k - 1], way[k]) \in Nat
  PROVE  RoadTime(way, i, j) = RoadTime(way, i, j - 1) + GetLenghtBetweenStops(way[j - 1], way[j])
<1>1. PICK c, d : c = StretchLengths(way, i, j - 1) /\ d = StretchLengths(way, i, j)
  OBVIOUS
<1>2. PICK f : IsSum(f, i, j, d) /\ RoadTime(way, i, j) = f[j]
  BY <1>1, RoadTimeIsSum
<1>3. PICK g : IsSum(g, i, j - 1, c) /\ RoadTime(way, i, j - 1) = g[j - 1]
  <2>1. PICK o \in Int : o = j - 1
    OBVIOUS
  <2>2. \A k \in i + 1 .. o : GetLenghtBetweenStops(way[k - 1], way[k]) \in Nat
    BY <2>1
  <2>3. i <= o
    BY <2>1
  <2>4. PICK g \in [i .. o -> Nat] : IsSum(g, i, o, StretchLengths(way, i, o)) /\ RoadTime(way, i, o) = g[o]
    BY <2>2, <2>3, RoadTimeIsSum
  <2> QED BY <1>1, <2>1, <2>4
<1>4. \A k \in i + 1 .. j - 1 : c[k] = d[k]
  BY <1>1 DEF StretchLengths
<1>5. d[j] = GetLenghtBetweenStops(way[j - 1], way[j])
  BY <1>1 DEF StretchLengths
<1>6. f[j] = g[j - 1] + d[j]
  BY <1>2, <1>3, <1>4, SumGrows
<1> QED BY <1>2, <1>3, <1>5, <1>6

(* The time of no road, and of one stretch more.                           *)
LEMMA RoadTimes ==
  ASSUME NEW way, NEW i \in Int, NEW j \in Int, i <= j,
         \A k \in i + 1 .. j : GetLenghtBetweenStops(way[k - 1], way[k]) \in Nat
  PROVE  /\ RoadTime(way, i, j) \in Nat
         /\ i = j => RoadTime(way, i, j) = 0
         /\ i < j => RoadTime(way, i, j)
                       = RoadTime(way, i, j - 1) + GetLenghtBetweenStops(way[j - 1], way[j])
<1>1. PICK f \in [i .. j -> Nat] : /\ IsSum(f, i, j, StretchLengths(way, i, j))
                                   /\ RoadTime(way, i, j) = f[j]
  BY RoadTimeIsSum
<1>2. RoadTime(way, i, j) \in Nat /\ (i = j => RoadTime(way, i, j) = 0)
  BY <1>1 DEF IsSum
<1> QED BY <1>2, RoadGrows

-----------------------------------------------------------------------------
LEMMA PairsGrow ==
  ASSUME NEW n \in Nat
  PROVE  Pairs(n) \in Nat /\ Pairs(n + 1) = Pairs(n) + n /\ Pairs(0) = 0 /\ Pairs(1) = 0
<1>1. PICK k \in Nat : n = 2 * k \/ n = 2 * k + 1
  <2>1. n \div 2 \in Nat /\ (n = 2 * (n \div 2) \/ n = 2 * (n \div 2) + 1)
    OBVIOUS
  <2> QED BY <2>1
<1>2. PICK q \in Nat : q = k * k
  OBVIOUS
<1>3. q >= k
  BY <1>2
<1>4. CASE n = 2 * k
  <2>1. n * (n - 1) = 2 * (2 * q - k) /\ (n + 1) * ((n + 1) - 1) = 2 * (2 * q + k)
    BY <1>2, <1>4
  <2>2. \A x \in Int : (2 * x) \div 2 = x
    OBVIOUS
  <2> QED BY <1>3, <1>4, <2>1, <2>2 DEF Pairs
<1>5. CASE n = 2 * k + 1
  <2>1. n * (n - 1) = 2 * (2 * q + k) /\ (n + 1) * ((n + 1) - 1) = 2 * (2 * q + 3 * k + 1)
    BY <1>2, <1>5
  <2>2. \A x \in Int : (2 * x) \div 2 = x
    OBVIOUS
  <2> QED BY <1>3, <1>5, <2>1, <2>2 DEF Pairs
<1> QED BY <1>1, <1>4, <1>5

(* How many rides the first buses have together.                           *)
LEMMA RidesGrow ==
  ASSUME IsDatabase
  PROVE  /\ \E f : /\ IsSum(f, 0, Len(all_buses_), RideCounts)
                  /\ RidesOfFirst(Len(all_buses_)) = f[Len(all_buses_)]
         /\ RidesOfFirst(0) = 0
         /\ \A b \in DOMAIN all_buses_ : /\ RideCounts[b] \in Nat
                                         /\ RidesOfFirst(b) = RidesOfFirst(b - 1) + RideCounts[b]
         /\ \A b \in 0 .. Len(all_buses_) : RidesOfFirst(b) \in Nat
<1>1. PICK l \in Nat : l = Len(all_buses_) /\ DOMAIN all_buses_ = 1 .. l
  BY DEF IsDatabase
<1>2. PICK d : d = RideCounts
  OBVIOUS
<1>3. \A b \in 1 .. l : d[b] \in Nat
  <2> SUFFICES ASSUME NEW b \in 1 .. l PROVE d[b] \in Nat
    OBVIOUS
  <2>1. PICK n : n = Len(all_buses_[b].stops)
    OBVIOUS
  <2>2. n \in Nat
    BY <1>1, <2>1, BusFields
  <2>3. Pairs(n) \in Nat
    BY <2>2, PairsGrow
  <2>4. d[b] = (IF all_buses_[b].is_loop_trip THEN 1 ELSE 2) * Pairs(n)
    BY <1>1, <1>2, <2>1 DEF RideCounts
  <2> QED BY <2>3, <2>4
<1>4. \E f \in [0 .. l -> Nat] : IsSum(f, 0, l, d)
  <2>1. 0 <= l /\ 0 \in Int /\ l \in Int /\ \A b \in 0 + 1 .. l : d[b] \in Nat
    BY <1>3
  <2> QED BY <2>1, SumExists
<1>5. PICK f : f = CHOOSE g : IsSum(g, 0, Len(all_buses_), RideCounts)
  OBVIOUS
<1>6. IsSum(f, 0, l, d)
  <2>1. \E g : IsSum(g, 0, Len(all_buses_), RideCounts)
    BY <1>1, <1>2, <1>4
  <2>2. IsSum(f, 0, Len(all_buses_), RideCounts)
    BY <1>5, <2>1, Zenon
  <2> QED BY <1>1, <1>2, <2>2
<1>7. \A k \in 0 .. l : RidesOfFirst(k) = f[k]
  BY <1>1, <1>2, <1>5 DEF RidesOfFirst
<1>8. f[0] = 0 /\ \A b \in 1 .. l : f[b] = f[b - 1] + d[b]
  BY <1>6 DEF IsSum
<1>9. PICK h \in [0 .. l -> Nat] : IsSum(h, 0, l, d)
  BY <1>4
<1>10. ASSUME NEW k \in 0 .. l PROVE f[k] \in Nat
  <2>1. PICK g : g = [o \in 0 .. k |-> h[o]]
    OBVIOUS
  <2>2. k \in Int /\ 0 <= k /\ k <= l /\ 0 \in Int /\ l \in Int
    OBVIOUS
  <2>3. IsSum(g, 0, k, d) /\ g[k] \in Nat
    BY <1>9, <2>1 DEF IsSum
  <2>4. g[k] = f[k]
    BY <1>6, <2>2, <2>3, SumsAgree
  <2> QED BY <2>3, <2>4
<1>11. \E g : /\ IsSum(g, 0, Len(all_buses_), RideCounts)
              /\ RidesOfFirst(Len(all_buses_)) = g[Len(all_buses_)]
  <2>1. l \in 0 .. l
    BY <1>1, <1>2
  <2>2. RidesOfFirst(l) = f[l]
    BY <1>7, <2>1
  <2>3. l = Len(all_buses_) /\ d = RideCounts
    BY <1>1, <1>2
  <2> QED BY <1>6, <2>2, <2>3, Zenon
<1> QED BY <1>1, <1>2, <1>3, <1>7, <1>8, <1>10, <1>11

(* Nothing that is read of the catalogue changes.                          *)
LEMMA RoadsStay ==
  ASSUME UNCHANGED db
  PROVE  /\ \A p, q : GetLenghtBetweenStops(p, q)' = GetLenghtBetweenStops(p, q)
         /\ \A way, i, j : RoadTime(way, i, j)' = RoadTime(way, i, j)
         /\ \A b, back : Way(b, back)' = Way(b, back)
         /\ \A b : Directions(b)' = Directions(b) /\ Places(b)' = Places(b)
         /\ \A k : RidesOfFirst(k)' = RidesOfFirst(k)
<1>1. all_buses_' = all_buses_ /\ length_between_stops_' = length_between_stops_
  BY DEF db
<1>2. \A p, q : GetLenghtBetweenStops(p, q)' = GetLenghtBetweenStops(p, q)
  BY <1>1 DEF GetLenghtBetweenStops
<1>3. \A way, i, j : RoadTime(way, i, j)' = RoadTime(way, i, j)
  BY <1>1 DEF RoadTime, GetLenghtBetweenStops
<1>4. /\ \A b, back : Way(b, back)' = Way(b, back)
      /\ \A b : Directions(b)' = Directions(b) /\ Places(b)' = Places(b)
  BY <1>1 DEF Way, Directions, Places
<1>5. \A k : RidesOfFirst(k)' = RidesOfFirst(k)
  BY <1>1 DEF RidesOfFirst, RideCounts
<1> QED BY <1>2, <1>3, <1>4, <1>5

(* The edges there were are still what they were.                          *)
LEMMA OldEdgesStay ==
  ASSUME UNCHANGED <<db, stop_vertexs_>>, NEW E,
         \A e \in E : /\ info_about_edge'[e] = info_about_edge[e]
                      /\ graph_of_stops'.edges[e] = graph_of_stops.edges[e]
  PROVE  \A e \in E : /\ IsWait(e)' <=> IsWait(e)
                      /\ \A b, back, i, j : IsRide(e, b, back, i, j)' <=> IsRide(e, b, back, i, j)
<1> SUFFICES ASSUME NEW e \in E
             PROVE  /\ IsWait(e)' <=> IsWait(e)
                    /\ \A b, back, i, j : IsRide(e, b, back, i, j)' <=> IsRide(e, b, back, i, j)
  OBVIOUS
<1>1. /\ info_about_edge'[e] = info_about_edge[e]
      /\ graph_of_stops'.edges[e] = graph_of_stops.edges[e]
      /\ stop_vertexs_' = stop_vertexs_ /\ all_buses_' = all_buses_
  BY DEF db
<1>2. From(e)' = From(e) /\ To(e)' = To(e)
  BY <1>1 DEF From, To
<1>3. IsWait(e)' <=> IsWait(e)
  BY <1>1 DEF IsWait
<1>4. /\ \A way, i, j : RoadTime(way, i, j)' = RoadTime(way, i, j)
      /\ \A b, back : Way(b, back)' = Way(b, back)
  BY RoadsStay
<1>5. ASSUME NEW b, NEW back, NEW i, NEW j
      PROVE  IsRide(e, b, back, i, j)' <=> IsRide(e, b, back, i, j)
  <2>1. PICK way : way = Way(b, back)
    OBVIOUS
  <2>2. way = Way(b, back)'
    BY <1>4, <2>1
  <2>3. RoadTime(way, i, j)' = RoadTime(way, i, j)
    BY <1>4
  <2>4. IsRide(e, b, back, i, j) <=>
          /\ info_about_edge[e] = [name_ |-> all_buses_[b].name,
                                   weight_ |-> RoadTime(way, i, j), span_count_ |-> j - i]
          /\ From(e) = stop_vertexs_[way[i]].out
          /\ To(e) = stop_vertexs_[way[j]].in
    BY <2>1 DEF IsRide
  <2>5. IsRide(e, b, back, i, j)' <=>
          /\ info_about_edge'[e] = [name_ |-> all_buses_'[b].name,
                                    weight_ |-> RoadTime(way, i, j)', span_count_ |-> j - i]
          /\ From(e)' = stop_vertexs_'[way[i]].out
          /\ To(e)' = stop_vertexs_'[way[j]].in
    BY <2>2 DEF IsRide
  <2> QED BY <1>1, <1>2, <2>3, <2>4, <2>5
<1> QED BY <1>3, <1>5

LEMMA WaitStep == RidesInv /\ CreateVertex => RidesInv'
<1> SUFFICES ASSUME RidesInv, CreateVertex PROVE RidesInv'
  OBVIOUS
<1>1. PICK m : m = Len(graph_of_stops.edges)
  OBVIOUS
<1>2. PICK v \in Nat : OneMore(v, v + 1, WaitTime, m + 1, NoSpan, m)
  BY <1>1, WaitAdded DEF RidesInv
<1>3. /\ pc = "vertices" /\ pc' = "vertices" /\ time_to_road' = 0 /\ stops_count' = 0
      /\ \A e \in 1 .. m : IsWait(e)
  BY <1>2 DEF RidesInv, TimesAddUp, CreateVertex, inner, OneMore
<1>4. m \in Nat /\ EdgeIds(graph_of_stops)' = 1 .. m + 1
  BY <1>2 DEF OneMore
<1>5. ASSUME NEW e \in 1 .. m + 1 PROVE IsWait(e)'
  <2>1. CASE e = m + 1
    BY <1>2, <2>1 DEF OneMore, IsWait
  <2>2. CASE e # m + 1
    BY <1>2, <1>3, <1>4, <2>2 DEF OneMore, IsWait
  <2> QED BY <2>1, <2>2
<1>6. RInv'
  BY CreateVertexKeeps DEF RidesInv
<1> QED BY <1>3, <1>4, <1>5, <1>6 DEF RidesInv, TimesAddUp, RidesAreReal, RidesMade, RidesMadeOnce, Riding

LEMMA RideStep == RidesInv /\ CreateEdge => RidesInv'
<1> SUFFICES ASSUME RidesInv, CreateEdge PROVE RidesInv'
  OBVIOUS
<1>1. PICK m, n, w, span :
        /\ m = Len(graph_of_stops.edges) /\ n = Len(all_buses_[bus].stops)
        /\ w = time_to_road' /\ span = stops_count'
  OBVIOUS
<1>2. PICK F, T, way, b, back :
        /\ F = from_it /\ T = to_it /\ way = Stops /\ b = bus /\ back = backwards
  OBVIOUS
<1>3. /\ RInv /\ TimesAddUp /\ RidesAreReal /\ RidesMade /\ RidesMadeOnce
      /\ Riding /\ pc = "edges" /\ pc' = "edges" /\ T <= Len(Stops)
      /\ b \in DOMAIN all_buses_
      /\ w = time_to_road + NextLength /\ span = stops_count + 1 /\ to_it' = T + 1
      /\ UNCHANGED <<db, stop_vertexs_>> /\ bus' = b /\ backwards' = back /\ from_it' = F
      /\ IsDatabase /\ back \in BOOLEAN /\ UNCHANGED db
      /\ all_buses_' = all_buses_ /\ stop_vertexs_' = stop_vertexs_
  BY <1>1, <1>2 DEF RidesInv, RInv, GraphInv, TypeOK, CreateEdge, Riding, db
<1>4. /\ n \in Nat /\ F \in 1 .. n /\ T \in 2 .. n /\ F < T
      /\ DOMAIN all_buses_[b].stops = 1 .. n
  <2>1. F < T
    BY <1>2, <1>3 DEF RInv, LoopsInOrder
  <2>2. all_buses_[b].stops \in Seq(Stop)
    BY <1>3, BusFields
  <2>3. DOMAIN all_buses_[b].stops = 1 .. n
    BY <1>1, <1>2, <2>2
  <2> QED BY <1>1, <1>2, <1>3, <2>1, <2>3, RidingFacts
<1>5. /\ OneMore(stop_vertexs_[way[F]].out, stop_vertexs_[way[T]].in, w, all_buses_[b].name, span, m)
      /\ NextLength \in Nat /\ NextLength = GetLenghtBetweenStops(way[T - 1], way[T])
  BY <1>1, <1>2, <1>3, RideAdded DEF NextLength
<1>6. /\ m \in Nat /\ EdgeIds(graph_of_stops) = 1 .. m /\ EdgeIds(graph_of_stops') = 1 .. m + 1
      /\ EdgeIds(graph_of_stops)' = 1 .. m + 1 /\ Len(graph_of_stops'.edges) = m + 1
      /\ info_about_edge'[m + 1] = [name_ |-> all_buses_[b].name, weight_ |-> w, span_count_ |-> span]
      /\ From(m + 1)' = stop_vertexs_[way[F]].out /\ To(m + 1)' = stop_vertexs_[way[T]].in
      /\ \A e \in 1 .. m : /\ info_about_edge'[e] = info_about_edge[e]
                           /\ graph_of_stops'.edges[e] = graph_of_stops.edges[e]
  BY <1>5 DEF OneMore, From, To
<1>7. \A e \in 1 .. m : /\ IsWait(e)' <=> IsWait(e)
                        /\ \A c, to, i, j : IsRide(e, c, to, i, j)' <=> IsRide(e, c, to, i, j)
  BY <1>3, <1>6, OldEdgesStay
<1>8. /\ \A k \in F + 1 .. T : GetLenghtBetweenStops(way[k - 1], way[k]) \in Nat
      /\ w = RoadTime(way, F, T) /\ span = T - F
  <2>1. /\ \A k \in F + 1 .. T - 1 : GetLenghtBetweenStops(way[k - 1], way[k]) \in Nat
        /\ time_to_road = RoadTime(way, F, T - 1) /\ stops_count = T - 1 - F
    BY <1>2, <1>3 DEF TimesAddUp
  <2>2. \A k \in F + 1 .. T : GetLenghtBetweenStops(way[k - 1], way[k]) \in Nat
    BY <1>4, <1>5, <2>1
  <2>3. RoadTime(way, F, T) = RoadTime(way, F, T - 1) + GetLenghtBetweenStops(way[T - 1], way[T])
    <3>1. F \in Int /\ T \in Int /\ F <= T
      BY <1>4
    <3> QED BY <1>4, <2>2, <3>1, RoadTimes
  <2> QED BY <1>3, <1>4, <1>5, <2>1, <2>2, <2>3
<1>9. /\ \A p, q : GetLenghtBetweenStops(p, q)' = GetLenghtBetweenStops(p, q)
      /\ \A way1, i, j : RoadTime(way1, i, j)' = RoadTime(way1, i, j)
      /\ \A c, to : Way(c, to)' = Way(c, to)
      /\ \A c : Directions(c)' = Directions(c) /\ Places(c)' = Places(c)
      /\ \A k : RidesOfFirst(k)' = RidesOfFirst(k)
  BY <1>3, RoadsStay
<1>10. way = Way(b, back) /\ Stops' = way
  BY <1>2, <1>3 DEF Stops, Way
<1>11. ~IsWait(m + 1)' /\ IsRide(m + 1, b, back, F, T)'
  <2>1. ~IsWait(m + 1)'
    <3>1. span \in Nat
      BY <1>4, <1>8
    <3> QED BY <1>6, <3>1, TransportRouterAssumption DEF IsWait
  <2>2. RoadTime(way, F, T)' = w /\ Way(b, back)' = way
    BY <1>8, <1>9, <1>10
  <2> QED BY <1>3, <1>6, <1>8, <2>1, <2>2 DEF IsRide
<1>12. back => ~all_buses_[b].is_loop_trip
  BY <1>2, <1>3 DEF TimesAddUp
<1>13. TimesAddUp'
  <2>1. \A k \in F + 1 .. T : GetLenghtBetweenStops(way[k - 1], way[k])' \in Nat
    BY <1>8, <1>9
  <2>2. RoadTime(way, F, T)' = w
    BY <1>8, <1>9
  <2>3. (T + 1) - 1 = T /\ span = (T + 1) - 1 - F
    BY <1>4, <1>8
  <2> QED BY <1>1, <1>3, <1>10, <1>12, <2>1, <2>2, <2>3 DEF TimesAddUp, Riding
<1>14. RidesAreReal'
  <2>1. ASSUME NEW e \in 1 .. m + 1, ~IsWait(e)'
        PROVE  \E c \in DOMAIN all_buses_ : \E to \in Directions(c) :
                 \E p \in Places(c) : IsRide(e, c, to, p[1], p[2])'
    <3>1. CASE e = m + 1
      <4>1. back \in Directions(b)
        BY <1>3, <1>12 DEF Directions
      <4>2. <<F, T>> \in Places(b)
        BY <1>4 DEF Places
      <4> QED BY <1>3, <1>11, <3>1, <4>1, <4>2
    <3>2. CASE e # m + 1
      <4>1. e \in 1 .. m
        BY <1>6, <3>2
      <4> QED BY <1>3, <1>6, <1>7, <2>1, <4>1 DEF RidesAreReal
    <3> QED BY <3>1, <3>2
  <2> QED BY <1>3, <1>6, <1>9, <2>1 DEF RidesAreReal
<1>15. RidesMade'
  <2>1. ASSUME NEW c \in DOMAIN all_buses_, NEW to \in Directions(c), NEW p \in Places(c),
               Passed(c, to, p[1], p[2])'
        PROVE  IsMade(c, to, p[1], p[2])'
    <3>1. CASE Passed(c, to, p[1], p[2])
      <4>1. IsMade(c, to, p[1], p[2])
        BY <1>3, <3>1 DEF RidesMade
      <4>2. PICK e \in 1 .. m : ~IsWait(e) /\ IsRide(e, c, to, p[1], p[2])
        BY <1>6, <4>1 DEF IsMade
      <4>3. e \in 1 .. m + 1
        BY <1>6
      <4> QED BY <1>6, <1>7, <4>2, <4>3 DEF IsMade
    <3>2. CASE ~Passed(c, to, p[1], p[2])
      <4>1. c = b /\ to = back /\ p[1] = F /\ p[2] = T
        <5>1. c = b /\ to = back /\ p[1] = F /\ ~(p[2] < T) /\ p[2] < T + 1
          BY <1>2, <1>3, <2>1, <3>2 DEF Passed
        <5>2. p[2] \in Nat
          BY <1>4, <5>1 DEF Places
        <5> QED BY <1>4, <5>1, <5>2
      <4>2. m + 1 \in 1 .. m + 1
        BY <1>6
      <4> QED BY <1>6, <1>11, <4>1, <4>2 DEF IsMade
    <3> QED BY <3>1, <3>2
  <2> QED BY <1>3, <1>9, <2>1 DEF RidesMade
<1>16. RidesMadeOnce'
  <2>1. PICK x : x = StopCount + RidesOfFirst(b - 1) + (IF back THEN Pairs(n) ELSE 0)
                       + Pairs(n) - Pairs(n - F + 1)
    OBVIOUS
  <2>2. F <= n /\ m = x + (T - 1 - F)
    BY <1>1, <1>2, <1>3, <1>4, <2>1 DEF RidesMadeOnce
  <2>3. x \in Int
    <3>1. b - 1 \in 0 .. Len(all_buses_)
      BY <1>3 DEF IsDatabase
    <3>2. RidesOfFirst(b - 1) \in Nat
      BY <1>3, <3>1, RidesGrow
    <3>3. n - F + 1 \in Nat /\ Pairs(n) \in Nat
      BY <1>4, PairsGrow
    <3>4. Pairs(n - F + 1) \in Nat
      BY <3>3, PairsGrow
    <3> QED BY <2>1, <3>2, <3>3, <3>4, TransportRouterAssumption
  <2>4. m + 1 = x + ((T + 1) - 1 - F)
    BY <1>4, <1>6, <2>2, <2>3
  <2>5. RidesOfFirst(b - 1)' = RidesOfFirst(b - 1)
    BY <1>9
  <2>6. T + 1 <= n + 1
    BY <1>4
  <2> QED BY <1>1, <1>2, <1>3, <1>6, <2>1, <2>2, <2>4, <2>5, <2>6 DEF RidesMadeOnce, Riding
<1>17. RInv'
  BY <1>3, CreateEdgeKeeps
<1> QED BY <1>13, <1>14, <1>15, <1>16, <1>17 DEF RidesInv

(* When no edge is added, the rides there are remain; the loops may start  *)
(* anew, with nothing added up, if they claim no ride they have not made.  *)
LEMMA NoRideStep ==
  ASSUME RidesInv, UNCHANGED <<db, built>>, pc' \in {"edges", "done", "thrown"},
         NEW f \in Nat \ {0}, pc' = "edges" =>
           /\ from_it' = f /\ to_it' = f + 1 /\ time_to_road' = 0 /\ stops_count' = 0
           /\ (backwards' /\ bus' \in DOMAIN all_buses_) => ~all_buses_[bus'].is_loop_trip,
         pc' # "thrown" =>
           \A c \in DOMAIN all_buses_ : \A to \in Directions(c) : \A p \in Places(c) :
             Passed(c, to, p[1], p[2])' => IsMade(c, to, p[1], p[2])
  PROVE  TimesAddUp' /\ RidesAreReal' /\ RidesMade'
<1>1. /\ RidesAreReal /\ UNCHANGED db /\ UNCHANGED <<db, stop_vertexs_>>
      /\ all_buses_' = all_buses_ /\ stop_vertexs_' = stop_vertexs_
      /\ info_about_edge' = info_about_edge /\ graph_of_stops' = graph_of_stops
  BY DEF RidesInv, built, db
<1>2. EdgeIds(graph_of_stops)' = EdgeIds(graph_of_stops)
  BY <1>1
<1>3. PICK E : E = EdgeIds(graph_of_stops)
  OBVIOUS
<1>4. \A e \in E : /\ IsWait(e)' <=> IsWait(e)
                   /\ \A c, to, i, j : IsRide(e, c, to, i, j)' <=> IsRide(e, c, to, i, j)
  BY <1>1, OldEdgesStay
<1>5. \A c : Directions(c)' = Directions(c) /\ Places(c)' = Places(c)
  BY <1>1, RoadsStay
<1>6. TimesAddUp'
  <2>1. pc' # "vertices"
    OBVIOUS
  <2>2. ASSUME Riding'
        PROVE  /\ backwards' => ~all_buses_'[bus'].is_loop_trip
               /\ \A k \in f + 1 .. (f + 1) - 1 :
                    GetLenghtBetweenStops(Stops[k - 1], Stops[k])' \in Nat
               /\ time_to_road' = RoadTime(Stops, from_it, to_it - 1)'
               /\ stops_count' = (f + 1) - 1 - f
    <3>1. /\ from_it' = f /\ to_it' = f + 1 /\ time_to_road' = 0 /\ stops_count' = 0
          /\ backwards' => ~all_buses_'[bus'].is_loop_trip
      BY <1>1, <2>2 DEF Riding
    <3>2. PICK way : way = Stops'
      OBVIOUS
    <3>3. RoadTime(way, f, f)' = 0
      <4>1. RoadTime(way, f, f) = 0
        <5>1. f \in Int /\ f <= f /\ \A k \in f + 1 .. f : FALSE
          OBVIOUS
        <5> QED BY <5>1, RoadTimes
      <4> QED BY <1>1, <4>1, RoadsStay
    <3>4. (f + 1) - 1 = f
      OBVIOUS
    <3>5. RoadTime(Stops, from_it, to_it - 1)' = 0
      BY <3>1, <3>2, <3>3, <3>4
    <3>6. \A k \in f + 1 .. (f + 1) - 1 : FALSE
      OBVIOUS
    <3> QED BY <3>1, <3>4, <3>5, <3>6
  <2>3. Riding' => from_it' = f /\ to_it' = f + 1
    BY DEF Riding
  <2> QED BY <2>1, <2>2, <2>3 DEF TimesAddUp
<1>7. RidesAreReal'
  BY <1>1, <1>2, <1>3, <1>4, <1>5 DEF RidesAreReal
<1>8. ASSUME pc' # "thrown",
             NEW c \in DOMAIN all_buses_, NEW to \in Directions(c), NEW p \in Places(c),
             Passed(c, to, p[1], p[2])'
      PROVE  IsMade(c, to, p[1], p[2])'
  <2>1. IsMade(c, to, p[1], p[2])
    BY <1>8
  <2> QED BY <1>2, <1>3, <1>4, <2>1 DEF IsMade
<1>9. RidesMade'
  BY <1>1, <1>5, <1>8 DEF RidesMade
<1> QED BY <1>6, <1>7, <1>9

LEMMA PlacesOfBus ==
  ASSUME IsDatabase, NEW b \in DOMAIN all_buses_, NEW n, n = Len(all_buses_[b].stops)
  PROVE  /\ b \in 1 .. Len(all_buses_) /\ Len(all_buses_) \in Nat /\ n \in Nat
         /\ \A p \in Places(b) : p[1] \in 1 .. n /\ p[2] \in 1 .. n /\ p[1] < p[2]
<1>1. all_buses_[b].stops \in Seq(Stop) /\ DOMAIN all_buses_[b].stops = 1 .. n /\ n \in Nat
  BY BusFields
<1>2. b \in 1 .. Len(all_buses_) /\ Len(all_buses_) \in Nat
  BY DEF IsDatabase
<1> QED BY <1>1, <1>2 DEF Places

LEMMA RidesAreCounted ==
  ASSUME IsDatabase, NEW b \in DOMAIN all_buses_, NEW n, n = Len(all_buses_[b].stops)
  PROVE  /\ b \in Nat /\ b > 0 /\ RidesOfFirst(b - 1) \in Nat /\ n \in Nat
         /\ Pairs(n) \in Nat /\ \A f \in 1 .. n + 1 : Pairs(n - f + 1) \in Nat
         /\ RidesOfFirst(b) = RidesOfFirst(b - 1)
                                + (IF all_buses_[b].is_loop_trip THEN 1 ELSE 2) * Pairs(n)
<1>1. b \in 1 .. Len(all_buses_) /\ Len(all_buses_) \in Nat /\ n \in Nat
  BY PlacesOfBus
<1>2. b \in Nat /\ b > 0 /\ b - 1 \in 0 .. Len(all_buses_)
  BY <1>1
<1>3. RidesOfFirst(b - 1) \in Nat /\ RidesOfFirst(b) = RidesOfFirst(b - 1) + RideCounts[b]
  BY <1>2, RidesGrow
<1>4. Pairs(n) \in Nat
  BY <1>1, PairsGrow
<1>5. ASSUME NEW f \in 1 .. n + 1 PROVE Pairs(n - f + 1) \in Nat
  <2>1. n - f + 1 \in Nat
    BY <1>1
  <2> QED BY <2>1, PairsGrow
<1> QED BY <1>1, <1>2, <1>3, <1>4, <1>5 DEF RideCounts

LEMMA StartEdgesStep == RidesInv /\ StartEdges => RidesInv'
<1> SUFFICES ASSUME RidesInv, StartEdges PROVE RidesInv'
  OBVIOUS
<1>1. /\ RInv /\ TimesAddUp /\ pc = "vertices" /\ pc' = "edges"
      /\ Len(graph_of_stops.edges) = StopCount /\ UNCHANGED <<db, built, bus, backwards, inner>>
      /\ IsDatabase /\ UNCHANGED db /\ UNCHANGED <<db, built>>
      /\ all_buses_' = all_buses_ /\ graph_of_stops' = graph_of_stops
      /\ from_it' = from_it /\ to_it' = to_it /\ bus' = bus /\ backwards' = backwards
      /\ time_to_road' = time_to_road /\ stops_count' = stops_count
  BY DEF RidesInv, RInv, GraphInv, TypeOK, StartEdges, inner, built, db
<1>2. bus = 1 /\ ~backwards /\ from_it = 1 /\ to_it = 2 /\ time_to_road = 0 /\ stops_count = 0
  BY <1>1 DEF TimesAddUp, RInv, LoopsInOrder
<1>3. ASSUME NEW c \in DOMAIN all_buses_, NEW to \in Directions(c), NEW p \in Places(c),
             Passed(c, to, p[1], p[2])'
      PROVE  FALSE
  <2>1. PICK n : n = Len(all_buses_[c].stops)
    OBVIOUS
  <2>2. /\ c \in 1 .. Len(all_buses_) /\ Len(all_buses_) \in Nat /\ n \in Nat
        /\ p[1] \in 1 .. n /\ p[2] \in 1 .. n /\ p[1] < p[2]
    BY <1>1, <2>1, PlacesOfBus
  <2> QED BY <1>1, <1>2, <1>3, <2>2 DEF Passed
<1>4. TimesAddUp' /\ RidesAreReal' /\ RidesMade'
  BY <1>1, <1>2, <1>3, NoRideStep
<1>5. RidesMadeOnce'
  <2>1. RidesOfFirst(0)' = 0 /\ 1 - 1 = 0
    BY <1>1, RidesGrow, RoadsStay
  <2>2. PICK l \in Nat : l = Len(all_buses_) /\ DOMAIN all_buses_ = 1 .. l
    BY <1>1 DEF IsDatabase
  <2>3. 1 \notin DOMAIN all_buses_ => 1 = Len(all_buses_) + 1
    BY <2>2
  <2>4. ASSUME 1 \in DOMAIN all_buses_
        PROVE  LET n == Len(all_buses_[1].stops) IN
               StopCount = StopCount + 0 + 0 + Pairs(n) - Pairs(n - 1 + 1) + (2 - 1 - 1)
    <3>1. PICK n : n = Len(all_buses_[1].stops)
      OBVIOUS
    <3>2. n \in Nat /\ Pairs(n) \in Nat /\ n - 1 + 1 = n
      BY <1>1, <2>4, <3>1, RidesAreCounted
    <3> QED BY <3>1, <3>2, TransportRouterAssumption
  <2> QED BY <1>1, <1>2, <2>1, <2>3, <2>4 DEF RidesMadeOnce, Riding
<1>6. RInv'
  BY <1>1, StartEdgesKeeps
<1> QED BY <1>4, <1>5, <1>6 DEF RidesInv

LEMMA LoopEndFacts ==
  ASSUME RidesInv, Riding, to_it > Len(Stops), NEW n, n = Len(all_buses_[bus].stops)
  PROVE  /\ n \in Nat /\ Len(Stops) = n /\ from_it \in Nat /\ from_it > 0 /\ to_it \in Nat
         /\ from_it < to_it /\ to_it > n /\ (from_it <= n => to_it = n + 1)
         /\ from_it <= n \/ (from_it = 1 /\ n = 0 /\ to_it = 2)
         /\ bus \in Nat /\ bus > 0 /\ backwards \in BOOLEAN /\ IsDatabase
         /\ backwards => ~all_buses_[bus].is_loop_trip
<1>1. /\ IsDatabase /\ bus \in DOMAIN all_buses_ /\ bus \in Nat /\ bus > 0 /\ backwards \in BOOLEAN
      /\ from_it \in Nat /\ to_it \in Nat /\ from_it > 0 /\ from_it < to_it
      /\ TimesAddUp /\ RidesMadeOnce
  BY DEF RidesInv, RInv, GraphInv, TypeOK, LoopsInOrder, Riding
<1>2. n \in Nat /\ Len(Stops) = n
  BY <1>1, WayStretches DEF Stops
<1>3. from_it <= n \/ from_it = 1
  BY <1>1 DEF RidesMadeOnce
<1>4. to_it <= n + 1 \/ to_it = from_it + 1
  BY <1>1 DEF RidesMadeOnce
<1>5. backwards => ~all_buses_[bus].is_loop_trip
  BY <1>1 DEF TimesAddUp
<1> QED BY <1>1, <1>2, <1>3, <1>4, <1>5

(* What is passed after a loop ended was passed before.                    *)
LEMMA MadeBefore ==
  ASSUME RidesInv, pc \in {"edges", "done"},
         NEW c \in DOMAIN all_buses_, NEW to \in Directions(c), NEW p \in Places(c),
         Passed(c, to, p[1], p[2])
  PROVE  IsMade(c, to, p[1], p[2])
BY DEF RidesInv, RidesMade

LEMMA NextFromStep == RidesInv /\ NextFrom => RidesInv'
<1> SUFFICES ASSUME RidesInv, NextFrom PROVE RidesInv'
  OBVIOUS
<1>1. PICK n, f, b : n = Len(all_buses_[bus].stops) /\ f = from_it + 1 /\ b = bus
  OBVIOUS
<1>2. /\ RInv /\ RidesMadeOnce /\ Riding /\ to_it > Len(Stops) /\ from_it < Len(Stops)
      /\ pc = "edges" /\ pc' = "edges" /\ b \in DOMAIN all_buses_
      /\ from_it' = f /\ to_it' = f + 1 /\ time_to_road' = 0 /\ stops_count' = 0
      /\ bus' = b /\ backwards' = backwards /\ UNCHANGED <<db, built>> /\ UNCHANGED db
      /\ all_buses_' = all_buses_ /\ graph_of_stops' = graph_of_stops
  BY <1>1 DEF RidesInv, NextFrom, StartFrom, Riding, db, built
<1>3. /\ n \in Nat /\ Len(Stops) = n /\ from_it \in Nat /\ from_it > 0 /\ to_it = n + 1
      /\ from_it < n /\ backwards \in BOOLEAN /\ IsDatabase
      /\ backwards => ~all_buses_[b].is_loop_trip
  BY <1>1, <1>2, LoopEndFacts
<1>4. ASSUME NEW c \in DOMAIN all_buses_, NEW to \in Directions(c), NEW p \in Places(c),
             Passed(c, to, p[1], p[2])'
      PROVE  IsMade(c, to, p[1], p[2])
  <2>1. ASSUME c = b PROVE p[1] \in 1 .. n /\ p[2] \in 1 .. n /\ p[1] < p[2]
    BY <1>1, <1>3, <2>1, PlacesOfBus
  <2>2. Passed(c, to, p[1], p[2])
    <3>1. CASE c # b
      BY <1>1, <1>2, <1>4, <3>1 DEF Passed
    <3>2. CASE c = b
      BY <1>1, <1>2, <1>3, <1>4, <2>1, <3>2 DEF Passed
    <3> QED BY <3>1, <3>2
  <2> QED BY <1>2, <2>2, MadeBefore
<1>5. TimesAddUp' /\ RidesAreReal' /\ RidesMade'
  <2>1. f \in Nat \ {0}
    BY <1>1, <1>3
  <2> QED BY <1>2, <1>3, <1>4, <2>1, NoRideStep
<1>6. RidesMadeOnce'
  <2>1. PICK m : m = Len(graph_of_stops.edges)
    OBVIOUS
  <2>2. PICK x : x = RidesOfFirst(b - 1)
    OBVIOUS
  <2>3. PICK y : y = IF backwards THEN Pairs(n) ELSE 0
    OBVIOUS
  <2>4. m = StopCount + x + y + Pairs(n) - Pairs(n - from_it + 1) + (to_it - 1 - from_it)
    BY <1>1, <1>2, <2>1, <2>2, <2>3 DEF RidesMadeOnce
  <2>5. PICK k \in Nat : k = n - from_it
    BY <1>3
  <2>6. n - from_it + 1 = k + 1 /\ n - f + 1 = k /\ to_it - 1 - from_it = k /\ (f + 1) - 1 - f = 0
    BY <1>1, <1>3, <2>5
  <2>7. Pairs(k + 1) = Pairs(k) + k /\ Pairs(k) \in Nat
    BY PairsGrow
  <2>8. x \in Nat /\ Pairs(n) \in Nat /\ y \in Nat
    BY <1>1, <1>2, <1>3, <2>2, <2>3, RidesAreCounted
  <2>9. m = StopCount + x + y + Pairs(n) - Pairs(n - f + 1) + ((f + 1) - 1 - f)
    BY <2>4, <2>5, <2>6, <2>7, <2>8, TransportRouterAssumption
  <2>10. RidesOfFirst(b - 1)' = x
    BY <1>2, <2>2, RoadsStay
  <2>11. f <= n
    BY <1>1, <1>3
  <2> QED BY <1>1, <1>2, <2>1, <2>3, <2>9, <2>10, <2>11 DEF RidesMadeOnce, Riding
<1>7. RInv'
  BY <1>2, RStepKeeps DEF Next
<1> QED BY <1>5, <1>6, <1>7 DEF RidesInv

LEMMA TurnBackStep == RidesInv /\ TurnBack => RidesInv'
<1> SUFFICES ASSUME RidesInv, TurnBack PROVE RidesInv'
  OBVIOUS
<1>1. PICK n, b : n = Len(all_buses_[bus].stops) /\ b = bus
  OBVIOUS
<1>2. /\ RInv /\ RidesMadeOnce /\ Riding /\ to_it > Len(Stops) /\ from_it >= Len(Stops)
      /\ pc = "edges" /\ pc' = "edges" /\ b \in DOMAIN all_buses_
      /\ ~backwards /\ ~all_buses_[b].is_loop_trip
      /\ from_it' = 1 /\ to_it' = 1 + 1 /\ time_to_road' = 0 /\ stops_count' = 0
      /\ bus' = b /\ backwards' = TRUE /\ UNCHANGED <<db, built>> /\ UNCHANGED db
      /\ all_buses_' = all_buses_ /\ graph_of_stops' = graph_of_stops
  BY <1>1 DEF RidesInv, TurnBack, StartFrom, Riding, db, built
<1>3. /\ n \in Nat /\ Len(Stops) = n /\ from_it \in Nat /\ from_it > 0
      /\ (from_it = n /\ to_it = n + 1) \/ (from_it = 1 /\ n = 0 /\ to_it = 2)
      /\ IsDatabase /\ backwards = FALSE
  <2>1. backwards \in BOOLEAN /\ ~backwards
    BY <1>1, <1>2, LoopEndFacts
  <2> QED BY <1>1, <1>2, <2>1, LoopEndFacts
<1>4. ASSUME NEW c \in DOMAIN all_buses_, NEW to \in Directions(c), NEW p \in Places(c),
             Passed(c, to, p[1], p[2])'
      PROVE  IsMade(c, to, p[1], p[2])
  <2>1. ASSUME c = b PROVE p[1] \in 1 .. n /\ p[2] \in 1 .. n /\ p[1] < p[2]
    BY <1>1, <1>3, <2>1, PlacesOfBus
  <2>2. to \in BOOLEAN
    BY DEF Directions
  <2>3. Passed(c, to, p[1], p[2])
    <3>1. CASE c # b
      BY <1>1, <1>2, <1>4, <3>1 DEF Passed
    <3>2. CASE c = b
      <4>1. to = FALSE
        <5>1. SUFFICES ASSUME to PROVE FALSE
          BY <2>2
        <5>2. ~(b < bus') /\ ~(backwards' /\ ~to)
          BY <1>1, <1>2, <1>3, <5>1 DEF RidesInv, RInv, LoopsInOrder, GraphInv, TypeOK
        <5>3. p[1] < 1 \/ (p[1] = 1 /\ p[2] < 1 + 1)
          BY <1>2, <1>4, <3>2, <5>1, <5>2 DEF Passed
        <5> QED BY <2>1, <3>2, <5>3
      <4>2. p[1] < from_it \/ (p[1] = from_it /\ p[2] < to_it)
        BY <1>3, <2>1, <3>2
      <4> QED BY <1>1, <1>3, <3>2, <4>1, <4>2 DEF Passed
    <3> QED BY <3>1, <3>2
  <2> QED BY <1>2, <2>3, MadeBefore
<1>5. TimesAddUp' /\ RidesAreReal' /\ RidesMade'
  BY <1>2, <1>3, <1>4, NoRideStep
<1>6. RidesMadeOnce'
  <2>1. PICK m : m = Len(graph_of_stops.edges)
    OBVIOUS
  <2>2. PICK x : x = RidesOfFirst(b - 1)
    OBVIOUS
  <2>3. m = StopCount + x + 0 + Pairs(n) - Pairs(n - from_it + 1) + (to_it - 1 - from_it)
    BY <1>1, <1>2, <2>1, <2>2 DEF RidesMadeOnce
  <2>4. x \in Nat /\ Pairs(n) \in Nat /\ Pairs(0) = 0 /\ Pairs(1) = 0
    BY <1>1, <1>2, <1>3, <2>2, RidesAreCounted, PairsGrow
  <2>5. Pairs(n - from_it + 1) = 0 /\ to_it - 1 - from_it = 0
    <3>1. n - from_it + 1 \in {0, 1} /\ to_it - 1 - from_it = 0
      BY <1>3
    <3> QED BY <2>4, <3>1
  <2>6. m = StopCount + x + Pairs(n) + Pairs(n) - Pairs(n - 1 + 1) + ((1 + 1) - 1 - 1)
    <3>1. n - 1 + 1 = n
      BY <1>3
    <3> QED BY <2>3, <2>4, <2>5, <3>1, TransportRouterAssumption
  <2>7. RidesOfFirst(b - 1)' = x
    BY <1>2, <2>2, RoadsStay
  <2> QED BY <1>1, <1>2, <2>1, <2>6, <2>7 DEF RidesMadeOnce, Riding
<1>7. RInv'
  BY <1>2, RStepKeeps DEF Next
<1> QED BY <1>5, <1>6, <1>7 DEF RidesInv

LEMMA NextBusStep == RidesInv /\ NextBus => RidesInv'
<1> SUFFICES ASSUME RidesInv, NextBus PROVE RidesInv'
  OBVIOUS
<1>1. PICK n, b : n = Len(all_buses_[bus].stops) /\ b = bus
  OBVIOUS
<1>2. /\ RInv /\ RidesMadeOnce /\ Riding /\ to_it > Len(Stops) /\ from_it >= Len(Stops)
      /\ pc = "edges" /\ pc' = "edges" /\ b \in DOMAIN all_buses_
      /\ backwards \/ all_buses_[b].is_loop_trip
      /\ from_it' = 1 /\ to_it' = 1 + 1 /\ time_to_road' = 0 /\ stops_count' = 0
      /\ bus' = b + 1 /\ backwards' = FALSE /\ UNCHANGED <<db, built>> /\ UNCHANGED db
      /\ all_buses_' = all_buses_ /\ graph_of_stops' = graph_of_stops
  BY <1>1 DEF RidesInv, NextBus, StartFrom, Riding, db, built
<1>3. /\ n \in Nat /\ Len(Stops) = n /\ from_it \in Nat /\ from_it > 0
      /\ (from_it = n /\ to_it = n + 1) \/ (from_it = 1 /\ n = 0 /\ to_it = 2)
      /\ IsDatabase /\ b \in Nat /\ b > 0 /\ backwards \in BOOLEAN
      /\ backwards <=> ~all_buses_[b].is_loop_trip
  <2>1. /\ n \in Nat /\ Len(Stops) = n /\ from_it \in Nat /\ from_it > 0
        /\ (from_it = n /\ to_it = n + 1) \/ (from_it = 1 /\ n = 0 /\ to_it = 2)
        /\ IsDatabase /\ b \in Nat /\ b > 0 /\ backwards \in BOOLEAN
        /\ backwards => ~all_buses_[b].is_loop_trip
    BY <1>1, <1>2, LoopEndFacts
  <2> QED BY <1>2, <2>1
<1>4. ASSUME NEW c \in DOMAIN all_buses_, NEW to \in Directions(c), NEW p \in Places(c),
             Passed(c, to, p[1], p[2])'
      PROVE  IsMade(c, to, p[1], p[2])
  <2>1. PICK o : o = Len(all_buses_[c].stops)
    OBVIOUS
  <2>2. /\ p[1] \in 1 .. o /\ p[2] \in 1 .. o /\ p[1] < p[2] /\ o \in Nat
        /\ c \in 1 .. Len(all_buses_) /\ Len(all_buses_) \in Nat
    BY <1>3, <2>1, PlacesOfBus
  <2>3. to \in BOOLEAN /\ (c = b => (to => ~all_buses_[b].is_loop_trip))
    BY DEF Directions
  <2>4. c < b \/ c = b
    BY <1>2, <1>3, <1>4, <2>2 DEF Passed
  <2>5. Passed(c, to, p[1], p[2])
    <3>1. CASE c < b
      BY <1>1, <3>1 DEF Passed
    <3>2. CASE c = b
      BY <1>1, <1>2, <1>3, <2>1, <2>2, <2>3, <3>2 DEF Passed
    <3> QED BY <2>4, <3>1, <3>2
  <2> QED BY <1>2, <2>5, MadeBefore
<1>5. TimesAddUp' /\ RidesAreReal' /\ RidesMade'
  BY <1>2, <1>3, <1>4, NoRideStep
<1>6. RidesMadeOnce'
  <2>1. PICK m : m = Len(graph_of_stops.edges)
    OBVIOUS
  <2>2. PICK x : x = RidesOfFirst(b - 1)
    OBVIOUS
  <2>3. m = StopCount + x + (IF backwards THEN Pairs(n) ELSE 0)
              + Pairs(n) - Pairs(n - from_it + 1) + (to_it - 1 - from_it)
    BY <1>1, <1>2, <2>1, <2>2 DEF RidesMadeOnce
  <2>4. /\ x \in Nat /\ Pairs(n) \in Nat /\ Pairs(0) = 0 /\ Pairs(1) = 0
        /\ RidesOfFirst(b) = x + (IF all_buses_[b].is_loop_trip THEN 1 ELSE 2) * Pairs(n)
    BY <1>1, <1>2, <1>3, <2>2, RidesAreCounted, PairsGrow
  <2>5. Pairs(n - from_it + 1) = 0 /\ to_it - 1 - from_it = 0
    <3>1. n - from_it + 1 \in {0, 1} /\ to_it - 1 - from_it = 0
      BY <1>3
    <3> QED BY <2>4, <3>1
  <2>6. m = StopCount + RidesOfFirst(b) /\ RidesOfFirst(b) \in Nat
    <3>1. CASE backwards
      BY <1>3, <2>3, <2>4, <2>5, <3>1, TransportRouterAssumption, SMTT(30)
    <3>2. CASE ~backwards
      BY <1>3, <2>3, <2>4, <2>5, <3>2, TransportRouterAssumption
    <3> QED BY <3>1, <3>2
  <2>7. RidesOfFirst(b)' = RidesOfFirst(b) /\ (b + 1) - 1 = b
    BY <1>2, <1>3, RoadsStay
  <2>8. PICK l \in Nat : l = Len(all_buses_) /\ DOMAIN all_buses_ = 1 .. l
    BY <1>3 DEF IsDatabase
  <2>9. b + 1 \notin DOMAIN all_buses_ => b + 1 = Len(all_buses_) + 1
    BY <1>2, <1>3, <2>8
  <2>10. ASSUME b + 1 \in DOMAIN all_buses_
         PROVE  LET o == Len(all_buses_[b + 1].stops) IN
                m = StopCount + RidesOfFirst(b) + 0 + Pairs(o) - Pairs(o - 1 + 1) + ((1 + 1) - 1 - 1)
    <3>1. PICK o : o = Len(all_buses_[b + 1].stops)
      OBVIOUS
    <3>2. PICK c \in DOMAIN all_buses_ : c = b + 1
      BY <2>10
    <3>3. o \in Nat /\ Pairs(o) \in Nat /\ o - 1 + 1 = o
      BY <1>3, <3>1, <3>2, RidesAreCounted
    <3> QED BY <2>6, <3>1, <3>3, TransportRouterAssumption
  <2> QED BY <1>2, <2>1, <2>6, <2>7, <2>9, <2>10 DEF RidesMadeOnce, Riding
<1>7. RInv'
  BY <1>2, RStepKeeps DEF Next
<1> QED BY <1>5, <1>6, <1>7 DEF RidesInv

LEMMA ThrowStep == RidesInv /\ ThrowNoLength => RidesInv'
<1> SUFFICES ASSUME RidesInv, ThrowNoLength PROVE RidesInv'
  OBVIOUS
<1>1. pc' = "thrown" /\ UNCHANGED <<db, built>>
  BY DEF ThrowNoLength, built, db
<1>2. TimesAddUp' /\ RidesAreReal' /\ RidesMade'
  <2>1. 1 \in Nat \ {0}
    OBVIOUS
  <2> QED BY <1>1, <2>1, NoRideStep
<1>3. RidesMadeOnce'
  BY <1>1 DEF RidesMadeOnce, Riding
<1>4. RInv'
  BY RStepKeeps DEF RidesInv, Next
<1> QED BY <1>2, <1>3, <1>4 DEF RidesInv

LEMMA FinishStep == RidesInv /\ Finish => RidesInv'
<1> SUFFICES ASSUME RidesInv, Finish PROVE RidesInv'
  OBVIOUS
<1>1. /\ pc = "edges" /\ pc' = "done" /\ bus > Len(all_buses_) /\ UNCHANGED <<db, built>>
      /\ UNCHANGED db /\ all_buses_' = all_buses_ /\ graph_of_stops' = graph_of_stops
      /\ bus' = bus /\ backwards' = backwards /\ from_it' = from_it /\ to_it' = to_it
      /\ IsDatabase /\ bus \in Nat
  BY DEF RidesInv, RInv, GraphInv, TypeOK, Finish, built, db, inner
<1>2. TimesAddUp' /\ RidesAreReal' /\ RidesMade'
  <2>1. ASSUME NEW c \in DOMAIN all_buses_, NEW to \in Directions(c), NEW p \in Places(c),
               Passed(c, to, p[1], p[2])'
        PROVE  IsMade(c, to, p[1], p[2])
    <3>1. Passed(c, to, p[1], p[2])
      BY <1>1, <2>1 DEF Passed
    <3> QED BY <1>1, <3>1, MadeBefore
  <2>2. 1 \in Nat \ {0}
    OBVIOUS
  <2> QED BY <1>1, <2>1, <2>2, NoRideStep
<1>3. RidesMadeOnce'
  <2>1. bus \notin DOMAIN all_buses_
    BY <1>1 DEF IsDatabase
  <2>2. PICK x : x = bus - 1
    OBVIOUS
  <2>3. RidesOfFirst(x)' = RidesOfFirst(x)
    BY <1>1, RoadsStay
  <2>4. /\ bus = Len(all_buses_) + 1
        /\ Len(graph_of_stops.edges) = StopCount + RidesOfFirst(x)
    BY <1>1, <2>1, <2>2 DEF RidesInv, RidesMadeOnce
  <2> QED BY <1>1, <2>2, <2>3, <2>4 DEF RidesMadeOnce, Riding
<1>4. RInv'
  BY RStepKeeps DEF RidesInv, Next
<1> QED BY <1>2, <1>3, <1>4 DEF RidesInv

LEMMA NoStep == RidesInv /\ UNCHANGED vars => RidesInv'
<1> SUFFICES ASSUME RidesInv, UNCHANGED vars PROVE RidesInv'
  OBVIOUS
<1>1. /\ UNCHANGED <<db, built>> /\ UNCHANGED <<db, stop_vertexs_>> /\ UNCHANGED db
      /\ all_buses_' = all_buses_ /\ graph_of_stops' = graph_of_stops /\ pc' = pc
      /\ stop_vertexs_' = stop_vertexs_ /\ info_about_edge' = info_about_edge
      /\ bus' = bus /\ backwards' = backwards /\ from_it' = from_it /\ to_it' = to_it
      /\ time_to_road' = time_to_road /\ stops_count' = stops_count
  BY DEF vars, built, db, inner
<1>2. PICK E : E = EdgeIds(graph_of_stops) /\ E = EdgeIds(graph_of_stops)'
  BY <1>1
<1>3. \A e \in E : /\ IsWait(e)' <=> IsWait(e)
                   /\ \A c, to, i, j : IsRide(e, c, to, i, j)' <=> IsRide(e, c, to, i, j)
  BY <1>1, OldEdgesStay
<1>4. /\ \A p, q : GetLenghtBetweenStops(p, q)' = GetLenghtBetweenStops(p, q)
      /\ \A way, i, j : RoadTime(way, i, j)' = RoadTime(way, i, j)
      /\ \A c, to : Way(c, to)' = Way(c, to)
      /\ \A c : Directions(c)' = Directions(c) /\ Places(c)' = Places(c)
      /\ \A k : RidesOfFirst(k)' = RidesOfFirst(k)
  BY <1>1, RoadsStay
<1>5. PICK way, F, T, b : /\ way = Stops /\ F = from_it /\ T = to_it - 1 /\ b = bus - 1
  OBVIOUS
<1>6. Stops' = way
  BY <1>1, <1>5 DEF Stops, Way
<1>7. TimesAddUp'
  <2>1. RoadTime(way, F, T)' = RoadTime(way, F, T)
    BY <1>4
  <2>2. \A k : GetLenghtBetweenStops(way[k - 1], way[k])' = GetLenghtBetweenStops(way[k - 1], way[k])
    BY <1>4
  <2>3. /\ pc = "vertices" => /\ time_to_road = 0 /\ stops_count = 0
                              /\ \A e \in E : IsWait(e)
        /\ Riding =>
             /\ backwards => ~all_buses_[bus].is_loop_trip
             /\ \A k \in F + 1 .. T : GetLenghtBetweenStops(way[k - 1], way[k]) \in Nat
             /\ time_to_road = RoadTime(way, F, T)
             /\ stops_count = T - F
    BY <1>2, <1>5 DEF RidesInv, TimesAddUp
  <2>4. Riding' <=> Riding
    BY <1>1 DEF Riding
  <2> QED BY <1>1, <1>2, <1>3, <1>5, <1>6, <2>1, <2>2, <2>3, <2>4 DEF TimesAddUp
<1>8. RidesAreReal'
  BY <1>1, <1>2, <1>3, <1>4 DEF RidesInv, RidesAreReal
<1>9. RidesMade'
  <2>1. ASSUME NEW c, NEW to, NEW i, NEW j
        PROVE  /\ IsMade(c, to, i, j)' <=> IsMade(c, to, i, j)
               /\ Passed(c, to, i, j)' <=> Passed(c, to, i, j)
    BY <1>1, <1>2, <1>3 DEF IsMade, Passed
  <2> QED BY <1>1, <1>4, <2>1 DEF RidesInv, RidesMade
<1>10. RidesMadeOnce'
  <2>1. RidesOfFirst(b)' = RidesOfFirst(b)
    BY <1>4
  <2> QED BY <1>1, <1>5, <2>1 DEF RidesInv, RidesMadeOnce, Riding
<1>11. RInv'
  BY RStepKeeps DEF RidesInv
<1> QED BY <1>7, <1>8, <1>9, <1>10, <1>11 DEF RidesInv

LEMMA InitRides == Init => RidesInv
<1> SUFFICES ASSUME Init PROVE RidesInv
  OBVIOUS
<1>1. /\ graph_of_stops.edges = << >> /\ EdgeIds(graph_of_stops) = {}
      /\ pc = "vertices" /\ time_to_road = 0 /\ stops_count = 0
  BY DEF Init, EmptyGraph, EdgeIds
<1> QED BY <1>1, InitKeeps
      DEF RidesInv, TimesAddUp, RidesAreReal, RidesMade, RidesMadeOnce, Riding

LEMMA RidesStep == RidesInv /\ [Next]_vars => RidesInv'
BY WaitStep, StartEdgesStep, RideStep, ThrowStep, NextFromStep, TurnBackStep, NextBusStep,
   FinishStep, NoStep DEF Next

LEMMA RidesInvariant == Spec => []RidesInv
BY InitRides, RidesStep, PTL DEF Spec

(* RidesComplete's own count of the rides is RidesOfFirst.                 *)
LEMMA RidesCountedAlike ==
  ASSUME IsDatabase
  PROVE  LET rides[b \in 0 .. Len(all_buses_)] ==
               IF b = 0 THEN 0
               ELSE LET n == Len(all_buses_[b].stops) IN
                    rides[b - 1] + (IF all_buses_[b].is_loop_trip THEN 1 ELSE 2)
                                      * ((n * (n - 1)) \div 2)
         IN rides[Len(all_buses_)] = RidesOfFirst(Len(all_buses_))
<1> DEFINE Adds(f) == f = [b \in 0 .. Len(all_buses_) |->
             IF b = 0 THEN 0
             ELSE LET n == Len(all_buses_[b].stops) IN
                  f[b - 1] + (IF all_buses_[b].is_loop_trip THEN 1 ELSE 2)
                                * ((n * (n - 1)) \div 2)]
<1>1. PICK l \in Nat : l = Len(all_buses_) /\ DOMAIN all_buses_ = 1 .. l
  BY DEF IsDatabase
<1>2. PICK counts : counts = RideCounts
  OBVIOUS
<1>3. \A b \in 1 .. l :
        counts[b] = LET n == Len(all_buses_[b].stops) IN
                    (IF all_buses_[b].is_loop_trip THEN 1 ELSE 2) * ((n * (n - 1)) \div 2)
  BY <1>1, <1>2 DEF RideCounts, Pairs
<1>4. ASSUME NEW f, Adds(f) PROVE IsSum(f, 0, l, counts)
  <2>1. DOMAIN f = 0 .. l
    BY <1>1, <1>4
  <2>2. f[0] = 0
    BY <1>1, <1>4
  <2>3. ASSUME NEW k \in 0 + 1 .. l PROVE f[k] = f[k - 1] + counts[k]
    <3>1. k \in 1 .. l /\ k \in 0 .. l /\ k # 0
      OBVIOUS
    <3> QED BY <1>1, <1>3, <1>4, <3>1
  <2> QED BY <2>1, <2>2, <2>3 DEF IsSum
<1>5. ASSUME NEW f \in [0 .. l -> Nat], IsSum(f, 0, l, counts) PROVE Adds(f)
  <2>1. ASSUME NEW b \in 0 .. l
        PROVE  f[b] = IF b = 0 THEN 0
                      ELSE LET n == Len(all_buses_[b].stops) IN
                           f[b - 1] + (IF all_buses_[b].is_loop_trip THEN 1 ELSE 2)
                                         * ((n * (n - 1)) \div 2)
    <3>1. CASE b = 0
      BY <1>5, <3>1 DEF IsSum
    <3>2. CASE b # 0
      <4>1. b \in 0 + 1 .. l /\ b \in 1 .. l
        BY <3>2
      <4> QED BY <1>3, <1>5, <3>2, <4>1 DEF IsSum
    <3> QED BY <3>1, <3>2
  <2> QED BY <1>1, <2>1
<1>6. \E g \in [0 .. l -> Nat] : IsSum(g, 0, l, counts)
  <2>1. \A b \in 0 + 1 .. l : counts[b] \in Nat
    BY <1>1, <1>2, RidesGrow
  <2>2. 0 \in Int /\ l \in Int /\ 0 <= l
    OBVIOUS
  <2> QED BY <2>1, <2>2, SumExists
<1>7. \E g : Adds(g)
  BY <1>5, <1>6
<1> HIDE DEF Adds
<1>8. PICK f : f = CHOOSE g : Adds(g)
  OBVIOUS
<1>9. IsSum(f, 0, l, counts)
  <2>1. Adds(f)
    BY <1>7, <1>8, Zenon
  <2> QED BY <1>4, <2>1
<1>10. f[l] = RidesOfFirst(l)
  <2>1. PICK g : IsSum(g, 0, l, counts) /\ RidesOfFirst(l) = g[l]
    BY <1>1, <1>2, RidesGrow
  <2>2. 0 \in Int /\ l \in Int /\ 0 <= l /\ l <= l
    OBVIOUS
  <2>3. f[l] = g[l]
    BY <1>9, <2>1, <2>2, SumsAgree
  <2> QED BY <2>1, <2>3
<1> QED BY <1>1, <1>8, <1>10 DEF Adds

LEMMA RidesAreComplete == RidesInv => RidesComplete
<1>1. ASSUME RidesInv, pc = "done"
      PROVE  \A b \in DOMAIN all_buses_ : \A back \in Directions(b) : \A p \in Places(b) :
               \E e \in EdgeIds(graph_of_stops) : ~IsWait(e) /\ IsRide(e, b, back, p[1], p[2])
  <2>1. bus > Len(all_buses_) /\ bus \in Nat /\ IsDatabase
    BY <1>1 DEF RidesInv, RInv, GraphInv, TypeOK, LoopsInOrder
  <2>2. \A b \in DOMAIN all_buses_ : b < bus
    BY <2>1 DEF IsDatabase
  <2> QED BY <1>1, <2>2 DEF RidesInv, RidesMade, Passed, IsMade
<1>2. ASSUME RidesInv, pc = "done"
      PROVE  Len(graph_of_stops.edges) = StopCount + RidesOfFirst(Len(all_buses_))
  <2>1. bus > Len(all_buses_) /\ bus \in Nat /\ IsDatabase
    BY <1>2 DEF RidesInv, RInv, GraphInv, TypeOK, LoopsInOrder
  <2>2. PICK l \in Nat : l = Len(all_buses_) /\ DOMAIN all_buses_ = 1 .. l
    BY <2>1 DEF IsDatabase
  <2>3. bus \notin DOMAIN all_buses_
    BY <2>1, <2>2
  <2>4. bus = l + 1 /\ Len(graph_of_stops.edges) = StopCount + RidesOfFirst(bus - 1)
    BY <1>2, <2>2, <2>3 DEF RidesInv, RidesMadeOnce
  <2>5. bus - 1 = l
    BY <2>4
  <2> QED BY <2>2, <2>4, <2>5
<1>3. SUFFICES ASSUME RidesInv, pc = "done" PROVE RidesComplete
  BY DEF RidesComplete
<1>4. IsDatabase
  BY <1>3 DEF RidesInv, RInv, GraphInv, TypeOK
<1> QED BY <1>1, <1>2, <1>3, <1>4, RidesCountedAlike DEF RidesComplete

(* Every ride in the graph, finished or not, is one that a bus makes, with *)
(* the time and the number of spans of the stretch it crosses.             *)
THEOREM RidesTakeTheirTime == Spec => []RidesAreReal
<1>1. RidesInv => RidesAreReal
  BY DEF RidesInv
<1> QED BY RidesInvariant, <1>1, PTL

(* The finished graph has every ride of every bus, and as many edges as    *)
(* there are rides and stops.                                              *)
THEOREM EveryRideOnce == Spec => []RidesComplete
BY RidesInvariant, RidesAreComplete, PTL
=============================================================================
