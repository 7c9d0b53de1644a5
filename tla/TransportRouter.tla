-------------------------- MODULE TransportRouter --------------------------
(***************************************************************************)
(* transport_router::TransportRouter, in transport_router.{h,cpp}: how the *)
(* constructor turns the catalogue into a graph of stops.                  *)
(*                                                                         *)
(* Every stop becomes two vertices: a passenger who arrives at a stop is   *)
(* at its "in" vertex, waits along an edge to its "out" vertex and rides   *)
(* from there to the "in" vertex of any later stop of any bus.  There is   *)
(* one step per edge added; the loop variables of CreateEdge are variables *)
(* here.                                                                   *)
(*                                                                         *)
(* A stop is its place in all_stops_: the catalogue keeps one element per  *)
(* name (StopIndexExact of module Catalogue).  Time is counted in the time *)
(* a bus takes for one metre, 60 / (1000 * bus_velocity_) minutes, so that *)
(* the time of a road is its length; this supposes a velocity other than   *)
(* zero and arithmetic that does not round.                                *)
(***************************************************************************)
EXTENDS WeightedGraph, Maps

CONSTANTS
  StopCount,  \* db_.GetAllStops().size()
  BusNames,
  WaitTime,   \* settings_.bus_wait_time_
  NoLength,   \* no entry in length_between_stops_, in either direction
  NoSpan      \* an empty optional span_count_: a wait

ASSUME TransportRouterAssumption ==
  /\ StopCount \in Nat
  /\ WaitTime \in Nat
  /\ NoLength \notin Nat
  /\ NoSpan \notin Nat

VARIABLES
  all_buses_,             \* db_.GetAllBuses(), never changed
  length_between_stops_,  \* of db_, never changed
  graph_of_stops,
  total_vertex,
  stop_vertexs_,          \* stop -> [in, out]
  info_about_edge,        \* edge id -> ComponentTrip
  pc,                     \* "vertices", "edges", "done" or "thrown"
  bus,                    \* CreateGraph's loop: place in all_buses_
  backwards,              \* CreateEdge: in its second pair of loops
  from_it, to_it,         \* places in the bus's stops, or in them reversed
  time_to_road, stops_count

db == <<all_buses_, length_between_stops_>>
built == <<graph_of_stops, total_vertex, stop_vertexs_, info_about_edge>>
inner == <<from_it, to_it, time_to_road, stops_count>>
vars == <<db, built, pc, bus, backwards, inner>>

Stop == 1 .. StopCount
VertexCount == 2 * StopCount

Bus == [name : BusNames, stops : Seq(Stop), is_loop_trip : BOOLEAN]

-----------------------------------------------------------------------------
(* Mutant of GetLenghtBetweenStops: a length nobody gave is 0.             *)
LenghtOrZero(first, second) ==
  IF <<first, second>> \in DOMAIN length_between_stops_
    THEN length_between_stops_[<<first, second>>]
  ELSE IF <<second, first>> \in DOMAIN length_between_stops_
    THEN length_between_stops_[<<second, first>>]
  ELSE 0

(* The length given for the two stops in this order, or else in the other  *)
(* order, or else 0 from a stop to itself; the code throws for NoLength.   *)
GetLenghtBetweenStops(first, second) ==
  IF <<first, second>> \in DOMAIN length_between_stops_
    THEN length_between_stops_[<<first, second>>]
  ELSE IF <<second, first>> \in DOMAIN length_between_stops_
    THEN length_between_stops_[<<second, first>>]
  ELSE IF first = second THEN 0 ELSE NoLength

(* The stops of a bus in the order the running loops go through them.      *)
Way(b, back) ==
  LET stops == all_buses_[b].stops IN
  IF back THEN [i \in DOMAIN stops |-> stops[Len(stops) + 1 - i]] ELSE stops

(* info_about_edge.emplace(graph_of_stops.AddEdge(edge), ...).             *)
AddEdgeWithInfo(from, to, weight, name, span_count) ==
  /\ graph_of_stops' = AddEdge(graph_of_stops,
                               [from |-> from, to |-> to, weight |-> weight])
  /\ info_about_edge' = Insert(info_about_edge, Len(graph_of_stops.edges) + 1,
                               [name_ |-> name, weight_ |-> weight,
                                span_count_ |-> span_count])

(* Mutant of StartFrom: the time goes on adding up from the last start.    *)
StartFromAdding(f) ==
  /\ from_it' = f /\ to_it' = f + 1 /\ stops_count' = 0
  /\ UNCHANGED time_to_road

(* Both inner loops start with from_it at f and nothing added up.          *)
StartFrom(f) ==
  from_it' = f /\ to_it' = f + 1 /\ time_to_road' = 0 /\ stops_count' = 0

-----------------------------------------------------------------------------
IsDatabase ==
  /\ all_buses_ \in Seq(Bus)
  /\ DOMAIN length_between_stops_ \subseteq Stop \X Stop
  /\ length_between_stops_ \in [DOMAIN length_between_stops_ -> Nat]

Init ==
  /\ IsDatabase
  /\ graph_of_stops = EmptyGraph(VertexCount)
  /\ total_vertex = 0
  /\ stop_vertexs_ = << >>
  /\ info_about_edge = << >>
  /\ pc = "vertices"
  /\ bus = 1 /\ backwards = FALSE
  /\ from_it = 1 /\ to_it = 2 /\ time_to_road = 0 /\ stops_count = 0

(* Mutant of CreateVertex: the edge is added after total_vertex was        *)
(* advanced.                                                               *)
CreateVertexLate ==
  LET stop == Len(graph_of_stops.edges) + 1 IN
  /\ pc = "vertices"
  /\ stop \in Stop
  /\ stop_vertexs_' = Assign(stop_vertexs_, stop,
                             [in |-> total_vertex, out |-> total_vertex + 1])
  /\ total_vertex' = total_vertex + 2
  /\ AddEdgeWithInfo(total_vertex + 1, total_vertex + 2, WaitTime, stop, NoSpan)
  /\ UNCHANGED <<db, pc, bus, backwards, inner>>

(* For the next stop, which is the one after those that have vertices.     *)
CreateVertex ==
  LET stop == Len(graph_of_stops.edges) + 1 IN
  /\ pc = "vertices"
  /\ stop \in Stop
  /\ stop_vertexs_' = Assign(stop_vertexs_, stop,
                             [in |-> total_vertex, out |-> total_vertex + 1])
  /\ total_vertex' = total_vertex + 2
  /\ AddEdgeWithInfo(total_vertex, total_vertex + 1, WaitTime, stop, NoSpan)
  /\ UNCHANGED <<db, pc, bus, backwards, inner>>

StartEdges ==
  /\ pc = "vertices"
  /\ Len(graph_of_stops.edges) = StopCount
  /\ pc' = "edges"
  /\ UNCHANGED <<db, built, bus, backwards, inner>>

Riding == pc = "edges" /\ bus \in DOMAIN all_buses_
Stops == Way(bus, backwards)
NextLength == GetLenghtBetweenStops(Stops[to_it - 1], Stops[to_it])

(* Mutant of CreateEdge: a ride ends where the next begins, without a      *)
(* wait.                                                                   *)
CreateEdgeToOut ==
  /\ Riding /\ to_it <= Len(Stops)
  /\ NextLength # NoLength
  /\ time_to_road' = time_to_road + NextLength
  /\ stops_count' = stops_count + 1
  /\ AddEdgeWithInfo(stop_vertexs_[Stops[from_it]].out, stop_vertexs_[Stops[to_it]].out,
                     time_to_road', all_buses_[bus].name, stops_count')
  /\ to_it' = to_it + 1
  /\ UNCHANGED <<db, total_vertex, stop_vertexs_, pc, bus, backwards, from_it>>

CreateEdge ==
  /\ Riding /\ to_it <= Len(Stops)
  /\ NextLength # NoLength
  /\ time_to_road' = time_to_road + NextLength
  /\ stops_count' = stops_count + 1
  /\ AddEdgeWithInfo(stop_vertexs_[Stops[from_it]].out, stop_vertexs_[Stops[to_it]].in,
                     time_to_road', all_buses_[bus].name, stops_count')
  /\ to_it' = to_it + 1
  /\ UNCHANGED <<db, total_vertex, stop_vertexs_, pc, bus, backwards, from_it>>

(* "Not found Lenght between this stops" leaves the constructor.           *)
ThrowNoLength ==
  /\ Riding /\ to_it <= Len(Stops)
  /\ NextLength = NoLength
  /\ pc' = "thrown"
  /\ UNCHANGED <<db, built, bus, backwards, inner>>

NextFrom ==
  /\ Riding /\ to_it > Len(Stops) /\ from_it < Len(Stops)
  /\ StartFrom(from_it + 1)
  /\ UNCHANGED <<db, built, pc, bus, backwards>>

(* A bus that is not a loop also runs the other way.                       *)
TurnBack ==
  /\ Riding /\ to_it > Len(Stops) /\ from_it >= Len(Stops)
  /\ ~backwards /\ ~all_buses_[bus].is_loop_trip
  /\ backwards' = TRUE
  /\ StartFrom(1)
  /\ UNCHANGED <<db, built, pc, bus>>

(* Mutant of NextBus: no bus runs back.                                    *)
NextBusOneWay ==
  /\ Riding /\ to_it > Len(Stops) /\ from_it >= Len(Stops)
  /\ bus' = bus + 1 /\ backwards' = FALSE
  /\ StartFrom(1)
  /\ UNCHANGED <<db, built, pc>>

NextBus ==
  /\ Riding /\ to_it > Len(Stops) /\ from_it >= Len(Stops)
  /\ backwards \/ all_buses_[bus].is_loop_trip
  /\ bus' = bus + 1 /\ backwards' = FALSE
  /\ StartFrom(1)
  /\ UNCHANGED <<db, built, pc>>

Finish ==
  /\ pc = "edges" /\ bus > Len(all_buses_)
  /\ pc' = "done"
  /\ UNCHANGED <<db, built, bus, backwards, inner>>

Next ==
  \/ CreateVertex \/ StartEdges \/ CreateEdge \/ ThrowNoLength
  \/ NextFrom \/ TurnBack \/ NextBus \/ Finish

Spec == Init /\ [][Next]_vars

-----------------------------------------------------------------------------
TypeOK ==
  /\ IsDatabase
  /\ IsGraph(graph_of_stops, VertexCount)
  /\ total_vertex \in Nat
  /\ stop_vertexs_ \in [DOMAIN stop_vertexs_ -> [in : Nat, out : Nat]]
  /\ DOMAIN stop_vertexs_ \subseteq Stop
  /\ info_about_edge \in [DOMAIN info_about_edge ->
                            [name_ : BusNames \cup Stop, weight_ : Nat,
                             span_count_ : Nat \cup {NoSpan}]]
  /\ pc \in {"vertices", "edges", "done", "thrown"}
  /\ bus \in Nat /\ backwards \in BOOLEAN
  /\ from_it \in Nat /\ to_it \in Nat
  /\ time_to_road \in Nat /\ stops_count \in Nat

IsWait(e) == info_about_edge[e].span_count_ = NoSpan
From(e) == graph_of_stops.edges[e].from
To(e) == graph_of_stops.edges[e].to

(* Every edge has one description, of the same duration.  An edge is a     *)
(* wait at a stop, from its "in" to its "out", or a ride from the "out" of *)
(* a stop to the "in" of one: nobody boards without waiting and a ride     *)
(* always ends where one may leave.  Vertices of different stops differ.   *)
EdgesExplained ==
  /\ DOMAIN info_about_edge = EdgeIds(graph_of_stops)
  /\ \A e \in EdgeIds(graph_of_stops) :
       /\ info_about_edge[e].weight_ = graph_of_stops.edges[e].weight
       /\ IF IsWait(e)
            THEN /\ info_about_edge[e].name_ \in DOMAIN stop_vertexs_
                 /\ From(e) = stop_vertexs_[info_about_edge[e].name_].in
                 /\ To(e) = stop_vertexs_[info_about_edge[e].name_].out
            ELSE \E a, b \in DOMAIN stop_vertexs_ :
                   From(e) = stop_vertexs_[a].out /\ To(e) = stop_vertexs_[b].in
  /\ \A a, b \in DOMAIN stop_vertexs_ :
       /\ stop_vertexs_[a].in # stop_vertexs_[b].out
       /\ a # b => /\ stop_vertexs_[a].in # stop_vertexs_[b].in
                   /\ stop_vertexs_[a].out # stop_vertexs_[b].out

(* The time a bus takes along its way from one place in it to another.     *)
RoadTime(way, i, j) ==
  LET time[k \in i .. j] ==
        IF k = i THEN 0 ELSE time[k - 1] + GetLenghtBetweenStops(way[k - 1], way[k])
  IN time[j]

Directions(b) == IF all_buses_[b].is_loop_trip THEN {FALSE} ELSE BOOLEAN

(* Edge e is the ride with bus b from place i to place j of its way.       *)
IsRide(e, b, back, i, j) ==
  LET way == Way(b, back) IN
  /\ info_about_edge[e] = [name_ |-> all_buses_[b].name,
                           weight_ |-> RoadTime(way, i, j),
                           span_count_ |-> j - i]
  /\ From(e) = stop_vertexs_[way[i]].out
  /\ To(e) = stop_vertexs_[way[j]].in

Places(b) ==
  LET stops == DOMAIN all_buses_[b].stops IN {p \in stops \X stops : p[1] < p[2]}

(* Every ride in the graph is one a bus really makes, in the direction it  *)
(* runs, and its time and number of spans are those of the stretch between *)
(* the two places, however often the bus comes through the same stop.      *)
RidesAreReal ==
  \A e \in EdgeIds(graph_of_stops) :
    ~IsWait(e) => \E b \in DOMAIN all_buses_ : \E back \in Directions(b) :
                    \E p \in Places(b) : IsRide(e, b, back, p[1], p[2])

(* Every ride a bus makes is in the finished graph, and there is one edge  *)
(* for each of them and for each wait: none is missing and none is there   *)
(* twice.  A bus name added twice has the rides of both its routes.        *)
RidesComplete ==
  pc = "done" =>
    /\ \A b \in DOMAIN all_buses_ : \A back \in Directions(b) : \A p \in Places(b) :
         \E e \in EdgeIds(graph_of_stops) : ~IsWait(e) /\ IsRide(e, b, back, p[1], p[2])
    /\ LET rides[b \in 0 .. Len(all_buses_)] ==
             IF b = 0 THEN 0
             ELSE LET n == Len(all_buses_[b].stops) IN
                  rides[b - 1] + (IF all_buses_[b].is_loop_trip THEN 1 ELSE 2)
                                    * ((n * (n - 1)) \div 2)
       IN Len(graph_of_stops.edges) = StopCount + rides[Len(all_buses_)]

(* A stretch of a bus whose length nobody gave is never bridged: the       *)
(* graph is finished exactly if every stretch has a length.                *)
ThrowsForAGap ==
  LET gap == \E b \in DOMAIN all_buses_ : \E i \in 2 .. Len(all_buses_[b].stops) :
        LET p == all_buses_[b].stops[i - 1]
            q == all_buses_[b].stops[i]
        IN p # q /\ {<<p, q>>, <<q, p>>} \cap DOMAIN length_between_stops_ = {}
  IN (pc = "done" => ~gap) /\ (pc = "thrown" => gap)
=============================================================================
