------------------------------ MODULE Journey ------------------------------
(***************************************************************************)
(* The life of a TransportRouter after its graph is complete: make_base    *)
(* builds the routes and saves everything (SaveToProto), process_requests  *)
(* loads it in another process (DeserializeTransportRouter) and answers    *)
(* Route requests with it (GetRouteInfo).  No process both builds a router *)
(* and asks it.                                                            *)
(*                                                                         *)
(* The variables of TransportRouter are those of the process that has the  *)
(* router: make_base's until Load, process_requests' from then on.  How    *)
(* the catalogue itself is saved and loaded is module Reload.              *)
(***************************************************************************)
EXTENDS TransportRouter

CONSTANTS
  NoRoute, NoEdge,  \* as in RouteTable
  Unknown           \* a stop name that is in no catalogue

ASSUME JourneyAssumption ==
  /\ Unknown \notin Nat
  /\ NoEdge \notin Nat
  /\ NoRoute \notin Nat
  /\ NoRoute \notin [weight : Nat, prev_edge : Nat \cup {NoEdge}]

VARIABLES
  routes,    \* router_ptr_->routes_internal_data_
  through, phase,  \* graph::Router's constructor, as in RouteTable
  stage,     \* "creating", "saved" or "loaded"
  proto,     \* router_serialize::TransportRouter, in the base file
  asked,     \* the stops of the last Route request
  answer     \* what GetRouteInfo made of it

table == <<routes, through, phase>>
more == <<stage, proto, asked, answer>>
allVars == <<vars, table, more>>

Router == INSTANCE RouteTable WITH graph <- graph_of_stops

-----------------------------------------------------------------------------
(* SaveGraphToProto stores the source of an edge as its target, too.       *)
SaveGraphToProto ==
  [edges_ |-> [e \in EdgeIds(graph_of_stops) |->
                 [from |-> From(e), to |-> From(e),
                  weight |-> graph_of_stops.edges[e].weight]],
   incidence_lists_ |-> graph_of_stops.incidence_lists]

(* A message has no optional fields: a route that is not there is a record *)
(* of defaults with is_initialisation unset, and a missing prev_edge is a  *)
(* missing submessage.                                                     *)
SaveRouterToProto ==
  [from \in Router!Vertex |-> [to \in Router!Vertex |->
    IF routes[from][to] # NoRoute
      THEN [is_initialisation |-> TRUE, weight |-> routes[from][to].weight,
            prev_edge |-> IF routes[from][to].prev_edge # NoEdge
                            THEN <<routes[from][to].prev_edge>> ELSE << >>]
      ELSE [is_initialisation |-> FALSE, weight |-> 0, prev_edge |-> << >>]]]

SavedTrip(component) ==
  [name |-> component.name_, weight_ |-> component.weight_,
   span_count_ |-> IF component.span_count_ # NoSpan
                     THEN <<component.span_count_>> ELSE << >>]

(* Mutant of LoadedRoute: is_initialisation is not looked at.              *)
LoadedDefault(data) ==
  [weight |-> data.weight,
   prev_edge |-> IF data.prev_edge # << >> THEN data.prev_edge[1] ELSE NoEdge]

LoadedRoute(data) ==
  IF ~data.is_initialisation THEN NoRoute
  ELSE [weight |-> data.weight,
        prev_edge |-> IF data.prev_edge # << >> THEN data.prev_edge[1] ELSE NoEdge]

LoadedTrip(component) ==
  [name_ |-> component.name, weight_ |-> component.weight_,
   span_count_ |-> IF component.span_count_ # << >>
                     THEN component.span_count_[1] ELSE NoSpan]

-----------------------------------------------------------------------------
(* Each item's time is added to the total as the item is added.            *)
TotalTime(items) ==
  LET total[k \in 0 .. Len(items)] ==
        IF k = 0 THEN 0 ELSE total[k - 1] + items[k].weight_
  IN total[Len(items)]

Answer(outcome, items) ==
  [outcome |-> outcome, items_ |-> items, total_time |-> TotalTime(items)]

JourneyInit ==
  /\ Init
  /\ routes = Router!NoRoutes /\ through = 0 /\ phase = "new"
  /\ stage = "creating" /\ proto = << >>
  /\ asked = << >> /\ answer = Answer("none", << >>)

CreateGraph == stage = "creating" /\ Next /\ UNCHANGED <<table, more>>

(* router_ptr_ = new Router(graph_of_stops); RouteTable and Router model   *)
(* that constructor.                                                       *)
BuildRouter ==
  /\ stage = "creating" /\ pc = "done"
  /\ Router!Next
  /\ UNCHANGED <<vars, more>>

SaveToProto ==
  /\ stage = "creating" /\ Router!Built
  /\ proto' = [total_vertex_ |-> total_vertex,
               graph_of_stops_ |-> SaveGraphToProto,
               router |-> SaveRouterToProto,
               stop_vertexs_ |-> stop_vertexs_,
               info_about_edge |-> [e \in DOMAIN info_about_edge |->
                                      SavedTrip(info_about_edge[e])]]
  /\ stage' = "saved"
  /\ UNCHANGED <<vars, table, asked, answer>>

(* DeserializeTransportRouter makes everything anew from the message.  The *)
(* bus named in a ride and the stop named in a wait are looked up in the   *)
(* catalogue, which was loaded before.                                     *)
Load ==
  /\ stage = "saved"
  /\ graph_of_stops' = [edges |-> proto.graph_of_stops_.edges_,
                        incidence_lists |-> proto.graph_of_stops_.incidence_lists_]
  /\ routes' = [from \in DOMAIN proto.router |->
                  [to \in DOMAIN proto.router[from] |-> LoadedRoute(proto.router[from][to])]]
  /\ total_vertex' = proto.total_vertex_
  /\ stop_vertexs_' = proto.stop_vertexs_
  /\ info_about_edge' = [e \in DOMAIN proto.info_about_edge |->
                           LoadedTrip(proto.info_about_edge[e])]
  /\ stage' = "loaded"
  /\ UNCHANGED <<db, pc, bus, backwards, inner, through, phase, proto, asked, answer>>

Reached(from) == {v \in Router!Vertex : routes[from][v] # NoRoute}

(* Mutant of BuildRoute: the edges are not reversed.                       *)
BuildRouteBackwards(from, to) ==
  LET edges[v \in Reached(from)] ==
        LET last == routes[from][v].prev_edge IN
        IF last = NoEdge THEN << >> ELSE <<last>> \o edges[From(last)]
  IN edges[to]

(* Router::BuildRoute: the edges of a route, following last edges back to  *)
(* where it starts (module RouteQuery walks them one by one).              *)
BuildRoute(from, to) ==
  LET edges[v \in Reached(from)] ==
        LET last == routes[from][v].prev_edge IN
        IF last = NoEdge THEN << >> ELSE Append(edges[From(last)], last)
  IN edges[to]

(* Mutant of RouteInfo: the route is asked to the "out" of the second      *)
(* stop.                                                                   *)
RouteInfoToOut(from, to) ==
  LET edges == BuildRoute(stop_vertexs_[from].in, stop_vertexs_[to].out)
  IN Answer("route", [i \in DOMAIN edges |-> info_about_edge[edges[i]]])

RouteInfo(from, to) ==
  LET edges == BuildRoute(stop_vertexs_[from].in, stop_vertexs_[to].in)
  IN Answer("route", [i \in DOMAIN edges |-> info_about_edge[edges[i]]])

(* An unknown first stop is a logic_error, an unknown second one the       *)
(* out_of_range of stop_vertexs_.at.                                       *)
GetRouteInfo(from, to) ==
  /\ stage = "loaded"
  /\ asked' = <<from, to>>
  /\ answer' =
       IF from \notin DOMAIN stop_vertexs_ THEN Answer("logic_error", << >>)
       ELSE IF to \notin DOMAIN stop_vertexs_ THEN Answer("out_of_range", << >>)
       ELSE IF routes[stop_vertexs_[from].in][stop_vertexs_[to].in] = NoRoute
         THEN Answer("not found", << >>)
       ELSE RouteInfo(from, to)
  /\ UNCHANGED <<vars, table, stage, proto>>

JourneyNext ==
  \/ CreateGraph \/ BuildRouter \/ SaveToProto \/ Load
  \/ \E from, to \in Stop \cup {Unknown} : GetRouteInfo(from, to)

JourneySpec == JourneyInit /\ [][JourneyNext]_allVars

-----------------------------------------------------------------------------
(* What process_requests has loaded is what make_base had built, save for  *)
(* the targets of the edges, which nothing in process_requests reads.      *)
RouterSurvives ==
  [][stage = "saved" =>
       /\ routes' = routes
       /\ total_vertex' = total_vertex
       /\ stop_vertexs_' = stop_vertexs_
       /\ info_about_edge' = info_about_edge
       /\ graph_of_stops'.incidence_lists = graph_of_stops.incidence_lists
       /\ DOMAIN graph_of_stops'.edges = DOMAIN graph_of_stops.edges
       /\ \A e \in EdgeIds(graph_of_stops) :
            /\ graph_of_stops'.edges[e].from = From(e)
            /\ graph_of_stops'.edges[e].weight = graph_of_stops.edges[e].weight
    ]_allVars

(* The stretches passengers may ride, read off the catalogue alone.        *)
Rides ==
  UNION {UNION {{[name |-> all_buses_[b].name,
                  from |-> Way(b, back)[p[1]], to |-> Way(b, back)[p[2]],
                  time |-> RoadTime(Way(b, back), p[1], p[2]), spans |-> p[2] - p[1]]
                 : p \in Places(b)} : back \in Directions(b)} : b \in DOMAIN all_buses_}

(* The items can be travelled: wait where you are, ride with a bus that    *)
(* really goes from there, for the time and the number of spans said, to   *)
(* where you wait next or to the end; and so on, with no two waits or two  *)
(* rides in a row.                                                         *)
CanBeTravelled(items, from, to) ==
  LET stops == [k \in 1 .. Len(items) \div 2 + 1 |->
                  IF k = Len(items) \div 2 + 1 THEN to ELSE items[2 * k - 1].name_]
  IN /\ Len(items) % 2 = 0
     /\ stops[1] = from
     /\ \A k \in 1 .. Len(items) \div 2 :
          /\ items[2 * k - 1] = [name_ |-> stops[k], weight_ |-> WaitTime,
                                span_count_ |-> NoSpan]
          /\ \E ride \in Rides :
               /\ items[2 * k] = [name_ |-> ride.name, weight_ |-> ride.time,
                                 span_count_ |-> ride.spans]
               /\ ride.from = stops[k] /\ ride.to = stops[k + 1]

(* A route that was answered can be travelled.                             *)
JourneyCanBeTravelled ==
  answer.outcome = "route" => CanBeTravelled(answer.items_, asked[1], asked[2])

(* From the least times d of journeys with at most k rides come those with *)
(* at most k + 1: wait and ride once more, or stay.  NoLength stands for   *)
(* no journey.                                                             *)
JourneyTimes(d, stop) ==
  {d[ride.from] + WaitTime + ride.time :
     ride \in {ride \in Rides : ride.to = stop /\ d[ride.from] # NoLength}}
    \cup ({d[stop]} \ {NoLength})

OneRideMore(d) ==
  [stop \in Stop |->
     LET times == JourneyTimes(d, stop) IN
     IF times = {} THEN NoLength
                   ELSE CHOOSE x \in times : \A y \in times : x <= y]

Fastest(from) ==
  LET fastest[k \in 0 .. StopCount] ==
        IF k = 0 THEN [stop \in Stop |-> IF stop = from THEN 0 ELSE NoLength]
                 ELSE OneRideMore(fastest[k - 1])
  IN fastest[StopCount]

(* The total time answered is the least of all journeys between the two    *)
(* stops, a stop that no journey reaches is "not found", and the requests  *)
(* that throw are those that name an unknown stop.                         *)
JourneyIsFastest ==
  CASE answer.outcome = "route" ->
         answer.total_time = Fastest(asked[1])[asked[2]]
    [] answer.outcome = "not found" -> Fastest(asked[1])[asked[2]] = NoLength
    [] answer.outcome = "logic_error" -> asked[1] \notin Stop
    [] answer.outcome = "out_of_range" -> asked[1] \in Stop /\ asked[2] \notin Stop
    [] OTHER -> TRUE
=============================================================================
