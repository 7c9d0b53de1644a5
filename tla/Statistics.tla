----------------------------- MODULE Statistics -----------------------------
(***************************************************************************)
(* The answers to Bus and Stop requests: GetInfoBus and GetInfoStop of     *)
(* transport_catalogue.cpp, over the same buses and lengths that           *)
(* TransportRouter has made its graph of.  The catalogue and the router    *)
(* read the lengths with code of their own, which this module sets side by *)
(* side.                                                                   *)
(*                                                                         *)
(* Bus names are numbers, ordered as the strings they stand for.  A length *)
(* is counted in as many bits as IntBits says.  Of geo::ComputeDistance it *)
(* is only known that it does not depend on the direction: of two stops at *)
(* one spot it takes the arc cosine of a number that is 1 but for its      *)
(* rounding, which may be zero, a little more, or not a number.            *)
(***************************************************************************)
EXTENDS TransportRouter, Integers, FiniteSets

CONSTANTS
  UnknownBus, UnknownStop,  \* names that are not in the catalogue
  IntBits,                  \* the width of int: 32
  Distances,                \* what ComputeDistance may return, by pair of stops
  NaN                       \* not a number

ASSUME StatisticsAssumption ==
  /\ BusNames \subseteq Nat
  /\ IntBits \in Nat \ {0}
  /\ NaN \notin Int
  /\ \A distance \in Distances : \A s, t \in Stop :
       /\ distance[<<s, t>>] \in Nat \cup {NaN}
       /\ distance[<<s, t>>] = distance[<<t, s>>]

VARIABLE info   \* the last answer

statVars == <<vars, info>>

Info(asked, outcome) ==
  [asked |-> asked, outcome |-> outcome, quantity_stop |-> 0, unique_stops |-> 0,
   route_length |-> 0, line_length |-> 0, curvature |-> "none", buses |-> << >>]

-----------------------------------------------------------------------------
(* buses_.at(name): the bus added last under the name (BusIndexNewest of   *)
(* module Catalogue).                                                      *)
HasBus(name) == \E b \in DOMAIN all_buses_ : all_buses_[b].name = name

FindBus(name) ==
  CHOOSE b \in DOMAIN all_buses_ :
    /\ all_buses_[b].name = name
    /\ \A c \in DOMAIN all_buses_ : all_buses_[c].name = name => c <= b

(* Mutant of RoadBetween: the entry for the other direction is preferred.  *)
RoadBetweenSwapped(first, second) ==
  IF <<second, first>> \in DOMAIN length_between_stops_
    THEN length_between_stops_[<<second, first>>]
  ELSE IF <<first, second>> \in DOMAIN length_between_stops_
    THEN length_between_stops_[<<first, second>>]
  ELSE NoLength

(* The lambda of SummationLenght: unlike GetLenghtBetweenStops it has no   *)
(* length from a stop to itself unless one was given; at() throws.         *)
RoadBetween(first, second) ==
  IF <<first, second>> \in DOMAIN length_between_stops_
    THEN length_between_stops_[<<first, second>>]
  ELSE IF <<second, first>> \in DOMAIN length_between_stops_
    THEN length_between_stops_[<<second, first>>]
  ELSE NoLength

(* A bus that is no loop goes on with its stops reversed, without the one  *)
(* it turns at.                                                            *)
RoundTrip(b) ==
  IF all_buses_[b].is_loop_trip THEN Way(b, FALSE)
  ELSE Way(b, FALSE) \o Tail(Way(b, TRUE))

Legs(way) == [i \in 1 .. Len(way) - 1 |-> RoadBetween(way[i], way[i + 1])]

(* What the numbers of a sequence add up to.                               *)
Total(numbers) ==
  LET sum[i \in 0 .. Len(numbers)] == IF i = 0 THEN 0 ELSE sum[i - 1] + numbers[i]
  IN sum[Len(numbers)]

(* The sum is an int, as the 0 it starts from: it wraps.                   *)
Wrapped(n) ==
  LET m == n % 2 ^ IntBits IN IF m < 2 ^ (IntBits - 1) THEN m ELSE m - 2 ^ IntBits

SummationLenght(b) == Wrapped(Total(Legs(RoundTrip(b))))

(* SummationLineLenght: a bus that is no loop goes the same way back.      *)
SummationLineLenght(b, distance) ==
  LET way == Way(b, FALSE)
      legs == [i \in 1 .. Len(way) - 1 |-> distance[<<way[i], way[i + 1]>>]]
  IN IF NaN \in Elements(legs) THEN NaN
     ELSE (IF all_buses_[b].is_loop_trip THEN 1 ELSE 2) * Total(legs)

(* The quotient of two doubles.                                            *)
Curvature(route_length, line_length) ==
  IF line_length = NaN THEN "not a number"
  ELSE IF line_length # 0 THEN "number"
  ELSE IF route_length = 0 THEN "not a number" ELSE "infinite"

(* next(begin()) and pop_back() of an empty deque are undefined.           *)
BusAnswer(name, answer) ==
  LET b == FindBus(name)
      stops == all_buses_[b].stops
  IN \/ ~HasBus(name) /\ answer = Info(name, "no bus")
     \/ HasBus(name) /\ stops = << >> /\ answer = Info(name, "undefined")
     \/ /\ HasBus(name) /\ stops # << >>
        /\ NoLength \in Elements(Legs(RoundTrip(b)))
        /\ answer = Info(name, "thrown")
     \/ /\ HasBus(name) /\ stops # << >>
        /\ NoLength \notin Elements(Legs(RoundTrip(b)))
        /\ \E distance \in Distances : answer = [Info(name, "bus") EXCEPT
             !.line_length = SummationLineLenght(b, distance),
             !.curvature = Curvature(SummationLenght(b), SummationLineLenght(b, distance)),
             !.quantity_stop = IF all_buses_[b].is_loop_trip THEN Len(stops)
                                                             ELSE Len(stops) * 2 - 1,
             !.unique_stops = Cardinality(Elements(stops)),
             !.route_length = SummationLenght(b)]

GetInfoBus(name) == pc = "done" /\ BusAnswer(name, info') /\ UNCHANGED vars

(* The names in buses_in_stop_, each once (BusesInStopExact of module      *)
(* Catalogue), sorted.                                                     *)
StopAnswer(stop, answer) ==
  answer = IF stop \notin Stop THEN Info(stop, "no stop")
           ELSE [Info(stop, "stop") EXCEPT
              !.buses = InOrder({all_buses_[b].name : b \in {c \in DOMAIN all_buses_ :
                                   stop \in Elements(all_buses_[c].stops)}})]

GetInfoStop(stop) == pc = "done" /\ StopAnswer(stop, info') /\ UNCHANGED vars

StatInit == Init /\ info = Info(UnknownBus, "none")

StatNext ==
  \/ Next /\ UNCHANGED info
  \/ \E name \in BusNames \cup {UnknownBus} : GetInfoBus(name)
  \/ \E stop \in Stop \cup {UnknownStop} : GetInfoStop(stop)

StatSpec == StatInit /\ [][StatNext]_statVars

-----------------------------------------------------------------------------
StandsStill(b) ==
  \E i \in 2 .. Len(all_buses_[b].stops) :
    LET s == all_buses_[b].stops[i] IN
    all_buses_[b].stops[i - 1] = s /\ <<s, s>> \notin DOMAIN length_between_stops_

(* The weights of the edges that are the ride with a bus along its whole   *)
(* way.                                                                    *)
WholeRides(b, back) ==
  LET way == Way(b, back) IN
  {info_about_edge[e].weight_ :
     e \in {f \in EdgeIds(graph_of_stops) :
              /\ info_about_edge[f].name_ = all_buses_[b].name
              /\ info_about_edge[f].span_count_ = Len(way) - 1
              /\ From(f) = stop_vertexs_[way[1]].out
              /\ To(f) = stop_vertexs_[way[Len(way)]].in}}

(* The stops a bus of this name calls at with its rides.                   *)
CallsAt(name) ==
  {stop \in Stop : \E e \in EdgeIds(graph_of_stops) :
     /\ ~IsWait(e) /\ info_about_edge[e].name_ = name
     /\ From(e) = stop_vertexs_[stop].out \/ To(e) = stop_vertexs_[stop].in}

OnlyStandsAt(name) ==
  {stop \in Stop : \E b \in DOMAIN all_buses_ :
     all_buses_[b].name = name /\ all_buses_[b].stops = <<stop>>}

(* The curvature measures the same trip as the road length does, and is a  *)
(* number unless the bus has one stop, or two that follow each other at    *)
(* what ComputeDistance may take for one spot: one such pair is enough,    *)
(* however far the others are.                                             *)
CurvatureIsOfTheTrip ==
  info.outcome = "bus" =>
    LET b == FindBus(info.asked)
        trip == RoundTrip(b)
        apart(s, t) == \A distance \in Distances : distance[<<s, t>>] \notin {0, NaN}
        leg(distance, i) == distance[<<trip[i], trip[i + 1]>>]
    IN /\ \E distance \in Distances :
            LET legs == [i \in 1 .. Len(trip) - 1 |-> leg(distance, i)] IN
            info.line_length = IF NaN \in Elements(legs) THEN NaN ELSE Total(legs)
       /\ (Len(trip) > 1 /\ \A i \in 1 .. Len(trip) - 1 : apart(trip[i], trip[i + 1]))
            => info.curvature = "number"

(* The two readings of the catalogue agree.  A Bus request about a bus     *)
(* with a graph throws only if a stop follows itself with no length given, *)
(* which the router took for 0; else the road length is what the router    *)
(* rides along the whole way, there and (if it is no loop) back, as far as *)
(* an int holds it, and the stops are counted along that trip.  A Stop     *)
(* request lists, in order, the buses that have a ride from or to it.      *)
InfoAgreesWithRides ==
  /\ CurvatureIsOfTheTrip
  /\ info.outcome = "thrown" <=> /\ info.outcome \notin {"none", "stop", "no stop"}
                                 /\ HasBus(info.asked) /\ StandsStill(FindBus(info.asked))
  /\ info.outcome = "bus" =>
       LET b == FindBus(info.asked)
           n == Len(all_buses_[b].stops)
           out == IF n = 1 THEN {0} ELSE WholeRides(b, FALSE)
           home == IF n = 1 \/ all_buses_[b].is_loop_trip THEN {0} ELSE WholeRides(b, TRUE)
       IN /\ \E there \in out, back \in home : info.route_length = Wrapped(there + back)
          /\ info.quantity_stop = Len(RoundTrip(b))
          /\ info.unique_stops <= n
  /\ info.outcome = "stop" =>
       /\ \A name \in BusNames :
            name \in Elements(info.buses) <=>
              info.asked \in CallsAt(name) \cup OnlyStandsAt(name)
       /\ \A i \in 2 .. Len(info.buses) : info.buses[i - 1] < info.buses[i]
=============================================================================
