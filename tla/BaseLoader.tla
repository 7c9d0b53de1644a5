----------------------------- MODULE BaseLoader -----------------------------
(***************************************************************************)
(* make_base: Reader::JSON_BaseRequest of json_reader.cpp, which fills a   *)
(* catalogue from a document and writes the base file.  It goes through    *)
(* the requests of the document twice, once for the buses and once for the *)
(* stops with their roads, and opens the file before it looks at any.      *)
(*                                                                         *)
(* A request is a record with the fields of both kinds; flawed says that   *)
(* one of the keys its reader asks for is not there or of another type.    *)
(* How the router is constructed is module TransportRouter; here it only   *)
(* matters whether the construction throws.                                *)
(***************************************************************************)
EXTENDS Catalogue, Integers

CONSTANTS
  NoType,     \* a request without a key "type"
  NotAnInt,   \* a road distance that is not an int
  Documents   \* the documents make_base may be given

Abs(n) == IF n < 0 THEN -n ELSE n

BusRequestOK(given) ==
  /\ given.name \in BusNames /\ given.stops \in Seq(StopNames)
  /\ given.is_roundtrip \in BOOLEAN

StopRequestOK(given) ==
  /\ given.name \in StopNames /\ given.coordinates \in Coordinates
  /\ \A road \in Elements(given.road_distances) :
       /\ road.from \in StopNames /\ road.to \in StopNames
       /\ road.lenght = NotAnInt \/ Abs(road.lenght) \in Lengths

(* base_requests and road_distances are read in an order, and the keys of  *)
(* a request that is not flawed are of the types their readers ask for.    *)
ASSUME BaseLoaderAssumption ==
  /\ NoType \notin {"Bus", "Stop"}
  /\ \A d \in Documents :
       /\ IsSequence(d.base_requests)
       /\ \A i \in DOMAIN d.base_requests :
            LET given == d.base_requests[i] IN
            /\ IsSequence(given.road_distances)
            /\ given.type = "Bus" /\ ~given.flawed => BusRequestOK(given)
            /\ given.type = "Stop" /\ ~given.flawed => StopRequestOK(given)

VARIABLES
  document,   \* [base_requests, missing]: missing is a key that is not there
  pc,         \* where JSON_BaseRequest is
  request,    \* its loop variable: place in base_requests
  roads,      \* the road_distances of the running JSON_ReaderStop yet to add
  base_file   \* "old" as it was, "empty" once opened, "written"

reader == <<document, pc, request, roads, base_file>>
loaderVars == <<vars, reader>>

Requests == document.base_requests
Request == Requests[request]

-----------------------------------------------------------------------------
LoaderInit ==
  /\ Init
  /\ document \in Documents
  /\ pc = "open" /\ request = 1 /\ roads = << >>
  /\ base_file = "old"

(* An exception leaves main: nothing is caught on the way.                 *)
Throw == pc' = "thrown" /\ UNCHANGED <<vars, document, request, roads>>

(* ofstream truncates the file it opens.                                   *)
OpenFile ==
  /\ pc = "open"
  /\ document.missing # "serialization_settings"
  /\ base_file' = "empty"
  /\ pc' = IF document.missing = "base_requests" THEN "thrown" ELSE "buses"
  /\ UNCHANGED <<vars, document, request, roads>>

NoFileName ==
  /\ pc = "open" /\ document.missing = "serialization_settings"
  /\ Throw /\ UNCHANGED base_file

(* The next request of the first pass: a Bus is read and added.            *)
ReadBus ==
  /\ pc = "buses" /\ call = NoCall /\ request <= Len(Requests)
  /\ \/ Request.type = NoType /\ Throw
     \/ Request.type = "Bus" /\ Request.flawed /\ Throw
     \/ /\ Request.type = "Bus" /\ ~Request.flawed
        /\ BeginAddBus(Request.name, Request.stops, Request.is_roundtrip)
        /\ request' = request + 1
        /\ UNCHANGED <<document, pc, roads>>
     \/ /\ Request.type \notin {NoType, "Bus"}
        /\ request' = request + 1
        /\ UNCHANGED <<vars, document, pc, roads>>
  /\ UNCHANGED base_file

AddBusStops ==
  /\ pc = "buses"
  /\ AddBusStop \/ EndAddBus
  /\ UNCHANGED reader

StartStops ==
  /\ pc = "buses" /\ call = NoCall /\ request > Len(Requests)
  /\ pc' = "stops" /\ request' = 1
  /\ UNCHANGED <<vars, document, roads, base_file>>

(* The next request of the second pass: a Stop is added, and its roads are *)
(* to be added next.                                                       *)
ReadStop ==
  /\ pc = "stops" /\ roads = << >> /\ request <= Len(Requests)
  /\ \/ Request.type = "Stop" /\ Request.flawed /\ Throw
     \/ /\ Request.type = "Stop" /\ ~Request.flawed
        /\ AddStop(Request.name, Request.coordinates)
        /\ roads' = Request.road_distances
        /\ request' = request + 1
        /\ UNCHANGED <<document, pc>>
     \/ /\ Request.type # "Stop"
        /\ request' = request + 1
        /\ UNCHANGED <<vars, document, pc, roads>>
  /\ UNCHANGED base_file

(* road_distances is a map, so its entries come in the order of the keys.  *)
ReadRoad ==
  /\ pc = "stops" /\ roads # << >>
  /\ LET road == Head(roads) IN
       \/ road.lenght = NotAnInt /\ Throw
       \/ /\ road.lenght # NotAnInt
          /\ AddLenghtBetweenStops(road.from, road.to, Abs(road.lenght))
          /\ roads' = Tail(roads)
          /\ UNCHANGED <<document, pc, request>>
  /\ UNCHANGED base_file

(* GetLenghtBetweenStops throws for some consecutive stops of some bus.    *)
HasGap ==
  \E b \in DOMAIN all_buses_ : \E i \in 2 .. Len(all_buses_[b].stops) :
    LET p == all_buses_[b].stops[i - 1]
        q == all_buses_[b].stops[i]
    IN p # q /\ {<<p, q>>, <<q, p>>} \cap DOMAIN length_between_stops_ = {}

(* Mutant of BuildRouter: the router is built whatever lengths there are.  *)
BuildRouterOverGaps ==
  /\ pc = "stops" /\ roads = << >> /\ request > Len(Requests)
  /\ document.missing # "routing_settings"
  /\ pc' = "serialize"
  /\ UNCHANGED <<vars, document, request, roads, base_file>>

BuildRouter ==
  /\ pc = "stops" /\ roads = << >> /\ request > Len(Requests)
  /\ \/ (document.missing = "routing_settings" \/ HasGap) /\ Throw
     \/ /\ document.missing # "routing_settings" /\ ~HasGap
        /\ pc' = "serialize"
        /\ UNCHANGED <<vars, document, request, roads>>
  /\ UNCHANGED base_file

(* JSON_ReaderMapSettings, then Serialization to the open file.            *)
Serialize ==
  /\ pc = "serialize"
  /\ \/ document.missing = "render_settings" /\ Throw /\ UNCHANGED base_file
     \/ /\ document.missing # "render_settings"
        /\ base_file' = "written"
        /\ pc' = "done"
        /\ UNCHANGED <<vars, document, request, roads>>

LoaderNext ==
  \/ OpenFile \/ NoFileName \/ ReadBus \/ AddBusStops \/ StartStops
  \/ ReadStop \/ ReadRoad \/ BuildRouter \/ Serialize

LoaderSpec == LoaderInit /\ [][LoaderNext]_loaderVars

-----------------------------------------------------------------------------
(* What the document says, read off it as a whole: its requests of a type, *)
(* in order; where a stop is; how far it is from one stop to another.      *)
OfType(type) == {i \in DOMAIN Requests : Requests[i].type = type}

FirstOf(places) == CHOOSE i \in places : \A j \in places : i <= j

NamedStops ==
  (UNION {Elements(Requests[i].stops) : i \in OfType("Bus")})
    \cup {Requests[i].name : i \in OfType("Stop")}
    \cup (UNION {{road.to : road \in Elements(Requests[i].road_distances)}
                  : i \in OfType("Stop")})

SaidCoordinates(name) ==
  LET said == {i \in OfType("Stop") : /\ Requests[i].name = name
                                      /\ Requests[i].coordinates # Origin}
  IN IF said = {} THEN Origin ELSE Requests[FirstOf(said)].coordinates

SaidLengths(from, to) ==
  UNION {{<<i, k>> : k \in {r \in DOMAIN Requests[i].road_distances :
                              /\ Requests[i].road_distances[r].from = from
                              /\ Requests[i].road_distances[r].to = to}}
         : i \in OfType("Stop")}

FirstLength(from, to) ==
  LET said == SaidLengths(from, to)
      i == FirstOf({p[1] : p \in said})
      k == FirstOf({p[2] : p \in {q \in said : q[1] = i}})
  IN Abs(Requests[i].road_distances[k].lenght)

NameOf(pointer) == all_stops_[pointer].name

(* Once the document is read, the catalogue is what the document says,     *)
(* wherever its stops stand among its buses: every stop that is mentioned  *)
(* and no other, each at the first place given for it that is not the      *)
(* origin; the buses in the order of their requests, with their stops in   *)
(* order; for two stops the first length given.                            *)
CatalogueIsWhatWasSaid ==
  pc \in {"serialize", "done"} =>
    /\ DOMAIN stops_ = NamedStops
    /\ \A n \in NamedStops : all_stops_[stops_[n]].coordinates = SaidCoordinates(n)
    /\ Len(all_buses_) = Cardinality(OfType("Bus"))
    /\ \A i \in OfType("Bus") :
         LET bus == all_buses_[Cardinality({j \in OfType("Bus") : j <= i})] IN
         /\ bus.name = Requests[i].name
         /\ bus.is_loop_trip = Requests[i].is_roundtrip
         /\ Len(bus.stops) = Len(Requests[i].stops)
         /\ \A k \in DOMAIN bus.stops : NameOf(bus.stops[k]) = Requests[i].stops[k]
    /\ \A p, q \in DOMAIN all_stops_ :
         IF SaidLengths(NameOf(p), NameOf(q)) = {}
           THEN <<p, q>> \notin DOMAIN length_between_stops_
           ELSE length_between_stops_[<<p, q>>] = FirstLength(NameOf(p), NameOf(q))

(* The file is complete only if nothing at all was wrong with the          *)
(* document; anything that is wrong after the file was opened leaves it    *)
(* empty, whatever it held before.                                         *)
AllOrEmpty ==
  /\ base_file = "written" =>
       /\ document.missing \notin {"base_requests", "routing_settings", "render_settings"}
       /\ \A i \in DOMAIN Requests :
            /\ Requests[i].type # NoType
            /\ Requests[i].type \in {"Bus", "Stop"} => ~Requests[i].flawed
            /\ Requests[i].type = "Stop" =>
                 \A road \in Elements(Requests[i].road_distances) : road.lenght # NotAnInt
       /\ ~HasGap
  /\ pc = "thrown" => base_file = IF document.missing = "serialization_settings"
                                    THEN "old" ELSE "empty"
=============================================================================
