------------------------------- MODULE Reload -------------------------------
(***************************************************************************)
(* How the catalogue gets from one process to the other: make_base writes  *)
(* it into a message with TransportCatalogue::SaveToProto, and             *)
(* process_requests replays the message into an empty catalogue with       *)
(* DeserializeTransportCatalogue, by the same AddStop, AddBus and          *)
(* AddLenghtBetweenStops that built the first one.                         *)
(***************************************************************************)
EXTENDS Catalogue

VARIABLES
  stage,     \* "building", then what is being loaded, then "loaded"
  proto,     \* transport_catalogue_serialize::TransportCatalogue
  original,  \* history variable: the catalogue that was saved
  loaded,    \* how many stops, or buses, were replayed
  pending    \* the lengths yet to be replayed, in no particular order

catalogue == <<all_stops_, stops_, all_buses_, buses_, buses_in_stop_,
               length_between_stops_>>
progress == <<stage, loaded, pending>>
reloadVars == <<vars, progress, proto, original>>

-----------------------------------------------------------------------------
(* proto_stops: the place in the message of the stop of a name.            *)
ProtoStop(name) ==
  CHOOSE i \in DOMAIN all_stops_ :
    /\ all_stops_[i].name = name
    /\ \A j \in DOMAIN all_stops_ : j > i => all_stops_[j].name # name

SaveBusToProto(bus) ==
  [name |-> bus.name, is_loop |-> bus.is_loop_trip,
   stops |-> [i \in DOMAIN bus.stops |-> ProtoStop(all_stops_[bus.stops[i]].name)]]

(* Mutant of SaveLenghtToProto: from and to are swapped.                   *)
SaveLenghtSwapped(pair) ==
  [from |-> ProtoStop(all_stops_[pair[2]].name),
   to |-> ProtoStop(all_stops_[pair[1]].name),
   lenght |-> length_between_stops_[pair]]

SaveLenghtToProto(pair) ==
  [from |-> ProtoStop(all_stops_[pair[1]].name),
   to |-> ProtoStop(all_stops_[pair[2]].name),
   lenght |-> length_between_stops_[pair]]

(* The lengths come out of a hash map in any order, so they are a set.     *)
SavedCatalogue ==
  [stops |-> all_stops_,
   buses |-> [i \in DOMAIN all_buses_ |-> SaveBusToProto(all_buses_[i])],
   lenght_between_stops |-> {SaveLenghtToProto(p) : p \in DOMAIN length_between_stops_}]

-----------------------------------------------------------------------------
ReloadInit ==
  /\ Init
  /\ stage = "building"
  /\ proto = << >> /\ original = << >> /\ loaded = 0 /\ pending = {}

Build == stage = "building" /\ Next /\ UNCHANGED <<progress, proto, original>>

(* The catalogue of the new process is empty.                              *)
SaveToProto ==
  /\ stage = "building" /\ call = NoCall
  /\ proto' = SavedCatalogue
  /\ original' = catalogue
  /\ stage' = "stops" /\ loaded' = 0
  /\ pending' = proto'.lenght_between_stops
  /\ all_stops_' = << >> /\ stops_' = << >> /\ all_buses_' = << >>
  /\ buses_' = << >> /\ buses_in_stop_' = << >> /\ length_between_stops_' = << >>
  /\ UNCHANGED call

LoadStop ==
  /\ stage = "stops" /\ loaded < Len(proto.stops)
  /\ LET stop == proto.stops[loaded + 1] IN AddStop(stop.name, stop.coordinates)
  /\ loaded' = loaded + 1
  /\ UNCHANGED <<stage, pending, proto, original>>

(* AddBus for the next bus, with the names of its stops.                   *)
LoadBus ==
  /\ stage = "buses" /\ loaded < Len(proto.buses)
  /\ LET bus == proto.buses[loaded + 1]
         names == [i \in DOMAIN bus.stops |-> proto.stops[bus.stops[i]].name]
     IN BeginAddBus(bus.name, names, bus.is_loop)
  /\ loaded' = loaded + 1
  /\ UNCHANGED <<stage, pending, proto, original>>

LoadBusStops ==
  /\ stage = "buses"
  /\ AddBusStop \/ EndAddBus
  /\ UNCHANGED <<progress, proto, original>>

LoadLenght(distance) ==
  /\ stage = "lengths"
  /\ AddLenghtBetweenStops(proto.stops[distance.from].name,
                           proto.stops[distance.to].name, distance.lenght)
  /\ pending' = pending \ {distance}
  /\ UNCHANGED <<stage, loaded, proto, original>>

(* Mutant of NextList: the buses are replayed before the stops are all     *)
(* there.                                                                  *)
NextListEarly ==
  /\ call = NoCall
  /\ \/ stage = "stops" /\ stage' = "buses"
     \/ stage = "buses" /\ loaded = Len(proto.buses) /\ stage' = "lengths"
     \/ stage = "lengths" /\ pending = {} /\ stage' = "loaded"
  /\ loaded' = 0
  /\ UNCHANGED <<vars, pending, proto, original>>

(* From one list of the message to the next.                               *)
NextList ==
  /\ call = NoCall
  /\ \/ stage = "stops" /\ loaded = Len(proto.stops) /\ stage' = "buses"
     \/ stage = "buses" /\ loaded = Len(proto.buses) /\ stage' = "lengths"
     \/ stage = "lengths" /\ pending = {} /\ stage' = "loaded"
  /\ loaded' = 0
  /\ UNCHANGED <<vars, pending, proto, original>>

Loading ==
  \/ LoadStop \/ LoadBus \/ LoadBusStops \/ NextList
  \/ \E distance \in pending : LoadLenght(distance)

ReloadNext == Build \/ SaveToProto \/ Loading

ReloadSpec == ReloadInit /\ [][ReloadNext]_reloadVars

-----------------------------------------------------------------------------
(* The catalogue that was loaded is the catalogue that was saved, to the   *)
(* place of every stop and bus, the order of the buses at each stop, the   *)
(* generation a bus name leads to and the stops known only by name.        *)
LoadedIsSaved == stage = "loaded" => catalogue = original

(* Replaying buses and lengths never meets a stop that was not replayed:   *)
(* it would be created at the origin, behind the others.                   *)
NoStopInvented ==
  stage \in {"buses", "lengths", "loaded"} => all_stops_ = original[1] /\ stops_ = original[2]
=============================================================================
