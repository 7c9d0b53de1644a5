----------------------------- MODULE Catalogue -----------------------------
(***************************************************************************)
(* The in-memory catalogue: class TransportCatalogue of                    *)
(* src/TransportSystem/transport_catalogue.{h,cpp}.                        *)
(*                                                                         *)
(* Two deques own the data (all_stops_, all_buses_), and hash maps keyed   *)
(* by name or by a pair of stops point into them.  A deque never moves an  *)
(* element on push_back, so a Stop* is modelled by the element's position  *)
(* in all_stops_ and a Bus* by its position in all_buses_.                 *)
(*                                                                         *)
(* AddStop and AddLenghtBetweenStops are one step each.  AddBus loops over *)
(* the stops it is given and updates four containers as it goes; it is     *)
(* modelled by its prologue, one step per iteration, and its epilogue,     *)
(* with the variable call holding the locals of the running call.          *)
(***************************************************************************)
EXTENDS Naturals, Sequences, FiniteSets, Maps

CONSTANTS
  StopNames,     \* names a stop can have
  BusNames,      \* names a bus can have
  Coordinates,   \* places on the globe
  Origin,        \* {0., 0.}: what a stop known only by name is given
  Lengths,       \* road lengths (uint32_t)
  StopLists,     \* the stop lists AddBus may be called with
  MaxBuses,      \* bound: AddBus calls in one behaviour
  MaxLengths,    \* bound: entries of length_between_stops_
  NoCall         \* no AddBus call is running

ASSUME CatalogueAssumption ==
  /\ Origin \in Coordinates
  /\ StopLists \subseteq Seq(StopNames)
  /\ Lengths \subseteq Nat
  /\ MaxBuses \in Nat
  /\ MaxLengths \in Nat
  /\ NoCall \notin [bus : BusNames, rest : Seq(StopNames), deq_stops : Seq(Nat)]

VARIABLES
  all_stops_,             \* deque<Stop>
  stops_,                 \* name -> Stop*
  all_buses_,             \* deque<Bus>
  buses_,                 \* name -> Bus*
  buses_in_stop_,         \* stop name -> deque of bus names
  length_between_stops_,  \* <<Stop*, Stop*>> -> length
  call                    \* the AddBus call in progress, or NoCall

vars == <<all_stops_, stops_, all_buses_, buses_, buses_in_stop_,
          length_between_stops_, call>>

StopVars == <<all_stops_, stops_>>
BusVars  == <<all_buses_, buses_, buses_in_stop_>>

Stop == [name : StopNames, coordinates : Coordinates]
Bus  == [name : BusNames, stops : Seq(Nat), is_loop_trip : BOOLEAN]
Call == [bus : BusNames, rest : Seq(StopNames), deq_stops : Seq(Nat)]

-----------------------------------------------------------------------------
(* Mutant of AddStopEffect: the index entry is made from the size before   *)
(* push_back.                                                              *)
AddStopBeforePush(name, location) ==
  \/ name \in DOMAIN stops_ /\ UNCHANGED StopVars
  \/ /\ name \notin DOMAIN stops_
     /\ all_stops_' = Append(all_stops_, [name |-> name, coordinates |-> location])
     /\ stops_' = Assign(stops_, name, Len(all_stops_))

(* Mutant of AddStopEffect: a placeholder is not overwritten, the stop is  *)
(* pushed again.                                                           *)
AddStopAnew(name, location) ==
  IF name \in DOMAIN stops_ /\ all_stops_[stops_[name]].coordinates # Origin
    THEN UNCHANGED StopVars
    ELSE /\ all_stops_' = Append(all_stops_, [name |-> name, coordinates |-> location])
         /\ stops_' = Assign(stops_, name, Len(all_stops_) + 1)

(* Mutant of AddStopEffect: a known stop is overwritten wherever it is.    *)
AddStopOverwrites(name, location) ==
  LET stop == [name |-> name, coordinates |-> location] IN
  IF name \in DOMAIN stops_
    THEN all_stops_' = [all_stops_ EXCEPT ![stops_[name]] = stop] /\ UNCHANGED stops_
    ELSE /\ all_stops_' = Append(all_stops_, stop)
         /\ stops_' = Assign(stops_, name, Len(all_stops_) + 1)

(* The whole of AddStop: a name that is already known is overwritten only  *)
(* while its coordinates are still {0., 0.}; a new name is pushed and      *)
(* indexed.                                                                *)
AddStopEffect(name, location) ==
  LET stop == [name |-> name, coordinates |-> location] IN
  \/ /\ name \in DOMAIN stops_
     /\ all_stops_[stops_[name]].coordinates = Origin
     /\ all_stops_' = [all_stops_ EXCEPT ![stops_[name]] = stop]
     /\ UNCHANGED stops_
  \/ /\ name \in DOMAIN stops_
     /\ all_stops_[stops_[name]].coordinates # Origin
     /\ UNCHANGED StopVars
  \/ /\ name \notin DOMAIN stops_
     /\ all_stops_' = Append(all_stops_, stop)
     /\ stops_' = Assign(stops_, name, Len(all_stops_) + 1)

(* `if (stops_.count(stop) != 0) ... else AddStop(stop, {})`, in AddBus    *)
(* and in AddLenghtBetweenStops.                                           *)
EnsureStop(name) ==
  \/ name \in DOMAIN stops_ /\ UNCHANGED StopVars
  \/ name \notin DOMAIN stops_ /\ AddStopEffect(name, Origin)

(* The bus names that pass through a stop; buses_in_stop_ has no entry for *)
(* a stop without buses.                                                   *)
BusesInStop(name) ==
  IF name \in DOMAIN buses_in_stop_ THEN buses_in_stop_[name] ELSE << >>

-----------------------------------------------------------------------------
Init ==
  /\ all_stops_ = << >>
  /\ stops_ = << >>
  /\ all_buses_ = << >>
  /\ buses_ = << >>
  /\ buses_in_stop_ = << >>
  /\ length_between_stops_ = << >>
  /\ call = NoCall

AddStop(name, location) ==
  /\ call = NoCall
  /\ AddStopEffect(name, location)
  /\ UNCHANGED <<BusVars, length_between_stops_, call>>

(* Mutant of BeginAddBus: insert for [], which keeps an older bus of the   *)
(* name.                                                                   *)
InsertBus(name, stops, is_loop) ==
  /\ call = NoCall
  /\ Len(all_buses_) < MaxBuses
  /\ all_buses_' = Append(all_buses_, [name |-> name, stops |-> << >>,
                                       is_loop_trip |-> is_loop])
  /\ buses_' = Insert(buses_, name, Len(all_buses_) + 1)
  /\ call' = [bus |-> name, rest |-> stops, deq_stops |-> << >>]
  /\ UNCHANGED <<StopVars, buses_in_stop_, length_between_stops_>>

(* AddBus, up to its loop: the new Bus is pushed with no stops and the     *)
(* name is (re)pointed at it, whether or not the name was known.           *)
BeginAddBus(name, stops, is_loop) ==
  /\ call = NoCall
  /\ Len(all_buses_) < MaxBuses
  /\ all_buses_' = Append(all_buses_, [name |-> name, stops |-> << >>,
                                       is_loop_trip |-> is_loop])
  /\ buses_' = Assign(buses_, name, Len(all_buses_) + 1)
  /\ call' = [bus |-> name, rest |-> stops, deq_stops |-> << >>]
  /\ UNCHANGED <<StopVars, buses_in_stop_, length_between_stops_>>

(* Mutant of AddBusStop: the bus is recorded at a stop on every visit.     *)
AddBusStopAgain ==
  /\ call # NoCall
  /\ call.rest # << >>
  /\ LET stop == Head(call.rest) IN
       /\ EnsureStop(stop)
       /\ call' = [call EXCEPT !.rest = Tail(@), !.deq_stops = Append(@, stops_'[stop])]
       /\ buses_in_stop_' = Assign(buses_in_stop_, stop, Append(BusesInStop(stop), call.bus))
  /\ UNCHANGED <<all_buses_, buses_, length_between_stops_>>

(* One iteration of AddBus's loop: the stop is created if it is unknown,   *)
(* its pointer collected, and the bus recorded once in the stop's list.    *)
AddBusStop ==
  /\ call # NoCall
  /\ call.rest # << >>
  /\ LET stop == Head(call.rest) IN
       /\ EnsureStop(stop)
       /\ call' = [call EXCEPT !.rest = Tail(@),
                               !.deq_stops = Append(@, stops_'[stop])]
       /\ buses_in_stop_' =
            IF call.bus \in Elements(BusesInStop(stop))
              THEN buses_in_stop_
              ELSE Assign(buses_in_stop_, stop, Append(BusesInStop(stop), call.bus))
  /\ UNCHANGED <<all_buses_, buses_, length_between_stops_>>

(* `buses_.at(name)->stops = deq_stops`.                                   *)
EndAddBus ==
  /\ call # NoCall
  /\ call.rest = << >>
  /\ all_buses_' = [all_buses_ EXCEPT ![buses_[call.bus]].stops = call.deq_stops]
  /\ call' = NoCall
  /\ UNCHANGED <<StopVars, buses_, buses_in_stop_, length_between_stops_>>

(* The first stop must be known (stops_.at throws otherwise); the second   *)
(* is created if it is not.  unordered_map::insert keeps an entry that is  *)
(* already there.                                                          *)
AddLenghtBetweenStops(first, second, lenght) ==
  /\ call = NoCall
  /\ first \in DOMAIN stops_
  /\ EnsureStop(second)
  /\ LET pair == <<stops_'[first], stops_'[second]>> IN
       /\ Cardinality(DOMAIN length_between_stops_ \cup {pair}) <= MaxLengths
       /\ length_between_stops_' = Insert(length_between_stops_, pair, lenght)
  /\ UNCHANGED <<BusVars, call>>

Next ==
  \/ \E name \in StopNames, location \in Coordinates : AddStop(name, location)
  \/ \E name \in BusNames, stops \in StopLists, is_loop \in BOOLEAN :
        BeginAddBus(name, stops, is_loop)
  \/ AddBusStop
  \/ EndAddBus
  \/ \E first, second \in StopNames, lenght \in Lengths :
        AddLenghtBetweenStops(first, second, lenght)

Spec == Init /\ [][Next]_vars

-----------------------------------------------------------------------------
(* Every container holds what its C++ type says, and every stored pointer  *)
(* is the address of an element that exists.                               *)
TypeOK ==
  /\ all_stops_ \in Seq(Stop)
  /\ stops_ \in [DOMAIN stops_ -> DOMAIN all_stops_]
  /\ DOMAIN stops_ \subseteq StopNames
  /\ all_buses_ \in Seq(Bus)
  /\ \A i \in DOMAIN all_buses_ : Elements(all_buses_[i].stops) \subseteq DOMAIN all_stops_
  /\ buses_ \in [DOMAIN buses_ -> DOMAIN all_buses_]
  /\ DOMAIN buses_ \subseteq BusNames
  /\ buses_in_stop_ \in [DOMAIN buses_in_stop_ -> Seq(BusNames)]
  /\ DOMAIN buses_in_stop_ \subseteq DOMAIN stops_
  /\ length_between_stops_ \in [DOMAIN length_between_stops_ -> Lengths]
  /\ DOMAIN length_between_stops_ \subseteq (DOMAIN all_stops_) \X (DOMAIN all_stops_)
  /\ call \in Call \cup {NoCall}
  /\ call # NoCall => Elements(call.deq_stops) \subseteq DOMAIN all_stops_

(* stops_ and all_stops_ describe the same stops: each name leads to the   *)
(* one element that carries it and each element is reached by its own      *)
(* name.  AddStop, AddBus and AddLenghtBetweenStops all create stops, in   *)
(* any order; a second element for a name, or an index entry that went     *)
(* stale when a placeholder was overwritten, would split a stop in two.    *)
StopIndexExact ==
  /\ \A n \in DOMAIN stops_ : all_stops_[stops_[n]].name = n
  /\ \A i \in DOMAIN all_stops_ :
        all_stops_[i].name \in DOMAIN stops_ /\ stops_[all_stops_[i].name] = i

(* A bus name leads to the newest Bus of that name, and every Bus's name   *)
(* is known: what GetInfoBus and the map answer after a name was given to  *)
(* AddBus twice.                                                           *)
BusIndexNewest ==
  /\ \A i \in DOMAIN all_buses_ : all_buses_[i].name \in DOMAIN buses_
  /\ \A n \in DOMAIN buses_ :
        /\ all_buses_[buses_[n]].name = n
        /\ \A j \in DOMAIN all_buses_ : j > buses_[n] => all_buses_[j].name # n

(* The stops the i-th Bus is known to pass: its stops, or for the bus      *)
(* being added the pointers collected so far.                              *)
StopsOf(i) ==
  IF call # NoCall /\ i = Len(all_buses_) THEN call.deq_stops
                                          ELSE all_buses_[i].stops

Passes(bus, stop) ==
  \E i \in DOMAIN all_buses_ :
    /\ all_buses_[i].name = bus
    /\ stop \in DOMAIN stops_ /\ stops_[stop] \in Elements(StopsOf(i))

(* buses_in_stop_, the reverse index GetInfoStop answers from, lists a bus *)
(* at a stop exactly when some Bus ever added under that name passes the   *)
(* stop, and lists it once, however often the route visits the stop and    *)
(* however often the name was added.                                       *)
BusesInStopExact ==
  \A stop \in StopNames :
    /\ \A bus \in BusNames : bus \in Elements(BusesInStop(stop)) <=> Passes(bus, stop)
    /\ \A i, j \in DOMAIN BusesInStop(stop) :
          BusesInStop(stop)[i] = BusesInStop(stop)[j] => i = j

(* Addresses handed out stay good: an element of all_stops_ keeps its      *)
(* place and its name for ever, and its coordinates from the moment they   *)
(* are not the placeholder's.  The string_view keys of three maps, every   *)
(* Bus::stops and every key of length_between_stops_ depend on it.         *)
StopsStayPut ==
  [][\A i \in DOMAIN all_stops_ :
        /\ i \in DOMAIN all_stops_'
        /\ all_stops_'[i].name = all_stops_[i].name
        /\ all_stops_[i].coordinates # Origin => all_stops_'[i] = all_stops_[i]]_vars
=============================================================================
