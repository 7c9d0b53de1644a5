--------------------------- MODULE CatalogueProofs ---------------------------
(***************************************************************************)
(* Theorems about the catalogue and its way from a document to the process *)
(* that answers from it, in three parts.                                   *)
(*                                                                         *)
(* Catalogue: its containers stay well-typed with every stored address     *)
(* valid, the two indexes by name stay exact, and elements stay where they *)
(* are, whatever the names, stop lists and lengths are and in whatever     *)
(* order AddStop, AddBus and AddLenghtBetweenStops are called.             *)
(*                                                                         *)
(* BaseLoader: the base file is complete only if nothing was wrong with    *)
(* the document, and the catalogue written to it is what the document      *)
(* says.                                                                   *)
(*                                                                         *)
(* Reload: the catalogue that is loaded is the one that was saved.         *)
(***************************************************************************)
EXTENDS BaseLoader, Reload, WellFoundedInduction, FiniteSetTheorems, TLAPS

(* The bus being added is the newest one, and still has no stops.          *)
CallIsNewest ==
  call # NoCall =>
    /\ Len(all_buses_) > 0
    /\ all_buses_[Len(all_buses_)].name = call.bus
    /\ all_buses_[Len(all_buses_)].stops = << >>

IInv == TypeOK /\ StopIndexExact /\ BusIndexNewest /\ CallIsNewest

(* The part of the invariant that creating a stop is about.                *)
StopsOK ==
  /\ all_stops_ \in Seq(Stop)
  /\ stops_ \in [DOMAIN stops_ -> DOMAIN all_stops_]
  /\ DOMAIN stops_ \subseteq StopNames
  /\ StopIndexExact

(* Stops are only added: addresses, names and index entries remain.        *)
StopsGrow ==
  /\ Len(all_stops_) <= Len(all_stops_')
  /\ \A i \in DOMAIN all_stops_ :
       /\ i \in DOMAIN all_stops_'
       /\ all_stops_'[i].name = all_stops_[i].name
       /\ all_stops_[i].coordinates # Origin => all_stops_'[i] = all_stops_[i]
  /\ \A n \in DOMAIN stops_ : n \in DOMAIN stops_' /\ stops_'[n] = stops_[n]

-----------------------------------------------------------------------------
(* Induction over the numbers: a set of them has a least one.              *)
LEMMA LeastNat ==
  ASSUME NEW T \in SUBSET Nat, T # {}
  PROVE  \E x \in T : \A y \in T : x <= y
<1> DEFINE R == {ss \in Nat \X Nat : ss[1] < ss[2]}
<1>1. IsWellFoundedOn(R, Nat)
  BY NatLessThanWellFounded DEF OpToRel
<1>2. PICK x \in T : \A y \in T : ~ (<<y, x>> \in R)
  <2> HIDE DEF R
  <2> QED BY <1>1, WFMin
<1>3. \A y \in T : y \in Nat /\ x \in Nat /\ ~(y < x)
  BY <1>2
<1> QED BY <1>3

LEMMA AssignProperties ==
  ASSUME NEW map, NEW key, NEW value, NEW V, map \in [DOMAIN map -> V], value \in V
  PROVE  /\ DOMAIN Assign(map, key, value) = DOMAIN map \cup {key}
         /\ Assign(map, key, value) \in [DOMAIN map \cup {key} -> V]
         /\ Assign(map, key, value)[key] = value
         /\ \A k \in DOMAIN map : k # key => Assign(map, key, value)[k] = map[k]
BY DEF Assign

LEMMA AppendProps ==
  ASSUME NEW S, NEW s \in Seq(S), NEW e \in S
  PROVE  /\ Append(s, e) \in Seq(S)
         /\ Len(s) \in Nat
         /\ DOMAIN s = 1 .. Len(s)
         /\ Len(Append(s, e)) = Len(s) + 1
         /\ DOMAIN Append(s, e) = DOMAIN s \cup {Len(s) + 1}
         /\ Len(s) + 1 \notin DOMAIN s
         /\ Append(s, e)[Len(s) + 1] = e
         /\ \A i \in DOMAIN s : Append(s, e)[i] = s[i]
OBVIOUS

(* AddStop keeps the stops exact, whichever of its branches it takes.      *)
LEMMA AddStopEffectKeeps ==
  ASSUME StopsOK, NEW n \in StopNames, NEW c \in Coordinates, AddStopEffect(n, c)
  PROVE  StopsOK' /\ StopsGrow /\ n \in DOMAIN stops_'
<1> DEFINE stop == [name |-> n, coordinates |-> c]
<1>0. /\ stop \in Stop /\ stop.name = n
      /\ all_stops_ \in Seq(Stop) /\ DOMAIN all_stops_ = 1 .. Len(all_stops_)
      /\ Len(all_stops_) \in Nat
      /\ \A m \in DOMAIN stops_ : stops_[m] \in DOMAIN all_stops_
      /\ \A m \in DOMAIN stops_ : all_stops_[stops_[m]].name = m
      /\ \A i \in DOMAIN all_stops_ :
            all_stops_[i].name \in DOMAIN stops_ /\ stops_[all_stops_[i].name] = i
  BY DEF Stop, StopsOK, StopIndexExact
<1>1. CASE /\ n \in DOMAIN stops_
           /\ all_stops_[stops_[n]].coordinates = Origin
           /\ all_stops_' = [all_stops_ EXCEPT ![stops_[n]] = stop]
           /\ UNCHANGED stops_
  <2> DEFINE p == stops_[n]
  <2>1. p \in DOMAIN all_stops_ /\ all_stops_[p].name = n
    BY <1>0, <1>1
  <2>2. /\ all_stops_' \in Seq(Stop) /\ Len(all_stops_') = Len(all_stops_)
        /\ DOMAIN all_stops_' = DOMAIN all_stops_
        /\ all_stops_'[p] = stop
        /\ \A i \in DOMAIN all_stops_ : i # p => all_stops_'[i] = all_stops_[i]
    BY <1>0, <1>1, <2>1
  <2>3. \A i \in DOMAIN all_stops_ : all_stops_'[i].name = all_stops_[i].name
    BY <1>0, <2>1, <2>2
  <2>4. StopsOK'
    BY <1>0, <1>1, <2>2, <2>3 DEF StopsOK, StopIndexExact
  <2>5. StopsGrow
    BY <1>0, <1>1, <2>2, <2>3 DEF StopsGrow
  <2> QED BY <1>1, <2>4, <2>5
<1>2. CASE n \in DOMAIN stops_ /\ UNCHANGED StopVars
  BY <1>0, <1>2 DEF StopVars, StopsOK, StopIndexExact, StopsGrow
<1>3. CASE /\ n \notin DOMAIN stops_
           /\ all_stops_' = Append(all_stops_, stop)
           /\ stops_' = Assign(stops_, n, Len(all_stops_) + 1)
  <2> DEFINE p == Len(all_stops_) + 1
  <2>1. /\ all_stops_' \in Seq(Stop)
        /\ Len(all_stops_') = p
        /\ DOMAIN all_stops_' = DOMAIN all_stops_ \cup {p}
        /\ p \notin DOMAIN all_stops_
        /\ all_stops_'[p] = stop
        /\ \A i \in DOMAIN all_stops_ : all_stops_'[i] = all_stops_[i]
    BY <1>0, <1>3, AppendProps
  <2> HIDE DEF p
  <2>2. /\ DOMAIN stops_' = DOMAIN stops_ \cup {n}
        /\ stops_' \in [DOMAIN stops_' -> DOMAIN all_stops_']
        /\ stops_'[n] = p
        /\ \A k \in DOMAIN stops_ : stops_'[k] = stops_[k]
    <3>1. stops_ \in [DOMAIN stops_ -> DOMAIN all_stops_']
      BY <2>1 DEF StopsOK
    <3>2. stops_' = Assign(stops_, n, p) /\ p \in DOMAIN all_stops_'
      BY <1>3, <2>1 DEF p
    <3> QED BY <1>3, <3>1, <3>2 DEF Assign
  <2> HIDE DEF stop
  <2>3. StopIndexExact'
    <3>1. \A m \in DOMAIN stops_' : all_stops_'[stops_'[m]].name = m
      BY <1>0, <2>1, <2>2
    <3>2. \A i \in DOMAIN all_stops_' : /\ all_stops_'[i].name \in DOMAIN stops_'
                                         /\ stops_'[all_stops_'[i].name] = i
      BY <1>0, <2>1, <2>2
    <3> QED BY <3>1, <3>2 DEF StopIndexExact
  <2>4. StopsOK'
    BY <2>1, <2>2, <2>3 DEF StopsOK
  <2>5. StopsGrow
    BY <1>0, <2>1, <2>2 DEF StopsGrow, p
  <2> QED BY <2>2, <2>4, <2>5
<1> QED BY <1>1, <1>2, <1>3 DEF AddStopEffect, StopVars

LEMMA EnsureStopKeeps ==
  ASSUME StopsOK, NEW n \in StopNames, EnsureStop(n)
  PROVE  StopsOK' /\ StopsGrow /\ n \in DOMAIN stops_'
<1>1. CASE n \in DOMAIN stops_ /\ UNCHANGED StopVars
  BY <1>1 DEF StopVars, StopsOK, StopIndexExact, StopsGrow
<1>2. CASE n \notin DOMAIN stops_ /\ AddStopEffect(n, Origin)
  BY <1>2, AddStopEffectKeeps, CatalogueAssumption
<1> QED BY <1>1, <1>2 DEF EnsureStop

(* Addresses that were valid stay valid when stops are only added.         *)
LEMMA AddressesStayValid ==
  ASSUME TypeOK, StopsOK', StopsGrow,
         UNCHANGED <<BusVars, length_between_stops_, call>>
  PROVE  TypeOK'
<1>1. DOMAIN all_stops_ \subseteq DOMAIN all_stops_' /\ DOMAIN stops_ \subseteq DOMAIN stops_'
  BY DEF StopsGrow
<1> QED BY <1>1 DEF TypeOK, StopsOK, BusVars

LEMMA InitEstablishes == Init => IInv
<1> SUFFICES ASSUME Init PROVE IInv
  OBVIOUS
<1>1. TypeOK
  BY DEF Init, TypeOK, Elements
<1>2. StopIndexExact /\ BusIndexNewest /\ CallIsNewest
  BY DEF Init, StopIndexExact, BusIndexNewest, CallIsNewest
<1> QED BY <1>1, <1>2 DEF IInv

LEMMA AddStopKeeps ==
  ASSUME IInv, NEW n \in StopNames, NEW c \in Coordinates, AddStop(n, c)
  PROVE  IInv' /\ StopsGrow
<1>1. StopsOK
  BY DEF IInv, TypeOK, StopsOK
<1>2. StopsOK' /\ StopsGrow
  BY <1>1, AddStopEffectKeeps DEF AddStop
<1>3. TypeOK'
  BY <1>2, AddressesStayValid DEF IInv, AddStop
<1>4. BusIndexNewest' /\ CallIsNewest'
  BY DEF IInv, AddStop, BusVars, BusIndexNewest, CallIsNewest
<1> QED BY <1>2, <1>3, <1>4 DEF IInv, StopsOK

LEMMA AddLenghtKeeps ==
  ASSUME IInv, NEW first \in StopNames, NEW second \in StopNames, NEW lenght \in Lengths,
         AddLenghtBetweenStops(first, second, lenght)
  PROVE  IInv' /\ StopsGrow
<1>1. StopsOK
  BY DEF IInv, TypeOK, StopsOK
<1>2. StopsOK' /\ StopsGrow /\ second \in DOMAIN stops_' /\ first \in DOMAIN stops_'
  BY <1>1, EnsureStopKeeps DEF AddLenghtBetweenStops, StopsGrow
<1> DEFINE pair == <<stops_'[first], stops_'[second]>>
           pairs == (DOMAIN all_stops_') \X (DOMAIN all_stops_')
<1>3. pair \in pairs
  BY <1>2 DEF StopsOK
<1>4. /\ length_between_stops_' \in [DOMAIN length_between_stops_' -> Lengths]
      /\ DOMAIN length_between_stops_' \subseteq pairs
  <2>1. /\ length_between_stops_ \in [DOMAIN length_between_stops_ -> Lengths]
        /\ DOMAIN length_between_stops_ \subseteq pairs
    BY <1>2 DEF IInv, TypeOK, StopsGrow
  <2>2. length_between_stops_' = Insert(length_between_stops_, pair, lenght)
    BY DEF AddLenghtBetweenStops
  <2> HIDE DEF pair, pairs
  <2> QED BY <1>3, <2>1, <2>2 DEF Insert, Assign
<1>5. UNCHANGED <<BusVars, call>>
  BY DEF AddLenghtBetweenStops
<1>6. DOMAIN all_stops_ \subseteq DOMAIN all_stops_' /\ DOMAIN stops_ \subseteq DOMAIN stops_'
  BY <1>2 DEF StopsGrow
<1>7. TypeOK'
  BY <1>2, <1>4, <1>5, <1>6 DEF IInv, TypeOK, StopsOK, BusVars
<1>8. BusIndexNewest' /\ CallIsNewest'
  BY <1>5 DEF IInv, BusVars, BusIndexNewest, CallIsNewest
<1> QED BY <1>2, <1>7, <1>8 DEF IInv, StopsOK

LEMMA BeginAddBusKeeps ==
  ASSUME IInv, NEW n \in BusNames, NEW stops \in Seq(StopNames), NEW is_loop \in BOOLEAN,
         BeginAddBus(n, stops, is_loop)
  PROVE  IInv'
<1> DEFINE bus == [name |-> n, stops |-> << >>, is_loop_trip |-> is_loop]
           p == Len(all_buses_) + 1
<1>0. bus \in Bus /\ bus.name = n /\ bus.stops = << >>
  BY DEF Bus
<1> HIDE DEF bus
<1>1. /\ all_buses_' \in Seq(Bus) /\ Len(all_buses_') = p /\ Len(all_buses_) \in Nat
      /\ DOMAIN all_buses_ = 1 .. Len(all_buses_)
      /\ DOMAIN all_buses_' = DOMAIN all_buses_ \cup {p}
      /\ p \notin DOMAIN all_buses_
      /\ all_buses_'[p] = bus
      /\ \A i \in DOMAIN all_buses_ : all_buses_'[i] = all_buses_[i]
  BY <1>0, AppendProps DEF BeginAddBus, IInv, TypeOK, bus
<1>2. /\ DOMAIN buses_' = DOMAIN buses_ \cup {n}
      /\ buses_' \in [DOMAIN buses_' -> DOMAIN all_buses_']
      /\ buses_'[n] = p
      /\ \A k \in DOMAIN buses_ : k # n => buses_'[k] = buses_[k]
  <2>1. buses_ \in [DOMAIN buses_ -> DOMAIN all_buses_']
    BY <1>1 DEF IInv, TypeOK
  <2>2. buses_' = Assign(buses_, n, p) /\ p \in DOMAIN all_buses_'
    BY <1>1 DEF BeginAddBus
  <2> HIDE DEF p
  <2> QED BY <2>1, <2>2 DEF Assign
<1>3. /\ call' = [bus |-> n, rest |-> stops, deq_stops |-> << >>]
      /\ UNCHANGED <<StopVars, buses_in_stop_, length_between_stops_>>
  BY DEF BeginAddBus
<1>4. call' \in Call /\ call'.bus = n /\ Elements(call'.deq_stops) = {}
  BY <1>3, CatalogueAssumption DEF Call, Elements
<1>5. TypeOK'
  <2>1. \A i \in DOMAIN all_buses_' :
           Elements(all_buses_'[i].stops) \subseteq DOMAIN all_stops_
    <3>1. Elements(bus.stops) = {}
      BY <1>0 DEF Elements
    <3> QED BY <1>1, <3>1 DEF IInv, TypeOK
  <2>2. DOMAIN buses_' \subseteq BusNames
    BY <1>2 DEF IInv, TypeOK
  <2>3. all_stops_' = all_stops_ /\ stops_' = stops_ /\ buses_in_stop_' = buses_in_stop_
        /\ length_between_stops_' = length_between_stops_
    BY <1>3 DEF StopVars
  <2> QED BY <1>1, <1>2, <1>4, <2>1, <2>2, <2>3 DEF IInv, TypeOK
<1>6. StopIndexExact'
  BY <1>3 DEF IInv, StopIndexExact, StopVars
<1>7. BusIndexNewest'
  <2>1. \A i \in DOMAIN all_buses_' : all_buses_'[i].name \in DOMAIN buses_'
    BY <1>0, <1>1, <1>2 DEF IInv, BusIndexNewest
  <2>2. ASSUME NEW m \in DOMAIN buses_'
        PROVE  /\ all_buses_'[buses_'[m]].name = m
               /\ \A j \in DOMAIN all_buses_' : j > buses_'[m] => all_buses_'[j].name # m
    <3>1. CASE m = n
      <4>1. \A j \in DOMAIN all_buses_' : ~(j > p)
        BY <1>1
      <4> QED BY <1>0, <1>1, <1>2, <3>1, <4>1
    <3>2. CASE m # n
      <4>1. m \in DOMAIN buses_ /\ buses_'[m] = buses_[m] /\ buses_[m] \in DOMAIN all_buses_
        BY <1>2, <3>2 DEF IInv, TypeOK
      <4> QED BY <1>0, <1>1, <3>2, <4>1 DEF IInv, BusIndexNewest
    <3> QED BY <3>1, <3>2
  <2> QED BY <2>1, <2>2 DEF BusIndexNewest
<1>8. CallIsNewest'
  BY <1>0, <1>1, <1>4 DEF CallIsNewest
<1> QED BY <1>5, <1>6, <1>7, <1>8 DEF IInv

LEMMA AddBusStopKeeps ==
  ASSUME IInv, AddBusStop
  PROVE  IInv' /\ StopsGrow
<1> DEFINE stop == Head(call.rest)
           addr == stops_'[stop]
           list == BusesInStop(stop)
<1>1. /\ StopsOK
      /\ call \in Call /\ call # NoCall /\ call.rest # << >>
      /\ stop \in StopNames /\ Tail(call.rest) \in Seq(StopNames)
  BY DEF IInv, TypeOK, StopsOK, AddBusStop, Call
<1>2. StopsOK' /\ StopsGrow /\ stop \in DOMAIN stops_'
  BY <1>1, EnsureStopKeeps DEF AddBusStop
<1>3. /\ call' = [call EXCEPT !.rest = Tail(@), !.deq_stops = Append(@, addr)]
      /\ buses_in_stop_' = IF call.bus \in Elements(list) THEN buses_in_stop_
                           ELSE Assign(buses_in_stop_, stop, Append(list, call.bus))
      /\ UNCHANGED <<all_buses_, buses_, length_between_stops_>>
  BY DEF AddBusStop
<1>4. addr \in DOMAIN all_stops_' /\ addr \in Nat
  <2>1. addr \in DOMAIN all_stops_'
    BY <1>2 DEF StopsOK
  <2> QED BY <1>2, <2>1 DEF StopsOK
<1>5. DOMAIN all_stops_ \subseteq DOMAIN all_stops_' /\ DOMAIN stops_ \subseteq DOMAIN stops_'
  BY <1>2 DEF StopsGrow
<1>6. /\ call' \in Call /\ call' # NoCall /\ call'.bus = call.bus
      /\ call'.deq_stops = Append(call.deq_stops, addr)
      /\ Elements(call'.deq_stops) = Elements(call.deq_stops) \cup {addr}
  <2>1. /\ Append(call.deq_stops, addr) \in Seq(Nat)
        /\ Elements(Append(call.deq_stops, addr)) = Elements(call.deq_stops) \cup {addr}
    BY <1>1, <1>4, AppendProps DEF Call, Elements
  <2>2. /\ call' \in Call /\ call'.bus = call.bus
        /\ call'.deq_stops = Append(call.deq_stops, addr)
    <3> HIDE DEF addr
    <3> QED BY <1>1, <1>3, <2>1 DEF Call
  <2> QED BY <2>1, <2>2, CatalogueAssumption DEF Call
<1>7. /\ buses_in_stop_' \in [DOMAIN buses_in_stop_' -> Seq(BusNames)]
      /\ DOMAIN buses_in_stop_' \subseteq DOMAIN stops_'
  <2>1. call.bus \in BusNames /\ list \in Seq(BusNames)
    BY <1>1 DEF Call, IInv, TypeOK, BusesInStop
  <2>2. Append(list, call.bus) \in Seq(BusNames)
    BY <2>1
  <2> HIDE DEF stop, list
  <2> QED BY <1>2, <1>3, <1>5, <2>2 DEF IInv, TypeOK, Assign
<1>8. TypeOK'
  <2>1. /\ all_buses_' \in Seq(Bus)
        /\ \A i \in DOMAIN all_buses_' : Elements(all_buses_'[i].stops) \subseteq DOMAIN all_stops_'
        /\ buses_' \in [DOMAIN buses_' -> DOMAIN all_buses_']
        /\ DOMAIN buses_' \subseteq BusNames
    BY <1>3, <1>5 DEF IInv, TypeOK
  <2>2. /\ length_between_stops_' \in [DOMAIN length_between_stops_' -> Lengths]
        /\ DOMAIN length_between_stops_' \subseteq (DOMAIN all_stops_') \X (DOMAIN all_stops_')
    BY <1>3, <1>5 DEF IInv, TypeOK
  <2>3. call' \in Call /\ Elements(call'.deq_stops) \subseteq DOMAIN all_stops_'
    <3>1. Elements(call.deq_stops) \subseteq DOMAIN all_stops_
      BY <1>1 DEF IInv, TypeOK
    <3> HIDE DEF addr
    <3> QED BY <1>4, <1>5, <1>6, <3>1
  <2>4. /\ all_stops_' \in Seq(Stop)
        /\ stops_' \in [DOMAIN stops_' -> DOMAIN all_stops_']
        /\ DOMAIN stops_' \subseteq StopNames
    BY <1>2 DEF StopsOK
  <2> QED BY <1>7, <2>1, <2>2, <2>3, <2>4 DEF TypeOK
<1>9. BusIndexNewest' /\ CallIsNewest'
  BY <1>1, <1>3, <1>6 DEF IInv, BusIndexNewest, CallIsNewest
<1> QED BY <1>2, <1>8, <1>9 DEF IInv, StopsOK

LEMMA EndAddBusKeeps ==
  ASSUME IInv, EndAddBus
  PROVE  /\ IInv'
         /\ DOMAIN all_buses_' = DOMAIN all_buses_
         /\ \A i \in DOMAIN all_buses_ : all_buses_'[i].name = all_buses_[i].name
         /\ all_buses_'[Len(all_buses_)].stops = call.deq_stops
         /\ all_buses_'[Len(all_buses_)] = [all_buses_[Len(all_buses_)] EXCEPT !.stops = call.deq_stops]
         /\ \A i \in DOMAIN all_buses_ : i # Len(all_buses_) => all_buses_'[i] = all_buses_[i]
<1> DEFINE n == Len(all_buses_)
<1>1. /\ call \in Call /\ call # NoCall /\ call' = NoCall
      /\ all_buses_ \in Seq(Bus) /\ DOMAIN all_buses_ = 1 .. n /\ n \in Nat
      /\ n > 0 /\ all_buses_[n].name = call.bus
  BY DEF IInv, TypeOK, CallIsNewest, EndAddBus
<1>2. buses_[call.bus] = n
  <2>1. call.bus \in DOMAIN buses_ /\ buses_[call.bus] \in 1 .. n
    BY <1>1 DEF IInv, TypeOK, BusIndexNewest
  <2>2. ~(n > buses_[call.bus])
    BY <1>1, <2>1 DEF IInv, BusIndexNewest
  <2> QED BY <1>1, <2>1, <2>2
<1>3. all_buses_' = [all_buses_ EXCEPT ![n].stops = call.deq_stops]
  BY <1>2 DEF EndAddBus
<1>4. /\ all_buses_[n] \in Bus
      /\ [all_buses_[n] EXCEPT !.stops = call.deq_stops] \in Bus
      /\ [all_buses_[n] EXCEPT !.stops = call.deq_stops].stops = call.deq_stops
      /\ [all_buses_[n] EXCEPT !.stops = call.deq_stops].name = all_buses_[n].name
  <2>1. all_buses_[n] \in Bus
    BY <1>1
  <2> QED BY <1>1, <2>1 DEF Bus, Call
<1>5. /\ all_buses_' \in Seq(Bus) /\ DOMAIN all_buses_' = DOMAIN all_buses_
      /\ Len(all_buses_') = n
      /\ all_buses_'[n] = [all_buses_[n] EXCEPT !.stops = call.deq_stops]
      /\ \A i \in DOMAIN all_buses_ : i # n => all_buses_'[i] = all_buses_[i]
  BY <1>1, <1>3, <1>4
<1>6. \A i \in DOMAIN all_buses_ : all_buses_'[i].name = all_buses_[i].name
  BY <1>4, <1>5
<1>7. UNCHANGED <<StopVars, buses_, buses_in_stop_, length_between_stops_>>
  BY DEF EndAddBus
<1>8. TypeOK'
  <2>1. \A i \in DOMAIN all_buses_' : Elements(all_buses_'[i].stops) \subseteq DOMAIN all_stops_
    <3>1. Elements(call.deq_stops) \subseteq DOMAIN all_stops_
      BY <1>1 DEF IInv, TypeOK
    <3>2. \A i \in DOMAIN all_buses_ : Elements(all_buses_[i].stops) \subseteq DOMAIN all_stops_
      BY DEF IInv, TypeOK
    <3>3. all_buses_'[n].stops = call.deq_stops
      BY <1>4, <1>5
    <3> QED BY <1>1, <1>5, <3>1, <3>2, <3>3
  <2>2. /\ all_stops_' = all_stops_ /\ stops_' = stops_ /\ buses_' = buses_
        /\ buses_in_stop_' = buses_in_stop_ /\ length_between_stops_' = length_between_stops_
    BY <1>7 DEF StopVars
  <2> QED BY <1>1, <1>5, <2>1, <2>2 DEF IInv, TypeOK
<1>9. StopIndexExact' /\ CallIsNewest'
  BY <1>1, <1>7 DEF IInv, StopIndexExact, StopVars, CallIsNewest
<1>10. BusIndexNewest'
  BY <1>5, <1>6, <1>7 DEF IInv, TypeOK, BusIndexNewest
<1> QED BY <1>4, <1>5, <1>6, <1>8, <1>9, <1>10 DEF IInv

-----------------------------------------------------------------------------
(* The reverse index.  Creating stops cannot disturb it: a new stop's      *)
(* address is in no stop list, or the stop would not be new.               *)
LEMMA NewStopsNotPassed ==
  ASSUME IInv, IInv', StopsGrow, NEW stop \in DOMAIN stops_' \ DOMAIN stops_
  PROVE  stops_'[stop] \notin DOMAIN all_stops_
<1> SUFFICES ASSUME stops_'[stop] \in DOMAIN all_stops_ PROVE FALSE
  OBVIOUS
<1> DEFINE addr == stops_'[stop]
<1>1. all_stops_'[addr].name = stop
  BY DEF IInv, StopIndexExact
<1>2. all_stops_'[addr].name = all_stops_[addr].name
  BY DEF StopsGrow
<1>3. all_stops_[addr].name \in DOMAIN stops_
  BY DEF IInv, StopIndexExact
<1> QED BY <1>1, <1>2, <1>3

LEMMA PassedStopsExist ==
  ASSUME IInv, NEW i \in DOMAIN all_buses_
  PROVE  Elements(StopsOf(i)) \subseteq DOMAIN all_stops_
BY DEF IInv, TypeOK, StopsOf

LEMMA GrowingStopsKeepsIndex ==
  ASSUME IInv, IInv', StopsGrow, BusesInStopExact, UNCHANGED <<BusVars, call>>
  PROVE  BusesInStopExact'
<1>1. /\ all_buses_' = all_buses_ /\ buses_in_stop_' = buses_in_stop_ /\ call' = call
  BY DEF BusVars
<1>2. \A i : StopsOf(i)' = StopsOf(i)
  BY <1>1 DEF StopsOf
<1>3. \A stop : BusesInStop(stop)' = BusesInStop(stop)
  BY <1>1 DEF BusesInStop
<1>4. ASSUME NEW bus, NEW stop
      PROVE  Passes(bus, stop)' <=> Passes(bus, stop)
  <2>1. CASE stop \in DOMAIN stops_
    <3>1. stop \in DOMAIN stops_' /\ stops_'[stop] = stops_[stop]
      BY <2>1 DEF StopsGrow
    <3> QED BY <1>1, <1>2, <2>1, <3>1 DEF Passes
  <2>2. CASE stop \notin DOMAIN stops_
    <3>1. ASSUME NEW i \in DOMAIN all_buses_, stop \in DOMAIN stops_'
          PROVE  stops_'[stop] \notin Elements(StopsOf(i))
      BY <2>2, <3>1, NewStopsNotPassed, PassedStopsExist
    <3> QED BY <1>1, <1>2, <2>2, <3>1 DEF Passes
  <2> QED BY <2>1, <2>2
<1> QED BY <1>3, <1>4 DEF BusesInStopExact

LEMMA BeginAddBusKeepsIndex ==
  ASSUME IInv, BusesInStopExact, NEW n \in BusNames, NEW stops \in Seq(StopNames),
         NEW is_loop \in BOOLEAN, BeginAddBus(n, stops, is_loop)
  PROVE  BusesInStopExact'
<1> DEFINE bus == [name |-> n, stops |-> << >>, is_loop_trip |-> is_loop]
<1>p. PICK p : p = Len(all_buses_) + 1
  OBVIOUS
<1>0. bus \in Bus
  BY DEF Bus
<1> HIDE DEF bus
<1>1. /\ Len(all_buses_') = p
      /\ DOMAIN all_buses_' = DOMAIN all_buses_ \cup {p}
      /\ p \notin DOMAIN all_buses_
      /\ \A i \in DOMAIN all_buses_ : all_buses_'[i] = all_buses_[i]
  BY <1>0, <1>p, AppendProps DEF BeginAddBus, IInv, TypeOK, bus
<1>2. /\ call = NoCall /\ call' = [bus |-> n, rest |-> stops, deq_stops |-> << >>]
      /\ stops_' = stops_ /\ buses_in_stop_' = buses_in_stop_
  BY DEF BeginAddBus, StopVars
<1>3. call' # NoCall /\ call'.deq_stops = << >>
  <2>1. call' \in Call /\ call'.deq_stops = << >>
    BY <1>2, CatalogueAssumption DEF Call
  <2> QED BY <2>1, CatalogueAssumption DEF Call
<1>4. /\ \A i \in DOMAIN all_buses_ : StopsOf(i)' = StopsOf(i)
      /\ StopsOf(p)' = << >>
  <2>1. \A i \in DOMAIN all_buses_ : i # p
    BY <1>1
  <2>2. \A i \in DOMAIN all_buses_ : StopsOf(i) = all_buses_[i].stops
    BY <1>2 DEF StopsOf
  <2>3. \A i : StopsOf(i)' = IF i = p THEN << >> ELSE all_buses_'[i].stops
    BY <1>1, <1>3 DEF StopsOf
  <2> QED BY <1>1, <2>1, <2>2, <2>3
<1>5. Elements(<< >>) = {}
  BY DEF Elements
<1>6. ASSUME NEW b, NEW stop
      PROVE  Passes(b, stop)' <=> Passes(b, stop)
  <2>1. Passes(b, stop)' <=>
          \E i \in DOMAIN all_buses_' :
            /\ all_buses_'[i].name = b
            /\ stop \in DOMAIN stops_ /\ stops_[stop] \in Elements(StopsOf(i)')
    BY <1>2 DEF Passes, Elements
  <2>2. stops_[stop] \notin Elements(StopsOf(p)')
    BY <1>4, <1>5
  <2> QED BY <1>1, <1>4, <2>1, <2>2 DEF Passes
<1>7. \A stop : BusesInStop(stop)' = BusesInStop(stop)
  BY <1>2 DEF BusesInStop
<1> QED BY <1>6, <1>7 DEF BusesInStopExact

LEMMA EndAddBusKeepsIndex ==
  ASSUME IInv, BusesInStopExact, EndAddBus
  PROVE  BusesInStopExact'
<1>1. /\ call # NoCall /\ call' = NoCall
      /\ stops_' = stops_ /\ buses_in_stop_' = buses_in_stop_
  BY DEF EndAddBus, StopVars
<1>2. \A i \in DOMAIN all_buses_ : StopsOf(i)' = StopsOf(i)
  BY <1>1, EndAddBusKeeps DEF StopsOf
<1>3. ASSUME NEW bus, NEW stop
      PROVE  Passes(bus, stop)' <=> Passes(bus, stop)
  BY <1>1, <1>2, EndAddBusKeeps DEF Passes
<1>4. \A stop : BusesInStop(stop)' = BusesInStop(stop)
  BY <1>1 DEF BusesInStop
<1> QED BY <1>3, <1>4 DEF BusesInStopExact

(* An iteration makes the bus being added pass one more stop, here, and    *)
(* records it there if it is not recorded yet.                             *)
OneMoreStop(here, addr, last, list) ==
  /\ here \in StopNames /\ here \in DOMAIN stops_' /\ addr = stops_'[here]
  /\ call.bus \in BusNames /\ list \in Seq(BusNames) /\ list = BusesInStop(here)
  /\ last \in DOMAIN all_buses_ /\ DOMAIN all_buses_ = 1 .. last /\ last \in Nat
  /\ all_buses_' = all_buses_ /\ all_buses_[last].name = call.bus
  /\ \A i \in DOMAIN all_buses_ : i # last => StopsOf(i)' = StopsOf(i)
  /\ Elements(StopsOf(last)') = Elements(StopsOf(last)) \cup {addr}
  /\ \A stop \in DOMAIN stops_' : stops_'[stop] = addr => stop = here
  /\ buses_in_stop_' = IF call.bus \in Elements(list) THEN buses_in_stop_
                       ELSE Assign(buses_in_stop_, here, Append(list, call.bus))
  /\ \A stop : stop # here => BusesInStop(stop)' = BusesInStop(stop)
  /\ BusesInStop(here)' = IF call.bus \in Elements(list) THEN list ELSE Append(list, call.bus)

LEMMA AddBusStopDetails ==
  ASSUME IInv, AddBusStop
  PROVE  \E here, addr, last, list : OneMoreStop(here, addr, last, list)
<1>h. PICK here : here = Head(call.rest)
  OBVIOUS
<1>a. PICK addr : addr = stops_'[here]
  OBVIOUS
<1>l. PICK last : last = Len(all_buses_)
  OBVIOUS
<1>b. PICK list : list = BusesInStop(here)
  OBVIOUS
<1>1. IInv' /\ StopsGrow
  BY AddBusStopKeeps
<1>2. /\ call \in Call /\ call # NoCall /\ here \in StopNames /\ call.bus \in BusNames
      /\ last > 0 /\ all_buses_[last].name = call.bus /\ all_buses_' = all_buses_
      /\ last \in DOMAIN all_buses_ /\ DOMAIN all_buses_ = 1 .. last
      /\ call.deq_stops \in Seq(Nat)
  BY <1>h, <1>l DEF IInv, TypeOK, CallIsNewest, AddBusStop, Call
<1>3. StopsOK
  BY DEF IInv, TypeOK, StopsOK
<1>4. here \in DOMAIN stops_' /\ addr \in Nat
  <2>1. here \in DOMAIN stops_' /\ StopsOK'
    BY <1>2, <1>3, <1>h, EnsureStopKeeps DEF AddBusStop
  <2>2. addr \in DOMAIN all_stops_'
    BY <2>1, <1>a DEF StopsOK
  <2> QED BY <2>1, <2>2 DEF StopsOK
<1>5. /\ call' = [call EXCEPT !.rest = Tail(@), !.deq_stops = Append(@, addr)]
      /\ buses_in_stop_' = IF call.bus \in Elements(list) THEN buses_in_stop_
                           ELSE Assign(buses_in_stop_, here, Append(list, call.bus))
  BY <1>h, <1>a, <1>b DEF AddBusStop
<1>6. call' # NoCall /\ Elements(call'.deq_stops) = Elements(call.deq_stops) \cup {addr}
  <2>1. /\ Append(call.deq_stops, addr) \in Seq(Nat)
        /\ Elements(Append(call.deq_stops, addr)) = Elements(call.deq_stops) \cup {addr}
    BY <1>2, <1>4, AppendProps DEF Elements
  <2>2. call'.deq_stops = Append(call.deq_stops, addr)
    BY <1>2, <1>5 DEF Call
  <2>3. Tail(call.rest) \in Seq(StopNames)
    BY <1>2 DEF Call, AddBusStop
  <2>4. call' \in Call
    BY <1>2, <1>5, <2>1, <2>3 DEF Call
  <2> QED BY <2>1, <2>2, <2>4, CatalogueAssumption DEF Call
<1>7. /\ \A i \in DOMAIN all_buses_ : i # last => StopsOf(i)' = StopsOf(i)
      /\ Elements(StopsOf(last)') = Elements(StopsOf(last)) \cup {addr}
  BY <1>2, <1>6, <1>l DEF StopsOf
<1>8. \A stop \in DOMAIN stops_' : stops_'[stop] = addr => stop = here
  BY <1>1, <1>4, <1>a DEF IInv, StopIndexExact
<1>10. list \in Seq(BusNames)
  BY <1>b DEF IInv, TypeOK, BusesInStop
<1>11. ASSUME NEW stop, stop # here PROVE BusesInStop(stop)' = BusesInStop(stop)
  BY <1>5, <1>11 DEF BusesInStop, Assign
<1>12. BusesInStop(here)' = IF call.bus \in Elements(list) THEN list ELSE Append(list, call.bus)
  <2>1. CASE call.bus \in Elements(list)
    BY <1>5, <1>b, <2>1 DEF BusesInStop
  <2>2. CASE call.bus \notin Elements(list)
    <3>1. buses_in_stop_' = Assign(buses_in_stop_, here, Append(list, call.bus))
      BY <1>5, <2>2
    <3>2. here \in DOMAIN buses_in_stop_' /\ buses_in_stop_'[here] = Append(list, call.bus)
      BY <3>1 DEF Assign
    <3> QED BY <2>2, <3>2 DEF BusesInStop
  <2> QED BY <2>1, <2>2
<1>13. last \in Nat
  BY <1>l DEF IInv, TypeOK
<1>14. \A stop : stop # here => BusesInStop(stop)' = BusesInStop(stop)
  BY <1>11
<1>15. OneMoreStop(here, addr, last, list)
  <2> USE DEF OneMoreStop
  <2>1. /\ here \in StopNames /\ here \in DOMAIN stops_' /\ addr = stops_'[here]
        /\ call.bus \in BusNames /\ list \in Seq(BusNames) /\ list = BusesInStop(here)
        /\ last \in DOMAIN all_buses_ /\ DOMAIN all_buses_ = 1 .. last /\ last \in Nat
        /\ all_buses_' = all_buses_ /\ all_buses_[last].name = call.bus
    BY <1>2, <1>4, <1>10, <1>13, <1>a, <1>b
  <2> QED BY <1>5, <1>7, <1>8, <1>12, <1>14, <2>1, Zenon
<1> QED BY <1>15

LEMMA AddBusStopKeepsIndex ==
  ASSUME IInv, BusesInStopExact, AddBusStop
  PROVE  BusesInStopExact'
<1>0. PICK here, addr, last, list : OneMoreStop(here, addr, last, list)
  BY AddBusStopDetails
<1>1. IInv' /\ StopsGrow
  BY AddBusStopKeeps
<1>2. /\ here \in StopNames /\ call.bus \in BusNames
      /\ all_buses_[last].name = call.bus /\ all_buses_' = all_buses_
      /\ last \in DOMAIN all_buses_
  BY <1>0 DEF OneMoreStop
<1>a. addr = stops_'[here]
  BY <1>0 DEF OneMoreStop
<1>b. list = BusesInStop(here)
  BY <1>0 DEF OneMoreStop
<1>4. here \in DOMAIN stops_'
  BY <1>0 DEF OneMoreStop
<1>7. /\ \A i \in DOMAIN all_buses_ : i # last => StopsOf(i)' = StopsOf(i)
      /\ Elements(StopsOf(last)') = Elements(StopsOf(last)) \cup {addr}
  BY <1>0 DEF OneMoreStop
<1>8. \A stop \in DOMAIN stops_' : stops_'[stop] = addr => stop = here
  BY <1>0 DEF OneMoreStop
<1>9. ASSUME NEW bus, NEW stop
      PROVE  Passes(bus, stop)' <=> Passes(bus, stop) \/ (bus = call.bus /\ stop = here)
  <2> DEFINE Was(i) == stops_'[stop] \in Elements(StopsOf(i))
  <2>0. Passes(bus, stop)' <=>
          \E i \in DOMAIN all_buses_ :
            /\ all_buses_[i].name = bus
            /\ stop \in DOMAIN stops_'
            /\ Was(i) \/ (i = last /\ stops_'[stop] = addr)
    <3>1. Passes(bus, stop)' <=>
            \E i \in DOMAIN all_buses_ :
              /\ all_buses_[i].name = bus
              /\ stop \in DOMAIN stops_' /\ stops_'[stop] \in Elements(StopsOf(i)')
      BY <1>2 DEF Passes, Elements
    <3>2. \A i \in DOMAIN all_buses_ :
             stops_'[stop] \in Elements(StopsOf(i)')
               <=> Was(i) \/ (i = last /\ stops_'[stop] = addr)
      BY <1>7
    <3> HIDE DEF Was
    <3> QED BY <3>1, <3>2
  <2>1. CASE stop \in DOMAIN stops_
    <3>1. stop \in DOMAIN stops_' /\ stops_'[stop] = stops_[stop]
      BY <1>1, <2>1 DEF StopsGrow
    <3>2. stops_'[stop] = addr <=> stop = here
      BY <1>8, <1>a, <3>1
    <3>3. Passes(bus, stop) <=>
            \E i \in DOMAIN all_buses_ : all_buses_[i].name = bus /\ Was(i)
      BY <2>1, <3>1 DEF Passes
    <3> HIDE DEF Was
    <3> QED BY <1>2, <2>0, <3>1, <3>2, <3>3
  <2>2. CASE stop \notin DOMAIN stops_ /\ stop \in DOMAIN stops_'
    <3>1. \A i \in DOMAIN all_buses_ : stops_'[stop] \notin Elements(StopsOf(i))
      BY <1>1, <2>2, NewStopsNotPassed, PassedStopsExist
    <3>2. stops_'[stop] = addr <=> stop = here
      BY <1>8, <1>a, <2>2
    <3>3. ~Passes(bus, stop)
      BY <2>2 DEF Passes
    <3> QED BY <1>2, <2>0, <2>2, <3>1, <3>2, <3>3
  <2>3. CASE stop \notin DOMAIN stops_ /\ stop \notin DOMAIN stops_'
    BY <1>4, <2>0, <2>3 DEF Passes
  <2> QED BY <2>1, <2>2, <2>3
<1>10. list \in Seq(BusNames)
  BY <1>0 DEF OneMoreStop
<1>11. \A stop : stop # here => BusesInStop(stop)' = BusesInStop(stop)
  BY <1>0 DEF OneMoreStop
<1>12. BusesInStop(here)' = IF call.bus \in Elements(list) THEN list ELSE Append(list, call.bus)
  BY <1>0 DEF OneMoreStop
<1>13. /\ Append(list, call.bus) \in Seq(BusNames)
       /\ Elements(Append(list, call.bus)) = Elements(list) \cup {call.bus}
  BY <1>2, <1>10, AppendProps DEF Elements
<1>14. ASSUME call.bus \notin Elements(list),
              \A i, j \in DOMAIN list : list[i] = list[j] => i = j
       PROVE  \A i, j \in DOMAIN Append(list, call.bus) :
                 Append(list, call.bus)[i] = Append(list, call.bus)[j] => i = j
  BY <1>2, <1>10, <1>14, AppendProps DEF Elements
<1>15. ASSUME NEW stop \in StopNames
       PROVE  /\ \A bus \in BusNames : bus \in Elements(BusesInStop(stop)') <=> Passes(bus, stop)'
              /\ \A i, j \in DOMAIN BusesInStop(stop)' :
                    BusesInStop(stop)'[i] = BusesInStop(stop)'[j] => i = j
  <2>1. CASE stop # here
    <3>1. BusesInStop(stop)' = BusesInStop(stop)
      BY <1>11, <2>1
    <3>2. \A bus \in BusNames : Passes(bus, stop)' <=> Passes(bus, stop)
      BY <1>9, <2>1
    <3> QED BY <3>1, <3>2 DEF BusesInStopExact
  <2>2. CASE stop = here
    <3>1. /\ \A bus \in BusNames : bus \in Elements(list) <=> Passes(bus, here)
          /\ \A i, j \in DOMAIN list : list[i] = list[j] => i = j
      BY <1>b, <2>2 DEF BusesInStopExact
    <3>2. PICK new : new = BusesInStop(stop)'
      OBVIOUS
    <3>3. new = IF call.bus \in Elements(list) THEN list ELSE Append(list, call.bus)
      BY <1>12, <2>2, <3>2
    <3>4. \A bus \in BusNames : bus \in Elements(new) <=> bus \in Elements(list) \/ bus = call.bus
      BY <1>13, <3>3
    <3>5. \A bus \in BusNames : bus \in Elements(new) <=> Passes(bus, stop)'
      BY <1>9, <2>2, <3>1, <3>4
    <3>6. \A i, j \in DOMAIN new : new[i] = new[j] => i = j
      BY <1>14, <3>1, <3>3
    <3> QED BY <3>2, <3>5, <3>6
  <2> QED BY <2>1, <2>2
<1> QED BY <1>15 DEF BusesInStopExact, Elements

-----------------------------------------------------------------------------
IndInv == IInv /\ BusesInStopExact

LEMMA IndInit == Init => IndInv
<1> SUFFICES ASSUME Init PROVE IndInv
  OBVIOUS
<1>1. BusesInStopExact
  <2>1. \A stop : BusesInStop(stop) = << >>
    BY DEF Init, BusesInStop
  <2>2. \A bus, stop : ~Passes(bus, stop)
    BY DEF Init, Passes
  <2> QED BY <2>1, <2>2 DEF BusesInStopExact, Elements
<1> QED BY <1>1, InitEstablishes DEF IndInv

LEMMA IndStep == IndInv /\ [Next]_vars => IndInv' /\ (UNCHANGED vars \/ UNCHANGED StopVars \/ StopsGrow)
<1> SUFFICES ASSUME IndInv, [Next]_vars
             PROVE  IndInv' /\ (UNCHANGED vars \/ UNCHANGED StopVars \/ StopsGrow)
  OBVIOUS
<1> USE DEF IndInv
<1>1. ASSUME NEW name \in StopNames, NEW location \in Coordinates, AddStop(name, location)
      PROVE  IndInv' /\ StopsGrow
  BY <1>1, AddStopKeeps, GrowingStopsKeepsIndex DEF AddStop
<1>2. ASSUME NEW name \in BusNames, NEW stops \in StopLists, NEW is_loop \in BOOLEAN,
             BeginAddBus(name, stops, is_loop)
      PROVE  IndInv' /\ UNCHANGED StopVars
  BY <1>2, BeginAddBusKeeps, BeginAddBusKeepsIndex, CatalogueAssumption DEF BeginAddBus
<1>3. CASE AddBusStop
  BY <1>3, AddBusStopKeeps, AddBusStopKeepsIndex
<1>4. CASE EndAddBus
  <2>1. UNCHANGED StopVars
    BY <1>4 DEF EndAddBus
  <2> QED BY <1>4, <2>1, EndAddBusKeeps, EndAddBusKeepsIndex
<1>5. ASSUME NEW first \in StopNames, NEW second \in StopNames, NEW lenght \in Lengths,
             AddLenghtBetweenStops(first, second, lenght)
      PROVE  IndInv' /\ StopsGrow
  BY <1>5, AddLenghtKeeps, GrowingStopsKeepsIndex DEF AddLenghtBetweenStops
<1>6. CASE UNCHANGED vars
  <2>1. TypeOK' /\ StopIndexExact' /\ BusIndexNewest' /\ CallIsNewest'
    BY <1>6 DEF vars, IInv, TypeOK, StopIndexExact, BusIndexNewest, CallIsNewest
  <2>2. BusesInStopExact'
    BY <1>6 DEF vars, BusesInStopExact, BusesInStop, Passes, StopsOf
  <2> QED BY <1>6, <2>1, <2>2 DEF IInv
<1> QED BY <1>1, <1>2, <1>3, <1>4, <1>5, <1>6 DEF Next

-----------------------------------------------------------------------------
(* The order of the buses at a stop, which nothing but the loading of a    *)
(* catalogue reproduces: by the first Bus of the name that passes it.      *)
PassedBy(i, stop) == stop \in DOMAIN stops_ /\ stops_[stop] \in Elements(StopsOf(i))

Trips(stop) == {i \in DOMAIN all_buses_ : PassedBy(i, stop)}

ByFirstTrip(list, trips, buses) ==
  \A i, j \in DOMAIN list : i < j =>
    \E a \in trips : /\ buses[a].name = list[i]
                     /\ \A b \in trips : buses[b].name = list[j] => a < b

ListedInOrder ==
  \A stop \in DOMAIN buses_in_stop_ :
    /\ buses_in_stop_[stop] # << >>
    /\ ByFirstTrip(buses_in_stop_[stop], Trips(stop), all_buses_)

Distinct(list) == \A i, j \in DOMAIN list : list[i] = list[j] => i = j

LEMMA OneMoreTrip ==
  ASSUME NEW S, NEW list \in Seq(S), NEW buses, NEW last \in Int, NEW trips \in SUBSET Int,
         NEW bus \in S, \A a \in trips : a <= last, buses[last].name = bus,
         Distinct(list), Elements(list) \subseteq {buses[a].name : a \in trips},
         bus \in {buses[a].name : a \in trips} => bus \in Elements(list),
         ByFirstTrip(list, trips, buses)
  PROVE  ByFirstTrip(IF bus \in Elements(list) THEN list ELSE Append(list, bus),
                     trips \cup {last}, buses)
<1> DEFINE more == trips \cup {last}
           Precedes(x, y) == \E a \in more : /\ buses[a].name = x
                                             /\ \A b \in more : buses[b].name = y => a < b
<1>1. ASSUME NEW i \in DOMAIN list, NEW j \in DOMAIN list, i < j
      PROVE  Precedes(list[i], list[j])
  <2>1. PICK a \in trips : /\ buses[a].name = list[i]
                           /\ \A b \in trips : buses[b].name = list[j] => a < b
    BY <1>1 DEF ByFirstTrip
  <2>2. list[i] # list[j]
    BY <1>1 DEF Distinct
  <2>3. buses[last].name = list[j] => a < last
    BY <2>1, <2>2
  <2> QED BY <2>1, <2>3
<1>2. CASE bus \in Elements(list)
  BY <1>1, <1>2 DEF ByFirstTrip
<1>3. CASE bus \notin Elements(list)
  <2> DEFINE new == Append(list, bus)
  <2>1. /\ DOMAIN list = 1 .. Len(list) /\ Len(list) \in Nat
        /\ DOMAIN new = 1 .. Len(list) + 1 /\ new[Len(list) + 1] = bus
        /\ \A i \in DOMAIN list : new[i] = list[i]
    OBVIOUS
  <2>2. ASSUME NEW i \in DOMAIN list PROVE Precedes(list[i], bus)
    <3>1. PICK a \in trips : buses[a].name = list[i]
      BY DEF Elements
    <3>2. list[i] # bus
      BY <1>3 DEF Elements
    <3>3. a < last
      BY <3>1, <3>2
    <3>4. \A b \in more : buses[b].name = bus => b = last
      BY <1>3
    <3> QED BY <3>1, <3>3, <3>4
  <2> HIDE DEF new, Precedes
  <2>3. ASSUME NEW i \in DOMAIN new, NEW j \in DOMAIN new, i < j
        PROVE  Precedes(new[i], new[j])
    <3>1. i \in DOMAIN list
      BY <2>1, <2>3
    <3>2. CASE j \in DOMAIN list
      BY <1>1, <2>1, <2>3, <3>1, <3>2
    <3>3. CASE j \notin DOMAIN list
      <4>1. j = Len(list) + 1
        BY <2>1, <3>3
      <4> QED BY <2>1, <2>2, <3>1, <4>1
    <3> QED BY <3>2, <3>3
  <2>4. ByFirstTrip(new, more, buses)
    BY <2>3 DEF ByFirstTrip, Precedes
  <2> QED BY <1>3, <2>4 DEF new
<1> QED BY <1>2, <1>3

LEMMA GrowingStopsKeepsOrder ==
  ASSUME IInv, ListedInOrder, StopsGrow, UNCHANGED <<BusVars, call>>
  PROVE  ListedInOrder'
<1>1. /\ all_buses_' = all_buses_ /\ buses_in_stop_' = buses_in_stop_ /\ call' = call
  BY DEF BusVars
<1>2. \A i : StopsOf(i)' = StopsOf(i)
  BY <1>1 DEF StopsOf
<1>3. ASSUME NEW stop \in DOMAIN buses_in_stop_ PROVE Trips(stop)' = Trips(stop)
  <2>1. /\ stop \in DOMAIN stops_ /\ stop \in DOMAIN stops_'
        /\ stops_'[stop] = stops_[stop]
    BY DEF IInv, TypeOK, StopsGrow
  <2> QED BY <1>1, <1>2, <2>1 DEF Trips, PassedBy
<1>4. \A stop \in DOMAIN buses_in_stop_ :
        ByFirstTrip(buses_in_stop_[stop], Trips(stop)', all_buses_)
  BY <1>3 DEF ListedInOrder
<1> QED BY <1>1, <1>4 DEF ListedInOrder, ByFirstTrip

LEMMA BeginAddBusKeepsOrder ==
  ASSUME IInv, ListedInOrder, NEW n \in BusNames, NEW stops \in Seq(StopNames),
         NEW is_loop \in BOOLEAN, BeginAddBus(n, stops, is_loop)
  PROVE  ListedInOrder'
<1> DEFINE bus == [name |-> n, stops |-> << >>, is_loop_trip |-> is_loop]
<1>p. PICK p : p = Len(all_buses_) + 1
  OBVIOUS
<1>0. bus \in Bus
  BY DEF Bus
<1> HIDE DEF bus
<1>1. /\ Len(all_buses_') = p
      /\ DOMAIN all_buses_' = DOMAIN all_buses_ \cup {p}
      /\ p \notin DOMAIN all_buses_
      /\ \A i \in DOMAIN all_buses_ : all_buses_'[i] = all_buses_[i]
  BY <1>0, <1>p, AppendProps DEF BeginAddBus, IInv, TypeOK, bus
<1>2. /\ call = NoCall /\ call' = [bus |-> n, rest |-> stops, deq_stops |-> << >>]
      /\ stops_' = stops_ /\ buses_in_stop_' = buses_in_stop_
  BY DEF BeginAddBus, StopVars
<1>3. call' # NoCall /\ call'.deq_stops = << >>
  <2>1. call' \in Call /\ call'.deq_stops = << >>
    BY <1>2 DEF Call
  <2> QED BY <2>1, CatalogueAssumption DEF Call
<1>4. /\ \A i \in DOMAIN all_buses_ : StopsOf(i)' = StopsOf(i)
      /\ StopsOf(p)' = << >>
  BY <1>1, <1>2, <1>3 DEF StopsOf
<1>5. ASSUME NEW stop PROVE Trips(stop)' = Trips(stop)
  <2>1. Elements(<< >>) = {}
    BY DEF Elements
  <2>2. \A i \in DOMAIN all_buses_ : PassedBy(i, stop)' <=> PassedBy(i, stop)
    BY <1>2, <1>4 DEF PassedBy, Elements
  <2>3. ~PassedBy(p, stop)'
    BY <1>4, <2>1 DEF PassedBy
  <2> QED BY <1>1, <2>2, <2>3 DEF Trips
<1>6. \A stop : \A a \in Trips(stop) : all_buses_'[a] = all_buses_[a]
  BY <1>1 DEF Trips
<1>7. ASSUME NEW stop \in DOMAIN buses_in_stop_
      PROVE  ByFirstTrip(buses_in_stop_[stop], Trips(stop)', all_buses_')
  BY <1>5, <1>6 DEF ListedInOrder, ByFirstTrip
<1> QED BY <1>2, <1>7 DEF ListedInOrder, ByFirstTrip

LEMMA EndAddBusKeepsOrder ==
  ASSUME IInv, ListedInOrder, EndAddBus
  PROVE  ListedInOrder'
<1>1. /\ call # NoCall /\ call' = NoCall
      /\ stops_' = stops_ /\ buses_in_stop_' = buses_in_stop_
  BY DEF EndAddBus, StopVars
<1>2. \A i \in DOMAIN all_buses_ : StopsOf(i)' = StopsOf(i)
  BY <1>1, EndAddBusKeeps DEF StopsOf
<1>3. ASSUME NEW stop PROVE Trips(stop)' = Trips(stop)
  BY <1>1, <1>2, EndAddBusKeeps DEF Trips, PassedBy, Elements
<1>4. \A a \in DOMAIN all_buses_ : all_buses_'[a].name = all_buses_[a].name
  BY EndAddBusKeeps
<1>5. ASSUME NEW stop \in DOMAIN buses_in_stop_
      PROVE  ByFirstTrip(buses_in_stop_[stop], Trips(stop)', all_buses_')
  BY <1>3, <1>4 DEF ListedInOrder, ByFirstTrip, Trips
<1> QED BY <1>1, <1>5 DEF ListedInOrder, ByFirstTrip

LEMMA AddBusStopKeepsOrder ==
  ASSUME IInv, BusesInStopExact, ListedInOrder, AddBusStop
  PROVE  ListedInOrder'
<1>0. PICK here, addr, last, list : OneMoreStop(here, addr, last, list)
  BY AddBusStopDetails
<1>1. StopsGrow /\ IInv'
  BY AddBusStopKeeps
<1> USE DEF OneMoreStop
<1>2. ASSUME NEW stop \in DOMAIN stops_, stop # here PROVE Trips(stop)' = Trips(stop)
  <2>1. stop \in DOMAIN stops_' /\ stops_'[stop] = stops_[stop] /\ stops_'[stop] # addr
    BY <1>0, <1>1, <1>2 DEF StopsGrow
  <2>2. \A i \in DOMAIN all_buses_ :
          stops_[stop] \in Elements(StopsOf(i)') <=> stops_[stop] \in Elements(StopsOf(i))
    BY <1>0, <2>1
  <2>3. \A i \in DOMAIN all_buses_ : PassedBy(i, stop)' <=> PassedBy(i, stop)
    BY <2>1, <2>2 DEF PassedBy, Elements
  <2> QED BY <1>0, <2>3 DEF Trips
<1>3. Trips(here)' = Trips(here) \cup {last}
  <2>1. ASSUME NEW i \in DOMAIN all_buses_
        PROVE  PassedBy(i, here)' <=> PassedBy(i, here) \/ i = last
    <3>1. PassedBy(i, here)' <=> addr \in Elements(StopsOf(i)')
      BY <1>0 DEF PassedBy, Elements
    <3>2. PassedBy(i, here) <=> addr \in Elements(StopsOf(i))
      <4>1. CASE here \in DOMAIN stops_
        BY <1>0, <1>1, <4>1 DEF PassedBy, StopsGrow
      <4>2. CASE here \notin DOMAIN stops_
        <5>1. addr \notin DOMAIN all_stops_
          BY <1>0, <1>1, <4>2, NewStopsNotPassed
        <5> QED BY <4>2, <5>1, PassedStopsExist DEF PassedBy
      <4> QED BY <4>1, <4>2
    <3>3. addr \in Elements(StopsOf(i)') <=> addr \in Elements(StopsOf(i)) \/ i = last
      BY <1>0
    <3> QED BY <3>1, <3>2, <3>3
  <2> QED BY <1>0, <2>1 DEF Trips
<1> DEFINE new == IF call.bus \in Elements(list) THEN list ELSE Append(list, call.bus)
<1>4. /\ ByFirstTrip(new, Trips(here) \cup {last}, all_buses_)
      /\ new # << >>
  <2>1. /\ \A bus \in BusNames : bus \in Elements(list) <=> Passes(bus, here)
        /\ Distinct(list)
    BY <1>0 DEF BusesInStopExact, Distinct
  <2>2. \A bus : Passes(bus, here) <=> bus \in {all_buses_[a].name : a \in Trips(here)}
    BY DEF Passes, Trips, PassedBy
  <2>3. Elements(list) \subseteq BusNames
    BY <1>0 DEF Elements
  <2>4. ByFirstTrip(list, Trips(here), all_buses_)
    <3>1. CASE here \in DOMAIN buses_in_stop_
      BY <1>0, <3>1 DEF ListedInOrder, BusesInStop
    <3>2. CASE here \notin DOMAIN buses_in_stop_
      BY <1>0, <3>2 DEF ByFirstTrip, BusesInStop
    <3> QED BY <3>1, <3>2
  <2>5. /\ Elements(list) \subseteq {all_buses_[a].name : a \in Trips(here)}
        /\ call.bus \in {all_buses_[a].name : a \in Trips(here)} => call.bus \in Elements(list)
    BY <1>0, <2>1, <2>2, <2>3
  <2>6. /\ Trips(here) \in SUBSET Int /\ last \in Int /\ \A a \in Trips(here) : a <= last
        /\ list \in Seq(BusNames) /\ call.bus \in BusNames /\ all_buses_[last].name = call.bus
    BY <1>0 DEF Trips
  <2>7. ByFirstTrip(new, Trips(here) \cup {last}, all_buses_)
    BY <2>1, <2>4, <2>5, <2>6, OneMoreTrip
  <2>8. new # << >>
    <3>1. CASE call.bus \in Elements(list)
      <4>1. list # << >>
        BY <3>1 DEF Elements
      <4> QED BY <3>1, <4>1
    <3>2. CASE call.bus \notin Elements(list)
      <4>1. Len(Append(list, call.bus)) > 0
        BY <2>6
      <4>2. new = Append(list, call.bus)
        BY <3>2
      <4> QED BY <4>1, <4>2
    <3> QED BY <3>1, <3>2
  <2> QED BY <2>7, <2>8
<1>5. BusesInStop(here)' = new /\ all_buses_' = all_buses_
  BY <1>0
<1> HIDE DEF new
<1>6. ASSUME NEW stop \in DOMAIN buses_in_stop_'
      PROVE  /\ buses_in_stop_'[stop] # << >>
             /\ ByFirstTrip(buses_in_stop_'[stop], Trips(stop)', all_buses_')
  <2>1. CASE stop = here
    BY <1>3, <1>4, <1>5, <2>1 DEF BusesInStop
  <2>2. CASE stop # here
    <3>1. stop \in DOMAIN buses_in_stop_ /\ buses_in_stop_'[stop] = buses_in_stop_[stop]
      BY <1>0, <2>2 DEF Assign
    <3>2. stop \in DOMAIN stops_
      BY <3>1 DEF IInv, TypeOK
    <3>3. Trips(stop)' = Trips(stop)
      BY <1>2, <2>2, <3>2
    <3>4. /\ buses_in_stop_[stop] # << >>
          /\ ByFirstTrip(buses_in_stop_[stop], Trips(stop), all_buses_)
      BY <3>1 DEF ListedInOrder
    <3> QED BY <1>5, <3>1, <3>3, <3>4
  <2> QED BY <2>1, <2>2
<1> QED BY <1>6 DEF ListedInOrder, ByFirstTrip

(* All that is known of the catalogue between any two steps of an          *)
(* operation, whoever calls it.                                            *)
CatalogueInv == IndInv /\ ListedInOrder

LEMMA OperationsKeep ==
  ASSUME CatalogueInv
  PROVE  /\ \A name \in StopNames, location \in Coordinates :
              AddStop(name, location) => CatalogueInv' /\ StopsGrow
         /\ \A name \in BusNames, stops \in Seq(StopNames), is_loop \in BOOLEAN :
              BeginAddBus(name, stops, is_loop) => CatalogueInv'
         /\ AddBusStop => CatalogueInv' /\ StopsGrow
         /\ EndAddBus => CatalogueInv'
         /\ \A first, second \in StopNames, lenght \in Lengths :
              AddLenghtBetweenStops(first, second, lenght) => CatalogueInv' /\ StopsGrow
<1> USE DEF CatalogueInv, IndInv
<1>1. ASSUME NEW name \in StopNames, NEW location \in Coordinates, AddStop(name, location)
      PROVE  CatalogueInv' /\ StopsGrow
  <2>1. IInv' /\ StopsGrow /\ UNCHANGED <<BusVars, call>>
    BY <1>1, AddStopKeeps DEF AddStop
  <2> QED BY <2>1, GrowingStopsKeepsIndex, GrowingStopsKeepsOrder
<1>2. ASSUME NEW name \in BusNames, NEW stops \in Seq(StopNames), NEW is_loop \in BOOLEAN,
             BeginAddBus(name, stops, is_loop)
      PROVE  CatalogueInv'
  BY <1>2, BeginAddBusKeeps, BeginAddBusKeepsIndex, BeginAddBusKeepsOrder
<1>3. AddBusStop => CatalogueInv' /\ StopsGrow
  BY AddBusStopKeeps, AddBusStopKeepsIndex, AddBusStopKeepsOrder
<1>4. EndAddBus => CatalogueInv'
  BY EndAddBusKeeps, EndAddBusKeepsIndex, EndAddBusKeepsOrder
<1>5. ASSUME NEW first \in StopNames, NEW second \in StopNames, NEW lenght \in Lengths,
             AddLenghtBetweenStops(first, second, lenght)
      PROVE  CatalogueInv' /\ StopsGrow
  <2>1. IInv' /\ StopsGrow /\ UNCHANGED <<BusVars, call>>
    BY <1>5, AddLenghtKeeps DEF AddLenghtBetweenStops
  <2> QED BY <2>1, GrowingStopsKeepsIndex, GrowingStopsKeepsOrder
<1> QED BY <1>1, <1>2, <1>3, <1>4, <1>5

LEMMA EmptyCatalogue == Init => CatalogueInv
BY IndInit DEF CatalogueInv, Init, ListedInOrder

LEMMA StutteringKeeps == CatalogueInv /\ UNCHANGED vars => CatalogueInv'
<1> SUFFICES ASSUME CatalogueInv, UNCHANGED vars PROVE CatalogueInv'
  OBVIOUS
<1>1. IndInv'
  BY IndStep DEF CatalogueInv
<1>2. ListedInOrder'
  BY DEF CatalogueInv, vars, ListedInOrder, ByFirstTrip, Trips, PassedBy, StopsOf
<1> QED BY <1>1, <1>2 DEF CatalogueInv

-----------------------------------------------------------------------------
(* The containers are well-typed, and every address stored in them is      *)
(* valid.                                                                  *)
THEOREM CatalogueTypeOK == Spec => []TypeOK
<1>1. IndInv => TypeOK
  BY DEF IndInv, IInv
<1> QED BY IndInit, IndStep, <1>1, PTL DEF Spec

(* A stop's name leads to the one stop that carries it.                    *)
THEOREM StopsFoundByName == Spec => []StopIndexExact
<1>1. IndInv => StopIndexExact
  BY DEF IndInv, IInv
<1> QED BY IndInit, IndStep, <1>1, PTL DEF Spec

(* A bus's name leads to the newest bus that carries it.                   *)
THEOREM NewestBusFoundByName == Spec => []BusIndexNewest
<1>1. IndInv => BusIndexNewest
  BY DEF IndInv, IInv
<1> QED BY IndInit, IndStep, <1>1, PTL DEF Spec

(* A bus is listed at a stop exactly when a Bus of that name passes it,    *)
(* and is listed once.                                                     *)
THEOREM ReverseIndexExact == Spec => []BusesInStopExact
<1>1. IndInv => BusesInStopExact
  BY DEF IndInv
<1> QED BY IndInit, IndStep, <1>1, PTL DEF Spec

(* A stop keeps its address and its name, and its coordinates once they    *)
(* are not the placeholder's.                                              *)
THEOREM StopsNeverMove == Spec => StopsStayPut
<1> DEFINE Stay == \A i \in DOMAIN all_stops_ :
              /\ i \in DOMAIN all_stops_'
              /\ all_stops_'[i].name = all_stops_[i].name
              /\ all_stops_[i].coordinates # Origin => all_stops_'[i] = all_stops_[i]
<1>1. IndInv /\ [Next]_vars => [Stay]_vars
  <2>1. UNCHANGED StopVars => Stay
    BY DEF StopVars
  <2>2. StopsGrow => Stay
    BY DEF StopsGrow
  <2> QED BY IndStep, <2>1, <2>2
<1>2. IndInv /\ [Next]_vars => IndInv'
  BY IndStep
<1> QED BY IndInit, <1>1, <1>2, PTL DEF Spec, StopsStayPut

-----------------------------------------------------------------------------
InRequests == DOMAIN Requests

(* What the first pass has to find of request i, and what the second has.  *)
BusFine(i) ==
  /\ Requests[i].type # NoType
  /\ Requests[i].type = "Bus" => ~Requests[i].flawed

StopFine(i) ==
  Requests[i].type = "Stop" =>
    /\ ~Requests[i].flawed
    /\ \A road \in Elements(Requests[i].road_distances) : road.lenght # NotAnInt

(* The second pass has read the stop, and its roads but for those to come. *)
StopRead(i) ==
  Requests[i].type = "Stop" =>
    /\ ~Requests[i].flawed
    /\ \A road \in Elements(Requests[i].road_distances) :
         road.lenght # NotAnInt \/ road \in Elements(roads)

LoaderTypes ==
  /\ document \in Documents
  /\ request \in Nat \ {0}
  /\ \E S : roads \in Seq(S)
  /\ pc \in {"open", "buses", "stops", "serialize", "done", "thrown"}

(* How far make_base has come is how far the file has.                     *)
FileAtPlace ==
  /\ pc = "open" => base_file = "old"
  /\ pc \in {"buses", "stops", "serialize"} =>
       base_file = "empty" /\ document.missing \notin {"serialization_settings", "base_requests"}
  /\ pc = "serialize" => document.missing # "routing_settings" /\ ~HasGap
  /\ pc = "done" => /\ document.missing \notin
                         {"base_requests", "routing_settings", "render_settings"}
                    /\ ~HasGap
  /\ base_file = "written" => pc = "done"
  /\ pc = "thrown" => base_file = IF document.missing = "serialization_settings"
                                    THEN "old" ELSE "empty"

FirstPass ==
  /\ pc = "open" => request = 1
  /\ pc = "buses" => \A i \in InRequests : i < request => BusFine(i)
  /\ pc \in {"stops", "serialize", "done"} => \A i \in InRequests : BusFine(i)

SecondPass ==
  /\ pc = "stops" => \A i \in InRequests : i < request => StopRead(i)
  /\ pc \in {"serialize", "done"} => \A i \in InRequests : StopFine(i)

LoaderInv == LoaderTypes /\ FileAtPlace /\ FirstPass /\ SecondPass

-----------------------------------------------------------------------------
LEMMA RequestsAreCounted ==
  ASSUME LoaderTypes
  PROVE  /\ Len(Requests) \in Nat /\ InRequests = 1 .. Len(Requests)
         /\ \A i \in InRequests : \E S : Requests[i].road_distances \in Seq(S)
<1>1. IsSequence(Requests)
      /\ \A i \in InRequests : IsSequence(Requests[i].road_distances)
  BY BaseLoaderAssumption DEF LoaderTypes, Requests, InRequests
<1>2. Requests \in Seq(Elements(Requests))
  BY <1>1 DEF IsSequence
<1>3. \A i \in InRequests : \E S : Requests[i].road_distances \in Seq(S)
  BY <1>1, Zenon DEF IsSequence
<1> QED BY <1>2, <1>3 DEF InRequests

LEMMA LoaderInitHolds == LoaderInit => LoaderInv
<1> SUFFICES ASSUME LoaderInit PROVE LoaderInv
  OBVIOUS
<1>1. << >> \in Seq({})
  OBVIOUS
<1>2. LoaderTypes
  BY <1>1 DEF LoaderInit, LoaderTypes
<1> QED BY <1>2 DEF LoaderInit, LoaderInv, FileAtPlace, FirstPass, SecondPass

(* An exception leaves everything but the place, and the file as it is.    *)
LEMMA ThrowKeeps ==
  ASSUME LoaderInv, Throw, UNCHANGED base_file,
         \/ pc \in {"buses", "stops", "serialize"}
         \/ pc = "open" /\ document.missing = "serialization_settings"
  PROVE  LoaderInv'
<1> USE DEF Throw
<1>1. LoaderTypes'
  BY DEF LoaderInv, LoaderTypes
<1>2. FileAtPlace'
  BY DEF LoaderInv, FileAtPlace
<1>3. FirstPass' /\ SecondPass'
  BY DEF FirstPass, SecondPass
<1> QED BY <1>1, <1>2, <1>3 DEF LoaderInv

(* The document stays, so what a request is stays.                         *)
LEMMA SameDocument ==
  ASSUME document' = document
  PROVE  /\ Requests' = Requests /\ InRequests' = InRequests
         /\ \A i : (BusFine(i))' <=> BusFine(i)
         /\ \A i : (StopFine(i))' <=> StopFine(i)
<1>1. Requests' = Requests
  BY DEF Requests
<1>2. \A i : (BusFine(i))' <=> BusFine(i)
  BY <1>1 DEF BusFine
<1>3. \A i : (StopFine(i))' <=> StopFine(i)
  BY <1>1 DEF StopFine
<1> QED BY <1>1, <1>2, <1>3 DEF InRequests

LEMMA OpenFileKeeps ==
  ASSUME LoaderInv, OpenFile
  PROVE  LoaderInv'
<1>1. LoaderTypes'
  BY DEF OpenFile, LoaderInv, LoaderTypes
<1>2. FileAtPlace'
  BY DEF OpenFile, LoaderInv, FileAtPlace
<1>3. \A i \in InRequests : i \in Nat /\ i >= 1
  BY RequestsAreCounted DEF LoaderInv
<1>4. FirstPass' /\ SecondPass'
  <2>1. InRequests' = InRequests
    BY SameDocument DEF OpenFile
  <2> QED BY <1>3, <2>1 DEF OpenFile, LoaderInv, FirstPass, SecondPass
<1> QED BY <1>1, <1>2, <1>4 DEF LoaderInv

LEMMA ReadBusKeeps ==
  ASSUME LoaderInv, ReadBus
  PROVE  LoaderInv'
<1>1. CASE Throw
  BY <1>1, ThrowKeeps DEF ReadBus
<1>2. CASE ~Throw
  <2>1. /\ pc = "buses" /\ pc' = "buses" /\ request' = request + 1
        /\ UNCHANGED <<document, roads, base_file>>
        /\ BusFine(request)
    BY <1>2, BaseLoaderAssumption DEF ReadBus, BusFine, Request
  <2>2. LoaderTypes'
    BY <2>1 DEF LoaderInv, LoaderTypes
  <2>3. FileAtPlace'
    BY <2>1 DEF LoaderInv, FileAtPlace
  <2>4. FirstPass'
    <3>1. \A i \in InRequests : i \in Nat
      BY RequestsAreCounted DEF LoaderInv
    <3>2. \A i \in InRequests : i < request + 1 => BusFine(i)
      BY <2>1, <3>1 DEF LoaderInv, LoaderTypes, FirstPass
    <3>3. \A i \in InRequests' : i < request' => (BusFine(i))'
      BY <2>1, <3>2, SameDocument
    <3> QED BY <2>1, <3>3 DEF FirstPass
  <2>5. SecondPass'
    BY <2>1 DEF SecondPass
  <2> QED BY <2>2, <2>3, <2>4, <2>5 DEF LoaderInv
<1> QED BY <1>1, <1>2

LEMMA AddBusStopsKeeps ==
  ASSUME LoaderInv, AddBusStops
  PROVE  LoaderInv'
<1>1. pc = "buses" /\ UNCHANGED <<document, pc, request, roads, base_file>>
  BY DEF AddBusStops, reader
<1>2. LoaderTypes' /\ FileAtPlace'
  BY <1>1 DEF LoaderInv, LoaderTypes, FileAtPlace
<1>3. FirstPass' /\ SecondPass'
  <2>1. \A i \in InRequests' : i < request' => (BusFine(i))'
    BY <1>1, SameDocument DEF LoaderInv, FirstPass
  <2> QED BY <1>1, <2>1 DEF FirstPass, SecondPass
<1> QED BY <1>2, <1>3 DEF LoaderInv

LEMMA StartStopsKeeps ==
  ASSUME LoaderInv, StartStops
  PROVE  LoaderInv'
<1>1. /\ pc = "buses" /\ pc' = "stops" /\ request > Len(Requests) /\ request' = 1
      /\ UNCHANGED <<document, roads, base_file>>
  BY DEF StartStops
<1>2. LoaderTypes' /\ FileAtPlace'
  BY <1>1 DEF LoaderInv, LoaderTypes, FileAtPlace
<1>3. \A i \in InRequests : i \in Nat /\ i >= 1 /\ i <= Len(Requests) /\ Len(Requests) \in Nat
  BY RequestsAreCounted DEF LoaderInv
<1>4. \A i \in InRequests : BusFine(i)
  BY <1>1, <1>3 DEF LoaderInv, LoaderTypes, FirstPass
<1>5. FirstPass' /\ SecondPass'
  <2>1. InRequests' = InRequests /\ \A i \in InRequests' : (BusFine(i))'
    BY <1>1, <1>4, SameDocument
  <2> QED BY <1>1, <1>3, <2>1 DEF FirstPass, SecondPass
<1> QED BY <1>2, <1>5 DEF LoaderInv

(* A stop that was read is still read when no road is forgotten but one    *)
(* that has a length.                                                      *)
LEMMA StaysRead ==
  ASSUME NEW i, StopRead(i), document' = document,
         \A road \in Elements(roads) : road.lenght # NotAnInt \/ road \in Elements(roads')
  PROVE  (StopRead(i))'
<1>1. Requests' = Requests
  BY DEF Requests
<1>2. Elements(roads)' = Elements(roads')
  BY DEF Elements
<1> QED BY <1>1, <1>2 DEF StopRead, Elements

LEMMA ReadStopKeeps ==
  ASSUME LoaderInv, ReadStop
  PROVE  LoaderInv'
<1>1. CASE Throw
  BY <1>1, ThrowKeeps DEF ReadStop
<1>2. CASE ~Throw
  <2>1. /\ pc = "stops" /\ pc' = "stops" /\ request' = request + 1
        /\ request <= Len(Requests) /\ roads = << >>
        /\ UNCHANGED <<document, base_file>>
        /\ IF Request.type = "Stop"
             THEN ~Request.flawed /\ roads' = Request.road_distances
             ELSE roads' = roads
    BY <1>2 DEF ReadStop
  <2>2. \A i \in InRequests : i \in Nat /\ i >= 1
    BY RequestsAreCounted DEF LoaderInv
  <2>3. LoaderTypes'
    <3>1. \E S : Request.road_distances \in Seq(S)
      <4>1. request \in InRequests
        BY <2>1, RequestsAreCounted DEF LoaderInv, LoaderTypes
      <4> QED BY <4>1, RequestsAreCounted DEF LoaderInv, Request
    <3>2. \E S : roads' \in Seq(S)
      BY <2>1, <3>1 DEF LoaderInv, LoaderTypes
    <3> QED BY <2>1, <3>2 DEF LoaderInv, LoaderTypes
  <2>4. FileAtPlace'
    BY <2>1 DEF LoaderInv, FileAtPlace
  <2>5. FirstPass'
    <3>1. \A i \in InRequests' : (BusFine(i))'
      BY <2>1, SameDocument DEF LoaderInv, FirstPass
    <3> QED BY <2>1, <3>1 DEF FirstPass
  <2>6. SecondPass'
    <3>1. ASSUME NEW i \in InRequests, i < request PROVE (StopRead(i))'
      <4>1. Elements(roads) = {}
        BY <2>1 DEF Elements
      <4>2. StopRead(i)
        BY <2>1, <3>1 DEF LoaderInv, SecondPass
      <4> QED BY <2>1, <4>1, <4>2, StaysRead
    <3>2. ASSUME NEW i \in InRequests, i = request PROVE (StopRead(i))'
      <4>1. Requests' = Requests /\ Elements(roads)' = Elements(roads')
        BY <2>1 DEF Requests, Elements
      <4> QED BY <2>1, <3>2, <4>1 DEF StopRead, Request, Elements
    <3>3. \A i \in InRequests' : i < request' => (StopRead(i))'
      <4>1. \A i \in InRequests : i < request + 1 => i < request \/ i = request
        BY <2>2 DEF LoaderInv, LoaderTypes
      <4>2. InRequests' = InRequests
        BY <2>1, SameDocument
      <4> QED BY <2>1, <3>1, <3>2, <4>1, <4>2, Zenon
    <3> QED BY <2>1, <3>3 DEF SecondPass
  <2> QED BY <2>3, <2>4, <2>5, <2>6 DEF LoaderInv
<1> QED BY <1>1, <1>2

LEMMA ReadRoadKeeps ==
  ASSUME LoaderInv, ReadRoad
  PROVE  LoaderInv'
<1>1. CASE Throw
  BY <1>1, ThrowKeeps DEF ReadRoad
<1>2. CASE ~Throw
  <2>1. /\ pc = "stops" /\ pc' = "stops" /\ roads # << >>
        /\ Head(roads).lenght # NotAnInt /\ roads' = Tail(roads)
        /\ UNCHANGED <<document, request, base_file>>
    BY <1>2 DEF ReadRoad
  <2>2. PICK S : roads \in Seq(S)
    BY DEF LoaderInv, LoaderTypes
  <2>3. LoaderTypes'
    <3>1. roads' \in Seq(S)
      BY <2>1, <2>2
    <3> QED BY <2>1, <3>1 DEF LoaderInv, LoaderTypes
  <2>4. FileAtPlace'
    BY <2>1 DEF LoaderInv, FileAtPlace
  <2>5. FirstPass'
    <3>1. \A i \in InRequests' : (BusFine(i))'
      BY <2>1, SameDocument DEF LoaderInv, FirstPass
    <3> QED BY <2>1, <3>1 DEF FirstPass
  <2>6. SecondPass'
    <3>1. \A road \in Elements(roads) :
            road.lenght # NotAnInt \/ road \in Elements(roads')
      <4>1. /\ DOMAIN roads = 1 .. Len(roads) /\ Len(roads) \in Nat
            /\ DOMAIN Tail(roads) = 1 .. Len(roads) - 1
            /\ Head(roads) = roads[1]
            /\ \A i \in 1 .. Len(roads) - 1 : Tail(roads)[i] = roads[i + 1]
        BY <2>1, <2>2
      <4> SUFFICES ASSUME NEW i \in DOMAIN roads, i # 1
                   PROVE  roads[i] \in Elements(roads')
        BY <2>1, <4>1 DEF Elements
      <4>2. i - 1 \in DOMAIN Tail(roads) /\ Tail(roads)[i - 1] = roads[i]
        BY <4>1
      <4> QED BY <2>1, <4>2 DEF Elements
    <3>2. \A i \in InRequests : i < request => (StopRead(i))'
      BY <2>1, <3>1, StaysRead DEF LoaderInv, SecondPass
    <3>3. InRequests' = InRequests
      BY <2>1, SameDocument
    <3> QED BY <2>1, <3>2, <3>3, Zenon DEF SecondPass
  <2> QED BY <2>3, <2>4, <2>5, <2>6 DEF LoaderInv
<1> QED BY <1>1, <1>2

LEMMA SameGap ==
  ASSUME UNCHANGED vars
  PROVE  HasGap' <=> HasGap
BY DEF vars, HasGap

LEMMA BuildRouterKeeps ==
  ASSUME LoaderInv, BuildRouter
  PROVE  LoaderInv'
<1>1. CASE Throw
  BY <1>1, ThrowKeeps DEF BuildRouter
<1>2. CASE ~Throw
  <2>1. /\ pc = "stops" /\ pc' = "serialize" /\ roads = << >>
        /\ request > Len(Requests) /\ document.missing # "routing_settings" /\ ~HasGap
        /\ UNCHANGED <<vars, document, request, roads, base_file>>
    BY <1>2 DEF BuildRouter
  <2>2. ~HasGap'
    BY <2>1, SameGap
  <2>3. LoaderTypes' /\ FileAtPlace'
    BY <2>1, <2>2 DEF LoaderInv, LoaderTypes, FileAtPlace
  <2>4. FirstPass'
    <3>1. \A i \in InRequests' : (BusFine(i))'
      BY <2>1, SameDocument DEF LoaderInv, FirstPass
    <3> QED BY <2>1, <3>1 DEF FirstPass
  <2>5. SecondPass'
    <3>1. Elements(roads) = {}
      BY <2>1 DEF Elements
    <3>2. \A i \in InRequests : i < request
      BY <2>1, RequestsAreCounted DEF LoaderInv, LoaderTypes
    <3>3. \A i \in InRequests : StopFine(i)
      BY <2>1, <3>1, <3>2, Zenon DEF LoaderInv, SecondPass, StopRead, StopFine
    <3>4. \A i \in InRequests' : (StopFine(i))'
      BY <2>1, <3>3, SameDocument
    <3> QED BY <2>1, <3>4 DEF SecondPass
  <2> QED BY <2>3, <2>4, <2>5 DEF LoaderInv
<1> QED BY <1>1, <1>2

LEMMA SerializeKeeps ==
  ASSUME LoaderInv, Serialize
  PROVE  LoaderInv'
<1>1. CASE Throw
  <2>1. UNCHANGED base_file
    BY <1>1 DEF Serialize, Throw
  <2> QED BY <1>1, <2>1, ThrowKeeps DEF Serialize
<1>2. CASE ~Throw
  <2>1. /\ pc = "serialize" /\ pc' = "done" /\ base_file' = "written"
        /\ document.missing # "render_settings"
        /\ UNCHANGED <<vars, document, request, roads>>
    BY <1>2 DEF Serialize
  <2>2. HasGap' <=> HasGap
    BY <2>1, SameGap
  <2>3. LoaderTypes' /\ FileAtPlace'
    BY <2>1, <2>2 DEF LoaderInv, LoaderTypes, FileAtPlace
  <2>4. FirstPass' /\ SecondPass'
    <3>1. \A i \in InRequests' : (BusFine(i))' /\ (StopFine(i))'
      BY <2>1, SameDocument DEF LoaderInv, FirstPass, SecondPass
    <3> QED BY <2>1, <3>1 DEF FirstPass, SecondPass
  <2> QED BY <2>3, <2>4 DEF LoaderInv
<1> QED BY <1>1, <1>2

LEMMA StutterKeeps ==
  ASSUME LoaderInv, UNCHANGED loaderVars
  PROVE  LoaderInv'
<1>1. UNCHANGED <<vars, document, pc, request, roads, base_file>>
  BY DEF loaderVars, reader
<1>2. HasGap' <=> HasGap
  BY <1>1, SameGap
<1>3. LoaderTypes' /\ FileAtPlace'
  BY <1>1, <1>2 DEF LoaderInv, LoaderTypes, FileAtPlace
<1>4. \A i : (StopRead(i))' <=> StopRead(i)
  BY <1>1 DEF StopRead, Requests, Elements
<1>5. FirstPass' /\ SecondPass'
  BY <1>1, <1>4, SameDocument DEF LoaderInv, FirstPass, SecondPass
<1> QED BY <1>3, <1>5 DEF LoaderInv

LEMMA LoaderAlways == LoaderSpec => []LoaderInv
<1>1. LoaderInit => LoaderInv
  BY LoaderInitHolds
<1>2. LoaderInv /\ [LoaderNext]_loaderVars => LoaderInv'
  <2> SUFFICES ASSUME LoaderInv, [LoaderNext]_loaderVars PROVE LoaderInv'
    OBVIOUS
  <2>1. CASE OpenFile
    BY <2>1, OpenFileKeeps
  <2>2. CASE NoFileName
    BY <2>2, ThrowKeeps DEF NoFileName
  <2>3. CASE ReadBus
    BY <2>3, ReadBusKeeps
  <2>4. CASE AddBusStops
    BY <2>4, AddBusStopsKeeps
  <2>5. CASE StartStops
    BY <2>5, StartStopsKeeps
  <2>6. CASE ReadStop
    BY <2>6, ReadStopKeeps
  <2>7. CASE ReadRoad
    BY <2>7, ReadRoadKeeps
  <2>8. CASE BuildRouter
    BY <2>8, BuildRouterKeeps
  <2>9. CASE Serialize
    BY <2>9, SerializeKeeps
  <2>10. CASE UNCHANGED loaderVars
    BY <2>10, StutterKeeps
  <2> QED BY <2>1, <2>2, <2>3, <2>4, <2>5, <2>6, <2>7, <2>8, <2>9, <2>10 DEF LoaderNext
<1> QED BY <1>1, <1>2, PTL DEF LoaderSpec

(* AllOrEmpty: for every document, a written base file stands for one with *)
(* nothing wrong in it, and a make_base that threw after it had opened the *)
(* file has emptied it.                                                    *)
THEOREM BaseIsAllOrEmpty == LoaderSpec => []AllOrEmpty
<1>1. LoaderInv => AllOrEmpty
  <2> SUFFICES ASSUME LoaderInv PROVE AllOrEmpty
    OBVIOUS
  <2>1. pc = "thrown" => base_file = IF document.missing = "serialization_settings"
                                       THEN "old" ELSE "empty"
    BY DEF LoaderInv, FileAtPlace
  <2>2. ASSUME base_file = "written"
        PROVE  /\ document.missing \notin
                    {"base_requests", "routing_settings", "render_settings"}
               /\ ~HasGap
               /\ \A i \in InRequests : BusFine(i) /\ StopFine(i)
    BY <2>2 DEF LoaderInv, FileAtPlace, FirstPass, SecondPass
  <2>3. ASSUME base_file = "written", NEW i \in DOMAIN Requests
        PROVE  /\ Requests[i].type # NoType
               /\ Requests[i].type \in {"Bus", "Stop"} => ~Requests[i].flawed
               /\ Requests[i].type = "Stop" =>
                    \A road \in Elements(Requests[i].road_distances) : road.lenght # NotAnInt
    BY <2>2, <2>3 DEF BusFine, StopFine, InRequests
  <2> QED BY <2>1, <2>2, <2>3, Zenon DEF AllOrEmpty
<1> QED BY <1>1, LoaderAlways, PTL

-----------------------------------------------------------------------------
(* What was read of the document is in the catalogue.                      *)

(* How many requests either pass of the reader has taken.                  *)
BusesRead == IF pc = "buses" THEN request - 1 ELSE Len(Requests)
StopsRead == IF pc = "buses" THEN 0 ELSE request - 1

(* Where in all_buses_ the Bus of a request is.                            *)
PlaceOf(i) == Cardinality({j \in OfType("Bus") : j <= i})

Being(i) == call # NoCall /\ i = BusesRead

BusesSaid ==
  /\ Len(all_buses_) = PlaceOf(BusesRead)
  /\ \A i \in OfType("Bus") : i <= BusesRead =>
       LET bus == all_buses_[PlaceOf(i)] IN
       /\ bus.name = Requests[i].name
       /\ bus.is_loop_trip = Requests[i].is_roundtrip
       /\ ~Being(i) =>
            /\ Len(bus.stops) = Len(Requests[i].stops)
            /\ \A k \in DOMAIN bus.stops : NameOf(bus.stops[k]) = Requests[i].stops[k]

(* The running AddBus: which names it has turned into addresses.           *)
CallSaid ==
  call # NoCall =>
    LET names == Requests[BusesRead].stops
        done  == Len(call.deq_stops)
    IN /\ BusesRead \in OfType("Bus")
       /\ done + Len(call.rest) = Len(names)
       /\ \A k \in 1 .. done : NameOf(call.deq_stops[k]) = names[k]
       /\ \A k \in 1 .. Len(call.rest) : call.rest[k] = names[done + k]

(* The road_distances of the running JSON_ReaderStop that are still to be  *)
(* added are the last of its request.                                      *)
RoadsLeft ==
  roads # << >> =>
    LET all == Requests[StopsRead].road_distances IN
    /\ StopsRead \in OfType("Stop")
    /\ Len(roads) <= Len(all)
    /\ \A k \in 1 .. Len(roads) : roads[k] = all[(Len(all) - Len(roads)) + k]

RoadRead(i, k) ==
  /\ i \in OfType("Stop") /\ i <= StopsRead
  /\ k \in DOMAIN Requests[i].road_distances
  /\ i = StopsRead => k <= Len(Requests[i].road_distances) - Len(roads)

RoadFromTo(i, k, from, to) ==
  /\ RoadRead(i, k)
  /\ Requests[i].road_distances[k].from = from
  /\ Requests[i].road_distances[k].to = to

StopNamed(n) ==
  \/ \E i \in OfType("Bus") : \E k \in DOMAIN Requests[i].stops :
       /\ i <= BusesRead /\ Requests[i].stops[k] = n
       /\ Being(i) => k <= Len(call.deq_stops)
  \/ \E i \in OfType("Stop") : i <= StopsRead /\ Requests[i].name = n
  \/ \E i \in OfType("Stop") : \E k \in DOMAIN Requests[i].road_distances :
       RoadRead(i, k) /\ Requests[i].road_distances[k].to = n

StopsSaid == \A n \in StopNames : n \in DOMAIN stops_ <=> StopNamed(n)

PlacedBy(n) == {i \in OfType("Stop") : /\ i <= StopsRead /\ Requests[i].name = n
                                       /\ Requests[i].coordinates # Origin}

PlacesSaid ==
  \A n \in DOMAIN stops_ :
    \/ PlacedBy(n) = {} /\ all_stops_[stops_[n]].coordinates = Origin
    \/ \E i \in PlacedBy(n) :
         /\ \A j \in PlacedBy(n) : i <= j
         /\ all_stops_[stops_[n]].coordinates = Requests[i].coordinates

(* Of the roads read so far from one stop to another the first counts.     *)
PairSaid(p, q, from, to) ==
  /\ <<p, q>> \in DOMAIN length_between_stops_ =>
       \E i \in OfType("Stop") : \E k \in DOMAIN Requests[i].road_distances :
          RoadFromTo(i, k, from, to)
  /\ \A i \in OfType("Stop") : \A k \in DOMAIN Requests[i].road_distances :
       RoadFromTo(i, k, from, to) =>
         /\ <<p, q>> \in DOMAIN length_between_stops_
         /\ \/ length_between_stops_[<<p, q>>] = Abs(Requests[i].road_distances[k].lenght)
            \/ \E j \in OfType("Stop") : \E m \in DOMAIN Requests[j].road_distances :
                 /\ RoadFromTo(j, m, from, to)
                 /\ j < i \/ (j = i /\ m < k)

LengthsSaid ==
  /\ \A i \in OfType("Stop") : \A k \in DOMAIN Requests[i].road_distances :
       RoadRead(i, k) => Requests[i].road_distances[k].from \in DOMAIN stops_
  /\ \A p, q \in DOMAIN all_stops_ : PairSaid(p, q, NameOf(p), NameOf(q))

Running == pc \in {"buses", "stops", "serialize", "done"}

AllSaid == BusesSaid /\ CallSaid /\ RoadsLeft /\ StopsSaid /\ PlacesSaid /\ LengthsSaid

ReadInv ==
  /\ CatalogueInv
  /\ pc = "open" => Init /\ roads = << >> /\ request = 1
  /\ pc = "buses" => roads = << >> /\ request <= Len(Requests) + 1
  /\ pc \in {"stops", "serialize", "done"} => call = NoCall
  /\ pc \in {"serialize", "done"} => request > Len(Requests) /\ roads = << >>
  /\ Running => AllSaid

-----------------------------------------------------------------------------
LEMMA BusRequests ==
  ASSUME LoaderTypes
  PROVE  /\ OfType("Bus") \subseteq InRequests /\ OfType("Stop") \subseteq InRequests
         /\ Len(Requests) \in Nat /\ InRequests = 1 .. Len(Requests)
         /\ \A i \in InRequests : \E S : Requests[i].road_distances \in Seq(S)
         /\ \A i \in OfType("Bus") : ~Requests[i].flawed => BusRequestOK(Requests[i])
         /\ \A i \in OfType("Stop") : ~Requests[i].flawed => StopRequestOK(Requests[i])
<1>1. /\ \A i \in OfType("Bus") : ~Requests[i].flawed => BusRequestOK(Requests[i])
      /\ \A i \in OfType("Stop") : ~Requests[i].flawed => StopRequestOK(Requests[i])
  BY BaseLoaderAssumption DEF LoaderTypes, Requests, OfType
<1> QED BY <1>1, RequestsAreCounted DEF OfType, InRequests

LEMMA PlacesCount ==
  ASSUME LoaderTypes
  PROVE  /\ \A i \in Int : PlaceOf(i) \in Nat
         /\ PlaceOf(0) = 0
         /\ \A i \in OfType("Bus") : PlaceOf(i) = PlaceOf(i - 1) + 1
         /\ \A i \in Int : i \notin OfType("Bus") => PlaceOf(i) = PlaceOf(i - 1)
         /\ \A i, j \in Int : i <= j => PlaceOf(i) <= PlaceOf(j)
<1> DEFINE Upto(i) == {j \in OfType("Bus") : j <= i}
<1>1. OfType("Bus") \subseteq 1 .. Len(Requests) /\ Len(Requests) \in Nat
  BY BusRequests
<1>2. IsFiniteSet(OfType("Bus"))
  <2>1. IsFiniteSet(1 .. Len(Requests))
    BY <1>1, FS_Interval
  <2> QED BY <1>1, <2>1, FS_Subset
<1>3. \A i : IsFiniteSet(Upto(i)) /\ Cardinality(Upto(i)) \in Nat
  BY <1>2, FS_Subset, FS_CardinalityType
<1>4. PlaceOf(0) = 0
  <2>1. Upto(0) = {}
    BY <1>1
  <2> QED BY <2>1, FS_EmptySet DEF PlaceOf
<1>5. ASSUME NEW i \in OfType("Bus") PROVE PlaceOf(i) = PlaceOf(i - 1) + 1
  <2>1. Upto(i) = Upto(i - 1) \cup {i} /\ i \notin Upto(i - 1)
    BY <1>1
  <2> HIDE DEF Upto
  <2>2. Cardinality(Upto(i - 1) \cup {i}) = Cardinality(Upto(i - 1)) + 1
    BY <1>3, <2>1, FS_AddElement
  <2> QED BY <2>1, <2>2 DEF PlaceOf, Upto
<1>6. ASSUME NEW i \in Int, i \notin OfType("Bus") PROVE PlaceOf(i) = PlaceOf(i - 1)
  <2>1. Upto(i) = Upto(i - 1)
    BY <1>1, <1>6
  <2> QED BY <2>1 DEF PlaceOf
<1>7. ASSUME NEW i \in Int, NEW j \in Int, i <= j PROVE PlaceOf(i) <= PlaceOf(j)
  <2>1. Upto(i) \subseteq Upto(j)
    BY <1>1, <1>7
  <2> HIDE DEF Upto
  <2>2. Cardinality(Upto(i)) <= Cardinality(Upto(j))
    BY <1>3, <2>1, FS_Subset
  <2> QED BY <2>2 DEF PlaceOf, Upto
<1>8. \A i \in Int : PlaceOf(i) \in Nat
  BY <1>3 DEF PlaceOf
<1> QED BY <1>4, <1>5, <1>6, <1>7, <1>8

(* The place of a request read is the place of a Bus, of its own.          *)
LEMMA PlacesInBuses ==
  ASSUME LoaderTypes, Running, Len(all_buses_) = PlaceOf(BusesRead)
  PROVE  /\ BusesRead \in Nat /\ StopsRead \in Nat
         /\ \A i \in OfType("Bus") : i <= BusesRead =>
              /\ PlaceOf(i) \in 1 .. Len(all_buses_)
              /\ \A j \in OfType("Bus") : j < i => PlaceOf(j) < PlaceOf(i)
<1>1. BusesRead \in Nat /\ StopsRead \in Nat
  BY BusRequests DEF BusesRead, StopsRead, LoaderTypes
<1>2. OfType("Bus") \subseteq Int
  BY BusRequests
<1>3. ASSUME NEW i \in OfType("Bus"), i <= BusesRead
      PROVE  /\ PlaceOf(i) \in 1 .. Len(all_buses_)
             /\ \A j \in OfType("Bus") : j < i => PlaceOf(j) < PlaceOf(i)
  <2>1. i \in Int /\ i - 1 \in Int /\ PlaceOf(i) = PlaceOf(i - 1) + 1 /\ PlaceOf(i - 1) \in Nat
    BY <1>2, PlacesCount
  <2>2. PlaceOf(i) <= PlaceOf(BusesRead) /\ PlaceOf(BusesRead) \in Nat
    BY <1>1, <1>3, <2>1, PlacesCount
  <2>3. ASSUME NEW j \in OfType("Bus"), j < i PROVE PlaceOf(j) < PlaceOf(i)
    <3>1. j \in Int /\ j <= i - 1
      BY <1>2, <2>1, <2>3
    <3>2. PlaceOf(j) <= PlaceOf(i - 1) /\ PlaceOf(j) \in Nat
      BY <2>1, <3>1, PlacesCount
    <3> QED BY <2>1, <3>2
  <2> QED BY <2>1, <2>2, <2>3
<1> QED BY <1>1, <1>3

LEMMA EnsureStopMakes ==
  ASSUME StopsOK, NEW n \in StopNames, EnsureStop(n)
  PROVE  /\ DOMAIN stops_' = DOMAIN stops_ \cup {n}
         /\ \A m \in DOMAIN stops_ :
              all_stops_'[stops_'[m]].coordinates = all_stops_[stops_[m]].coordinates
         /\ n \notin DOMAIN stops_ => all_stops_'[stops_'[n]].coordinates = Origin
<1>1. CASE n \in DOMAIN stops_ /\ UNCHANGED StopVars
  BY <1>1 DEF StopVars
<1>2. CASE n \notin DOMAIN stops_ /\ AddStopEffect(n, Origin)
  <2> DEFINE stop == [name |-> n, coordinates |-> Origin]
  <2>1. /\ all_stops_' = Append(all_stops_, stop)
        /\ stops_' = Assign(stops_, n, Len(all_stops_) + 1)
    BY <1>2 DEF AddStopEffect
  <2>2. stop \in Stop /\ stop.coordinates = Origin
    BY CatalogueAssumption DEF Stop
  <2>3. \A m \in DOMAIN stops_ : stops_[m] \in DOMAIN all_stops_
    BY DEF StopsOK
  <2> HIDE DEF stop
  <2>4. /\ all_stops_'[Len(all_stops_) + 1] = stop
        /\ \A i \in DOMAIN all_stops_ : all_stops_'[i] = all_stops_[i]
    BY <2>1, <2>2, AppendProps DEF StopsOK
  <2>5. /\ DOMAIN stops_' = DOMAIN stops_ \cup {n}
        /\ stops_'[n] = Len(all_stops_) + 1
        /\ \A m \in DOMAIN stops_ : stops_'[m] = stops_[m]
    BY <1>2, <2>1 DEF Assign
  <2> QED BY <2>2, <2>3, <2>4, <2>5
<1> QED BY <1>1, <1>2 DEF EnsureStop

LEMMA AddStopMakes ==
  ASSUME StopsOK, NEW n \in StopNames, NEW c \in Coordinates, AddStopEffect(n, c)
  PROVE  /\ DOMAIN stops_' = DOMAIN stops_ \cup {n}
         /\ \A m \in DOMAIN stops_ : m # n =>
              all_stops_'[stops_'[m]].coordinates = all_stops_[stops_[m]].coordinates
         /\ IF n \in DOMAIN stops_ /\ all_stops_[stops_[n]].coordinates # Origin
              THEN all_stops_'[stops_'[n]].coordinates = all_stops_[stops_[n]].coordinates
              ELSE all_stops_'[stops_'[n]].coordinates = c
<1> DEFINE stop == [name |-> n, coordinates |-> c]
<1>0. /\ stop \in Stop /\ stop.coordinates = c
      /\ all_stops_ \in Seq(Stop)
      /\ \A m \in DOMAIN stops_ : /\ stops_[m] \in DOMAIN all_stops_
                                  /\ all_stops_[stops_[m]].name = m
  BY DEF Stop, StopsOK, StopIndexExact
<1>1. CASE n \in DOMAIN stops_ /\ all_stops_[stops_[n]].coordinates # Origin /\ UNCHANGED StopVars
  BY <1>1 DEF StopVars
<1>2. CASE /\ n \in DOMAIN stops_ /\ all_stops_[stops_[n]].coordinates = Origin
           /\ all_stops_' = [all_stops_ EXCEPT ![stops_[n]] = stop]
           /\ UNCHANGED stops_
  <2>1. \A m \in DOMAIN stops_ : m # n => stops_[m] # stops_[n]
    BY <1>0, <1>2
  <2>2. /\ all_stops_'[stops_[n]] = stop
        /\ \A m \in DOMAIN stops_ : m # n => all_stops_'[stops_[m]] = all_stops_[stops_[m]]
    BY <1>0, <1>2, <2>1
  <2> HIDE DEF stop
  <2> QED BY <1>0, <1>2, <2>2
<1>3. CASE /\ n \notin DOMAIN stops_
           /\ all_stops_' = Append(all_stops_, stop)
           /\ stops_' = Assign(stops_, n, Len(all_stops_) + 1)
  <2> HIDE DEF stop
  <2>1. /\ all_stops_'[Len(all_stops_) + 1] = stop
        /\ \A i \in DOMAIN all_stops_ : all_stops_'[i] = all_stops_[i]
    BY <1>0, <1>3, AppendProps
  <2>2. /\ DOMAIN stops_' = DOMAIN stops_ \cup {n}
        /\ stops_'[n] = Len(all_stops_) + 1
        /\ \A m \in DOMAIN stops_ : stops_'[m] = stops_[m]
    BY <1>3 DEF Assign
  <2> QED BY <1>0, <1>3, <2>1, <2>2
<1> QED BY <1>1, <1>2, <1>3 DEF AddStopEffect, StopVars

LEMMA CatalogueFacts ==
  ASSUME CatalogueInv
  PROVE  /\ TypeOK /\ StopsOK
         /\ \A m \in DOMAIN stops_ : stops_[m] \in DOMAIN all_stops_ /\ NameOf(stops_[m]) = m
         /\ \A p \in DOMAIN all_stops_ : /\ NameOf(p) \in DOMAIN stops_ /\ NameOf(p) \in StopNames
                                         /\ stops_[NameOf(p)] = p
<1>1. TypeOK /\ StopsOK
  BY DEF CatalogueInv, IndInv, IInv, StopsOK, TypeOK
<1> QED BY <1>1 DEF StopsOK, StopIndexExact, NameOf

(* Nothing that was read is forgotten when nothing happens.                *)
LEMMA SaidStays ==
  ASSUME AllSaid, UNCHANGED <<vars, document, roads>>,
         BusesRead' = BusesRead, StopsRead' = StopsRead
  PROVE  AllSaid'
<1>1. /\ Requests' = Requests /\ \A t : OfType(t)' = OfType(t)
      /\ \A p : NameOf(p)' = NameOf(p)
      /\ call' = call /\ all_buses_' = all_buses_ /\ all_stops_' = all_stops_
      /\ stops_' = stops_ /\ length_between_stops_' = length_between_stops_ /\ roads' = roads
  BY DEF vars, Requests, OfType, NameOf
<1>2. /\ \A i : PlaceOf(i)' = PlaceOf(i) /\ (Being(i)' <=> Being(i))
      /\ \A i, k : RoadRead(i, k)' <=> RoadRead(i, k)
      /\ \A n : PlacedBy(n)' = PlacedBy(n)
  BY <1>1 DEF PlaceOf, Being, RoadRead, PlacedBy
<1>3. BusesSaid' /\ CallSaid'
  BY <1>1, <1>2 DEF AllSaid, BusesSaid, CallSaid
<1>4. RoadsLeft' /\ PlacesSaid'
  BY <1>1, <1>2 DEF AllSaid, RoadsLeft, PlacesSaid
<1>5. \A i, k, from, to : RoadFromTo(i, k, from, to)' <=> RoadFromTo(i, k, from, to)
  BY <1>1, <1>2 DEF RoadFromTo
<1>6. LengthsSaid'
  BY <1>1, <1>2, <1>5 DEF AllSaid, LengthsSaid, PairSaid
<1>7. \A n : StopNamed(n)' <=> StopNamed(n)
  BY <1>1, <1>2 DEF StopNamed
<1>8. StopsSaid'
  BY <1>1, <1>7 DEF AllSaid, StopsSaid
<1> QED BY <1>3, <1>4, <1>6, <1>8 DEF AllSaid

LEMMA SameRequests ==
  ASSUME document' = document
  PROVE  /\ Requests' = Requests /\ (\A t : OfType(t)' = OfType(t))
         /\ \A i : PlaceOf(i)' = PlaceOf(i)
BY DEF Requests, OfType, PlaceOf

LEMMA OpenFileReads ==
  ASSUME LoaderInv, ReadInv, OpenFile
  PROVE  ReadInv'
<1>1. /\ Init /\ roads = << >> /\ request = 1 /\ CatalogueInv
      /\ pc' \in {"buses", "thrown"} /\ UNCHANGED <<vars, document, request, roads>>
  BY DEF ReadInv, OpenFile
<1>2. CatalogueInv'
  BY <1>1, StutteringKeeps
<1>3. ASSUME pc' = "buses" PROVE AllSaid'
  <2>1. /\ BusesRead' = 0 /\ StopsRead' = 0 /\ roads' = << >> /\ call' = NoCall
        /\ stops_' = << >> /\ all_stops_' = << >> /\ all_buses_' = << >>
        /\ length_between_stops_' = << >>
    BY <1>1, <1>3 DEF BusesRead, StopsRead, Init, vars
  <2>2. /\ OfType("Bus")' \subseteq Nat \ {0} /\ OfType("Stop")' \subseteq Nat \ {0}
    <3>1. OfType("Bus") \subseteq Nat \ {0} /\ OfType("Stop") \subseteq Nat \ {0}
      BY BusRequests DEF LoaderInv
    <3> QED BY <1>1, <3>1, SameRequests
  <2>3. PlaceOf(BusesRead)' = 0
    <3>1. PlaceOf(0)' = 0
      BY <1>1, SameRequests, PlacesCount DEF LoaderInv
    <3> QED BY <2>1, <3>1 DEF PlaceOf
  <2>4. BusesSaid'
    BY <2>1, <2>2, <2>3 DEF BusesSaid
  <2>5. CallSaid' /\ RoadsLeft' /\ PlacesSaid'
    BY <2>1 DEF CallSaid, RoadsLeft, PlacesSaid
  <2>6. \A i, k : ~RoadRead(i, k)'
    BY <2>1, <2>2 DEF RoadRead
  <2>7. LengthsSaid'
    BY <2>1, <2>6 DEF LengthsSaid, PairSaid, RoadFromTo
  <2>8. \A n : ~StopNamed(n)'
    BY <2>1, <2>2, <2>6 DEF StopNamed
  <2>9. StopsSaid'
    BY <2>1, <2>8 DEF StopsSaid
  <2> QED BY <2>4, <2>5, <2>7, <2>9 DEF AllSaid
<1>4. Len(Requests') \in Nat
  BY <1>1, SameRequests, BusRequests DEF LoaderInv
<1> QED BY <1>1, <1>2, <1>3, <1>4 DEF ReadInv, Running

LEMMA ThrowReads ==
  ASSUME ReadInv, Throw
  PROVE  ReadInv'
<1>1. CatalogueInv'
  BY StutteringKeeps DEF ReadInv, Throw
<1> QED BY <1>1 DEF ReadInv, Running, Throw

LEMMA StartStopsReads ==
  ASSUME LoaderInv, ReadInv, StartStops
  PROVE  ReadInv'
<1>1. /\ pc = "buses" /\ pc' = "stops" /\ call = NoCall /\ request > Len(Requests) /\ request' = 1
      /\ UNCHANGED <<vars, document, roads>> /\ request <= Len(Requests) + 1
      /\ CatalogueInv /\ AllSaid /\ call' = NoCall
  BY DEF StartStops, ReadInv, Running, vars
<1>2. BusesRead' = BusesRead /\ StopsRead' = StopsRead
  <2>1. Len(Requests) \in Nat /\ request \in Nat
    BY BusRequests DEF LoaderInv, LoaderTypes
  <2>2. Requests' = Requests
    BY <1>1, SameRequests
  <2> QED BY <1>1, <2>1, <2>2 DEF BusesRead, StopsRead
<1>3. CatalogueInv' /\ AllSaid'
  BY <1>1, <1>2, StutteringKeeps, SaidStays
<1> QED BY <1>1, <1>3 DEF ReadInv, Running

LEMMA BuildRouterReads ==
  ASSUME LoaderInv, ReadInv, BuildRouter
  PROVE  ReadInv'
<1>1. CASE Throw
  BY <1>1, ThrowReads
<1>2. CASE ~Throw
  <2>1. /\ pc = "stops" /\ pc' = "serialize" /\ roads = << >> /\ request > Len(Requests)
        /\ UNCHANGED <<vars, document, request, roads>>
        /\ CatalogueInv /\ AllSaid /\ call' = NoCall
    BY <1>2 DEF BuildRouter, ReadInv, Running, vars
  <2>2. Requests' = Requests
    BY <2>1, SameRequests
  <2>3. CatalogueInv' /\ AllSaid'
    BY <2>1, <2>2, StutteringKeeps, SaidStays DEF BusesRead, StopsRead
  <2> QED BY <2>1, <2>2, <2>3 DEF ReadInv, Running
<1> QED BY <1>1, <1>2

LEMMA SerializeReads ==
  ASSUME LoaderInv, ReadInv, Serialize
  PROVE  ReadInv'
<1>1. CASE Throw
  BY <1>1, ThrowReads
<1>2. CASE ~Throw
  <2>1. /\ pc = "serialize" /\ pc' = "done" /\ roads = << >> /\ request > Len(Requests)
        /\ UNCHANGED <<vars, document, request, roads>>
        /\ CatalogueInv /\ AllSaid /\ call' = NoCall
    BY <1>2 DEF Serialize, ReadInv, Running, vars
  <2>2. Requests' = Requests
    BY <2>1, SameRequests
  <2>3. CatalogueInv' /\ AllSaid'
    BY <2>1, <2>2, StutteringKeeps, SaidStays DEF BusesRead, StopsRead
  <2> QED BY <2>1, <2>2, <2>3 DEF ReadInv, Running
<1> QED BY <1>1, <1>2

LEMMA StutterReads ==
  ASSUME ReadInv, UNCHANGED loaderVars
  PROVE  ReadInv'
<1>1. UNCHANGED <<vars, document, pc, request, roads>> /\ CatalogueInv
  BY DEF loaderVars, reader, ReadInv
<1>2. Requests' = Requests
  BY <1>1, SameRequests
<1>3. CatalogueInv' /\ (Running => AllSaid')
  BY <1>1, <1>2, StutteringKeeps, SaidStays DEF BusesRead, StopsRead, ReadInv
<1> QED BY <1>1, <1>2, <1>3 DEF ReadInv, Running, vars, Init

-----------------------------------------------------------------------------
(* In the first pass no stop has a place yet, and there are no lengths.    *)
LEMMA OnlyBusesYet ==
  ASSUME LoaderInv, ReadInv, pc = "buses"
  PROVE  /\ CatalogueInv /\ AllSaid /\ roads = << >> /\ request \in Nat \ {0}
         /\ request <= Len(Requests) + 1 /\ Len(Requests) \in Nat
         /\ BusesRead = request - 1 /\ BusesRead \in Nat /\ StopsRead = 0
         /\ OfType("Bus") \subseteq Nat \ {0} /\ OfType("Stop") \subseteq Nat \ {0}
         /\ DOMAIN length_between_stops_ = {}
         /\ \A n \in DOMAIN stops_ : all_stops_[stops_[n]].coordinates = Origin
<1>1. /\ CatalogueInv /\ AllSaid /\ roads = << >> /\ request \in Nat \ {0}
      /\ request <= Len(Requests) + 1
  BY DEF ReadInv, Running, LoaderInv, LoaderTypes
<1>2. /\ BusesRead = request - 1 /\ BusesRead \in Nat /\ StopsRead = 0 /\ Len(Requests) \in Nat
      /\ OfType("Bus") \subseteq Nat \ {0} /\ OfType("Stop") \subseteq Nat \ {0}
  BY <1>1, BusRequests DEF BusesRead, StopsRead, LoaderInv
<1>3. \A i, k, from, to : ~RoadFromTo(i, k, from, to)
  BY <1>2 DEF RoadRead, RoadFromTo
<1>4. \A n : PlacedBy(n) = {}
  BY <1>2 DEF PlacedBy
<1>5. DOMAIN length_between_stops_ \subseteq (DOMAIN all_stops_) \X (DOMAIN all_stops_)
  BY <1>1, CatalogueFacts DEF TypeOK
<1>6. \A p, q \in DOMAIN all_stops_ : <<p, q>> \notin DOMAIN length_between_stops_
  BY <1>1, <1>3 DEF AllSaid, LengthsSaid, PairSaid
<1>7. DOMAIN length_between_stops_ = {}
  BY <1>5, <1>6
<1>8. \A n \in DOMAIN stops_ : all_stops_[stops_[n]].coordinates = Origin
  BY <1>1, <1>4 DEF AllSaid, PlacesSaid
<1> QED BY <1>1, <1>2, <1>7, <1>8

LEMMA StillOnlyBuses ==
  ASSUME LoaderInv, document' = document, roads' = << >>, pc' = "buses",
         DOMAIN length_between_stops_' = {},
         \A n \in DOMAIN stops_' : all_stops_'[stops_'[n]].coordinates = Origin
  PROVE  /\ RoadsLeft' /\ PlacesSaid' /\ LengthsSaid'
         /\ \A n : StopNamed(n)' <=>
              \E i \in OfType("Bus") : \E k \in DOMAIN Requests[i].stops :
                 /\ i <= BusesRead' /\ Requests[i].stops[k] = n
                 /\ Being(i)' => k <= Len(call'.deq_stops)
<1>1. /\ StopsRead' = 0 /\ Requests' = Requests /\ \A t : OfType(t)' = OfType(t)
      /\ OfType("Stop") \subseteq Nat \ {0}
  BY SameRequests, BusRequests DEF StopsRead, LoaderInv
<1>2. \A i, k : ~RoadRead(i, k)'
  BY <1>1 DEF RoadRead
<1>3. \A n : PlacedBy(n)' = {}
  BY <1>1 DEF PlacedBy
<1>4. RoadsLeft' /\ PlacesSaid' /\ LengthsSaid'
  BY <1>2, <1>3 DEF RoadsLeft, PlacesSaid, LengthsSaid, PairSaid, RoadFromTo
<1> QED BY <1>1, <1>2, <1>4 DEF StopNamed

LEMMA ReadBusReads ==
  ASSUME LoaderInv, ReadInv, ReadBus
  PROVE  ReadInv'
<1>1. CASE Throw
  BY <1>1, ThrowReads
<1>2. CASE ~Throw
  <2>1. /\ pc = "buses" /\ pc' = "buses" /\ request' = request + 1 /\ request <= Len(Requests)
        /\ call = NoCall /\ UNCHANGED <<document, roads>>
        /\ \/ /\ Requests[request].type = "Bus" /\ ~Requests[request].flawed
              /\ BeginAddBus(Requests[request].name, Requests[request].stops,
                             Requests[request].is_roundtrip)
           \/ Requests[request].type # "Bus" /\ UNCHANGED vars
    BY <1>2 DEF ReadBus, Request
  <2>r. PICK r : r = request
    OBVIOUS
  <2>2. /\ CatalogueInv /\ AllSaid /\ roads = << >> /\ r \in Nat \ {0}
        /\ BusesRead = r - 1 /\ BusesRead' = r
        /\ OfType("Bus") \subseteq Nat \ {0}
        /\ DOMAIN length_between_stops_ = {}
        /\ \A n \in DOMAIN stops_ : all_stops_[stops_[n]].coordinates = Origin
    BY <2>1, <2>r, OnlyBusesYet DEF BusesRead
  <2>3. /\ Requests' = Requests /\ (\A t : OfType(t)' = OfType(t)) /\ \A i : PlaceOf(i)' = PlaceOf(i)
    BY <2>1, SameRequests
  <2>4. /\ request' <= Len(Requests') + 1 /\ roads' = << >> /\ r \in InRequests
    BY <2>1, <2>2, <2>3, <2>r, BusRequests DEF LoaderInv
  <2>5. \A i : ~Being(i)
    BY <2>1 DEF Being
  <2>6. /\ Len(all_buses_) = PlaceOf(r - 1)
        /\ \A i \in OfType("Bus") : i <= r - 1 =>
             LET bus == all_buses_[PlaceOf(i)] IN
             /\ bus.name = Requests[i].name
             /\ bus.is_loop_trip = Requests[i].is_roundtrip
             /\ Len(bus.stops) = Len(Requests[i].stops)
             /\ \A k \in DOMAIN bus.stops : NameOf(bus.stops[k]) = Requests[i].stops[k]
    BY <2>2, <2>5 DEF AllSaid, BusesSaid
  <2>7. \A n \in StopNames : n \in DOMAIN stops_ <=>
          \E i \in OfType("Bus") : \E k \in DOMAIN Requests[i].stops :
            i <= r - 1 /\ Requests[i].stops[k] = n
    <3>1. StopsRead = 0 /\ OfType("Stop") \subseteq Nat \ {0}
      BY <2>1, OnlyBusesYet
    <3>2. \A i, k : ~RoadRead(i, k)
      BY <3>1 DEF RoadRead
    <3> QED BY <2>2, <2>5, <3>1, <3>2 DEF AllSaid, StopsSaid, StopNamed
  <2>8. CASE Requests[request].type # "Bus" /\ UNCHANGED vars
    <3>1. /\ call' = NoCall /\ stops_' = stops_ /\ all_stops_' = all_stops_
          /\ all_buses_' = all_buses_ /\ length_between_stops_' = length_between_stops_
      BY <2>1, <2>8 DEF vars
    <3>2. r \notin OfType("Bus")
      BY <2>r, <2>8 DEF OfType
    <3>3. PlaceOf(r) = PlaceOf(r - 1)
      BY <2>2, <3>2, PlacesCount DEF LoaderInv
    <3>4. \A i \in OfType("Bus") : i <= r <=> i <= r - 1
      BY <2>2, <3>2
    <3>5. /\ \A i : ~Being(i)' /\ \A p : NameOf(p)' = NameOf(p)
      BY <3>1 DEF Being, NameOf
    <3>6. PlaceOf(BusesRead)' = PlaceOf(r)
      <4>1. PlaceOf(r)' = PlaceOf(r)
        BY <2>3
      <4> QED BY <2>2, <4>1 DEF PlaceOf
    <3>7. BusesSaid'
      BY <2>2, <2>3, <2>6, <3>1, <3>3, <3>4, <3>5, <3>6 DEF BusesSaid
    <3>8. CallSaid'
      BY <3>1 DEF CallSaid
    <3>9. /\ RoadsLeft' /\ PlacesSaid' /\ LengthsSaid'
          /\ \A n : StopNamed(n)' <=>
               \E i \in OfType("Bus") : \E k \in DOMAIN Requests[i].stops :
                  /\ i <= BusesRead' /\ Requests[i].stops[k] = n
                  /\ Being(i)' => k <= Len(call'.deq_stops)
      BY <2>1, <2>2, <2>4, <3>1, StillOnlyBuses
    <3>10. StopsSaid'
      BY <2>2, <2>7, <3>1, <3>4, <3>5, <3>9 DEF StopsSaid
    <3>11. CatalogueInv'
      BY <2>2, <2>8, StutteringKeeps
    <3> QED BY <2>1, <2>4, <3>7, <3>8, <3>9, <3>10, <3>11 DEF ReadInv, Running, AllSaid
  <2>9. CASE /\ Requests[request].type = "Bus" /\ ~Requests[request].flawed
             /\ BeginAddBus(Requests[request].name, Requests[request].stops,
                            Requests[request].is_roundtrip)
    <3> DEFINE bus == [name |-> Requests[r].name, stops |-> << >>,
                       is_loop_trip |-> Requests[r].is_roundtrip]
    <3>1. r \in OfType("Bus") /\ BusRequestOK(Requests[r])
      <4>1. r \in OfType("Bus")
        BY <2>4, <2>9, <2>r DEF OfType, InRequests
      <4> QED BY <2>9, <2>r, <4>1, BusRequests DEF LoaderInv
    <3>2. /\ Requests[r].name \in BusNames /\ Requests[r].stops \in Seq(StopNames)
          /\ Requests[r].is_roundtrip \in BOOLEAN
      BY <3>1 DEF BusRequestOK
    <3>3. CatalogueInv'
      BY <2>2, <2>9, <2>r, <3>2, OperationsKeep
    <3>4. /\ call' = [bus |-> Requests[r].name, rest |-> Requests[r].stops, deq_stops |-> << >>]
          /\ all_buses_' = Append(all_buses_, bus)
          /\ stops_' = stops_ /\ all_stops_' = all_stops_
          /\ length_between_stops_' = length_between_stops_
      BY <2>9, <2>r DEF BeginAddBus, StopVars
    <3>5. /\ call' # NoCall /\ call'.deq_stops = << >> /\ call'.rest = Requests[r].stops
          /\ Len(<< >>) = 0
      <4>1. call' \in Call
        BY <3>2, <3>4 DEF Call
      <4> QED BY <3>4, <4>1, CatalogueAssumption DEF Call
    <3>6. PlaceOf(r) = PlaceOf(r - 1) + 1
      BY <3>1, PlacesCount DEF LoaderInv
    <3>7. /\ Len(all_buses_') = PlaceOf(r)
          /\ all_buses_'[PlaceOf(r)] = bus
          /\ \A p \in 1 .. Len(all_buses_) : all_buses_'[p] = all_buses_[p]
      <4>1. all_buses_ \in Seq(Bus)
        BY <2>2, CatalogueFacts DEF TypeOK
      <4>2. bus \in Bus
        BY <3>2 DEF Bus
      <4> HIDE DEF bus
      <4> QED BY <2>6, <3>4, <3>6, <4>1, <4>2, AppendProps
    <3>8. /\ \A i : Being(i)' <=> i = r
          /\ \A p : NameOf(p)' = NameOf(p)
      BY <2>2, <3>4, <3>5 DEF Being, NameOf
    <3>9. PlaceOf(BusesRead)' = PlaceOf(r)
      <4>1. PlaceOf(r)' = PlaceOf(r)
        BY <2>3
      <4> QED BY <2>2, <4>1 DEF PlaceOf
    <3>10. BusesSaid'
      <4>1. \A i \in OfType("Bus") : i <= r - 1 => PlaceOf(i) \in 1 .. Len(all_buses_)
        BY <2>1, <2>2, <2>6, PlacesInBuses DEF LoaderInv, Running
      <4>2. ASSUME NEW i \in OfType("Bus"), i <= r
            PROVE  LET b == all_buses_'[PlaceOf(i)] IN
                   /\ b.name = Requests[i].name
                   /\ b.is_loop_trip = Requests[i].is_roundtrip
                   /\ i # r =>
                        /\ Len(b.stops) = Len(Requests[i].stops)
                        /\ \A k \in DOMAIN b.stops : NameOf(b.stops[k]) = Requests[i].stops[k]
        <5>1. CASE i = r
          BY <3>7, <5>1
        <5>2. CASE i # r
          <6>1. i <= r - 1
            BY <2>2, <4>2, <5>2
          <6>2. all_buses_'[PlaceOf(i)] = all_buses_[PlaceOf(i)]
            BY <3>7, <4>1, <6>1
          <6> QED BY <2>6, <6>1, <6>2
        <5> QED BY <5>1, <5>2
      <4>3. Len(all_buses_') = PlaceOf(BusesRead)'
        BY <3>7, <3>9
      <4>4. \A i \in OfType("Bus")' : i <= BusesRead' =>
              /\ i \in OfType("Bus") /\ i <= r /\ PlaceOf(i)' = PlaceOf(i)
              /\ ~Being(i)' => i # r
        BY <2>2, <2>3, <3>8
      <4> HIDE DEF bus
      <4> QED BY <2>3, <3>8, <4>2, <4>3, <4>4 DEF BusesSaid
    <3>11. CallSaid'
      <4>1. Len(Requests[r].stops) \in Nat
        BY <3>2
      <4> QED BY <2>2, <2>3, <3>1, <3>5, <4>1 DEF CallSaid
    <3>12. /\ RoadsLeft' /\ PlacesSaid' /\ LengthsSaid'
           /\ \A n : StopNamed(n)' <=>
                \E i \in OfType("Bus") : \E k \in DOMAIN Requests[i].stops :
                   /\ i <= BusesRead' /\ Requests[i].stops[k] = n
                   /\ Being(i)' => k <= Len(call'.deq_stops)
      BY <2>1, <2>2, <2>4, <3>4, StillOnlyBuses
    <3>13. StopsSaid'
      <4>1. \A k \in DOMAIN Requests[r].stops : ~(k <= 0)
        BY <3>2
      <4>2. ASSUME NEW n \in StopNames
            PROVE  n \in DOMAIN stops_' <=> StopNamed(n)'
        <5>1. StopNamed(n)' <=>
                \E i \in OfType("Bus") : \E k \in DOMAIN Requests[i].stops :
                   /\ i <= r /\ Requests[i].stops[k] = n
                   /\ i = r => k <= 0
          <6>1. Len(call'.deq_stops) = 0 /\ BusesRead' = r /\ \A i : Being(i)' <=> i = r
            BY <2>2, <3>5, <3>8
          <6> QED BY <3>12, <6>1, Zenon
        <5>2. StopNamed(n)' <=>
                \E i \in OfType("Bus") : \E k \in DOMAIN Requests[i].stops :
                   i <= r - 1 /\ Requests[i].stops[k] = n
          BY <2>2, <4>1, <5>1
        <5> QED BY <2>7, <3>4, <5>2
      <4> QED BY <4>2 DEF StopsSaid
    <3> QED BY <2>1, <2>4, <3>3, <3>10, <3>11, <3>12, <3>13 DEF ReadInv, Running, AllSaid
  <2> QED BY <2>1, <2>8, <2>9
<1> QED BY <1>1, <1>2

NamesExact ==
  /\ \A m \in DOMAIN stops_ : stops_[m] \in DOMAIN all_stops_ /\ NameOf(stops_[m]) = m
  /\ \A p \in DOMAIN all_stops_ : /\ NameOf(p) \in DOMAIN stops_ /\ NameOf(p) \in StopNames
                                  /\ stops_[NameOf(p)] = p

LEMMA NamesAreExact == CatalogueInv => NamesExact
BY CatalogueFacts DEF NamesExact

LEMMA NamesAreExactNext == CatalogueInv' => NamesExact'
BY NamesAreExact, PTL

LEMMA NamesStay ==
  ASSUME StopsGrow, NEW p \in DOMAIN all_stops_
  PROVE  all_stops_'[p].name = NameOf(p) /\ p \in DOMAIN all_stops_'
BY DEF StopsGrow, NameOf

(* Every address of a finished bus is one of a stop.                       *)
LEMMA BusAddresses ==
  ASSUME CatalogueInv, NEW b \in DOMAIN all_buses_, NEW k \in DOMAIN all_buses_[b].stops
  PROVE  all_buses_[b].stops[k] \in DOMAIN all_stops_
BY CatalogueFacts DEF TypeOK, Elements

(* Buses that were said are said while only stops are added.               *)
LEMMA BusesStaySaid ==
  ASSUME LoaderInv, ReadInv, Running, AllSaid, StopsGrow, document' = document,
         all_buses_' = all_buses_, BusesRead' = BusesRead,
         call = NoCall <=> call' = NoCall
  PROVE  BusesSaid'
<1>1. /\ Requests' = Requests /\ (\A t : OfType(t)' = OfType(t)) /\ \A i : PlaceOf(i)' = PlaceOf(i)
  BY SameRequests
<1>2. \A i : Being(i)' <=> Being(i)
  BY DEF Being
<1>3. /\ BusesSaid /\ CatalogueInv /\ LoaderTypes
  BY DEF AllSaid, ReadInv, LoaderInv
<1>4. PlaceOf(BusesRead)' = PlaceOf(BusesRead)
  BY <1>1 DEF PlaceOf
<1>5. ASSUME NEW i \in OfType("Bus"), i <= BusesRead, ~Being(i),
             NEW k \in DOMAIN all_buses_[PlaceOf(i)].stops
      PROVE  all_stops_'[all_buses_[PlaceOf(i)].stops[k]].name = Requests[i].stops[k]
  <2>1. PlaceOf(i) \in 1 .. Len(all_buses_)
    BY <1>3, <1>5, PlacesInBuses DEF BusesSaid
  <2>2. all_buses_ \in Seq(Bus)
    BY <1>3, CatalogueFacts DEF TypeOK
  <2>3. all_buses_[PlaceOf(i)].stops[k] \in DOMAIN all_stops_
    <3>1. PlaceOf(i) \in DOMAIN all_buses_
      BY <2>1, <2>2
    <3> QED BY <1>3, <1>5, <3>1, BusAddresses
  <2>4. all_stops_'[all_buses_[PlaceOf(i)].stops[k]].name
          = NameOf(all_buses_[PlaceOf(i)].stops[k])
    BY <2>3, NamesStay
  <2> QED BY <1>3, <1>5, <2>4 DEF BusesSaid
<1>6. \A i \in OfType("Bus") : i <= BusesRead =>
        LET bus == all_buses_[PlaceOf(i)] IN
        /\ bus.name = Requests[i].name
        /\ bus.is_loop_trip = Requests[i].is_roundtrip
        /\ ~Being(i) => Len(bus.stops) = Len(Requests[i].stops)
  BY <1>3 DEF BusesSaid
<1>7. Len(all_buses_) = PlaceOf(BusesRead)
  BY <1>3 DEF BusesSaid
<1> QED BY <1>1, <1>2, <1>4, <1>5, <1>6, <1>7 DEF BusesSaid, NameOf

LEMMA AddBusStopReads ==
  ASSUME LoaderInv, ReadInv, pc = "buses", AddBusStop, UNCHANGED reader
  PROVE  ReadInv'
<1>1. /\ CatalogueInv /\ AllSaid /\ roads = << >> /\ request <= Len(Requests) + 1
      /\ BusesRead \in Nat
      /\ OfType("Bus") \subseteq Nat \ {0} /\ OfType("Stop") \subseteq Nat \ {0}
      /\ DOMAIN length_between_stops_ = {}
      /\ \A n \in DOMAIN stops_ : all_stops_[stops_[n]].coordinates = Origin
      /\ StopsRead = 0
  BY OnlyBusesYet
<1>2. /\ CatalogueInv' /\ StopsGrow /\ UNCHANGED <<document, pc, request, roads>>
      /\ TypeOK /\ StopsOK /\ NamesExact'
  BY <1>1, OperationsKeep, CatalogueFacts, NamesAreExactNext DEF reader
<1>3. /\ Requests' = Requests /\ \A t : OfType(t)' = OfType(t)
  BY <1>2, SameRequests
<1>r. PICK r : r = BusesRead
  OBVIOUS
<1>n. PICK names : names = Requests[r].stops
  OBVIOUS
<1>d. PICK done : done = Len(call.deq_stops)
  OBVIOUS
<1>h. PICK head : head = Head(call.rest)
  OBVIOUS
<1>4. /\ call # NoCall /\ call \in Call /\ call.rest # << >>
      /\ call.rest \in Seq(StopNames) /\ call.deq_stops \in Seq(Nat)
      /\ head \in StopNames /\ Tail(call.rest) \in Seq(StopNames)
      /\ r \in OfType("Bus")
      /\ done + Len(call.rest) = Len(names)
      /\ \A k \in 1 .. done : NameOf(call.deq_stops[k]) = names[k]
      /\ \A k \in 1 .. Len(call.rest) : call.rest[k] = names[done + k]
  <2>1. /\ call # NoCall /\ call \in Call /\ call.rest # << >>
    BY <1>2 DEF AddBusStop, TypeOK
  <2>2. call.rest \in Seq(StopNames) /\ call.deq_stops \in Seq(Nat)
    BY <2>1 DEF Call
  <2>3. head \in StopNames /\ Tail(call.rest) \in Seq(StopNames)
    BY <1>h, <2>1, <2>2
  <2>4. CallSaid
    BY <1>1 DEF AllSaid
  <2>5. /\ r \in OfType("Bus")
        /\ done + Len(call.rest) = Len(names)
        /\ \A k \in 1 .. done : NameOf(call.deq_stops[k]) = names[k]
        /\ \A k \in 1 .. Len(call.rest) : call.rest[k] = names[done + k]
    BY <1>r, <1>n, <1>d, <2>1, <2>4 DEF CallSaid
  <2> QED BY <2>1, <2>2, <2>3, <2>5
<1>5. /\ done \in Nat /\ Len(call.rest) \in Nat /\ Len(call.rest) > 0
      /\ call.rest[1] = head /\ head = names[done + 1]
  <2>1. done \in Nat /\ Len(call.rest) \in Nat /\ Len(call.rest) > 0 /\ call.rest[1] = head
    BY <1>4, <1>d, <1>h
  <2> QED BY <1>4, <2>1
<1>6. /\ DOMAIN stops_' = DOMAIN stops_ \cup {head}
      /\ \A m \in DOMAIN stops_ :
           all_stops_'[stops_'[m]].coordinates = all_stops_[stops_[m]].coordinates
      /\ head \notin DOMAIN stops_ => all_stops_'[stops_'[head]].coordinates = Origin
  BY <1>2, <1>4, <1>h, EnsureStopMakes DEF AddBusStop
<1>a. PICK addr : addr = stops_'[head]
  OBVIOUS
<1>7. /\ addr \in DOMAIN all_stops_' /\ addr \in Nat /\ all_stops_'[addr].name = head
  <2>1. addr \in DOMAIN all_stops_' /\ all_stops_'[addr].name = head
    BY <1>2, <1>6, <1>a DEF NamesExact, NameOf
  <2>2. all_stops_' \in Seq(Stop)
    BY <1>2 DEF CatalogueInv, IndInv, IInv, TypeOK
  <2> QED BY <2>1, <2>2
<1>8. /\ call' = [call EXCEPT !.rest = Tail(@), !.deq_stops = Append(@, addr)]
      /\ UNCHANGED <<all_buses_, buses_, length_between_stops_>>
  BY <1>a, <1>h DEF AddBusStop
<1>9. /\ call' \in Call /\ call' # NoCall
      /\ call'.rest = Tail(call.rest) /\ call'.deq_stops = Append(call.deq_stops, addr)
  <2>1. Append(call.deq_stops, addr) \in Seq(Nat)
    BY <1>4, <1>7
  <2>2. /\ call' \in Call
        /\ call'.rest = Tail(call.rest) /\ call'.deq_stops = Append(call.deq_stops, addr)
    BY <1>4, <1>8, <2>1 DEF Call
  <2> QED BY <2>2, CatalogueAssumption DEF Call
<1>10. /\ Len(call'.deq_stops) = done + 1
       /\ Len(call'.rest) = Len(call.rest) - 1
       /\ \A k \in 1 .. Len(call'.rest) : call'.rest[k] = call.rest[k + 1]
       /\ \A k \in 1 .. done : call'.deq_stops[k] = call.deq_stops[k]
       /\ call'.deq_stops[done + 1] = addr
  <2>1. /\ Len(call'.deq_stops) = done + 1
        /\ \A k \in 1 .. done : call'.deq_stops[k] = call.deq_stops[k]
        /\ call'.deq_stops[done + 1] = addr
    BY <1>4, <1>d, <1>7, <1>9
  <2>2. /\ Len(call'.rest) = Len(call.rest) - 1
        /\ \A k \in 1 .. Len(call'.rest) : call'.rest[k] = call.rest[k + 1]
    BY <1>4, <1>9
  <2> QED BY <2>1, <2>2
<1>11. BusesRead' = r /\ BusesRead = r
  BY <1>2, <1>3, <1>r DEF BusesRead
<1>12. BusesSaid'
  BY <1>1, <1>2, <1>4, <1>8, <1>9, <1>11, BusesStaySaid DEF Running
<1>13. CallSaid'
  <2>1. (done + 1) + (Len(call.rest) - 1) = Len(names)
    <3>1. ASSUME NEW x \in Nat, NEW y \in Nat PROVE (x + 1) + (y - 1) = x + y
      OBVIOUS
    <3> QED BY <1>4, <1>5, <3>1
  <2>2. ASSUME NEW k \in 1 .. (done + 1) PROVE all_stops_'[call'.deq_stops[k]].name = names[k]
    <3>1. CASE k = done + 1
      BY <1>5, <1>7, <1>10, <3>1
    <3>2. CASE k # done + 1
      <4>1. k \in 1 .. done
        BY <1>5, <3>2
      <4>2. k \in DOMAIN call.deq_stops /\ call.deq_stops[k] \in DOMAIN all_stops_
        BY <1>2, <1>4, <1>d, <4>1 DEF TypeOK, Elements
      <4>3. all_stops_'[call.deq_stops[k]].name = NameOf(call.deq_stops[k])
        BY <1>2, <4>2, NamesStay
      <4> QED BY <1>4, <1>10, <4>1, <4>3
    <3> QED BY <3>1, <3>2
  <2>3. ASSUME NEW k \in 1 .. Len(call'.rest)
        PROVE  call'.rest[k] = names[(done + 1) + k]
    <3>1. k \in Int /\ k + 1 \in 1 .. Len(call.rest) /\ done + (k + 1) = (done + 1) + k
      BY <1>5, <1>10
    <3> QED BY <1>4, <1>10, <3>1
  <2>4. /\ Requests[BusesRead]' = Requests[r] /\ (BusesRead \in OfType("Bus"))'
    BY <1>3, <1>4, <1>11
  <2> QED BY <1>n, <1>10, <2>1, <2>2, <2>3, <2>4 DEF CallSaid, NameOf
<1>14. /\ RoadsLeft' /\ PlacesSaid' /\ LengthsSaid'
       /\ \A n : StopNamed(n)' <=>
            \E i \in OfType("Bus") : \E k \in DOMAIN Requests[i].stops :
               /\ i <= BusesRead' /\ Requests[i].stops[k] = n
               /\ Being(i)' => k <= Len(call'.deq_stops)
  BY <1>1, <1>2, <1>6, <1>8, StillOnlyBuses
<1>15. StopsSaid'
  <2>1. \A i : (Being(i) <=> i = r) /\ (Being(i)' <=> i = r)
    BY <1>4, <1>9, <1>11 DEF Being
  <2>2. done + 1 \in DOMAIN names /\ \A k \in DOMAIN names : k \in Int
    <3>1. names \in Seq(StopNames)
      <4>1. BusRequestOK(Requests[r])
        <5>1. LoaderTypes /\ r \in InRequests /\ r < request
          BY <1>4, <1>r, BusRequests DEF BusesRead, LoaderInv, LoaderTypes
        <5>2. ~Requests[r].flawed
          BY <1>4, <5>1 DEF LoaderInv, FirstPass, BusFine, OfType
        <5> QED BY <1>4, <5>1, <5>2, BusRequests
      <4> QED BY <1>n, <4>1 DEF BusRequestOK
    <3> QED BY <1>4, <1>5, <3>1
  <2>3. ASSUME NEW n \in StopNames PROVE n \in DOMAIN stops_' <=> StopNamed(n)'
    <3>1. StopNamed(n)' <=>
            \E i \in OfType("Bus") : \E k \in DOMAIN Requests[i].stops :
              /\ i <= r /\ Requests[i].stops[k] = n
              /\ i = r => k <= done + 1
      BY <1>10, <1>11, <1>14, <2>1
    <3>2. StopNamed(n) <=>
            \E i \in OfType("Bus") : \E k \in DOMAIN Requests[i].stops :
              /\ i <= r /\ Requests[i].stops[k] = n
              /\ i = r => k <= done
      <4>1. \A i, k : ~RoadRead(i, k)
        BY <1>1 DEF RoadRead
      <4>2. ~\E i \in OfType("Stop") : i <= StopsRead /\ Requests[i].name = n
        BY <1>1
      <4> QED BY <1>11, <1>d, <2>1, <4>1, <4>2 DEF StopNamed
    <3>3. r <= r
      BY <1>1, <1>11
    <3>4. StopNamed(n)' <=> StopNamed(n) \/ n = head
      <4>1. ASSUME NEW i \in OfType("Bus"), NEW k \in DOMAIN Requests[i].stops,
                   i <= r, Requests[i].stops[k] = n, i = r => k <= done + 1
            PROVE  StopNamed(n) \/ n = head
        <5>1. CASE i = r /\ k = done + 1
          BY <1>5, <1>n, <4>1, <5>1
        <5>2. CASE ~(i = r /\ k = done + 1)
          <6>1. i = r => k <= done
            BY <1>5, <1>n, <2>2, <4>1, <5>2
          <6> QED BY <3>2, <4>1, <6>1
        <5> QED BY <5>1, <5>2
      <4>2. n = head => StopNamed(n)'
        <5>1. done + 1 <= done + 1
          BY <1>5
        <5> QED BY <1>4, <1>5, <1>n, <2>2, <3>1, <3>3, <5>1
      <4>3. StopNamed(n) => StopNamed(n)'
        <5>1. \A k \in DOMAIN names : k <= done => k <= done + 1
          BY <1>5, <2>2
        <5> QED BY <1>n, <3>1, <3>2, <5>1
      <4> QED BY <3>1, <4>1, <4>2, <4>3
    <3> QED BY <1>1, <1>6, <3>4 DEF AllSaid, StopsSaid
  <2> QED BY <2>3 DEF StopsSaid
<1> QED BY <1>1, <1>2, <1>3, <1>12, <1>13, <1>14, <1>15 DEF ReadInv, Running, AllSaid

LEMMA EndAddBusReads ==
  ASSUME LoaderInv, ReadInv, pc = "buses", EndAddBus, UNCHANGED reader
  PROVE  ReadInv'
<1>1. /\ CatalogueInv /\ AllSaid /\ roads = << >> /\ request <= Len(Requests) + 1
      /\ BusesRead \in Nat
      /\ OfType("Bus") \subseteq Nat \ {0} /\ OfType("Stop") \subseteq Nat \ {0}
      /\ DOMAIN length_between_stops_ = {}
      /\ \A n \in DOMAIN stops_ : all_stops_[stops_[n]].coordinates = Origin
      /\ StopsRead = 0
  BY OnlyBusesYet
<1>2. /\ CatalogueInv' /\ UNCHANGED <<document, pc, request, roads>> /\ TypeOK
  BY <1>1, OperationsKeep, CatalogueFacts DEF reader
<1>3. /\ Requests' = Requests /\ (\A t : OfType(t)' = OfType(t)) /\ \A i : PlaceOf(i)' = PlaceOf(i)
  BY <1>2, SameRequests
<1>4. /\ call # NoCall /\ call \in Call /\ call.rest = << >> /\ call' = NoCall
      /\ UNCHANGED <<StopVars, buses_, buses_in_stop_, length_between_stops_>>
  BY <1>2 DEF EndAddBus, TypeOK
<1>r. PICK r : r = BusesRead
  OBVIOUS
<1>d. PICK deq_stops : deq_stops = call.deq_stops
  OBVIOUS
<1>5. BusesRead' = r /\ BusesRead = r /\ r \in OfType("Bus") /\ r \in Nat /\ PlaceOf(r) \in Nat
  <2>1. BusesRead' = r /\ BusesRead = r
    BY <1>2, <1>3, <1>r DEF BusesRead
  <2> QED BY <1>1, <1>4, <2>1, PlacesCount DEF AllSaid, CallSaid, LoaderInv
<1>6. /\ Len(deq_stops) = Len(Requests[r].stops)
      /\ deq_stops \in Seq(Nat)
      /\ \A k \in DOMAIN deq_stops : NameOf(deq_stops[k]) = Requests[r].stops[k]
  <2>1. deq_stops \in Seq(Nat) /\ Len(call.rest) = 0
    BY <1>4, <1>d DEF Call
  <2>2. /\ Len(deq_stops) + Len(call.rest) = Len(Requests[r].stops)
        /\ \A k \in 1 .. Len(deq_stops) : NameOf(deq_stops[k]) = Requests[r].stops[k]
    BY <1>1, <1>4, <1>5, <1>d DEF AllSaid, CallSaid
  <2> QED BY <2>1, <2>2
<1>7. /\ Len(all_buses_) = PlaceOf(r) /\ Len(all_buses_') = PlaceOf(r)
      /\ all_buses_'[PlaceOf(r)].stops = deq_stops
      /\ \A i \in DOMAIN all_buses_ : i # PlaceOf(r) => all_buses_'[i] = all_buses_[i]
      /\ all_buses_'[PlaceOf(r)] = [all_buses_[PlaceOf(r)] EXCEPT !.stops = deq_stops]
      /\ all_buses_ \in Seq(Bus)
  <2>1. Len(all_buses_) = PlaceOf(r)
    BY <1>1, <1>5 DEF AllSaid, BusesSaid
  <2>2. DOMAIN all_buses_' = DOMAIN all_buses_ /\ all_buses_ \in Seq(Bus) /\ all_buses_' \in Seq(Bus)
    BY <1>1, <1>2, EndAddBusKeeps DEF CatalogueInv, IndInv, IInv, TypeOK
  <2>3. Len(all_buses_') = Len(all_buses_)
    BY <2>2
  <2> QED BY <1>1, <1>d, <2>1, <2>2, <2>3, EndAddBusKeeps DEF CatalogueInv, IndInv
<1>8. BusesSaid'
  <2>1. PlaceOf(BusesRead)' = PlaceOf(r)
    <3>1. PlaceOf(r)' = PlaceOf(r)
      BY <1>3
    <3> QED BY <1>5, <3>1 DEF PlaceOf
  <2>2. \A p : NameOf(p)' = NameOf(p)
    BY <1>4 DEF NameOf, StopVars
  <2>3. ASSUME NEW i \in OfType("Bus"), i <= r
        PROVE  LET b == all_buses_'[PlaceOf(i)] IN
               /\ b.name = Requests[i].name
               /\ b.is_loop_trip = Requests[i].is_roundtrip
               /\ Len(b.stops) = Len(Requests[i].stops)
               /\ \A k \in DOMAIN b.stops : NameOf(b.stops[k]) = Requests[i].stops[k]
    <3>0. /\ all_buses_[PlaceOf(i)].name = Requests[i].name
          /\ all_buses_[PlaceOf(i)].is_loop_trip = Requests[i].is_roundtrip
      BY <1>1, <1>5, <2>3 DEF AllSaid, BusesSaid
    <3>1. CASE i = r
      <4>1. /\ all_buses_'[PlaceOf(r)].name = all_buses_[PlaceOf(r)].name
            /\ all_buses_'[PlaceOf(r)].is_loop_trip = all_buses_[PlaceOf(r)].is_loop_trip
        BY <1>7
      <4> QED BY <1>6, <1>7, <3>0, <3>1, <4>1
    <3>2. CASE i # r
      <4>1. ~Being(i) /\ i < r
        BY <1>1, <1>5, <2>3, <3>2 DEF Being
      <4>2. PlaceOf(i) < PlaceOf(r) /\ PlaceOf(i) \in 1 .. Len(all_buses_)
        BY <1>1, <1>5, <1>7, <2>3, <4>1, PlacesInBuses DEF LoaderInv, Running
      <4>3. all_buses_'[PlaceOf(i)] = all_buses_[PlaceOf(i)]
        <5>1. PlaceOf(i) \in DOMAIN all_buses_ /\ PlaceOf(i) # PlaceOf(r)
          BY <1>5, <1>7, <4>2
        <5> QED BY <1>7, <5>1
      <4>4. /\ Len(all_buses_[PlaceOf(i)].stops) = Len(Requests[i].stops)
            /\ \A k \in DOMAIN all_buses_[PlaceOf(i)].stops :
                  NameOf(all_buses_[PlaceOf(i)].stops[k]) = Requests[i].stops[k]
        BY <1>1, <1>5, <2>3, <4>1 DEF AllSaid, BusesSaid
      <4> QED BY <3>0, <4>3, <4>4
    <3> QED BY <3>1, <3>2
  <2>4. Len(all_buses_') = PlaceOf(BusesRead)'
    BY <1>7, <2>1
  <2>5. \A i \in OfType("Bus")' : i <= BusesRead' =>
          i \in OfType("Bus") /\ i <= r /\ PlaceOf(i)' = PlaceOf(i)
    BY <1>3, <1>5
  <2> QED BY <1>3, <2>2, <2>3, <2>4, <2>5 DEF BusesSaid
<1>9. CallSaid'
  BY <1>4 DEF CallSaid
<1>10. /\ RoadsLeft' /\ PlacesSaid' /\ LengthsSaid'
       /\ \A n : StopNamed(n)' <=>
            \E i \in OfType("Bus") : \E k \in DOMAIN Requests[i].stops :
               /\ i <= BusesRead' /\ Requests[i].stops[k] = n
               /\ Being(i)' => k <= Len(call'.deq_stops)
  <2>1. DOMAIN length_between_stops_' = {}
        /\ \A n \in DOMAIN stops_' : all_stops_'[stops_'[n]].coordinates = Origin
    BY <1>1, <1>4 DEF StopVars
  <2> QED BY <1>1, <1>2, <2>1, StillOnlyBuses
<1>11. StopsSaid'
  <2>1. \A i : ~Being(i)'
    BY <1>4 DEF Being
  <2>2. ASSUME NEW n \in StopNames PROVE StopNamed(n) <=> StopNamed(n)'
    <3>1. StopNamed(n)' <=>
            \E i \in OfType("Bus") : \E k \in DOMAIN Requests[i].stops :
              i <= r /\ Requests[i].stops[k] = n
      BY <1>5, <1>10, <2>1
    <3>2. /\ \A i, k : ~RoadRead(i, k)
          /\ ~\E i \in OfType("Stop") : i <= StopsRead /\ Requests[i].name = n
      BY <1>1 DEF RoadRead
    <3>3. ASSUME NEW i \in OfType("Bus"), NEW k \in DOMAIN Requests[i].stops
          PROVE  Being(i) => k <= Len(call.deq_stops)
      <4>1. SUFFICES ASSUME i = r PROVE k <= Len(deq_stops)
        BY <1>5, <1>d DEF Being
      <4>2. BusRequestOK(Requests[r])
        <5>1. LoaderTypes /\ r \in InRequests /\ r < request
          BY <1>5, <1>r, BusRequests DEF BusesRead, LoaderInv, LoaderTypes
        <5>2. ~Requests[r].flawed
          BY <1>5, <5>1 DEF LoaderInv, FirstPass, BusFine, OfType
        <5> QED BY <1>5, <5>1, <5>2, BusRequests
      <4>3. Requests[r].stops \in Seq(StopNames)
        BY <4>2 DEF BusRequestOK
      <4> QED BY <1>6, <4>1, <4>3
    <3>4. StopNamed(n) <=>
            \E i \in OfType("Bus") : \E k \in DOMAIN Requests[i].stops :
              i <= r /\ Requests[i].stops[k] = n
      BY <1>5, <3>2, <3>3 DEF StopNamed
    <3> QED BY <3>1, <3>4
  <2>3. stops_' = stops_
    BY <1>4 DEF StopVars
  <2> QED BY <1>1, <2>2, <2>3 DEF AllSaid, StopsSaid
<1> QED BY <1>1, <1>2, <1>3, <1>8, <1>9, <1>10, <1>11 DEF ReadInv, Running, AllSaid

-----------------------------------------------------------------------------
(* In the second pass every bus was read, and what was read of the stops   *)
(* was fine.                                                               *)
LEMMA SecondPassFacts ==
  ASSUME LoaderInv, ReadInv, pc = "stops"
  PROVE  /\ CatalogueInv /\ AllSaid /\ call = NoCall /\ request \in Nat \ {0}
         /\ StopsRead = request - 1 /\ StopsRead \in Nat /\ BusesRead = Len(Requests)
         /\ OfType("Bus") \subseteq Nat \ {0} /\ OfType("Stop") \subseteq Nat \ {0}
         /\ \A i \in OfType("Stop") : i < request => StopRequestOK(Requests[i])
         /\ TypeOK /\ StopsOK /\ NamesExact
<1>1. /\ CatalogueInv /\ AllSaid /\ call = NoCall /\ request \in Nat \ {0}
      /\ LoaderTypes
  BY DEF ReadInv, Running, LoaderInv, LoaderTypes
<1>2. /\ OfType("Bus") \subseteq Nat \ {0} /\ OfType("Stop") \subseteq Nat \ {0}
      /\ StopsRead = request - 1 /\ StopsRead \in Nat /\ BusesRead = Len(Requests)
  BY <1>1, BusRequests DEF StopsRead, BusesRead
<1>3. ASSUME NEW i \in OfType("Stop"), i < request PROVE StopRequestOK(Requests[i])
  <2>1. i \in InRequests /\ Requests[i].type = "Stop"
    BY <1>1, BusRequests DEF OfType
  <2>2. ~Requests[i].flawed
    BY <1>3, <2>1 DEF LoaderInv, SecondPass, StopRead
  <2> QED BY <1>1, <2>2, BusRequests
<1>4. TypeOK /\ StopsOK /\ NamesExact
  BY <1>1, CatalogueFacts, NamesAreExact
<1> QED BY <1>1, <1>2, <1>3, <1>4

LEMMA RoadEndsKnown ==
  ASSUME LoaderInv, ReadInv, pc = "stops",
         NEW i, NEW k, NEW from, NEW to, RoadFromTo(i, k, from, to)
  PROVE  from \in DOMAIN stops_ /\ to \in DOMAIN stops_
<1>1. /\ i \in OfType("Stop") /\ i < request /\ k \in DOMAIN Requests[i].road_distances
      /\ Requests[i].road_distances[k].from = from /\ Requests[i].road_distances[k].to = to
      /\ RoadRead(i, k)
  BY SecondPassFacts DEF RoadFromTo, RoadRead
<1>2. to \in StopNames
  BY <1>1, SecondPassFacts DEF StopRequestOK, Elements
<1>3. from \in DOMAIN stops_
  BY <1>1, SecondPassFacts DEF AllSaid, LengthsSaid
<1>4. StopNamed(to)
  BY <1>1 DEF StopNamed
<1> QED BY <1>2, <1>3, <1>4, SecondPassFacts DEF AllSaid, StopsSaid

LEMMA UnknownIsUnplaced ==
  ASSUME LoaderInv, ReadInv, pc = "stops", NEW n \in StopNames, n \notin DOMAIN stops_
  PROVE  PlacedBy(n) = {}
BY SecondPassFacts DEF AllSaid, StopsSaid, StopNamed, PlacedBy

(* A new stop has a new name.                                              *)
LEMMA KnownNamesAreOld ==
  ASSUME CatalogueInv, CatalogueInv', StopsGrow,
         NEW p \in DOMAIN all_stops_', all_stops_'[p].name \in DOMAIN stops_
  PROVE  p \in DOMAIN all_stops_ /\ NameOf(p) = all_stops_'[p].name
<1>1. stops_'[all_stops_'[p].name] = p
  BY NamesAreExactNext DEF NamesExact, NameOf
<1>2. p \in DOMAIN all_stops_
  BY <1>1, NamesAreExact DEF NamesExact, StopsGrow
<1> QED BY <1>2, NamesStay

LEMMA ReadStopReads ==
  ASSUME LoaderInv, ReadInv, ReadStop
  PROVE  ReadInv'
<1>1. CASE Throw
  BY <1>1, ThrowReads
<1>2. CASE ~Throw
  <2>r. PICK r : r = request
    OBVIOUS
  <2>1. /\ pc = "stops" /\ pc' = "stops" /\ request' = r + 1 /\ r <= Len(Requests)
        /\ roads = << >> /\ document' = document
        /\ \/ /\ Requests[r].type = "Stop" /\ ~Requests[r].flawed
              /\ AddStop(Requests[r].name, Requests[r].coordinates)
              /\ roads' = Requests[r].road_distances
           \/ Requests[r].type # "Stop" /\ UNCHANGED <<vars, roads>>
    BY <1>2, <2>r DEF ReadStop, Request
  <2>2. /\ CatalogueInv /\ AllSaid /\ call = NoCall /\ r \in Nat \ {0}
        /\ StopsRead = r - 1 /\ StopsRead' = r
        /\ OfType("Bus") \subseteq Nat \ {0} /\ OfType("Stop") \subseteq Nat \ {0}
        /\ TypeOK /\ StopsOK /\ NamesExact
    BY <2>1, <2>r, SecondPassFacts DEF StopsRead
  <2>3. /\ Requests' = Requests /\ (\A t : OfType(t)' = OfType(t))
        /\ BusesRead' = BusesRead
    BY <2>1, SameRequests DEF BusesRead
  <2>4. /\ Len(Requests) \in Nat /\ InRequests = 1 .. Len(Requests) /\ r \in InRequests
        /\ \A i \in InRequests : \E S : Requests[i].road_distances \in Seq(S)
    BY <2>1, <2>2, BusRequests DEF LoaderInv
  <2>5. ASSUME NEW i, NEW k
        PROVE  RoadRead(i, k) <=> /\ i \in OfType("Stop") /\ i <= r - 1
                                  /\ k \in DOMAIN Requests[i].road_distances
    <3>1. ASSUME i \in OfType("Stop"), k \in DOMAIN Requests[i].road_distances
          PROVE  k <= Len(Requests[i].road_distances) - 0
      <4>1. i \in InRequests
        BY <3>1, BusRequests DEF LoaderInv
      <4>2. PICK S : Requests[i].road_distances \in Seq(S)
        BY <2>4, <4>1
      <4> QED BY <3>1, <4>2
    <3>2. Len(roads) = 0
      BY <2>1
    <3> QED BY <2>2, <3>1, <3>2 DEF RoadRead
  <2>6. ASSUME Requests[r].type # "Stop", UNCHANGED <<vars, roads>>
        PROVE  CatalogueInv' /\ AllSaid' /\ call' = NoCall
    <3>1. r \notin OfType("Stop")
      BY <2>6 DEF OfType
    <3>2. \A i \in OfType("Stop") : i <= r <=> i <= r - 1
      BY <2>2, <3>1
    <3>3. /\ call' = NoCall /\ stops_' = stops_ /\ all_stops_' = all_stops_
          /\ all_buses_' = all_buses_ /\ length_between_stops_' = length_between_stops_
          /\ roads' = roads /\ StopsGrow
      <4>1. /\ call' = NoCall /\ stops_' = stops_ /\ all_stops_' = all_stops_
            /\ all_buses_' = all_buses_ /\ length_between_stops_' = length_between_stops_
            /\ roads' = roads
        BY <2>2, <2>6 DEF vars
      <4>2. Len(all_stops_) \in Nat
        BY <2>2 DEF TypeOK
      <4> QED BY <4>1, <4>2 DEF StopsGrow
    <3>4. \A i, k : RoadRead(i, k)' <=> RoadRead(i, k)
      <4>1. \A i, k : RoadRead(i, k)' <=> /\ i \in OfType("Stop") /\ i <= r - 1
                                          /\ k \in DOMAIN Requests[i].road_distances
        BY <2>2, <2>3, <3>1, <3>2 DEF RoadRead
      <4> QED BY <2>5, <4>1
    <3>5. /\ \A i : ~Being(i) /\ ~Being(i)'
          /\ \A p : NameOf(p)' = NameOf(p)
          /\ \A n : PlacedBy(n)' = PlacedBy(n)
      BY <2>2, <2>3, <3>2, <3>3 DEF Being, NameOf, PlacedBy
    <3>6. \A n : StopNamed(n)' <=> StopNamed(n)
      BY <2>2, <2>3, <3>2, <3>4, <3>5 DEF StopNamed
    <3>7. StopsSaid' /\ PlacesSaid' /\ CallSaid' /\ RoadsLeft'
      BY <2>1, <2>2, <2>3, <3>3, <3>5, <3>6 DEF AllSaid, StopsSaid, PlacesSaid, CallSaid, RoadsLeft
    <3>8. \A i, k, from, to : RoadFromTo(i, k, from, to)' <=> RoadFromTo(i, k, from, to)
      BY <2>3, <3>4 DEF RoadFromTo
    <3>9. LengthsSaid'
      BY <2>2, <2>3, <3>3, <3>4, <3>5, <3>8 DEF AllSaid, LengthsSaid, PairSaid
    <3>10. BusesSaid'
      BY <2>1, <2>2, <2>3, <3>3, BusesStaySaid DEF Running
    <3>11. CatalogueInv'
      BY <2>2, <2>6, StutteringKeeps
    <3> QED BY <3>3, <3>7, <3>9, <3>10, <3>11 DEF AllSaid
  <2>7. ASSUME Requests[r].type = "Stop", ~Requests[r].flawed,
               AddStop(Requests[r].name, Requests[r].coordinates),
               roads' = Requests[r].road_distances
        PROVE  CatalogueInv' /\ AllSaid' /\ call' = NoCall
    <3>a. PICK name : name = Requests[r].name
      OBVIOUS
    <3>b. PICK place : place = Requests[r].coordinates
      OBVIOUS
    <3>1. r \in OfType("Stop") /\ name \in StopNames /\ place \in Coordinates
      <4>1. r \in OfType("Stop")
        BY <2>4, <2>7 DEF OfType, InRequests
      <4>2. StopRequestOK(Requests[r])
        BY <2>7, <4>1, BusRequests DEF LoaderInv
      <4> QED BY <3>a, <3>b, <4>1, <4>2 DEF StopRequestOK
    <3>2. CatalogueInv' /\ StopsGrow
      BY <2>2, <2>7, <3>1, <3>a, <3>b, OperationsKeep
    <3>3. /\ DOMAIN stops_' = DOMAIN stops_ \cup {name}
          /\ \A m \in DOMAIN stops_ : m # name =>
               all_stops_'[stops_'[m]].coordinates = all_stops_[stops_[m]].coordinates
          /\ IF name \in DOMAIN stops_ /\ all_stops_[stops_[name]].coordinates # Origin
               THEN all_stops_'[stops_'[name]].coordinates = all_stops_[stops_[name]].coordinates
               ELSE all_stops_'[stops_'[name]].coordinates = place
      BY <2>2, <2>7, <3>1, <3>a, <3>b, AddStopMakes DEF AddStop
    <3>4. /\ call' = NoCall /\ all_buses_' = all_buses_
          /\ length_between_stops_' = length_between_stops_
      BY <2>2, <2>7 DEF AddStop, BusVars
    <3>5. BusesSaid' /\ CallSaid'
      BY <2>1, <2>2, <2>3, <3>2, <3>4, BusesStaySaid DEF Running, CallSaid
    <3>6. PICK S : roads' \in Seq(S)
      BY <2>4, <2>7
    <3>7. RoadsLeft'
      <4>1. Requests[StopsRead]' = Requests[r] /\ (StopsRead \in OfType("Stop"))'
        BY <2>2, <2>3, <3>1
      <4>2. /\ Len(roads') \in Nat
            /\ \A k \in 1 .. Len(roads') : (Len(roads') - Len(roads')) + k = k
        BY <3>6
      <4> QED BY <2>7, <4>1, <4>2 DEF RoadsLeft
    <3>8. ASSUME NEW i, NEW k PROVE RoadRead(i, k)' <=> RoadRead(i, k)
      <4>1. i \in OfType("Stop") => (i <= r <=> i <= r - 1 \/ i = r)
        BY <2>2
      <4>2. i = r /\ k \in DOMAIN Requests[i].road_distances
              => ~(k <= Len(Requests[i].road_distances) - Len(roads'))
        BY <2>7, <3>6
      <4> QED BY <2>2, <2>3, <2>5, <4>1, <4>2 DEF RoadRead
    <3>9. \A n : PlacedBy(n)' = IF n = name /\ place # Origin THEN PlacedBy(n) \cup {r}
                                                               ELSE PlacedBy(n)
      <4>1. \A i \in OfType("Stop") : i <= r <=> i <= r - 1 \/ i = r
        BY <2>2
      <4> QED BY <2>2, <2>3, <3>1, <3>a, <3>b, <4>1 DEF PlacedBy
    <3>10. PlacesSaid'
      <4>1. ASSUME NEW n \in DOMAIN stops_'
            PROVE  \/ PlacedBy(n)' = {} /\ all_stops_'[stops_'[n]].coordinates = Origin
                   \/ \E i \in PlacedBy(n)' :
                        /\ \A j \in PlacedBy(n)' : i <= j
                        /\ all_stops_'[stops_'[n]].coordinates = Requests[i].coordinates
        <5>0. \A i \in PlacedBy(n) : i \in Int /\ i <= r - 1 /\ Requests[i].coordinates # Origin
          BY <2>2 DEF PlacedBy
        <5>1. CASE n # name
          <6>1. n \in DOMAIN stops_ /\ PlacedBy(n)' = PlacedBy(n)
            BY <3>3, <3>9, <5>1
          <6> QED BY <2>2, <3>3, <5>1, <6>1 DEF AllSaid, PlacesSaid
        <5>2. CASE n = name /\ n \in DOMAIN stops_ /\ all_stops_[stops_[n]].coordinates # Origin
          <6>1. PICK i \in PlacedBy(n) :
                  /\ \A j \in PlacedBy(n) : i <= j
                  /\ all_stops_[stops_[n]].coordinates = Requests[i].coordinates
            BY <2>2, <5>2 DEF AllSaid, PlacesSaid
          <6>2. i <= r
            BY <2>2, <5>0, <6>1
          <6>3. i \in PlacedBy(n)' /\ \A j \in PlacedBy(n)' : i <= j
            BY <3>9, <6>1, <6>2
          <6> QED BY <3>3, <5>2, <6>1, <6>3
        <5>3. CASE n = name /\ ~(n \in DOMAIN stops_ /\ all_stops_[stops_[n]].coordinates # Origin)
          <6>1. PlacedBy(n) = {}
            BY <2>1, <2>2, <3>1, <5>0, <5>3, UnknownIsUnplaced DEF AllSaid, PlacesSaid
          <6>2. all_stops_'[stops_'[n]].coordinates = place
            BY <3>3, <5>3
          <6>3. CASE place = Origin
            BY <3>9, <5>3, <6>1, <6>2, <6>3
          <6>4. CASE place # Origin
            <7>1. PlacedBy(n)' = {r}
              BY <3>9, <5>3, <6>1, <6>4
            <7> QED BY <2>2, <3>b, <6>2, <7>1
          <6> QED BY <6>3, <6>4
        <5> QED BY <5>1, <5>2, <5>3
      <4> QED BY <2>3, <4>1 DEF PlacesSaid
    <3>11. StopsSaid'
      <4>1. \A i : ~Being(i) /\ ~Being(i)'
        BY <2>2, <3>4 DEF Being
      <4>2. \A i \in OfType("Stop") : i <= r <=> i <= r - 1 \/ i = r
        BY <2>2
      <4>3. \A n : (\E i \in OfType("Stop") : i <= r /\ Requests[i].name = n)
                     <=> (\E i \in OfType("Stop") : i <= r - 1 /\ Requests[i].name = n) \/ n = name
        BY <3>1, <3>a, <4>2
      <4>4. ASSUME NEW n PROVE StopNamed(n)' <=> StopNamed(n) \/ n = name
        <5>1. /\ StopsRead' = r /\ StopsRead = r - 1 /\ BusesRead' = BusesRead
              /\ Requests' = Requests /\ \A t : OfType(t)' = OfType(t)
          BY <2>2, <2>3
        <5>2. (\E i \in OfType("Bus") : \E k \in DOMAIN Requests[i].stops :
                  /\ i <= BusesRead /\ Requests[i].stops[k] = n
                  /\ Being(i) => k <= Len(call.deq_stops))'
              <=> \E i \in OfType("Bus") : \E k \in DOMAIN Requests[i].stops :
                  /\ i <= BusesRead /\ Requests[i].stops[k] = n
                  /\ Being(i) => k <= Len(call.deq_stops)
          BY <4>1, <5>1
        <5>3. (\E i \in OfType("Stop") : \E k \in DOMAIN Requests[i].road_distances :
                  RoadRead(i, k) /\ Requests[i].road_distances[k].to = n)'
              <=> \E i \in OfType("Stop") : \E k \in DOMAIN Requests[i].road_distances :
                  RoadRead(i, k) /\ Requests[i].road_distances[k].to = n
          BY <3>8, <5>1
        <5>4. (\E i \in OfType("Stop") : i <= StopsRead /\ Requests[i].name = n)'
              <=> (\E i \in OfType("Stop") : i <= StopsRead /\ Requests[i].name = n) \/ n = name
          BY <4>3, <5>1
        <5> QED BY <5>2, <5>3, <5>4, Zenon DEF StopNamed
      <4> QED BY <2>2, <3>1, <3>3, <4>4 DEF AllSaid, StopsSaid
    <3>12. LengthsSaid'
      <4>1. \A i, k, from, to : RoadFromTo(i, k, from, to)' <=> RoadFromTo(i, k, from, to)
        BY <2>3, <3>8 DEF RoadFromTo
      <4>2. \A i \in OfType("Stop") : \A k \in DOMAIN Requests[i].road_distances :
              RoadRead(i, k)' => Requests[i].road_distances[k].from \in DOMAIN stops_'
        BY <2>2, <3>3, <3>8 DEF AllSaid, LengthsSaid
      <4>3. ASSUME NEW p \in DOMAIN all_stops_', NEW q \in DOMAIN all_stops_'
            PROVE  \/ /\ p \in DOMAIN all_stops_ /\ q \in DOMAIN all_stops_
                      /\ all_stops_'[p].name = NameOf(p) /\ all_stops_'[q].name = NameOf(q)
                   \/ /\ <<p, q>> \notin DOMAIN length_between_stops_
                      /\ \A i, k : ~RoadFromTo(i, k, all_stops_'[p].name, all_stops_'[q].name)
        <5>1. CASE p \in DOMAIN all_stops_ /\ q \in DOMAIN all_stops_
          BY <3>2, <5>1, NamesStay
        <5>2. CASE ~(p \in DOMAIN all_stops_ /\ q \in DOMAIN all_stops_)
          <6>1. <<p, q>> \notin DOMAIN length_between_stops_
            BY <2>2, <5>2 DEF TypeOK
          <6>2. \A i, k : ~RoadFromTo(i, k, all_stops_'[p].name, all_stops_'[q].name)
            BY <2>1, <2>2, <3>2, <5>2, RoadEndsKnown, KnownNamesAreOld
          <6> QED BY <6>1, <6>2
        <5> QED BY <5>1, <5>2
      <4>4. ASSUME NEW p \in DOMAIN all_stops_', NEW q \in DOMAIN all_stops_'
            PROVE  PairSaid(p, q, all_stops_'[p].name, all_stops_'[q].name)
        <5>1. CASE \A i, k : ~RoadFromTo(i, k, all_stops_'[p].name, all_stops_'[q].name)
                   /\ <<p, q>> \notin DOMAIN length_between_stops_
          BY <5>1 DEF PairSaid
        <5>2. CASE /\ p \in DOMAIN all_stops_ /\ q \in DOMAIN all_stops_
                   /\ all_stops_'[p].name = NameOf(p) /\ all_stops_'[q].name = NameOf(q)
          <6>1. PairSaid(p, q, NameOf(p), NameOf(q))
            BY <2>2, <5>2 DEF AllSaid, LengthsSaid
          <6> QED BY <5>2, <6>1
        <5> QED BY <4>3, <5>1, <5>2
      <4> QED BY <2>3, <3>4, <3>8, <4>2, <4>4 DEF LengthsSaid, PairSaid, RoadFromTo, NameOf
    <3> QED BY <3>2, <3>4, <3>5, <3>7, <3>10, <3>11, <3>12 DEF AllSaid
  <2> QED BY <2>1, <2>6, <2>7 DEF ReadInv, Running
<1> QED BY <1>1, <1>2

LEMMA ReadRoadReads ==
  ASSUME LoaderInv, ReadInv, ReadRoad
  PROVE  ReadInv'
<1>1. CASE Throw
  BY <1>1, ThrowReads
<1>2. CASE ~Throw
  <2>r. PICK road : road = Head(roads)
    OBVIOUS
  <2>1. /\ pc = "stops" /\ pc' = "stops" /\ roads # << >> /\ road.lenght # NotAnInt
        /\ AddLenghtBetweenStops(road.from, road.to, Abs(road.lenght))
        /\ roads' = Tail(roads) /\ document' = document /\ request' = request
    BY <1>2, <2>r DEF ReadRoad
  <2>s. PICK s : s = StopsRead
    OBVIOUS
  <2>2. /\ CatalogueInv /\ AllSaid /\ call = NoCall /\ request \in Nat \ {0}
        /\ s = request - 1 /\ s \in Nat /\ StopsRead = s /\ StopsRead' = s
        /\ OfType("Bus") \subseteq Nat \ {0} /\ OfType("Stop") \subseteq Nat \ {0}
        /\ \A i \in OfType("Stop") : i < request => StopRequestOK(Requests[i])
        /\ TypeOK /\ StopsOK /\ NamesExact
    BY <2>1, <2>s, SecondPassFacts DEF StopsRead
  <2>3. /\ Requests' = Requests /\ (\A t : OfType(t)' = OfType(t))
        /\ BusesRead' = BusesRead
    BY <2>1, SameRequests DEF BusesRead
  <2>a. PICK all : all = Requests[s].road_distances
    OBVIOUS
  <2>m. PICK m : m = (Len(all) - Len(roads)) + 1
    OBVIOUS
  <2>4. /\ s \in OfType("Stop") /\ Len(roads) <= Len(all)
        /\ \A k \in 1 .. Len(roads) : roads[k] = all[(Len(all) - Len(roads)) + k]
    BY <2>1, <2>2, <2>a DEF AllSaid, RoadsLeft
  <2>5. /\ Len(all) \in Nat /\ DOMAIN all = 1 .. Len(all)
        /\ Len(roads) \in Nat /\ Len(roads) >= 1 /\ road = roads[1]
        /\ roads' \in Seq(Elements(roads))
        /\ Len(roads') = Len(roads) - 1
        /\ \A k \in 1 .. Len(roads') : roads'[k] = roads[k + 1]
    <3>1. PICK S : roads \in Seq(S)
      BY DEF LoaderInv, LoaderTypes
    <3>2. s \in InRequests
      BY <2>4, BusRequests DEF LoaderInv
    <3>3. PICK T : all \in Seq(T)
      BY <2>a, <3>2, BusRequests DEF LoaderInv
    <3>4. roads \in Seq(Elements(roads))
      BY <3>1 DEF Elements
    <3> QED BY <2>1, <2>r, <3>3, <3>4
  <2>6. m \in DOMAIN all /\ all[m] = road /\ m - 1 = Len(all) - Len(roads)
    BY <2>4, <2>5, <2>m
  <2>7. /\ road.from \in StopNames /\ road.to \in StopNames /\ Abs(road.lenght) \in Lengths
    <3>1. StopRequestOK(Requests[s])
      BY <2>2, <2>4
    <3> QED BY <2>1, <2>6, <2>a, <3>1 DEF StopRequestOK, Elements
  <2>f. PICK from : from = road.from
    OBVIOUS
  <2>t. PICK to : to = road.to
    OBVIOUS
  <2>8. CatalogueInv' /\ StopsGrow
    BY <2>1, <2>2, <2>7, OperationsKeep
  <2>9. /\ from \in DOMAIN stops_
        /\ DOMAIN stops_' = DOMAIN stops_ \cup {to}
        /\ \A n \in DOMAIN stops_ :
             all_stops_'[stops_'[n]].coordinates = all_stops_[stops_[n]].coordinates
        /\ to \notin DOMAIN stops_ => all_stops_'[stops_'[to]].coordinates = Origin
    BY <2>1, <2>2, <2>7, <2>f, <2>t, EnsureStopMakes DEF AddLenghtBetweenStops
  <2>10. /\ call' = NoCall /\ all_buses_' = all_buses_
         /\ length_between_stops_' = Insert(length_between_stops_,
                                            <<stops_'[from], stops_'[to]>>, Abs(road.lenght))
    BY <2>1, <2>2, <2>f, <2>t DEF AddLenghtBetweenStops, BusVars
  <2>11. BusesSaid' /\ CallSaid'
    BY <2>1, <2>2, <2>3, <2>8, <2>10, BusesStaySaid DEF Running, CallSaid
  <2>12. RoadsLeft'
    <3>1. Requests[StopsRead]' = Requests[s] /\ (StopsRead \in OfType("Stop"))'
      BY <2>2, <2>3, <2>4
    <3>2. Len(roads') <= Len(all)
      BY <2>4, <2>5
    <3>3. ASSUME NEW k \in 1 .. Len(roads')
          PROVE  roads'[k] = all[(Len(all) - Len(roads')) + k]
      <4>1. k + 1 \in 1 .. Len(roads)
        BY <2>5
      <4>2. (Len(all) - Len(roads)) + (k + 1) = (Len(all) - Len(roads')) + k
        BY <2>5
      <4> QED BY <2>4, <2>5, <4>1, <4>2
    <3> QED BY <2>a, <3>1, <3>2, <3>3 DEF RoadsLeft
  <2>13. ASSUME NEW i, NEW k
         PROVE  RoadRead(i, k)' <=> RoadRead(i, k) \/ (i = s /\ k = m)
    <3>1. k \in DOMAIN all => (k <= Len(all) - Len(roads') <=> k <= Len(all) - Len(roads) \/ k = m)
      BY <2>5, <2>6
    <3>2. StopsRead' = s /\ StopsRead = s /\ OfType("Stop")' = OfType("Stop") /\ Requests' = Requests
      BY <2>2, <2>3
    <3>3. CASE i = s
      <4>1. RoadRead(i, k) <=> k \in DOMAIN all /\ k <= Len(all) - Len(roads)
        BY <2>2, <2>4, <2>a, <3>2, <3>3 DEF RoadRead
      <4>2. RoadRead(i, k)' <=> k \in DOMAIN all /\ k <= Len(all) - Len(roads')
        BY <2>2, <2>4, <2>a, <3>2, <3>3 DEF RoadRead
      <4> QED BY <2>6, <3>1, <3>3, <4>1, <4>2
    <3>4. CASE i # s
      BY <3>2, <3>4 DEF RoadRead
    <3> QED BY <3>3, <3>4
  <2>14. \A i, k : RoadRead(i, k) => /\ i <= s
                                     /\ i = s => k < m
    <3>1. \A k \in DOMAIN all : k <= Len(all) - Len(roads) => k < m
      BY <2>5, <2>6
    <3> QED BY <2>2, <2>a, <3>1 DEF RoadRead
  <2>15. \A n : PlacedBy(n)' = PlacedBy(n)
    BY <2>2, <2>3 DEF PlacedBy
  <2>16. PlacesSaid'
    <3>1. ASSUME NEW n \in DOMAIN stops_'
          PROVE  \/ PlacedBy(n) = {} /\ all_stops_'[stops_'[n]].coordinates = Origin
                 \/ \E i \in PlacedBy(n) :
                      /\ \A j \in PlacedBy(n) : i <= j
                      /\ all_stops_'[stops_'[n]].coordinates = Requests[i].coordinates
      <4>1. CASE n \in DOMAIN stops_
        BY <2>2, <2>9, <4>1 DEF AllSaid, PlacesSaid
      <4>2. CASE n \notin DOMAIN stops_
        <5>1. n = to /\ n \in StopNames
          BY <2>7, <2>9, <2>t, <4>2
        <5> QED BY <2>1, <2>9, <4>2, <5>1, UnknownIsUnplaced
      <4> QED BY <4>1, <4>2
    <3> QED BY <2>3, <2>15, <3>1 DEF PlacesSaid
  <2>17. StopsSaid'
    <3>1. \A i : ~Being(i) /\ ~Being(i)'
      BY <2>2, <2>10 DEF Being
    <3>2. \A n : StopNamed(n)' <=> StopNamed(n) \/ n = to
      BY <2>2, <2>3, <2>4, <2>6, <2>13, <2>a, <2>t, <3>1 DEF StopNamed
    <3> QED BY <2>2, <2>9, <3>2 DEF AllSaid, StopsSaid
  <2>18. LengthsSaid'
    <3>1. ASSUME NEW i \in OfType("Stop"), NEW k \in DOMAIN Requests[i].road_distances,
                 RoadRead(i, k)'
          PROVE  Requests[i].road_distances[k].from \in DOMAIN stops_'
      <4>1. CASE RoadRead(i, k)
        BY <2>2, <2>9, <4>1 DEF AllSaid, LengthsSaid
      <4>2. CASE i = s /\ k = m
        BY <2>6, <2>9, <2>a, <2>f, <4>2
      <4> QED BY <2>13, <3>1, <4>1, <4>2
    <3>2. ASSUME NEW p \in DOMAIN all_stops_', NEW q \in DOMAIN all_stops_', NEW f, NEW t,
                 f = all_stops_'[p].name, t = all_stops_'[q].name
          PROVE  PairSaid(p, q, f, t)'
      <4> DEFINE pair == <<stops_'[from], stops_'[to]>>
      <4>1. <<p, q>> = pair <=> f = from /\ t = to
        <5>1. stops_'[f] = p /\ stops_'[t] = q
          BY <2>8, <3>2, NamesAreExactNext DEF NamesExact, NameOf
        <5>2. from \in DOMAIN stops_' /\ to \in DOMAIN stops_'
          BY <2>9
        <5>3. all_stops_'[stops_'[from]].name = from /\ all_stops_'[stops_'[to]].name = to
          BY <2>8, <5>2, NamesAreExactNext DEF NamesExact, NameOf
        <5> QED BY <3>2, <5>1, <5>3
      <4>2. \/ PairSaid(p, q, f, t) /\ p \in DOMAIN all_stops_ /\ q \in DOMAIN all_stops_
            \/ /\ <<p, q>> \notin DOMAIN length_between_stops_
               /\ \A i, k : ~RoadFromTo(i, k, f, t)
        <5>1. CASE p \in DOMAIN all_stops_ /\ q \in DOMAIN all_stops_
          <6>1. f = NameOf(p) /\ t = NameOf(q)
            BY <2>8, <3>2, <5>1, NamesStay
          <6>2. PairSaid(p, q, NameOf(p), NameOf(q))
            BY <2>2, <5>1 DEF AllSaid, LengthsSaid
          <6> QED BY <5>1, <6>1, <6>2
        <5>2. CASE ~(p \in DOMAIN all_stops_ /\ q \in DOMAIN all_stops_)
          <6>1. <<p, q>> \notin DOMAIN length_between_stops_
            BY <2>2, <5>2 DEF TypeOK
          <6>2. \A i, k : ~RoadFromTo(i, k, f, t)
            BY <2>1, <2>2, <2>8, <3>2, <5>2, RoadEndsKnown, KnownNamesAreOld
          <6> QED BY <6>1, <6>2
        <5> QED BY <5>1, <5>2
      <4>3. ASSUME NEW i, NEW k
            PROVE  RoadFromTo(i, k, f, t)'
                     <=> RoadFromTo(i, k, f, t) \/ (i = s /\ k = m /\ f = from /\ t = to)
        BY <2>3, <2>6, <2>13, <2>a, <2>f, <2>t DEF RoadFromTo
      <4>4. CASE <<p, q>> # pair
        <5>1. /\ <<p, q>> \in DOMAIN length_between_stops_'
                   <=> <<p, q>> \in DOMAIN length_between_stops_
              /\ <<p, q>> \in DOMAIN length_between_stops_ =>
                   length_between_stops_'[<<p, q>>] = length_between_stops_[<<p, q>>]
          BY <2>10, <4>4 DEF Insert, Assign
        <5>2. \A i, k : RoadFromTo(i, k, f, t)' <=> RoadFromTo(i, k, f, t)
          BY <4>1, <4>3, <4>4
        <5> QED BY <2>3, <4>2, <5>1, <5>2 DEF PairSaid
      <4>5. CASE <<p, q>> = pair /\ <<p, q>> \in DOMAIN length_between_stops_
        <5>1. length_between_stops_' = length_between_stops_ /\ PairSaid(p, q, f, t)
          BY <2>10, <4>2, <4>5 DEF Insert
        <5>2. PICK i0 \in OfType("Stop") : \E k0 \in DOMAIN Requests[i0].road_distances :
                RoadFromTo(i0, k0, f, t)
          BY <4>5, <5>1 DEF PairSaid
        <5>k. PICK k0 \in DOMAIN Requests[i0].road_distances : RoadFromTo(i0, k0, f, t)
          BY <5>2
        <5>3. i0 < s \/ (i0 = s /\ k0 < m)
          BY <2>2, <2>14, <5>k DEF RoadFromTo
        <5> QED BY <2>3, <4>3, <4>5, <5>1, <5>k, <5>3 DEF PairSaid
      <4>6. CASE <<p, q>> = pair /\ <<p, q>> \notin DOMAIN length_between_stops_
        <5>1. /\ <<p, q>> \in DOMAIN length_between_stops_'
              /\ length_between_stops_'[<<p, q>>] = Abs(road.lenght)
          BY <2>10, <4>6 DEF Insert, Assign
        <5>2. \A i, k : ~RoadFromTo(i, k, f, t)
          BY <4>2, <4>6 DEF PairSaid, RoadFromTo, RoadRead
        <5>3. f = from /\ t = to
          BY <4>1, <4>6
        <5>4. \A i, k : RoadFromTo(i, k, f, t)' <=> i = s /\ k = m
          BY <4>3, <5>2, <5>3
        <5> QED BY <2>3, <2>4, <2>6, <2>a, <5>1, <5>4 DEF PairSaid
      <4> QED BY <4>4, <4>5, <4>6
    <3> QED BY <2>3, <3>1, <3>2 DEF LengthsSaid, PairSaid, RoadFromTo, NameOf
  <2> QED BY <2>1, <2>8, <2>10, <2>11, <2>12, <2>16, <2>17, <2>18 DEF ReadInv, Running, AllSaid
<1> QED BY <1>1, <1>2

LEMMA ReadInitHolds == LoaderInit => ReadInv
BY EmptyCatalogue DEF LoaderInit, ReadInv, Running

LEMMA ReadStepKeeps == LoaderInv /\ ReadInv /\ [LoaderNext]_loaderVars => ReadInv'
<1> SUFFICES ASSUME LoaderInv, ReadInv, [LoaderNext]_loaderVars PROVE ReadInv'
  OBVIOUS
<1>1. CASE OpenFile
  BY <1>1, OpenFileReads
<1>2. CASE NoFileName
  BY <1>2, ThrowReads DEF NoFileName
<1>3. CASE ReadBus
  BY <1>3, ReadBusReads
<1>4. CASE AddBusStops
  BY <1>4, AddBusStopReads, EndAddBusReads DEF AddBusStops
<1>5. CASE StartStops
  BY <1>5, StartStopsReads
<1>6. CASE ReadStop
  BY <1>6, ReadStopReads
<1>7. CASE ReadRoad
  BY <1>7, ReadRoadReads
<1>8. CASE BuildRouter
  BY <1>8, BuildRouterReads
<1>9. CASE Serialize
  BY <1>9, SerializeReads
<1>10. CASE UNCHANGED loaderVars
  BY <1>10, StutterReads
<1> QED BY <1>1, <1>2, <1>3, <1>4, <1>5, <1>6, <1>7, <1>8, <1>9, <1>10 DEF LoaderNext

LEMMA FirstOfIs ==
  ASSUME NEW places \in SUBSET Int, NEW i \in places, \A j \in places : i <= j
  PROVE  FirstOf(places) = i
<1>1. \A x \in places : (\A j \in places : x <= j) => x = i
  OBVIOUS
<1> QED BY <1>1 DEF FirstOf

(* The first of the roads said from one stop to another.                   *)
LEMMA FirstLengthIs ==
  ASSUME NEW from, NEW to, SaidLengths(from, to) # {},
         OfType("Stop") \subseteq Nat,
         \A i \in OfType("Stop") : DOMAIN Requests[i].road_distances \subseteq Nat
  PROVE  \E i \in OfType("Stop") : \E k \in DOMAIN Requests[i].road_distances :
           /\ <<i, k>> \in SaidLengths(from, to)
           /\ FirstLength(from, to) = Abs(Requests[i].road_distances[k].lenght)
           /\ \A p \in SaidLengths(from, to) : ~(p[1] < i \/ (p[1] = i /\ p[2] < k))
<1>s. PICK said : said = SaidLengths(from, to)
  OBVIOUS
<1>1. \A p \in said : /\ p = <<p[1], p[2]>> /\ p[1] \in OfType("Stop")
                      /\ p[2] \in DOMAIN Requests[p[1]].road_distances
  BY <1>s DEF SaidLengths
<1>2. {p[1] : p \in said} \in SUBSET Nat /\ {p[1] : p \in said} # {}
  BY <1>1, <1>s
<1>3. PICK i \in {p[1] : p \in said} : \A j \in {p[1] : p \in said} : i <= j
  BY <1>2, LeastNat
<1>4. {p[2] : p \in {q \in said : q[1] = i}} \in SUBSET Nat
  BY <1>1
<1>5. {p[2] : p \in {q \in said : q[1] = i}} # {}
  BY <1>3
<1>6. PICK k \in {p[2] : p \in {q \in said : q[1] = i}} :
        \A m \in {p[2] : p \in {q \in said : q[1] = i}} : k <= m
  BY <1>4, <1>5, LeastNat
<1>7. /\ <<i, k>> \in said /\ i \in OfType("Stop")
      /\ k \in DOMAIN Requests[i].road_distances
  BY <1>1, <1>6
<1>8. FirstOf({p[1] : p \in said}) = i
  <2> DEFINE firsts == {p[1] : p \in said}
  <2>1. firsts \in SUBSET Int /\ i \in firsts /\ \A j \in firsts : i <= j
    BY <1>2, <1>3
  <2> HIDE DEF firsts
  <2>2. FirstOf(firsts) = i
    BY <2>1, FirstOfIs
  <2> QED BY <2>2 DEF firsts
<1>9. FirstOf({p[2] : p \in {q \in said : q[1] = i}}) = k
  <2> DEFINE seconds == {p[2] : p \in {q \in said : q[1] = i}}
  <2>1. seconds \in SUBSET Int /\ k \in seconds /\ \A m \in seconds : k <= m
    BY <1>4, <1>6
  <2> HIDE DEF seconds
  <2>2. FirstOf(seconds) = k
    BY <2>1, FirstOfIs
  <2> QED BY <2>2 DEF seconds
<1>10. FirstLength(from, to) = Abs(Requests[i].road_distances[k].lenght)
  BY <1>8, <1>9, <1>s DEF FirstLength
<1>11. ASSUME NEW p \in said PROVE ~(p[1] < i \/ (p[1] = i /\ p[2] < k))
  <2>1. i <= p[1] /\ i \in Nat /\ p[1] \in Nat
    BY <1>1, <1>2, <1>3
  <2>2. p[1] = i => k <= p[2] /\ k \in Nat /\ p[2] \in Nat
    BY <1>4, <1>6
  <2> QED BY <2>1, <2>2
<1> QED BY <1>7, <1>10, <1>11, <1>s

LEMMA AllWasSaid == LoaderInv /\ ReadInv => CatalogueIsWhatWasSaid
<1> SUFFICES ASSUME LoaderInv, ReadInv, pc \in {"serialize", "done"}
             PROVE  CatalogueIsWhatWasSaid
  BY DEF CatalogueIsWhatWasSaid
<1>1. /\ CatalogueInv /\ AllSaid /\ call = NoCall /\ roads = << >>
      /\ request > Len(Requests) /\ request \in Nat /\ LoaderTypes
  BY DEF ReadInv, Running, LoaderInv, LoaderTypes
<1>2. TypeOK /\ StopsOK /\ NamesExact
  BY <1>1, CatalogueFacts, NamesAreExact
<1>3. /\ Len(Requests) \in Nat
      /\ BusesRead = Len(Requests) /\ StopsRead = request - 1
      /\ \A i \in OfType("Bus") : i \in Nat \ {0} /\ i <= Len(Requests)
      /\ \A i \in OfType("Stop") : i \in Nat \ {0} /\ i <= request - 1
  BY <1>1, BusRequests DEF BusesRead, StopsRead
<1>4. /\ \A i \in OfType("Bus") : BusRequestOK(Requests[i])
      /\ \A i \in OfType("Stop") : StopRequestOK(Requests[i])
  <2>1. \A i \in InRequests : BusFine(i) /\ StopFine(i)
    BY DEF LoaderInv, FirstPass, SecondPass
  <2>2. \A t : \A i \in OfType(t) : i \in InRequests /\ Requests[i].type = t
    BY DEF OfType, InRequests
  <2> QED BY <1>1, <2>1, <2>2, BusRequests DEF BusFine, StopFine
<1>5. ASSUME NEW i \in OfType("Stop")
      PROVE  /\ DOMAIN Requests[i].road_distances \subseteq Nat
             /\ \A k : RoadRead(i, k) <=> k \in DOMAIN Requests[i].road_distances
  <2>1. PICK S : Requests[i].road_distances \in Seq(S)
    BY <1>1, BusRequests
  <2>2. Len(roads) = 0
    BY <1>1
  <2>3. \A k \in DOMAIN Requests[i].road_distances :
          k \in Nat /\ k <= Len(Requests[i].road_distances) - 0
    BY <2>1
  <2> QED BY <1>3, <2>2, <2>3 DEF RoadRead
<1>6. \A i, k : RoadRead(i, k) => i \in OfType("Stop")
  BY DEF RoadRead
<1>7. \A i : ~Being(i)
  BY <1>1 DEF Being
<1>8. DOMAIN stops_ = NamedStops
  <2>1. ASSUME NEW n PROVE StopNamed(n) <=> n \in NamedStops
    <3>1. (\E i \in OfType("Bus") : \E k \in DOMAIN Requests[i].stops :
             /\ i <= BusesRead /\ Requests[i].stops[k] = n
             /\ Being(i) => k <= Len(call.deq_stops))
            <=> n \in UNION {Elements(Requests[i].stops) : i \in OfType("Bus")}
      BY <1>3, <1>7 DEF Elements
    <3>2. (\E i \in OfType("Stop") : i <= StopsRead /\ Requests[i].name = n)
            <=> n \in {Requests[i].name : i \in OfType("Stop")}
      BY <1>3
    <3>3. (\E i \in OfType("Stop") : \E k \in DOMAIN Requests[i].road_distances :
             RoadRead(i, k) /\ Requests[i].road_distances[k].to = n)
            <=> n \in UNION {{road.to : road \in Elements(Requests[i].road_distances)}
                               : i \in OfType("Stop")}
      BY <1>5 DEF Elements
    <3> QED BY <3>1, <3>2, <3>3 DEF StopNamed, NamedStops
  <2>2. \A n : StopNamed(n) => n \in StopNames
    <3>1. ASSUME NEW i \in OfType("Bus"), NEW k \in DOMAIN Requests[i].stops
          PROVE  Requests[i].stops[k] \in StopNames
      BY <1>4 DEF BusRequestOK
    <3>2. ASSUME NEW i \in OfType("Stop")
          PROVE  /\ Requests[i].name \in StopNames
                 /\ \A k \in DOMAIN Requests[i].road_distances :
                      Requests[i].road_distances[k].to \in StopNames
      BY <1>4 DEF StopRequestOK, Elements
    <3> QED BY <3>1, <3>2 DEF StopNamed
  <2>3. DOMAIN stops_ \subseteq StopNames
    BY <1>2 DEF TypeOK
  <2> QED BY <1>1, <2>1, <2>2, <2>3 DEF AllSaid, StopsSaid
<1>9. \A n \in NamedStops : all_stops_[stops_[n]].coordinates = SaidCoordinates(n)
  <2> SUFFICES ASSUME NEW n \in NamedStops
               PROVE  all_stops_[stops_[n]].coordinates = SaidCoordinates(n)
    OBVIOUS
  <2>1. {i \in OfType("Stop") : /\ Requests[i].name = n
                                /\ Requests[i].coordinates # Origin} = PlacedBy(n)
    BY <1>3 DEF PlacedBy
  <2>2. \/ PlacedBy(n) = {} /\ all_stops_[stops_[n]].coordinates = Origin
        \/ \E i \in PlacedBy(n) :
             /\ \A j \in PlacedBy(n) : i <= j
             /\ all_stops_[stops_[n]].coordinates = Requests[i].coordinates
    BY <1>1, <1>8 DEF AllSaid, PlacesSaid
  <2>3. PlacedBy(n) \in SUBSET Int
    BY <1>3 DEF PlacedBy
  <2>4. \A i \in PlacedBy(n) : (\A j \in PlacedBy(n) : i <= j) => FirstOf(PlacedBy(n)) = i
    BY <2>3, FirstOfIs
  <2> QED BY <2>1, <2>2, <2>4 DEF SaidCoordinates
<1>10. Len(all_buses_) = Cardinality(OfType("Bus"))
  <2>1. {j \in OfType("Bus") : j <= Len(Requests)} = OfType("Bus")
    BY <1>3
  <2> QED BY <1>1, <1>3, <2>1 DEF AllSaid, BusesSaid, PlaceOf
<1>11. \A i \in OfType("Bus") :
         LET bus == all_buses_[Cardinality({j \in OfType("Bus") : j <= i})] IN
         /\ bus.name = Requests[i].name
         /\ bus.is_loop_trip = Requests[i].is_roundtrip
         /\ Len(bus.stops) = Len(Requests[i].stops)
         /\ \A k \in DOMAIN bus.stops : NameOf(bus.stops[k]) = Requests[i].stops[k]
  BY <1>1, <1>3, <1>7 DEF AllSaid, BusesSaid, PlaceOf
<1>12. ASSUME NEW p \in DOMAIN all_stops_, NEW q \in DOMAIN all_stops_
       PROVE  IF SaidLengths(NameOf(p), NameOf(q)) = {}
                THEN <<p, q>> \notin DOMAIN length_between_stops_
                ELSE length_between_stops_[<<p, q>>] = FirstLength(NameOf(p), NameOf(q))
  <2>f. PICK from : from = NameOf(p)
    OBVIOUS
  <2>t. PICK to : to = NameOf(q)
    OBVIOUS
  <2>1. PairSaid(p, q, from, to)
    BY <1>1, <2>f, <2>t DEF AllSaid, LengthsSaid
  <2>2. ASSUME NEW i, NEW k PROVE <<i, k>> \in SaidLengths(from, to) <=> RoadFromTo(i, k, from, to)
    <3>1. <<i, k>> \in SaidLengths(from, to) <=>
            \E j \in OfType("Stop") : \E r \in DOMAIN Requests[j].road_distances :
               /\ Requests[j].road_distances[r].from = from
               /\ Requests[j].road_distances[r].to = to
               /\ <<i, k>> = <<j, r>>
      BY DEF SaidLengths
    <3> QED BY <1>5, <1>6, <3>1 DEF RoadFromTo
  <2>3. CASE SaidLengths(from, to) = {}
    BY <2>1, <2>2, <2>3, <2>f, <2>t DEF PairSaid
  <2>4. CASE SaidLengths(from, to) # {}
    <3>1. PICK i \in OfType("Stop") : \E k \in DOMAIN Requests[i].road_distances :
            /\ <<i, k>> \in SaidLengths(from, to)
            /\ FirstLength(from, to) = Abs(Requests[i].road_distances[k].lenght)
            /\ \A x \in SaidLengths(from, to) : ~(x[1] < i \/ (x[1] = i /\ x[2] < k))
      BY <1>3, <1>5, <2>4, FirstLengthIs
    <3>2. PICK k \in DOMAIN Requests[i].road_distances :
            /\ <<i, k>> \in SaidLengths(from, to)
            /\ FirstLength(from, to) = Abs(Requests[i].road_distances[k].lenght)
            /\ \A x \in SaidLengths(from, to) : ~(x[1] < i \/ (x[1] = i /\ x[2] < k))
      BY <3>1
    <3>3. \A j, m : RoadFromTo(j, m, from, to) => ~(j < i \/ (j = i /\ m < k))
      <4>1. ASSUME NEW j, NEW m, RoadFromTo(j, m, from, to)
            PROVE  ~(j < i \/ (j = i /\ m < k))
        <5>1. <<j, m>> \in SaidLengths(from, to)
          BY <2>2, <4>1
        <5>2. <<j, m>>[1] = j /\ <<j, m>>[2] = m
          OBVIOUS
        <5> QED BY <3>2, <5>1, <5>2
      <4> QED BY <4>1
    <3>4. RoadFromTo(i, k, from, to)
      BY <2>2, <3>2
    <3>5. length_between_stops_[<<p, q>>] = Abs(Requests[i].road_distances[k].lenght)
      BY <2>1, <3>3, <3>4 DEF PairSaid
    <3> QED BY <2>4, <2>f, <2>t, <3>2, <3>5
  <2> QED BY <2>3, <2>4, <2>f, <2>t
<1> QED BY <1>8, <1>9, <1>10, <1>11, <1>12 DEF CatalogueIsWhatWasSaid

(* CatalogueIsWhatWasSaid: whatever the document holds, in whatever order, *)
(* once make_base has gone through it twice the catalogue is what the      *)
(* document says, and the placeholders of the first pass are gone.         *)
THEOREM BaseIsWhatWasSaid == LoaderSpec => []CatalogueIsWhatWasSaid
<1>1. LoaderInit => ReadInv
  BY ReadInitHolds
<1>2. LoaderInv /\ ReadInv /\ [LoaderNext]_loaderVars => ReadInv'
  BY ReadStepKeeps
<1>3. LoaderInv /\ ReadInv => CatalogueIsWhatWasSaid
  BY AllWasSaid
<1> QED BY <1>1, <1>2, <1>3, LoaderAlways, PTL DEF LoaderSpec

-----------------------------------------------------------------------------
(* Reload.                                                                 *)

(* What the containers of a catalogue have to do with each other, for one  *)
(* that is not in the variables any more.                                  *)
IsStopIndex(index, stops) ==
  /\ stops \in Seq(Stop)
  /\ index \in [DOMAIN index -> DOMAIN stops]
  /\ \A n \in DOMAIN index : stops[index[n]].name = n
  /\ \A i \in DOMAIN stops : stops[i].name \in DOMAIN index /\ index[stops[i].name] = i

IsBusIndex(index, buses) ==
  /\ index \in [DOMAIN index -> DOMAIN buses]
  /\ \A i \in DOMAIN buses : buses[i].name \in DOMAIN index
  /\ \A n \in DOMAIN index :
       /\ buses[index[n]].name = n
       /\ \A j \in DOMAIN buses : j > index[n] => buses[j].name # n

TripsIn(buses, address) == {i \in DOMAIN buses : address \in Elements(buses[i].stops)}

IsReverseIndex(reverse, buses, index) ==
  /\ reverse \in [DOMAIN reverse -> Seq(BusNames)]
  /\ DOMAIN reverse \subseteq DOMAIN index
  /\ \A stop \in DOMAIN index :
       LET trips == TripsIn(buses, index[stop]) IN
       IF stop \in DOMAIN reverse
         THEN /\ Elements(reverse[stop]) = {buses[i].name : i \in trips}
              /\ Distinct(reverse[stop])
              /\ ByFirstTrip(reverse[stop], trips, buses)
         ELSE trips = {}
  /\ \A stop \in DOMAIN reverse : reverse[stop] # << >>

LEMMA SameStopIndex ==
  ASSUME NEW stops, NEW i1, NEW i2, IsStopIndex(i1, stops), IsStopIndex(i2, stops)
  PROVE  i1 = i2
<1>0. /\ i1 \in [DOMAIN i1 -> DOMAIN stops] /\ i2 \in [DOMAIN i2 -> DOMAIN stops]
      /\ \A n \in DOMAIN i1 : stops[i1[n]].name = n
      /\ \A n \in DOMAIN i2 : stops[i2[n]].name = n
      /\ \A i \in DOMAIN stops : stops[i].name \in DOMAIN i1 /\ i1[stops[i].name] = i
      /\ \A i \in DOMAIN stops : stops[i].name \in DOMAIN i2 /\ i2[stops[i].name] = i
  BY Zenon DEF IsStopIndex
<1>1. ASSUME NEW n \in DOMAIN i1 PROVE n \in DOMAIN i2 /\ i2[n] = i1[n]
  <2>1. PICK i : i = i1[n] /\ i \in DOMAIN stops /\ stops[i].name = n
    BY <1>0
  <2>2. stops[i].name \in DOMAIN i2 /\ i2[stops[i].name] = i
    BY <1>0, <2>1, Zenon
  <2> QED BY <2>1, <2>2
<1>2. ASSUME NEW n \in DOMAIN i2 PROVE n \in DOMAIN i1
  <2>1. PICK i : i = i2[n] /\ i \in DOMAIN stops /\ stops[i].name = n
    BY <1>0
  <2>2. stops[i].name \in DOMAIN i1
    BY <1>0, <2>1, Zenon
  <2> QED BY <2>1, <2>2
<1>3. i1 \in [DOMAIN i1 -> DOMAIN stops] /\ i2 \in [DOMAIN i1 -> DOMAIN stops]
  <2>1. DOMAIN i1 = DOMAIN i2
    BY <1>1, <1>2
  <2> QED BY <1>0, <2>1, Zenon
<1> QED BY <1>1, <1>3

(* What an index of buses says of a name, and of a bus.                    *)
LEMMA BusIndexAt ==
  ASSUME NEW buses, NEW index, IsBusIndex(index, buses), NEW n \in DOMAIN index
  PROVE  /\ index[n] \in DOMAIN buses /\ buses[index[n]].name = n
         /\ \A j \in DOMAIN buses : j > index[n] => buses[j].name # n
<1>1. index \in [DOMAIN index -> DOMAIN buses]
  BY Zenon DEF IsBusIndex
<1>2. /\ buses[index[n]].name = n
      /\ \A j \in DOMAIN buses : j > index[n] => buses[j].name # n
  BY Zenon DEF IsBusIndex
<1>3. index[n] \in DOMAIN buses
  BY <1>1
<1> QED BY <1>2, <1>3

LEMMA BusIsIndexed ==
  ASSUME NEW buses, NEW index, IsBusIndex(index, buses), NEW i \in DOMAIN buses
  PROVE  buses[i].name \in DOMAIN index
BY Zenon DEF IsBusIndex

LEMMA SameBusIndex ==
  ASSUME NEW buses, buses \in Seq(Bus), NEW i1, NEW i2,
         IsBusIndex(i1, buses), IsBusIndex(i2, buses)
  PROVE  i1 = i2
<1>0. DOMAIN buses \subseteq Int
  OBVIOUS
<1>1. ASSUME NEW n \in DOMAIN i1 PROVE n \in DOMAIN i2 /\ i2[n] = i1[n]
  <2>1. i1[n] \in DOMAIN buses /\ buses[i1[n]].name = n
    BY BusIndexAt
  <2>2. n \in DOMAIN i2 /\ i2[n] \in DOMAIN buses /\ buses[i2[n]].name = n
    <3>1. n \in DOMAIN i2
      BY <2>1, BusIsIndexed
    <3> QED BY <3>1, BusIndexAt
  <2>3. ~(i1[n] > i2[n])
    BY <2>1, <2>2, BusIndexAt
  <2>4. ~(i2[n] > i1[n])
    BY <2>1, <2>2, BusIndexAt
  <2>5. i1[n] \in Int /\ i2[n] \in Int
    BY <1>0, <2>1, <2>2
  <2> QED BY <2>2, <2>3, <2>4, <2>5
<1>2. ASSUME NEW n \in DOMAIN i2 PROVE n \in DOMAIN i1
  <2>1. i2[n] \in DOMAIN buses /\ buses[i2[n]].name = n
    BY BusIndexAt
  <2> QED BY <2>1, BusIsIndexed
<1>3. i1 \in [DOMAIN i1 -> DOMAIN buses] /\ i2 \in [DOMAIN i1 -> DOMAIN buses]
  BY <1>1, <1>2 DEF IsBusIndex
<1> QED BY <1>1, <1>3

(* A list in the order of first trips is determined by its elements: the   *)
(* first place where two lists differ would be out of order in one.        *)
LEMMA SameOrder ==
  ASSUME NEW S, NEW l1 \in Seq(S), NEW l2 \in Seq(S), NEW trips \in SUBSET Int, NEW buses,
         Elements(l1) = Elements(l2), Distinct(l1), Distinct(l2),
         ByFirstTrip(l1, trips, buses), ByFirstTrip(l2, trips, buses)
  PROVE  l1 = l2
<1>0. /\ DOMAIN l1 = 1 .. Len(l1) /\ Len(l1) \in Nat
      /\ DOMAIN l2 = 1 .. Len(l2) /\ Len(l2) \in Nat
  OBVIOUS
<1> DEFINE Differ == {k \in Nat \ {0} :
              \/ k \in DOMAIN l1 /\ k \notin DOMAIN l2
              \/ k \in DOMAIN l2 /\ k \notin DOMAIN l1
              \/ k \in DOMAIN l1 /\ k \in DOMAIN l2 /\ l1[k] # l2[k]}
<1>1. ASSUME Differ # {} PROVE FALSE
  <2>1. PICK k \in Differ : \A m \in Differ : k <= m
    BY <1>1, LeastNat
  <2>2. ASSUME NEW m \in Nat \ {0}, m < k
        PROVE  (m \in DOMAIN l1 <=> m \in DOMAIN l2) /\ (m \in DOMAIN l1 => l1[m] = l2[m])
    BY <2>1, <2>2
  <2>3. ASSUME NEW k1 \in DOMAIN l1, NEW k2 \in DOMAIN l2, l1[k1] = l2[k2]
        PROVE  (k1 < k => k2 = k1) /\ (k2 < k => k1 = k2)
    BY <1>0, <2>2, <2>3 DEF Distinct
  <2>4. k \in DOMAIN l1 => \E m \in DOMAIN l2 : m > k /\ l2[m] = l1[k]
    <3>1. SUFFICES ASSUME k \in DOMAIN l1 PROVE \E m \in DOMAIN l2 : m > k /\ l2[m] = l1[k]
      OBVIOUS
    <3>2. PICK m \in DOMAIN l2 : l2[m] = l1[k]
      BY <3>1 DEF Elements
    <3>3. ~(m < k)
      BY <1>0, <2>3, <3>1, <3>2
    <3>4. m # k
      BY <2>1, <3>1, <3>2
    <3> QED BY <1>0, <3>1, <3>2, <3>3, <3>4
  <2>5. k \in DOMAIN l2 => \E m \in DOMAIN l1 : m > k /\ l1[m] = l2[k]
    <3>1. SUFFICES ASSUME k \in DOMAIN l2 PROVE \E m \in DOMAIN l1 : m > k /\ l1[m] = l2[k]
      OBVIOUS
    <3>2. PICK m \in DOMAIN l1 : l1[m] = l2[k]
      BY <3>1 DEF Elements
    <3>3. ~(m < k)
      BY <1>0, <2>3, <3>1, <3>2
    <3>4. m # k
      BY <2>1, <3>1, <3>2
    <3> QED BY <1>0, <3>1, <3>2, <3>3, <3>4
  <2>6. k \in DOMAIN l1 /\ k \in DOMAIN l2
    BY <1>0, <2>1, <2>4, <2>5
  <2>7. PICK m \in DOMAIN l2 : m > k /\ l2[m] = l1[k]
    BY <2>4, <2>6
  <2>8. PICK p \in DOMAIN l1 : p > k /\ l1[p] = l2[k]
    BY <2>5, <2>6
  <2>9. PICK a \in trips : /\ buses[a].name = l1[k]
                           /\ \A b \in trips : buses[b].name = l1[p] => a < b
    BY <1>0, <2>6, <2>8 DEF ByFirstTrip
  <2>10. PICK c \in trips : /\ buses[c].name = l2[k]
                            /\ \A b \in trips : buses[b].name = l2[m] => c < b
    BY <1>0, <2>6, <2>7 DEF ByFirstTrip
  <2>11. a < c /\ c < a
    BY <2>7, <2>8, <2>9, <2>10
  <2> QED BY <2>11
<1>2. DOMAIN l1 = DOMAIN l2 /\ \A k \in DOMAIN l1 : l1[k] = l2[k]
  <2>1. \A k \in Nat \ {0} : k \notin Differ
    BY <1>1
  <2>2. \A k \in Nat \ {0} : (k \in DOMAIN l1 <=> k \in DOMAIN l2)
                              /\ (k \in DOMAIN l1 => l1[k] = l2[k])
    BY <2>1
  <2>3. DOMAIN l1 \subseteq Nat \ {0} /\ DOMAIN l2 \subseteq Nat \ {0}
    BY <1>0
  <2> HIDE DEF Differ
  <2>4. DOMAIN l1 = DOMAIN l2
    BY <2>2, <2>3
  <2> QED BY <2>2, <2>3, <2>4
<1>3. l1 \in [DOMAIN l1 -> S] /\ l2 \in [DOMAIN l1 -> S]
  BY <1>2
<1> QED BY <1>2, <1>3

LEMMA SameReverseIndex ==
  ASSUME NEW buses \in Seq(Bus), NEW index, NEW r1, NEW r2,
         IsReverseIndex(r1, buses, index), IsReverseIndex(r2, buses, index)
  PROVE  r1 = r2
<1>1. ASSUME NEW r, IsReverseIndex(r, buses, index), NEW stop \in DOMAIN index
      PROVE  stop \in DOMAIN r <=> TripsIn(buses, index[stop]) # {}
  <2>1. CASE stop \in DOMAIN r
    <3>1. r[stop] \in Seq(BusNames) /\ r[stop] # << >>
      BY <1>1, <2>1 DEF IsReverseIndex
    <3>2. Elements(r[stop]) # {}
      <4>1. 1 \in DOMAIN r[stop]
        BY <3>1
      <4> QED BY <4>1 DEF Elements
    <3>3. Elements(r[stop]) = {buses[i].name : i \in TripsIn(buses, index[stop])}
      BY <1>1, <2>1 DEF IsReverseIndex
    <3> QED BY <2>1, <3>2, <3>3
  <2>2. CASE stop \notin DOMAIN r
    BY <1>1, <2>2 DEF IsReverseIndex
  <2> QED BY <2>1, <2>2
<1>2. DOMAIN r1 \subseteq DOMAIN index /\ DOMAIN r2 \subseteq DOMAIN index
  BY DEF IsReverseIndex
<1>3. DOMAIN r1 = DOMAIN r2
  BY <1>1, <1>2
<1>4. ASSUME NEW stop \in DOMAIN r1 PROVE r1[stop] = r2[stop]
  <2> DEFINE trips == TripsIn(buses, index[stop])
  <2>1. /\ r1[stop] \in Seq(BusNames) /\ r2[stop] \in Seq(BusNames)
        /\ Elements(r1[stop]) = Elements(r2[stop])
        /\ Distinct(r1[stop]) /\ Distinct(r2[stop])
        /\ ByFirstTrip(r1[stop], trips, buses) /\ ByFirstTrip(r2[stop], trips, buses)
    BY <1>2, <1>3 DEF IsReverseIndex
  <2>2. trips \in SUBSET Int
    BY DEF TripsIn
  <2> HIDE DEF trips
  <2> QED BY <2>1, <2>2, SameOrder
<1>5. r1 \in [DOMAIN r1 -> Seq(BusNames)] /\ r2 \in [DOMAIN r1 -> Seq(BusNames)]
  BY <1>3 DEF IsReverseIndex
<1> QED BY <1>4, <1>5

(* The catalogue in the variables, while no bus is being added.            *)
LEMMA CatalogueIndexes ==
  ASSUME CatalogueInv, call = NoCall
  PROVE  /\ IsStopIndex(stops_, all_stops_)
         /\ all_buses_ \in Seq(Bus) /\ IsBusIndex(buses_, all_buses_)
         /\ \A i \in DOMAIN all_buses_ : Elements(all_buses_[i].stops) \subseteq DOMAIN all_stops_
         /\ IsReverseIndex(buses_in_stop_, all_buses_, stops_)
         /\ length_between_stops_ \in [DOMAIN length_between_stops_ -> Lengths]
         /\ DOMAIN length_between_stops_ \subseteq (DOMAIN all_stops_) \X (DOMAIN all_stops_)
<1> USE DEF CatalogueInv, IndInv, IInv
<1>1. IsStopIndex(stops_, all_stops_)
  BY DEF TypeOK, StopIndexExact, IsStopIndex
<1>2. all_buses_ \in Seq(Bus) /\ IsBusIndex(buses_, all_buses_)
  BY DEF TypeOK, BusIndexNewest, IsBusIndex
<1>3. \A stop \in DOMAIN stops_ : TripsIn(all_buses_, stops_[stop]) = Trips(stop)
  BY DEF TripsIn, Trips, PassedBy, StopsOf
<1>4. \A i \in DOMAIN all_buses_ : all_buses_[i].name \in BusNames
  <2>1. \A i \in DOMAIN all_buses_ : all_buses_[i] \in Bus
    BY <1>2
  <2> QED BY <2>1 DEF Bus
<1>5. ASSUME NEW stop \in DOMAIN stops_
      PROVE  IF stop \in DOMAIN buses_in_stop_
               THEN /\ Elements(buses_in_stop_[stop]) = {all_buses_[i].name : i \in Trips(stop)}
                    /\ Distinct(buses_in_stop_[stop])
                    /\ ByFirstTrip(buses_in_stop_[stop], Trips(stop), all_buses_)
               ELSE Trips(stop) = {}
  <2>0. stop \in StopNames
    BY DEF TypeOK
  <2>1. /\ \A bus \in BusNames : bus \in Elements(BusesInStop(stop)) <=> Passes(bus, stop)
        /\ Distinct(BusesInStop(stop))
    BY <2>0 DEF BusesInStopExact, Distinct
  <2>2. \A bus : Passes(bus, stop) <=> bus \in {all_buses_[a].name : a \in Trips(stop)}
    BY DEF Passes, Trips, PassedBy
  <2>3. CASE stop \in DOMAIN buses_in_stop_
    <3>1. BusesInStop(stop) = buses_in_stop_[stop] /\ buses_in_stop_[stop] \in Seq(BusNames)
      BY <2>3 DEF BusesInStop, TypeOK
    <3>2. Elements(buses_in_stop_[stop]) \subseteq BusNames
      BY <3>1 DEF Elements
    <3>3. {all_buses_[a].name : a \in Trips(stop)} \subseteq BusNames
      BY <1>4 DEF Trips
    <3>4. Elements(buses_in_stop_[stop]) = {all_buses_[a].name : a \in Trips(stop)}
      BY <2>1, <2>2, <3>1, <3>2, <3>3
    <3> QED BY <2>1, <2>3, <3>1, <3>4 DEF ListedInOrder
  <2>4. CASE stop \notin DOMAIN buses_in_stop_
    <3>1. Elements(BusesInStop(stop)) = {}
      BY <2>4 DEF BusesInStop, Elements
    <3>2. \A a \in Trips(stop) : all_buses_[a].name \in BusNames /\ Passes(all_buses_[a].name, stop)
      BY <1>4, <2>2 DEF Trips
    <3> QED BY <2>1, <2>4, <3>1, <3>2
  <2> QED BY <2>3, <2>4
<1>6. IsReverseIndex(buses_in_stop_, all_buses_, stops_)
  BY <1>3, <1>5 DEF TypeOK, ListedInOrder, IsReverseIndex
<1> QED BY <1>1, <1>2, <1>6 DEF TypeOK

-----------------------------------------------------------------------------
SavedStops     == original[1]
SavedStopIndex == original[2]
SavedBuses     == original[3]
SavedBusIndex  == original[4]
SavedReverse   == original[5]
SavedLengths   == original[6]

ProtoBus(bus) == [name |-> bus.name, is_loop |-> bus.is_loop_trip, stops |-> bus.stops]

Distance(p) == [from |-> p[1], to |-> p[2], lenght |-> SavedLengths[p]]

Distances == {Distance(p) : p \in DOMAIN SavedLengths}

(* The catalogue that was saved was a good one, and the message gives the  *)
(* place of a stop in its list of stops where the catalogue had its        *)
(* address.                                                                *)
MessageIsCatalogue ==
  /\ original = <<SavedStops, SavedStopIndex, SavedBuses, SavedBusIndex,
                  SavedReverse, SavedLengths>>
  /\ IsStopIndex(SavedStopIndex, SavedStops)
  /\ SavedBuses \in Seq(Bus) /\ IsBusIndex(SavedBusIndex, SavedBuses)
  /\ \A i \in DOMAIN SavedBuses : Elements(SavedBuses[i].stops) \subseteq DOMAIN SavedStops
  /\ IsReverseIndex(SavedReverse, SavedBuses, SavedStopIndex)
  /\ SavedLengths \in [DOMAIN SavedLengths -> Lengths]
  /\ DOMAIN SavedLengths \subseteq (DOMAIN SavedStops) \X (DOMAIN SavedStops)
  /\ proto = [stops |-> SavedStops,
              buses |-> [i \in DOMAIN SavedBuses |-> ProtoBus(SavedBuses[i])],
              lenght_between_stops |-> Distances]

NoLengthYet == DOMAIN length_between_stops_ = {} /\ pending = Distances

(* The first stops of the message, and nothing else.                       *)
LoadingStops ==
  /\ loaded <= Len(SavedStops) /\ Len(all_stops_) = loaded
  /\ \A i \in DOMAIN all_stops_ : all_stops_[i] = SavedStops[i]
  /\ all_buses_ = << >> /\ call = NoCall

StopsLoaded == all_stops_ = SavedStops /\ stops_ = SavedStopIndex

(* The first buses of the message; the call adding the last one has so far *)
(* collected the addresses the saved bus had, and the names it was given   *)
(* are those of the others.                                                *)
LoadingBuses ==
  /\ loaded <= Len(SavedBuses) /\ Len(all_buses_) = loaded
  /\ \A i \in DOMAIN all_buses_ :
       /\ all_buses_[i].name = SavedBuses[i].name
       /\ all_buses_[i].is_loop_trip = SavedBuses[i].is_loop_trip
       /\ call = NoCall \/ i # loaded => all_buses_[i].stops = SavedBuses[i].stops
  /\ call # NoCall =>
       /\ loaded > 0
       /\ LET stops == SavedBuses[loaded].stops
              done  == Len(call.deq_stops)
          IN /\ done + Len(call.rest) = Len(stops)
             /\ \A j \in 1 .. done : call.deq_stops[j] = stops[j]
             /\ \A j \in 1 .. Len(call.rest) :
                   call.rest[j] = SavedStops[stops[done + j]].name

BusesLoaded ==
  /\ all_buses_ = SavedBuses /\ buses_ = SavedBusIndex /\ buses_in_stop_ = SavedReverse
  /\ call = NoCall

LoadingLengths ==
  /\ pending \subseteq Distances
  /\ DOMAIN length_between_stops_ = {p \in DOMAIN SavedLengths : Distance(p) \notin pending}
  /\ \A p \in DOMAIN length_between_stops_ : length_between_stops_[p] = SavedLengths[p]

ReloadInv ==
  /\ CatalogueInv
  /\ stage \in {"building", "stops", "buses", "lengths", "loaded"} /\ loaded \in Nat
  /\ stage # "building" => MessageIsCatalogue
  /\ stage = "stops" => LoadingStops /\ NoLengthYet
  /\ stage \in {"buses", "lengths", "loaded"} => StopsLoaded
  /\ stage = "buses" => LoadingBuses /\ NoLengthYet
  /\ stage \in {"lengths", "loaded"} => BusesLoaded
  /\ stage = "lengths" => LoadingLengths
  /\ stage = "loaded" => length_between_stops_ = SavedLengths

LEMMA EmptyCatalogueNext == Init' => CatalogueInv'
BY EmptyCatalogue, PTL

LEMMA MessageStays ==
  ASSUME UNCHANGED <<proto, original>>
  PROVE  /\ MessageIsCatalogue' <=> MessageIsCatalogue
         /\ SavedStops' = SavedStops /\ SavedStopIndex' = SavedStopIndex
         /\ SavedBuses' = SavedBuses /\ SavedBusIndex' = SavedBusIndex
         /\ SavedReverse' = SavedReverse /\ SavedLengths' = SavedLengths
         /\ Distances' = Distances /\ \A p : Distance(p)' = Distance(p)
BY DEF MessageIsCatalogue, SavedStops, SavedStopIndex, SavedBuses, SavedBusIndex,
       SavedReverse, SavedLengths, Distances, Distance

LEMMA BuildKeeps ==
  ASSUME ReloadInv, Build
  PROVE  ReloadInv'
<1>1. stage = "building" /\ stage' = "building" /\ loaded' = loaded /\ Next
  BY DEF Build, progress
<1>2. CatalogueInv'
  <2>1. CatalogueInv
    BY DEF ReloadInv
  <2> QED BY <1>1, <2>1, OperationsKeep, CatalogueAssumption DEF Next
<1> QED BY <1>1, <1>2 DEF ReloadInv

LEMMA SaveToProtoKeeps ==
  ASSUME ReloadInv, SaveToProto
  PROVE  ReloadInv'
<1>1. /\ CatalogueInv /\ call = NoCall
      /\ stage' = "stops" /\ loaded' = 0
      /\ proto' = SavedCatalogue /\ original' = catalogue
      /\ pending' = proto'.lenght_between_stops
      /\ all_stops_' = << >> /\ stops_' = << >> /\ all_buses_' = << >>
      /\ buses_' = << >> /\ buses_in_stop_' = << >> /\ length_between_stops_' = << >>
      /\ call' = NoCall
  BY DEF ReloadInv, SaveToProto
<1>2. CatalogueInv'
  <2>1. Init'
    BY <1>1 DEF Init
  <2> QED BY <2>1, EmptyCatalogueNext
<1>3. /\ SavedStops' = all_stops_ /\ SavedStopIndex' = stops_ /\ SavedBuses' = all_buses_
      /\ SavedBusIndex' = buses_ /\ SavedReverse' = buses_in_stop_
      /\ SavedLengths' = length_between_stops_
  BY <1>1 DEF catalogue, SavedStops, SavedStopIndex, SavedBuses, SavedBusIndex,
              SavedReverse, SavedLengths
<1>4. /\ IsStopIndex(stops_, all_stops_)
      /\ all_buses_ \in Seq(Bus) /\ IsBusIndex(buses_, all_buses_)
      /\ \A i \in DOMAIN all_buses_ : Elements(all_buses_[i].stops) \subseteq DOMAIN all_stops_
      /\ IsReverseIndex(buses_in_stop_, all_buses_, stops_)
      /\ length_between_stops_ \in [DOMAIN length_between_stops_ -> Lengths]
      /\ DOMAIN length_between_stops_ \subseteq (DOMAIN all_stops_) \X (DOMAIN all_stops_)
  BY <1>1, CatalogueIndexes
<1>5. ASSUME NEW p \in DOMAIN all_stops_ PROVE ProtoStop(all_stops_[p].name) = p
  <2>1. \A i \in DOMAIN all_stops_ : all_stops_[i].name = all_stops_[p].name => i = p
    BY <1>4 DEF IsStopIndex
  <2> QED BY <2>1 DEF ProtoStop
<1>6. ASSUME NEW i \in DOMAIN all_buses_
      PROVE  SaveBusToProto(all_buses_[i]) = ProtoBus(all_buses_[i])
  <2> DEFINE stops == all_buses_[i].stops
  <2>1. stops \in Seq(Nat)
    <3>1. all_buses_[i] \in Bus
      BY <1>4
    <3> QED BY <3>1 DEF Bus
  <2>2. \A j \in DOMAIN stops : ProtoStop(all_stops_[stops[j]].name) = stops[j]
    BY <1>4, <1>5 DEF Elements
  <2>3. [j \in DOMAIN stops |-> ProtoStop(all_stops_[stops[j]].name)] = stops
    <3> HIDE DEF stops
    <3> QED BY <2>1, <2>2
  <2> QED BY <2>3 DEF SaveBusToProto, ProtoBus
<1>7. ASSUME NEW p \in DOMAIN length_between_stops_
      PROVE  SaveLenghtToProto(p) = Distance(p)'
  <2>1. p[1] \in DOMAIN all_stops_ /\ p[2] \in DOMAIN all_stops_
    BY <1>4
  <2> QED BY <1>3, <1>5, <2>1 DEF SaveLenghtToProto, Distance
<1>8. Distances' = {SaveLenghtToProto(p) : p \in DOMAIN length_between_stops_}
  BY <1>3, <1>7 DEF Distances
<1>9. proto' = [stops |-> all_stops_,
                buses |-> [i \in DOMAIN all_buses_ |-> ProtoBus(all_buses_[i])],
                lenght_between_stops |-> Distances']
  BY <1>1, <1>6, <1>8 DEF SavedCatalogue
<1>10. MessageIsCatalogue'
  BY <1>1, <1>3, <1>4, <1>9 DEF MessageIsCatalogue, catalogue
<1>11. NoLengthYet'
  BY <1>1, <1>9 DEF NoLengthYet
<1>12. LoadingStops'
  <2>1. Len(all_stops_) \in Nat /\ Len(<< >>) = 0 /\ DOMAIN << >> = {}
    BY <1>4 DEF IsStopIndex
  <2> QED BY <1>1, <1>3, <2>1 DEF LoadingStops
<1> QED BY <1>1, <1>2, <1>10, <1>11, <1>12 DEF ReloadInv

LEMMA LoadStopKeeps ==
  ASSUME ReloadInv, LoadStop
  PROVE  ReloadInv'
<1> DEFINE stop == SavedStops[loaded + 1]
<1>1. /\ CatalogueInv /\ stage = "stops" /\ stage' = "stops" /\ loaded \in Nat
      /\ MessageIsCatalogue /\ LoadingStops /\ NoLengthYet
      /\ loaded' = loaded + 1 /\ pending' = pending /\ UNCHANGED <<proto, original>>
  BY DEF ReloadInv, LoadStop
<1>2. /\ SavedStops \in Seq(Stop) /\ proto.stops = SavedStops
      /\ IsStopIndex(SavedStopIndex, SavedStops)
  BY <1>1 DEF MessageIsCatalogue, IsStopIndex
<1>3. /\ loaded + 1 \in DOMAIN SavedStops
      /\ stop \in Stop /\ stop.name \in StopNames /\ stop.coordinates \in Coordinates
      /\ stop = [name |-> stop.name, coordinates |-> stop.coordinates]
  <2>1. loaded + 1 \in DOMAIN SavedStops
    BY <1>1, <1>2 DEF LoadStop
  <2>2. stop \in Stop
    BY <1>2, <2>1
  <2> QED BY <2>1, <2>2 DEF Stop
<1>4. AddStop(stop.name, stop.coordinates)
  BY <1>2 DEF LoadStop
<1>5. CatalogueInv'
  BY <1>1, <1>3, <1>4, OperationsKeep
<1>6. stop.name \notin DOMAIN stops_
  <2>1. SUFFICES ASSUME stop.name \in DOMAIN stops_ PROVE FALSE
    OBVIOUS
  <2> DEFINE i == stops_[stop.name]
  <2>2. i \in DOMAIN all_stops_ /\ all_stops_[i].name = stop.name
    BY <1>1, <2>1 DEF CatalogueInv, IndInv, IInv, TypeOK, StopIndexExact
  <2>3. all_stops_ \in Seq(Stop)
    BY <1>1 DEF CatalogueInv, IndInv, IInv, TypeOK
  <2>4. i \in DOMAIN SavedStops /\ i # loaded + 1 /\ SavedStops[i].name = stop.name
    <3>1. i \in 1 .. loaded /\ all_stops_[i] = SavedStops[i]
      BY <1>1, <2>2, <2>3 DEF LoadingStops
    <3> QED BY <1>1, <1>2, <2>2, <3>1 DEF LoadingStops
  <2> QED BY <1>2, <1>3, <2>4 DEF IsStopIndex
<1>7. /\ all_stops_' = Append(all_stops_, stop)
      /\ UNCHANGED <<BusVars, length_between_stops_, call>>
  BY <1>3, <1>4, <1>6 DEF AddStop, AddStopEffect
<1>8. LoadingStops'
  <2>1. /\ Len(all_stops_') = loaded + 1
        /\ DOMAIN all_stops_' = DOMAIN all_stops_ \cup {loaded + 1}
        /\ all_stops_'[loaded + 1] = stop
        /\ \A i \in DOMAIN all_stops_ : all_stops_'[i] = all_stops_[i]
    <3>1. all_stops_ \in Seq(Stop) /\ Len(all_stops_) = loaded
      BY <1>1 DEF CatalogueInv, IndInv, IInv, TypeOK, LoadingStops
    <3> QED BY <1>3, <1>7, <3>1, AppendProps
  <2>2. loaded + 1 <= Len(SavedStops)
    BY <1>2, <1>3
  <2> QED BY <1>1, <1>7, <2>1, <2>2, MessageStays DEF LoadingStops, BusVars
<1>9. NoLengthYet' /\ MessageIsCatalogue'
  BY <1>1, <1>7, MessageStays DEF NoLengthYet
<1> QED BY <1>1, <1>5, <1>8, <1>9 DEF ReloadInv

LEMMA SavedBusType ==
  ASSUME MessageIsCatalogue, NEW i \in DOMAIN SavedBuses
  PROVE  /\ SavedBuses[i] \in Bus /\ SavedBuses[i].name \in BusNames
         /\ SavedBuses[i].stops \in Seq(Nat) /\ SavedBuses[i].is_loop_trip \in BOOLEAN
         /\ \A j \in DOMAIN SavedBuses[i].stops :
              /\ SavedBuses[i].stops[j] \in DOMAIN SavedStops
              /\ SavedStops[SavedBuses[i].stops[j]].name \in StopNames
<1>1. SavedBuses[i] \in Bus
  BY DEF MessageIsCatalogue
<1>2. ASSUME NEW j \in DOMAIN SavedBuses[i].stops
      PROVE  /\ SavedBuses[i].stops[j] \in DOMAIN SavedStops
             /\ SavedStops[SavedBuses[i].stops[j]].name \in StopNames
  <2>1. SavedBuses[i].stops[j] \in DOMAIN SavedStops
    BY DEF MessageIsCatalogue, Elements
  <2>2. SavedStops[SavedBuses[i].stops[j]] \in Stop
    BY <2>1 DEF MessageIsCatalogue, IsStopIndex
  <2> QED BY <2>1, <2>2 DEF Stop
<1> QED BY <1>1, <1>2 DEF Bus

LEMMA LoadBusKeeps ==
  ASSUME ReloadInv, LoadBus
  PROVE  ReloadInv'
<1>n. PICK n : n = loaded + 1
  OBVIOUS
<1>s. PICK stops : stops = SavedBuses[n].stops
  OBVIOUS
<1> DEFINE name == SavedBuses[n].name
           is_loop == SavedBuses[n].is_loop_trip
           names == [i \in DOMAIN stops |-> SavedStops[stops[i]].name]
<1>1. /\ CatalogueInv /\ stage = "buses" /\ stage' = "buses" /\ loaded \in Nat
      /\ MessageIsCatalogue /\ StopsLoaded /\ LoadingBuses /\ NoLengthYet
      /\ loaded' = n /\ pending' = pending /\ UNCHANGED <<proto, original>>
  BY <1>n DEF ReloadInv, LoadBus
<1>2. /\ n \in DOMAIN SavedBuses /\ n \in Nat
      /\ name \in BusNames /\ is_loop \in BOOLEAN /\ stops \in Seq(Nat)
      /\ names \in Seq(StopNames) /\ Len(names) = Len(stops)
  <2>1. SavedBuses \in Seq(Bus) /\ Len(proto.buses) = Len(SavedBuses)
    BY <1>1 DEF MessageIsCatalogue
  <2>2. n \in DOMAIN SavedBuses /\ n \in Nat
    BY <1>1, <1>n, <2>1 DEF LoadBus
  <2>3. /\ name \in BusNames /\ is_loop \in BOOLEAN /\ stops \in Seq(Nat)
        /\ \A i \in DOMAIN stops : SavedStops[stops[i]].name \in StopNames
    <3>1. MessageIsCatalogue
      BY <1>1
    <3> QED BY <1>s, <2>2, <3>1, SavedBusType
  <2>4. Len(stops) \in Nat /\ DOMAIN stops = 1 .. Len(stops)
    BY <2>3
  <2>5. names \in [1 .. Len(stops) -> StopNames] /\ DOMAIN names = 1 .. Len(stops)
    BY <2>3, <2>4
  <2>6. names \in Seq(StopNames) /\ Len(names) = Len(stops)
    <3> HIDE DEF names
    <3> QED BY <2>4, <2>5
  <2> QED BY <2>2, <2>3, <2>6
<1>3. BeginAddBus(name, names, is_loop)
  <2>1. proto.buses[n] = ProtoBus(SavedBuses[n]) /\ proto.stops = SavedStops
    BY <1>1, <1>2 DEF MessageIsCatalogue
  <2> QED BY <1>n, <1>s, <2>1 DEF LoadBus, ProtoBus
<1> HIDE DEF names
<1>4. CatalogueInv'
  BY <1>1, <1>2, <1>3, OperationsKeep
<1>5. /\ call = NoCall
      /\ call' = [bus |-> name, rest |-> names, deq_stops |-> << >>]
      /\ all_buses_' = Append(all_buses_, [name |-> name, stops |-> << >>, is_loop_trip |-> is_loop])
      /\ UNCHANGED <<StopVars, buses_in_stop_, length_between_stops_>>
  BY <1>3 DEF BeginAddBus
<1>6. LoadingBuses'
  <2> DEFINE bus == [name |-> name, stops |-> << >>, is_loop_trip |-> is_loop]
  <2>1. /\ Len(all_buses_') = n
        /\ DOMAIN all_buses_' = DOMAIN all_buses_ \cup {n}
        /\ all_buses_'[n] = bus
        /\ \A i \in DOMAIN all_buses_ : all_buses_'[i] = all_buses_[i]
    <3>1. all_buses_ \in Seq(Bus) /\ Len(all_buses_) = loaded
      BY <1>1 DEF CatalogueInv, IndInv, IInv, TypeOK, LoadingBuses
    <3>2. bus \in Bus
      BY <1>2 DEF Bus
    <3> HIDE DEF bus
    <3> QED BY <1>5, <1>n, <3>1, <3>2, AppendProps DEF bus
  <2>2. n <= Len(SavedBuses) /\ n > 0
    BY <1>1, <1>2, <1>n DEF MessageIsCatalogue
  <2>3. call'.rest = names /\ call'.deq_stops = << >> /\ Len(<< >>) = 0
    BY <1>5
  <2>4. \A j \in 1 .. Len(names) : names[j] = SavedStops[stops[0 + j]].name
    BY <1>2 DEF names
  <2>5. Len(names) \in Nat
    BY <1>2
  <2>6. /\ SavedBuses' = SavedBuses /\ SavedStops' = SavedStops
    BY <1>1, MessageStays
  <2>7. \A i \in DOMAIN all_buses_' :
          /\ all_buses_'[i].name = SavedBuses[i].name
          /\ all_buses_'[i].is_loop_trip = SavedBuses[i].is_loop_trip
          /\ i # n => all_buses_'[i].stops = SavedBuses[i].stops
    BY <1>1, <1>5, <2>1 DEF LoadingBuses
  <2>8. /\ Len(call'.deq_stops) + Len(call'.rest) = Len(stops)
        /\ \A j \in 1 .. Len(call'.deq_stops) : call'.deq_stops[j] = stops[j]
        /\ \A j \in 1 .. Len(call'.rest) :
              call'.rest[j] = SavedStops[stops[Len(call'.deq_stops) + j]].name
    BY <1>2, <2>3, <2>4, <2>5
  <2>9. call' # NoCall
    <3>1. call' \in Call
      BY <1>2, <1>5 DEF Call
    <3> QED BY <3>1, CatalogueAssumption DEF Call
  <2> QED BY <1>1, <1>s, <2>1, <2>2, <2>6, <2>7, <2>8, <2>9 DEF LoadingBuses
<1>7. StopsLoaded' /\ NoLengthYet' /\ MessageIsCatalogue'
  BY <1>1, <1>5, MessageStays DEF StopsLoaded, NoLengthYet, StopVars
<1> QED BY <1>1, <1>2, <1>4, <1>6, <1>7 DEF ReloadInv

LEMMA LoadBusStopKeeps ==
  ASSUME ReloadInv, stage = "buses", AddBusStop, UNCHANGED <<progress, proto, original>>
  PROVE  ReloadInv'
<1>1. /\ CatalogueInv /\ stage' = "buses" /\ loaded \in Nat /\ loaded' = loaded
      /\ MessageIsCatalogue /\ StopsLoaded /\ LoadingBuses /\ NoLengthYet
      /\ pending' = pending /\ UNCHANGED <<proto, original>>
  BY DEF ReloadInv, progress
<1>2. CatalogueInv' /\ StopsGrow
  BY <1>1, OperationsKeep
<1>s. PICK stops : stops = SavedBuses[loaded].stops
  OBVIOUS
<1>d. PICK done : done = Len(call.deq_stops)
  OBVIOUS
<1>a. PICK addr : addr = stops_'[Head(call.rest)]
  OBVIOUS
<1>3. /\ call # NoCall /\ call \in Call /\ call.rest # << >>
      /\ call.rest \in Seq(StopNames) /\ call.deq_stops \in Seq(Nat)
      /\ loaded > 0 /\ loaded <= Len(SavedBuses)
      /\ done + Len(call.rest) = Len(stops)
      /\ \A j \in 1 .. done : call.deq_stops[j] = stops[j]
      /\ \A j \in 1 .. Len(call.rest) : call.rest[j] = SavedStops[stops[done + j]].name
  BY <1>1, <1>s, <1>d DEF CatalogueInv, IndInv, IInv, TypeOK, AddBusStop, Call, LoadingBuses
<1>4. done \in Nat /\ Len(call.rest) \in Nat /\ Len(call.rest) > 0 /\ Head(call.rest) = call.rest[1]
  BY <1>3, <1>d
<1>5. /\ stops \in Seq(Nat) /\ done + 1 \in DOMAIN stops
      /\ stops[done + 1] \in DOMAIN SavedStops
  <2>1. loaded \in DOMAIN SavedBuses
    BY <1>1, <1>3 DEF MessageIsCatalogue
  <2>2. stops \in Seq(Nat) /\ \A j \in DOMAIN stops : stops[j] \in DOMAIN SavedStops
    BY <1>1, <1>s, <2>1, SavedBusType
  <2>3. done + 1 \in DOMAIN stops
    BY <1>3, <1>4, <2>2
  <2> QED BY <2>2, <2>3
<1>6. Head(call.rest) = SavedStops[stops[done + 1]].name
  BY <1>3, <1>4
<1>7. UNCHANGED StopVars /\ addr = stops[done + 1]
  <2>1. Head(call.rest) \in DOMAIN stops_ /\ stops_[Head(call.rest)] = stops[done + 1]
    <3>1. PICK a : a = stops[done + 1] /\ a \in DOMAIN SavedStops
      BY <1>5
    <3>2. IsStopIndex(SavedStopIndex, SavedStops)
      BY <1>1 DEF MessageIsCatalogue
    <3>3. SavedStops[a].name \in DOMAIN SavedStopIndex /\ SavedStopIndex[SavedStops[a].name] = a
      BY <3>1, <3>2, Zenon DEF IsStopIndex
    <3>4. stops_ = SavedStopIndex
      BY <1>1 DEF StopsLoaded
    <3> QED BY <1>6, <3>1, <3>3, <3>4, Zenon
  <2>2. UNCHANGED StopVars
    BY <2>1 DEF AddBusStop, EnsureStop
  <2> QED BY <1>a, <2>1, <2>2 DEF StopVars
<1>8. /\ call' = [call EXCEPT !.rest = Tail(@), !.deq_stops = Append(@, addr)]
      /\ UNCHANGED <<all_buses_, buses_, length_between_stops_>>
  BY <1>a DEF AddBusStop
<1>9. call'.rest = Tail(call.rest) /\ call'.deq_stops = Append(call.deq_stops, addr)
  BY <1>3, <1>8 DEF Call
<1>10. /\ Len(call'.deq_stops) = done + 1
       /\ Len(call'.rest) = Len(call.rest) - 1
       /\ \A j \in 1 .. Len(call'.rest) : call'.rest[j] = call.rest[j + 1]
       /\ \A j \in 1 .. done : call'.deq_stops[j] = call.deq_stops[j]
       /\ call'.deq_stops[done + 1] = addr
  <2>1. addr \in Nat
    BY <1>5, <1>7
  <2>2. /\ Len(call'.deq_stops) = done + 1
        /\ \A j \in 1 .. done : call'.deq_stops[j] = call.deq_stops[j]
        /\ call'.deq_stops[done + 1] = addr
    BY <1>3, <1>d, <1>9, <2>1
  <2>3. /\ Len(call'.rest) = Len(call.rest) - 1
        /\ \A j \in 1 .. Len(call'.rest) : call'.rest[j] = call.rest[j + 1]
    BY <1>3, <1>9
  <2> QED BY <2>2, <2>3
<1>11. LoadingBuses'
  <2>0. call' # NoCall
    <3>1. call' \in Call
      <4>1. Append(call.deq_stops, addr) \in Seq(Nat) /\ Tail(call.rest) \in Seq(StopNames)
        BY <1>3, <1>5, <1>7
      <4> QED BY <1>3, <1>8, <4>1 DEF Call
    <3> QED BY <3>1, CatalogueAssumption DEF Call
  <2>1. /\ Len(call'.deq_stops) + Len(call'.rest) = Len(stops)
        /\ \A j \in 1 .. Len(call'.deq_stops) : call'.deq_stops[j] = stops[j]
    <3>1. Len(stops) \in Nat
      BY <1>5
    <3>2. (done + 1) + (Len(call.rest) - 1) = Len(stops)
      <4>1. ASSUME NEW x \in Nat, NEW y \in Nat PROVE (x + 1) + (y - 1) = x + y
        OBVIOUS
      <4> QED BY <1>3, <1>4, <4>1
    <3>3. ASSUME NEW j \in 1 .. (done + 1) PROVE call'.deq_stops[j] = stops[j]
      <4>1. j \in 1 .. done \/ j = done + 1
        BY <1>4
      <4> QED BY <1>3, <1>7, <1>10, <4>1
    <3> QED BY <1>10, <3>2, <3>3
  <2>2. \A j \in 1 .. Len(call'.rest) :
           call'.rest[j] = SavedStops[stops[Len(call'.deq_stops) + j]].name
    <3>1. ASSUME NEW j \in 1 .. Len(call'.rest)
          PROVE  call'.rest[j] = SavedStops[stops[Len(call'.deq_stops) + j]].name
      <4>1. j \in Int /\ j + 1 \in 1 .. Len(call.rest) /\ done + (j + 1) = (done + 1) + j
        BY <1>4, <1>10, <3>1
      <4>2. call.rest[j + 1] = SavedStops[stops[done + (j + 1)]].name
        BY <1>3, <4>1
      <4> QED BY <1>10, <3>1, <4>1, <4>2
    <3> QED BY <3>1
  <2>3. SavedBuses' = SavedBuses /\ SavedStops' = SavedStops
    BY <1>1, MessageStays
  <2>4. /\ all_buses_' = all_buses_ /\ loaded' = loaded
        /\ loaded <= Len(SavedBuses) /\ Len(all_buses_) = loaded
        /\ \A i \in DOMAIN all_buses_ :
             /\ all_buses_[i].name = SavedBuses[i].name
             /\ all_buses_[i].is_loop_trip = SavedBuses[i].is_loop_trip
             /\ i # loaded => all_buses_[i].stops = SavedBuses[i].stops
    BY <1>1, <1>8 DEF LoadingBuses
  <2> QED BY <1>3, <1>s, <2>0, <2>1, <2>2, <2>3, <2>4 DEF LoadingBuses
<1>12. StopsLoaded' /\ NoLengthYet' /\ MessageIsCatalogue'
  BY <1>1, <1>7, <1>8, MessageStays DEF StopsLoaded, NoLengthYet, StopVars
<1> QED BY <1>1, <1>2, <1>11, <1>12 DEF ReloadInv

LEMMA EndLoadBusKeeps ==
  ASSUME ReloadInv, stage = "buses", EndAddBus, UNCHANGED <<progress, proto, original>>
  PROVE  ReloadInv'
<1>1. /\ CatalogueInv /\ stage' = "buses" /\ loaded \in Nat /\ loaded' = loaded
      /\ MessageIsCatalogue /\ StopsLoaded /\ LoadingBuses /\ NoLengthYet
      /\ pending' = pending /\ UNCHANGED <<proto, original>>
  BY DEF ReloadInv, progress
<1>2. CatalogueInv'
  BY <1>1, OperationsKeep
<1>3. /\ call # NoCall /\ call.rest = << >> /\ call \in Call /\ call' = NoCall
      /\ UNCHANGED <<StopVars, buses_, buses_in_stop_, length_between_stops_>>
  BY <1>1 DEF CatalogueInv, IndInv, IInv, TypeOK, EndAddBus
<1>s. PICK stops : stops = SavedBuses[loaded].stops
  OBVIOUS
<1>4. call.deq_stops = stops
  <2>1. /\ loaded > 0 /\ loaded <= Len(SavedBuses) /\ Len(call.rest) = 0
        /\ Len(call.deq_stops) + Len(call.rest) = Len(stops)
        /\ \A j \in 1 .. Len(call.deq_stops) : call.deq_stops[j] = stops[j]
    BY <1>1, <1>3, <1>s DEF LoadingBuses
  <2>2. loaded \in DOMAIN SavedBuses
    BY <1>1, <2>1 DEF MessageIsCatalogue
  <2>3. stops \in Seq(Nat) /\ call.deq_stops \in Seq(Nat)
    BY <1>1, <1>3, <1>s, <2>2, SavedBusType DEF Call
  <2>4. Len(stops) = Len(call.deq_stops)
    BY <2>1, <2>3
  <2> QED BY <2>1, <2>3, <2>4
<1>5. LoadingBuses'
  <2>1. /\ all_buses_ \in Seq(Bus) /\ Len(all_buses_) = loaded
        /\ DOMAIN all_buses_ = 1 .. loaded
    BY <1>1 DEF CatalogueInv, IndInv, IInv, TypeOK, LoadingBuses
  <2>2. /\ DOMAIN all_buses_' = DOMAIN all_buses_
        /\ all_buses_'[loaded] = [all_buses_[loaded] EXCEPT !.stops = stops]
        /\ all_buses_'[loaded].stops = stops
        /\ \A i \in DOMAIN all_buses_ : i # loaded => all_buses_'[i] = all_buses_[i]
    BY <1>1, <1>4, <2>1, EndAddBusKeeps DEF CatalogueInv, IndInv
  <2>3. /\ all_buses_'[loaded].name = all_buses_[loaded].name
        /\ all_buses_'[loaded].is_loop_trip = all_buses_[loaded].is_loop_trip
    BY <2>2
  <2>4. Len(all_buses_') = loaded
    <3>1. all_buses_' \in Seq(Bus)
      BY <1>2 DEF CatalogueInv, IndInv, IInv, TypeOK
    <3> QED BY <1>1, <2>1, <2>2, <3>1
  <2>5. SavedBuses' = SavedBuses /\ SavedStops' = SavedStops
    BY <1>1, MessageStays
  <2>6. \A i \in DOMAIN all_buses_' :
          /\ all_buses_'[i].name = SavedBuses[i].name
          /\ all_buses_'[i].is_loop_trip = SavedBuses[i].is_loop_trip
          /\ all_buses_'[i].stops = SavedBuses[i].stops
    <3> SUFFICES ASSUME NEW i \in DOMAIN all_buses_
                 PROVE  /\ all_buses_'[i].name = SavedBuses[i].name
                        /\ all_buses_'[i].is_loop_trip = SavedBuses[i].is_loop_trip
                        /\ all_buses_'[i].stops = SavedBuses[i].stops
      BY <2>2
    <3>1. CASE i = loaded
      BY <1>1, <1>s, <2>2, <2>3, <3>1 DEF LoadingBuses
    <3>2. CASE i # loaded
      BY <1>1, <2>2, <3>2 DEF LoadingBuses
    <3> QED BY <3>1, <3>2
  <2> QED BY <1>1, <1>3, <2>4, <2>5, <2>6 DEF LoadingBuses
<1>6. StopsLoaded' /\ NoLengthYet' /\ MessageIsCatalogue'
  BY <1>1, <1>3, MessageStays DEF StopsLoaded, NoLengthYet, StopVars
<1> QED BY <1>1, <1>2, <1>5, <1>6 DEF ReloadInv

LEMMA LoadLenghtKeeps ==
  ASSUME ReloadInv, NEW distance \in pending, LoadLenght(distance)
  PROVE  ReloadInv'
<1>1. /\ CatalogueInv /\ stage = "lengths" /\ stage' = "lengths"
      /\ loaded \in Nat /\ loaded' = loaded
      /\ MessageIsCatalogue /\ StopsLoaded /\ BusesLoaded /\ LoadingLengths
      /\ pending' = pending \ {distance} /\ UNCHANGED <<proto, original>>
  BY DEF ReloadInv, LoadLenght
<1>2. PICK pair \in DOMAIN SavedLengths : distance = Distance(pair)
  BY <1>1 DEF LoadingLengths, Distances
<1>f. PICK first : first = SavedStops[pair[1]].name
  OBVIOUS
<1>t. PICK second : second = SavedStops[pair[2]].name
  OBVIOUS
<1>3. /\ pair = <<pair[1], pair[2]>>
      /\ pair[1] \in DOMAIN SavedStops /\ pair[2] \in DOMAIN SavedStops
      /\ SavedLengths[pair] \in Lengths
  BY <1>1 DEF MessageIsCatalogue
<1>4. /\ first \in StopNames /\ second \in StopNames
      /\ first \in DOMAIN stops_ /\ second \in DOMAIN stops_
      /\ stops_[first] = pair[1] /\ stops_[second] = pair[2]
  <2>1. IsStopIndex(SavedStopIndex, SavedStops) /\ stops_ = SavedStopIndex
    BY <1>1 DEF MessageIsCatalogue, StopsLoaded
  <2>2. SavedStops[pair[1]] \in Stop /\ SavedStops[pair[2]] \in Stop
    BY <1>3, <2>1 DEF IsStopIndex
  <2> QED BY <1>3, <1>f, <1>t, <2>1, <2>2 DEF IsStopIndex, Stop
<1>5. AddLenghtBetweenStops(first, second, SavedLengths[pair])
  BY <1>1, <1>2, <1>f, <1>t DEF LoadLenght, Distance, MessageIsCatalogue
<1>6. CatalogueInv'
  BY <1>1, <1>3, <1>4, <1>5, OperationsKeep
<1>7. /\ UNCHANGED StopVars
      /\ length_between_stops_' = Insert(length_between_stops_, pair, SavedLengths[pair])
      /\ UNCHANGED <<BusVars, call>>
  <2>1. UNCHANGED StopVars /\ UNCHANGED <<BusVars, call>>
    BY <1>4, <1>5 DEF AddLenghtBetweenStops, EnsureStop
  <2>2. <<stops_'[first], stops_'[second]>> = pair
    BY <1>3, <1>4, <2>1 DEF StopVars
  <2> QED BY <1>5, <2>1, <2>2 DEF AddLenghtBetweenStops
<1>8. pair \notin DOMAIN length_between_stops_
  BY <1>1, <1>2 DEF LoadingLengths
<1>9. /\ DOMAIN length_between_stops_' = DOMAIN length_between_stops_ \cup {pair}
      /\ length_between_stops_'[pair] = SavedLengths[pair]
      /\ \A p \in DOMAIN length_between_stops_ :
            length_between_stops_'[p] = length_between_stops_[p]
  BY <1>7, <1>8 DEF Insert, Assign
<1>10. ASSUME NEW p \in DOMAIN SavedLengths, Distance(p) = distance
       PROVE  p = pair
  <2>1. p = <<p[1], p[2]>>
    BY <1>1 DEF MessageIsCatalogue
  <2>2. p[1] = pair[1] /\ p[2] = pair[2]
    BY <1>2, <1>10 DEF Distance
  <2> QED BY <1>3, <2>1, <2>2
<1>11. LoadingLengths'
  <2>1. /\ SavedLengths' = SavedLengths /\ Distances' = Distances
        /\ \A p : Distance(p)' = Distance(p)
    BY <1>1, MessageStays
  <2>2. DOMAIN length_between_stops_'
          = {p \in DOMAIN SavedLengths : Distance(p) \notin pending \ {distance}}
    BY <1>1, <1>2, <1>9, <1>10 DEF LoadingLengths
  <2> QED BY <1>1, <1>9, <2>1, <2>2 DEF LoadingLengths
<1>12. StopsLoaded' /\ BusesLoaded' /\ MessageIsCatalogue'
  BY <1>1, <1>7, MessageStays DEF StopsLoaded, BusesLoaded, StopVars, BusVars
<1> QED BY <1>1, <1>6, <1>11, <1>12 DEF ReloadInv

(* When the stops of the message are used up the stops are the saved ones, *)
(* and so is their index, of which there is only one; in the same way for  *)
(* the buses, their index and the lists of the buses at each stop.         *)
LEMMA NextListKeeps ==
  ASSUME ReloadInv, NextList
  PROVE  ReloadInv'
<1>1. /\ CatalogueInv /\ call = NoCall /\ loaded \in Nat
      /\ MessageIsCatalogue /\ loaded' = 0
      /\ UNCHANGED <<vars, pending, proto, original>>
  BY DEF ReloadInv, NextList
<1>2. CatalogueInv' /\ MessageIsCatalogue'
  BY <1>1, StutteringKeeps, MessageStays
<1>3. /\ IsStopIndex(stops_, all_stops_)
      /\ all_buses_ \in Seq(Bus) /\ IsBusIndex(buses_, all_buses_)
      /\ IsReverseIndex(buses_in_stop_, all_buses_, stops_)
      /\ length_between_stops_ \in [DOMAIN length_between_stops_ -> Lengths]
  BY <1>1, CatalogueIndexes
<1>4. /\ SavedStops' = SavedStops /\ SavedStopIndex' = SavedStopIndex
      /\ SavedBuses' = SavedBuses /\ SavedBusIndex' = SavedBusIndex
      /\ SavedReverse' = SavedReverse /\ SavedLengths' = SavedLengths
      /\ Distances' = Distances /\ \A p : Distance(p)' = Distance(p)
      /\ Len(proto.stops) = Len(SavedStops) /\ Len(proto.buses) = Len(SavedBuses)
  BY <1>1, MessageStays DEF MessageIsCatalogue
<1>5. CASE stage = "stops" /\ loaded = Len(proto.stops) /\ stage' = "buses"
  <2>1. LoadingStops /\ NoLengthYet
    BY <1>5 DEF ReloadInv
  <2>2. all_stops_ = SavedStops
    <3>1. all_stops_ \in Seq(Stop) /\ SavedStops \in Seq(Stop)
      BY <1>1, <1>3 DEF MessageIsCatalogue, IsStopIndex
    <3>2. Len(all_stops_) = Len(SavedStops) /\ \A i \in DOMAIN all_stops_ : all_stops_[i] = SavedStops[i]
      BY <1>4, <1>5, <2>1 DEF LoadingStops
    <3> QED BY <3>1, <3>2
  <2>3. stops_ = SavedStopIndex
    BY <1>1, <1>3, <2>2, SameStopIndex DEF MessageIsCatalogue
  <2>4. StopsLoaded' /\ NoLengthYet'
    BY <1>1, <1>4, <2>1, <2>2, <2>3 DEF StopsLoaded, NoLengthYet, vars
  <2>5. LoadingBuses'
    <3>1. /\ all_buses_' = << >> /\ Len(<< >>) = 0 /\ DOMAIN << >> = {} /\ call' = NoCall
          /\ Len(SavedBuses) \in Nat
      BY <1>1, <2>1 DEF LoadingStops, vars, MessageIsCatalogue
    <3> QED BY <1>1, <1>4, <3>1 DEF LoadingBuses
  <2> QED BY <1>1, <1>2, <1>5, <2>4, <2>5 DEF ReloadInv
<1>6. CASE stage = "buses" /\ loaded = Len(proto.buses) /\ stage' = "lengths"
  <2>1. LoadingBuses /\ NoLengthYet /\ StopsLoaded
    BY <1>6 DEF ReloadInv
  <2>2. all_buses_ = SavedBuses
    <3>1. all_buses_ \in Seq(Bus) /\ SavedBuses \in Seq(Bus)
      BY <1>1, <1>3 DEF MessageIsCatalogue
    <3>2. Len(all_buses_) = Len(SavedBuses)
      BY <1>4, <1>6, <2>1 DEF LoadingBuses
    <3>3. ASSUME NEW i \in DOMAIN all_buses_ PROVE all_buses_[i] = SavedBuses[i]
      <4>1. /\ all_buses_[i].name = SavedBuses[i].name
            /\ all_buses_[i].is_loop_trip = SavedBuses[i].is_loop_trip
            /\ all_buses_[i].stops = SavedBuses[i].stops
        BY <1>1, <2>1 DEF LoadingBuses
      <4>2. all_buses_[i] \in Bus /\ SavedBuses[i] \in Bus
        BY <3>1, <3>2
      <4> QED BY <4>1, <4>2 DEF Bus
    <3> QED BY <3>1, <3>2, <3>3
  <2>3. buses_ = SavedBusIndex
    BY <1>1, <1>3, <2>2, SameBusIndex DEF MessageIsCatalogue
  <2>4. buses_in_stop_ = SavedReverse
    BY <1>1, <1>3, <2>1, <2>2, SameReverseIndex DEF MessageIsCatalogue, StopsLoaded
  <2>5. StopsLoaded' /\ BusesLoaded'
    BY <1>1, <1>4, <2>1, <2>2, <2>3, <2>4 DEF StopsLoaded, BusesLoaded, vars
  <2>6. LoadingLengths'
    <3>1. pending' = Distances /\ DOMAIN length_between_stops_' = {}
      BY <1>1, <2>1 DEF NoLengthYet, vars
    <3>2. \A p \in DOMAIN SavedLengths : Distance(p) \in Distances
      BY DEF Distances
    <3> QED BY <1>4, <3>1, <3>2 DEF LoadingLengths
  <2> QED BY <1>1, <1>2, <1>6, <2>5, <2>6 DEF ReloadInv
<1>7. CASE stage = "lengths" /\ pending = {} /\ stage' = "loaded"
  <2>1. StopsLoaded /\ BusesLoaded /\ LoadingLengths
    BY <1>7 DEF ReloadInv
  <2>2. length_between_stops_ = SavedLengths
    <3>1. DOMAIN length_between_stops_ = DOMAIN SavedLengths
      BY <1>7, <2>1 DEF LoadingLengths
    <3>2. SavedLengths \in [DOMAIN SavedLengths -> Lengths]
      BY <1>1 DEF MessageIsCatalogue
    <3> QED BY <1>3, <2>1, <3>1, <3>2 DEF LoadingLengths
  <2>3. StopsLoaded' /\ BusesLoaded' /\ (length_between_stops_ = SavedLengths)'
    BY <1>1, <1>4, <2>1, <2>2 DEF StopsLoaded, BusesLoaded, vars
  <2> QED BY <1>1, <1>2, <1>7, <2>3 DEF ReloadInv
<1> QED BY <1>5, <1>6, <1>7 DEF NextList

LEMMA ReloadInitHolds == ReloadInit => ReloadInv
BY EmptyCatalogue DEF ReloadInit, ReloadInv

LEMMA ReloadStepKeeps == ReloadInv /\ [ReloadNext]_reloadVars => ReloadInv'
<1>1. ASSUME ReloadInv, Loading PROVE ReloadInv'
  BY <1>1, LoadStopKeeps, LoadBusKeeps, LoadBusStopKeeps, EndLoadBusKeeps, NextListKeeps,
     LoadLenghtKeeps DEF Loading, LoadBusStops
<1>2. ASSUME ReloadInv, UNCHANGED reloadVars PROVE ReloadInv'
  <2>1. UNCHANGED <<vars, progress, proto, original>>
    BY <1>2 DEF reloadVars
  <2>2. CatalogueInv'
    BY <1>2, <2>1, StutteringKeeps DEF ReloadInv
  <2> QED BY <1>2, <2>1, <2>2, MessageStays
          DEF ReloadInv, vars, progress, LoadingStops, NoLengthYet, StopsLoaded,
              LoadingBuses, BusesLoaded, LoadingLengths
<1> QED BY <1>1, <1>2, BuildKeeps, SaveToProtoKeeps DEF ReloadNext

(* The catalogue that is loaded is the one that was saved.                 *)
THEOREM LoadingRestores == ReloadSpec => []LoadedIsSaved
<1>1. ReloadInv => LoadedIsSaved
  BY DEF ReloadInv, LoadedIsSaved, MessageIsCatalogue, StopsLoaded, BusesLoaded, catalogue
<1> QED BY <1>1, ReloadInitHolds, ReloadStepKeeps, PTL DEF ReloadSpec

(* Loading a bus or a length never creates a stop.                         *)
THEOREM LoadingInventsNoStop == ReloadSpec => []NoStopInvented
<1>1. ReloadInv => NoStopInvented
  BY DEF ReloadInv, NoStopInvented, StopsLoaded, SavedStops, SavedStopIndex
<1> QED BY <1>1, ReloadInitHolds, ReloadStepKeeps, PTL DEF ReloadSpec
=============================================================================
