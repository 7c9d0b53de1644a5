---------------------------- MODULE MCBaseLoader ----------------------------
(***************************************************************************)
(* Small documents for BaseLoader: up to three requests in any order, with *)
(* a bus before, after and without its stops, a stop described twice, at   *)
(* the origin and elsewhere, roads to unknown stops and given twice, and   *)
(* each thing that can be wrong.                                           *)
(***************************************************************************)
EXTENDS BaseLoader

CONSTANTS s1, s2, b1, b2, origin, c1, c2

MCStopNames == {s1, s2}
MCBusNames == {b1, b2}
MCCoordinates == {origin, c1, c2}
MCStopLists == {<< >>, <<s1, s2>>, <<s2, s1, s1>>}
MCLengths == 0 .. 3

Road(from, to, lenght) == [from |-> from, to |-> to, lenght |-> lenght]

BusRequest(name, stops, loop, flawed) ==
  [type |-> "Bus", name |-> name, stops |-> stops, is_roundtrip |-> loop,
   coordinates |-> origin, road_distances |-> << >>, flawed |-> flawed]

StopRequest(name, coordinates, roads_, flawed) ==
  [type |-> "Stop", name |-> name, stops |-> << >>, is_roundtrip |-> FALSE,
   coordinates |-> coordinates, road_distances |-> roads_, flawed |-> flawed]

Other(type) == [BusRequest(b1, << >>, FALSE, FALSE) EXCEPT !.type = type]

MCRequests ==
  {BusRequest(b, stops, FALSE, FALSE) : b \in MCBusNames, stops \in MCStopLists}
    \cup {BusRequest(b1, <<s1, s2>>, TRUE, TRUE), Other("Tram"), Other(NoType)}
    \cup {StopRequest(s1, c, roads_, FALSE) :
            c \in MCCoordinates,
            roads_ \in {<< >>, <<Road(s1, s2, 1)>>, <<Road(s1, s1, 0), Road(s1, s2, -2)>>}}
    \cup {StopRequest(s2, c, roads_, FALSE) :
            c \in {origin, c1}, roads_ \in {<< >>, <<Road(s2, s1, 3)>>}}
    \cup {StopRequest(s1, c2, <<Road(s1, s2, NotAnInt)>>, FALSE),
          StopRequest(s2, c2, << >>, TRUE)}

MCDocuments ==
  {[base_requests |-> r, missing |-> "nothing"] :
      r \in UNION {[1 .. n -> MCRequests] : n \in 0 .. 3}}
  \cup
  {[base_requests |-> <<q, r>>, missing |-> m] :
      q, r \in MCRequests, m \in {"serialization_settings", "base_requests",
                                  "routing_settings", "render_settings"}}
=============================================================================
