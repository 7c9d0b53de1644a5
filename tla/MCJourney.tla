----------------------------- MODULE MCJourney -----------------------------
(***************************************************************************)
(* Small catalogues for Journey: three stops, and one, two or three buses  *)
(* whose routes meet, so that journeys with and without a change compete.  *)
(* Every road the buses use has a length, except in some catalogues, whose *)
(* construction throws.                                                    *)
(***************************************************************************)
EXTENDS Journey

Loop(name, stops) == [name |-> name, stops |-> stops, is_loop_trip |-> TRUE]
Line(name, stops) == [name |-> name, stops |-> stops, is_loop_trip |-> FALSE]

BusLists ==
  UNION {{<<Loop(n, <<1, 2, 3>>), Line(m, <<1, 3>>)>>,
          <<Line(n, <<1, 2, 3>>), Loop(m, <<1, 3, 1>>)>>,
          <<Loop(n, <<1, 2>>), Loop(n, <<2, 3>>), Loop(m, <<1, 3>>)>>,
          <<Line(n, <<1, 2, 1, 3>>)>>,
          <<Line(n, <<2, 2, 3>>), Loop(m, <<3, 1>>)>>,
          <<Loop(m, <<1, 2, 3, 1>>), Loop(m, <<1, 2>>)>>} : n, m \in BusNames}
Pairs == {<<1, 2>>, <<2, 3>>, <<3, 1>>, <<1, 3>>, <<2, 2>>}
LengthMaps ==
  UNION {[given -> {0, 1, 4}] : given \in {Pairs, Pairs \ {<<1, 3>>}, {<<1, 2>>}}}

MCInit ==
  /\ all_buses_ \in BusLists
  /\ length_between_stops_ \in LengthMaps
  /\ JourneyInit

MCSpec == MCInit /\ [][JourneyNext]_allVars
=============================================================================
