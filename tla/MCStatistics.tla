---------------------------- MODULE MCStatistics ----------------------------
(***************************************************************************)
(* Small catalogues for Statistics: three stops and up to two buses, of    *)
(* one name and of two, whose routes come through a stop twice, stand      *)
(* still, have one stop or none; lengths given in one direction, in both   *)
(* with two values, or not at all.  An int of four bits overflows on some. *)
(* Stop 3 may be at the spot of stop 1 or far from it; the distance of two *)
(* stops at one spot is zero, a little more, or not a number.              *)
(***************************************************************************)
EXTENDS Statistics

Routes == {<< >>, <<1>>, <<1, 1>>, <<1, 2, 3>>, <<3, 1, 3>>, <<2, 1, 1>>}
Buses == [name : BusNames, stops : Routes, is_loop_trip : BOOLEAN]
Pairs == {<<1, 1>>, <<1, 2>>, <<2, 1>>, <<2, 3>>, <<3, 1>>}
LengthMaps ==
  UNION {[given -> {1, 3}] : given \in {Pairs, Pairs \ {<<1, 1>>},
                                        {<<1, 2>>, <<2, 3>>, <<3, 1>>}, {<<1, 2>>, <<2, 3>>},
                                        {<<1, 2>>, <<2, 1>>, <<3, 1>>}, {<<1, 1>>}, {}}}

Apart(third) ==
  [pair \in Stop \X Stop |->
     CASE pair[1] = pair[2] -> 0 [] {1, 3} = {pair[1], pair[2]} -> third [] OTHER -> 5]
OneSpot(near) ==
  [pair \in Stop \X Stop |->
     IF pair[1] = pair[2] \/ {1, 3} = {pair[1], pair[2]} THEN near ELSE 5]
MCDistances == {Apart(2), OneSpot(0), OneSpot(1), OneSpot(NaN)}

MCInit ==
  /\ all_buses_ \in {<<b>> : b \in Buses} \cup
       {<<b, c>> : b \in Buses, c \in {d \in Buses : d.stops \in {<<1, 2, 3>>, <<2, 1, 1>>}}}
  /\ length_between_stops_ \in LengthMaps
  /\ StatInit

MCSpec == MCInit /\ [][StatNext]_statVars
=============================================================================
