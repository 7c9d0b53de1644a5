---------------------------- MODULE MCMapRender ----------------------------
(***************************************************************************)
(* Settings with colours of every kind, numbers on both sides of the       *)
(* widths of their types, and arrays that are too short, for a small map;  *)
(* and three palettes for the maps of up to three buses of up to three     *)
(* stops: loops, ways that come back to where they began, one stop, none;  *)
(* stops in a triangle, in a row either way, nearly so, and all in one     *)
(* spot, and one that no bus comes to; and for one bus of any name of up   *)
(* to three characters that mean something to XML.                         *)
(***************************************************************************)
EXTENDS MapRender

ByName(name) == [name |-> name, array |-> << >>]
ByNumbers(array) == [name |-> "", array |-> array]

Colors == {ByName("red"), ByNumbers(<<0, 16, 255>>), ByNumbers(<<256, -1, 7>>),
           ByNumbers(<<1, 2, 3, 0>>), ByNumbers(<<1, 2>>), ByNumbers(<<9, 8, 7, 6, 5>>)}

MCDocuments ==
  [width : {20, NoKey}, height : {16}, padding : {3},
   line_width : {14}, stop_radius : {5},
   bus_label_font_size : {20}, bus_label_offset : {<<7, 15>>, <<1>>},
   stop_label_font_size : {18}, stop_label_offset : {<<7, -3>>, <<7, -3, 4>>, << >>},
   underlayer_color : Colors, underlayer_width : {3},
   color_palette : {<< >>} \cup [1 .. 1 -> Colors] \cup [1 .. 2 -> Colors],
   bus_wait_time : {0, 6, 65536, -1}, bus_velocity : {40, 65576, NoKey}]

IsPlain(doc) ==
  /\ doc.width = 20 /\ doc.bus_label_offset = <<7, 15>> /\ doc.stop_label_offset = <<7, -3>>
  /\ doc.bus_wait_time = 6 /\ doc.bus_velocity = 40
  /\ doc.underlayer_color = ByNumbers(<<1, 2, 3, 0>>)
  /\ doc.color_palette \in {<< >>, <<ByName("red")>>, <<ByName("red"), ByNumbers(<<0, 16, 255>>)>>}

Ways == {<< >>, <<1>>, <<1, 2>>, <<2, 3, 2>>, <<1, 3, 2>>}
BusRecords == [stops : Ways, is_loop_trip : BOOLEAN]

Places == {<<<<0, 0>>, <<3, 1>>, <<1, 4>>, <<9, 9>>>>, <<<<0, 0>>, <<5, 2>>, <<2, 1>>, <<9, 9>>>>,
           <<<<2, 0>>, <<2, 3>>, <<2, 1>>, <<9, 9>>>>, <<<<0, 2>>, <<3, 2>>, <<1, 2>>, <<9, 9>>>>,
           <<<<2, 2>>, <<3, 2>>, <<2, 3>>, <<9, 9>>>>, <<<<2, 2>>, <<6, 2>>, <<4, 3>>, <<9, 9>>>>}

(* The names of the stops 1 .. 4 and the buses 11 .. 13.                   *)
Names1 == (1 :> <<97, 38>>) @@ (2 :> <<98>>) @@ (3 :> <<99, 60>>) @@ (4 :> <<100>>)
            @@ (11 :> << >>) @@ (12 :> <<49>>) @@ (13 :> <<50, 62, 50>>)

Chars == {Ampersand, QuoteMark, LessThan, 97}
NamesOf11 == UNION {[1 .. n -> Chars] : n \in 0 .. 3}

OneBus(stops) == 11 :> [stops |-> stops, is_loop_trip |-> FALSE]
Place1 == <<<<0, 0>>, <<3, 1>>, <<1, 4>>, <<9, 9>>>>

Small == [buses |-> OneBus(<<1, 2>>), place |-> Place1, name |-> Names1]

MCCatalogues ==
  [buses : [11 .. 12 -> BusRecords], place : Places, name : {Names1}]
    \cup [buses : [11 .. 13 -> [stops : {<<1, 2>>, << >>}, is_loop_trip : BOOLEAN]],
          place : Places, name : {Names1}]
    \cup [buses : {OneBus(<<1>>)}, place : {Place1},
          name : {(11 :> name) @@ Names1 : name \in NamesOf11}]
    \cup {Small}

MCInit ==
  /\ \/ document \in MCDocuments /\ db = Small
     \/ document \in {doc \in MCDocuments : IsPlain(doc)} /\ db \in MCCatalogues
  /\ MapInit

MCSpec == MCInit /\ [][MapNext]_mapVars
=============================================================================
