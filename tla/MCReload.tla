------------------------------ MODULE MCReload ------------------------------
(***************************************************************************)
(* A small instance of Reload: two stops that can be at the origin or      *)
(* elsewhere, up to two buses, of one name or of two, up to two lengths.   *)
(***************************************************************************)
EXTENDS Reload

CONSTANTS s1, s2, b1, b2, origin, c1

MCStopNames == {s1, s2}
MCBusNames == {b1, b2}
MCCoordinates == {origin, c1}
MCStopLists == {<< >>, <<s1>>, <<s1, s2>>, <<s2, s1, s2>>, <<s2, s2>>}
MCLengths == {1, 2}
=============================================================================
