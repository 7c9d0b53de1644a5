----------------------------- MODULE MapRender -----------------------------
(***************************************************************************)
(* The map: RequestHandler::RenderMap of request_handler.cpp with the      *)
(* objects of map_renderer.{h,cpp}, in the order they are added to the     *)
(* svg::Document, which is the order they are painted in.                  *)
(*                                                                         *)
(* It is drawn with the settings that module Settings brings from the     *)
(* document into process_requests, and printed by Document::Render.        *)
(*                                                                         *)
(* Buses and stops are numbers, ordered as their names are.  Places are    *)
(* pairs of integers, longitude first; a projected point is a pair of      *)
(* fractions of the denominator of the zoom.  Widths of lines, radii and   *)
(* fonts are left out.                                                     *)
(***************************************************************************)
EXTENDS Settings, FiniteSets, Svg

CONSTANTS
  Catalogues,   \* [buses, place, name]: GetBuses(), where the stops are, and
                \* the characters of the names of buses and stops
  EPSILON       \* an extent below it counts as none

ASSUME MapRenderAssumption ==
  /\ EPSILON \in Nat \ {0}
  /\ \A catalogue \in Catalogues :
       /\ DOMAIN catalogue.buses \subseteq Nat /\ IsFiniteSet(DOMAIN catalogue.buses)
       /\ DOMAIN catalogue.place \subseteq Nat
       /\ \A n \in DOMAIN catalogue.buses :
            catalogue.buses[n].stops \in Seq(DOMAIN catalogue.place)
       /\ \A s \in DOMAIN catalogue.place : catalogue.place[s] \in Int \X Int
       /\ \A n \in DOMAIN catalogue.buses \cup DOMAIN catalogue.place :
            catalogue.name[n] \in Seq(Nat)

VARIABLES
  db,              \* the catalogue, never changed
  pc,              \* the loop RenderMap is in: "lines", "bus names", "circles",
                   \* "stop names"; then "print" and "done", or "undefined"
  next,            \* place of its loop variable in the set of names
  color_counter,
  result,          \* the objects of the svg::Document
  svg              \* the tags Document::Render prints

mapVars == <<vars, db, pc, next, color_counter, result, svg>>

Width == settings.size_[1]
Height == settings.size_[2]
Padding == settings.size_[3]

Bus(name) == db.buses[name]
FirstStop(name) == Bus(name).stops[1]
LastStop(name) == Bus(name).stops[Len(Bus(name).stops)]

(* The two sets of names RenderMap starts with: the buses that have stops, *)
(* and their stops, each sorted.                                           *)
NamesOfBuses == InOrder({n \in DOMAIN db.buses : Bus(n).stops # << >>})
NamesOfStops == InOrder(UNION {Elements(Bus(n).stops) : n \in DOMAIN db.buses})

-----------------------------------------------------------------------------
Shown == {db.place[s] : s \in Elements(NamesOfStops)}
Lowest(S) == CHOOSE x \in S : \A y \in S : x <= y
Highest(S) == CHOOSE x \in S : \A y \in S : x >= y

MinLon == Lowest({p[1] : p \in Shown})
MaxLat == Highest({p[2] : p \in Shown})
LonExtent == Highest({p[1] : p \in Shown}) - MinLon
LatExtent == MaxLat - Lowest({p[2] : p \in Shown})

IsZero(value) == value < EPSILON

WidthZoom == <<Width - 2 * Padding, LonExtent>>
HeightZoom == <<Height - 2 * Padding, LatExtent>>

(* Mutant of Zoom: the zoom that fills the canvas in one direction.        *)
ZoomLarger ==
  CASE ~IsZero(LonExtent) /\ ~IsZero(LatExtent) ->
         IF WidthZoom[1] * HeightZoom[2] >= HeightZoom[1] * WidthZoom[2]
           THEN WidthZoom ELSE HeightZoom
    [] ~IsZero(LonExtent) /\ IsZero(LatExtent) -> WidthZoom
    [] IsZero(LonExtent) /\ ~IsZero(LatExtent) -> HeightZoom
    [] OTHER -> <<0, 1>>

(* zoom_coeff_ of the SphereProjector, as a fraction: the smaller of the   *)
(* zooms that fit the width and the height; a direction with no extent has *)
(* none, and with neither every point is in the corner.                    *)
Zoom ==
  CASE ~IsZero(LonExtent) /\ ~IsZero(LatExtent) ->
         IF WidthZoom[1] * HeightZoom[2] <= HeightZoom[1] * WidthZoom[2]
           THEN WidthZoom ELSE HeightZoom
    [] ~IsZero(LonExtent) /\ IsZero(LatExtent) -> WidthZoom
    [] IsZero(LonExtent) /\ ~IsZero(LatExtent) -> HeightZoom
    [] OTHER -> <<0, 1>>

(* The coordinates of a stop on the map, times the denominator of Zoom.    *)
Projected(stop) ==
  LET place == db.place[stop] IN
  <<(place[1] - MinLon) * Zoom[1] + Padding * Zoom[2],
    (MaxLat - place[2]) * Zoom[1] + Padding * Zoom[2]>>

-----------------------------------------------------------------------------
Shape(kind, of, points, fill, stroke) ==
  [kind |-> kind, of |-> of, points |-> points, fill |-> fill, stroke |-> stroke,
   label |-> << >>, data |-> << >>]
Text(kind, of, point, fill, stroke, label) ==
  [Shape(kind, of, <<point>>, fill, stroke) EXCEPT
     !.label = label, !.data = SetData(db.name[of])]

Named(color) == Color("str", color, << >>, 0)
PaletteColor ==
  settings.color_palette_[(color_counter % Len(settings.color_palette_)) + 1]

(* A bus that is no loop is drawn there and back again.                    *)
RenderWay(name) ==
  LET stops == Bus(name).stops
      way == IF Bus(name).is_loop_trip THEN stops ELSE stops \o Tail(Reverse(stops))
  IN <<Shape("line", name, [i \in DOMAIN way |-> Projected(way[i])],
             Named("none"), PaletteColor)>>

RenderNameBus(name, stop) ==
  LET At(kind, fill, stroke) ==
        Text(kind, name, Projected(stop), fill, stroke, settings.bus_label_)
  IN <<At("bus background", settings.underlayer_color_, settings.underlayer_color_),
       At("bus title", PaletteColor, Monostate)>>

RenderStop(stop) ==
  <<Shape("circle", stop, <<Projected(stop)>>, Named("white"), Monostate)>>

RenderNameStop(stop) ==
  LET At(kind, fill, stroke) ==
        Text(kind, stop, Projected(stop), fill, stroke, settings.stop_label_)
  IN <<At("stop background", settings.underlayer_color_, settings.underlayer_color_),
       At("stop title", Named("black"), Monostate)>>

(* A loop, and a bus that ends where it began, has its name there once.    *)
RenderNamesOfBus(name) ==
  IF Bus(name).is_loop_trip \/ FirstStop(name) = LastStop(name)
    THEN RenderNameBus(name, FirstStop(name))
    ELSE RenderNameBus(name, FirstStop(name)) \o RenderNameBus(name, LastStop(name))

-----------------------------------------------------------------------------
MapInit ==
  /\ Init /\ db \in Catalogues
  /\ pc = "lines" /\ next = 1 /\ color_counter = 0
  /\ result = << >> /\ svg = << >>

In(loop) == stage = "loaded" /\ pc = loop

Add(objects) ==
  /\ result' = result \o objects /\ next' = next + 1
  /\ UNCHANGED <<vars, db, pc, svg>>

(* The remainder by the size of an empty palette.                          *)
NoPalette ==
  /\ In("lines") /\ next <= Len(NamesOfBuses) /\ settings.color_palette_ = << >>
  /\ pc' = "undefined"
  /\ UNCHANGED <<vars, db, next, color_counter, result, svg>>

AddLine ==
  /\ In("lines") /\ next <= Len(NamesOfBuses) /\ settings.color_palette_ # << >>
  /\ Add(RenderWay(NamesOfBuses[next]))
  /\ color_counter' = color_counter + 1

AddBusNames ==
  /\ In("bus names") /\ next <= Len(NamesOfBuses)
  /\ Add(RenderNamesOfBus(NamesOfBuses[next]))
  /\ color_counter' = color_counter + 1

AddCircle ==
  /\ In("circles") /\ next <= Len(NamesOfStops)
  /\ Add(RenderStop(NamesOfStops[next]))
  /\ UNCHANGED color_counter

AddStopName ==
  /\ In("stop names") /\ next <= Len(NamesOfStops)
  /\ Add(RenderNameStop(NamesOfStops[next]))
  /\ UNCHANGED color_counter

Names == IF pc \in {"lines", "bus names"} THEN NamesOfBuses ELSE NamesOfStops
LoopAfter(loop) ==
  CASE loop = "lines" -> "bus names"
    [] loop = "bus names" -> "circles"
    [] loop = "circles" -> "stop names"
    [] loop = "stop names" -> "print"

LoopEnds ==
  /\ pc \in {"lines", "bus names", "circles", "stop names"} /\ In(pc) /\ next > Len(Names)
  /\ pc' = LoopAfter(pc) /\ next' = 1

(* Mutant of NextLoop: the colours go on where the lines left off.         *)
NextLoopKeepingColor ==
  /\ LoopEnds
  /\ UNCHANGED <<vars, db, color_counter, result, svg>>

(* The colours start again for the names of the buses.                     *)
NextLoop ==
  /\ LoopEnds
  /\ color_counter' = IF pc = "lines" THEN 0 ELSE color_counter
  /\ UNCHANGED <<vars, db, result, svg>>

(* Document::Render, for the response and for the file map.svg.            *)
Render ==
  /\ In("print")
  /\ svg' = [i \in DOMAIN result |-> RenderObject(result[i], Monostate)]
  /\ pc' = "done"
  /\ UNCHANGED <<vars, db, next, color_counter, result>>

MapNext ==
  \/ Next /\ UNCHANGED <<db, pc, next, color_counter, result, svg>>
  \/ NoPalette \/ AddLine \/ AddBusNames \/ AddCircle \/ AddStopName \/ NextLoop
  \/ Render

MapSpec == MapInit /\ [][MapNext]_mapVars

-----------------------------------------------------------------------------
Layer(kind) ==
  CASE kind = "line" -> 1
    [] kind \in {"bus background", "bus title"} -> 2
    [] kind = "circle" -> 3
    [] kind \in {"stop background", "stop title"} -> 4

Titles == {i \in DOMAIN svg : svg[i].kind \in {"bus title", "stop title"}}
Of(kind, name) == {i \in DOMAIN svg : svg[i].kind = kind /\ svg[i].of = name}

(* A stop lies on a bus's line, so nothing may be painted over a name that *)
(* belongs above: lines, then names of buses, circles, names of stops.     *)
PaintedInLayers ==
  \A i, j \in DOMAIN svg : i < j => Layer(svg[i].kind) <= Layer(svg[j].kind)

(* A title is painted right over the same text in the underlayer colour,   *)
(* at the offset and in the size the document gives to its kind.           *)
TitlesOverBackgrounds ==
  \A i \in Titles :
    LET under == svg[i - 1]
        offset == IF svg[i].kind = "bus title" THEN document.bus_label_offset
                                               ELSE document.stop_label_offset
    IN /\ i > 1 /\ under.of = svg[i].of /\ under.kind # svg[i].kind
       /\ under.points = svg[i].points /\ under.data = svg[i].data
       /\ under.label = svg[i].label
       /\ \A a \in {"fill", "stroke"} :
            IsColor(under.attributes[a], document.underlayer_color)
       /\ svg[i].label.offset_ = SubSeq(offset, 1, 2)

(* Two loops count colours, but both give the n-th bus by its name the     *)
(* colour at place n of the document's palette, round and round: to its    *)
(* line and to its titles.                                                 *)
ColorsAgree ==
  \A n \in DOMAIN NamesOfBuses :
    LET palette == document.color_palette
        color == palette[((n - 1) % Len(palette)) + 1]
    IN /\ \A i \in Of("line", NamesOfBuses[n]) : IsColor(svg[i].attributes["stroke"], color)
       /\ \A i \in Of("bus title", NamesOfBuses[n]) : IsColor(svg[i].attributes["fill"], color)

(* The names between the tags are read as the names of the catalogue,      *)
(* except one that begins with & or <.                                     *)
NamesAreShown ==
  \A i \in Titles :
    LET name == db.name[svg[i].of] IN
    (name # << >> /\ name[1] \in {Ampersand, LessThan}) \/ Shows(svg[i].data, name)

(* The finished map shows the network: each bus that has stops has one     *)
(* line and its name where it begins and, unless it comes back there, ends;*)
(* each stop a bus comes to has one circle and one name; nothing else.  All*)
(* of it in the colours and the order it is meant to have.                 *)
MapShowsNetwork ==
  /\ PaintedInLayers /\ TitlesOverBackgrounds /\ ColorsAgree
  /\ pc = "done" =>
       /\ \A n \in DOMAIN db.buses :
            LET stops == Bus(n).stops
                titles == IF stops = << >> THEN 0
                          ELSE IF Bus(n).is_loop_trip THEN 1
                          ELSE Cardinality({FirstStop(n), LastStop(n)})
            IN /\ Cardinality(Of("line", n)) = IF stops = << >> THEN 0 ELSE 1
               /\ Cardinality(Of("bus title", n)) = titles
       /\ \A s \in DOMAIN db.place :
            LET served == \E n \in DOMAIN db.buses : s \in Elements(Bus(n).stops) IN
            \A kind \in {"circle", "stop title"} :
              Cardinality(Of(kind, s)) = IF served THEN 1 ELSE 0

(* Whatever the places of the stops, in a row or all in one spot, every    *)
(* point drawn is on the canvas, within the padding.  The padding must     *)
(* leave room; and an extent that is not zero but counts as zero is not    *)
(* looked at when the zoom is chosen, so the other one must be as small.   *)
EverythingOnCanvas ==
  \A i \in DOMAIN result : \A k \in DOMAIN result[i].points :
    LET point == result[i].points[k]
        room == 2 * Padding < Width /\ 2 * Padding < Height
        extents == {LonExtent, LatExtent}
        clear == \/ \A extent \in extents : IsZero(extent)
                 \/ \A extent \in extents : IsZero(extent) => extent = 0
    IN (room /\ clear) =>
         /\ Padding * Zoom[2] <= point[1] /\ point[1] <= (Width - Padding) * Zoom[2]
         /\ Padding * Zoom[2] <= point[2] /\ point[2] <= (Height - Padding) * Zoom[2]

(* "Sets the text of the object (displayed inside the tag text)", says the *)
(* comment on Text::SetData, of any text.                                  *)
TextShownIsTextSet == \A i \in Titles : Shows(svg[i].data, db.name[svg[i].of])
=============================================================================
