----------------------------- MODULE MapProofs -----------------------------
(***************************************************************************)
(* Theorems about Settings and MapRender, for every document and every     *)
(* catalogue: the settings a map is drawn with are those the document      *)
(* gives, every point of the map is on its canvas, and the finished map    *)
(* shows the network, each bus and each stop as often as it must, under    *)
(* its name.  What is proved of texts serves for the strings of JSON, in   *)
(* which the map is printed, as well.                                      *)
(***************************************************************************)
EXTENDS MapRender, JsonStrings, FiniteSetTheorems, SequenceTheorems, WellFoundedInduction, TLAPS

-----------------------------------------------------------------------------
(* A byte is a byte, and saving it again does not change it.               *)
LEMMA ByteIsByte ==
  ASSUME NEW n \in Int
  PROVE  /\ Byte(n) \in Int /\ Byte(n) \in 0 .. 255
         /\ Byte(Byte(n)) = Byte(n)
         /\ n \in 0 .. 255 => Byte(n) = n
<1>1. Byte(n) \in Int /\ Byte(n) \in 0 .. 255
  BY DEF Byte
<1>2. ASSUME NEW m \in 0 .. 255 PROVE Byte(m) = m
  BY DEF Byte
<1> QED BY <1>1, <1>2

(* The same of two bytes.                                                  *)
LEMMA ShortIsShort ==
  ASSUME NEW n \in Int
  PROVE  /\ Short(n) \in 0 .. USHRT_MAX
         /\ n \in 0 .. USHRT_MAX => Short(n) = n
         /\ Short(Short(n)) = Short(n)
<1>1. USHRT_MAX \in Nat
  BY DEF USHRT_MAX
<1>2. Short(n) \in 0 .. USHRT_MAX
  BY <1>1 DEF Short
<1>3. ASSUME NEW m \in 0 .. USHRT_MAX PROVE Short(m) = m
  BY <1>1 DEF Short
<1> QED BY <1>2, <1>3

(* Two bytes of an integer are what it is cast to.                         *)
LEMMA ShortIsCast ==
  ASSUME NEW n \in Int
  PROVE  IsCast(Short(n), n)
<1>1. (Short(n) - n) % (USHRT_MAX + 1) = 0
  BY DEF Short, USHRT_MAX
<1> QED BY <1>1, ShortIsShort DEF IsCast

(* The parts of a colour.                                                  *)
LEMMA ColorFields ==
  ASSUME NEW kind, NEW name, NEW rgb, NEW opacity
  PROVE  /\ Color(kind, name, rgb, opacity).kind = kind
         /\ Color(kind, name, rgb, opacity).name = name
         /\ Color(kind, name, rgb, opacity).rgb = rgb
         /\ Color(kind, name, rgb, opacity).opacity = opacity
BY DEF Color

LEMMA RgbFields ==
  ASSUME NEW a
  PROVE  Rgb(a).kind = "rgb" /\ Rgb(a).rgb = <<Byte(a[1]), Byte(a[2]), Byte(a[3])>>
<1>1. PICK e : e = ""
  BY Zenon
<1>2. Rgb(a) = Color("rgb", e, <<Byte(a[1]), Byte(a[2]), Byte(a[3])>>, 0)
  BY <1>1, Zenon DEF Rgb
<1> QED BY <1>2, ColorFields

LEMMA RgbaFields ==
  ASSUME NEW a
  PROVE  /\ Rgba(a).kind = "rgba" /\ Rgba(a).rgb = <<Byte(a[1]), Byte(a[2]), Byte(a[3])>>
         /\ Rgba(a).opacity = a[4]
<1>1. PICK e : e = ""
  BY Zenon
<1>2. Rgba(a) = Color("rgba", e, <<Byte(a[1]), Byte(a[2]), Byte(a[3])>>, a[4])
  BY <1>1, Zenon DEF Rgba
<1> QED BY <1>2, ColorFields

(* A colour is three numbers, or four, by its numbers.                     *)
LEMMA SameNumbers ==
  ASSUME NEW a, NEW b
  PROVE  /\ (Byte(a[1]) = Byte(b[1]) /\ Byte(a[2]) = Byte(b[2]) /\ Byte(a[3]) = Byte(b[3]))
              => Rgb(a) = Rgb(b)
         /\ (/\ Byte(a[1]) = Byte(b[1]) /\ Byte(a[2]) = Byte(b[2])
             /\ Byte(a[3]) = Byte(b[3]) /\ a[4] = b[4]) => Rgba(a) = Rgba(b)
BY Zenon DEF Rgb, Rgba

Nameless(json) == json.name = ""

(* An array that is not too short, and what it must be read as.            *)
LEMMA NotShort ==
  ASSUME NEW json, Nameless(json), ~IsShort(json)
  PROVE  ~(Len(json.array) < 3)
BY Zenon DEF Nameless, IsShort

LEMMA IsColorOfName ==
  ASSUME NEW json, NEW color, json.name # "", color.kind = "str", color.name = json.name
  PROVE  IsColor(color, json)
BY Zenon DEF IsColor

LEMMA IsColorOfNumbers ==
  ASSUME NEW json, NEW color, Nameless(json),
         Len(json.array) = 4 => color.kind = "rgba" /\ color.opacity = json.array[4],
         Len(json.array) # 4 => color.kind = "rgb",
         \A i \in 1 .. 3 : /\ color.rgb[i] \in 0 .. 255
                           /\ json.array[i] \in 0 .. 255 => color.rgb[i] = json.array[i]
  PROVE  IsColor(color, json)
<1> DEFINE kind == IF Len(json.array) = 4 THEN "rgba" ELSE "rgb"
<1>1. color.kind = kind
  BY Zenon
<1>2. Len(json.array) = 4 => color.opacity = json.array[4]
  BY Zenon
<1> QED BY <1>1, <1>2, Zenon DEF Nameless, IsColor

LEMMA BytesAreNumbers ==
  \A n, x : n \in Int /\ x = Byte(n) => x \in 0 .. 255 /\ (n \in 0 .. 255 => x = n)
BY ByteIsByte

(* What a colour of the document may be read as.                           *)
ReadAs(color, json) ==
  \/ json.name # "" /\ color = Color("str", json.name, << >>, 0)
  \/ Nameless(json) /\ Len(json.array) = 4 /\ color = Rgba(json.array)
  \/ Nameless(json) /\ Len(json.array) # 4 /\ color = Rgb(json.array)

LEMMA ReaderColorReads ==
  ASSUME NEW json \in JsonColor
  PROVE  ReadAs(ReaderColor(json), json)
<1>1. CASE json.name # ""
  <2>1. ReaderColor(json) = Color("str", json.name, << >>, 0)
    BY <1>1, Zenon DEF ReaderColor
  <2> QED BY <1>1, <2>1, Zenon DEF ReadAs
<1>2. CASE json.name = "" /\ Len(json.array) = 4
  <2>1. ReaderColor(json) = Rgba(json.array)
    BY <1>2, Zenon DEF ReaderColor
  <2> QED BY <1>2, <2>1, Zenon DEF ReadAs, Nameless
<1>3. CASE json.name = "" /\ Len(json.array) # 4
  <2>1. ReaderColor(json) = Rgb(json.array)
    BY <1>3, Zenon DEF ReaderColor
  <2> QED BY <1>3, <2>1, Zenon DEF ReadAs, Nameless
<1> QED BY <1>1, <1>2, <1>3, Zenon

(* Strings of kinds and numbers of fields, told apart.                     *)
LEMMA KindsDiffer ==
  /\ "str" # "monostate" /\ "rgb" # "monostate" /\ "rgba" # "monostate"
  /\ "rgb" # "str" /\ "rgba" # "str" /\ "rgba" # "rgb"
  /\ 3 # 2 /\ 4 # 2 /\ 4 # 3
OBVIOUS

(* A colour with a name is stored and loaded as that name.                 *)
LEMMA NameSurvives ==
  ASSUME NEW n, NEW color, color = Color("str", n, << >>, 0)
  PROVE  SetSvgColor(SetProtoColor(color)) = color
<1>1. color.kind = "str" /\ color.name = n
  BY DEF Color
<1>2. SetProtoColor(color) = Variant(2, color)
  BY <1>1, KindsDiffer, Zenon DEF SetProtoColor
<1> DEFINE m == Variant(2, color)
<1>3. m.field = 2 /\ m.name = n
  BY <1>1 DEF Variant
<1>4. SetSvgColor(m) = Color("str", m.name, << >>, 0)
  <2> HIDE DEF m
  <2> QED BY <1>3, KindsDiffer, Zenon DEF SetSvgColor
<1> QED BY <1>2, <1>3, <1>4

(* The first numbers of a list of integers are integers.                   *)
LEMMA ThreeNumbers ==
  ASSUME NEW a \in Seq(Int), Len(a) >= 3
  PROVE  a[1] \in Int /\ a[2] \in Int /\ a[3] \in Int
<1>1. \A i \in 1 .. Len(a) : a[i] \in Int
  BY ElementOfSeq
<1>2. Len(a) \in Nat
  OBVIOUS
<1>3. 1 \in 1 .. Len(a) /\ 2 \in 1 .. Len(a) /\ 3 \in 1 .. Len(a)
  BY <1>2
<1> QED BY <1>1, <1>3, Zenon

LEMMA FourNumbers ==
  ASSUME NEW a \in Seq(Int), Len(a) = 4
  PROVE  a[1] \in Int /\ a[2] \in Int /\ a[3] \in Int /\ a[4] \in Int
<1>1. \A i \in 1 .. Len(a) : a[i] \in Int
  BY ElementOfSeq
<1>2. /\ 1 \in 1 .. Len(a) /\ 2 \in 1 .. Len(a)
      /\ 3 \in 1 .. Len(a) /\ 4 \in 1 .. Len(a)
  OBVIOUS
<1> QED BY <1>1, <1>2, Zenon

(* Three numbers, each in a byte, come back as they were stored.           *)
LEMMA NumbersSurvive ==
  ASSUME NEW a \in Seq(Int), Len(a) >= 3, NEW color, color = Rgb(a)
  PROVE  SetSvgColor(SetProtoColor(color)) = color
<1>1. color.kind = "rgb" /\ color.rgb = <<Byte(a[1]), Byte(a[2]), Byte(a[3])>>
  BY RgbFields
<1>2. SetProtoColor(color) = Variant(3, color)
  BY <1>1, KindsDiffer, Zenon DEF SetProtoColor
<1> DEFINE m == Variant(3, color)
<1>3. m.field = 3 /\ m.rgb = color.rgb
  BY <1>1 DEF Variant
<1>4. SetSvgColor(m) = Rgb(m.rgb)
  <2> HIDE DEF m
  <2> QED BY <1>3, KindsDiffer, Zenon DEF SetSvgColor
<1>5. a[1] \in Int /\ a[2] \in Int /\ a[3] \in Int
  BY ThreeNumbers, Zenon
<1>6. /\ Byte(Byte(a[1])) = Byte(a[1]) /\ Byte(Byte(a[2])) = Byte(a[2])
      /\ Byte(Byte(a[3])) = Byte(a[3])
  BY <1>5, ByteIsByte
<1>7. Rgb(color.rgb) = Rgb(a)
  <2> DEFINE b == <<Byte(a[1]), Byte(a[2]), Byte(a[3])>>
  <2>1. b[1] = Byte(a[1]) /\ b[2] = Byte(a[2]) /\ b[3] = Byte(a[3])
    OBVIOUS
  <2>2. Rgb(b) = Rgb(a)
    <3> HIDE DEF b
    <3> QED BY <2>1, <1>6, SameNumbers
  <2> QED BY <1>1, <2>2
<1> QED BY <1>2, <1>3, <1>4, <1>7

(* And with the opacity, which is no byte.                                 *)
LEMMA OpacitySurvives ==
  ASSUME NEW a \in Seq(Int), Len(a) = 4, NEW color, color = Rgba(a)
  PROVE  SetSvgColor(SetProtoColor(color)) = color
<1>1. /\ color.kind = "rgba" /\ color.rgb = <<Byte(a[1]), Byte(a[2]), Byte(a[3])>>
      /\ color.opacity = a[4]
  BY RgbaFields
<1>2. SetProtoColor(color) = Variant(4, color)
  BY <1>1, KindsDiffer, Zenon DEF SetProtoColor
<1> DEFINE m == Variant(4, color)
<1>3. m.field = 4 /\ m.rgb = color.rgb /\ m.opacity = color.opacity
  BY <1>1 DEF Variant
<1>4. SetSvgColor(m) = Rgba(Append(m.rgb, m.opacity))
  <2> HIDE DEF m
  <2> QED BY <1>3, KindsDiffer, Zenon DEF SetSvgColor
<1>5. a[1] \in Int /\ a[2] \in Int /\ a[3] \in Int /\ a[4] \in Int
  BY FourNumbers, Zenon
<1>6. /\ Byte(Byte(a[1])) = Byte(a[1]) /\ Byte(Byte(a[2])) = Byte(a[2])
      /\ Byte(Byte(a[3])) = Byte(a[3])
  BY <1>5, ByteIsByte
<1>7. /\ Byte(a[1]) \in Int /\ Byte(a[2]) \in Int /\ Byte(a[3]) \in Int
  BY <1>5, ByteIsByte
<1>8. Rgba(Append(color.rgb, color.opacity)) = Rgba(a)
  <2>1. PICK b : b = Append(<<Byte(a[1]), Byte(a[2]), Byte(a[3])>>, a[4])
    OBVIOUS
  <2>2. b[1] = Byte(a[1]) /\ b[2] = Byte(a[2]) /\ b[3] = Byte(a[3]) /\ b[4] = a[4]
    BY <1>5, <1>7, <2>1
  <2>3. Rgba(b) = Rgba(a)
    BY <1>6, <2>2, SameNumbers
  <2> QED BY <1>1, <2>1, <2>3, Zenon
<1> QED BY <1>2, <1>3, <1>4, <1>8

(* A colour that is read from the document and not behind the end of its   *)
(* array is loaded as it was read, and means what the document means.      *)
LEMMA ColorSurvives ==
  ASSUME NEW json \in JsonColor, ~IsShort(json)
  PROVE  /\ SetSvgColor(SetProtoColor(ReaderColor(json))) = ReaderColor(json)
         /\ IsColor(ReaderColor(json), json)
<1>0. json.array \in Seq(Int) /\ Len(json.array) \in Nat
  BY DEF JsonColor
<1>1. PICK color : color = ReaderColor(json) /\ ReadAs(color, json)
  BY ReaderColorReads
<1>2. CASE json.name # "" /\ color = Color("str", json.name, << >>, 0)
  <2>1. SetSvgColor(SetProtoColor(color)) = color
    BY <1>2, NameSurvives
  <2>2. IsColor(color, json)
    <3>0. color = Color("str", json.name, << >>, 0)
      BY <1>2, Zenon
    <3>1. color.kind = "str" /\ color.name = json.name
      BY <3>0, ColorFields
    <3> QED BY <1>2, <3>1, IsColorOfName, Zenon
  <2> QED BY <1>1, <2>1, <2>2
<1>3. CASE Nameless(json) /\ Len(json.array) = 4 /\ color = Rgba(json.array)
  <2>1. SetSvgColor(SetProtoColor(color)) = color
    BY <1>0, <1>3, OpacitySurvives
  <2>2. /\ color.kind = "rgba" /\ color.opacity = json.array[4]
        /\ color.rgb = <<Byte(json.array[1]), Byte(json.array[2]), Byte(json.array[3])>>
    BY <1>3, RgbaFields
  <2>3. \A i \in 1 .. 3 : json.array[i] \in Int /\ color.rgb[i] = Byte(json.array[i])
    BY <1>0, <1>3, <2>2
  <2>4. IsColor(color, json)
    <3>1. /\ Nameless(json) /\ Len(json.array) = 4
          /\ color.kind = "rgba" /\ color.opacity = json.array[4]
      BY <1>3, <2>2
    <3>2. ASSUME NEW i \in 1 .. 3
          PROVE  /\ color.rgb[i] \in 0 .. 255
                 /\ json.array[i] \in 0 .. 255 => color.rgb[i] = json.array[i]
      <4>1. json.array[i] \in Int /\ color.rgb[i] = Byte(json.array[i])
        BY <2>3
      <4> QED BY <4>1, BytesAreNumbers
    <3> QED BY <3>1, <3>2, IsColorOfNumbers, Zenon
  <2> QED BY <1>1, <2>1, <2>4
<1>4. CASE Nameless(json) /\ Len(json.array) # 4 /\ color = Rgb(json.array)
  <2>0. Len(json.array) >= 3
    BY <1>0, <1>4, NotShort
  <2>1. SetSvgColor(SetProtoColor(color)) = color
    BY <1>0, <2>0, <1>4, NumbersSurvive
  <2>2. /\ color.kind = "rgb"
        /\ color.rgb = <<Byte(json.array[1]), Byte(json.array[2]), Byte(json.array[3])>>
    BY <1>4, RgbFields
  <2>3. \A i \in 1 .. 3 : json.array[i] \in Int /\ color.rgb[i] = Byte(json.array[i])
    BY <1>0, <2>0, <2>2
  <2>4. IsColor(color, json)
    <3>1. Nameless(json) /\ Len(json.array) # 4 /\ color.kind = "rgb"
      BY <1>4, <2>2
    <3>2. ASSUME NEW i \in 1 .. 3
          PROVE  /\ color.rgb[i] \in 0 .. 255
                 /\ json.array[i] \in 0 .. 255 => color.rgb[i] = json.array[i]
      <4>1. json.array[i] \in Int /\ color.rgb[i] = Byte(json.array[i])
        BY <2>3
      <4> QED BY <4>1, BytesAreNumbers
    <3> QED BY <3>1, <3>2, IsColorOfNumbers, Zenon
  <2> QED BY <1>1, <2>1, <2>4
<1> QED BY <1>1, <1>2, <1>3, <1>4 DEF ReadAs

-----------------------------------------------------------------------------
(* The settings as a record, by its parts.                                 *)
Parts(size, element, bus, stop, color, width, palette, wait, velocity) ==
  [size_ |-> size, element_size_ |-> element, bus_label_ |-> bus, stop_label_ |-> stop,
   underlayer_color_ |-> color, underlayer_width_ |-> width, color_palette_ |-> palette,
   bus_wait_time_ |-> wait, bus_velocity_ |-> velocity]

(* What SaveToProto stores and Deserialize loads.                          *)
SavedColors(palette) == [i \in DOMAIN palette |-> SetProtoColor(palette[i])]
LoadedColors(palette) == [i \in DOMAIN palette |-> SetSvgColor(palette[i])]

Saved(s) ==
  [s EXCEPT !.underlayer_color_ = SetProtoColor(@),
            !.color_palette_ = [i \in DOMAIN @ |-> SetProtoColor(s.color_palette_[i])]]
Loaded(m) ==
  [m EXCEPT !.underlayer_color_ = SetSvgColor(@),
            !.color_palette_ = [i \in DOMAIN @ |-> SetSvgColor(m.color_palette_[i])],
            !.bus_wait_time_ = Short(@), !.bus_velocity_ = Short(@)]

(* A part that is changed changes nothing else.                            *)
LEMMA ColorPart ==
  ASSUME NEW a, NEW b, NEW c, NEW d, NEW u, NEW w, NEW p, NEW t, NEW v, NEW x
  PROVE  [Parts(a, b, c, d, u, w, p, t, v) EXCEPT !.underlayer_color_ = x]
           = Parts(a, b, c, d, x, w, p, t, v)
BY DEF Parts

LEMMA PalettePart ==
  ASSUME NEW a, NEW b, NEW c, NEW d, NEW u, NEW w, NEW p, NEW t, NEW v, NEW x
  PROVE  [Parts(a, b, c, d, u, w, p, t, v) EXCEPT !.color_palette_ = x]
           = Parts(a, b, c, d, u, w, x, t, v)
BY DEF Parts

LEMMA WaitPart ==
  ASSUME NEW a, NEW b, NEW c, NEW d, NEW u, NEW w, NEW p, NEW t, NEW v, NEW x
  PROVE  [Parts(a, b, c, d, u, w, p, t, v) EXCEPT !.bus_wait_time_ = x]
           = Parts(a, b, c, d, u, w, p, x, v)
BY DEF Parts

LEMMA VelocityPart ==
  ASSUME NEW a, NEW b, NEW c, NEW d, NEW u, NEW w, NEW p, NEW t, NEW v, NEW x
  PROVE  [Parts(a, b, c, d, u, w, p, t, v) EXCEPT !.bus_velocity_ = x]
           = Parts(a, b, c, d, u, w, p, t, x)
BY DEF Parts

LEMMA SavedParts ==
  ASSUME NEW a, NEW b, NEW c, NEW d, NEW u, NEW w, NEW p, NEW t, NEW v
  PROVE  Saved(Parts(a, b, c, d, u, w, p, t, v))
           = Parts(a, b, c, d, SetProtoColor(u), w, SavedColors(p), t, v)
<1>1. PICK s : s = Parts(a, b, c, d, u, w, p, t, v)
  OBVIOUS
<1>2. s.color_palette_ = p /\ s.underlayer_color_ = u
  BY <1>1 DEF Parts
<1>3. PICK x, y : x = SetProtoColor(u) /\ y = SavedColors(p)
  OBVIOUS
<1>4. Saved(s) = [s EXCEPT !.underlayer_color_ = x, !.color_palette_ = y]
  BY <1>2, <1>3 DEF Saved, SavedColors
<1>5. [s EXCEPT !.underlayer_color_ = x, !.color_palette_ = y]
        = [[s EXCEPT !.underlayer_color_ = x] EXCEPT !.color_palette_ = y]
  OBVIOUS
<1>6. [s EXCEPT !.underlayer_color_ = x] = Parts(a, b, c, d, x, w, p, t, v)
  BY <1>1, ColorPart
<1>7. [Parts(a, b, c, d, x, w, p, t, v) EXCEPT !.color_palette_ = y]
        = Parts(a, b, c, d, x, w, y, t, v)
  BY PalettePart
<1> QED BY <1>1, <1>3, <1>4, <1>5, <1>6, <1>7, Zenon

LEMMA LoadedParts ==
  ASSUME NEW a, NEW b, NEW c, NEW d, NEW u, NEW w, NEW p, NEW t, NEW v
  PROVE  Loaded(Parts(a, b, c, d, u, w, p, t, v))
           = Parts(a, b, c, d, SetSvgColor(u), w, LoadedColors(p), Short(t), Short(v))
<1>1. PICK s : s = Parts(a, b, c, d, u, w, p, t, v)
  OBVIOUS
<1>2. /\ s.color_palette_ = p /\ s.underlayer_color_ = u
      /\ s.bus_wait_time_ = t /\ s.bus_velocity_ = v
  BY <1>1 DEF Parts
<1>3. PICK x, y, m, n : /\ x = SetSvgColor(u) /\ y = LoadedColors(p)
                        /\ m = Short(t) /\ n = Short(v)
  OBVIOUS
<1>4. Loaded(s) = [s EXCEPT !.underlayer_color_ = x, !.color_palette_ = y,
                            !.bus_wait_time_ = m, !.bus_velocity_ = n]
  BY <1>2, <1>3 DEF Loaded, LoadedColors
<1>5. [s EXCEPT !.underlayer_color_ = x, !.color_palette_ = y,
                !.bus_wait_time_ = m, !.bus_velocity_ = n]
        = [[[[s EXCEPT !.underlayer_color_ = x] EXCEPT !.color_palette_ = y]
              EXCEPT !.bus_wait_time_ = m] EXCEPT !.bus_velocity_ = n]
  OBVIOUS
<1>6. [s EXCEPT !.underlayer_color_ = x] = Parts(a, b, c, d, x, w, p, t, v)
  BY <1>1, ColorPart
<1>7. [Parts(a, b, c, d, x, w, p, t, v) EXCEPT !.color_palette_ = y]
        = Parts(a, b, c, d, x, w, y, t, v)
  BY PalettePart
<1>8. [Parts(a, b, c, d, x, w, y, t, v) EXCEPT !.bus_wait_time_ = m]
        = Parts(a, b, c, d, x, w, y, m, v)
  BY WaitPart
<1>9. [Parts(a, b, c, d, x, w, y, m, v) EXCEPT !.bus_velocity_ = n]
        = Parts(a, b, c, d, x, w, y, m, n)
  BY VelocityPart
<1>10. Loaded(s) = Parts(a, b, c, d, x, w, y, m, n)
  BY <1>4, <1>5, <1>6, <1>7, <1>8, <1>9
<1> QED BY <1>1, <1>3, <1>10

(* The colours of the palette, as they are read.                           *)
Palette(doc) == [i \in DOMAIN doc.color_palette |-> ReaderColor(doc.color_palette[i])]

(* A document that gives what the maps need.                               *)
Readable(doc) == doc \in Documents /\ ~LacksAKey(doc) /\ ~ReadsBehindEnd(doc)

LEMMA PaletteSurvives ==
  ASSUME NEW doc, Readable(doc)
  PROVE  /\ LoadedColors(SavedColors(Palette(doc))) = Palette(doc)
         /\ \A i \in DOMAIN doc.color_palette :
              IsColor(Palette(doc)[i], doc.color_palette[i])
<1>1. \A i \in DOMAIN doc.color_palette :
        doc.color_palette[i] \in JsonColor /\ ~IsShort(doc.color_palette[i])
  <2>1. doc.color_palette \in Seq(JsonColor)
    BY SettingsAssumption DEF Readable
  <2>2. \A i \in DOMAIN doc.color_palette : ~IsShort(doc.color_palette[i])
    BY Zenon DEF Readable, ReadsBehindEnd, Given, Elements
  <2> QED BY <2>1, <2>2
<1> DEFINE p == Palette(doc)
<1>2. DOMAIN p = DOMAIN doc.color_palette
  BY DEF Palette
<1>3. \A i \in DOMAIN doc.color_palette : p[i] = ReaderColor(doc.color_palette[i])
  BY DEF Palette
<1>4. \A i \in DOMAIN doc.color_palette :
        SetSvgColor(SetProtoColor(p[i])) = p[i] /\ IsColor(p[i], doc.color_palette[i])
  BY <1>1, <1>3, ColorSurvives
<1>5. p = [i \in DOMAIN p |-> p[i]]
  BY DEF Palette
<1>6. LoadedColors(SavedColors(p)) = [i \in DOMAIN p |-> SetSvgColor(SetProtoColor(p[i]))]
  <2> HIDE DEF p
  <2> QED BY DEF LoadedColors, SavedColors
<1>7. LoadedColors(SavedColors(p)) = p
  <2> HIDE DEF p
  <2> QED BY <1>2, <1>4, <1>5, <1>6
<1> QED BY <1>4, <1>7

LEMMA SettingsParts ==
  ASSUME NEW doc
  PROVE  MapSettings(doc) =
           Parts(<<doc.width, doc.height, doc.padding>>, <<doc.line_width, doc.stop_radius>>,
                 Label(doc.bus_label_font_size, doc.bus_label_offset),
                 Label(doc.stop_label_font_size, doc.stop_label_offset),
                 ReaderColor(doc.underlayer_color), doc.underlayer_width, Palette(doc),
                 Short(doc.bus_wait_time), Short(doc.bus_velocity))
BY Zenon DEF MapSettings, Parts, Palette

LEMMA UnderlayerSurvives ==
  ASSUME NEW doc, Readable(doc)
  PROVE  /\ SetSvgColor(SetProtoColor(ReaderColor(doc.underlayer_color)))
              = ReaderColor(doc.underlayer_color)
         /\ IsColor(ReaderColor(doc.underlayer_color), doc.underlayer_color)
<1>1. doc.underlayer_color \in JsonColor
  BY SettingsAssumption DEF Readable
<1>2. ~IsShort(doc.underlayer_color)
  BY Zenon DEF Readable, ReadsBehindEnd, Given
<1> QED BY <1>1, <1>2, ColorSurvives

LEMMA TimesAreNumbers ==
  ASSUME NEW doc, Readable(doc)
  PROVE  doc.bus_wait_time \in Int /\ doc.bus_velocity \in Int /\ doc.width \in Int
BY SettingsAssumption DEF Readable, LacksAKey

(* What is saved is loaded again.                                          *)
LEMMA LoadedIsRead ==
  ASSUME NEW doc, Readable(doc)
  PROVE  Loaded(Saved(MapSettings(doc))) = MapSettings(doc)
<1>1. PICK a, b, c, d, u, w, p, t, v :
        /\ MapSettings(doc) = Parts(a, b, c, d, u, w, p, t, v)
        /\ u = ReaderColor(doc.underlayer_color) /\ p = Palette(doc)
        /\ t = Short(doc.bus_wait_time) /\ v = Short(doc.bus_velocity)
  BY SettingsParts, Zenon
<1>2. SetSvgColor(SetProtoColor(u)) = u /\ LoadedColors(SavedColors(p)) = p
  BY <1>1, PaletteSurvives, UnderlayerSurvives
<1>3. Short(t) = t /\ Short(v) = v
  BY <1>1, TimesAreNumbers, ShortIsShort
<1>4. PICK x, y : x = SetProtoColor(u) /\ y = SavedColors(p)
  OBVIOUS
<1>5. Saved(Parts(a, b, c, d, u, w, p, t, v)) = Parts(a, b, c, d, x, w, y, t, v)
  BY <1>4, SavedParts
<1>6. Loaded(Parts(a, b, c, d, x, w, y, t, v))
        = Parts(a, b, c, d, SetSvgColor(x), w, LoadedColors(y), Short(t), Short(v))
  BY LoadedParts
<1> QED BY <1>1, <1>2, <1>3, <1>4, <1>5, <1>6, Zenon

-----------------------------------------------------------------------------
(* The settings are those of the document, in either process; in between   *)
(* they are their messages.                                                *)
SettingsInv ==
  /\ document \in Documents
  /\ stage \in {"json", "read", "saved", "loaded", "thrown", "undefined"}
  /\ stage \in {"read", "saved", "loaded"} => Readable(document)
  /\ stage \in {"read", "loaded"} => settings = MapSettings(document)
  /\ stage = "saved" => proto = Saved(MapSettings(document))

LEMMA SettingsInitEstablishes == Init => SettingsInv
BY DEF Init, SettingsInv

LEMMA SettingsStepKeeps == SettingsInv /\ [Next]_vars => SettingsInv'
<1> SUFFICES ASSUME SettingsInv, [Next]_vars PROVE SettingsInv'
  OBVIOUS
<1>1. CASE Read
  <2>1. document' = document /\ stage = "json" /\ stage' \in {"thrown", "undefined", "read"}
    BY <1>1 DEF Read
  <2>2. stage' = "read" => Readable(document) /\ settings' = MapSettings(document)
    BY <1>1 DEF Read, SettingsInv, Readable
  <2> QED BY <2>1, <2>2 DEF SettingsInv
<1>2. CASE SaveToProto
  <2>1. document' = document /\ stage = "read" /\ stage' = "saved" /\ proto' = Saved(settings)
    BY <1>2 DEF SaveToProto, Saved
  <2> QED BY <2>1 DEF SettingsInv
<1>3. CASE Deserialize
  <2>1. document' = document /\ stage = "saved" /\ stage' = "loaded" /\ settings' = Loaded(proto)
    BY <1>3 DEF Deserialize, Loaded
  <2>2. settings' = MapSettings(document)
    BY <2>1, LoadedIsRead DEF SettingsInv
  <2> QED BY <2>1, <2>2 DEF SettingsInv
<1>4. CASE UNCHANGED vars
  BY <1>4 DEF vars, SettingsInv
<1> QED BY <1>1, <1>2, <1>3, <1>4 DEF Next

LEMMA MapKeepsSettings == SettingsInv /\ [MapNext]_mapVars => SettingsInv'
<1>1. [MapNext]_mapVars => [Next]_vars
  BY DEF MapNext, mapVars, NoPalette, AddLine, AddBusNames, AddCircle, AddStopName, Add,
         NextLoop, Render
<1> QED BY <1>1, SettingsStepKeeps

(* The offset of a label is the first two numbers of what is given.        *)
LEMMA OffsetSurvives ==
  ASSUME NEW offset \in Seq(Int), ~(Len(offset) < 2), NEW size
  PROVE  Label(size, offset).offset_ = SubSeq(offset, 1, 2)
<1>1. Len(offset) \in Nat /\ \A i \in 1 .. Len(offset) : offset[i] \in Int
  OBVIOUS
<1>2. \A i \in 1 .. 2 : offset[i] \in Int
  BY <1>1
<1> DEFINE s == SubSeq(offset, 1, 2)
           t == <<offset[1], offset[2]>>
<1>3. s \in Seq(Int) /\ Len(s) = 2 /\ \A i \in 1 .. 2 : s[i] = offset[i]
  BY <1>2, SubSeqProperties
<1>4. t \in Seq(Int) /\ Len(t) = 2 /\ t[1] = offset[1] /\ t[2] = offset[2]
  BY <1>2
<1>5. s = t
  <2> HIDE DEF s, t
  <2>1. 2 \in Nat /\ Len(t) = Len(s) /\ Len(s) = 2
    BY <1>3, <1>4
  <2>2. \A i \in 1 .. 2 : i = 1 \/ i = 2
    OBVIOUS
  <2>3. \A i \in 1 .. Len(s) : s[i] = t[i]
    BY <1>3, <1>4, <2>1, <2>2, Zenon
  <2> QED BY <1>3, <1>4, <2>1, <2>3, SeqEqual
<1> QED BY <1>5 DEF Label

LEMMA SettingsInvImplies == SettingsInv => SettingsSurvive
<1> SUFFICES ASSUME SettingsInv, stage = "loaded" PROVE SettingsSurvive
  BY DEF SettingsSurvive
<1> DEFINE doc == document
<1>1. Readable(doc) /\ settings = MapSettings(doc) /\ doc \in Documents
  BY DEF SettingsInv
<1>2. /\ settings.underlayer_color_ = ReaderColor(doc.underlayer_color)
      /\ settings.color_palette_ = Palette(doc)
      /\ settings.bus_label_ = Label(doc.bus_label_font_size, doc.bus_label_offset)
      /\ settings.stop_label_ = Label(doc.stop_label_font_size, doc.stop_label_offset)
      /\ settings.bus_wait_time_ = Short(doc.bus_wait_time)
      /\ settings.bus_velocity_ = Short(doc.bus_velocity)
  BY <1>1 DEF MapSettings, Palette
<1>3. IsColor(settings.underlayer_color_, doc.underlayer_color)
  BY <1>1, <1>2, UnderlayerSurvives
<1>4. Len(settings.color_palette_) = Len(doc.color_palette)
  BY <1>1, <1>2, SettingsAssumption DEF Palette
<1>5. \A i \in DOMAIN doc.color_palette :
        IsColor(settings.color_palette_[i], doc.color_palette[i])
  BY <1>1, <1>2, PaletteSurvives
<1>6. ~(Len(doc.bus_label_offset) < 2) /\ ~(Len(doc.stop_label_offset) < 2)
  BY <1>1 DEF Readable, ReadsBehindEnd
<1>7. doc.bus_label_offset \in Seq(Int) /\ doc.stop_label_offset \in Seq(Int)
  BY <1>1, SettingsAssumption
<1>8. /\ settings.bus_label_.offset_ = SubSeq(doc.bus_label_offset, 1, 2)
      /\ settings.stop_label_.offset_ = SubSeq(doc.stop_label_offset, 1, 2)
  BY <1>2, <1>6, <1>7, OffsetSurvives
<1>9. /\ IsCast(settings.bus_wait_time_, doc.bus_wait_time)
      /\ IsCast(settings.bus_velocity_, doc.bus_velocity)
  BY <1>1, <1>2, TimesAreNumbers, ShortIsCast
<1> QED BY <1>3, <1>4, <1>5, <1>8, <1>9, Zenon DEF SettingsSurvive

(* Whatever document make_base is given, if it can be read and its base is *)
(* loaded, process_requests draws and routes with the settings it gave: no *)
(* colour changes its kind or its place, no offset is lost, and the wait   *)
(* time and the velocity are those given, cast to their type once.         *)
THEOREM SettingsAreLoaded == MapSpec => []SettingsSurvive
<1>1. MapInit => SettingsInv
  BY SettingsInitEstablishes DEF MapInit
<1> QED BY <1>1, MapKeepsSettings, SettingsInvImplies, PTL DEF MapSpec

-----------------------------------------------------------------------------
(* Induction over the numbers: a set of them has a least one.              *)
LEMMA LeastNat ==
  ASSUME NEW T \in SUBSET Nat, T # {}
  PROVE  \E x \in T : \A y \in T : x <= y
<1> DEFINE R == {ss \in Nat \X Nat : ss[1] < ss[2]}
<1>1. IsWellFoundedOn(R, Nat)
  BY NatLessThanWellFounded DEF OpToRel
<1>2. PICK x \in T : \A y \in T : ~ (<<y, x>> \in R)
  <2> HIDE DEF R
  <2> QED BY <1>1, WFMin
<1>3. \A y \in T : y \in Nat /\ x \in Nat /\ ~(y < x)
  BY <1>2
<1> QED BY <1>3

-----------------------------------------------------------------------------
(* h[i] is what the first i of the sequences make together.                *)
JoinedAt(h, s, i) == IF i = 1 THEN s[i] ELSE h[i - 1] \o s[i]
Adds(h, s, n) == h = [i \in 1 .. n |-> JoinedAt(h, s, i)]

LEMMA AddsTo ==
  ASSUME NEW h, NEW s, NEW n \in Nat, Adds(h, s, n), NEW i \in 1 .. n
  PROVE  h[i] = JoinedAt(h, s, i)
BY DEF Adds

LEMMA AddsExists ==
  ASSUME NEW s, NEW n \in Nat
  PROVE  \E h : Adds(h, s, n)
<1> DEFINE T == {m \in Nat : ~\E h : Adds(h, s, m)}
<1> SUFFICES ASSUME T # {} PROVE FALSE
  OBVIOUS
<1>1. PICK m \in T : \A y \in T : m <= y
  <2>1. T \in SUBSET Nat
    OBVIOUS
  <2> HIDE DEF T
  <2> QED BY <2>1, LeastNat
<1>2. m \in Nat /\ ~\E h : Adds(h, s, m)
  OBVIOUS
<1>3. CASE m = 0
  <2>1. Adds([i \in 1 .. 0 |-> << >>], s, 0)
    BY DEF Adds
  <2> QED BY <1>2, <1>3, <2>1
<1>4. CASE m # 0
  <2>1. m - 1 \in Nat /\ ~(m <= m - 1)
    BY <1>2, <1>4
  <2>2. PICK h : Adds(h, s, m - 1)
    BY <1>1, <2>1
  <2> DEFINE g == [i \in 1 .. m |-> IF i \in 1 .. m - 1 THEN h[i] ELSE JoinedAt(h, s, i)]
  <2>3. ASSUME NEW i \in 1 .. m PROVE g[i] = JoinedAt(g, s, i)
    <3>1. i # 1 => i - 1 \in 1 .. m - 1 /\ i - 1 \in 1 .. m
      BY <2>1
    <3>2. i # 1 => g[i - 1] = h[i - 1]
      BY <3>1
    <3>3. JoinedAt(g, s, i) = JoinedAt(h, s, i)
      <4> HIDE DEF g
      <4> QED BY <3>2, Zenon DEF JoinedAt
    <3>4. i \in 1 .. m - 1 => h[i] = JoinedAt(h, s, i)
      BY <2>2 DEF Adds
    <3>5. g[i] = IF i \in 1 .. m - 1 THEN h[i] ELSE JoinedAt(h, s, i)
      OBVIOUS
    <3> HIDE DEF g
    <3> QED BY <3>3, <3>4, <3>5
  <2>4. Adds(g, s, m)
    <3> DEFINE F == [i \in 1 .. m |-> JoinedAt(g, s, i)]
    <3>1. \A i \in 1 .. m : g[i] = F[i]
      <4>1. \A i \in 1 .. m : g[i] = JoinedAt(g, s, i)
        BY <2>3
      <4> HIDE DEF g
      <4> QED BY <4>1
    <3>2. g = F
      <4> HIDE DEF g
      <4>1. DOMAIN g = 1 .. m /\ g = [i \in 1 .. m |-> g[i]]
        BY DEF g
      <4> QED BY <3>1, <4>1
    <3> HIDE DEF g
    <3> QED BY <3>2 DEF Adds
  <2> QED BY <1>2, <2>4
<1> QED BY <1>3, <1>4

(* FlattenSeq joins its sequences one after the other.                     *)
LEMMA FlattenAdds ==
  ASSUME NEW s, NEW n \in Nat \ {0}, Len(s) = n
  PROVE  \E h : Adds(h, s, n) /\ FlattenSeq(s) = h[n]
<1> DEFINE Is(h) == Adds(h, s, n)
<1>1. FlattenSeq(s) = (CHOOSE h : Is(h))[n]
  BY Zenon DEF FlattenSeq, Adds, JoinedAt
<1>2. PICK h : Is(h)
  BY AddsExists
<1> HIDE DEF Is
<1>3. Is(CHOOSE g : Is(g))
  BY <1>2, Zenon
<1>4. PICK f : f = CHOOSE g : Is(g)
  OBVIOUS
<1> QED BY <1>1, <1>3, <1>4 DEF Is

LEMMA FlattenOne ==
  ASSUME NEW s, Len(s) = 1
  PROVE  FlattenSeq(s) = s[1]
<1>0. PICK n : n = 1
  OBVIOUS
<1>1. PICK h : Adds(h, s, n) /\ FlattenSeq(s) = h[n]
  <2>1. n \in Nat \ {0} /\ Len(s) = n
    BY <1>0
  <2> QED BY <2>1, FlattenAdds
<1>2. n \in Nat /\ 1 \in 1 .. n
  BY <1>0
<1>3. h[1] = JoinedAt(h, s, 1)
  BY <1>1, <1>2, AddsTo
<1>4. h[1] = s[1]
  BY <1>3, Zenon DEF JoinedAt
<1> QED BY <1>0, <1>1, <1>4

LEMMA FlattenNone == FlattenSeq(<< >>) = << >>
<1>1. PICK e : e = << >>
  OBVIOUS
<1>2. Len(e) = 0
  BY <1>1
<1> QED BY <1>1, <1>2, Zenon DEF FlattenSeq

(* One sequence more.                                                      *)
Longer(t, s, n, x) ==
  /\ DOMAIN s = 1 .. n /\ Len(s) = n /\ DOMAIN t = 1 .. n + 1 /\ Len(t) = n + 1
  /\ t[n + 1] = x /\ \A i \in 1 .. n : t[i] = s[i]

LEMMA FlattenLonger ==
  ASSUME NEW n \in Nat \ {0}, NEW s, NEW t, NEW x, Longer(t, s, n, x)
  PROVE  FlattenSeq(t) = FlattenSeq(s) \o x
<1>0. PICK k \in Nat : k = n + 1
  OBVIOUS
<1>01. /\ Len(s) = n /\ Len(t) = k /\ t[k] = x
       /\ \A i \in 1 .. n : t[i] = s[i]
  BY <1>0 DEF Longer
<1>1. PICK h : Adds(h, s, n) /\ FlattenSeq(s) = h[n]
  BY <1>01, FlattenAdds
<1>2. k \in Nat \ {0} /\ k = n + 1
  BY <1>0
<1>3. PICK g : Adds(g, t, k) /\ FlattenSeq(t) = g[k]
  BY <1>01, <1>2, FlattenAdds
<1>4. \A i \in 1 .. n : g[i] = h[i]
  <2> DEFINE T == {i \in 1 .. n : g[i] # h[i]}
  <2> SUFFICES ASSUME T # {} PROVE FALSE
    OBVIOUS
  <2>1. PICK m \in T : \A y \in T : m <= y
    <3>1. T \in SUBSET Nat
      OBVIOUS
    <3> HIDE DEF T
    <3> QED BY <3>1, LeastNat
  <2>2. m \in 1 .. n /\ g[m] # h[m] /\ m \in 1 .. k /\ t[m] = s[m]
    BY <1>01, <1>2
  <2>3. g[m] = JoinedAt(g, t, m)
    BY <1>2, <1>3, <2>2, AddsTo
  <2>4. h[m] = JoinedAt(h, s, m)
    BY <1>1, <2>2, AddsTo
  <2>5. m # 1 => m - 1 \in 1 .. n /\ ~(m <= m - 1)
    BY <2>2
  <2>6. m # 1 => g[m - 1] = h[m - 1]
    BY <2>1, <2>5
  <2>7. JoinedAt(g, t, m) = JoinedAt(h, s, m)
    BY <2>2, <2>6, Zenon DEF JoinedAt
  <2> QED BY <2>2, <2>3, <2>4, <2>7, Zenon
<1>5. k \in 1 .. k /\ k # 1 /\ k - 1 = n
  BY <1>2
<1>6. g[k] = JoinedAt(g, t, k)
  BY <1>2, <1>3, <1>5, AddsTo
<1>7. g[k] = g[n] \o t[k]
  BY <1>5, <1>6, Zenon DEF JoinedAt
<1>8. g[n] = h[n]
  BY <1>4
<1> QED BY <1>01, <1>1, <1>3, <1>7, <1>8, Zenon

-----------------------------------------------------------------------------
(* What stands for the i-th character when those of S are replaced, and    *)
(* all of them together.                                                   *)
Piece(i, c, S) == IF i > 1 /\ c \in S THEN Entity(c) ELSE <<c>>
Pieces(text, S) == [i \in DOMAIN text |-> Piece(i, text[i], S)]
WithEntities(text, S) == FlattenSeq(Pieces(text, S))

LEMMA ReplacedIs ==
  ASSUME NEW data, NEW c
  PROVE  Replaced(data, c) = WithEntities(data, {c})
<1>1. ASSUME NEW i \in DOMAIN data
      PROVE  (IF i > 1 /\ data[i] = c THEN Entity(c) ELSE <<data[i]>>) = Piece(i, data[i], {c})
  <2>1. CASE data[i] = c
    BY <2>1, Zenon DEF Piece
  <2>2. CASE data[i] # c
    BY <2>2, Zenon DEF Piece
  <2> QED BY <2>1, <2>2
<1>2. Pieces(data, {c})
        = [i \in DOMAIN data |-> IF i > 1 /\ data[i] = c THEN Entity(c) ELSE <<data[i]>>]
  BY <1>1, Zenon DEF Pieces
<1> QED BY <1>2, Zenon DEF Replaced, WithEntities

LEMMA PiecesLength ==
  ASSUME NEW n \in Nat, NEW text, DOMAIN text = 1 .. n, NEW S
  PROVE  /\ DOMAIN Pieces(text, S) = 1 .. n /\ Len(Pieces(text, S)) = n
         /\ \A i \in 1 .. n : Pieces(text, S)[i] = Piece(i, text[i], S)
<1>1. PICK p : p = Pieces(text, S)
  OBVIOUS
<1>2. DOMAIN p = 1 .. n /\ p = [i \in 1 .. n |-> p[i]]
  BY <1>1 DEF Pieces
<1>3. p \in [1 .. n -> {p[i] : i \in 1 .. n}]
  BY <1>2
<1>4. Len(p) = n
  BY <1>3
<1>5. \A i \in 1 .. n : p[i] = Piece(i, text[i], S)
  BY <1>1 DEF Pieces
<1> QED BY <1>1, <1>2, <1>4, <1>5

(* What stands for a character that is not the first.                      *)
Instead(c, S) == IF c \in S THEN Entity(c) ELSE <<c>>

LEMMA InsteadIsText ==
  ASSUME NEW c \in Int, NEW S
  PROVE  Instead(c, S) \in Seq(Int) /\ Len(Instead(c, S)) >= 1
<1>1. /\ <<c>> \in Seq(Int) /\ Len(<<c>>) = 1
      /\ <<Ampersand, -c, Semicolon>> \in Seq(Int) /\ Len(<<Ampersand, -c, Semicolon>>) = 3
  BY DEF Ampersand, Semicolon
<1> QED BY <1>1 DEF Instead, Entity

(* The text, one character longer.                                         *)
LEMMA AppendIsLonger ==
  ASSUME NEW n \in Nat, NEW text \in Seq(Int), Len(text) = n, NEW c \in Int
  PROVE  Longer(Append(text, c), text, n, c)
BY DEF Longer

LEMMA PiecesLonger ==
  ASSUME NEW n \in Nat, NEW c, NEW S, NEW text, NEW q, Longer(q, text, n, c)
  PROVE  Longer(Pieces(q, S), Pieces(text, S), n, IF n = 0 THEN <<c>> ELSE Instead(c, S))
<1>1. PICK k \in Nat : k = n + 1
  OBVIOUS
<1>2. /\ DOMAIN text = 1 .. n /\ DOMAIN q = 1 .. k /\ q[k] = c
      /\ \A i \in 1 .. n : q[i] = text[i]
  BY <1>1 DEF Longer
<1>3. PICK s, t, x : /\ s = Pieces(text, S) /\ t = Pieces(q, S)
                     /\ x = IF n = 0 THEN <<c>> ELSE Instead(c, S)
  OBVIOUS
<1>4. /\ DOMAIN s = 1 .. n /\ Len(s) = n
      /\ \A i \in 1 .. n : s[i] = Piece(i, text[i], S)
  BY <1>2, <1>3, PiecesLength
<1>5. /\ DOMAIN t = 1 .. k /\ Len(t) = k
      /\ \A i \in 1 .. k : t[i] = Piece(i, q[i], S)
  BY <1>2, <1>3, PiecesLength
<1>6. t[k] = x
  <2>1. k \in 1 .. k /\ (k > 1 <=> n # 0)
    BY <1>1
  <2>2. t[k] = Piece(k, c, S)
    BY <1>2, <1>5, <2>1
  <2> QED BY <1>3, <2>1, <2>2, Zenon DEF Piece, Instead
<1>7. ASSUME NEW i \in 1 .. n PROVE t[i] = s[i]
  <2>1. i \in 1 .. k
    BY <1>1
  <2>2. t[i] = Piece(i, q[i], S) /\ s[i] = Piece(i, text[i], S) /\ q[i] = text[i]
    BY <1>2, <1>4, <1>5, <2>1
  <2> QED BY <2>2
<1>8. Longer(t, s, n, x)
  BY <1>1, <1>4, <1>5, <1>6, <1>7 DEF Longer
<1> QED BY <1>3, <1>8

(* The first character stays what it is.                                   *)
LEMMA FirstCharacter ==
  ASSUME NEW text, text = << >>, NEW c \in Int, NEW S
  PROVE  WithEntities(Append(text, c), S) = <<c>>
<1>1. PICK n \in Nat : n = 0
  OBVIOUS
<1>2. text \in Seq(Int) /\ Len(text) = n
  BY <1>1
<1>3. PICK q : q = Append(text, c)
  OBVIOUS
<1>4. Longer(q, text, n, c)
  BY <1>2, <1>3, AppendIsLonger
<1>5. Longer(Pieces(q, S), Pieces(text, S), n, IF n = 0 THEN <<c>> ELSE Instead(c, S))
  BY <1>4, PiecesLonger
<1>6. PICK t, x : t = Pieces(q, S) /\ x = <<c>>
  OBVIOUS
<1>7. Longer(t, Pieces(text, S), n, x)
  BY <1>1, <1>5, <1>6
<1>8. Len(t) = 1 /\ t[1] = x
  BY <1>1, <1>7 DEF Longer
<1>9. FlattenSeq(t) = t[1]
  BY <1>8, FlattenOne
<1> QED BY <1>3, <1>6, <1>8, <1>9, Zenon DEF WithEntities

LEMMA OneCharacterMore ==
  ASSUME NEW text \in Seq(Int), Len(text) # 0, NEW c \in Int, NEW S
  PROVE  WithEntities(Append(text, c), S) = WithEntities(text, S) \o Instead(c, S)
<1>1. PICK n \in Nat : n = Len(text) /\ n # 0
  OBVIOUS
<1>3. PICK q : q = Append(text, c)
  OBVIOUS
<1>4. Longer(q, text, n, c)
  BY <1>1, <1>3, AppendIsLonger
<1>5. Longer(Pieces(q, S), Pieces(text, S), n, IF n = 0 THEN <<c>> ELSE Instead(c, S))
  BY <1>4, PiecesLonger
<1>6. PICK s, t, x : s = Pieces(text, S) /\ t = Pieces(q, S) /\ x = Instead(c, S)
  OBVIOUS
<1>7. Longer(t, s, n, x)
  BY <1>1, <1>5, <1>6
<1>8. n \in Nat \ {0}
  BY <1>1
<1>9. FlattenSeq(t) = FlattenSeq(s) \o x
  BY <1>7, <1>8, FlattenLonger
<1> QED BY <1>3, <1>6, <1>9, Zenon DEF WithEntities

LEMMA NoText ==
  ASSUME NEW S
  PROVE  WithEntities(<< >>, S) = << >>
<1>1. PICK e : e = << >>
  OBVIOUS
<1>2. PICK p : p = Pieces(e, S)
  OBVIOUS
<1>3. p = << >>
  BY <1>1, <1>2 DEF Pieces
<1> QED BY <1>1, <1>2, <1>3, FlattenNone, Zenon DEF WithEntities

LEMMA LastCharacter ==
  ASSUME NEW k \in Nat, NEW text \in Seq(Int), Len(text) = k, k # 0
  PROVE  \E p \in Seq(Int) : /\ text = Append(p, text[k]) /\ Len(p) = k - 1
                             /\ \A i \in 1 .. k - 1 : p[i] = text[i]
<1>1. PICK p, c : p = SubSeq(text, 1, k - 1) /\ c = text[k]
  OBVIOUS
<1>2. /\ p \in Seq(Int) /\ Len(p) = k - 1 /\ \A i \in 1 .. k - 1 : p[i] = text[i]
  BY <1>1
<1>3. c \in Int
  BY <1>1
<1>4. PICK q : q = Append(p, c)
  OBVIOUS
<1>5. q \in Seq(Int) /\ Len(q) = k
  BY <1>2, <1>3, <1>4
<1>6. ASSUME NEW i \in 1 .. k PROVE q[i] = text[i]
  <2>1. CASE i = k
    BY <1>1, <1>2, <1>3, <1>4, <2>1
  <2>2. CASE i # k
    BY <1>2, <1>3, <1>4, <2>2
  <2> QED BY <2>1, <2>2
<1>7. q = text
  BY <1>5, <1>6, SeqEqual
<1> QED BY <1>1, <1>2, <1>4, <1>7

(* A text with entities is a text, and not shorter.                        *)
GoodText(t, S) ==
  /\ WithEntities(t, S) \in Seq(Int)
  /\ Len(t) # 0 => Len(WithEntities(t, S)) # 0

LEMMA EntitiesAreText ==
  ASSUME NEW S, NEW text \in Seq(Int)
  PROVE  GoodText(text, S)
<1> DEFINE T == {n \in Nat : \E t \in Seq(Int) : Len(t) = n /\ ~GoodText(t, S)}
<1>1. ASSUME T # {} PROVE FALSE
  <2>1. PICK n \in T : \A y \in T : n <= y
    <3>1. T \in SUBSET Nat
      OBVIOUS
    <3> HIDE DEF T
    <3> QED BY <1>1, <3>1, LeastNat
  <2>2. PICK t \in Seq(Int) : Len(t) = n /\ ~GoodText(t, S)
    BY <2>1
  <2>3. n \in Nat
    OBVIOUS
  <2>4. CASE n = 0
    <3>1. t = << >> /\ Len(t) = 0
      BY <2>2, <2>4
    <3>2. PICK w : w = WithEntities(t, S) /\ w = << >>
      BY <3>1, NoText
    <3>3. w \in Seq(Int)
      BY <3>2
    <3> QED BY <2>2, <3>1, <3>2, <3>3 DEF GoodText
  <2>5. CASE n # 0
    <3> HIDE DEF T
    <3>1. PICK p \in Seq(Int) : t = Append(p, t[n]) /\ Len(p) = n - 1
      BY <2>2, <2>3, <2>5, LastCharacter
    <3>2. PICK c : c = t[n]
      OBVIOUS
    <3>3. c \in Int
      BY <2>2, <2>3, <2>5, <3>2
    <3>4. Instead(c, S) \in Seq(Int) /\ Len(Instead(c, S)) >= 1
      BY <3>3, InsteadIsText
    <3>5. CASE p = << >>
      <4>1. WithEntities(Append(p, c), S) = <<c>>
        BY <3>3, <3>5, FirstCharacter
      <4>2. WithEntities(t, S) = <<c>>
        BY <3>1, <3>2, <4>1, Zenon
      <4>3. PICK w : w = WithEntities(t, S) /\ w = <<c>>
        BY <4>2
      <4>4. w \in Seq(Int) /\ Len(w) # 0
        BY <3>3, <4>3
      <4> QED BY <2>2, <4>3, <4>4 DEF GoodText
    <3>6. CASE p # << >>
      <4>1. Len(p) # 0 /\ Len(p) \in Nat
        BY <3>6
      <4>2. WithEntities(Append(p, c), S) = WithEntities(p, S) \o Instead(c, S)
        BY <3>3, <4>1, OneCharacterMore
      <4>3. WithEntities(t, S) = WithEntities(p, S) \o Instead(c, S)
        BY <3>1, <3>2, <4>2, Zenon
      <4>4. ~(n <= Len(p))
        BY <2>3, <3>1
      <4>5. GoodText(p, S)
        BY <2>1, <4>1, <4>4 DEF T
      <4>6. PICK w, x, y : w = WithEntities(t, S) /\ x = WithEntities(p, S) /\ y = Instead(c, S)
        OBVIOUS
      <4>7. x \in Seq(Int) /\ y \in Seq(Int) /\ Len(y) >= 1 /\ w = x \o y
        BY <3>4, <4>3, <4>5, <4>6 DEF GoodText
      <4>8. w \in Seq(Int) /\ Len(w) # 0
        BY <4>7
      <4> QED BY <2>2, <4>6, <4>8 DEF GoodText
    <3> QED BY <3>5, <3>6
  <2> QED BY <2>4, <2>5
<1> QED
  <2>1. Len(text) \in Nat /\ Len(text) \notin T
    BY <1>1
  <2> QED BY <2>1

(* Three characters at once are one after the other.                       *)
LEMMA ThreeMore ==
  ASSUME NEW e \in Seq(Int), NEW a \in Int, NEW b \in Int, NEW c \in Int
  PROVE  e \o <<a, b, c>> = Append(Append(Append(e, a), b), c)
OBVIOUS

(* A character of which the entities so far say nothing.                   *)
Outside(c, S) == c \in Nat \ {0} /\ c # Ampersand /\ c # Semicolon /\ c \notin S

(* Its entities come in where it stands for itself.                        *)
InOneGo(e, x, S, c) ==
  WithEntities(e \o Instead(x, S), {c}) = WithEntities(e, {c}) \o Instead(x, S \cup {c})

LEMMA InsteadAgain ==
  ASSUME NEW e \in Seq(Int), Len(e) # 0, NEW x \in Nat, NEW S, NEW c, Outside(c, S)
  PROVE  InOneGo(e, x, S, c)
<1>1. x \in Int /\ c \in Int
  BY DEF Outside
<1>2. PICK w : w = WithEntities(e, {c})
  OBVIOUS
<1>3. w \in Seq(Int)
  BY <1>2, EntitiesAreText DEF GoodText
<1>4. CASE x \in S
  <2>1. PICK a, b, s : a = Ampersand /\ b = -x /\ s = Semicolon
    OBVIOUS
  <2>2. a \in Int /\ b \in Int /\ s \in Int
    BY <2>1 DEF Ampersand, Semicolon
  <2>3. a # c /\ b # c /\ s # c
    BY <2>1 DEF Outside
  <2>4. Instead(x, S) = <<a, b, s>> /\ Instead(x, S \cup {c}) = <<a, b, s>>
    BY <1>4, <2>1, Zenon DEF Instead, Entity
  <2>5. Instead(a, {c}) = <<a>> /\ Instead(b, {c}) = <<b>> /\ Instead(s, {c}) = <<s>>
    BY <2>3, Zenon DEF Instead
  <2>6. PICK f, g, h : f = Append(e, a) /\ g = Append(f, b) /\ h = Append(g, s)
    OBVIOUS
  <2>7. f \in Seq(Int) /\ Len(f) # 0 /\ g \in Seq(Int) /\ Len(g) # 0
    BY <2>2, <2>6
  <2>8. WithEntities(f, {c}) = w \o <<a>>
    <3>1. WithEntities(Append(e, a), {c}) = WithEntities(e, {c}) \o Instead(a, {c})
      BY <2>2, OneCharacterMore
    <3> QED BY <1>2, <2>5, <2>6, <3>1, Zenon
  <2>9. WithEntities(g, {c}) = WithEntities(f, {c}) \o <<b>>
    <3>1. WithEntities(Append(f, b), {c}) = WithEntities(f, {c}) \o Instead(b, {c})
      BY <2>2, <2>7, OneCharacterMore
    <3> QED BY <2>5, <2>6, <3>1, Zenon
  <2>10. WithEntities(h, {c}) = WithEntities(g, {c}) \o <<s>>
    <3>1. WithEntities(Append(g, s), {c}) = WithEntities(g, {c}) \o Instead(s, {c})
      BY <2>2, <2>7, OneCharacterMore
    <3> QED BY <2>5, <2>6, <3>1, Zenon
  <2>11. e \o <<a, b, s>> = h
    BY <2>2, <2>6, ThreeMore
  <2>12. ((w \o <<a>>) \o <<b>>) \o <<s>> = w \o <<a, b, s>>
    <3>1. PICK f1, g1 : f1 = Append(w, a) /\ g1 = Append(f1, b)
      OBVIOUS
    <3>2. w \o <<a>> = f1 /\ f1 \in Seq(Int)
      BY <1>3, <2>2, <3>1
    <3>3. f1 \o <<b>> = g1 /\ g1 \in Seq(Int)
      BY <2>2, <3>1, <3>2
    <3>4. g1 \o <<s>> = Append(g1, s)
      BY <2>2, <3>3
    <3>5. w \o <<a, b, s>> = Append(Append(Append(w, a), b), s)
      BY <1>3, <2>2, ThreeMore
    <3> QED BY <3>1, <3>2, <3>3, <3>4, <3>5, Zenon
  <2>13. WithEntities(h, {c}) = w \o <<a, b, s>>
    BY <2>8, <2>9, <2>10, <2>12, Zenon
  <2> QED BY <1>2, <2>4, <2>11, <2>13, Zenon DEF InOneGo
<1>5. CASE x \notin S
  <2>1. Instead(x, S) = <<x>>
    BY <1>5, Zenon DEF Instead
  <2>2. Instead(x, S \cup {c}) = Instead(x, {c})
    BY <1>5, Zenon DEF Instead
  <2>3. e \o <<x>> = Append(e, x)
    BY <1>1
  <2>4. WithEntities(Append(e, x), {c}) = w \o Instead(x, {c})
    BY <1>1, <1>2, OneCharacterMore
  <2> QED BY <1>2, <2>1, <2>2, <2>3, <2>4, Zenon DEF InOneGo
<1> QED BY <1>4, <1>5

(* So entities are put in for one more character, whatever the text.       *)
LEMMA OneSymbolMore ==
  ASSUME NEW S, NEW c, Outside(c, S), NEW text \in Seq(Nat)
  PROVE  WithEntities(WithEntities(text, S), {c}) = WithEntities(text, S \cup {c})
<1> DEFINE Good(t) == WithEntities(WithEntities(t, S), {c}) = WithEntities(t, S \cup {c})
           T == {n \in Nat : \E t \in Seq(Nat) : Len(t) = n /\ ~Good(t)}
<1>1. ASSUME T # {} PROVE FALSE
  <2> HIDE DEF Good
  <2>1. PICK n \in T : \A y \in T : n <= y
    <3>1. T \in SUBSET Nat
      OBVIOUS
    <3> HIDE DEF T
    <3> QED BY <1>1, <3>1, LeastNat
  <2>2. PICK t \in Seq(Nat) : Len(t) = n /\ ~Good(t)
    BY <2>1
  <2>3. n \in Nat /\ t \in Seq(Int)
    BY <2>2
  <2>4. CASE n = 0
    <3>1. t = << >>
      BY <2>2, <2>4
    <3>2. PICK e : e = << >>
      OBVIOUS
    <3>3. WithEntities(e, S) = e /\ WithEntities(e, {c}) = e /\ WithEntities(e, S \cup {c}) = e
      BY <3>2, NoText
    <3> QED BY <2>2, <3>1, <3>2, <3>3, Zenon DEF Good
  <2>5. CASE n # 0
    <3> HIDE DEF T
    <3>1. PICK p \in Seq(Int) : /\ t = Append(p, t[n]) /\ Len(p) = n - 1
                                /\ \A i \in 1 .. n - 1 : p[i] = t[i]
      BY <2>2, <2>3, <2>5, LastCharacter
    <3>2. PICK x : x = t[n]
      OBVIOUS
    <3>3. x \in Nat
      BY <2>2, <2>3, <2>5, <3>2
    <3>4. t = Append(p, x) /\ x \in Int
      BY <3>1, <3>2, <3>3
    <3>5. CASE p = << >>
      <4>1. WithEntities(t, S) = <<x>> /\ WithEntities(t, S \cup {c}) = <<x>>
        BY <3>4, <3>5, FirstCharacter
      <4>2. WithEntities(Append(p, x), {c}) = <<x>>
        BY <3>4, <3>5, FirstCharacter
      <4>3. Append(p, x) = <<x>>
        BY <3>4, <3>5
      <4> QED BY <2>2, <4>1, <4>2, <4>3, Zenon DEF Good
    <3>6. CASE p # << >>
      <4>1. Len(p) # 0 /\ Len(p) \in Nat
        BY <3>6
      <4>2. p \in Seq(Nat)
        <5>1. \A i \in 1 .. n - 1 : p[i] \in Nat
          BY <2>2, <2>3, <3>1
        <5>2. PICK m \in Nat : m = n - 1
          BY <2>3, <2>5
        <5>3. p \in [1 .. m -> Nat]
          BY <3>1, <5>1, <5>2
        <5> QED BY <5>3, SeqDef
      <4>3. ~(n <= Len(p))
        BY <2>3, <3>1
      <4>4. Good(p)
        BY <2>1, <4>1, <4>2, <4>3 DEF T
      <4>5. PICK d : d = WithEntities(p, S)
        OBVIOUS
      <4>6. d \in Seq(Int) /\ Len(d) # 0
        BY <4>1, <4>5, EntitiesAreText DEF GoodText
      <4>7. WithEntities(t, S) = d \o Instead(x, S)
        BY <3>4, <4>1, <4>5, OneCharacterMore
      <4>8. WithEntities(d \o Instead(x, S), {c})
              = WithEntities(d, {c}) \o Instead(x, S \cup {c})
        <5>1. InOneGo(d, x, S, c)
          BY <3>3, <4>6, InsteadAgain
        <5> QED BY <5>1, Zenon DEF InOneGo
      <4>9. WithEntities(t, S \cup {c}) = WithEntities(p, S \cup {c}) \o Instead(x, S \cup {c})
        BY <3>4, <4>1, OneCharacterMore
      <4> QED BY <2>2, <4>4, <4>5, <4>7, <4>8, <4>9, Zenon DEF Good
    <3> QED BY <3>5, <3>6
  <2> QED BY <2>4, <2>5
<1> QED
  <2> HIDE DEF Good
  <2>1. Len(text) \in Nat /\ Len(text) \notin T
    BY <1>1
  <2>2. Good(text)
    BY <2>1
  <2> QED BY <2>2 DEF Good

-----------------------------------------------------------------------------
(* What SetData makes of a text.                                           *)
LEMMA FiveTimes ==
  ASSUME NEW data, NEW symbols, Len(symbols) = 5
  PROVE  ReplacedAll(data, symbols)
           = Replaced(Replaced(Replaced(Replaced(Replaced(data, symbols[1]), symbols[2]),
                                        symbols[3]), symbols[4]), symbols[5])
<1> DEFINE At(h, k) == IF k = 0 THEN data ELSE Replaced(h[k - 1], symbols[k])
           Is(h) == h = [k \in 0 .. Len(symbols) |-> At(h, k)]
<1>1. ReplacedAll(data, symbols) = (CHOOSE h : Is(h))[Len(symbols)]
  BY Zenon DEF ReplacedAll
<1>2. PICK a, b, c, d, e :
        /\ a = Replaced(data, symbols[1]) /\ b = Replaced(a, symbols[2])
        /\ c = Replaced(b, symbols[3]) /\ d = Replaced(c, symbols[4])
        /\ e = Replaced(d, symbols[5])
  OBVIOUS
<1>3. PICK h : h = [k \in 0 .. 5 |->
          IF k = 0 THEN data ELSE IF k = 1 THEN a ELSE IF k = 2 THEN b
          ELSE IF k = 3 THEN c ELSE IF k = 4 THEN d ELSE e]
  OBVIOUS
<1>4. /\ h[0] = data /\ h[1] = a /\ h[2] = b /\ h[3] = c /\ h[4] = d /\ h[5] = e
  BY <1>3
<1>5. ASSUME NEW k \in 0 .. 5 PROVE h[k] = At(h, k)
  <2>1. k = 0 \/ k = 1 \/ k = 2 \/ k = 3 \/ k = 4 \/ k = 5
    OBVIOUS
  <2>2. 1 - 1 = 0 /\ 2 - 1 = 1 /\ 3 - 1 = 2 /\ 4 - 1 = 3 /\ 5 - 1 = 4
    OBVIOUS
  <2>3. 1 # 0 /\ 2 # 0 /\ 3 # 0 /\ 4 # 0 /\ 5 # 0
    OBVIOUS
  <2> QED BY <1>2, <1>4, <2>1, <2>2, <2>3, Zenon
<1>6. Is(h)
  <2> HIDE DEF At
  <2>1. h = [k \in 0 .. 5 |-> h[k]]
    BY <1>3
  <2> QED BY <1>5, <2>1
<1> HIDE DEF Is
<1>7. PICK f : f = CHOOSE g : Is(g)
  OBVIOUS
<1>8. Is(f)
  BY <1>6, <1>7, Zenon
<1> HIDE DEF At
<1>9. \A k \in 0 .. 5 : f[k] = At(f, k)
  BY <1>8 DEF Is
<1>10. /\ f[0] = At(f, 0) /\ f[1] = At(f, 1) /\ f[2] = At(f, 2) /\ f[3] = At(f, 3)
       /\ f[4] = At(f, 4) /\ f[5] = At(f, 5)
  BY <1>9
<1>11. /\ f[0] = data /\ f[1] = Replaced(f[0], symbols[1])
       /\ f[2] = Replaced(f[1], symbols[2]) /\ f[3] = Replaced(f[2], symbols[3])
       /\ f[4] = Replaced(f[3], symbols[4]) /\ f[5] = Replaced(f[4], symbols[5])
  <2>1. 1 - 1 = 0 /\ 2 - 1 = 1 /\ 3 - 1 = 2 /\ 4 - 1 = 3 /\ 5 - 1 = 4
    OBVIOUS
  <2>2. 1 # 0 /\ 2 # 0 /\ 3 # 0 /\ 4 # 0 /\ 5 # 0
    OBVIOUS
  <2> QED BY <1>10, <2>1, <2>2, Zenon DEF At
<1> QED BY <1>1, <1>7, <1>11, Zenon

(* The characters to replace, one more at a time.                          *)
Symbols == Elements(characters_to_replace)

LEMMA SymbolsAre ==
  /\ Symbols = {Ampersand, QuoteMark, Apostrophe, LessThan, GreaterThan}
  /\ Outside(QuoteMark, {Ampersand}) /\ Outside(Apostrophe, {Ampersand, QuoteMark})
  /\ Outside(LessThan, {Ampersand, QuoteMark, Apostrophe})
  /\ Outside(GreaterThan, {Ampersand, QuoteMark, Apostrophe, LessThan})
<1>1. Symbols = {Ampersand, QuoteMark, Apostrophe, LessThan, GreaterThan}
  BY DEF Symbols, Elements, characters_to_replace, Ampersand, QuoteMark, Apostrophe, LessThan,
         GreaterThan
<1> QED BY <1>1 DEF Outside, Ampersand, QuoteMark, Apostrophe, LessThan, GreaterThan, Semicolon

LEMMA SetDataReplaces ==
  ASSUME NEW text \in Seq(Nat)
  PROVE  SetData(text) = WithEntities(text, Symbols)
<1>1. PICK c : c = characters_to_replace
  OBVIOUS
<1>2. /\ c[1] = Ampersand /\ c[2] = QuoteMark /\ c[3] = Apostrophe /\ c[4] = LessThan
      /\ c[5] = GreaterThan /\ Len(c) = 5
  BY <1>1 DEF characters_to_replace
<1>3. SetData(text)
        = Replaced(Replaced(Replaced(Replaced(Replaced(text, c[1]), c[2]), c[3]), c[4]), c[5])
  BY <1>1, <1>2, FiveTimes DEF SetData
<1> DEFINE S1 == {Ampersand}
           S2 == S1 \cup {QuoteMark}
           S3 == S2 \cup {Apostrophe}
           S4 == S3 \cup {LessThan}
           S5 == S4 \cup {GreaterThan}
<1>4. Replaced(text, Ampersand) = WithEntities(text, S1)
  BY ReplacedIs
<1>5. /\ S2 = {Ampersand, QuoteMark} /\ S3 = {Ampersand, QuoteMark, Apostrophe}
      /\ S4 = {Ampersand, QuoteMark, Apostrophe, LessThan} /\ S5 = Symbols
  BY SymbolsAre
<1>6. /\ Outside(QuoteMark, S1) /\ Outside(Apostrophe, S2) /\ Outside(LessThan, S3)
      /\ Outside(GreaterThan, S4)
  BY <1>5, SymbolsAre
<1> HIDE DEF S1, S2, S3, S4, S5
<1>7. ASSUME NEW S, NEW x, Outside(x, S)
      PROVE  Replaced(WithEntities(text, S), x) = WithEntities(text, S \cup {x})
  BY <1>7, OneSymbolMore, ReplacedIs
<1>8. Replaced(WithEntities(text, S1), QuoteMark) = WithEntities(text, S2)
  BY <1>6, <1>7 DEF S2
<1>9. Replaced(WithEntities(text, S2), Apostrophe) = WithEntities(text, S3)
  BY <1>6, <1>7 DEF S3
<1>10. Replaced(WithEntities(text, S3), LessThan) = WithEntities(text, S4)
  BY <1>6, <1>7 DEF S4
<1>11. Replaced(WithEntities(text, S4), GreaterThan) = WithEntities(text, S5)
  BY <1>6, <1>7 DEF S5
<1> QED BY <1>2, <1>3, <1>4, <1>5, <1>8, <1>9, <1>10, <1>11, Zenon

(* A reader sees the text, unless its first character had to be replaced.  *)
LEMMA SetDataShows ==
  ASSUME NEW text \in Seq(Nat)
  PROVE  (text # << >> /\ text[1] \in {Ampersand, LessThan}) \/ Shows(SetData(text), text)
<1> SUFFICES ASSUME ~(text # << >> /\ text[1] \in {Ampersand, LessThan})
             PROVE  Shows(SetData(text), text)
  OBVIOUS
<1>1. PICK replaced : replaced = [i \in DOMAIN text |-> i > 1 /\ text[i] \in Symbols]
  OBVIOUS
<1>2. replaced \in [DOMAIN text -> BOOLEAN]
  BY <1>1, Zenon
<1>3. ASSUME NEW i \in DOMAIN text
      PROVE  Piece(i, text[i], Symbols)
               = IF replaced[i] THEN Entity(text[i]) ELSE <<text[i]>>
  BY <1>1, Zenon DEF Piece
<1>4. Pieces(text, Symbols)
        = [i \in DOMAIN text |-> IF replaced[i] THEN Entity(text[i]) ELSE <<text[i]>>]
  BY <1>3, Zenon DEF Pieces
<1>5. SetData(text) = FlattenSeq([i \in DOMAIN text |->
                        IF replaced[i] THEN Entity(text[i]) ELSE <<text[i]>>])
  BY <1>4, SetDataReplaces, Zenon DEF WithEntities
<1>6. ASSUME NEW i \in DOMAIN text
      PROVE  IF replaced[i] THEN text[i] \in Elements(characters_to_replace)
                            ELSE text[i] \notin {Ampersand, LessThan}
  <2>1. CASE replaced[i]
    BY <1>1, <2>1, Zenon DEF Symbols
  <2>2. CASE ~replaced[i]
    <3>1. i = 1 \/ text[i] \notin Symbols
      <4>1. i > 1 \/ i = 1
        OBVIOUS
      <4> QED BY <1>1, <2>2, <4>1, Zenon
    <3>2. text # << >>
      OBVIOUS
    <3>3. i = 1 => text[i] \notin {Ampersand, LessThan}
      BY <3>2, Zenon
    <3>4. {Ampersand, LessThan} \subseteq Symbols
      BY SymbolsAre
    <3> QED BY <2>2, <3>1, <3>3, <3>4, Zenon
  <2> QED BY <2>1, <2>2
<1> QED BY <1>2, <1>5, <1>6, Zenon DEF Shows

-----------------------------------------------------------------------------
(* Numbers can be put in order.                                            *)
LEMMA OrderExists ==
  ASSUME NEW S \in SUBSET Nat, IsFiniteSet(S)
  PROVE  \E s \in [1 .. Cardinality(S) -> S] : \A i, j \in DOMAIN s : i < j => s[i] < s[j]
<1> DEFINE Ordered(R) ==
             \E s \in [1 .. Cardinality(R) -> R] : \A i, j \in DOMAIN s : i < j => s[i] < s[j]
           T == {n \in Nat : \E R \in SUBSET Nat : IsFiniteSet(R) /\ Cardinality(R) = n /\ ~Ordered(R)}
<1>1. ASSUME T # {} PROVE FALSE
  <2> HIDE DEF Ordered
  <2>1. PICK n \in T : \A y \in T : n <= y
    <3>1. T \in SUBSET Nat
      OBVIOUS
    <3> HIDE DEF T
    <3> QED BY <1>1, <3>1, LeastNat
  <2>2. n \in Nat /\ \E R \in SUBSET Nat : IsFiniteSet(R) /\ Cardinality(R) = n /\ ~Ordered(R)
    BY <2>1
  <2>3. PICK R \in SUBSET Nat : IsFiniteSet(R) /\ Cardinality(R) = n /\ ~Ordered(R)
    BY <2>2
  <2>4. CASE n = 0
    <3>1. R = {} /\ Cardinality({}) = 0
      BY <2>3, <2>4, FS_EmptySet
    <3>2. << >> \in [1 .. 0 -> {}] /\ \A i, j \in DOMAIN << >> : i < j => << >>[i] < << >>[j]
      OBVIOUS
    <3> QED BY <2>3, <3>1, <3>2 DEF Ordered
  <2>5. CASE n # 0
    <3>1. R # {}
      BY <2>3, <2>5, FS_EmptySet
    <3>2. PICK x \in R : \A y \in R : x <= y
      BY <3>1, LeastNat
    <3>3. PICK Q : Q = R \ {x}
      OBVIOUS
    <3>4. PICK o \in Nat : n = o + 1
      <4>1. n - 1 \in Nat /\ n = n - 1 + 1
        BY <2>2, <2>5
      <4> QED BY <4>1
    <3>5. Q \in SUBSET Nat /\ IsFiniteSet(Q) /\ Cardinality(Q) = o
      <4>1. IsFiniteSet(R \ {x}) /\ Cardinality(R \ {x}) = Cardinality(R) - 1
        BY <2>3, <3>2, FS_RemoveElement
      <4> QED BY <2>3, <3>3, <3>4, <4>1
    <3>6. o \notin T
      <4> HIDE DEF T
      <4> QED BY <2>1, <2>2, <3>4
    <3>7. Ordered(Q)
      BY <3>5, <3>6
    <3>8. PICK s \in [1 .. o -> Q] : \A i, j \in 1 .. o : i < j => s[i] < s[j]
      <4>1. PICK s \in [1 .. o -> Q] : \A i, j \in DOMAIN s : i < j => s[i] < s[j]
        BY <3>5, <3>7 DEF Ordered
      <4>2. DOMAIN s = 1 .. o
        OBVIOUS
      <4> QED BY <4>1, <4>2
    <3>9. PICK t : t = [i \in 1 .. n |-> IF i = 1 THEN x ELSE s[i - 1]]
      OBVIOUS
    <3>10. \A i \in 1 .. n : i # 1 => i - 1 \in 1 .. o /\ t[i] = s[i - 1] /\ s[i - 1] \in Q
      BY <2>2, <3>4, <3>9
    <3>11. 1 \in 1 .. n => t[1] = x
      BY <3>9
    <3>12. \A i \in 1 .. n : t[i] \in R
      BY <3>3, <3>2, <3>10, <3>11
    <3>13. t \in [1 .. n -> R]
      BY <3>9, <3>12
    <3>14. ASSUME NEW i \in 1 .. n, NEW j \in 1 .. n, i < j PROVE t[i] < t[j]
      <4>1. j # 1 /\ t[j] = s[j - 1] /\ s[j - 1] \in Q /\ j - 1 \in 1 .. o
        BY <2>2, <3>10, <3>14
      <4>2. CASE i = 1
        <5>1. s[j - 1] \in Nat /\ x \in Nat /\ x <= s[j - 1] /\ x # s[j - 1]
          BY <2>3, <3>2, <3>3, <4>1
        <5> QED BY <3>11, <4>1, <4>2, <5>1
      <4>3. CASE i # 1
        <5>1. t[i] = s[i - 1] /\ i - 1 \in 1 .. o /\ i - 1 < j - 1
          BY <2>2, <3>10, <3>14, <4>3
        <5> QED BY <3>8, <4>1, <5>1
      <4> QED BY <4>2, <4>3
    <3>15. \A i, j \in DOMAIN t : i < j => t[i] < t[j]
      BY <3>9, <3>14
    <3> QED BY <2>3, <3>13, <3>15 DEF Ordered
  <2> QED BY <2>4, <2>5
<1>2. Cardinality(S) \in Nat
  BY FS_CardinalityType
<1>3. Cardinality(S) \notin T
  BY <1>1
<1>4. Ordered(S)
  <2> HIDE DEF Ordered
  <2> QED BY <1>2, <1>3
<1> QED BY <1>4

(* A set that is gone through in order is gone through, each element once. *)
LEMMA InOrderFacts ==
  ASSUME NEW S \in SUBSET Nat, IsFiniteSet(S), NEW s, s = InOrder(S)
  PROVE  /\ Elements(s) = S /\ Len(s) \in Nat /\ DOMAIN s = 1 .. Len(s)
         /\ \A i, j \in DOMAIN s : s[i] = s[j] => i = j
<1> DEFINE Is(h) == /\ h \in [1 .. Cardinality(S) -> S]
                    /\ \A i, j \in DOMAIN h : i < j => h[i] < h[j]
<1>1. \E h : Is(h)
  BY OrderExists
<1>2. s = CHOOSE h \in [1 .. Cardinality(S) -> S] : \A i, j \in DOMAIN h : i < j => h[i] < h[j]
  BY DEF InOrder
<1>3. s = CHOOSE h : Is(h)
  BY <1>2
<1> HIDE DEF Is
<1>4. Is(s)
  BY <1>1, <1>3, Zenon
<1>5. PICK n \in Nat : n = Cardinality(S)
  BY FS_CardinalityType
<1>6. s \in [1 .. n -> S] /\ DOMAIN s = 1 .. n /\ \A i, j \in 1 .. n : i < j => s[i] < s[j]
  <2>1. s \in [1 .. n -> S] /\ \A i, j \in DOMAIN s : i < j => s[i] < s[j]
    BY <1>4, <1>5 DEF Is
  <2>2. DOMAIN s = 1 .. n
    BY <2>1
  <2> QED BY <2>1, <2>2
<1>7. Len(s) = n
  <2>1. s \in Seq(S)
    BY <1>6
  <2> QED BY <1>6, <2>1
<1>8. s \in Injection(1 .. n, S)
  <2>1. ASSUME NEW i \in 1 .. n, NEW j \in 1 .. n, s[i] = s[j] PROVE i = j
    <3>1. s[i] \in Nat /\ s[j] \in Nat
      BY <1>6
    <3>2. ~(i < j) /\ ~(j < i)
      BY <1>6, <2>1, <3>1
    <3> QED BY <3>2
  <2> QED BY <1>6, <2>1 DEF Injection, IsInjective
<1>9. s \in Surjection(1 .. n, S)
  <2>1. Cardinality(1 .. n) = n
    BY FS_Interval
  <2> QED BY <1>5, <1>8, <2>1, FS_Injection
<1>10. Elements(s) = S
  BY <1>6, <1>9 DEF Elements, Surjection
<1>11. \A i, j \in 1 .. n : s[i] = s[j] => i = j
  BY <1>8 DEF Injection, IsInjective
<1> QED BY <1>6, <1>7, <1>10, <1>11

(* A finite set of integers has a lowest and a highest one.                *)
LEMMA ExtremesExist ==
  ASSUME NEW S \in SUBSET Int, IsFiniteSet(S), S # {}
  PROVE  /\ \E x \in S : \A y \in S : x <= y
         /\ \E x \in S : \A y \in S : x >= y
<1> DEFINE Bounded(R) == /\ \E x \in R : \A y \in R : x <= y
                         /\ \E x \in R : \A y \in R : x >= y
           T == {n \in Nat : \E R \in SUBSET Int :
                   IsFiniteSet(R) /\ Cardinality(R) = n /\ R # {} /\ ~Bounded(R)}
<1>1. ASSUME T # {} PROVE FALSE
  <2> HIDE DEF Bounded
  <2>1. PICK n \in T : \A y \in T : n <= y
    <3>1. T \in SUBSET Nat
      OBVIOUS
    <3> HIDE DEF T
    <3> QED BY <1>1, <3>1, LeastNat
  <2>2. n \in Nat /\ \E R \in SUBSET Int :
          IsFiniteSet(R) /\ Cardinality(R) = n /\ R # {} /\ ~Bounded(R)
    BY <2>1
  <2>3. PICK R \in SUBSET Int : IsFiniteSet(R) /\ Cardinality(R) = n /\ R # {} /\ ~Bounded(R)
    BY <2>2
  <2>4. PICK x \in R : x \in Int
    BY <2>3
  <2>5. PICK Q : Q = R \ {x}
    OBVIOUS
  <2>6. Q \in SUBSET Int /\ IsFiniteSet(Q) /\ Cardinality(Q) = n - 1 /\ Cardinality(Q) \in Nat
    BY <2>3, <2>5, FS_RemoveElement, FS_CardinalityType
  <2>7. CASE Q = {}
    <3>1. \A y \in R : y = x
      BY <2>5, <2>7
    <3> QED BY <2>3, <2>4, <3>1 DEF Bounded
  <2>8. CASE Q # {}
    <3>1. n - 1 \notin T
      <4> HIDE DEF T
      <4> QED BY <2>1, <2>2, <2>6
    <3>2. Bounded(Q)
      BY <2>6, <2>8, <3>1
    <3>3. PICK l \in Q : \A y \in Q : l <= y
      BY <3>2 DEF Bounded
    <3>4. PICK h \in Q : \A y \in Q : h >= y
      BY <3>2 DEF Bounded
    <3>5. l \in Int /\ h \in Int /\ l \in R /\ h \in R /\ \A y \in R : y \in Int /\ (y \in Q \/ y = x)
      BY <2>3, <2>5, <2>6
    <3>6. \E m \in R : \A y \in R : m <= y
      <4>1. CASE l <= x
        BY <3>3, <3>5, <4>1
      <4>2. CASE ~(l <= x)
        <5>1. \A y \in R : x <= y
          BY <2>4, <3>3, <3>5, <4>2
        <5> QED BY <5>1
      <4> QED BY <4>1, <4>2
    <3>7. \E m \in R : \A y \in R : m >= y
      <4>1. CASE h >= x
        BY <3>4, <3>5, <4>1
      <4>2. CASE ~(h >= x)
        <5>1. \A y \in R : x >= y
          BY <2>4, <3>4, <3>5, <4>2
        <5> QED BY <5>1
      <4> QED BY <4>1, <4>2
    <3> QED BY <2>3, <3>6, <3>7 DEF Bounded
  <2> QED BY <2>7, <2>8
<1>2. Cardinality(S) \in Nat
  BY FS_CardinalityType
<1>3. Cardinality(S) \notin T
  BY <1>1
<1>4. Bounded(S)
  <2> HIDE DEF Bounded
  <2> QED BY <1>2, <1>3
<1> QED BY <1>4

LEMMA ExtremesAre ==
  ASSUME NEW S \in SUBSET Int, IsFiniteSet(S), S # {}
  PROVE  /\ Lowest(S) \in S /\ \A y \in S : Lowest(S) <= y
         /\ Highest(S) \in S /\ \A y \in S : Highest(S) >= y
<1> DEFINE IsLow(x) == \A y \in S : x <= y
           IsHigh(x) == \A y \in S : x >= y
<1>1. \E x \in S : IsLow(x)
  BY ExtremesExist
<1>2. \E x \in S : IsHigh(x)
  BY ExtremesExist
<1>3. Lowest(S) = CHOOSE x \in S : IsLow(x)
  BY DEF Lowest
<1>4. Highest(S) = CHOOSE x \in S : IsHigh(x)
  BY DEF Highest
<1>5. Lowest(S) \in S /\ IsLow(Lowest(S)) /\ Highest(S) \in S /\ IsHigh(Highest(S))
  <2> HIDE DEF IsLow, IsHigh
  <2> QED BY <1>1, <1>2, <1>3, <1>4
<1> QED BY <1>5

-----------------------------------------------------------------------------
(* The stops some bus comes to.                                            *)
Served == UNION {Elements(Bus(n).stops) : n \in DOMAIN db.buses}
WithStops == {n \in DOMAIN db.buses : Bus(n).stops # << >>}

(* What a function makes of finitely many arguments.                       *)
LEMMA ImageFinite ==
  ASSUME NEW f, IsFiniteSet(DOMAIN f)
  PROVE  IsFiniteSet({f[x] : x \in DOMAIN f})
<1> DEFINE g == [x \in DOMAIN f |-> f[x]]
<1>1. g \in Surjection(DOMAIN f, {f[x] : x \in DOMAIN f})
  BY DEF Surjection
<1> QED BY <1>1, FS_Surjection

LEMMA ElementsFinite ==
  ASSUME NEW S, NEW s \in Seq(S)
  PROVE  IsFiniteSet(Elements(s)) /\ Elements(s) \subseteq S
<1>1. Len(s) \in Nat /\ DOMAIN s = 1 .. Len(s) /\ \A i \in DOMAIN s : s[i] \in S
  OBVIOUS
<1>2. IsFiniteSet(1 .. Len(s))
  BY <1>1, FS_Interval
<1>3. IsFiniteSet({s[i] : i \in DOMAIN s})
  BY <1>1, <1>2, ImageFinite
<1> QED BY <1>1, <1>3 DEF Elements

(* The stops that are served and the buses that have stops.                *)
LEMMA ServedFacts ==
  ASSUME db \in Catalogues
  PROVE  /\ IsFiniteSet(Served) /\ Served \subseteq DOMAIN db.place /\ Served \in SUBSET Nat
         /\ IsFiniteSet(WithStops) /\ WithStops \in SUBSET Nat
         /\ \A n \in DOMAIN db.buses : Bus(n).stops \in Seq(Served)
         /\ \A s \in Served : db.place[s] \in Int \X Int
<1>1. /\ DOMAIN db.buses \subseteq Nat /\ IsFiniteSet(DOMAIN db.buses)
      /\ DOMAIN db.place \subseteq Nat
      /\ \A n \in DOMAIN db.buses : Bus(n).stops \in Seq(DOMAIN db.place)
      /\ \A s \in DOMAIN db.place : db.place[s] \in Int \X Int
  BY MapRenderAssumption DEF Bus
<1>2. \A n \in DOMAIN db.buses :
        IsFiniteSet(Elements(Bus(n).stops)) /\ Elements(Bus(n).stops) \subseteq DOMAIN db.place
  BY <1>1, ElementsFinite
<1> DEFINE U == {Elements(Bus(n).stops) : n \in DOMAIN db.buses}
<1>3. IsFiniteSet(U)
  <2>1. PICK f : f = [n \in DOMAIN db.buses |-> Elements(Bus(n).stops)]
    OBVIOUS
  <2>2. IsFiniteSet({f[n] : n \in DOMAIN f})
    BY <1>1, <2>1, ImageFinite
  <2>3. {f[n] : n \in DOMAIN f} = U
    BY <2>1
  <2> QED BY <2>2, <2>3
<1>4. \A T \in U : IsFiniteSet(T) /\ T \subseteq DOMAIN db.place
  BY <1>2
<1>5. IsFiniteSet(Served)
  BY <1>3, <1>4, FS_UNION DEF Served
<1>6. Served \subseteq DOMAIN db.place
  BY <1>4 DEF Served
<1>7. IsFiniteSet(WithStops) /\ WithStops \in SUBSET Nat
  BY <1>1, FS_Subset DEF WithStops
<1>8. ASSUME NEW n \in DOMAIN db.buses PROVE Bus(n).stops \in Seq(Served)
  <2>1. PICK s : s = Bus(n).stops /\ s \in Seq(DOMAIN db.place)
    BY <1>1
  <2>2. \A i \in DOMAIN s : s[i] \in Elements(s)
    BY DEF Elements
  <2>3. Elements(s) \subseteq Served
    BY <2>1 DEF Served
  <2>4. Len(s) \in Nat /\ s \in [1 .. Len(s) -> DOMAIN db.place] /\ DOMAIN s = 1 .. Len(s)
    BY <2>1
  <2>5. s \in [1 .. Len(s) -> Served]
    BY <2>2, <2>3, <2>4
  <2> QED BY <2>1, <2>4, <2>5
<1> QED BY <1>1, <1>5, <1>6, <1>7, <1>8

(* The two lists of names hold each of them once.                          *)
LEMMA NamesFacts ==
  ASSUME db \in Catalogues
  PROVE  /\ Elements(NamesOfStops) = Served /\ Elements(NamesOfBuses) = WithStops
         /\ Len(NamesOfStops) \in Nat /\ DOMAIN NamesOfStops = 1 .. Len(NamesOfStops)
         /\ Len(NamesOfBuses) \in Nat /\ DOMAIN NamesOfBuses = 1 .. Len(NamesOfBuses)
         /\ \A i, j \in DOMAIN NamesOfStops : NamesOfStops[i] = NamesOfStops[j] => i = j
         /\ \A i, j \in DOMAIN NamesOfBuses : NamesOfBuses[i] = NamesOfBuses[j] => i = j
<1>1. PICK s : s = NamesOfStops /\ s = InOrder(Served)
  BY DEF NamesOfStops, Served
<1>2. PICK b : b = NamesOfBuses /\ b = InOrder(WithStops)
  BY DEF NamesOfBuses, WithStops
<1> QED BY <1>1, <1>2, ServedFacts, InOrderFacts

(* Multiplication keeps <=.                                                *)
LEMMA Times ==
  ASSUME NEW a \in Int, NEW b \in Int, NEW c \in Int, a <= b, 0 <= c
  PROVE  a * c <= b * c
OBVIOUS

LEMMA Distribute ==
  ASSUME NEW a \in Int, NEW b \in Int, NEW c \in Int
  PROVE  (a - b) * c = a * c - b * c
OBVIOUS

LEMMA TwoPaddings ==
  ASSUME NEW w \in Int, NEW p \in Int, NEW z \in Int
  PROVE  (w - 2 * p) * z + p * z = (w - p) * z
OBVIOUS

(* What a coordinate is of a place d from the edge of the network, where   *)
(* the zoom z is a fraction that fits the size w.                          *)
LEMMA Fits ==
  ASSUME NEW d \in Int, 0 <= d, NEW w \in Int, NEW p \in Int, NEW z1 \in Int, NEW z2 \in Int,
         0 <= z1, d * z1 <= (w - 2 * p) * z2
  PROVE  p * z2 <= d * z1 + p * z2 /\ d * z1 + p * z2 <= (w - p) * z2
<1>1. 0 * z1 <= d * z1
  BY Times
<1>2. 0 <= d * z1
  BY <1>1
<1>3. PICK a, b, c \in Int : a = d * z1 /\ b = p * z2 /\ c = (w - 2 * p) * z2
  OBVIOUS
<1>4. c + b = (w - p) * z2
  BY <1>3, TwoPaddings
<1>5. b <= a + b /\ a + b <= c + b
  BY <1>2, <1>3
<1> QED BY <1>3, <1>4, <1>5

LEMMA Commutes ==
  ASSUME NEW a \in Int, NEW b \in Int
  PROVE  a * b = b * a /\ a * b \in Int /\ 0 * a = 0 /\ a * 0 = 0 /\ a * 1 = a
OBVIOUS

LEMMA NotNegative ==
  ASSUME NEW a \in Int, NEW b \in Int, 0 <= a, 0 <= b
  PROVE  0 <= a * b
<1>1. 0 * b <= a * b
  BY Times
<1> QED BY <1>1, Commutes

(* The zoom of the direction that is the tighter one fits both of them.    *)
LEMMA TighterFits ==
  ASSUME NEW w \in Int, NEW h \in Int, NEW m \in Int, NEW n \in Int, 0 <= w,
         NEW x \in Int, NEW y \in Int, x <= m, y <= n, w * n <= h * m
  PROVE  x * w <= w * m /\ y * w <= h * m
<1>1. x * w <= m * w /\ y * w <= n * w
  BY Times
<1>2. m * w = w * m /\ n * w = w * n
  BY Commutes
<1>3. /\ x * w \in Int /\ w * m \in Int /\ m * w \in Int
      /\ y * w \in Int /\ n * w \in Int /\ h * m \in Int
  BY Commutes
<1>4. PICK a, b, c, d \in Int : a = y * w /\ b = n * w /\ c = w * n /\ d = h * m
  BY <1>3
<1>5. a <= b /\ b = c /\ c <= d
  BY <1>1, <1>2, <1>4
<1>6. a <= d
  BY <1>5
<1> QED BY <1>1, <1>2, <1>4, <1>6

(* A zoom for the size w by h that fits a place at x by y.                 *)
FitsBoth(z, w, h, x, y) ==
  /\ z[1] \in Int /\ z[2] \in Int /\ 0 <= z[1]
  /\ x * z[1] <= w * z[2] /\ y * z[1] <= h * z[2]

(* Which of the zooms Zoom is.                                             *)
ZoomCases ==
  /\ (~IsZero(LonExtent) /\ ~IsZero(LatExtent)
        /\ WidthZoom[1] * HeightZoom[2] <= HeightZoom[1] * WidthZoom[2]) => Zoom = WidthZoom
  /\ (~IsZero(LonExtent) /\ ~IsZero(LatExtent)
        /\ ~(WidthZoom[1] * HeightZoom[2] <= HeightZoom[1] * WidthZoom[2])) => Zoom = HeightZoom
  /\ (~IsZero(LonExtent) /\ IsZero(LatExtent)) => Zoom = WidthZoom
  /\ (IsZero(LonExtent) /\ ~IsZero(LatExtent)) => Zoom = HeightZoom
  /\ (IsZero(LonExtent) /\ IsZero(LatExtent)) => Zoom = <<0, 1>>

LEMMA ZoomIs == ZoomCases
<1>1. ASSUME ~IsZero(LonExtent), ~IsZero(LatExtent),
             WidthZoom[1] * HeightZoom[2] <= HeightZoom[1] * WidthZoom[2]
      PROVE  Zoom = WidthZoom
  BY <1>1, Zenon DEF Zoom
<1>2. ASSUME ~IsZero(LonExtent), ~IsZero(LatExtent),
             ~(WidthZoom[1] * HeightZoom[2] <= HeightZoom[1] * WidthZoom[2])
      PROVE  Zoom = HeightZoom
  BY <1>2, Zenon DEF Zoom
<1>3. ASSUME ~IsZero(LonExtent), IsZero(LatExtent) PROVE Zoom = WidthZoom
  BY <1>3, Zenon DEF Zoom
<1>4. ASSUME IsZero(LonExtent), ~IsZero(LatExtent) PROVE Zoom = HeightZoom
  BY <1>4, Zenon DEF Zoom
<1>5. ASSUME IsZero(LonExtent), IsZero(LatExtent) PROVE Zoom = <<0, 1>>
  BY <1>5, Zenon DEF Zoom
<1> QED BY <1>1, <1>2, <1>3, <1>4, <1>5, Zenon DEF ZoomCases

(* The padding leaves room, and an extent that counts as zero is zero, if  *)
(* the other does not count as zero as well.                               *)
Room == 2 * Padding < Width /\ 2 * Padding < Height
Clear ==
  \/ IsZero(LonExtent) /\ IsZero(LatExtent)
  \/ (IsZero(LonExtent) => LonExtent = 0) /\ (IsZero(LatExtent) => LatExtent = 0)

(* The zoom that is chosen fits every place of the network.                *)
LEMMA ZoomFits ==
  ASSUME Width \in Int, Height \in Int, Padding \in Int, Room, Clear,
         LonExtent \in Int, LatExtent \in Int,
         NEW x \in Int, NEW y \in Int, 0 <= x, x <= LonExtent, 0 <= y, y <= LatExtent
  PROVE  FitsBoth(Zoom, Width - 2 * Padding, Height - 2 * Padding, x, y)
<1>1. PICK w, h, m, n \in Int :
        /\ w = Width - 2 * Padding /\ h = Height - 2 * Padding
        /\ m = LonExtent /\ n = LatExtent
  OBVIOUS
<1>2. 0 <= w /\ 0 <= h /\ 0 <= m /\ 0 <= n /\ x <= m /\ y <= n
  BY <1>1 DEF Room
<1>3. WidthZoom = <<w, m>> /\ HeightZoom = <<h, n>>
  BY <1>1 DEF WidthZoom, HeightZoom
<1>4. 0 <= w * n /\ 0 <= h * m
  BY <1>2, NotNegative
<1>5. x * w <= w * m /\ y * h <= h * n
  <2>1. x * w <= m * w /\ y * h <= n * h
    BY <1>2, Times
  <2> QED BY <2>1, Commutes
<1>6. CASE /\ ~IsZero(LonExtent) /\ ~IsZero(LatExtent)
           /\ WidthZoom[1] * HeightZoom[2] <= HeightZoom[1] * WidthZoom[2]
  <2>1. w * n <= h * m
    BY <1>3, <1>6
  <2>2. x * w <= w * m /\ y * w <= h * m
    BY <1>2, <2>1, TighterFits
  <2>3. Zoom = <<w, m>>
    BY <1>3, <1>6, ZoomIs, Zenon DEF ZoomCases
  <2> QED BY <1>1, <1>2, <2>2, <2>3 DEF FitsBoth
<1>7. CASE /\ ~IsZero(LonExtent) /\ ~IsZero(LatExtent)
           /\ ~(WidthZoom[1] * HeightZoom[2] <= HeightZoom[1] * WidthZoom[2])
  <2>1. h * m <= w * n
    <3>1. PICK a, b \in Int : a = w * n /\ b = h * m
      BY Commutes
    <3>2. ~(a <= b)
      BY <1>3, <1>7, <3>1
    <3>3. b <= a
      BY <3>2
    <3> QED BY <3>1, <3>3
  <2>2. y * h <= h * n /\ x * h <= w * n
    BY <1>2, <2>1, TighterFits
  <2>3. Zoom = <<h, n>>
    BY <1>3, <1>7, ZoomIs, Zenon DEF ZoomCases
  <2> QED BY <1>1, <1>2, <2>2, <2>3 DEF FitsBoth
<1>8. CASE ~IsZero(LonExtent) /\ IsZero(LatExtent)
  <2>1. Zoom = <<w, m>>
    BY <1>3, <1>8, ZoomIs, Zenon DEF ZoomCases
  <2>2. y = 0
    BY <1>1, <1>2, <1>8 DEF Clear
  <2>3. y * w <= h * m
    BY <1>4, <2>2, Commutes
  <2> QED BY <1>1, <1>2, <1>5, <2>1, <2>3 DEF FitsBoth
<1>9. CASE IsZero(LonExtent) /\ ~IsZero(LatExtent)
  <2>1. Zoom = <<h, n>>
    BY <1>3, <1>9, ZoomIs, Zenon DEF ZoomCases
  <2>2. x = 0
    BY <1>1, <1>2, <1>9 DEF Clear
  <2>3. x * h <= w * n
    BY <1>4, <2>2, Commutes
  <2> QED BY <1>1, <1>2, <1>5, <2>1, <2>3 DEF FitsBoth
<1>10. CASE IsZero(LonExtent) /\ IsZero(LatExtent)
  <2>1. Zoom = <<0, 1>>
    BY <1>10, ZoomIs, Zenon DEF ZoomCases
  <2>2. x * 0 = 0 /\ y * 0 = 0 /\ w * 1 = w /\ h * 1 = h
    OBVIOUS
  <2> QED BY <1>1, <1>2, <2>1, <2>2 DEF FitsBoth
<1> QED BY <1>6, <1>7, <1>8, <1>9, <1>10, Zenon

(* Where a stop that is shown is, from the edges of the network.           *)
LEMMA PlacesBetweenEdges ==
  ASSUME db \in Catalogues, NEW s \in Served
  PROVE  /\ LonExtent \in Int /\ LatExtent \in Int /\ MinLon \in Int /\ MaxLat \in Int
         /\ db.place[s][1] \in Int /\ db.place[s][2] \in Int
         /\ MinLon <= db.place[s][1] /\ db.place[s][1] - MinLon <= LonExtent
         /\ db.place[s][2] <= MaxLat /\ MaxLat - db.place[s][2] <= LatExtent
<1>1. PICK f : f = [t \in Served |-> db.place[t][1]]
  OBVIOUS
<1>2. PICK g : g = [t \in Served |-> db.place[t][2]]
  OBVIOUS
<1>3. IsFiniteSet(Served) /\ \A t \in Served : db.place[t][1] \in Int /\ db.place[t][2] \in Int
  BY ServedFacts
<1>4. Shown = {db.place[t] : t \in Served}
  BY NamesFacts DEF Shown
<1>5. PICK A : A = {p[1] : p \in Shown}
  OBVIOUS
<1>6. PICK B : B = {p[2] : p \in Shown}
  OBVIOUS
<1>7. A = {f[t] : t \in DOMAIN f} /\ B = {g[t] : t \in DOMAIN g}
  BY <1>1, <1>2, <1>4, <1>5, <1>6
<1>8. /\ A \in SUBSET Int /\ IsFiniteSet(A) /\ db.place[s][1] \in A
      /\ B \in SUBSET Int /\ IsFiniteSet(B) /\ db.place[s][2] \in B
  <2>1. IsFiniteSet(A) /\ IsFiniteSet(B)
    BY <1>1, <1>2, <1>3, <1>7, ImageFinite
  <2> QED BY <2>1, <1>1, <1>2, <1>3, <1>7
<1>9. /\ Lowest(A) \in Int /\ Lowest(A) <= db.place[s][1]
      /\ Highest(A) \in Int /\ Highest(A) >= db.place[s][1]
      /\ Lowest(B) \in Int /\ Lowest(B) <= db.place[s][2]
      /\ Highest(B) \in Int /\ Highest(B) >= db.place[s][2]
  BY <1>8, ExtremesAre
<1>10. /\ MinLon = Lowest(A) /\ LonExtent = Highest(A) - Lowest(A)
       /\ MaxLat = Highest(B) /\ LatExtent = Highest(B) - Lowest(B)
  BY <1>5, <1>6 DEF MinLon, LonExtent, MaxLat, LatExtent
<1> QED BY <1>3, <1>9, <1>10

(* A point within the padding.                                             *)
OnCanvas(point) ==
  /\ Padding * Zoom[2] <= point[1] /\ point[1] <= (Width - Padding) * Zoom[2]
  /\ Padding * Zoom[2] <= point[2] /\ point[2] <= (Height - Padding) * Zoom[2]

(* Every stop is projected to a point of the canvas.                       *)
LEMMA StopsOnCanvas ==
  ASSUME Width \in Int, Height \in Int, Padding \in Int, Room, Clear,
         db \in Catalogues, NEW s \in Served
  PROVE  OnCanvas(Projected(s))
<1>1. PICK x, y \in Int : x = db.place[s][1] - MinLon /\ y = MaxLat - db.place[s][2]
  <2>1. /\ MinLon \in Int /\ MaxLat \in Int
        /\ db.place[s][1] \in Int /\ db.place[s][2] \in Int
    BY PlacesBetweenEdges
  <2> QED BY <2>1
<1>2. /\ LonExtent \in Int /\ LatExtent \in Int
      /\ 0 <= x /\ x <= LonExtent /\ 0 <= y /\ y <= LatExtent
  BY <1>1, PlacesBetweenEdges
<1>3. FitsBoth(Zoom, Width - 2 * Padding, Height - 2 * Padding, x, y)
  BY <1>1, <1>2, ZoomFits
<1>4. Projected(s) = <<x * Zoom[1] + Padding * Zoom[2], y * Zoom[1] + Padding * Zoom[2]>>
  BY <1>1 DEF Projected
<1>5. PICK z1, z2 \in Int : z1 = Zoom[1] /\ z2 = Zoom[2]
  BY <1>3 DEF FitsBoth
<1>6. 0 <= z1 /\ x * z1 <= (Width - 2 * Padding) * z2 /\ y * z1 <= (Height - 2 * Padding) * z2
  BY <1>3, <1>5 DEF FitsBoth
<1>7. /\ Padding * z2 <= x * z1 + Padding * z2 /\ x * z1 + Padding * z2 <= (Width - Padding) * z2
      /\ Padding * z2 <= y * z1 + Padding * z2 /\ y * z1 + Padding * z2 <= (Height - Padding) * z2
  BY <1>2, <1>6, Fits
<1>8. Projected(s)[1] = x * z1 + Padding * z2 /\ Projected(s)[2] = y * z1 + Padding * z2
  BY <1>4, <1>5
<1> QED BY <1>5, <1>7, <1>8 DEF OnCanvas

-----------------------------------------------------------------------------
(* As long as the settings and the catalogue are the same, so is the way   *)
(* from a stop to its point.                                               *)
LEMMA SameNames ==
  ASSUME db' = db
  PROVE  /\ NamesOfStops' = NamesOfStops /\ NamesOfBuses' = NamesOfBuses
         /\ Served' = Served /\ \A n : Bus(n)' = Bus(n)
BY DEF NamesOfStops, NamesOfBuses, Served, Bus

LEMMA SamePoints ==
  ASSUME db' = db, settings' = settings
  PROVE  \A s : Projected(s)' = Projected(s)
<1>1. Width' = Width /\ Height' = Height /\ Padding' = Padding
  BY DEF Width, Height, Padding
<1>2. Shown' = Shown
  BY SameNames DEF Shown
<1>3. MinLon' = MinLon /\ MaxLat' = MaxLat
  BY <1>2 DEF MinLon, MaxLat
<1>4. LonExtent' = LonExtent /\ LatExtent' = LatExtent
  BY <1>2, <1>3 DEF LonExtent, LatExtent
<1>5. WidthZoom' = WidthZoom /\ HeightZoom' = HeightZoom
  BY <1>1, <1>4 DEF WidthZoom, HeightZoom
<1>6. \A e : IsZero(e)' = IsZero(e)
  BY DEF IsZero
<1>7. ZoomCases'
  BY ZoomIs, PTL
<1>8. Zoom' = Zoom
  BY <1>4, <1>5, <1>6, <1>7, ZoomIs, Zenon DEF ZoomCases, IsZero
<1> QED BY <1>1, <1>3, <1>8 DEF Projected

-----------------------------------------------------------------------------
(* How often an object of a kind is in a picture for a name.               *)
N(kind, of, r) == Cardinality({i \in DOMAIN r : r[i].kind = kind /\ r[i].of = of})

(* Where the objects of two sequences are when they are joined.            *)
LEMMA JoinFacts ==
  ASSUME NEW r, IsSequence(r), NEW s, IsSequence(s)
  PROVE  /\ IsSequence(r \o s) /\ Len(r) \in Nat /\ Len(s) \in Nat
         /\ DOMAIN r = 1 .. Len(r) /\ DOMAIN s = 1 .. Len(s)
         /\ DOMAIN (r \o s) = 1 .. Len(r) + Len(s)
         /\ \A i \in 1 .. Len(r) : (r \o s)[i] = r[i]
         /\ \A i \in 1 .. Len(s) : (r \o s)[Len(r) + i] = s[i]
<1>1. PICK S : S = Elements(r) \cup Elements(s)
  OBVIOUS
<1>2. r \in Seq(Elements(r)) /\ s \in Seq(Elements(s))
  BY DEF IsSequence
<1>3. r \in Seq(S) /\ s \in Seq(S)
  <2>1. ASSUME NEW T, T \subseteq S, NEW q \in Seq(T) PROVE q \in Seq(S)
    <3>1. Len(q) \in Nat /\ q \in [1 .. Len(q) -> T]
      OBVIOUS
    <3>2. q \in [1 .. Len(q) -> S]
      BY <2>1, <3>1
    <3> QED BY <3>1, <3>2
  <2>2. Elements(r) \subseteq S /\ Elements(s) \subseteq S
    BY <1>1
  <2> QED BY <1>2, <2>1, <2>2
<1>4. PICK q : q = r \o s
  OBVIOUS
<1>5. /\ q \in Seq(S) /\ Len(q) = Len(r) + Len(s)
      /\ \A i \in 1 .. Len(r) + Len(s) : q[i] = IF i <= Len(r) THEN r[i] ELSE s[i - Len(r)]
  BY <1>3, <1>4, ConcatProperties
<1>6. Len(r) \in Nat /\ Len(s) \in Nat /\ DOMAIN r = 1 .. Len(r) /\ DOMAIN s = 1 .. Len(s)
  BY <1>3
<1>7. DOMAIN q = 1 .. Len(q) /\ Len(q) \in Nat /\ q = [i \in 1 .. Len(q) |-> q[i]]
  BY <1>5
<1>8. IsSequence(q)
  <2>1. \A i \in 1 .. Len(q) : q[i] \in Elements(q)
    BY <1>7 DEF Elements
  <2>2. q \in [1 .. Len(q) -> Elements(q)]
    BY <1>7, <2>1
  <2> QED BY <1>7, <2>2 DEF IsSequence
<1>9. \A i \in 1 .. Len(r) : q[i] = r[i]
  BY <1>5, <1>6
<1>10. \A i \in 1 .. Len(s) : q[Len(r) + i] = s[i]
  BY <1>5, <1>6
<1> QED BY <1>4, <1>5, <1>6, <1>7, <1>8, <1>9, <1>10

LEMMA OneIsSequence ==
  ASSUME NEW x
  PROVE  /\ IsSequence(<<x>>) /\ Len(<<x>>) = 1 /\ DOMAIN <<x>> = 1 .. 1 /\ <<x>>[1] = x
<1>1. <<x>> \in Seq({x}) /\ Elements(<<x>>) = {x}
  BY DEF Elements
<1> QED BY <1>1 DEF IsSequence

(* Counts add up.                                                          *)
LEMMA CountJoins ==
  ASSUME NEW r, IsSequence(r), NEW s, IsSequence(s), NEW kind, NEW of
  PROVE  /\ N(kind, of, r \o s) = N(kind, of, r) + N(kind, of, s)
         /\ N(kind, of, r) \in Nat /\ N(kind, of, s) \in Nat
<1>1. PICK m, n \in Nat : m = Len(r) /\ n = Len(s)
  BY JoinFacts
<1>2. PICK q : q = r \o s
  OBVIOUS
<1>3. /\ DOMAIN r = 1 .. m /\ DOMAIN s = 1 .. n /\ DOMAIN q = 1 .. m + n
      /\ \A i \in 1 .. m : q[i] = r[i]
      /\ \A i \in 1 .. n : q[m + i] = s[i]
  <2>1. DOMAIN r = 1 .. m /\ DOMAIN s = 1 .. n /\ DOMAIN q = 1 .. m + n
    BY <1>1, <1>2, JoinFacts
  <2>2. \A i \in 1 .. m : q[i] = r[i]
    BY <1>1, <1>2, JoinFacts
  <2>3. \A i \in 1 .. n : q[m + i] = s[i]
    BY <1>1, <1>2, JoinFacts
  <2> QED BY <2>1, <2>2, <2>3
<1>4. PICK A : A = {i \in 1 .. m : r[i].kind = kind /\ r[i].of = of}
  OBVIOUS
<1>5. PICK B : B = {i \in 1 .. n : s[i].kind = kind /\ s[i].of = of}
  OBVIOUS
<1>6. PICK C : C = {i \in 1 .. m + n : q[i].kind = kind /\ q[i].of = of}
  OBVIOUS
<1>7. PICK D : D = {m + i : i \in B}
  OBVIOUS
<1>8. IsFiniteSet(A) /\ IsFiniteSet(B) /\ Cardinality(A) \in Nat /\ Cardinality(B) \in Nat
  <2>1. IsFiniteSet(1 .. m) /\ IsFiniteSet(1 .. n)
    BY FS_Interval
  <2>2. A \subseteq 1 .. m /\ B \subseteq 1 .. n
    BY <1>4, <1>5
  <2>3. IsFiniteSet(A) /\ IsFiniteSet(B)
    BY <2>1, <2>2, FS_Subset
  <2> QED BY <2>3, FS_CardinalityType
<1>9. IsFiniteSet(D) /\ Cardinality(D) = Cardinality(B)
  <2>1. PICK f : f = [i \in B |-> m + i]
    OBVIOUS
  <2>2. f \in Surjection(B, D) /\ f \in Injection(B, D)
    <3>1. f \in [B -> D] /\ \A y \in D : \E i \in B : f[i] = y
      BY <1>7, <2>1
    <3>2. \A i, j \in B : f[i] = f[j] => i = j
      BY <1>5, <2>1
    <3> QED BY <3>1, <3>2 DEF Injection, Surjection, IsInjective
  <2> QED BY <1>8, <2>2, FS_Surjection
<1>10. C = A \cup D
  <2>1. ASSUME NEW i \in C PROVE i \in A \cup D
    <3>1. CASE i <= m
      <4>1. i \in 1 .. m
        BY <1>6, <3>1
      <4> QED BY <1>3, <1>4, <1>6, <4>1
    <3>2. CASE ~(i <= m)
      <4>1. PICK j \in 1 .. n : i = m + j
        <5>1. i - m \in 1 .. n /\ i = m + (i - m)
          BY <1>6, <3>2
        <5> QED BY <5>1
      <4>2. j \in B
        BY <1>3, <1>5, <1>6, <4>1
      <4> QED BY <1>7, <4>1, <4>2
    <3> QED BY <3>1, <3>2
  <2>2. ASSUME NEW i \in A PROVE i \in C
    <3>1. i \in 1 .. m /\ i \in 1 .. m + n
      BY <1>4
    <3> QED BY <1>3, <1>4, <1>6, <3>1
  <2>3. ASSUME NEW j \in B PROVE m + j \in C
    <3>1. j \in 1 .. n /\ m + j \in 1 .. m + n
      BY <1>5
    <3> QED BY <1>3, <1>5, <1>6, <3>1
  <2> QED BY <1>7, <2>1, <2>2, <2>3
<1>11. A \cap D = {}
  BY <1>4, <1>5, <1>7
<1>12. Cardinality(C) = Cardinality(A) + Cardinality(B)
  <2>1. Cardinality(A \cup D) = Cardinality(A) + Cardinality(D) - Cardinality(A \cap D)
    BY <1>8, <1>9, FS_Union
  <2>2. Cardinality(A \cap D) = 0
    BY <1>11, FS_EmptySet
  <2> QED BY <1>8, <1>9, <1>10, <2>1, <2>2
<1>13. /\ N(kind, of, r) = Cardinality(A) /\ N(kind, of, s) = Cardinality(B)
       /\ N(kind, of, q) = Cardinality(C)
  BY <1>3, <1>4, <1>5, <1>6 DEF N
<1> QED BY <1>2, <1>8, <1>12, <1>13

LEMMA CountOne ==
  ASSUME NEW x, NEW kind, NEW of
  PROVE  N(kind, of, <<x>>) = IF x.kind = kind /\ x.of = of THEN 1 ELSE 0
<1>1. PICK S : S = {i \in DOMAIN <<x>> : <<x>>[i].kind = kind /\ <<x>>[i].of = of}
  OBVIOUS
<1>2. DOMAIN <<x>> = 1 .. 1 /\ <<x>>[1] = x
  BY OneIsSequence
<1>3. \A i : i \in 1 .. 1 <=> i = 1
  OBVIOUS
<1>4. CASE x.kind = kind /\ x.of = of
  <2>1. S = {1}
    BY <1>1, <1>2, <1>3, <1>4
  <2> QED BY <1>1, <1>4, <2>1, FS_Singleton DEF N
<1>5. CASE ~(x.kind = kind /\ x.of = of)
  <2>1. S = {}
    BY <1>1, <1>2, <1>3, <1>5
  <2> QED BY <1>1, <1>5, <2>1, FS_EmptySet DEF N
<1> QED BY <1>4, <1>5

-----------------------------------------------------------------------------
TitleKinds == {"bus title", "stop title"}
Kinds == TitleKinds \cup {"line", "bus background", "circle", "stop background"}

(* The layers of the kinds.                                                *)
LEMMA LayersAre ==
  /\ Layer("line") = 1 /\ Layer("bus background") = 2 /\ Layer("bus title") = 2
  /\ Layer("circle") = 3 /\ Layer("stop background") = 4 /\ Layer("stop title") = 4
<1>1. Layer("line") = 1
  BY Zenon DEF Layer
<1>2. Layer("bus background") = 2 /\ Layer("bus title") = 2
  BY Zenon DEF Layer
<1>3. Layer("circle") = 3
  BY Zenon DEF Layer
<1>4. Layer("stop background") = 4 /\ Layer("stop title") = 4
  BY Zenon DEF Layer
<1> QED BY <1>1, <1>2, <1>3, <1>4

LEMMA LayersAreNumbers == \A kind \in Kinds : Layer(kind) \in Nat
<1> SUFFICES ASSUME NEW kind \in Kinds PROVE Layer(kind) \in Nat
  OBVIOUS
<1>1. \E l \in {1, 2, 3, 4} : Layer(kind) = l
  BY LayersAre, Zenon DEF Kinds, TitleKinds
<1> QED BY <1>1

(* Every point of an object is where some stop is.                         *)
OnMap(o) == \A k \in DOMAIN o.points : \E s \in Served : o.points[k] = Projected(s)

(* The colour of the m-th bus by its name.                                 *)
PaletteAt(m) == settings.color_palette_[((m - 1) % Len(settings.color_palette_)) + 1]

Explained(o) ==
  /\ o.kind \in Kinds
  /\ o.kind = "line" =>
       /\ settings.color_palette_ # << >>
       /\ \E m \in DOMAIN NamesOfBuses : o.of = NamesOfBuses[m] /\ o.stroke = PaletteAt(m)
  /\ o.kind = "bus title" =>
       /\ settings.color_palette_ # << >>
       /\ \E m \in DOMAIN NamesOfBuses : o.of = NamesOfBuses[m] /\ o.fill = PaletteAt(m)

(* A background for a title.                                               *)
Under(o, title) ==
  /\ title.kind = "bus title" => o.kind = "bus background"
  /\ title.kind = "stop title" => o.kind = "stop background"
  /\ o.of = title.of /\ o.points = title.points /\ o.data = title.data /\ o.label = title.label
  /\ o.fill = settings.underlayer_color_ /\ o.stroke = settings.underlayer_color_
  /\ title.kind = "bus title" => title.label = settings.bus_label_
  /\ title.kind = "stop title" => title.label = settings.stop_label_
  /\ title.of \in DOMAIN db.buses \cup DOMAIN db.place
  /\ title.data = SetData(db.name[title.of])

(* Objects in the order of their layers, from one layer to another, each   *)
(* title over its background.                                              *)
Picture(r, low, high) ==
  /\ IsSequence(r)
  /\ \A i \in DOMAIN r : OnMap(r[i]) /\ Explained(r[i])
  /\ \A i \in DOMAIN r : low <= Layer(r[i].kind) /\ Layer(r[i].kind) <= high
  /\ \A i, j \in DOMAIN r : i < j => Layer(r[i].kind) <= Layer(r[j].kind)
  /\ \A i \in DOMAIN r : r[i].kind \in TitleKinds => i > 1 /\ Under(r[i - 1], r[i])

LEMMA EmptyPicture == \A low, high : Picture(<< >>, low, high)
<1>1. DOMAIN << >> = {} /\ IsSequence(<< >>)
  BY DEF IsSequence
<1> QED BY <1>1 DEF Picture

(* A picture goes on with one that begins where it ends.                   *)
LEMMA PicturesJoin ==
  ASSUME NEW a \in Nat, NEW b \in Nat, NEW c \in Nat, a <= b, b <= c,
         NEW r, Picture(r, a, b), NEW s, Picture(s, b, c)
  PROVE  Picture(r \o s, a, c)
<1>0. IsSequence(r) /\ IsSequence(s)
  BY DEF Picture
<1>1. PICK m, n \in Nat : m = Len(r) /\ n = Len(s)
  BY <1>0, JoinFacts
<1>2. PICK q : q = r \o s
  OBVIOUS
<1>3. IsSequence(q) /\ DOMAIN r = 1 .. m /\ DOMAIN s = 1 .. n /\ DOMAIN q = 1 .. m + n
  BY <1>0, <1>1, <1>2, JoinFacts
<1>4. \A i \in 1 .. m : q[i] = r[i]
  BY <1>0, <1>1, <1>2, JoinFacts
<1>5. \A i \in 1 .. n : q[m + i] = s[i]
  BY <1>0, <1>1, <1>2, JoinFacts
<1>6. ASSUME NEW i \in 1 .. m + n
      PROVE  \/ i \in 1 .. m /\ q[i] = r[i]
             \/ \E j \in 1 .. n : i = m + j /\ q[i] = s[j]
  <2>1. CASE i <= m
    BY <1>4, <2>1
  <2>2. CASE ~(i <= m)
    <3>1. i - m \in 1 .. n /\ i = m + (i - m)
      BY <2>2
    <3> QED BY <1>5, <3>1
  <2> QED BY <2>1, <2>2
<1>7. /\ \A i \in 1 .. m : OnMap(r[i]) /\ Explained(r[i])
      /\ \A i \in 1 .. n : OnMap(s[i]) /\ Explained(s[i])
  BY <1>3 DEF Picture
<1>8. \A i \in 1 .. m + n : OnMap(q[i]) /\ Explained(q[i])
  BY <1>6, <1>7
<1>9. /\ \A i \in 1 .. m : Layer(r[i].kind) \in Nat
      /\ \A i \in 1 .. n : Layer(s[i].kind) \in Nat
  BY <1>7, LayersAreNumbers DEF Explained
<1>10. /\ \A i \in 1 .. m : a <= Layer(r[i].kind) /\ Layer(r[i].kind) <= b
       /\ \A i \in 1 .. n : b <= Layer(s[i].kind) /\ Layer(s[i].kind) <= c
       /\ \A i, j \in 1 .. m : i < j => Layer(r[i].kind) <= Layer(r[j].kind)
       /\ \A i, j \in 1 .. n : i < j => Layer(s[i].kind) <= Layer(s[j].kind)
  BY <1>3 DEF Picture
<1>11. ASSUME NEW i \in 1 .. m + n PROVE a <= Layer(q[i].kind) /\ Layer(q[i].kind) <= c
  <2>1. CASE i \in 1 .. m /\ q[i] = r[i]
    <3>1. PICK l \in Nat : l = Layer(r[i].kind) /\ a <= l /\ l <= b
      BY <1>9, <1>10, <2>1
    <3> QED BY <2>1, <3>1
  <2>2. CASE \E j \in 1 .. n : i = m + j /\ q[i] = s[j]
    <3>1. PICK j \in 1 .. n : q[i] = s[j]
      BY <2>2
    <3>2. PICK l \in Nat : l = Layer(s[j].kind) /\ b <= l /\ l <= c
      BY <1>9, <1>10
    <3> QED BY <3>1, <3>2
  <2> QED BY <1>6, <2>1, <2>2
<1>12. ASSUME NEW i \in 1 .. m + n, NEW j \in 1 .. m + n, i < j
       PROVE  Layer(q[i].kind) <= Layer(q[j].kind)
  <2>1. CASE j <= m
    <3>1. i \in 1 .. m /\ j \in 1 .. m
      BY <1>12, <2>1
    <3> QED BY <1>4, <1>10, <1>12, <3>1
  <2>2. CASE i <= m /\ ~(j <= m)
    <3>1. i \in 1 .. m
      BY <2>2
    <3>2. PICK k \in 1 .. n : q[j] = s[k]
      BY <1>6, <2>2
    <3>3. PICK l, h \in Nat : l = Layer(r[i].kind) /\ l <= b /\ h = Layer(s[k].kind) /\ b <= h
      BY <1>9, <1>10, <3>1
    <3> QED BY <1>4, <3>1, <3>2, <3>3
  <2>3. CASE ~(i <= m)
    <3>1. PICK k \in 1 .. n : i = m + k /\ q[i] = s[k]
      BY <1>6, <2>3
    <3>2. PICK o \in 1 .. n : j = m + o /\ q[j] = s[o]
      BY <1>6, <1>12, <2>3
    <3>3. k < o
      BY <1>12, <3>1, <3>2
    <3> QED BY <1>10, <3>1, <3>2, <3>3
  <2> QED BY <2>1, <2>2, <2>3
<1>13. /\ \A i \in 1 .. m : r[i].kind \in TitleKinds => i > 1 /\ Under(r[i - 1], r[i])
       /\ \A i \in 1 .. n : s[i].kind \in TitleKinds => i > 1 /\ Under(s[i - 1], s[i])
  BY <1>3 DEF Picture
<1>14. ASSUME NEW i \in 1 .. m + n, q[i].kind \in TitleKinds
       PROVE  i > 1 /\ Under(q[i - 1], q[i])
  <2>1. CASE i \in 1 .. m /\ q[i] = r[i]
    <3>1. i > 1 /\ Under(r[i - 1], r[i])
      BY <1>13, <1>14, <2>1
    <3>2. i - 1 \in 1 .. m
      BY <2>1, <3>1
    <3> QED BY <1>4, <2>1, <3>1, <3>2
  <2>2. CASE \E j \in 1 .. n : i = m + j /\ q[i] = s[j]
    <3>1. PICK j \in 1 .. n : i = m + j /\ q[i] = s[j]
      BY <2>2
    <3>2. j > 1 /\ Under(s[j - 1], s[j])
      BY <1>13, <1>14, <3>1
    <3>3. j - 1 \in 1 .. n /\ i - 1 = m + (j - 1)
      BY <3>1, <3>2
    <3>4. q[i - 1] = s[j - 1]
      BY <1>5, <3>3
    <3> QED BY <3>1, <3>2, <3>4
  <2> QED BY <1>6, <2>1, <2>2
<1> QED BY <1>2, <1>3, <1>8, <1>11, <1>12, <1>14 DEF Picture

(* A picture of one object, and of a title over its background.            *)
LEMMA PictureOfOne ==
  ASSUME NEW x, OnMap(x), Explained(x), x.kind \notin TitleKinds,
         NEW l \in Nat, Layer(x.kind) = l
  PROVE  Picture(<<x>>, l, l)
<1>1. PICK r : r = <<x>>
  OBVIOUS
<1>2. IsSequence(r) /\ DOMAIN r = 1 .. 1 /\ r[1] = x
  BY <1>1, OneIsSequence
<1>3. \A i \in DOMAIN r : i = 1 /\ r[i] = x
  BY <1>2
<1>4. \A i, j \in DOMAIN r : ~(i < j)
  BY <1>3
<1> QED BY <1>1, <1>2, <1>3, <1>4 DEF Picture

LEMMA PictureOfTwo ==
  ASSUME NEW x, OnMap(x), Explained(x), x.kind \notin TitleKinds,
         NEW y, OnMap(y), Explained(y), Under(x, y),
         NEW l \in Nat, Layer(x.kind) = l, Layer(y.kind) = l
  PROVE  Picture(<<x, y>>, l, l)
<1>1. PICK r : r = <<x, y>>
  OBVIOUS
<1>2. DOMAIN r = 1 .. 2 /\ r[1] = x /\ r[2] = y
  BY <1>1
<1>3. IsSequence(r)
  <2>1. r \in Seq({x, y}) /\ Elements(r) = {x, y}
    BY <1>1 DEF Elements
  <2> QED BY <2>1 DEF IsSequence
<1>4. \A i \in DOMAIN r : (i = 1 /\ r[i] = x) \/ (i = 2 /\ r[i] = y)
  BY <1>2
<1>5. \A i \in DOMAIN r : Layer(r[i].kind) = l
  BY <1>4
<1>6. \A i \in DOMAIN r : r[i].kind \in TitleKinds => i > 1 /\ Under(r[i - 1], r[i])
  <2>1. ASSUME NEW i \in DOMAIN r, r[i].kind \in TitleKinds PROVE i = 2 /\ i - 1 = 1
    BY <1>4, <2>1
  <2> QED BY <1>2, <2>1
<1>7. \A i \in DOMAIN r : OnMap(r[i]) /\ Explained(r[i])
  BY <1>4
<1> QED BY <1>1, <1>3, <1>5, <1>6, <1>7 DEF Picture

-----------------------------------------------------------------------------
(* The kinds of objects that are counted: one for each loop of RenderMap,  *)
(* which draws it in the layer of its number.                              *)
CountedKinds == {"line", "bus title", "circle", "stop title"}

LEMMA OneKindPerLayer ==
  /\ \A kind \in CountedKinds : kind \in Kinds
  /\ \A k1, k2 \in CountedKinds : Layer(k1) = Layer(k2) => k1 = k2
  /\ \A kind \in CountedKinds : Layer(kind) \in 1 .. 4
<1>1. \A kind \in CountedKinds : kind \in Kinds
  BY Zenon DEF CountedKinds, Kinds, TitleKinds
<1>2. /\ Layer("line") = 1 /\ Layer("bus title") = 2
      /\ Layer("circle") = 3 /\ Layer("stop title") = 4
  BY LayersAre
<1>3. \A kind \in CountedKinds :
        \/ kind = "line" /\ Layer(kind) = 1
        \/ kind = "bus title" /\ Layer(kind) = 2
        \/ kind = "circle" /\ Layer(kind) = 3
        \/ kind = "stop title" /\ Layer(kind) = 4
  BY <1>2, Zenon DEF CountedKinds
<1>4. ASSUME NEW k1 \in CountedKinds, NEW k2 \in CountedKinds, Layer(k1) = Layer(k2)
      PROVE  k1 = k2
  <2>1. PICK l : l = Layer(k1) /\ l = Layer(k2)
    BY <1>4
  <2>2. 1 # 2 /\ 1 # 3 /\ 1 # 4 /\ 2 # 3 /\ 2 # 4 /\ 3 # 4
    OBVIOUS
  <2> QED BY <1>3, <2>1, <2>2, Zenon
<1>5. ASSUME NEW kind \in CountedKinds PROVE Layer(kind) \in 1 .. 4
  <2>1. 1 \in 1 .. 4 /\ 2 \in 1 .. 4 /\ 3 \in 1 .. 4 /\ 4 \in 1 .. 4
    OBVIOUS
  <2> QED BY <1>3, <2>1, Zenon
<1> QED BY <1>1, <1>4, <1>5

(* Objects of layer l, with those that are counted m times there for of,   *)
(* and for nothing else.                                                   *)
Draws(o, l, of, m) ==
  /\ Picture(o, l, l)
  /\ \A kind \in CountedKinds : \A x :
       N(kind, x, o) = IF Layer(kind) = l /\ x = of THEN m ELSE 0

(* One object of a counted kind; one over its background; two of these.    *)
LEMMA DrawsOne ==
  ASSUME NEW x, OnMap(x), Explained(x), x.kind \notin TitleKinds, x.kind \in CountedKinds,
         NEW l, Layer(x.kind) = l, NEW of, x.of = of
  PROVE  Draws(<<x>>, l, of, 1)
<1>1. l \in Nat
  BY OneKindPerLayer
<1>2. Picture(<<x>>, l, l)
  BY <1>1, PictureOfOne
<1>3. ASSUME NEW kind \in CountedKinds, NEW y
      PROVE  N(kind, y, <<x>>) = IF Layer(kind) = l /\ y = of THEN 1 ELSE 0
  <2>1. x.kind = kind <=> Layer(kind) = l
    BY OneKindPerLayer
  <2>2. N(kind, y, <<x>>) = IF x.kind = kind /\ x.of = y THEN 1 ELSE 0
    BY CountOne
  <2> QED BY <2>1, <2>2
<1> QED BY <1>2, <1>3 DEF Draws

LEMMA DrawsTwo ==
  ASSUME NEW x, OnMap(x), Explained(x), x.kind \notin CountedKinds, x.kind \notin TitleKinds,
         NEW y, OnMap(y), Explained(y), Under(x, y), y.kind \in CountedKinds,
         NEW l, Layer(x.kind) = l, Layer(y.kind) = l, NEW of, y.of = of
  PROVE  Draws(<<x, y>>, l, of, 1)
<1>1. l \in Nat
  BY OneKindPerLayer
<1>2. Picture(<<x, y>>, l, l)
  BY <1>1, PictureOfTwo
<1>3. ASSUME NEW kind \in CountedKinds, NEW z
      PROVE  N(kind, z, <<x, y>>) = IF Layer(kind) = l /\ z = of THEN 1 ELSE 0
  <2>1. y.kind = kind <=> Layer(kind) = l
    BY OneKindPerLayer
  <2>2. N(kind, z, <<y>>) = IF y.kind = kind /\ y.of = z THEN 1 ELSE 0
    BY CountOne
  <2>3. N(kind, z, <<x>>) = 0
    BY CountOne
  <2>4. <<x, y>> = <<x>> \o <<y>>
    OBVIOUS
  <2>5. N(kind, z, <<x>> \o <<y>>) = N(kind, z, <<x>>) + N(kind, z, <<y>>)
    BY CountJoins, OneIsSequence
  <2>6. PICK a, b, c : a = N(kind, z, <<y>>) /\ b = N(kind, z, <<x>>) /\ c = N(kind, z, <<x, y>>)
    OBVIOUS
  <2>7. a \in Nat /\ b = 0 /\ c = b + a
    <3>1. a \in Nat
      BY <2>2, <2>6
    <3>2. b = 0
      BY <2>3, <2>6
    <3>3. c = b + a
      BY <2>4, <2>5, <2>6, Zenon
    <3> QED BY <3>1, <3>2, <3>3
  <2>8. c = a
    BY <2>7
  <2>9. N(kind, z, <<x, y>>) = N(kind, z, <<y>>)
    BY <2>6, <2>8
  <2> QED BY <2>1, <2>2, <2>9
<1> QED BY <1>2, <1>3 DEF Draws

LEMMA DrawsTwice ==
  ASSUME NEW r, NEW s, NEW l \in Nat, NEW of, Draws(r, l, of, 1), Draws(s, l, of, 1)
  PROVE  Draws(r \o s, l, of, 2)
<1>1. Picture(r \o s, l, l)
  BY PicturesJoin DEF Draws
<1>2. IsSequence(r) /\ IsSequence(s)
  BY DEF Draws, Picture
<1>3. ASSUME NEW kind \in CountedKinds, NEW x
      PROVE  N(kind, x, r \o s) = IF Layer(kind) = l /\ x = of THEN 2 ELSE 0
  <2>1. /\ N(kind, x, r) = IF Layer(kind) = l /\ x = of THEN 1 ELSE 0
        /\ N(kind, x, s) = IF Layer(kind) = l /\ x = of THEN 1 ELSE 0
    BY DEF Draws
  <2>2. N(kind, x, r \o s) = N(kind, x, r) + N(kind, x, s)
    BY <1>2, CountJoins
  <2> QED BY <2>1, <2>2
<1> QED BY <1>1, <1>3 DEF Draws

-----------------------------------------------------------------------------
(* What each of the functions of MapRender draws.                          *)
LEMMA ShapeFields ==
  ASSUME NEW kind, NEW of, NEW points, NEW fill, NEW stroke
  PROVE  /\ Shape(kind, of, points, fill, stroke).kind = kind
         /\ Shape(kind, of, points, fill, stroke).of = of
         /\ Shape(kind, of, points, fill, stroke).points = points
         /\ Shape(kind, of, points, fill, stroke).fill = fill
         /\ Shape(kind, of, points, fill, stroke).stroke = stroke
BY DEF Shape

IsText(t, kind, of, points, fill, stroke, label) ==
  /\ t.kind = kind /\ t.of = of /\ t.points = points /\ t.fill = fill /\ t.stroke = stroke
  /\ t.label = label /\ t.data = SetData(db.name[of])

LEMMA TextFields ==
  ASSUME NEW kind, NEW of, NEW point, NEW fill, NEW stroke, NEW label,
         NEW t, t = Text(kind, of, point, fill, stroke, label)
  PROVE  IsText(t, kind, of, <<point>>, fill, stroke, label)
<1>1. PICK points : points = <<point>>
  OBVIOUS
<1>2. PICK s : s = Shape(kind, of, points, fill, stroke)
  OBVIOUS
<1>3. PICK e : e = << >>
  OBVIOUS
<1>4. s = [kind |-> kind, of |-> of, points |-> points, fill |-> fill, stroke |-> stroke,
           label |-> e, data |-> e]
  BY <1>2, <1>3 DEF Shape
<1>5. PICK d : d = SetData(db.name[of])
  OBVIOUS
<1>6. t = [[s EXCEPT !.label = label] EXCEPT !.data = d]
  BY <1>1, <1>2, <1>5 DEF Text
<1>7. /\ t.kind = kind /\ t.of = of /\ t.points = points /\ t.fill = fill
      /\ t.stroke = stroke /\ t.label = label /\ t.data = d
  BY <1>4, <1>6
<1> QED BY <1>1, <1>5, <1>7 DEF IsText

LEMMA OnePointOnMap ==
  ASSUME NEW s \in Served, NEW o, o.points = <<Projected(s)>>
  PROVE  OnMap(o)
<1>1. PICK p : p = Projected(s)
  OBVIOUS
<1>2. DOMAIN <<p>> = 1 .. 1 /\ <<p>>[1] = p
  BY OneIsSequence
<1>3. \A k \in 1 .. 1 : k = 1
  OBVIOUS
<1> QED BY <1>1, <1>2, <1>3 DEF OnMap

(* The way there and back goes through stops that are served.              *)
LEMMA WayIsServed ==
  ASSUME NEW stops \in Seq(Served), stops # << >>
  PROVE  stops \o Tail(Reverse(stops)) \in Seq(Served)
<1>1. Len(stops) \in Nat /\ Len(stops) # 0 /\ \A i \in 1 .. Len(stops) : stops[i] \in Served
  OBVIOUS
<1>2. PICK back : back = Reverse(stops)
  OBVIOUS
<1>3. back = [i \in 1 .. Len(stops) |-> stops[(Len(stops) - i) + 1]]
  BY <1>2 DEF Reverse
<1>4. \A i \in 1 .. Len(stops) : (Len(stops) - i) + 1 \in 1 .. Len(stops)
  BY <1>1
<1>5. back \in Seq(Served) /\ Len(back) = Len(stops)
  BY <1>1, <1>3, <1>4
<1>6. back # << >>
  BY <1>1, <1>5
<1>7. Tail(back) \in Seq(Served)
  BY <1>5, <1>6
<1> QED BY <1>2, <1>7

(* What a loop over the buses meets.                                       *)
LEMMA BusAt ==
  ASSUME db \in Catalogues, NEW n \in DOMAIN NamesOfBuses
  PROVE  /\ NamesOfBuses[n] \in DOMAIN db.buses
         /\ Bus(NamesOfBuses[n]).stops \in Seq(Served) /\ Bus(NamesOfBuses[n]).stops # << >>
         /\ FirstStop(NamesOfBuses[n]) \in Served /\ LastStop(NamesOfBuses[n]) \in Served
<1>1. NamesOfBuses[n] \in Elements(NamesOfBuses)
  BY DEF Elements
<1>2. NamesOfBuses[n] \in WithStops
  BY <1>1, NamesFacts
<1>3. NamesOfBuses[n] \in DOMAIN db.buses /\ Bus(NamesOfBuses[n]).stops # << >>
  BY <1>2 DEF WithStops
<1>4. PICK stops : stops = Bus(NamesOfBuses[n]).stops
  OBVIOUS
<1>5. stops \in Seq(Served) /\ stops # << >>
  BY <1>3, <1>4, ServedFacts
<1>6. 1 \in 1 .. Len(stops) /\ Len(stops) \in 1 .. Len(stops)
  BY <1>5
<1>7. stops[1] \in Served /\ stops[Len(stops)] \in Served
  BY <1>5, <1>6
<1> QED BY <1>3, <1>4, <1>5, <1>7 DEF FirstStop, LastStop

(* One line for the n-th bus.                                              *)
LEMMA RenderWayDraws ==
  ASSUME db \in Catalogues, settings.color_palette_ # << >>,
         NEW n \in DOMAIN NamesOfBuses, color_counter = n - 1
  PROVE  Draws(RenderWay(NamesOfBuses[n]), 1, NamesOfBuses[n], 1)
<1>1. PICK name : name = NamesOfBuses[n]
  OBVIOUS
<1>2. PICK stops : stops = Bus(name).stops
  OBVIOUS
<1>3. stops \in Seq(Served) /\ stops # << >>
  BY <1>1, <1>2, BusAt
<1>4. PICK way : way = IF Bus(name).is_loop_trip THEN stops ELSE stops \o Tail(Reverse(stops))
  OBVIOUS
<1>5. way \in Seq(Served)
  BY <1>3, <1>4, WayIsServed
<1>6. \A i \in DOMAIN way : way[i] \in Served
  BY <1>5
<1>7. PICK points : points = [i \in DOMAIN way |-> Projected(way[i])]
  OBVIOUS
<1>8. PICK fill : fill = Named("none")
  OBVIOUS
<1>9. PICK x : x = Shape("line", name, points, fill, PaletteColor)
  OBVIOUS
<1>10. RenderWay(name) = <<x>>
  BY <1>2, <1>4, <1>7, <1>8, <1>9, Zenon DEF RenderWay
<1>11. x.kind = "line" /\ x.of = name /\ x.points = points /\ x.stroke = PaletteColor
  BY <1>9, ShapeFields
<1>12. OnMap(x)
  BY <1>6, <1>7, <1>11 DEF OnMap
<1>13. PaletteColor = PaletteAt(n)
  BY DEF PaletteColor, PaletteAt
<1>14. "line" \in Kinds /\ "line" \in CountedKinds /\ "line" \notin TitleKinds
       /\ "line" # "bus title"
  BY DEF Kinds, CountedKinds, TitleKinds
<1>15. Explained(x)
  BY <1>1, <1>11, <1>13, <1>14 DEF Explained
<1>16. Layer(x.kind) = 1
  BY <1>11, LayersAre
<1>17. x.kind \in CountedKinds /\ x.kind \notin TitleKinds
  BY <1>11, <1>14
<1> QED BY <1>1, <1>10, <1>11, <1>12, <1>15, <1>16, <1>17, DrawsOne

(* One title for the n-th bus.                                             *)
LEMMA RenderNameBusDraws ==
  ASSUME db \in Catalogues, settings.color_palette_ # << >>,
         NEW n \in DOMAIN NamesOfBuses, color_counter = n - 1, NEW stop \in Served
  PROVE  Draws(RenderNameBus(NamesOfBuses[n], stop), 2, NamesOfBuses[n], 1)
<1>1. PICK name : name = NamesOfBuses[n]
  OBVIOUS
<1>2. PICK x : x = Text("bus background", name, Projected(stop), settings.underlayer_color_,
                        settings.underlayer_color_, settings.bus_label_)
  OBVIOUS
<1>3. PICK y : y = Text("bus title", name, Projected(stop), PaletteColor,
                        Monostate, settings.bus_label_)
  OBVIOUS
<1>4. RenderNameBus(name, stop) = <<x, y>>
  BY <1>2, <1>3, Zenon DEF RenderNameBus
<1>5. /\ x.kind = "bus background" /\ x.of = name /\ x.points = <<Projected(stop)>>
      /\ x.fill = settings.underlayer_color_ /\ x.stroke = settings.underlayer_color_
      /\ x.label = settings.bus_label_ /\ x.data = SetData(db.name[name])
  <2>1. IsText(x, "bus background", name, <<Projected(stop)>>, settings.underlayer_color_,
               settings.underlayer_color_, settings.bus_label_)
    BY <1>2, TextFields
  <2> QED BY <2>1, Zenon DEF IsText
<1>6. /\ y.kind = "bus title" /\ y.of = name /\ y.points = <<Projected(stop)>>
      /\ y.fill = PaletteColor
      /\ y.label = settings.bus_label_ /\ y.data = SetData(db.name[name])
  <2>1. IsText(y, "bus title", name, <<Projected(stop)>>, PaletteColor,
               Monostate, settings.bus_label_)
    BY <1>3, TextFields
  <2> QED BY <2>1, Zenon DEF IsText
<1>7. OnMap(x) /\ OnMap(y)
  BY <1>5, <1>6, OnePointOnMap
<1>8. PaletteColor = PaletteAt(n)
  BY DEF PaletteColor, PaletteAt
<1>9. /\ "bus background" \in Kinds /\ "bus background" \notin CountedKinds
      /\ "bus background" \notin TitleKinds /\ "bus background" # "line"
      /\ "bus background" # "bus title"
      /\ "bus title" \in Kinds /\ "bus title" \in CountedKinds /\ "bus title" # "line"
      /\ "bus title" # "stop title"
  BY DEF Kinds, CountedKinds, TitleKinds
<1>10. Explained(x) /\ Explained(y)
  BY <1>1, <1>5, <1>6, <1>8, <1>9 DEF Explained
<1>11. Layer(x.kind) = 2 /\ Layer(y.kind) = 2
  BY <1>5, <1>6, LayersAre
<1>101. y.of \in DOMAIN db.buses \cup DOMAIN db.place
  <2>1. name \in WithStops
    <3>1. name \in Elements(NamesOfBuses)
      BY <1>1, Zenon DEF Elements
    <3> QED BY <3>1, NamesFacts
  <2> QED BY <1>6, <2>1 DEF WithStops
<1>12. Under(x, y)
  BY <1>5, <1>6, <1>9, <1>101, Zenon DEF Under
<1>13. x.kind \notin CountedKinds /\ x.kind \notin TitleKinds /\ y.kind \in CountedKinds
  BY <1>5, <1>6, <1>9
<1> QED BY <1>1, <1>4, <1>6, <1>7, <1>10, <1>11, <1>12, <1>13, DrawsTwo

(* One circle, and one title, for a stop.                                  *)
LEMMA RenderStopDraws ==
  ASSUME NEW stop \in Served
  PROVE  Draws(RenderStop(stop), 3, stop, 1)
<1>1. PICK fill : fill = Named("white")
  OBVIOUS
<1>2. PICK x : x = Shape("circle", stop, <<Projected(stop)>>, fill, Monostate)
  OBVIOUS
<1>3. RenderStop(stop) = <<x>>
  BY <1>1, <1>2, Zenon DEF RenderStop
<1>4. x.kind = "circle" /\ x.of = stop /\ x.points = <<Projected(stop)>>
  BY <1>2, ShapeFields
<1>5. OnMap(x)
  BY <1>4, OnePointOnMap
<1>6. /\ "circle" \in Kinds /\ "circle" \in CountedKinds /\ "circle" \notin TitleKinds
      /\ "circle" # "line" /\ "circle" # "bus title"
  BY DEF Kinds, CountedKinds, TitleKinds
<1>7. Explained(x)
  BY <1>4, <1>6 DEF Explained
<1>8. Layer(x.kind) = 3
  BY <1>4, LayersAre
<1>9. x.kind \in CountedKinds /\ x.kind \notin TitleKinds
  BY <1>4, <1>6
<1> QED BY <1>3, <1>4, <1>5, <1>7, <1>8, <1>9, DrawsOne

LEMMA RenderNameStopDraws ==
  ASSUME db \in Catalogues, NEW stop \in Served
  PROVE  Draws(RenderNameStop(stop), 4, stop, 1)
<1>1. PICK fill : fill = Named("black")
  OBVIOUS
<1>2. PICK x : x = Text("stop background", stop, Projected(stop), settings.underlayer_color_,
                        settings.underlayer_color_, settings.stop_label_)
  OBVIOUS
<1>3. PICK y : y = Text("stop title", stop, Projected(stop), fill, Monostate,
                        settings.stop_label_)
  OBVIOUS
<1>4. RenderNameStop(stop) = <<x, y>>
  BY <1>1, <1>2, <1>3, Zenon DEF RenderNameStop
<1>5. /\ x.kind = "stop background" /\ x.of = stop /\ x.points = <<Projected(stop)>>
      /\ x.fill = settings.underlayer_color_ /\ x.stroke = settings.underlayer_color_
      /\ x.label = settings.stop_label_ /\ x.data = SetData(db.name[stop])
  <2>1. IsText(x, "stop background", stop, <<Projected(stop)>>, settings.underlayer_color_,
               settings.underlayer_color_, settings.stop_label_)
    BY <1>2, TextFields
  <2> QED BY <2>1, Zenon DEF IsText
<1>6. /\ y.kind = "stop title" /\ y.of = stop /\ y.points = <<Projected(stop)>>
      /\ y.label = settings.stop_label_ /\ y.data = SetData(db.name[stop])
  <2>1. IsText(y, "stop title", stop, <<Projected(stop)>>, fill,
               Monostate, settings.stop_label_)
    BY <1>3, TextFields
  <2> QED BY <2>1, Zenon DEF IsText
<1>7. OnMap(x) /\ OnMap(y)
  BY <1>5, <1>6, OnePointOnMap
<1>8. /\ "stop background" \in Kinds /\ "stop background" \notin CountedKinds
      /\ "stop background" \notin TitleKinds /\ "stop background" # "line"
      /\ "stop background" # "bus title"
      /\ "stop title" \in Kinds /\ "stop title" \in CountedKinds /\ "stop title" # "line"
      /\ "stop title" # "bus title"
  BY DEF Kinds, CountedKinds, TitleKinds
<1>9. Explained(x) /\ Explained(y)
  BY <1>5, <1>6, <1>8 DEF Explained
<1>10. Layer(x.kind) = 4 /\ Layer(y.kind) = 4
  BY <1>5, <1>6, LayersAre
<1>101. y.of \in DOMAIN db.buses \cup DOMAIN db.place
  BY <1>6, ServedFacts
<1>11. Under(x, y)
  BY <1>5, <1>6, <1>8, <1>101, Zenon DEF Under
<1>12. x.kind \notin CountedKinds /\ x.kind \notin TitleKinds /\ y.kind \in CountedKinds
  BY <1>5, <1>6, <1>8
<1> QED BY <1>4, <1>6, <1>7, <1>9, <1>10, <1>11, <1>12, DrawsTwo

(* How often the name of a bus is on the map.                              *)
TitlesOf(n) ==
  IF Bus(n).is_loop_trip THEN 1 ELSE Cardinality({FirstStop(n), LastStop(n)})

(* One title, or two where the bus ends elsewhere than it begins.          *)
LEMMA RenderNamesOfBusDraws ==
  ASSUME db \in Catalogues, settings.color_palette_ # << >>,
         NEW n \in DOMAIN NamesOfBuses, color_counter = n - 1
  PROVE  Draws(RenderNamesOfBus(NamesOfBuses[n]), 2, NamesOfBuses[n], TitlesOf(NamesOfBuses[n]))
<1>1. PICK name : name = NamesOfBuses[n]
  OBVIOUS
<1>2. PICK a, b : a = FirstStop(name) /\ b = LastStop(name)
  OBVIOUS
<1>3. a \in Served /\ b \in Served
  BY <1>1, <1>2, BusAt
<1>4. PICK r, s : r = RenderNameBus(name, a) /\ s = RenderNameBus(name, b)
  OBVIOUS
<1>5. Draws(r, 2, name, 1) /\ Draws(s, 2, name, 1)
  BY <1>1, <1>3, <1>4, RenderNameBusDraws
<1>6. CASE Bus(name).is_loop_trip \/ a = b
  <2>1. RenderNamesOfBus(name) = r
    BY <1>2, <1>4, <1>6 DEF RenderNamesOfBus
  <2>2. TitlesOf(name) = 1
    <3>1. a = b => Cardinality({a, b}) = 1
      BY FS_Singleton
    <3> QED BY <1>2, <1>6, <3>1 DEF TitlesOf
  <2> QED BY <1>1, <1>5, <2>1, <2>2
<1>7. CASE ~(Bus(name).is_loop_trip \/ a = b)
  <2>1. RenderNamesOfBus(name) = r \o s
    BY <1>2, <1>4, <1>7 DEF RenderNamesOfBus
  <2>2. TitlesOf(name) = 2
    <3>1. Cardinality({a} \cup {b}) = 2
      <4>1. PICK c, d : c = Cardinality({a} \cup {b}) /\ d = Cardinality({a})
        OBVIOUS
      <4>2. c = d + 1
        BY <1>7, <4>1, FS_Singleton, FS_AddElement
      <4>3. d = 1
        BY <4>1, FS_Singleton
      <4>4. c = 2
        BY <4>2, <4>3
      <4> QED BY <4>1, <4>4
    <3>2. {a, b} = {a} \cup {b}
      OBVIOUS
    <3> QED BY <1>2, <1>7, <3>1, <3>2 DEF TitlesOf
  <2>3. Draws(r \o s, 2, name, 2)
    BY <1>5, DrawsTwice
  <2> QED BY <1>1, <2>1, <2>2, <2>3
<1> QED BY <1>6, <1>7

-----------------------------------------------------------------------------
(* What is drawn when the loops before the l-th have ended and the l-th has*)
(* gone through k names.                                                   *)
NamesOf(l) == IF l <= 2 THEN NamesOfBuses ELSE NamesOfStops
Gone(kind, l, k) ==
  {NamesOf(Layer(kind))[i] :
     i \in {j \in DOMAIN NamesOf(Layer(kind)) : Layer(kind) < l \/ (Layer(kind) = l /\ j <= k)}}
Copies(kind, x) == IF kind = "bus title" THEN TitlesOf(x) ELSE 1

Done(r, l, k) ==
  /\ Picture(r, 1, l)
  /\ \A kind \in CountedKinds : \A x :
       N(kind, x, r) = IF x \in Gone(kind, l, k) THEN Copies(kind, x) ELSE 0
  /\ (l > 1 \/ k > 0) => (Len(NamesOfBuses) = 0 \/ settings.color_palette_ # << >>)

LEMMA NamesOfFacts ==
  ASSUME db \in Catalogues
  PROVE  \A l \in 1 .. 4 :
           /\ Len(NamesOf(l)) \in Nat /\ DOMAIN NamesOf(l) = 1 .. Len(NamesOf(l))
           /\ \A i, j \in DOMAIN NamesOf(l) : NamesOf(l)[i] = NamesOf(l)[j] => i = j
BY NamesFacts DEF NamesOf

LEMMA LaterNames == NamesOf(3) = NamesOfStops /\ NamesOf(4) = NamesOfStops
BY DEF NamesOf

(* The beginning; a step of a loop; the end of a loop.                     *)
LEMMA NothingDone ==
  ASSUME db \in Catalogues
  PROVE  Done(<< >>, 1, 0)
<1>1. PICK r : r = << >>
  OBVIOUS
<1>2. Picture(r, 1, 1)
  BY <1>1, EmptyPicture
<1>3. ASSUME NEW kind \in CountedKinds, NEW x PROVE N(kind, x, r) = 0 /\ x \notin Gone(kind, 1, 0)
  <2>1. DOMAIN r = {}
    BY <1>1
  <2>2. N(kind, x, r) = 0
    BY <2>1, FS_EmptySet DEF N
  <2>3. Layer(kind) \in 1 .. 4
    BY OneKindPerLayer
  <2>4. DOMAIN NamesOf(Layer(kind)) \subseteq Nat \ {0}
    BY <2>3, NamesOfFacts
  <2>5. \A j \in Nat \ {0} : ~(Layer(kind) < 1 \/ (Layer(kind) = 1 /\ j <= 0))
    BY <2>3
  <2> QED BY <2>2, <2>4, <2>5 DEF Gone
<1> QED BY <1>1, <1>2, <1>3 DEF Done

LEMMA DoneJoins ==
  ASSUME db \in Catalogues, NEW l \in 1 .. 4, NEW k \in DOMAIN NamesOf(l),
         l <= 2 => settings.color_palette_ # << >>,
         NEW r, Done(r, l, k - 1), NEW o, NEW m, Draws(o, l, NamesOf(l)[k], m),
         \A kind \in CountedKinds : Layer(kind) = l => m = Copies(kind, NamesOf(l)[k])
  PROVE  Done(r \o o, l, k)
<1>1. Picture(r, 1, l) /\ Picture(o, l, l)
  BY DEF Done, Draws
<1>2. Picture(r \o o, 1, l)
  <2>1. 1 \in Nat /\ l \in Nat /\ 1 <= l /\ l <= l
    OBVIOUS
  <2> QED BY <1>1, <2>1, PicturesJoin
<1>3. IsSequence(r) /\ IsSequence(o)
  BY <1>1 DEF Picture
<1>4. PICK names : names = NamesOf(l)
  OBVIOUS
<1>5. /\ k \in Nat \ {0} /\ k \in DOMAIN names /\ DOMAIN names \subseteq Nat
      /\ \A i, j \in DOMAIN names : names[i] = names[j] => i = j
  <2>1. /\ Len(names) \in Nat /\ DOMAIN names = 1 .. Len(names)
        /\ \A i, j \in DOMAIN names : names[i] = names[j] => i = j
    BY <1>4, NamesOfFacts, Zenon
  <2>2. k \in DOMAIN names
    BY <1>4, Zenon
  <2> QED BY <2>1, <2>2
<1>6. ASSUME NEW kind \in CountedKinds, NEW x
      PROVE  N(kind, x, r \o o) = IF x \in Gone(kind, l, k) THEN Copies(kind, x) ELSE 0
  <2>1. /\ N(kind, x, r \o o) = N(kind, x, r) + N(kind, x, o)
        /\ N(kind, x, r) \in Nat /\ N(kind, x, o) \in Nat
    BY <1>3, CountJoins
  <2>2. N(kind, x, r) = IF x \in Gone(kind, l, k - 1) THEN Copies(kind, x) ELSE 0
    BY DEF Done
  <2>3. N(kind, x, o) = IF Layer(kind) = l /\ x = names[k] THEN m ELSE 0
    BY <1>4 DEF Draws
  <2>4. Layer(kind) \in 1 .. 4
    BY OneKindPerLayer
  <2>5. CASE Layer(kind) = l /\ x = names[k]
    <3>1. x \in Gone(kind, l, k)
      BY <1>4, <1>5, <2>5 DEF Gone
    <3>2. x \notin Gone(kind, l, k - 1)
      <4>1. SUFFICES ASSUME NEW j \in DOMAIN names, j <= k - 1, x = names[j] PROVE FALSE
        BY <1>4, <2>4, <2>5 DEF Gone
      <4>2. j = k
        BY <1>5, <2>5, <4>1
      <4> QED BY <1>5, <4>1, <4>2
    <3>3. m = Copies(kind, x)
      BY <1>4, <2>5
    <3>4. PICK a, b, c : a = N(kind, x, r) /\ b = N(kind, x, o) /\ c = N(kind, x, r \o o)
      OBVIOUS
    <3>5. a = 0 /\ b = m /\ c = a + b /\ b \in Nat
      BY <2>1, <2>2, <2>3, <2>5, <3>2, <3>4
    <3>6. c = m
      BY <3>5
    <3> QED BY <3>1, <3>3, <3>4, <3>6
  <2>6. CASE ~(Layer(kind) = l /\ x = names[k])
    <3>1. x \in Gone(kind, l, k) <=> x \in Gone(kind, l, k - 1)
      <4>1. CASE Layer(kind) = l
        <5>1. x # names[k]
          BY <2>6, <4>1
        <5>2. x \in Gone(kind, l, k) <=> \E j \in DOMAIN names : j <= k /\ x = names[j]
          BY <1>4, <2>4, <4>1 DEF Gone
        <5>3. x \in Gone(kind, l, k - 1) <=> \E j \in DOMAIN names : j <= k - 1 /\ x = names[j]
          BY <1>4, <2>4, <4>1 DEF Gone
        <5>4. \A j \in DOMAIN names : j # k => (j <= k <=> j <= k - 1)
          BY <1>5
        <5> QED BY <5>1, <5>2, <5>3, <5>4
      <4>2. CASE Layer(kind) # l
        BY <4>2 DEF Gone
      <4> QED BY <4>1, <4>2
    <3>2. PICK a, b, c : a = N(kind, x, r) /\ b = N(kind, x, o) /\ c = N(kind, x, r \o o)
      OBVIOUS
    <3>3. a \in Nat /\ b = 0 /\ c = a + b
      BY <2>1, <2>3, <2>6, <3>2
    <3>4. c = a
      BY <3>3
    <3> QED BY <2>2, <3>1, <3>2, <3>4
  <2> QED BY <2>5, <2>6
<1>7. (l > 1 \/ k > 0) => (Len(NamesOfBuses) = 0 \/ settings.color_palette_ # << >>)
  <2>1. CASE l <= 2
    BY <2>1
  <2>2. CASE ~(l <= 2)
    <3>1. l > 1
      BY <2>2
    <3> QED BY <3>1 DEF Done
  <2> QED BY <2>1, <2>2
<1> QED BY <1>2, <1>6, <1>7 DEF Done

LEMMA DoneEnds ==
  ASSUME db \in Catalogues, NEW l \in 1 .. 4, NEW k \in Nat, k >= Len(NamesOf(l)),
         NEW r, Done(r, l, k)
  PROVE  Done(r, l + 1, 0)
<1>1. Picture(r, 1, l + 1)
  <2>1. Picture(<< >>, l, l + 1)
    BY EmptyPicture
  <2>2. Picture(r, 1, l) /\ IsSequence(r)
    BY DEF Done, Picture
  <2>3. Picture(r \o << >>, 1, l + 1)
    <3>1. 1 \in Nat /\ l \in Nat /\ l + 1 \in Nat /\ 1 <= l /\ l <= l + 1
      OBVIOUS
    <3> QED BY <2>1, <2>2, <3>1, PicturesJoin
  <2>4. r \in Seq(Elements(r))
    BY <2>2 DEF IsSequence
  <2>5. r \o << >> = r
    BY <2>4
  <2> QED BY <2>3, <2>5
<1>2. ASSUME NEW kind \in CountedKinds, NEW x
      PROVE  x \in Gone(kind, l, k) <=> x \in Gone(kind, l + 1, 0)
  <2>1. Layer(kind) \in 1 .. 4
    BY OneKindPerLayer
  <2>2. /\ DOMAIN NamesOf(Layer(kind)) = 1 .. Len(NamesOf(Layer(kind)))
        /\ Len(NamesOf(Layer(kind))) \in Nat
    BY <2>1, NamesOfFacts
  <2>3. \A j \in DOMAIN NamesOf(Layer(kind)) :
          (Layer(kind) < l \/ (Layer(kind) = l /\ j <= k))
            <=> (Layer(kind) < l + 1 \/ (Layer(kind) = l + 1 /\ j <= 0))
    BY <2>1, <2>2
  <2> QED BY <2>3 DEF Gone
<1>3. ((l + 1) > 1 \/ 0 > 0) => (Len(NamesOfBuses) = 0 \/ settings.color_palette_ # << >>)
  <2>1. CASE l > 1 \/ k > 0
    BY <2>1 DEF Done
  <2>2. CASE ~(l > 1 \/ k > 0)
    BY <2>2, NamesOfFacts DEF NamesOf
  <2> QED BY <2>1, <2>2
<1> QED BY <1>1, <1>2, <1>3 DEF Done

(* What is drawn stays drawn.                                              *)
LEMMA PictureStays ==
  ASSUME db' = db, settings' = settings, NEW r, result' = r, NEW l, Picture(r, 1, l)
  PROVE  Picture(result, 1, l)'
<1>1. \A s : Projected(s)' = Projected(s)
  BY SamePoints
<1>2. Served' = Served /\ NamesOfBuses' = NamesOfBuses
  BY SameNames
<1>3. \A n : PaletteAt(n)' = PaletteAt(n)
  BY DEF PaletteAt
<1>4. \A o : OnMap(o) => OnMap(o)'
  BY <1>1, <1>2 DEF OnMap
<1>5. \A o : Explained(o) => Explained(o)'
  BY <1>2, <1>3 DEF Explained
<1>6. \A o, t : Under(o, t) => Under(o, t)'
  BY ZenonT(30) DEF Under
<1> QED BY <1>4, <1>5, <1>6 DEF Picture

LEMMA CountsStay ==
  ASSUME db' = db, settings' = settings, NEW l, NEW k
  PROVE  /\ \A kind : Gone(kind, l, k)' = Gone(kind, l, k)
         /\ \A kind, x : Copies(kind, x)' = Copies(kind, x)
<1>1. \A n : NamesOf(n)' = NamesOf(n)
  BY SameNames DEF NamesOf
<1>2. \A x : TitlesOf(x)' = TitlesOf(x)
  <2>1. \A x : Bus(x)' = Bus(x)
    BY SameNames
  <2>2. \A x : FirstStop(x)' = FirstStop(x) /\ LastStop(x)' = LastStop(x)
    BY <2>1 DEF FirstStop, LastStop
  <2> QED BY <2>1, <2>2 DEF TitlesOf
<1> QED BY <1>1, <1>2 DEF Gone, Copies

Stands(l) == Done(result, l, next - 1)

LEMMA StandsStill ==
  ASSUME db' = db, settings' = settings, NEW l, NEW k, next' - 1 = k,
         NEW r, result' = r, Done(r, l, k)
  PROVE  Stands(l)'
<1>1. Picture(result, 1, l)'
  BY PictureStays DEF Done
<1>2. \A kind, x : N(kind, x, result)' = N(kind, x, r)
  BY DEF N
<1>3. /\ \A kind : Gone(kind, l, k)' = Gone(kind, l, k)
      /\ \A kind, x : Copies(kind, x)' = Copies(kind, x)
  BY CountsStay
<1>4. /\ \A kind : Gone(kind, l, next - 1)' = Gone(kind, l, k)
  BY <1>3 DEF Gone
<1>5. NamesOfBuses' = NamesOfBuses
  BY SameNames
<1>6. \A kind \in CountedKinds : \A x :
        N(kind, x, r) = IF x \in Gone(kind, l, k) THEN Copies(kind, x) ELSE 0
  BY DEF Done
<1>7. \A kind \in CountedKinds : \A x :
        N(kind, x, result)' = IF x \in Gone(kind, l, next - 1)' THEN Copies(kind, x)' ELSE 0
  BY <1>2, <1>3, <1>4, <1>6
<1>8. (l > 1 \/ next' - 1 > 0) => (Len(NamesOfBuses') = 0 \/ settings'.color_palette_ # << >>)
  BY <1>5 DEF Done
<1> QED BY <1>1, <1>7, <1>8 DEF Stands, Done

-----------------------------------------------------------------------------
(* Before the settings are loaded nothing is drawn; from then on what the  *)
(* loops have gone through is drawn, and nothing else; when they have all  *)
(* ended it is printed.                                                    *)
Untouched == pc = "lines" /\ next = 1 /\ color_counter = 0 /\ result = << >>

Drawn ==
  /\ next \in Nat \ {0}
  /\ pc \in {"lines", "bus names", "circles", "stop names", "print", "done", "undefined"}
  /\ pc \in {"lines", "bus names"} => color_counter = next - 1
  /\ pc \in {"lines", "undefined"} => Stands(1)
  /\ pc = "bus names" => Stands(2)
  /\ pc = "circles" => Stands(3)
  /\ pc = "stop names" => Stands(4)
  /\ pc \in {"print", "done"} => Stands(5)

Printed == [i \in DOMAIN result |-> RenderObject(result[i], Monostate)]

MapInv ==
  /\ SettingsInv /\ db \in Catalogues
  /\ stage # "loaded" => Untouched
  /\ Drawn
  /\ svg = IF pc = "done" THEN Printed ELSE << >>

(* When the settings are loaded the first loop begins.                     *)
LEMMA EmptyCanvas == db \in Catalogues /\ Untouched => Drawn
<1> SUFFICES ASSUME db \in Catalogues, Untouched PROVE Drawn
  OBVIOUS
<1>1. pc = "lines" /\ next = 1 /\ color_counter = 0 /\ result = << >>
  BY DEF Untouched
<1>2. Stands(1)
  <2>1. next - 1 = 0
    BY <1>1
  <2> QED BY <1>1, <2>1, NothingDone, Zenon DEF Stands
<1>3. next \in Nat \ {0} /\ color_counter = next - 1
  BY <1>1
<1> QED BY <1>1, <1>2, <1>3 DEF Drawn

LEMMA MapInitEstablishes == MapInit => MapInv
<1> SUFFICES ASSUME MapInit PROVE MapInv
  OBVIOUS
<1>1. SettingsInv /\ db \in Catalogues
  BY SettingsInitEstablishes DEF MapInit
<1>2. Untouched /\ svg = << >> /\ pc # "done"
  BY DEF MapInit, Untouched
<1> QED BY <1>1, <1>2, EmptyCanvas DEF MapInv

(* Only titles of buses are on the map more than once.                     *)
LEMMA OneCopy ==
  ASSUME NEW l, l # 2
  PROVE  \A kind \in CountedKinds : \A x : Layer(kind) = l => 1 = Copies(kind, x)
<1> SUFFICES ASSUME NEW kind \in CountedKinds, NEW x, Layer(kind) = l PROVE 1 = Copies(kind, x)
  OBVIOUS
<1>1. kind # "bus title"
  BY LayersAre, Zenon
<1> QED BY <1>1 DEF Copies

LEMMA NextName ==
  ASSUME NEW names, Len(names) \in Nat, DOMAIN names = 1 .. Len(names),
         next \in Nat \ {0}, next <= Len(names)
  PROVE  next \in DOMAIN names /\ Len(names) # 0
<1>1. PICK n \in Nat : n = Len(names)
  OBVIOUS
<1>2. next \in 1 .. n /\ n # 0
  BY <1>1
<1> QED BY <1>1, <1>2

(* A loop of number l goes on.                                             *)
LEMMA AddKeeps ==
  ASSUME MapInv, stage = "loaded", NEW l \in 1 .. 4, Stands(l), next \in DOMAIN NamesOf(l),
         l <= 2 => settings.color_palette_ # << >>,
         NEW o, NEW m, Draws(o, l, NamesOf(l)[next], m),
         \A kind \in CountedKinds : Layer(kind) = l => m = Copies(kind, NamesOf(l)[next]),
         Add(o)
  PROVE  Stands(l)' /\ next' \in Nat \ {0} /\ next' - 1 = next
<1>1. db \in Catalogues /\ next \in Nat
  BY DEF MapInv, Drawn
<1>2. Done(result, l, next - 1)
  BY DEF Stands
<1>3. PICK r, k : r = result /\ k = next
  OBVIOUS
<1>4. Done(r \o o, l, k)
  BY <1>1, <1>2, <1>3, DoneJoins
<1>5. /\ db' = db /\ settings' = settings
      /\ result' = r \o o /\ next' - 1 = k /\ next' \in Nat \ {0}
  BY <1>1, <1>3 DEF Add, vars
<1>6. Stands(l)'
  BY <1>4, <1>5, StandsStill
<1> QED BY <1>3, <1>5, <1>6

LEMMA AddFrame ==
  ASSUME NEW o, Add(o)
  PROVE  db' = db /\ stage' = stage /\ pc' = pc /\ svg' = svg /\ settings' = settings
BY DEF Add, vars

LEMMA AddLineKeeps == ASSUME MapInv, AddLine PROVE Drawn'
<1>1. /\ stage = "loaded" /\ pc = "lines" /\ settings.color_palette_ # << >>
      /\ next <= Len(NamesOfBuses) /\ Add(RenderWay(NamesOfBuses[next]))
      /\ color_counter' = color_counter + 1
  BY DEF AddLine, In
<1>2. Stands(1) /\ next \in Nat \ {0} /\ color_counter = next - 1 /\ db \in Catalogues
  BY <1>1 DEF MapInv, Drawn
<1>3. NamesOf(1) = NamesOfBuses
  BY DEF NamesOf
<1>4. next \in DOMAIN NamesOfBuses
  BY <1>1, <1>2, NamesFacts, NextName
<1>5. PICK o : o = RenderWay(NamesOfBuses[next])
  OBVIOUS
<1>6. Draws(o, 1, NamesOfBuses[next], 1)
  BY <1>1, <1>2, <1>4, <1>5, RenderWayDraws
<1>7. \A kind \in CountedKinds : Layer(kind) = 1 => 1 = Copies(kind, NamesOfBuses[next])
  <2>1. 1 # 2
    OBVIOUS
  <2> QED BY <2>1, OneCopy
<1>8. Stands(1)' /\ next' \in Nat \ {0} /\ next' - 1 = next
  <2>1. 1 \in 1 .. 4
    OBVIOUS
  <2>2. Add(o)
    BY <1>1, <1>5
  <2> QED BY <1>1, <1>2, <1>3, <1>4, <1>6, <1>7, <2>1, <2>2, AddKeeps
<1>9. pc' = "lines"
  BY <1>1, AddFrame
<1>10. color_counter' = next' - 1
  <2>1. color_counter + 1 = next
    BY <1>2
  <2> QED BY <1>1, <1>8, <2>1
<1> QED BY <1>8, <1>9, <1>10 DEF Drawn

LEMMA AddBusNamesKeeps == ASSUME MapInv, AddBusNames PROVE Drawn'
<1>1. /\ stage = "loaded" /\ pc = "bus names"
      /\ next <= Len(NamesOfBuses) /\ Add(RenderNamesOfBus(NamesOfBuses[next]))
      /\ color_counter' = color_counter + 1
  BY DEF AddBusNames, In
<1>2. Stands(2) /\ next \in Nat \ {0} /\ color_counter = next - 1 /\ db \in Catalogues
  BY <1>1 DEF MapInv, Drawn
<1>3. NamesOf(2) = NamesOfBuses
  BY DEF NamesOf
<1>4. next \in DOMAIN NamesOfBuses /\ Len(NamesOfBuses) # 0
  BY <1>1, <1>2, NamesFacts, NextName
<1>5. settings.color_palette_ # << >>
  <2>1. 2 > 1
    OBVIOUS
  <2> QED BY <1>2, <1>4, <2>1 DEF Stands, Done
<1>6. PICK o, name, m : /\ name = NamesOfBuses[next] /\ o = RenderNamesOfBus(name)
                        /\ m = TitlesOf(name)
  OBVIOUS
<1>7. Draws(o, 2, name, m)
  BY <1>1, <1>2, <1>4, <1>5, <1>6, RenderNamesOfBusDraws
<1>8. \A kind \in CountedKinds : Layer(kind) = 2 => m = Copies(kind, name)
  <2>1. /\ Layer("bus title") = 2 /\ "bus title" \in CountedKinds
    BY LayersAre DEF CountedKinds
  <2>2. \A kind \in CountedKinds : Layer(kind) = 2 => kind = "bus title"
    BY <2>1, OneKindPerLayer
  <2> QED BY <1>6, <2>2 DEF Copies
<1>9. Stands(2)' /\ next' \in Nat \ {0} /\ next' - 1 = next
  <2>1. 2 \in 1 .. 4
    OBVIOUS
  <2>2. Add(o)
    BY <1>1, <1>6
  <2> QED BY <1>1, <1>2, <1>3, <1>4, <1>5, <1>6, <1>7, <1>8, <2>1, <2>2, AddKeeps
<1>10. pc' = "bus names"
  BY <1>1, AddFrame
<1>11. color_counter' = next' - 1
  <2>1. color_counter + 1 = next
    BY <1>2
  <2> QED BY <1>1, <1>9, <2>1
<1> QED BY <1>9, <1>10, <1>11 DEF Drawn

LEMMA StopAt ==
  ASSUME db \in Catalogues, NEW n \in DOMAIN NamesOfStops
  PROVE  NamesOfStops[n] \in Served
<1>1. NamesOfStops[n] \in Elements(NamesOfStops)
  BY DEF Elements
<1> QED BY <1>1, NamesFacts

LEMMA AddCircleKeeps == ASSUME MapInv, AddCircle PROVE Drawn'
<1>1. /\ stage = "loaded" /\ pc = "circles"
      /\ next <= Len(NamesOfStops) /\ Add(RenderStop(NamesOfStops[next]))
  BY DEF AddCircle, In
<1>2. Stands(3) /\ next \in Nat \ {0} /\ db \in Catalogues
  BY <1>1 DEF MapInv, Drawn
<1>3. NamesOf(3) = NamesOfStops
  BY DEF NamesOf
<1>4. next \in DOMAIN NamesOfStops
  BY <1>1, <1>2, NamesFacts, NextName
<1>5. PICK o, stop : stop = NamesOfStops[next] /\ o = RenderStop(stop)
  OBVIOUS
<1>6. Draws(o, 3, stop, 1)
  BY <1>2, <1>4, <1>5, StopAt, RenderStopDraws
<1>7. \A kind \in CountedKinds : Layer(kind) = 3 => 1 = Copies(kind, stop)
  <2>1. 3 # 2
    OBVIOUS
  <2> QED BY <2>1, OneCopy
<1>8. Stands(3)' /\ next' \in Nat \ {0}
  <2>1. 3 \in 1 .. 4 /\ ~(3 <= 2)
    OBVIOUS
  <2>2. Add(o)
    BY <1>1, <1>5
  <2> QED BY <1>1, <1>2, <1>3, <1>4, <1>5, <1>6, <1>7, <2>1, <2>2, AddKeeps
<1>9. pc' = "circles"
  BY <1>1, AddFrame
<1> QED BY <1>8, <1>9 DEF Drawn

LEMMA AddStopNameKeeps == ASSUME MapInv, AddStopName PROVE Drawn'
<1>1. /\ stage = "loaded" /\ pc = "stop names"
      /\ next <= Len(NamesOfStops) /\ Add(RenderNameStop(NamesOfStops[next]))
  BY DEF AddStopName, In
<1>2. Stands(4) /\ next \in Nat \ {0} /\ db \in Catalogues
  BY <1>1 DEF MapInv, Drawn
<1>3. NamesOf(4) = NamesOfStops
  BY DEF NamesOf
<1>4. next \in DOMAIN NamesOfStops
  BY <1>1, <1>2, NamesFacts, NextName
<1>5. PICK o, stop : stop = NamesOfStops[next] /\ o = RenderNameStop(stop)
  OBVIOUS
<1>6. Draws(o, 4, stop, 1)
  BY <1>2, <1>4, <1>5, StopAt, RenderNameStopDraws
<1>7. \A kind \in CountedKinds : Layer(kind) = 4 => 1 = Copies(kind, stop)
  <2>1. 4 # 2
    OBVIOUS
  <2> QED BY <2>1, OneCopy
<1>8. Stands(4)' /\ next' \in Nat \ {0}
  <2>1. 4 \in 1 .. 4 /\ ~(4 <= 2)
    OBVIOUS
  <2>2. Add(o)
    BY <1>1, <1>5
  <2> QED BY <1>1, <1>2, <1>3, <1>4, <1>5, <1>6, <1>7, <2>1, <2>2, AddKeeps
<1>9. pc' = "stop names"
  BY <1>1, AddFrame
<1> QED BY <1>8, <1>9 DEF Drawn

(* A loop of number l ends.                                                *)
LEMMA LoopEndKeeps ==
  ASSUME db \in Catalogues, next \in Nat \ {0}, NEW l \in 1 .. 4, Stands(l),
         next > Len(NamesOf(l)), next' = 1, db' = db, settings' = settings, result' = result
  PROVE  Stands(l + 1)'
<1>1. PICK k \in Nat : k = next - 1
  OBVIOUS
<1>2. k >= Len(NamesOf(l))
  <2>1. PICK n \in Nat : n = Len(NamesOf(l))
    BY NamesOfFacts
  <2>2. k >= n
    BY <1>1, <2>1
  <2> QED BY <2>1, <2>2
<1>3. PICK r : r = result
  OBVIOUS
<1>4. Done(r, l + 1, 0)
  BY <1>1, <1>2, <1>3, DoneEnds DEF Stands
<1>5. next' - 1 = 0 /\ result' = r
  BY <1>3
<1> QED BY <1>4, <1>5, StandsStill

LEMMA LoopsAre ==
  /\ LoopAfter("lines") = "bus names" /\ LoopAfter("bus names") = "circles"
  /\ LoopAfter("circles") = "stop names" /\ LoopAfter("stop names") = "print"
BY Zenon DEF LoopAfter

LEMMA NextLoopKeeps == ASSUME MapInv, NextLoop PROVE Drawn'
<1>1. /\ stage = "loaded" /\ pc \in {"lines", "bus names", "circles", "stop names"}
      /\ next > Len(Names) /\ pc' = LoopAfter(pc) /\ next' = 1
      /\ db' = db /\ settings' = settings /\ result' = result
      /\ color_counter' = IF pc = "lines" THEN 0 ELSE color_counter
  BY DEF NextLoop, LoopEnds, In, vars
<1>0. next' = 1
  BY <1>1
<1>2. Drawn /\ db \in Catalogues /\ next \in Nat \ {0}
  BY DEF MapInv, Drawn
<1>3. next' \in Nat \ {0} /\ next' - 1 = 0
  BY <1>0
<1>4. /\ Names = IF pc \in {"lines", "bus names"} THEN NamesOfBuses ELSE NamesOfStops
      /\ NamesOf(1) = NamesOfBuses /\ NamesOf(2) = NamesOfBuses
      /\ NamesOf(3) = NamesOfStops /\ NamesOf(4) = NamesOfStops
  BY DEF Names, NamesOf
<1>5. CASE pc = "lines"
  <2>1. Stands(1) /\ next > Len(NamesOf(1))
    BY <1>1, <1>2, <1>4, <1>5 DEF Drawn
  <2>2. 1 \in 1 .. 4 /\ 1 + 1 = 2
    OBVIOUS
  <2>3. Stands(1 + 1)'
    BY <1>1, <1>2, <2>1, <2>2, LoopEndKeeps
  <2>4. Stands(2)'
    BY <2>2, <2>3
  <2>5. pc' = "bus names"
    BY <1>1, <1>5, LoopsAre
  <2>6. color_counter' = 0
    BY <1>1, <1>5
  <2>7. color_counter' = next' - 1
    BY <1>3, <2>6
  <2> QED BY <1>3, <2>4, <2>5, <2>7 DEF Drawn
<1>6. CASE pc = "bus names"
  <2>1. Stands(2) /\ next > Len(NamesOf(2))
    BY <1>1, <1>2, <1>4, <1>6 DEF Drawn
  <2>2. 2 \in 1 .. 4 /\ 2 + 1 = 3
    OBVIOUS
  <2>3. Stands(2 + 1)'
    BY <1>1, <1>2, <2>1, <2>2, LoopEndKeeps
  <2>4. Stands(3)'
    BY <2>2, <2>3
  <2>5. pc' = "circles"
    BY <1>1, <1>6, LoopsAre
  <2> QED BY <1>3, <2>4, <2>5 DEF Drawn
<1>7. CASE pc = "circles"
  <2>1. Stands(3) /\ next > Len(NamesOf(3))
    BY <1>1, <1>2, <1>4, <1>7 DEF Drawn
  <2>2. 3 \in 1 .. 4 /\ 3 + 1 = 4
    OBVIOUS
  <2>3. Stands(3 + 1)'
    BY <1>1, <1>2, <2>1, <2>2, LoopEndKeeps
  <2>4. Stands(4)'
    BY <2>2, <2>3
  <2>5. pc' = "stop names"
    BY <1>1, <1>7, LoopsAre
  <2> QED BY <1>3, <2>4, <2>5 DEF Drawn
<1>8. CASE pc = "stop names"
  <2>1. Stands(4) /\ next > Len(NamesOf(4))
    BY <1>1, <1>2, <1>4, <1>8 DEF Drawn
  <2>2. 4 \in 1 .. 4 /\ 4 + 1 = 5
    OBVIOUS
  <2>3. Stands(4 + 1)'
    BY <1>1, <1>2, <2>1, <2>2, LoopEndKeeps
  <2>4. Stands(5)'
    BY <2>2, <2>3
  <2>5. pc' = "print"
    BY <1>1, <1>8, LoopsAre
  <2> QED BY <1>3, <2>4, <2>5 DEF Drawn
<1> QED BY <1>1, <1>5, <1>6, <1>7, <1>8

(* Nothing is drawn, and no loop begins.                                   *)
LEMMA StandsStay ==
  ASSUME db' = db, settings' = settings, result' = result, next' = next, NEW l, Stands(l)
  PROVE  Stands(l)'
<1>1. PICK r, k : r = result /\ k = next - 1
  OBVIOUS
<1>2. Done(r, l, k) /\ next' - 1 = k /\ result' = r
  BY <1>1 DEF Stands
<1> QED BY <1>2, StandsStill

LEMMA NoPaletteKeeps == ASSUME MapInv, NoPalette PROVE Drawn'
<1>1. /\ pc = "lines" /\ pc' = "undefined" /\ db' = db /\ settings' = settings
      /\ result' = result /\ next' = next
  BY DEF NoPalette, In, vars
<1>2. Stands(1) /\ next \in Nat \ {0}
  BY <1>1 DEF MapInv, Drawn
<1>3. Stands(1)'
  BY <1>1, <1>2, StandsStay
<1> QED BY <1>1, <1>2, <1>3 DEF Drawn

LEMMA RenderKeeps == ASSUME MapInv, Render PROVE Drawn'
<1>1. /\ pc = "print" /\ pc' = "done" /\ db' = db /\ settings' = settings
      /\ result' = result /\ next' = next
  BY DEF Render, In, vars
<1>2. Stands(5) /\ next \in Nat \ {0}
  BY <1>1 DEF MapInv, Drawn
<1>3. Stands(5)'
  BY <1>1, <1>2, StandsStay
<1> QED BY <1>1, <1>2, <1>3 DEF Drawn

LEMMA StutterKeeps == ASSUME MapInv, UNCHANGED mapVars PROVE Drawn'
<1>1. /\ db' = db /\ settings' = settings /\ result' = result /\ next' = next
      /\ pc' = pc /\ color_counter' = color_counter
  BY DEF mapVars, vars
<1>2. Drawn
  BY DEF MapInv
<1>3. \A l : Stands(l) => Stands(l)'
  BY <1>1, StandsStay
<1> QED BY <1>1, <1>2, <1>3 DEF Drawn

(* Every step keeps the invariant.                                         *)
LEMMA MapStepKeeps == MapInv /\ [MapNext]_mapVars => MapInv'
<1> SUFFICES ASSUME MapInv, [MapNext]_mapVars PROVE MapInv'
  OBVIOUS
<1>1. SettingsInv'
  BY MapKeepsSettings DEF MapInv
<1>2. CASE Next /\ UNCHANGED <<db, pc, next, color_counter, result, svg>>
  <2>1. stage # "loaded"
    BY <1>2 DEF Next, Read, SaveToProto, Deserialize
  <2>2. Untouched /\ db \in Catalogues /\ svg = << >>
    BY <2>1 DEF MapInv, Untouched
  <2>3. Untouched' /\ db' \in Catalogues /\ svg' = << >> /\ pc' # "done"
    BY <1>2, <2>2 DEF Untouched
  <2>4. Drawn'
    <3>1. (db \in Catalogues /\ Untouched)'
      BY <2>3
    <3> QED BY <3>1, EmptyCanvas, PTL
  <2> QED BY <1>1, <2>3, <2>4 DEF MapInv
<1>3. CASE AddLine \/ AddBusNames \/ AddCircle \/ AddStopName \/ NoPalette \/ NextLoop
  <2>1. /\ db' = db /\ stage' = stage /\ svg' = svg /\ stage = "loaded" /\ pc # "done"
    BY <1>3 DEF AddLine, AddBusNames, AddCircle, AddStopName, NoPalette, NextLoop, Add, In,
                LoopEnds, vars
  <2>2. pc' # "done"
    BY <1>3, LoopsAre DEF AddLine, AddBusNames, AddCircle, AddStopName, NoPalette, NextLoop,
                          Add, In, LoopEnds
  <2>3. Drawn'
    BY <1>3, AddLineKeeps, AddBusNamesKeeps, AddCircleKeeps, AddStopNameKeeps, NoPaletteKeeps,
       NextLoopKeeps
  <2>4. db' \in Catalogues /\ svg' = << >>
    BY <2>1 DEF MapInv
  <2> QED BY <1>1, <2>1, <2>2, <2>3, <2>4 DEF MapInv
<1>4. CASE Render
  <2>1. /\ db' = db /\ stage' = stage /\ stage = "loaded" /\ pc' = "done" /\ result' = result
        /\ svg' = Printed
    BY <1>4 DEF Render, In, vars, Printed
  <2>2. Printed' = Printed
    BY <2>1 DEF Printed
  <2>3. Drawn' /\ db' \in Catalogues
    BY <1>4, <2>1, RenderKeeps DEF MapInv
  <2> QED BY <1>1, <2>1, <2>2, <2>3 DEF MapInv
<1>5. CASE UNCHANGED mapVars
  <2>1. /\ db' = db /\ stage' = stage /\ pc' = pc /\ result' = result /\ svg' = svg
        /\ next' = next /\ color_counter' = color_counter
    BY <1>5 DEF mapVars, vars
  <2>2. Printed' = Printed
    BY <2>1 DEF Printed
  <2>3. Drawn' /\ db' \in Catalogues
    BY <1>5, <2>1, StutterKeeps DEF MapInv
  <2> QED BY <1>1, <2>1, <2>2, <2>3 DEF MapInv, Untouched
<1> QED BY <1>2, <1>3, <1>4, <1>5 DEF MapNext

-----------------------------------------------------------------------------
LEMMA SomethingStands ==
  ASSUME MapInv
  PROVE  \E l : Stands(l)
BY Zenon DEF MapInv, Drawn

(* Of what is drawn at any time, whichever loop is running.                *)
LEMMA ResultIsPicture ==
  ASSUME MapInv
  PROVE  /\ IsSequence(result) /\ DOMAIN result = 1 .. Len(result) /\ Len(result) \in Nat
         /\ \A i \in DOMAIN result : OnMap(result[i]) /\ Explained(result[i])
         /\ \A i, j \in DOMAIN result : i < j => Layer(result[i].kind) <= Layer(result[j].kind)
         /\ \A i \in DOMAIN result :
              result[i].kind \in TitleKinds => i > 1 /\ Under(result[i - 1], result[i])
         /\ DOMAIN result # {} => stage = "loaded"
<1>1. PICK l : Picture(result, 1, l)
  BY SomethingStands DEF Stands, Done
<1>2. IsSequence(result)
  BY <1>1 DEF Picture
<1>3. DOMAIN result = 1 .. Len(result) /\ Len(result) \in Nat
  BY <1>2 DEF IsSequence
<1>4. DOMAIN result # {} => stage = "loaded"
  <2>1. SUFFICES ASSUME stage # "loaded" PROVE DOMAIN result = {}
    OBVIOUS
  <2>2. result = << >>
    BY <2>1 DEF MapInv, Untouched
  <2> QED BY <2>2
<1> QED BY <1>1, <1>2, <1>3, <1>4 DEF Picture

(* Settings that are loaded have been read.                                *)
LEMMA SizesAreNumbers ==
  ASSUME MapInv, stage = "loaded"
  PROVE  Width \in Int /\ Height \in Int /\ Padding \in Int
<1>1. Readable(document) /\ settings = MapSettings(document)
  BY DEF MapInv, SettingsInv
<1>2. settings.size_ = <<document.width, document.height, document.padding>>
  BY <1>1 DEF MapSettings
<1>3. document \in Documents /\ document.width # NoKey
  BY <1>1 DEF Readable, LacksAKey
<1>4. document.width \in Int /\ document.height \in Int /\ document.padding \in Int
  BY <1>3, SettingsAssumption
<1> QED BY <1>2, <1>4 DEF Width, Height, Padding

LEMMA CanvasInvImplies == MapInv => EverythingOnCanvas
<1> SUFFICES ASSUME MapInv, NEW i \in DOMAIN result, NEW k \in DOMAIN result[i].points, Room,
                    \/ \A extent \in {LonExtent, LatExtent} : IsZero(extent)
                    \/ \A extent \in {LonExtent, LatExtent} : IsZero(extent) => extent = 0
             PROVE  OnCanvas(result[i].points[k])
  BY Zenon DEF EverythingOnCanvas, OnCanvas, Room
<1>1. Clear
  BY DEF Clear
<1>2. OnMap(result[i]) /\ stage = "loaded" /\ db \in Catalogues
  BY ResultIsPicture DEF MapInv
<1>3. PICK s \in Served : result[i].points[k] = Projected(s)
  BY <1>2 DEF OnMap
<1>4. OnCanvas(Projected(s))
  BY <1>1, <1>2, SizesAreNumbers, StopsOnCanvas
<1> QED BY <1>3, <1>4

(* Wherever the stops are, in a row or all in one spot, no point of any    *)
(* object the map gets lies outside the canvas or in its padding, if that  *)
(* leaves room and no extent that counts as zero is left out of the zoom.  *)
THEOREM MapStaysOnCanvas == MapSpec => []EverythingOnCanvas
BY MapInitEstablishes, MapStepKeeps, CanvasInvImplies, PTL DEF MapSpec

-----------------------------------------------------------------------------
(* A tag is that of its object.                                            *)
LEMMA TagFacts ==
  ASSUME NEW o
  PROVE  /\ RenderObject(o, Monostate).kind = o.kind /\ RenderObject(o, Monostate).of = o.of
         /\ RenderObject(o, Monostate).points = o.points
         /\ RenderObject(o, Monostate).label = o.label
         /\ RenderObject(o, Monostate).data = o.data
         /\ o.fill # Monostate =>
              RenderObject(o, Monostate).attributes["fill"] = o.fill
         /\ o.stroke # Monostate =>
              RenderObject(o, Monostate).attributes["stroke"] = o.stroke
<1>1. PICK m : m = Monostate
  OBVIOUS
<1>2. PICK t : t = RenderAttrs(o, m)
  OBVIOUS
<1>3. RenderObject(o, m).attributes = t
  BY <1>2 DEF RenderObject
<1>4. /\ o["fill"] # m => t["fill"] = o["fill"]
      /\ o["stroke"] # m => t["stroke"] = o["stroke"]
  BY <1>2 DEF RenderAttrs
<1>5. o["fill"] = o.fill /\ o["stroke"] = o.stroke
  OBVIOUS
<1>6. /\ RenderObject(o, m).kind = o.kind /\ RenderObject(o, m).of = o.of
      /\ RenderObject(o, m).points = o.points /\ RenderObject(o, m).label = o.label
      /\ RenderObject(o, m).data = o.data
  BY DEF RenderObject
<1> QED BY <1>1, <1>3, <1>4, <1>5, <1>6

(* The tags that are printed are those of the objects, in their order.     *)
LEMMA TagsAre ==
  ASSUME MapInv
  PROVE  /\ \/ DOMAIN svg = {}
            \/ DOMAIN svg = DOMAIN result
         /\ pc = "done" => DOMAIN svg = DOMAIN result
         /\ \A i \in DOMAIN svg : svg[i] = RenderObject(result[i], Monostate)
<1>1. CASE pc = "done"
  BY <1>1 DEF MapInv, Printed
<1>2. CASE pc # "done"
  <2>1. svg = << >>
    BY <1>2 DEF MapInv
  <2> QED BY <1>2, <2>1
<1> QED BY <1>1, <1>2

(* The colours a map is drawn with are set.                                *)
LEMMA ColorsAreSet ==
  ASSUME MapInv, stage = "loaded"
  PROVE  /\ settings.underlayer_color_ # Monostate
         /\ \A m \in DOMAIN settings.color_palette_ : settings.color_palette_[m] # Monostate
         /\ Len(settings.color_palette_) = Len(document.color_palette)
         /\ Len(document.color_palette) \in Nat
         /\ DOMAIN document.color_palette = 1 .. Len(document.color_palette)
         /\ DOMAIN settings.color_palette_ = DOMAIN document.color_palette
<1>1. Readable(document) /\ settings = MapSettings(document) /\ document \in Documents
  BY DEF MapInv, SettingsInv, Readable
<1>2. /\ settings.underlayer_color_ = ReaderColor(document.underlayer_color)
      /\ settings.color_palette_ = Palette(document)
  BY <1>1 DEF MapSettings, Palette
<1>3. Monostate.kind = "monostate"
  <2>1. PICK e, v : e = "" /\ v = << >>
    BY Zenon
  <2>2. Monostate = Color("monostate", e, v, 0)
    BY <2>1, Zenon DEF Monostate
  <2> QED BY <2>2, ColorFields
<1>4. ASSUME NEW json \in JsonColor PROVE ReaderColor(json) # Monostate
  <2>1. SUFFICES ReaderColor(json).kind # "monostate"
    BY <1>3
  <2>2. CASE ReaderColor(json) = Color("str", json.name, << >>, 0)
    BY <2>2, ColorFields, KindsDiffer
  <2>3. CASE ReaderColor(json) = Rgba(json.array) \/ ReaderColor(json) = Rgb(json.array)
    BY <2>3, RgbFields, RgbaFields, KindsDiffer
  <2> QED BY <2>2, <2>3, ReaderColorReads, Zenon DEF ReadAs
<1>5. document.color_palette \in Seq(JsonColor) /\ document.underlayer_color \in JsonColor
  BY <1>1, SettingsAssumption
<1>6. PICK given : given = document.color_palette
  OBVIOUS
<1>7. /\ Len(given) \in Nat /\ DOMAIN given = 1 .. Len(given)
      /\ \A m \in DOMAIN given : given[m] \in JsonColor
  BY <1>5, <1>6
<1>8. PICK palette : palette = settings.color_palette_
  OBVIOUS
<1>9. palette = [m \in DOMAIN given |-> ReaderColor(given[m])]
  BY <1>2, <1>6, <1>8 DEF Palette
<1>10. Len(palette) = Len(given) /\ DOMAIN palette = DOMAIN given
  BY <1>7, <1>9
<1>11. \A m \in DOMAIN palette : palette[m] # Monostate
  BY <1>4, <1>7, <1>9
<1> QED BY <1>2, <1>4, <1>5, <1>6, <1>7, <1>8, <1>10, <1>11

LEMMA LayersInvImplies == MapInv => PaintedInLayers
<1> SUFFICES ASSUME MapInv, NEW i \in DOMAIN svg, NEW j \in DOMAIN svg, i < j
             PROVE  Layer(svg[i].kind) <= Layer(svg[j].kind)
  BY DEF PaintedInLayers
<1>1. i \in DOMAIN result /\ j \in DOMAIN result
  BY TagsAre
<1>2. svg[i].kind = result[i].kind /\ svg[j].kind = result[j].kind
  BY TagsAre, TagFacts
<1>3. Layer(result[i].kind) <= Layer(result[j].kind)
  BY <1>1, ResultIsPicture
<1> QED BY <1>2, <1>3

(* A title has a tag before it.                                            *)
LEMMA TitleIs ==
  ASSUME MapInv, NEW i \in Titles
  PROVE  /\ i \in DOMAIN svg /\ i \in DOMAIN result /\ i > 1 /\ i - 1 \in DOMAIN svg
         /\ Under(result[i - 1], result[i]) /\ stage = "loaded"
         /\ result[i].kind = "bus title" \/ result[i].kind = "stop title"
<1>1. i \in DOMAIN svg /\ svg[i].kind \in {"bus title", "stop title"}
  BY DEF Titles
<1>2. i \in DOMAIN result /\ DOMAIN svg = DOMAIN result
  BY <1>1, TagsAre
<1>3. svg[i].kind = result[i].kind
  BY <1>1, TagsAre, TagFacts
<1>4. i > 1 /\ Under(result[i - 1], result[i]) /\ stage = "loaded"
  BY <1>1, <1>2, <1>3, ResultIsPicture DEF TitleKinds
<1>5. i - 1 \in DOMAIN svg
  <2>1. DOMAIN result = 1 .. Len(result) /\ Len(result) \in Nat
    BY ResultIsPicture
  <2> QED BY <1>2, <1>4, <2>1
<1> QED BY <1>1, <1>2, <1>3, <1>4, <1>5

LEMMA TitlesInvImplies == MapInv => TitlesOverBackgrounds
<1> SUFFICES ASSUME MapInv, NEW i \in Titles
             PROVE  LET under == svg[i - 1]
                        offset == IF svg[i].kind = "bus title" THEN document.bus_label_offset
                                                               ELSE document.stop_label_offset
                    IN /\ i > 1 /\ under.of = svg[i].of /\ under.kind # svg[i].kind
                       /\ under.points = svg[i].points /\ under.data = svg[i].data
                       /\ under.label = svg[i].label
                       /\ \A a \in {"fill", "stroke"} :
                            IsColor(under.attributes[a], document.underlayer_color)
                       /\ svg[i].label.offset_ = SubSeq(offset, 1, 2)
  BY DEF TitlesOverBackgrounds
<1>1. PICK x, y : x = result[i - 1] /\ y = result[i]
  OBVIOUS
<1>2. /\ i > 1 /\ i \in DOMAIN svg /\ i - 1 \in DOMAIN svg
      /\ Under(x, y) /\ stage = "loaded"
      /\ y.kind = "bus title" \/ y.kind = "stop title"
  BY <1>1, TitleIs
<1>3. svg[i] = RenderObject(y, Monostate) /\ svg[i - 1] = RenderObject(x, Monostate)
  BY <1>1, <1>2, TagsAre
<1>4. PICK t, u : t = svg[i] /\ u = svg[i - 1]
  OBVIOUS
<1>5. /\ t.kind = y.kind /\ t.of = y.of /\ t.points = y.points /\ t.label = y.label
      /\ t.data = y.data
  BY <1>3, <1>4, TagFacts
<1>6. /\ u.kind = x.kind /\ u.of = x.of /\ u.points = x.points /\ u.label = x.label
      /\ u.data = x.data
      /\ x.fill # Monostate => u.attributes["fill"] = x.fill
      /\ x.stroke # Monostate => u.attributes["stroke"] = x.stroke
  BY <1>3, <1>4, TagFacts
<1>7. /\ x.fill = settings.underlayer_color_ /\ x.stroke = settings.underlayer_color_
      /\ x.of = y.of /\ x.points = y.points /\ x.data = y.data /\ x.label = y.label
  BY <1>2 DEF Under
<1>8. u.kind # t.kind
  BY <1>2, <1>5, <1>6 DEF Under
<1>9. SettingsSurvive
  BY SettingsInvImplies DEF MapInv
<1>10. /\ IsColor(settings.underlayer_color_, document.underlayer_color)
       /\ settings.bus_label_.offset_ = SubSeq(document.bus_label_offset, 1, 2)
       /\ settings.stop_label_.offset_ = SubSeq(document.stop_label_offset, 1, 2)
  BY <1>2, <1>9, Zenon DEF SettingsSurvive
<1>11. settings.underlayer_color_ # Monostate
  BY <1>2, ColorsAreSet
<1>12. \A a \in {"fill", "stroke"} : u.attributes[a] = settings.underlayer_color_
  BY <1>6, <1>7, <1>11
<1>13. \A a \in {"fill", "stroke"} : IsColor(u.attributes[a], document.underlayer_color)
  BY <1>10, <1>12
<1>14. t.label.offset_ = SubSeq(IF t.kind = "bus title" THEN document.bus_label_offset
                                                       ELSE document.stop_label_offset, 1, 2)
  <2>1. CASE y.kind = "bus title"
    <3>1. y.label = settings.bus_label_
      BY <1>2, <2>1 DEF Under
    <3> QED BY <1>5, <1>10, <2>1, <3>1
  <2>2. CASE y.kind = "stop title"
    <3>1. y.label = settings.stop_label_ /\ y.kind # "bus title"
      BY <1>2, <2>2 DEF Under
    <3> QED BY <1>5, <1>10, <3>1
  <2> QED BY <1>2, <2>1, <2>2
<1> QED BY <1>2, <1>4, <1>5, <1>6, <1>7, <1>8, <1>13, <1>14, Zenon

(* The colour of the n-th bus is the one the document gives it.            *)
LEMMA PaletteMeant ==
  ASSUME MapInv, stage = "loaded", NEW n \in Nat \ {0}, settings.color_palette_ # << >>
  PROVE  /\ PaletteAt(n) # Monostate
         /\ IsColor(PaletteAt(n),
                    document.color_palette[((n - 1) % Len(document.color_palette)) + 1])
<1>1. PICK given, palette : given = document.color_palette /\ palette = settings.color_palette_
  OBVIOUS
<1>2. /\ Len(palette) = Len(given) /\ Len(given) \in Nat
      /\ DOMAIN given = 1 .. Len(given) /\ DOMAIN palette = DOMAIN given
      /\ \A m \in DOMAIN palette : palette[m] # Monostate
  BY <1>1, ColorsAreSet
<1>3. palette = Palette(document)
  BY <1>1 DEF MapInv, SettingsInv, MapSettings, Palette
<1>4. Len(given) # 0
  <2>1. SUFFICES ASSUME DOMAIN palette = {} PROVE FALSE
    BY <1>2
  <2>2. palette = [m \in {} |-> m]
    BY <1>1, <1>3, <2>1 DEF Palette
  <2>3. palette = << >>
    BY <2>2
  <2> QED BY <1>1, <2>3
<1>5. PICK k : k = ((n - 1) % Len(given)) + 1
  OBVIOUS
<1>6. k \in DOMAIN given
  BY <1>2, <1>4, <1>5
<1>7. PaletteAt(n) = palette[k]
  BY <1>1, <1>2, <1>5 DEF PaletteAt
<1>8. IsColor(palette[k], given[k])
  <2>1. SettingsSurvive
    BY SettingsInvImplies DEF MapInv
  <2>2. \A i \in DOMAIN document.color_palette :
          IsColor(settings.color_palette_[i], document.color_palette[i])
    BY <2>1, Zenon DEF SettingsSurvive
  <2> QED BY <1>1, <1>6, <2>2
<1> QED BY <1>1, <1>2, <1>5, <1>6, <1>7, <1>8

LEMMA ColorsInvImplies == MapInv => ColorsAgree
<1> SUFFICES ASSUME MapInv, NEW n \in DOMAIN NamesOfBuses
             PROVE  LET palette == document.color_palette
                        color == palette[((n - 1) % Len(palette)) + 1]
                    IN /\ \A i \in Of("line", NamesOfBuses[n]) :
                            IsColor(svg[i].attributes["stroke"], color)
                       /\ \A i \in Of("bus title", NamesOfBuses[n]) :
                            IsColor(svg[i].attributes["fill"], color)
  BY DEF ColorsAgree
<1>1. PICK color : color = document.color_palette[((n - 1) % Len(document.color_palette)) + 1]
  OBVIOUS
<1>2. n \in Nat \ {0}
  <2>1. DOMAIN NamesOfBuses = 1 .. Len(NamesOfBuses)
    BY NamesFacts DEF MapInv
  <2> QED BY <2>1
<1>3. \A m \in DOMAIN NamesOfBuses : NamesOfBuses[m] = NamesOfBuses[n] => m = n
  BY NamesFacts DEF MapInv
<1>4. ASSUME NEW i \in Of("line", NamesOfBuses[n])
      PROVE  IsColor(svg[i].attributes["stroke"], color)
  <2>1. i \in DOMAIN svg /\ svg[i].kind = "line" /\ svg[i].of = NamesOfBuses[n]
    BY DEF Of
  <2>2. /\ i \in DOMAIN result /\ svg[i] = RenderObject(result[i], Monostate)
        /\ stage = "loaded" /\ Explained(result[i])
    BY <2>1, TagsAre, ResultIsPicture
  <2>3. result[i].kind = "line" /\ result[i].of = NamesOfBuses[n]
    BY <2>1, <2>2, TagFacts
  <2>4. settings.color_palette_ # << >> /\ result[i].stroke = PaletteAt(n)
    BY <1>3, <2>2, <2>3 DEF Explained
  <2>5. result[i].stroke # Monostate /\ IsColor(result[i].stroke, color)
    BY <1>1, <1>2, <2>2, <2>4, PaletteMeant
  <2> QED BY <2>2, <2>5, TagFacts
<1>5. ASSUME NEW i \in Of("bus title", NamesOfBuses[n])
      PROVE  IsColor(svg[i].attributes["fill"], color)
  <2>1. i \in DOMAIN svg /\ svg[i].kind = "bus title" /\ svg[i].of = NamesOfBuses[n]
    BY DEF Of
  <2>2. /\ i \in DOMAIN result /\ svg[i] = RenderObject(result[i], Monostate)
        /\ stage = "loaded" /\ Explained(result[i])
    BY <2>1, TagsAre, ResultIsPicture
  <2>3. result[i].kind = "bus title" /\ result[i].of = NamesOfBuses[n]
    BY <2>1, <2>2, TagFacts
  <2>4. settings.color_palette_ # << >> /\ result[i].fill = PaletteAt(n)
    BY <1>3, <2>2, <2>3 DEF Explained
  <2>5. result[i].fill # Monostate /\ IsColor(result[i].fill, color)
    BY <1>1, <1>2, <2>2, <2>4, PaletteMeant
  <2> QED BY <2>2, <2>5, TagFacts
<1> QED BY <1>1, <1>4, <1>5, Zenon

(* How often a name is in the finished map.                                *)
LEMMA EachShown ==
  ASSUME MapInv, pc = "done", NEW kind \in CountedKinds, NEW x
  PROVE  Cardinality(Of(kind, x))
           = IF x \in Elements(NamesOf(Layer(kind))) THEN Copies(kind, x) ELSE 0
<1>1. Stands(5)
  BY DEF MapInv, Drawn
<1>2. N(kind, x, result) = IF x \in Gone(kind, 5, next - 1) THEN Copies(kind, x) ELSE 0
  BY <1>1 DEF Stands, Done
<1>3. Gone(kind, 5, next - 1) = Elements(NamesOf(Layer(kind)))
  <2>1. Layer(kind) < 5
    BY OneKindPerLayer
  <2> QED BY <2>1 DEF Gone, Elements
<1>4. Of(kind, x) = {i \in DOMAIN result : result[i].kind = kind /\ result[i].of = x}
  <2>1. DOMAIN svg = DOMAIN result
    BY TagsAre
  <2>2. \A i \in DOMAIN result : svg[i].kind = result[i].kind /\ svg[i].of = result[i].of
    BY <2>1, TagsAre, TagFacts
  <2> QED BY <2>1, <2>2 DEF Of
<1> QED BY <1>2, <1>3, <1>4 DEF N

LEMMA BusesShown ==
  ASSUME MapInv, pc = "done", NEW n \in DOMAIN db.buses
  PROVE  /\ Cardinality(Of("line", n)) = IF Bus(n).stops = << >> THEN 0 ELSE 1
         /\ Cardinality(Of("bus title", n)) = IF Bus(n).stops = << >> THEN 0 ELSE TitlesOf(n)
<1>1. n \in Elements(NamesOfBuses) <=> Bus(n).stops # << >>
  BY NamesFacts DEF MapInv, WithStops
<1>2. /\ "line" \in CountedKinds /\ "bus title" \in CountedKinds /\ "line" # "bus title"
      /\ Layer("line") = 1 /\ Layer("bus title") = 2
  BY LayersAre DEF CountedKinds
<1>3. NamesOf(1) = NamesOfBuses /\ NamesOf(2) = NamesOfBuses
  BY DEF NamesOf
<1>4. Cardinality(Of("line", n)) = IF n \in Elements(NamesOfBuses) THEN 1 ELSE 0
  <2>1. Copies("line", n) = 1
    BY <1>2 DEF Copies
  <2>2. Cardinality(Of("line", n))
          = IF n \in Elements(NamesOf(Layer("line"))) THEN Copies("line", n) ELSE 0
    BY <1>2, EachShown
  <2> QED BY <1>2, <1>3, <2>1, <2>2
<1>5. Cardinality(Of("bus title", n)) = IF n \in Elements(NamesOfBuses) THEN TitlesOf(n) ELSE 0
  <2>1. Copies("bus title", n) = TitlesOf(n)
    BY DEF Copies
  <2>2. Cardinality(Of("bus title", n))
          = IF n \in Elements(NamesOf(Layer("bus title"))) THEN Copies("bus title", n) ELSE 0
    BY <1>2, EachShown
  <2> QED BY <1>2, <1>3, <2>1, <2>2
<1> QED BY <1>1, <1>4, <1>5

LEMMA StopsShown ==
  ASSUME MapInv, pc = "done", NEW s, NEW kind \in {"circle", "stop title"}
  PROVE  Cardinality(Of(kind, s)) = IF s \in Served THEN 1 ELSE 0
<1>1. kind \in CountedKinds /\ kind # "bus title" /\ (Layer(kind) = 3 \/ Layer(kind) = 4)
  BY LayersAre, Zenon DEF CountedKinds
<1>2. NamesOf(Layer(kind)) = NamesOfStops
  <2>1. PICK l : l = Layer(kind) /\ (l = 3 \/ l = 4)
    BY <1>1
  <2> QED BY <2>1, LaterNames, Zenon
<1>3. Elements(NamesOf(Layer(kind))) = Served
  BY <1>2, NamesFacts DEF MapInv
<1>4. Copies(kind, s) = 1
  BY <1>1 DEF Copies
<1> QED BY <1>1, <1>3, <1>4, EachShown

LEMMA MapInvImplies == MapInv => MapShowsNetwork
<1> SUFFICES ASSUME MapInv PROVE MapShowsNetwork
  OBVIOUS
<1>1. PaintedInLayers /\ TitlesOverBackgrounds /\ ColorsAgree
  BY LayersInvImplies, TitlesInvImplies, ColorsInvImplies
<1>2. ASSUME pc = "done", NEW n \in DOMAIN db.buses
      PROVE  LET stops == Bus(n).stops
                 titles == IF stops = << >> THEN 0
                           ELSE IF Bus(n).is_loop_trip THEN 1
                           ELSE Cardinality({FirstStop(n), LastStop(n)})
             IN /\ Cardinality(Of("line", n)) = IF stops = << >> THEN 0 ELSE 1
                /\ Cardinality(Of("bus title", n)) = titles
  BY <1>2, BusesShown, Zenon DEF TitlesOf
<1>3. ASSUME pc = "done", NEW s \in DOMAIN db.place
      PROVE  LET served == \E n \in DOMAIN db.buses : s \in Elements(Bus(n).stops) IN
             \A kind \in {"circle", "stop title"} :
               Cardinality(Of(kind, s)) = IF served THEN 1 ELSE 0
  <2>1. s \in Served <=> \E n \in DOMAIN db.buses : s \in Elements(Bus(n).stops)
    BY DEF Served
  <2>2. \A kind \in {"circle", "stop title"} :
          Cardinality(Of(kind, s)) = IF s \in Served THEN 1 ELSE 0
    BY <1>3, StopsShown
  <2> QED BY <2>1, <2>2
<1> QED BY <1>1, <1>2, <1>3, Zenon DEF MapShowsNetwork

(* Whatever buses and stops there are, the finished map has each of them   *)
(* as often as it must, in layers none of which hides another's names,     *)
(* each title over its background, and every bus in one colour, its own of *)
(* the document's palette, on its line and on its names.                   *)
THEOREM MapIsTheNetwork == MapSpec => []MapShowsNetwork
BY MapInitEstablishes, MapStepKeeps, MapInvImplies, PTL DEF MapSpec

LEMMA NamesInvImplies == MapInv => NamesAreShown
<1> SUFFICES ASSUME MapInv, NEW i \in Titles
             PROVE  LET name == db.name[svg[i].of] IN
                    \/ name # << >> /\ name[1] \in {Ampersand, LessThan}
                    \/ Shows(svg[i].data, name)
  BY Zenon DEF NamesAreShown
<1>1. PICK x, y, t : x = result[i - 1] /\ y = result[i] /\ t = svg[i]
  OBVIOUS
<1>2. i \in DOMAIN svg /\ Under(x, y)
  BY <1>1, TitleIs
<1>3. t.of = y.of /\ t.data = y.data
  BY <1>1, <1>2, TagsAre, TagFacts
<1>4. t.of \in DOMAIN db.buses \cup DOMAIN db.place /\ t.data = SetData(db.name[t.of])
  BY <1>2, <1>3, Zenon DEF Under
<1>5. db \in Catalogues
  BY DEF MapInv
<1>6. db.name[t.of] \in Seq(Nat)
  BY <1>4, <1>5, MapRenderAssumption
<1>7. PICK text : text = db.name[t.of]
  OBVIOUS
<1>8. (text # << >> /\ text[1] \in {Ampersand, LessThan}) \/ Shows(SetData(text), text)
  BY <1>6, <1>7, SetDataShows
<1> QED BY <1>1, <1>4, <1>7, <1>8, Zenon

(* Between the tags of every title a reader of XML sees the name of its    *)
(* bus or stop, whatever its characters and however long, unless the name  *)
(* begins with & or <.                                                     *)
THEOREM NamesAreRead == MapSpec => []NamesAreShown
BY MapInitEstablishes, MapStepKeeps, NamesInvImplies, PTL DEF MapSpec

-----------------------------------------------------------------------------
(* h[k] is what is read of a string after k of its characters.             *)
Unread == Reading(FALSE, FALSE, << >>)
ReadAt(h, raw, k) == IF k = 0 THEN Unread ELSE LoadChar(h[k - 1], raw[k])
Reads(h, raw, n) == h = [k \in 0 .. n |-> ReadAt(h, raw, k)]

LEMMA ReadsExists ==
  ASSUME NEW raw, NEW n \in Nat
  PROVE  \E h : Reads(h, raw, n)
<1> DEFINE T == {m \in Nat : ~\E h : Reads(h, raw, m)}
<1> SUFFICES ASSUME T # {} PROVE FALSE
  OBVIOUS
<1>1. PICK m \in T : \A y \in T : m <= y
  <2>1. T \in SUBSET Nat
    OBVIOUS
  <2> HIDE DEF T
  <2> QED BY <2>1, LeastNat
<1>2. m \in Nat /\ ~\E h : Reads(h, raw, m)
  OBVIOUS
<1>3. PICK h : m # 0 => Reads(h, raw, m - 1)
  <2>1. m # 0 => m - 1 \in Nat /\ ~(m <= m - 1)
    BY <1>2
  <2> QED BY <1>1, <2>1
<1> DEFINE g == [k \in 0 .. m |-> IF k = m THEN ReadAt(h, raw, k) ELSE h[k]]
<1>4. ASSUME NEW k \in 0 .. m PROVE g[k] = ReadAt(g, raw, k)
  <2>1. k # 0 => k - 1 \in 0 .. m /\ k - 1 # m
    BY <1>2
  <2>2. k # 0 => g[k - 1] = h[k - 1]
    BY <2>1
  <2>3. ReadAt(g, raw, k) = ReadAt(h, raw, k)
    <3> HIDE DEF g
    <3> QED BY <2>2, Zenon DEF ReadAt
  <2>4. k # m => h[k] = ReadAt(h, raw, k)
    <3>1. k # m => m # 0 /\ k \in 0 .. m - 1
      BY <1>2
    <3> QED BY <1>3, <3>1 DEF Reads
  <2>5. g[k] = IF k = m THEN ReadAt(h, raw, k) ELSE h[k]
    OBVIOUS
  <2> HIDE DEF g
  <2> QED BY <2>3, <2>4, <2>5
<1>5. Reads(g, raw, m)
  <2> DEFINE F == [k \in 0 .. m |-> ReadAt(g, raw, k)]
  <2>1. \A k \in 0 .. m : g[k] = F[k]
    <3>1. \A k \in 0 .. m : g[k] = ReadAt(g, raw, k)
      BY <1>4
    <3> HIDE DEF g
    <3> QED BY <3>1
  <2>2. g = F
    <3> HIDE DEF g
    <3>1. DOMAIN g = 0 .. m /\ g = [k \in 0 .. m |-> g[k]]
      BY DEF g
    <3> QED BY <2>1, <3>1
  <2> HIDE DEF g
  <2> QED BY <2>2 DEF Reads
<1> QED BY <1>2, <1>5

LEMMA ReadsTo ==
  ASSUME NEW h, NEW raw, NEW n \in Nat, Reads(h, raw, n), NEW k \in 0 .. n
  PROVE  h[k] = ReadAt(h, raw, k)
BY DEF Reads

LEMMA ReadStringReads ==
  ASSUME NEW raw, NEW n \in Nat, Len(raw) = n
  PROVE  \E h : Reads(h, raw, n) /\ ReadString(raw) = h[n]
<1> DEFINE Is(h) == Reads(h, raw, n)
<1>1. ReadString(raw) = (CHOOSE h : Is(h))[n]
  BY Zenon DEF ReadString, Reads, ReadAt, Unread
<1>2. PICK h : Is(h)
  BY ReadsExists
<1> HIDE DEF Is
<1>3. Is(CHOOSE g : Is(g))
  BY <1>2, Zenon
<1>4. PICK f : f = CHOOSE g : Is(g)
  OBVIOUS
<1> QED BY <1>1, <1>3, <1>4 DEF Is

LEMMA NothingRead ==
  ASSUME NEW raw, Len(raw) = 0
  PROVE  ReadString(raw) = Unread
<1>0. PICK n \in Nat : n = 0
  OBVIOUS
<1>1. PICK h : Reads(h, raw, n) /\ ReadString(raw) = h[n]
  BY <1>0, ReadStringReads
<1>2. n \in 0 .. n
  BY <1>0
<1>3. h[n] = ReadAt(h, raw, n)
  BY <1>1, <1>2, ReadsTo
<1> QED BY <1>0, <1>1, <1>3, Zenon DEF ReadAt

(* One character more.                                                     *)
LEMMA ReadLonger ==
  ASSUME NEW n \in Nat, NEW raw, NEW q, NEW c, Longer(q, raw, n, c)
  PROVE  ReadString(q) = LoadChar(ReadString(raw), c)
<1>0. PICK k \in Nat : k = n + 1
  OBVIOUS
<1>01. /\ Len(raw) = n /\ Len(q) = k /\ q[k] = c
       /\ \A i \in 1 .. n : q[i] = raw[i]
  BY <1>0 DEF Longer
<1>1. PICK h : Reads(h, raw, n) /\ ReadString(raw) = h[n]
  BY <1>01, ReadStringReads
<1>2. PICK g : Reads(g, q, k) /\ ReadString(q) = g[k]
  BY <1>01, ReadStringReads
<1>3. \A i \in 0 .. n : g[i] = h[i]
  <2> DEFINE T == {i \in 0 .. n : g[i] # h[i]}
  <2> SUFFICES ASSUME T # {} PROVE FALSE
    OBVIOUS
  <2>1. PICK m \in T : \A y \in T : m <= y
    <3>1. T \in SUBSET Nat
      OBVIOUS
    <3> HIDE DEF T
    <3> QED BY <3>1, LeastNat
  <2>2. m \in 0 .. n /\ g[m] # h[m] /\ m \in 0 .. k
    BY <1>0
  <2>3. g[m] = ReadAt(g, q, m)
    BY <1>2, <2>2, ReadsTo
  <2>4. h[m] = ReadAt(h, raw, m)
    BY <1>1, <2>2, ReadsTo
  <2>5. m # 0 => m - 1 \in 0 .. n /\ ~(m <= m - 1) /\ m \in 1 .. n
    BY <2>2
  <2>6. m # 0 => g[m - 1] = h[m - 1] /\ q[m] = raw[m]
    BY <1>01, <2>1, <2>5
  <2>7. ReadAt(g, q, m) = ReadAt(h, raw, m)
    BY <2>6, Zenon DEF ReadAt
  <2> QED BY <2>2, <2>3, <2>4, <2>7, Zenon
<1>4. k \in 0 .. k /\ k # 0 /\ k - 1 = n
  BY <1>0
<1>5. g[k] = ReadAt(g, q, k)
  BY <1>2, <1>4, ReadsTo
<1>6. g[k] = LoadChar(g[n], q[k])
  BY <1>4, <1>5, Zenon DEF ReadAt
<1>7. g[n] = h[n]
  BY <1>3
<1> QED BY <1>01, <1>1, <1>2, <1>6, <1>7, Zenon

-----------------------------------------------------------------------------
(* Every quote that stands there is read as a character.                   *)
QuotesInside(raw) ==
  \A i \in DOMAIN raw : raw[i] = Quote => ReadString(SubSeq(raw, 1, i - 1)).escaped

(* The characters raw are read as the string s, and there the string ends. *)
Spells(raw, s) ==
  raw \in Seq(Int) /\ QuotesInside(raw) /\ ReadString(raw) = Reading(FALSE, FALSE, s)

(* Reading on from a reading between two characters, or after a backslash. *)
LEMMA OneTurn ==
  ASSUME NEW s, NEW c
  PROVE  /\ c \notin {Backslash, NewLine, CarriageReturn} =>
               LoadChar(Reading(FALSE, FALSE, s), c) = Reading(FALSE, FALSE, Append(s, c))
         /\ LoadChar(Reading(FALSE, FALSE, s), Backslash) = Reading(TRUE, FALSE, s)
         /\ c \in DOMAIN Meaning =>
               LoadChar(Reading(TRUE, FALSE, s), c) = Reading(FALSE, FALSE, Append(s, Meaning[c]))
<1>1. PICK read : read = Reading(FALSE, FALSE, s)
  OBVIOUS
<1>2. read.escaped = FALSE /\ read.refused = FALSE /\ read.s = s
  BY <1>1 DEF Reading
<1>3. PICK half : half = Reading(TRUE, FALSE, s)
  OBVIOUS
<1>4. half.escaped = TRUE /\ half.refused = FALSE /\ half.s = s
  BY <1>3 DEF Reading
<1>5. ASSUME c \notin {Backslash, NewLine, CarriageReturn}
      PROVE  LoadChar(read, c) = Reading(FALSE, FALSE, Append(s, c))
  BY <1>2, <1>5 DEF LoadChar
<1>6. LoadChar(read, Backslash) = Reading(TRUE, FALSE, s)
  BY <1>2 DEF LoadChar
<1>7. ASSUME c \in DOMAIN Meaning
      PROVE  LoadChar(half, c) = Reading(FALSE, FALSE, Append(s, Meaning[c]))
  BY <1>4, <1>7 DEF LoadChar
<1> QED BY <1>1, <1>3, <1>5, <1>6, <1>7, Zenon

LEMMA ReadingEscaped ==
  ASSUME NEW s
  PROVE  Reading(TRUE, FALSE, s).escaped
BY DEF Reading

LEMMA ReadMore ==
  ASSUME NEW raw \in Seq(Int), NEW c \in Int
  PROVE  ReadString(Append(raw, c)) = LoadChar(ReadString(raw), c)
<1>1. Longer(Append(raw, c), raw, Len(raw), c) /\ Len(raw) \in Nat
  BY AppendIsLonger
<1>2. PICK q : q = Append(raw, c)
  OBVIOUS
<1> QED BY <1>1, <1>2, ReadLonger

LEMMA InsideMore ==
  ASSUME NEW raw \in Seq(Int), NEW c \in Int, QuotesInside(raw),
         c = Quote => ReadString(raw).escaped
  PROVE  QuotesInside(Append(raw, c))
<1>1. PICK q : q = Append(raw, c)
  OBVIOUS
<1>2. PICK n \in Nat : n = Len(raw)
  OBVIOUS
<1>3. q \in Seq(Int) /\ Len(q) = n + 1 /\ q[n + 1] = c /\ \A i \in 1 .. n : q[i] = raw[i]
  BY <1>1, <1>2
<1>4. ASSUME NEW i \in DOMAIN q, q[i] = Quote
      PROVE  ReadString(SubSeq(q, 1, i - 1)).escaped
  <2>1. i \in 1 .. n + 1
    BY <1>2, <1>3
  <2>2. SubSeq(q, 1, i - 1) = SubSeq(raw, 1, i - 1)
    BY <1>2, <1>3, <2>1
  <2>3. CASE i = n + 1
    <3>1. SubSeq(raw, 1, i - 1) = raw
      BY <1>2, <2>3
    <3> QED BY <1>3, <1>4, <2>2, <2>3, <3>1
  <2>4. CASE i # n + 1
    <3>1. i \in DOMAIN raw /\ raw[i] = Quote
      BY <1>2, <1>3, <1>4, <2>1, <2>4
    <3> QED BY <2>2, <3>1 DEF QuotesInside
  <2> QED BY <2>3, <2>4
<1>5. QuotesInside(q)
  BY <1>4 DEF QuotesInside
<1> QED BY <1>1, <1>5

(* A character that stands for itself.                                     *)
LEMMA PlainCharacter ==
  ASSUME NEW raw, NEW s, Spells(raw, s), NEW c \in Int,
         c \notin {Quote, Backslash, NewLine, CarriageReturn}
  PROVE  Spells(Append(raw, c), Append(s, c))
<1>1. raw \in Seq(Int) /\ QuotesInside(raw) /\ ReadString(raw) = Reading(FALSE, FALSE, s)
  BY Zenon DEF Spells
<1>2. LoadChar(Reading(FALSE, FALSE, s), c) = Reading(FALSE, FALSE, Append(s, c))
  BY OneTurn, Zenon
<1>3. Append(raw, c) \in Seq(Int)
  BY <1>1
<1>4. ReadString(Append(raw, c)) = LoadChar(ReadString(raw), c)
  BY <1>1, ReadMore
<1>5. QuotesInside(Append(raw, c))
  BY <1>1, InsideMore
<1> QED BY <1>1, <1>2, <1>3, <1>4, <1>5, Zenon DEF Spells

(* A character after a backslash stands for what it means.                 *)
LEMMA EscapedCharacter ==
  ASSUME NEW raw, NEW s, Spells(raw, s), NEW c \in DOMAIN Meaning
  PROVE  Spells(Append(Append(raw, Backslash), c), Append(s, Meaning[c]))
<1>0. c \in Int /\ Backslash \in Int /\ Backslash # Quote
  BY DEF Meaning, LowerN, LowerR, LowerT, Quote, Backslash
<1>1. raw \in Seq(Int) /\ QuotesInside(raw) /\ ReadString(raw) = Reading(FALSE, FALSE, s)
  BY Zenon DEF Spells
<1>2. PICK half : half = Append(raw, Backslash)
  OBVIOUS
<1>3. half \in Seq(Int)
  BY <1>0, <1>1, <1>2
<1>4. ReadString(half) = Reading(TRUE, FALSE, s)
  <2>1. ReadString(half) = LoadChar(ReadString(raw), Backslash)
    BY <1>0, <1>1, <1>2, ReadMore
  <2> QED BY <1>1, <2>1, OneTurn, Zenon
<1>5. QuotesInside(half)
  BY <1>0, <1>1, <1>2, InsideMore
<1>6. ReadString(half).escaped
  BY <1>4, ReadingEscaped, Zenon
<1>7. Append(half, c) \in Seq(Int)
  BY <1>0, <1>3
<1>8. ReadString(Append(half, c)) = Reading(FALSE, FALSE, Append(s, Meaning[c]))
  <2>1. ReadString(Append(half, c)) = LoadChar(ReadString(half), c)
    BY <1>0, <1>3, ReadMore
  <2> QED BY <1>4, <2>1, OneTurn, Zenon
<1>9. QuotesInside(Append(half, c))
  BY <1>0, <1>3, <1>5, <1>6, InsideMore
<1>10. Spells(Append(half, c), Append(s, Meaning[c]))
  BY <1>7, <1>8, <1>9, Zenon DEF Spells
<1> QED BY <1>2, <1>10, Zenon

LEMMA TwoMore ==
  ASSUME NEW e \in Seq(Int), NEW a \in Int, NEW b \in Int
  PROVE  e \o <<a, b>> = Append(Append(e, a), b)
OBVIOUS

(* What is printed of a character is read as that character.               *)
LEMMA PrintedCharacter ==
  ASSUME NEW raw, NEW s, Spells(raw, s), NEW c \in Int
  PROVE  Spells(raw \o PrintChar(c), Append(s, c))
<1>0. raw \in Seq(Int)
  BY DEF Spells
<1>1. ASSUME NEW b \in DOMAIN Meaning, PrintChar(c) = <<Backslash, b>>, Meaning[b] = c
      PROVE  Spells(raw \o PrintChar(c), Append(s, c))
  <2>1. b \in Int /\ Backslash \in Int
    BY DEF Meaning, LowerN, LowerR, LowerT, Quote, Backslash
  <2>2. raw \o PrintChar(c) = Append(Append(raw, Backslash), b)
    BY <1>0, <1>1, <2>1, TwoMore
  <2> QED BY <1>1, <2>2, EscapedCharacter
<1>2. CASE c = CarriageReturn
  <2>1. LowerR \in DOMAIN Meaning /\ Meaning[LowerR] = c
    BY <1>2 DEF Meaning, LowerN, LowerR, LowerT, Quote, Backslash
  <2>2. PrintChar(c) = <<Backslash, LowerR>>
    BY <1>2 DEF PrintChar, CarriageReturn, NewLine, Quote, Backslash
  <2> QED BY <1>1, <2>1, <2>2
<1>3. CASE c = NewLine
  <2>1. LowerN \in DOMAIN Meaning /\ Meaning[LowerN] = c
    BY <1>3 DEF Meaning, LowerN, LowerR, LowerT, Quote, Backslash
  <2>2. PrintChar(c) = <<Backslash, LowerN>>
    BY <1>3 DEF PrintChar, CarriageReturn, NewLine, Quote, Backslash
  <2> QED BY <1>1, <2>1, <2>2
<1>4. CASE c \in {Quote, Backslash}
  <2>1. c \in DOMAIN Meaning /\ Meaning[c] = c
    BY <1>4 DEF Meaning, LowerN, LowerR, LowerT, Quote, Backslash
  <2>2. PrintChar(c) = <<Backslash, c>>
    BY <1>4 DEF PrintChar, CarriageReturn, NewLine, Quote, Backslash
  <2> QED BY <1>1, <2>1, <2>2
<1>5. CASE c \notin {Quote, Backslash, NewLine, CarriageReturn}
  <2>1. PrintChar(c) = <<c>>
    BY <1>5 DEF PrintChar
  <2>2. raw \o <<c>> = Append(raw, c)
    BY <1>0
  <2>3. Spells(Append(raw, c), Append(s, c))
    BY <1>5, PlainCharacter
  <2> QED BY <2>1, <2>2, <2>3, Zenon
<1> QED BY <1>2, <1>3, <1>4, <1>5

Prints(s) == [i \in DOMAIN s |-> PrintChar(s[i])]

LEMMA PrintsLength ==
  ASSUME NEW n \in Nat, NEW s, DOMAIN s = 1 .. n
  PROVE  /\ DOMAIN Prints(s) = 1 .. n /\ Len(Prints(s)) = n
         /\ \A i \in 1 .. n : Prints(s)[i] = PrintChar(s[i])
<1>1. PICK p : p = Prints(s)
  OBVIOUS
<1>2. DOMAIN p = 1 .. n /\ p = [i \in 1 .. n |-> p[i]]
  BY <1>1 DEF Prints
<1>3. p \in [1 .. n -> {p[i] : i \in 1 .. n}]
  BY <1>2
<1>4. Len(p) = n
  BY <1>3
<1>5. \A i \in 1 .. n : p[i] = PrintChar(s[i])
  BY <1>1 DEF Prints
<1> QED BY <1>1, <1>2, <1>4, <1>5

LEMMA PrintsLonger ==
  ASSUME NEW n \in Nat, NEW c, NEW s, NEW q, Longer(q, s, n, c)
  PROVE  Longer(Prints(q), Prints(s), n, PrintChar(c))
<1>1. PICK k \in Nat : k = n + 1
  OBVIOUS
<1>2. /\ DOMAIN s = 1 .. n /\ DOMAIN q = 1 .. k /\ q[k] = c
      /\ \A i \in 1 .. n : q[i] = s[i]
  BY <1>1 DEF Longer
<1>3. PICK p, t, x : p = Prints(s) /\ t = Prints(q) /\ x = PrintChar(c)
  OBVIOUS
<1>4. DOMAIN p = 1 .. n /\ Len(p) = n /\ \A i \in 1 .. n : p[i] = PrintChar(s[i])
  BY <1>2, <1>3, PrintsLength
<1>5. DOMAIN t = 1 .. k /\ Len(t) = k /\ \A i \in 1 .. k : t[i] = PrintChar(q[i])
  BY <1>2, <1>3, PrintsLength
<1>6. t[k] = x
  <2>1. k \in 1 .. k
    BY <1>1
  <2> QED BY <1>2, <1>3, <1>5, <2>1
<1>7. ASSUME NEW i \in 1 .. n PROVE t[i] = p[i]
  <2>1. i \in 1 .. k
    BY <1>1
  <2> QED BY <1>2, <1>4, <1>5, <2>1
<1>8. Longer(t, p, n, x)
  BY <1>1, <1>4, <1>5, <1>6, <1>7 DEF Longer
<1> QED BY <1>3, <1>8

LEMMA PrintCharIsText ==
  ASSUME NEW c \in Int
  PROVE  PrintChar(c) \in Seq(Int)
<1>1. ASSUME NEW b \in Int PROVE <<Backslash, b>> \in Seq(Int) /\ <<b>> \in Seq(Int)
  BY DEF Backslash
<1>2. LowerR \in Int /\ LowerN \in Int
  BY DEF LowerR, LowerN
<1>3. PrintChar(c) \in {<<Backslash, LowerR>>, <<Backslash, LowerN>>, <<Backslash, c>>, <<c>>}
  BY DEF PrintChar
<1> QED BY <1>1, <1>2, <1>3

LEMMA NothingPrinted ==
  ASSUME NEW s, s = << >>
  PROVE  Escaped(s) = << >>
<1>1. PICK p : p = Prints(s)
  OBVIOUS
<1>2. p = << >>
  BY <1>1 DEF Prints
<1> QED BY <1>1, <1>2, FlattenNone, Zenon DEF Escaped, Prints

(* One character more is printed behind the others.                        *)
LEMMA EscapedMore ==
  ASSUME NEW s \in Seq(Int), NEW c \in Int
  PROVE  Escaped(Append(s, c)) = Escaped(s) \o PrintChar(c)
<1>1. PICK n \in Nat : n = Len(s)
  OBVIOUS
<1>2. PICK q : q = Append(s, c)
  OBVIOUS
<1>3. Longer(q, s, n, c)
  BY <1>1, <1>2, AppendIsLonger
<1>4. Longer(Prints(q), Prints(s), n, PrintChar(c))
  BY <1>3, PrintsLonger
<1>5. PICK p, t, x : p = Prints(s) /\ t = Prints(q) /\ x = PrintChar(c)
  OBVIOUS
<1>6. Longer(t, p, n, x)
  BY <1>4, <1>5
<1>7. CASE n # 0
  <2>1. n \in Nat \ {0}
    BY <1>7
  <2>2. FlattenSeq(t) = FlattenSeq(p) \o x
    BY <1>6, <2>1, FlattenLonger
  <2> QED BY <1>2, <1>5, <2>2, Zenon DEF Escaped, Prints
<1>8. CASE n = 0
  <2>1. Len(t) = 1 /\ t[1] = x
    BY <1>6, <1>8 DEF Longer
  <2>2. FlattenSeq(t) = x
    BY <2>1, FlattenOne
  <2>3. Escaped(q) = x
    BY <1>5, <2>2, Zenon DEF Escaped, Prints
  <2>4. s = << >>
    <3>1. Len(s) = 0
      BY <1>1, <1>8
    <3> QED BY <3>1, EmptySeq
  <2>5. PICK e : e = Escaped(s)
    OBVIOUS
  <2>6. e = << >>
    BY <2>4, <2>5, NothingPrinted
  <2>7. x \in Seq(Int)
    BY <1>5, PrintCharIsText
  <2>8. e \o x = x
    BY <2>6, <2>7
  <2> QED BY <1>2, <1>5, <2>3, <2>5, <2>8, Zenon
<1> QED BY <1>7, <1>8

(* For every string, what PrintString writes between the quotes has no     *)
(* quote that would end it early, and LoadString reads it, to the quote    *)
(* that does end it, as that very string.                                  *)
THEOREM StringsReadBack ==
  \A s \in Seq(Int) :
    /\ Closes(Escaped(s))
    /\ ~ReadString(Escaped(s)).refused /\ ReadString(Escaped(s)).s = s
<1> DEFINE T == {n \in Nat : \E s \in Seq(Int) : Len(s) = n /\ ~Spells(Escaped(s), s)}
<1>1. ASSUME T # {} PROVE FALSE
  <2>1. PICK n \in T : \A y \in T : n <= y
    <3>1. T \in SUBSET Nat
      OBVIOUS
    <3> HIDE DEF T
    <3> QED BY <1>1, <3>1, LeastNat
  <2>2. PICK s \in Seq(Int) : Len(s) = n /\ ~Spells(Escaped(s), s)
    BY <2>1
  <2>3. n \in Nat
    OBVIOUS
  <2>4. CASE n = 0
    <3>1. s = << >>
      BY <2>2, <2>4
    <3>2. PICK raw : raw = Escaped(s)
      OBVIOUS
    <3>3. raw = << >>
      BY <3>1, <3>2, NothingPrinted
    <3>4. raw \in Seq(Int) /\ Len(raw) = 0 /\ DOMAIN raw = {}
      BY <3>3
    <3>5. QuotesInside(raw)
      BY <3>4 DEF QuotesInside
    <3>6. ReadString(raw) = Unread
      BY <3>4, NothingRead
    <3>7. Unread = Reading(FALSE, FALSE, s)
      BY <3>1, Zenon DEF Unread
    <3>8. Spells(raw, s)
      BY <3>4, <3>5, <3>6, <3>7, Zenon DEF Spells
    <3> QED BY <2>2, <3>2, <3>8
  <2>5. CASE n # 0
    <3> HIDE DEF T
    <3>1. PICK p \in Seq(Int) : s = Append(p, s[n]) /\ Len(p) = n - 1
      BY <2>2, <2>3, <2>5, LastCharacter
    <3>2. PICK c : c = s[n]
      OBVIOUS
    <3>3. c \in Int
      BY <2>2, <2>3, <2>5, <3>2
    <3>4. Len(p) \in Nat /\ ~(n <= Len(p))
      BY <2>3, <3>1
    <3>5. Spells(Escaped(p), p)
      BY <2>1, <3>4 DEF T
    <3>6. Spells(Escaped(p) \o PrintChar(c), Append(p, c))
      BY <3>3, <3>5, PrintedCharacter
    <3>7. Escaped(Append(p, c)) = Escaped(p) \o PrintChar(c)
      BY <3>3, EscapedMore
    <3>8. s = Append(p, c)
      BY <3>1, <3>2
    <3> QED BY <2>2, <3>6, <3>7, <3>8, Zenon
  <2> QED BY <2>4, <2>5
<1>2. ASSUME NEW s \in Seq(Int) PROVE Spells(Escaped(s), s)
  <2>1. Len(s) \in Nat /\ Len(s) \notin T
    BY <1>1
  <2> QED BY <2>1
<1> HIDE DEF T
<1>3. ASSUME NEW s \in Seq(Int)
      PROVE  /\ Closes(Escaped(s))
             /\ ~ReadString(Escaped(s)).refused /\ ReadString(Escaped(s)).s = s
  <2>1. PICK raw : raw = Escaped(s)
    OBVIOUS
  <2>2. QuotesInside(raw) /\ ReadString(raw) = Reading(FALSE, FALSE, s)
    BY <1>2, <2>1 DEF Spells
  <2>3. PICK read : read = ReadString(raw)
    OBVIOUS
  <2>4. read.escaped = FALSE /\ read.refused = FALSE /\ read.s = s
    BY <2>2, <2>3 DEF Reading
  <2>5. Closes(raw)
    BY <2>2, <2>3, <2>4, Zenon DEF Closes, QuotesInside
  <2> QED BY <2>1, <2>3, <2>4, <2>5
<1> QED BY <1>3
=============================================================================
