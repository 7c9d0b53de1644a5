------------------------------ MODULE Settings ------------------------------
(***************************************************************************)
(* The settings of a document on their way from make_base to the map and   *)
(* the router of process_requests: read by JSON_ReaderMapSettings and      *)
(* JSON_ReaderRoutingSetings of json_reader.cpp, saved and loaded by       *)
(* map_renderer.cpp and transport_router.cpp.                              *)
(*                                                                         *)
(* Numbers of the document are integers here; those that are stored as     *)
(* double are stored as they are, the others in the width of their type.   *)
(***************************************************************************)
EXTENDS Integers, Sequences, Maps

CONSTANTS
  Documents,   \* the render_settings and routing_settings that may be given
  NoKey        \* a key that is not there, or of another type: at(), As..()

(* A colour of the document is a string or an array of numbers.            *)
JsonColor == [name : STRING, array : Seq(Int)]

ASSUME SettingsAssumption ==
  /\ NoKey \notin Int
  /\ \A doc \in Documents :
       /\ {doc.width, doc.bus_wait_time, doc.bus_velocity} \subseteq Int \cup {NoKey}
       /\ doc.height \in Int /\ doc.padding \in Int
       /\ doc.bus_label_offset \in Seq(Int) /\ doc.stop_label_offset \in Seq(Int)
       /\ doc.underlayer_color \in JsonColor /\ doc.color_palette \in Seq(JsonColor)

VARIABLES
  document,
  stage,       \* "json", "read", "saved", "loaded", "thrown" or "undefined"
  settings,    \* renderer::MapSettings and RoutingSettings, of the process
  proto        \* their messages, in the base file

vars == <<document, stage, settings, proto>>

Byte(n) == n % 256                \* to uint8_t
USHRT_MAX == 65535
Short(n) == n % (USHRT_MAX + 1)   \* to unsigned short

(* svg::Color: a name, or numbers with the opacity last.                   *)
Color(kind, name, rgb, opacity) ==
  [kind |-> kind, name |-> name, rgb |-> rgb, opacity |-> opacity]
Monostate == Color("monostate", "", << >>, 0)
Rgb(a) == Color("rgb", "", <<Byte(a[1]), Byte(a[2]), Byte(a[3])>>, 0)
Rgba(a) == Color("rgba", "", <<Byte(a[1]), Byte(a[2]), Byte(a[3])>>, a[4])

(* An array that is not of four numbers is read as three.                  *)
IsShort(json) == json.name = "" /\ Len(json.array) < 3
ReaderColor(json) ==
  CASE json.name # "" -> Color("str", json.name, << >>, 0)
    [] json.name = "" /\ Len(json.array) = 4 -> Rgba(json.array)
    [] OTHER -> Rgb(json.array)

-----------------------------------------------------------------------------
Init ==
  /\ document \in Documents
  /\ stage = "json"
  /\ settings = << >> /\ proto = << >>

Label(font_size, offset) == [font_size_ |-> font_size, offset_ |-> <<offset[1], offset[2]>>]

Given(doc) == Elements(doc.color_palette) \cup {doc.underlayer_color}

MapSettings(doc) ==
  [size_ |-> <<doc.width, doc.height, doc.padding>>,
   element_size_ |-> <<doc.line_width, doc.stop_radius>>,
   bus_label_ |-> Label(doc.bus_label_font_size, doc.bus_label_offset),
   stop_label_ |-> Label(doc.stop_label_font_size, doc.stop_label_offset),
   underlayer_color_ |-> ReaderColor(doc.underlayer_color),
   underlayer_width_ |-> doc.underlayer_width,
   color_palette_ |-> [i \in DOMAIN doc.color_palette |-> ReaderColor(doc.color_palette[i])],
   bus_wait_time_ |-> Short(doc.bus_wait_time),
   bus_velocity_ |-> Short(doc.bus_velocity)]

(* An element read behind the end of a vector is undefined; AsArray()[i]   *)
(* does not check.                                                         *)
ReadsBehindEnd(doc) ==
  \/ Len(doc.bus_label_offset) < 2 \/ Len(doc.stop_label_offset) < 2
  \/ \E color \in Given(doc) : IsShort(color)

LacksAKey(doc) == NoKey \in {doc.bus_wait_time, doc.bus_velocity, doc.width}

Read ==
  /\ stage = "json"
  /\ \/ LacksAKey(document) /\ stage' = "thrown" /\ UNCHANGED settings
     \/ /\ ~LacksAKey(document) /\ ReadsBehindEnd(document)
        /\ stage' = "undefined" /\ UNCHANGED settings
     \/ /\ ~LacksAKey(document) /\ ~ReadsBehindEnd(document)
        /\ stage' = "read" /\ settings' = MapSettings(document)
  /\ UNCHANGED <<document, proto>>

-----------------------------------------------------------------------------
(* message Color, a oneof: the number of the field that is set.            *)
Variant(field, color) ==
  [field |-> field, name |-> color.name, rgb |-> color.rgb, opacity |-> color.opacity]

(* SetProtoColor goes by the index in the variant, which starts at 0.      *)
SetProtoColor(color) ==
  CASE color.kind = "monostate" -> Variant(1, color)
    [] color.kind = "str" -> Variant(2, color)
    [] color.kind = "rgb" -> Variant(3, color)
    [] color.kind = "rgba" -> Variant(4, color)

(* Mutant of SetSvgColor: the cases are those of the index.                *)
SetSvgColorByIndex(message) ==
  CASE message.field = 1 -> Color("str", message.name, << >>, 0)
    [] message.field = 2 -> Rgb(message.rgb)
    [] message.field = 3 -> Rgba(Append(message.rgb, message.opacity))
    [] OTHER -> Monostate

(* SetSvgColor goes by the number of the field, which starts at 1.         *)
SetSvgColor(message) ==
  CASE message.field = 2 -> Color("str", message.name, << >>, 0)
    [] message.field = 3 -> Rgb(message.rgb)
    [] message.field = 4 -> Rgba(Append(message.rgb, message.opacity))
    [] OTHER -> Monostate

(* MapRender::SaveToProto and SaveRoutingSettingsToProto: everything but   *)
(* the colours is stored as it is.                                         *)
SaveToProto ==
  /\ stage = "read"
  /\ proto' = [settings EXCEPT
       !.underlayer_color_ = SetProtoColor(@),
       !.color_palette_ = [i \in DOMAIN @ |-> SetProtoColor(settings.color_palette_[i])]]
  /\ stage' = "saved"
  /\ UNCHANGED <<document, settings>>

(* In the other process.                                                   *)
Deserialize ==
  /\ stage = "saved"
  /\ settings' = [proto EXCEPT
       !.underlayer_color_ = SetSvgColor(@),
       !.color_palette_ = [i \in DOMAIN @ |-> SetSvgColor(proto.color_palette_[i])],
       !.bus_wait_time_ = Short(@), !.bus_velocity_ = Short(@)]
  /\ stage' = "loaded"
  /\ UNCHANGED <<document, proto>>

Next == Read \/ SaveToProto \/ Deserialize

Spec == Init /\ [][Next]_vars

-----------------------------------------------------------------------------
(* The loaded colour is the one the document means by it: the name, or     *)
(* the numbers given, each in one byte.                                    *)
IsColor(color, json) ==
  IF json.name # "" THEN color.kind = "str" /\ color.name = json.name
  ELSE /\ color.kind = IF Len(json.array) = 4 THEN "rgba" ELSE "rgb"
       /\ \A i \in 1 .. 3 : /\ color.rgb[i] \in 0 .. 255
                            /\ json.array[i] \in 0 .. 255 => color.rgb[i] = json.array[i]
       /\ Len(json.array) = 4 => color.opacity = json.array[4]

(* What an integer is once it is cast to unsigned short: itself if it      *)
(* fits, and otherwise the one number of the type that differs from it by  *)
(* a multiple of 2^16.                                                     *)
IsCast(value, n) == value \in 0 .. USHRT_MAX /\ (value - n) % (USHRT_MAX + 1) = 0

(* What process_requests draws and routes with is what the document gave:  *)
(* every colour by its kind and in its place in the palette, the two       *)
(* offsets of the two labels, and the wait time and the velocity, whatever *)
(* integers they are, cast to their type once: 65536 means 0, -1 means     *)
(* 65535, in either process.                                               *)
SettingsSurvive ==
  stage = "loaded" =>
    /\ IsColor(settings.underlayer_color_, document.underlayer_color)
    /\ Len(settings.color_palette_) = Len(document.color_palette)
    /\ \A i \in DOMAIN document.color_palette :
         IsColor(settings.color_palette_[i], document.color_palette[i])
    /\ settings.bus_label_.offset_ = SubSeq(document.bus_label_offset, 1, 2)
    /\ settings.stop_label_.offset_ = SubSeq(document.stop_label_offset, 1, 2)
    /\ IsCast(settings.bus_wait_time_, document.bus_wait_time)
    /\ IsCast(settings.bus_velocity_, document.bus_velocity)
=============================================================================
