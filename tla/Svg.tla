--------------------------------- MODULE Svg ---------------------------------
(***************************************************************************)
(* What svg.cpp makes of the objects of a map: the tag of an object with   *)
(* the attributes that are set, and between the tags of a text its data,   *)
(* in which the characters that mean something to XML are replaced.        *)
(*                                                                         *)
(* Characters are their ASCII codes; the letters of an entity are one      *)
(* symbol, minus the code of the character the entity stands for.          *)
(***************************************************************************)
EXTENDS Integers, Sequences, SequencesExt, Maps

Ampersand == 38
QuoteMark == 34
Apostrophe == 39
LessThan == 60
GreaterThan == 62
Semicolon == 59

Entity(c) == <<Ampersand, -c, Semicolon>>

characters_to_replace == <<Ampersand, QuoteMark, Apostrophe, LessThan, GreaterThan>>

(* The loop of SetData for one character: each find starts one position    *)
(* after the last one, and the first at position 1, counted from 0.        *)
Replaced(data, symbol) ==
  FlattenSeq([i \in DOMAIN data |->
    IF i > 1 /\ data[i] = symbol THEN Entity(symbol) ELSE <<data[i]>>])

(* One character after the other, each in what became of the text so far.  *)
ReplacedAll(data, symbols) ==
  LET after[k \in 0 .. Len(symbols)] ==
        IF k = 0 THEN data ELSE Replaced(after[k - 1], symbols[k])
  IN after[Len(symbols)]

(* Mutant of SetData: the ampersand comes last.                            *)
SetDataAmpersandLast(data) ==
  ReplacedAll(data, <<QuoteMark, Apostrophe, LessThan, GreaterThan, Ampersand>>)

(* Text::SetData: the ampersand first, as the entities begin with it.      *)
SetData(data) == ReplacedAll(data, characters_to_replace)

(* RenderAttrs: a colour that is not set is no attribute.                  *)
RenderAttrs(object, unset) ==
  [attribute \in {a \in {"fill", "stroke"} : object[a] # unset} |-> object[attribute]]

(* RenderObject of Circle, Polyline and Text.                              *)
RenderObject(object, unset) ==
  [of |-> object.of, kind |-> object.kind, points |-> object.points,
   attributes |-> RenderAttrs(object, unset), label |-> object.label, data |-> object.data]

-----------------------------------------------------------------------------
(* What a reader of XML sees between the tags is the text: each character  *)
(* is there as it is, unless it would begin a tag or an entity, or as its  *)
(* entity.                                                                 *)
Shows(data, text) ==
  \E replaced \in [DOMAIN text -> BOOLEAN] :
    /\ data = FlattenSeq([i \in DOMAIN text |->
                            IF replaced[i] THEN Entity(text[i]) ELSE <<text[i]>>])
    /\ \A i \in DOMAIN text :
         IF replaced[i] THEN text[i] \in Elements(characters_to_replace)
                        ELSE text[i] \notin {Ampersand, LessThan}
=============================================================================
