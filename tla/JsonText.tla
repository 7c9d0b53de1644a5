------------------------------ MODULE JsonText ------------------------------
(***************************************************************************)
(* The parser and the printer of json.cpp: Load reads a text, Print writes *)
(* the value, and Load reads it again, as the process that is given the    *)
(* answers would.                                                          *)
(*                                                                         *)
(* A text is a sequence of tokens: the marks [ ] { } , : and strings,     *)
(* numbers and words, each with what stands in the text for it.  White     *)
(* space is left out, as between tokens the parser skips it.  The          *)
(* recursion of LoadNode is the stack of the arrays and dictionaries that  *)
(* are open.                                                               *)
(*                                                                         *)
(* A string token holds the characters between its quotes, as module       *)
(* JsonStrings reads and prints them.  Numbers count halves, so that there *)
(* are some with a fraction; a double holds any of them exactly.           *)
(***************************************************************************)
EXTENDS Integers, Sequences, FiniteSets, SequencesExt, Maps, JsonStrings

CONSTANTS
  Tokens,      \* what a text may consist of
  RareTokens,  \* what may also be among the first two tokens of a text
  MaxTokens,   \* bound: length of a text
  MaxRare,     \* bound: length of a text with a rare token
  Digits,      \* significant digits of a streamed double, 6 in the code
  IntMax       \* greatest int

(* A double below 10^Digits that is printed without a point is an int when *)
(* it is read again.                                                       *)
ASSUME JsonTextAssumption ==
  /\ Digits \in Nat \ {0} /\ IntMax \in Nat /\ 10^Digits <= IntMax
  /\ MaxTokens \in Nat /\ MaxRare \in Nat

VARIABLES
  stack,   \* the containers LoadArray and LoadDict are filling
  load,    \* "node", "array", "dict" or "colon": what reads next; or "done", "thrown"
  root,    \* the value, once it is loaded
  text,    \* history variable: the tokens read
  first,   \* the value that was printed
  rest     \* what is left of the printed text

vars == <<stack, load, root, text, first, rest>>

Token(is, raw, halves) == [is |-> is, raw |-> raw, halves |-> halves]
Mark(m) == Token(m, << >>, 0)
StringToken(raw) == Token("string", raw, 0)

Leaf(kind, s, halves) ==
  [kind |-> kind, s |-> s, halves |-> halves, items |-> << >>, map |-> << >>]
Array(items) == [Leaf("array", << >>, 0) EXCEPT !.items = items]
Dict(map) == [Leaf("dict", << >>, 0) EXCEPT !.map = map]
None == Leaf("none", << >>, 0)
Refused == Leaf("refused", << >>, 0)

IsMark(token, m) == token.is = m

Top == stack[Len(stack)]
Below == SubSeq(stack, 1, Len(stack) - 1)

-----------------------------------------------------------------------------
Init ==
  /\ stack = << >> /\ load = "node" /\ root = None
  /\ text = << >> /\ first = None /\ rest = << >>

-----------------------------------------------------------------------------
(* A string that cannot be read makes LoadString throw.                    *)
LoadString(raw) ==
  LET read == ReadString(raw) IN
  IF read.refused THEN Refused ELSE Leaf("string", read.s, 0)

(* Digits alone are an int if stoi takes them; a point or an exponent, or  *)
(* a number too great for an int, makes a double.                          *)
LoadNumber(token) ==
  LET fits == - 2 * (IntMax + 1) <= token.halves /\ token.halves <= 2 * IntMax IN
  Leaf(IF token.is = "digits" /\ fits THEN "int" ELSE "double", << >>, token.halves)

Words == {"true", "false", "null"}

(* What LoadString, LoadNumber, LoadBool and LoadNull make of a token.     *)
LoadLeaf(token) ==
  CASE token.is = "string" -> LoadString(token.raw)
    [] token.is \in {"digits", "decimal"} -> LoadNumber(token)
    [] token.is \in Words -> Leaf(token.is, << >>, 0)
    [] OTHER -> Refused

Throw == load' = "thrown" /\ UNCHANGED <<stack, root>>

Frame(node, key) == [node |-> node, key |-> key]

(* A value is complete: it goes into the container that waits for it.      *)
Return(open, node) ==
  IF open = << >> THEN load' = "done" /\ root' = node /\ stack' = open
  ELSE LET top == open[Len(open)]
           node_ == IF top.node.kind = "array" THEN Array(Append(top.node.items, node))
                    ELSE Dict(Insert(top.node.map, top.key, node))
       IN /\ stack' = [open EXCEPT ![Len(open)].node = node_]
          /\ load' = top.node.kind
          /\ UNCHANGED root

Open(node) ==
  stack' = Append(stack, Frame(node, << >>)) /\ load' = node.kind /\ UNCHANGED root

(* LoadNode: by its first character.  What is no bracket and no quote is   *)
(* read as true, false, null or a number, or refused.                      *)
LoadNode(token) ==
  \/ IsMark(token, "[") /\ Open(Array(<< >>))
  \/ IsMark(token, "{") /\ Open(Dict(<< >>))
  \/ /\ token.is \notin {"[", "{"}
     /\ LET node == LoadLeaf(token) IN
        IF node = Refused THEN Throw ELSE Return(stack, node)

(* LoadArray's loop: a comma is skipped, and anything but the closing      *)
(* bracket is the beginning of an element, comma or not.                   *)
LoadArray(token) ==
  \/ IsMark(token, "]") /\ Return(Below, Top.node)
  \/ IsMark(token, ",") /\ load' = "node" /\ UNCHANGED <<stack, root>>
  \/ ~IsMark(token, "]") /\ ~IsMark(token, ",") /\ LoadNode(token)

(* LoadDict's loop: commas are skipped, and a string is a key.             *)
LoadDict(token) ==
  \/ IsMark(token, "}") /\ Return(Below, Top.node)
  \/ IsMark(token, ",") /\ UNCHANGED <<stack, load, root>>
  \/ /\ token.is = "string"
     /\ LET key == LoadString(token.raw) IN
        \/ key = Refused /\ Throw
        \/ /\ key # Refused
           /\ stack' = [stack EXCEPT ![Len(stack)].key = key.s]
           /\ load' = "colon" /\ UNCHANGED root
  \/ /\ token.is # "string" /\ ~IsMark(token, "}") /\ ~IsMark(token, ",")
     /\ Throw

(* Mutant of LoadColon: a key used twice is not refused.                   *)
LoadColonAnyKey(token) ==
  \/ IsMark(token, ":") /\ load' = "node" /\ UNCHANGED <<stack, root>>
  \/ ~IsMark(token, ":") /\ Throw

(* The key must be followed by a colon and not be one the dictionary has.  *)
LoadColon(token) ==
  LET duplicate == Top.key \in DOMAIN Top.node.map IN
  \/ IsMark(token, ":") /\ ~duplicate /\ load' = "node" /\ UNCHANGED <<stack, root>>
  \/ IsMark(token, ":") /\ duplicate /\ Throw
  \/ ~IsMark(token, ":") /\ Throw

Reads(token) ==
  \/ load = "node" /\ LoadNode(token)
  \/ load = "array" /\ LoadArray(token)
  \/ load = "dict" /\ LoadDict(token)
  \/ load = "colon" /\ LoadColon(token)

(* Load, of a text that may be anything and may end anywhere.              *)
Read ==
  /\ first = None /\ load \notin {"done", "thrown"}
  /\ \/ \E token \in Tokens \cup (IF Len(text) < 2 THEN RareTokens ELSE {}) :
          /\ Len(text) < IF Elements(text) \subseteq Tokens THEN MaxTokens ELSE MaxRare
          /\ Reads(token)
          /\ text' = Append(text, token)
     \/ Throw /\ UNCHANGED text
  /\ UNCHANGED <<first, rest>>

-----------------------------------------------------------------------------
Separated(parts) ==
  FoldLeft(LAMBDA joined, i : joined \o (IF i = 1 THEN << >> ELSE <<Mark(",")>>) \o parts[i],
           << >>, [i \in DOMAIN parts |-> i])

PrintString(s) == StringToken(Escaped(s))

Abs(v) == IF v < 0 THEN -v ELSE v

(* Bound: doubles are less than 10^(Digits + 4).                           *)
Scales == 0 .. 4

(* What a double is printed as: with as many digits as the stream gives it,*)
(* the nearest, or the even one of two that are as near.                   *)
Rounded(halves) ==
  LET enough(k) == Abs(halves) < 2 * 10^(Digits + k)
      unit == 2 * 10^(CHOOSE k \in Scales : enough(k) /\ \A l \in 0 .. k-1 : ~enough(l))
      down == (halves \div unit) * unit
  IN IF Abs(halves) < 2 * 10^(Digits - 1) THEN halves
     ELSE CHOOSE r \in {down, down + unit} :
            \/ 2 * Abs(halves - r) < unit
            \/ 2 * Abs(halves - r) = unit /\ (r \div unit) % 2 = 0

(* One that is whole has no point, unless it takes an exponent.            *)
PrintDouble(halves) ==
  LET r == Rounded(halves) IN
  Token(IF r % 2 = 0 /\ Abs(r) < 2 * 10^Digits THEN "digits" ELSE "decimal", << >>, r)

(* std::string's order.                                                    *)
Before(s, t) ==
  \E n \in 0 .. Len(s) :
    /\ n <= Len(t) /\ SubSeq(s, 1, n) = SubSeq(t, 1, n)
    /\ n < Len(t) /\ (n = Len(s) \/ s[n+1] < t[n+1])

(* PrintNode.  A std::map is printed in the order of its keys.             *)
RECURSIVE Printed(_)
Printed(node) ==
  CASE node.kind = "array" ->
         <<Mark("[")>> \o Separated([i \in DOMAIN node.items |-> Printed(node.items[i])])
           \o <<Mark("]")>>
    [] node.kind = "dict" ->
         LET keys == SetToSortSeq(DOMAIN node.map, Before) IN
         <<Mark("{")>>
           \o Separated([i \in DOMAIN keys |->
                <<PrintString(keys[i]), Mark(":")>> \o Printed(node.map[keys[i]])])
           \o <<Mark("}")>>
    [] node.kind = "string" -> <<PrintString(node.s)>>
    [] node.kind = "int" -> <<Token("digits", << >>, node.halves)>>
    [] node.kind = "double" -> <<PrintDouble(node.halves)>>
    [] OTHER -> <<Token(node.kind, << >>, 0)>>

PrintDocument ==
  /\ load = "done" /\ first = None
  /\ first' = root /\ rest' = Printed(root)
  /\ stack' = << >> /\ load' = "node" /\ root' = None
  /\ UNCHANGED text

(* Load, of the printed text, which ends where it ends.                    *)
ReadAgain ==
  /\ first # None /\ load \notin {"done", "thrown"}
  /\ IF rest = << >> THEN Throw /\ UNCHANGED rest
                     ELSE Reads(Head(rest)) /\ rest' = Tail(rest)
  /\ UNCHANGED <<text, first>>

Next == Read \/ PrintDocument \/ ReadAgain

Spec == Init /\ [][Next]_vars

-----------------------------------------------------------------------------
Commaless(tokens) == SelectSeq(tokens, LAMBDA token : ~IsMark(token, ","))

(* The choices, one after the other.                                       *)
Concatenated(choices) ==
  FoldLeft(LAMBDA done, choice : {d \o c : d \in done, c \in choice}, {<< >>}, choices)

(* A character stands for itself, or for what it means after a backslash.  *)
CharSpellings(c) ==
  (IF c \in {NewLine, CarriageReturn, Quote, Backslash} THEN {} ELSE {<<c>>})
    \cup {<<Backslash, e>> : e \in {e \in DOMAIN Meaning : Meaning[e] = c}}

StringSpellings(s) ==
  {<<StringToken(raw)>> : raw \in Concatenated([i \in DOMAIN s |-> CharSpellings(s[i])])}

(* The texts that spell a value, their commas left out.                    *)
RECURSIVE Spellings(_)
Spellings(node) ==
  LET Entry(key) == {k \o <<Mark(":")>> \o s :
                       k \in StringSpellings(key), s \in Spellings(node.map[key])}
      Number(is) == <<Token(is, << >>, node.halves)>>
  IN CASE node.kind = "array" ->
            {<<Mark("[")>> \o s \o <<Mark("]")>> :
               s \in Concatenated([i \in DOMAIN node.items |-> Spellings(node.items[i])])}
       [] node.kind = "dict" ->
            UNION {{<<Mark("{")>> \o s \o <<Mark("}")>> :
                      s \in Concatenated([i \in DOMAIN keys |-> Entry(keys[i])])} :
                   keys \in SetToSeqs(DOMAIN node.map)}
       [] node.kind = "string" -> StringSpellings(node.s)
       [] node.kind = "int" -> {Number("digits")}
       [] node.kind = "double" ->
            {Number("decimal")} \cup
              (IF Abs(node.halves) > 2 * IntMax THEN {Number("digits")} ELSE {})
       [] OTHER -> {<<Token(node.kind, << >>, 0)>>}

(* The same value but for doubles, which may become ints and whose error   *)
(* is at most half a unit of their last significant digit.                 *)
RECURSIVE Approximates(_, _)
Approximates(node, value) ==
  CASE value.kind = "array" ->
         /\ node.kind = "array" /\ DOMAIN node.items = DOMAIN value.items
         /\ \A i \in DOMAIN value.items : Approximates(node.items[i], value.items[i])
    [] value.kind = "dict" ->
         /\ node.kind = "dict" /\ DOMAIN node.map = DOMAIN value.map
         /\ \A k \in DOMAIN value.map : Approximates(node.map[k], value.map[k])
    [] value.kind = "double" ->
         /\ node.kind \in {"int", "double"}
         /\ 2 * 10^(Digits - 1) * Abs(node.halves - value.halves) <= Abs(value.halves)
    [] OTHER -> node = value

(* Commas apart, about which the parser is lenient, a text that is         *)
(* accepted spells the value it is read as: no element, key or bracket is  *)
(* lost, moved or read twice, no escape is taken for another character,    *)
(* and whole numbers too great for an int keep their value.                *)
TextMeansValue ==
  (first = None /\ load = "done") => Commaless(text) \in Spellings(root)

(* The text that Print writes of a value is accepted to its last token,    *)
(* and read as that value: strings to the character, ints exactly, doubles *)
(* to the digits they are printed with.                                    *)
PrintedReadsBack ==
  first # None =>
    /\ load # "thrown"
    /\ load = "done" => rest = << >> /\ Approximates(root, first)
=============================================================================
