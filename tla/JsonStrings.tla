---------------------------- MODULE JsonStrings ----------------------------
(***************************************************************************)
(* The strings of json.cpp, character by character: what LoadString makes  *)
(* of the characters between two quotes, and what PrintString writes there.*)
(*                                                                         *)
(* A string is the sequence of its characters, by their ASCII codes.       *)
(***************************************************************************)
EXTENDS Integers, Sequences, SequencesExt

Tab == 9
NewLine == 10
CarriageReturn == 13
Quote == 34
Backslash == 92
LowerN == 110
LowerR == 114
LowerT == 116

(* What a character means after a backslash.                               *)
Meaning ==
  [c \in {LowerN, LowerR, LowerT, Quote, Backslash} |->
     CASE c = LowerN -> NewLine
       [] c = LowerR -> CarriageReturn
       [] c = LowerT -> Tab
       [] OTHER -> c]

Reading(escaped, refused, s) == [escaped |-> escaped, refused |-> refused, s |-> s]

(* One turn of the loop of LoadString: s is what is read so far.           *)
LoadChar(read, ch) ==
  CASE read.refused -> read
    [] read.escaped /\ ch \in DOMAIN Meaning ->
         Reading(FALSE, FALSE, Append(read.s, Meaning[ch]))
    [] ~read.escaped /\ ch = Backslash -> Reading(TRUE, FALSE, read.s)
    [] ~read.escaped /\ ch \notin {Backslash, NewLine, CarriageReturn} ->
         Reading(FALSE, FALSE, Append(read.s, ch))
    [] OTHER -> Reading(FALSE, TRUE, read.s)

ReadString(raw) ==
  LET read[k \in 0 .. Len(raw)] ==
        IF k = 0 THEN Reading(FALSE, FALSE, << >>) ELSE LoadChar(read[k - 1], raw[k])
  IN read[Len(raw)]

(* The quote after these characters ends the string: none before it does.  *)
Closes(raw) ==
  /\ ~ReadString(raw).escaped
  /\ \A i \in DOMAIN raw : raw[i] = Quote => ReadString(SubSeq(raw, 1, i - 1)).escaped

-----------------------------------------------------------------------------
(* Mutant of PrintChar: a backslash is printed as it is.                   *)
PrintCharPlain(c) ==
  CASE c = CarriageReturn -> <<Backslash, LowerR>>
    [] c = NewLine -> <<Backslash, LowerN>>
    [] c = Quote -> <<Backslash, Quote>>
    [] OTHER -> <<c>>

(* A tab is printed as it is.                                              *)
PrintChar(c) ==
  CASE c = CarriageReturn -> <<Backslash, LowerR>>
    [] c = NewLine -> <<Backslash, LowerN>>
    [] c \in {Quote, Backslash} -> <<Backslash, c>>
    [] OTHER -> <<c>>

(* What PrintString writes between the quotes.                             *)
Escaped(s) == FlattenSeq([i \in DOMAIN s |-> PrintChar(s[i])])
=============================================================================
