-------------------------- MODULE BuilderReference --------------------------
(***************************************************************************)
(* What the calls made to a json::Builder mean, told without a stack: the  *)
(* accepted calls are read as the text of a value is, from left to right.  *)
(***************************************************************************)
EXTENDS Builder, FiniteSets

(* What is read, and the place after it.                                   *)
Read(node, next) == [node |-> node, next |-> next]

(* Reading a text from its i-th call on, with read for the places behind   *)
(* it: a value, the items of an array to its end, the entries of a         *)
(* dictionary to its end.                                                  *)
ReadValue(text, read, i) ==
  IF text[i].call = "Value" THEN Read(text[i].argument, i + 1)
  ELSE IF text[i].call = "StartArray"
    THEN Read(Array(read[i + 1]["items"].node), read[i + 1]["items"].next)
  ELSE IF text[i].call = "StartDict"
    THEN Read(Dict(read[i + 1]["entries"].node), read[i + 1]["entries"].next)
  ELSE Read(Null, i + 1)

ReadItems(text, read, i) ==
  IF text[i].call = "EndArray" THEN Read(<< >>, i + 1)
  ELSE LET item == ReadValue(text, read, i)
           others == read[item.next]["items"]
       IN Read(<<item.node>> \o others.node, others.next)

(* The first value given for a key counts.                                 *)
ReadEntries(text, read, i) ==
  IF text[i].call = "EndDict" THEN Read(<< >>, i + 1)
  ELSE LET entry == read[i + 1]["value"]
           others == read[entry.next]["entries"]
       IN Read(Assign(others.node, text[i].argument.key, entry.node), others.next)

(* All that can be read, at every place of a text and behind its end.      *)
Reading(text) ==
  LET read[i \in 1 .. Len(text) + 1] ==
        [what \in {"value", "items", "entries"} |->
           IF i > Len(text) THEN Read(<< >>, i)
           ELSE IF what = "value" THEN ReadValue(text, read, i)
           ELSE IF what = "items" THEN ReadItems(text, read, i)
           ELSE ReadEntries(text, read, i)]
  IN read

(* A null at the outermost level leaves no trace: the Builder cannot tell  *)
(* it from no value at all.                                                *)
LeavesNoTrace(call) == call.call = "Value" /\ call.argument = Null

FirstTraced ==
  CHOOSE i \in DOMAIN calls :
    ~LeavesNoTrace(calls[i]) /\ \A j \in 1 .. i - 1 : LeavesNoTrace(calls[j])

(* A Builder that can be built from gives the one value its calls spell,   *)
(* to the last call, however deep the containers were nested.              *)
BuiltIsWhatWasCalled ==
  CanBuild => Reading(calls)[FirstTraced]["value"] = Read(root_, Len(calls) + 1)

(* The stack has a container for each one started and not ended, of each   *)
(* kind, and is empty again when all are ended: no call drops one.         *)
CallsOf(name) == Cardinality({i \in DOMAIN calls : calls[i].call = name})
OpenOf(kind) == Cardinality({i \in DOMAIN nodes_stack_ : nodes_stack_[i].kind = kind})

NothingDropped ==
  /\ CallsOf("StartArray") = CallsOf("EndArray") + OpenOf("array")
  /\ CallsOf("StartDict") = CallsOf("EndDict") + OpenOf("dict")
=============================================================================
