------------------------------ MODULE Builder ------------------------------
(***************************************************************************)
(* json::Builder of json_builder.cpp: a JSON value is built by a sequence  *)
(* of calls, each of which does its part or throws.                        *)
(*                                                                         *)
(* The stack holds the containers that are open, and a string for a key    *)
(* that waits for its value.  The contexts that Key, StartDict and         *)
(* StartArray return narrow at compile time what may be called next, but   *)
(* every call also returns to the Builder, whose methods may be called in  *)
(* any order; that is what is modelled.  A caller that catches the         *)
(* exception can go on.                                                    *)
(***************************************************************************)
EXTENDS Naturals, Sequences, Maps

CONSTANTS
  Keys,
  Scalars,   \* JSON values other than null, arrays and dictionaries
  MaxCalls   \* bound: calls that were accepted

ASSUME BuilderAssumption == MaxCalls \in Nat

VARIABLES
  root_,
  nodes_stack_,
  threw,     \* the last call threw
  calls      \* history variable: the calls that did not throw

vars == <<root_, nodes_stack_, threw, calls>>

Null == [kind |-> "null"]
Scalar(v) == [kind |-> "scalar", value |-> v]
String(k) == [kind |-> "string", key |-> k]
Array(items) == [kind |-> "array", items |-> items]
Dict(map) == [kind |-> "dict", map |-> map]

Leaves == {Null} \cup {Scalar(v) : v \in Scalars}

Top(stack) == stack[Len(stack)]
Pop(stack) == SubSeq(stack, 1, Len(stack) - 1)
SetTop(stack, node) == [stack EXCEPT ![Len(stack)] = node]

-----------------------------------------------------------------------------
(* What the Builder is after a call: ok is FALSE if the call threw.  What  *)
(* the call had changed by then stays changed.                             *)
State(ok, root, stack) == [ok |-> ok, root |-> root, stack |-> stack]

(* Mutant of Value: the last value given for a key counts.                 *)
ValueAssigns(root, stack, node) ==
  IF root # Null THEN State(FALSE, root, stack)
  ELSE IF stack = << >> THEN State(TRUE, node, stack)
  ELSE IF Top(stack).kind = "array"
    THEN State(TRUE, root, SetTop(stack, Array(Append(Top(stack).items, node))))
  ELSE IF Top(stack).kind = "string"
    THEN LET below == Pop(stack) IN
         State(TRUE, root,
               SetTop(below, Dict(Assign(Top(below).map, Top(stack).key, node))))
  ELSE State(FALSE, root, stack)

(* Builder::Value.  emplace ignores a key that the dictionary has.         *)
Value(root, stack, node) ==
  IF root # Null THEN State(FALSE, root, stack)
  ELSE IF stack = << >> THEN State(TRUE, node, stack)
  ELSE IF Top(stack).kind = "array"
    THEN State(TRUE, root, SetTop(stack, Array(Append(Top(stack).items, node))))
  ELSE IF Top(stack).kind = "string"
    THEN LET below == Pop(stack) IN
         State(TRUE, root,
               SetTop(below, Dict(Insert(Top(below).map, Top(stack).key, node))))
  ELSE State(FALSE, root, stack)

(* Mutant of Key: a key is taken by any container.                         *)
KeyAnywhere(root, stack, key) ==
  IF stack # << >> /\ root = Null THEN State(TRUE, root, Append(stack, String(key)))
                                  ELSE State(FALSE, root, stack)

Key(root, stack, key) ==
  IF stack # << >> /\ root = Null /\ Top(stack).kind = "dict"
    THEN State(TRUE, root, Append(stack, String(key)))
    ELSE State(FALSE, root, stack)

(* Mutant of Start: a container is started in a dictionary without a key.  *)
StartAnywhere(root, stack, container) ==
  IF root = Null THEN State(TRUE, root, Append(stack, container))
                 ELSE State(FALSE, root, stack)

(* StartArray and StartDict.                                               *)
Start(root, stack, container) ==
  IF root = Null /\ (stack = << >> \/ Top(stack).kind \in {"array", "string"})
    THEN State(TRUE, root, Append(stack, container))
    ELSE State(FALSE, root, stack)

(* Mutant of End: a container is ended by the call for the other kind.     *)
EndAny(root, stack, kind) ==
  IF stack = << >> \/ Top(stack).kind = "string" THEN State(FALSE, root, stack)
  ELSE IF Len(stack) = 1 THEN State(TRUE, Top(stack), Pop(stack))
  ELSE Value(root, Pop(stack), Top(stack))

(* EndArray and EndDict.  An inner container is popped before Value is     *)
(* called for it.                                                          *)
End(root, stack, kind) ==
  IF stack = << >> \/ Top(stack).kind # kind THEN State(FALSE, root, stack)
  ELSE IF Len(stack) = 1 THEN State(TRUE, Top(stack), Pop(stack))
  ELSE Value(root, Pop(stack), Top(stack))

(* The node Build returns; there is none if it throws.                     *)
CanBuild == root_ # Null /\ nodes_stack_ = << >>

-----------------------------------------------------------------------------
Init == root_ = Null /\ nodes_stack_ = << >> /\ threw = FALSE /\ calls = << >>

Call(name, argument, state) ==
  /\ Len(calls) < MaxCalls
  /\ root_' = state.root
  /\ nodes_stack_' = state.stack
  /\ threw' = ~state.ok
  /\ calls' = IF state.ok THEN Append(calls, [call |-> name, argument |-> argument])
                          ELSE calls

CallValue(node) == Call("Value", node, Value(root_, nodes_stack_, node))
CallKey(key) == Call("Key", String(key), Key(root_, nodes_stack_, key))
StartArray == Call("StartArray", Null, Start(root_, nodes_stack_, Array(<< >>)))
StartDict == Call("StartDict", Null, Start(root_, nodes_stack_, Dict(<< >>)))
EndArray == Call("EndArray", Null, End(root_, nodes_stack_, "array"))
EndDict == Call("EndDict", Null, End(root_, nodes_stack_, "dict"))

Next ==
  \/ \E node \in Leaves : CallValue(node)
  \/ \E key \in Keys : CallKey(key)
  \/ StartArray \/ StartDict \/ EndArray \/ EndDict

Spec == Init /\ [][Next]_vars

-----------------------------------------------------------------------------
(* The stack is a chain of open containers: one is the bottom, a key lies  *)
(* on a dictionary and on nothing else, and anything on a dictionary is a  *)
(* key.  With it Value never calls AsDict on another node, and the stack   *)
(* is empty once there is a root.                                          *)
StackIsAChain ==
  /\ root_ # Null => nodes_stack_ = << >>
  /\ \A i \in DOMAIN nodes_stack_ :
       /\ nodes_stack_[i].kind \in {"array", "dict", "string"}
       /\ nodes_stack_[i].kind = "string" <=> i > 1 /\ nodes_stack_[i - 1].kind = "dict"

(* A call that throws leaves the Builder as it was, so that a caller that  *)
(* catches can go on.  EndArray and EndDict pop first and ask Value        *)
(* afterwards: were Value to throw there, the container would be lost.     *)
ThrowChangesNothing == [][threw' => UNCHANGED <<root_, nodes_stack_>>]_vars
=============================================================================
