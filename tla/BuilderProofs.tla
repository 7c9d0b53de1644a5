---------------------------- MODULE BuilderProofs ----------------------------
(***************************************************************************)
(* Theorems about Builder: for any sequence of calls, of any length, the   *)
(* stack stays a chain of open containers, a call that throws changes      *)
(* nothing, and what is built is what the accepted calls spell.            *)
(***************************************************************************)
EXTENDS BuilderReference, Integers, TLAPS, FiniteSetTheorems, WellFoundedInduction

IsStack(s) == \E S : s \in Seq(S)

IsChain(s) ==
  \A i \in DOMAIN s :
    /\ s[i].kind \in {"array", "dict", "string"}
    /\ s[i].kind = "string" <=> i > 1 /\ s[i - 1].kind = "dict"

(* What holds of a Builder between two calls.                              *)
Sound(root, stack) ==
  /\ IsStack(stack) /\ IsChain(stack)
  /\ root # Null => stack = << >>

LEMMA Kinds ==
  /\ Null.kind = "null"
  /\ \A k : String(k).kind = "string"
  /\ \A items : Array(items).kind = "array"
  /\ \A map : Dict(map).kind = "dict"
BY DEF Null, String, Array, Dict

(* What the operations on the stack return.                                *)
LEMMA PopStack ==
  ASSUME NEW s, IsStack(s), s # << >>
  PROVE  /\ IsStack(Pop(s)) /\ Len(s) \in Nat /\ Len(s) >= 1
         /\ DOMAIN s = 1 .. Len(s)
         /\ Len(Pop(s)) = Len(s) - 1
         /\ DOMAIN Pop(s) = 1 .. Len(s) - 1
         /\ \A i \in 1 .. Len(s) - 1 : Pop(s)[i] = s[i]
<1>1. PICK S : s \in Seq(S)
  BY DEF IsStack
<1>2. Pop(s) \in Seq(S) /\ Len(s) \in Nat /\ Len(s) >= 1 /\ DOMAIN s = 1 .. Len(s)
  BY <1>1 DEF Pop
<1>3. Len(Pop(s)) = Len(s) - 1 /\ \A i \in 1 .. Len(s) - 1 : Pop(s)[i] = s[i]
  BY <1>1, <1>2 DEF Pop
<1>4. DOMAIN Pop(s) = 1 .. Len(s) - 1
  BY <1>2, <1>3
<1> QED BY <1>2, <1>3, <1>4 DEF IsStack

LEMMA SetTopStack ==
  ASSUME NEW s, IsStack(s), s # << >>, NEW node
  PROVE  /\ IsStack(SetTop(s, node)) /\ Len(s) \in Nat /\ Len(s) >= 1
         /\ SetTop(s, node) # << >>
         /\ DOMAIN s = 1 .. Len(s)
         /\ DOMAIN SetTop(s, node) = DOMAIN s
         /\ SetTop(s, node)[Len(s)] = node
         /\ \A i \in DOMAIN s : i # Len(s) => SetTop(s, node)[i] = s[i]
<1>1. PICK S : s \in Seq(S)
  BY DEF IsStack
<1>2. Len(s) \in Nat /\ Len(s) >= 1 /\ DOMAIN s = 1 .. Len(s)
  BY <1>1
<1>3. /\ DOMAIN SetTop(s, node) = DOMAIN s
      /\ SetTop(s, node)[Len(s)] = node
      /\ \A i \in DOMAIN s : i # Len(s) => SetTop(s, node)[i] = s[i]
  BY <1>2 DEF SetTop
<1>4. SetTop(s, node) \in Seq(S \cup {node}) /\ SetTop(s, node) # << >>
  <2>1. s \in Seq(S \cup {node}) /\ node \in S \cup {node} /\ Len(s) \in DOMAIN s
    BY <1>1, <1>2
  <2>2. [s EXCEPT ![Len(s)] = node] \in Seq(S \cup {node})
    BY <2>1
  <2> QED BY <1>2, <1>3, <2>2 DEF SetTop
<1> QED BY <1>2, <1>3, <1>4 DEF IsStack

LEMMA PushStack ==
  ASSUME NEW s, IsStack(s), NEW node
  PROVE  /\ IsStack(Append(s, node)) /\ Len(s) \in Nat
         /\ DOMAIN s = 1 .. Len(s)
         /\ DOMAIN Append(s, node) = 1 .. Len(s) + 1
         /\ Append(s, node)[Len(s) + 1] = node
         /\ \A i \in DOMAIN s : Append(s, node)[i] = s[i]
<1>1. PICK S : s \in Seq(S)
  BY DEF IsStack
<1>2. s \in Seq(S \cup {node}) /\ Len(s) \in Nat /\ DOMAIN s = 1 .. Len(s)
  BY <1>1
<1>3. Append(s, node) \in Seq(S \cup {node})
  BY <1>2
<1>4. /\ DOMAIN Append(s, node) = 1 .. Len(s) + 1
      /\ Append(s, node)[Len(s) + 1] = node
      /\ \A i \in DOMAIN s : Append(s, node)[i] = s[i]
  BY <1>2, <1>3
<1> QED BY <1>2, <1>3, <1>4 DEF IsStack

-----------------------------------------------------------------------------
(* What they keep of a chain.                                              *)
LEMMA ChainPop ==
  ASSUME NEW s, IsStack(s), IsChain(s), s # << >>
  PROVE  IsChain(Pop(s))
<1>1. /\ Len(s) \in Nat /\ DOMAIN s = 1 .. Len(s)
      /\ DOMAIN Pop(s) = 1 .. Len(s) - 1
      /\ \A i \in 1 .. Len(s) - 1 : Pop(s)[i] = s[i]
  BY PopStack
<1> SUFFICES ASSUME NEW i \in DOMAIN Pop(s)
             PROVE  /\ Pop(s)[i].kind \in {"array", "dict", "string"}
                    /\ Pop(s)[i].kind = "string" <=> i > 1 /\ Pop(s)[i - 1].kind = "dict"
  BY DEF IsChain
<1>2. /\ i \in DOMAIN s /\ Pop(s)[i] = s[i]
      /\ i > 1 => Pop(s)[i - 1] = s[i - 1]
  BY <1>1
<1> QED BY <1>2 DEF IsChain

LEMMA ChainSetTop ==
  ASSUME NEW s, IsStack(s), IsChain(s), s # << >>,
         NEW node, node.kind = Top(s).kind
  PROVE  IsChain(SetTop(s, node))
<1> DEFINE u == SetTop(s, node)
<1>1. /\ Len(s) \in Nat /\ Len(s) >= 1 /\ DOMAIN s = 1 .. Len(s) /\ DOMAIN u = DOMAIN s
      /\ u[Len(s)] = node
      /\ \A i \in DOMAIN s : i # Len(s) => u[i] = s[i]
  BY SetTopStack
<1> HIDE DEF u
<1>2. \A i \in DOMAIN s : u[i].kind = s[i].kind
  BY <1>1 DEF Top
<1>3. ASSUME NEW i \in DOMAIN u
      PROVE  /\ u[i].kind \in {"array", "dict", "string"}
             /\ u[i].kind = "string" <=> i > 1 /\ u[i - 1].kind = "dict"
  <2>1. /\ s[i].kind \in {"array", "dict", "string"}
        /\ s[i].kind = "string" <=> i > 1 /\ s[i - 1].kind = "dict"
    BY <1>1 DEF IsChain
  <2>2. u[i].kind = s[i].kind /\ (i > 1 => u[i - 1].kind = s[i - 1].kind)
    <3>1. i > 1 => i - 1 \in DOMAIN s
      BY <1>1
    <3> QED BY <1>1, <1>2, <3>1
  <2> QED BY <2>1, <2>2
<1> QED BY <1>3 DEF IsChain, u

LEMMA ChainPush ==
  ASSUME NEW s, IsStack(s), IsChain(s), NEW node,
         node.kind \in {"array", "dict", "string"},
         node.kind = "string" <=> s # << >> /\ Top(s).kind = "dict"
  PROVE  IsChain(Append(s, node))
<1> DEFINE u == Append(s, node)
<1>1. /\ Len(s) \in Nat /\ DOMAIN s = 1 .. Len(s) /\ DOMAIN u = 1 .. Len(s) + 1
      /\ u[Len(s) + 1] = node
      /\ \A i \in DOMAIN s : u[i] = s[i]
  BY PushStack
<1>2. s # << >> <=> Len(s) > 0
  <2>1. PICK S : s \in Seq(S)
    BY DEF IsStack
  <2> QED BY <2>1
<1> HIDE DEF u
<1>3. ASSUME NEW i \in DOMAIN u
      PROVE  /\ u[i].kind \in {"array", "dict", "string"}
             /\ u[i].kind = "string" <=> i > 1 /\ u[i - 1].kind = "dict"
  <2>1. CASE i = Len(s) + 1
    <3>1. i > 1 <=> s # << >>
      BY <1>1, <1>2, <2>1
    <3>2. i > 1 => u[i - 1] = Top(s)
      BY <1>1, <2>1 DEF Top
    <3> QED BY <1>1, <2>1, <3>1, <3>2
  <2>2. CASE i \in DOMAIN s
    <3>1. i > 1 => i - 1 \in DOMAIN s
      BY <1>1, <2>2
    <3> QED BY <1>1, <2>2, <3>1 DEF IsChain
  <2> QED BY <1>1, <2>1, <2>2
<1> QED BY <1>3 DEF IsChain, u

-----------------------------------------------------------------------------
(* What a call makes of a sound Builder is sound, and is what it was if    *)
(* the call throws.                                                        *)
Keeps(root, stack, state) ==
  /\ Sound(state.root, state.stack)
  /\ ~state.ok => state.root = root /\ state.stack = stack

LEMMA DoneKeeps ==
  ASSUME NEW root, NEW stack, NEW root2, NEW stack2, Sound(root2, stack2)
  PROVE  /\ Keeps(root, stack, State(TRUE, root2, stack2))
         /\ State(TRUE, root2, stack2).ok
<1>1. /\ State(TRUE, root2, stack2).ok = TRUE
      /\ State(TRUE, root2, stack2).root = root2
      /\ State(TRUE, root2, stack2).stack = stack2
  BY DEF State
<1> QED BY <1>1, Zenon DEF Keeps

LEMMA ThrowKeeps ==
  ASSUME NEW root, NEW stack, Sound(root, stack)
  PROVE  Keeps(root, stack, State(FALSE, root, stack))
<1>1. /\ State(FALSE, root, stack).root = root
      /\ State(FALSE, root, stack).stack = stack
  BY DEF State
<1> QED BY <1>1, Zenon DEF Keeps

LEMMA EmptyIsSound == \A root : Sound(root, << >>)
<1>1. << >> \in Seq({})
  OBVIOUS
<1>2. IsStack(<< >>) /\ IsChain(<< >>)
  BY <1>1 DEF IsStack, IsChain
<1> QED BY <1>2 DEF Sound

LEMMA TopOfChain ==
  ASSUME NEW s, IsStack(s), IsChain(s), s # << >>
  PROVE  /\ Top(s).kind \in {"array", "dict", "string"}
         /\ Top(s).kind = "string" <=> Pop(s) # << >> /\ Top(Pop(s)).kind = "dict"
<1>1. /\ Len(s) \in Nat /\ Len(s) >= 1 /\ DOMAIN s = 1 .. Len(s)
      /\ IsStack(Pop(s)) /\ Len(Pop(s)) = Len(s) - 1
      /\ \A i \in 1 .. Len(s) - 1 : Pop(s)[i] = s[i]
  BY PopStack
<1>2. Pop(s) # << >> <=> Len(s) > 1
  <2>1. PICK S : Pop(s) \in Seq(S)
    BY <1>1 DEF IsStack
  <2> QED BY <1>1, <2>1
<1>3. Len(s) > 1 => Top(Pop(s)) = s[Len(s) - 1]
  BY <1>1 DEF Top
<1>4. /\ s[Len(s)].kind \in {"array", "dict", "string"}
      /\ s[Len(s)].kind = "string" <=> Len(s) > 1 /\ s[Len(s) - 1].kind = "dict"
  <2>1. Len(s) \in DOMAIN s
    BY <1>1
  <2> QED BY <2>1, Zenon DEF IsChain
<1> QED BY <1>2, <1>3, <1>4 DEF Top

LEMMA ValueKeeps ==
  ASSUME NEW root, NEW stack, NEW node, Sound(root, stack)
  PROVE  /\ Keeps(root, stack, Value(root, stack, node))
         /\ root = Null /\ (stack = << >> \/ Top(stack).kind \in {"array", "string"}) =>
              Value(root, stack, node).ok
<1> DEFINE result == Value(root, stack, node)
           items == Append(Top(stack).items, node)
           below == Pop(stack)
           map == Insert(Top(below).map, Top(stack).key, node)
<1>1. CASE root # Null
  <2>1. result = State(FALSE, root, stack)
    BY <1>1 DEF Value
  <2> QED BY <1>1, <2>1, ThrowKeeps
<1>2. CASE root = Null /\ stack = << >>
  <2>1. result = State(TRUE, node, << >>)
    BY <1>2 DEF Value
  <2> QED BY <2>1, EmptyIsSound, DoneKeeps
<1>3. CASE root = Null /\ stack # << >> /\ Top(stack).kind = "array"
  <2>1. result = State(TRUE, root, SetTop(stack, Array(items)))
    BY <1>3 DEF Value
  <2>2. Array(items).kind = Top(stack).kind
    BY <1>3, Kinds
  <2> HIDE DEF items, result
  <2>3. Sound(root, SetTop(stack, Array(items)))
    BY <1>3, <2>2, SetTopStack, ChainSetTop DEF Sound
  <2> QED BY <2>1, <2>3, DoneKeeps DEF result
<1>4. CASE root = Null /\ stack # << >> /\ Top(stack).kind = "string"
  <2>1. result = State(TRUE, root, SetTop(below, Dict(map)))
    BY <1>4 DEF Value
  <2>2. below # << >> /\ IsStack(below) /\ IsChain(below) /\ Dict(map).kind = Top(below).kind
    BY <1>4, Kinds, PopStack, ChainPop, TopOfChain DEF Sound
  <2> HIDE DEF map, below, result
  <2>3. Sound(root, SetTop(below, Dict(map)))
    BY <1>4, <2>2, SetTopStack, ChainSetTop DEF Sound
  <2> QED BY <2>1, <2>3, DoneKeeps DEF result
<1>5. CASE root = Null /\ stack # << >> /\ Top(stack).kind = "dict"
  <2>1. result = State(FALSE, root, stack)
    BY <1>5 DEF Value
  <2> QED BY <1>5, <2>1, ThrowKeeps
<1> QED BY <1>1, <1>2, <1>3, <1>4, <1>5, TopOfChain DEF Sound

LEMMA KeyKeeps ==
  ASSUME NEW root, NEW stack, NEW key, Sound(root, stack)
  PROVE  Keeps(root, stack, Key(root, stack, key))
<1>1. CASE stack # << >> /\ root = Null /\ Top(stack).kind = "dict"
  <2>1. Key(root, stack, key) = State(TRUE, root, Append(stack, String(key)))
    BY <1>1 DEF Key
  <2>2. IsStack(Append(stack, String(key))) /\ IsChain(Append(stack, String(key)))
    BY <1>1, Kinds, PushStack, ChainPush DEF Sound
  <2> QED BY <1>1, <2>1, <2>2, DoneKeeps DEF Sound
<1>2. CASE ~(stack # << >> /\ root = Null /\ Top(stack).kind = "dict")
  <2>1. Key(root, stack, key) = State(FALSE, root, stack)
    BY <1>2 DEF Key
  <2> QED BY <2>1, ThrowKeeps
<1> QED BY <1>1, <1>2

LEMMA StartKeeps ==
  ASSUME NEW root, NEW stack, NEW container, container.kind \in {"array", "dict"},
         Sound(root, stack)
  PROVE  Keeps(root, stack, Start(root, stack, container))
<1>1. CASE root = Null /\ (stack = << >> \/ Top(stack).kind \in {"array", "string"})
  <2>1. Start(root, stack, container) = State(TRUE, root, Append(stack, container))
    BY <1>1 DEF Start
  <2>2. IsStack(Append(stack, container)) /\ IsChain(Append(stack, container))
    BY <1>1, PushStack, ChainPush DEF Sound
  <2> QED BY <1>1, <2>1, <2>2, DoneKeeps DEF Sound
<1>2. CASE ~(root = Null /\ (stack = << >> \/ Top(stack).kind \in {"array", "string"}))
  <2>1. Start(root, stack, container) = State(FALSE, root, stack)
    BY <1>2 DEF Start
  <2> QED BY <2>1, ThrowKeeps
<1> QED BY <1>1, <1>2

(* EndArray and EndDict: Value is asked with the container popped, and     *)
(* then it does not throw.                                                 *)
LEMMA EndKeeps ==
  ASSUME NEW root, NEW stack, NEW kind, kind \in {"array", "dict"}, Sound(root, stack)
  PROVE  Keeps(root, stack, End(root, stack, kind))
<1>1. CASE stack = << >> \/ Top(stack).kind # kind
  <2>1. End(root, stack, kind) = State(FALSE, root, stack)
    BY <1>1 DEF End
  <2> QED BY <2>1, ThrowKeeps
<1>2. CASE stack # << >> /\ Top(stack).kind = kind
  <2>0. /\ Len(stack) \in Nat /\ Len(stack) >= 1 /\ Len(Pop(stack)) = Len(stack) - 1
        /\ IsStack(Pop(stack)) /\ IsChain(Pop(stack)) /\ root = Null
        /\ Pop(stack) = << >> \/ Top(Pop(stack)).kind \in {"array", "string"}
    <3>1. /\ Len(stack) \in Nat /\ Len(stack) >= 1 /\ Len(Pop(stack)) = Len(stack) - 1
          /\ IsStack(Pop(stack)) /\ IsChain(Pop(stack)) /\ root = Null
      BY <1>2, PopStack, ChainPop DEF Sound
    <3>2. Pop(stack) = << >> \/ Top(Pop(stack)).kind # "dict"
      BY <1>2, TopOfChain DEF Sound
    <3> QED BY <3>1, <3>2, TopOfChain
  <2>1. CASE Len(stack) = 1
    <3>1. End(root, stack, kind) = State(TRUE, Top(stack), Pop(stack))
      BY <1>2, <2>1 DEF End
    <3>2. Pop(stack) = << >>
      <4>1. PICK S : Pop(stack) \in Seq(S)
        BY <2>0 DEF IsStack
      <4> QED BY <2>0, <2>1, <4>1
    <3> QED BY <3>1, <3>2, EmptyIsSound, DoneKeeps
  <2>2. CASE Len(stack) # 1
    <3> DEFINE result == Value(root, Pop(stack), Top(stack))
    <3>1. End(root, stack, kind) = result
      BY <1>2, <2>2 DEF End
    <3>2. Sound(root, Pop(stack))
      BY <2>0 DEF Sound
    <3>3. Keeps(root, Pop(stack), result) /\ result.ok
      BY <2>0, <3>2, ValueKeeps
    <3> HIDE DEF result
    <3> QED BY <3>1, <3>3 DEF Keeps
  <2> QED BY <2>1, <2>2
<1> QED BY <1>1, <1>2

-----------------------------------------------------------------------------
IInv == Sound(root_, nodes_stack_)

LEMMA InitSound == Init => IInv
BY EmptyIsSound DEF Init, IInv

LEMMA CallKeeps ==
  ASSUME IInv, NEW name, NEW argument, NEW state, Keeps(root_, nodes_stack_, state),
         Call(name, argument, state)
  PROVE  IInv' /\ (threw' => UNCHANGED <<root_, nodes_stack_>>)
BY DEF Call, Keeps, IInv

LEMMA NextSound ==
  ASSUME IInv, Next
  PROVE  IInv' /\ (threw' => UNCHANGED <<root_, nodes_stack_>>)
<1> USE DEF IInv
<1>1. ASSUME NEW node \in Leaves, CallValue(node)
      PROVE  IInv' /\ (threw' => UNCHANGED <<root_, nodes_stack_>>)
  BY <1>1, CallKeeps, ValueKeeps DEF CallValue
<1>2. ASSUME NEW key \in Keys, CallKey(key)
      PROVE  IInv' /\ (threw' => UNCHANGED <<root_, nodes_stack_>>)
  BY <1>2, CallKeeps, KeyKeeps DEF CallKey
<1>3. CASE StartArray
  BY <1>3, CallKeeps, StartKeeps, Kinds DEF StartArray
<1>4. CASE StartDict
  BY <1>4, CallKeeps, StartKeeps, Kinds DEF StartDict
<1>5. CASE EndArray
  BY <1>5, CallKeeps, EndKeeps DEF EndArray
<1>6. CASE EndDict
  BY <1>6, CallKeeps, EndKeeps DEF EndDict
<1> QED BY <1>1, <1>2, <1>3, <1>4, <1>5, <1>6 DEF Next

LEMMA SoundAlways == Spec => []IInv
<1>1. Init => IInv
  BY InitSound
<1>2. IInv /\ [Next]_vars => IInv'
  <2>1. ASSUME IInv, UNCHANGED vars PROVE IInv'
    BY <2>1 DEF vars, IInv
  <2> QED BY <2>1, NextSound
<1> QED BY <1>1, <1>2, PTL DEF Spec

(* StackIsAChain: however the methods are called, a key lies on a          *)
(* dictionary and nothing else does, and a finished Builder has no open    *)
(* containers.                                                             *)
THEOREM BuilderStackIsAChain == Spec => []StackIsAChain
<1>1. IInv => StackIsAChain
  BY DEF IInv, Sound, IsChain, StackIsAChain
<1> QED BY <1>1, SoundAlways, PTL

(* ThrowChangesNothing: a call that throws leaves root and stack, so a     *)
(* caller that catches can go on; EndArray and EndDict, which pop first,   *)
(* never throw after it.                                                   *)
THEOREM BuilderThrowsCleanly == Spec => ThrowChangesNothing
<1> DEFINE A == threw' => UNCHANGED <<root_, nodes_stack_>>
<1>1. IInv /\ [Next]_vars => [A]_vars
  BY NextSound
<1>2. [][A]_vars => ThrowChangesNothing
  BY PTL DEF ThrowChangesNothing
<1> QED BY <1>1, <1>2, SoundAlways, PTL DEF Spec
-----------------------------------------------------------------------------
(* Reading a text: it looks ahead only, so there is one Reading.           *)

LEMMA LeastNat ==
  ASSUME NEW T \in SUBSET Nat, T # {}
  PROVE  \E x \in T : \A y \in T : x <= y
<1> DEFINE R == {ss \in Nat \X Nat : ss[1] < ss[2]}
<1>1. IsWellFoundedOn(R, Nat)
  BY NatLessThanWellFounded DEF OpToRel
<1>2. PICK x \in T : \A y \in T : ~ (<<y, x>> \in R)
  <2> HIDE DEF R
  <2> QED BY <1>1, WFMin
<1>3. \A y \in T : y \in Nat /\ x \in Nat /\ ~(y < x)
  BY <1>2
<1> QED BY <1>3

Kind == {"value", "items", "entries"}

(* What Reading has at a place.                                            *)
ReadAt(c, read, i) ==
  [what \in Kind |->
     IF i > Len(c) THEN Read(<< >>, i)
     ELSE IF what = "value" THEN ReadValue(c, read, i)
     ELSE IF what = "items" THEN ReadItems(c, read, i)
     ELSE ReadEntries(c, read, i)]

(* Reading, from place k on.                                               *)
IsReading(c, read, k) == read = [i \in k .. Len(c) + 1 |-> ReadAt(c, read, i)]

IsMap(map) == map = [k \in DOMAIN map |-> map[k]]

(* It goes forward and stays within the text, items are a sequence and     *)
(* entries a map.                                                          *)
Forward(at, i, n) ==
  /\ \A what \in Kind : at[what].next \in i .. n + 1
  /\ IsStack(at["items"].node)
  /\ IsMap(at["entries"].node)

GoesOn(c, read, k) ==
  \A i \in k .. Len(c) + 1 : Forward(read[i], i, Len(c))

LEMMA EmptyIsMap == IsMap(<< >>)
BY DEF IsMap

LEMMA AssignIsMap == \A map, key, value : IsMap(Assign(map, key, value))
BY DEF IsMap, Assign

LEMMA Joined ==
  ASSUME NEW s, IsStack(s), NEW t, IsStack(t)
  PROVE  /\ IsStack(s \o t)
         /\ s \o << >> = s /\ << >> \o s = s
         /\ \A x : Append(s, x) = s \o <<x>> /\ IsStack(Append(s, x)) /\ IsStack(<<x>>)
<1>1. PICK S : s \in Seq(S)
  BY DEF IsStack
<1>2. PICK T : t \in Seq(T)
  BY DEF IsStack
<1>3. s \in Seq(S \cup T) /\ t \in Seq(S \cup T)
  BY <1>1, <1>2
<1>4. s \o t \in Seq(S \cup T)
  BY <1>3
<1>5. s \o << >> = s /\ << >> \o s = s
  BY <1>1
<1>6. ASSUME NEW x
      PROVE  /\ Append(s, x) = s \o <<x>> /\ IsStack(Append(s, x)) /\ IsStack(<<x>>)
  <2> DEFINE U == S \cup T \cup {x}
  <2>1. s \in Seq(U) /\ t \in Seq(U) /\ <<x>> \in Seq(U) /\ x \in U
    BY <1>3
  <2>2. Append(s, x) = s \o <<x>> /\ Append(s, x) \in Seq(U)
    BY <2>1
  <2> QED BY <2>1, <2>2 DEF IsStack
<1> QED BY <1>4, <1>5, <1>6 DEF IsStack

LEMMA JoinedBetween ==
  ASSUME NEW s, IsStack(s), NEW t, IsStack(t), NEW x
  PROVE  s \o (<<x>> \o t) = Append(s, x) \o t
<1>1. PICK S : s \in Seq(S)
  BY DEF IsStack
<1>2. PICK T : t \in Seq(T)
  BY DEF IsStack
<1> DEFINE U == S \cup T \cup {x}
<1>3. s \in Seq(U) /\ t \in Seq(U) /\ <<x>> \in Seq(U) /\ x \in U
  BY <1>1, <1>2
<1>4. Append(s, x) = s \o <<x>>
  BY <1>3
<1>5. s \o (<<x>> \o t) = (s \o <<x>>) \o t
  <2> HIDE DEF U
  <2> QED BY <1>3
<1> QED BY <1>4, <1>5

(* Reading at a place uses no place but those behind it.                   *)
LEMMA ReadAtLooksAhead ==
  ASSUME NEW c, NEW n \in Nat, n = Len(c), NEW f, NEW g, NEW i \in 1 .. n,
         GoesOn(c, f, i + 1), \A j \in i + 1 .. n + 1 : g[j] = f[j]
  PROVE  /\ ReadAt(c, g, i) = ReadAt(c, f, i)
         /\ ReadValue(c, f, i).next \in i + 1 .. n + 1
         /\ Forward(ReadAt(c, f, i), i, n)
<1>1. /\ i + 1 \in i + 1 .. n + 1 /\ g[i + 1] = f[i + 1]
      /\ \A j \in i + 1 .. n + 1 : \A what \in Kind : f[j][what].next \in j .. n + 1
      /\ \A j \in i + 1 .. n + 1 : IsStack(f[j]["items"].node)
  BY DEF GoesOn, Forward
<1>2. /\ f[i + 1]["value"].next \in i + 1 .. n + 1
      /\ f[i + 1]["items"].next \in i + 1 .. n + 1
      /\ f[i + 1]["entries"].next \in i + 1 .. n + 1
  BY <1>1 DEF Kind
<1>3. ReadValue(c, g, i) = ReadValue(c, f, i) /\ ReadValue(c, f, i).next \in i + 1 .. n + 1
  BY <1>1, <1>2 DEF ReadValue, Read
<1>4. PICK a, b : a = ReadValue(c, f, i).next /\ b = f[i + 1]["value"].next
  OBVIOUS
<1>5. /\ a \in i + 1 .. n + 1 /\ b \in i + 1 .. n + 1
      /\ g[a] = f[a] /\ g[b] = f[b]
      /\ f[a]["items"].next \in i + 1 .. n + 1
      /\ f[b]["entries"].next \in i + 1 .. n + 1
  <2>1. a \in i + 1 .. n + 1 /\ b \in i + 1 .. n + 1
    BY <1>2, <1>3, <1>4
  <2>2. f[a]["items"].next \in a .. n + 1 /\ f[b]["entries"].next \in b .. n + 1
    BY <1>1, <2>1 DEF Kind
  <2> QED BY <2>1, <2>2
<1>6. ReadItems(c, g, i) = ReadItems(c, f, i) /\ ReadItems(c, f, i).next \in i + 1 .. n + 1
  BY <1>3, <1>4, <1>5 DEF ReadItems, Read
<1>7. ReadEntries(c, g, i) = ReadEntries(c, f, i) /\ ReadEntries(c, f, i).next \in i + 1 .. n + 1
  BY <1>1, <1>4, <1>5 DEF ReadEntries, Read
<1>8. ReadAt(c, g, i) = ReadAt(c, f, i)
  BY <1>3, <1>6, <1>7 DEF ReadAt
<1>9. \A what \in Kind : ReadAt(c, f, i)[what].next \in i + 1 .. n + 1
  BY <1>3, <1>6, <1>7 DEF ReadAt, Kind
<1>10. IsStack(ReadItems(c, f, i).node)
  <2>1. CASE c[i].call = "EndArray"
    <3>1. ReadItems(c, f, i).node = << >> /\ << >> \in Seq({})
      BY <2>1 DEF ReadItems, Read
    <3> QED BY <3>1 DEF IsStack
  <2>2. CASE c[i].call # "EndArray"
    <3> DEFINE x == ReadValue(c, f, i).node
               t == f[a]["items"].node
    <3>1. ReadItems(c, f, i).node = <<x>> \o t
      BY <1>4, <2>2 DEF ReadItems, Read
    <3>2. IsStack(t)
      BY <1>1, <1>5
    <3> HIDE DEF x, t
    <3>3. IsStack(<<x>>)
      BY <3>2, Joined
    <3>4. IsStack(<<x>> \o t)
      BY <3>2, <3>3, Joined
    <3> QED BY <3>1, <3>4
  <2> QED BY <2>1, <2>2
<1>11. IsMap(ReadEntries(c, f, i).node)
  <2>1. CASE c[i].call = "EndDict"
    <3>1. ReadEntries(c, f, i).node = << >>
      BY <2>1 DEF ReadEntries, Read
    <3> QED BY <3>1, EmptyIsMap
  <2>2. CASE c[i].call # "EndDict"
    <3> DEFINE x == f[i + 1]["value"].node
               t == f[b]["entries"].node
    <3>1. ReadEntries(c, f, i).node = Assign(t, c[i].argument.key, x)
      BY <1>4, <2>2 DEF ReadEntries, Read
    <3> HIDE DEF x, t
    <3> QED BY <3>1, AssignIsMap
  <2> QED BY <2>1, <2>2
<1>12. /\ ReadAt(c, f, i)["items"] = ReadItems(c, f, i)
       /\ ReadAt(c, f, i)["entries"] = ReadEntries(c, f, i)
  BY DEF ReadAt, Kind
<1>13. Forward(ReadAt(c, f, i), i, n)
  BY <1>9, <1>10, <1>11, <1>12 DEF Forward
<1> QED BY <1>3, <1>8, <1>13

(* What is read from place k + 1 on can be extended to place k.            *)
LEMMA ReadingExtends ==
  ASSUME NEW c, NEW n \in Nat, n = Len(c), NEW k \in 1 .. n, NEW f,
         IsReading(c, f, k + 1), GoesOn(c, f, k + 1)
  PROVE  \E g : IsReading(c, g, k) /\ GoesOn(c, g, k)
<1> DEFINE g == [i \in k .. n + 1 |-> IF i = k THEN ReadAt(c, f, k) ELSE f[i]]
<1>1. /\ g[k] = ReadAt(c, f, k)
      /\ \A j \in k + 1 .. n + 1 : g[j] = f[j]
  OBVIOUS
<1>10. g = [i \in k .. n + 1 |-> g[i]]
  OBVIOUS
<1> HIDE DEF g
<1>2. ReadAt(c, g, k) = ReadAt(c, f, k) /\ Forward(ReadAt(c, f, k), k, n)
  <2>1. GoesOn(c, f, k + 1) /\ n = Len(c)
    OBVIOUS
  <2>2. \A j \in k + 1 .. n + 1 : g[j] = f[j]
    BY <1>1, Zenon
  <2>3. n \in Nat /\ k \in 1 .. n
    OBVIOUS
  <2> QED BY <2>1, <2>2, <2>3, ReadAtLooksAhead, ZenonT(60)
<1>3. ASSUME NEW i \in k + 1 .. n + 1 PROVE Forward(f[i], i, n)
  BY DEF GoesOn
<1>4. ASSUME NEW i \in k + 1 .. n + 1 PROVE g[i] = ReadAt(c, g, i)
  <2>1. g[i] = f[i] /\ f[i] = ReadAt(c, f, i)
    BY <1>1 DEF IsReading
  <2>2. CASE i <= n
    <3>1. GoesOn(c, f, i + 1)
      BY <1>3 DEF GoesOn
    <3>2. i \in 1 .. n /\ \A j \in i + 1 .. n + 1 : g[j] = f[j]
      BY <1>1, <2>2
    <3>3. ReadAt(c, g, i) = ReadAt(c, f, i)
      BY <3>1, <3>2, ReadAtLooksAhead
    <3> QED BY <2>1, <3>3
  <2>3. CASE i = n + 1
    BY <2>1, <2>3 DEF ReadAt
  <2> QED BY <2>2, <2>3
<1>5. IsReading(c, g, k)
  <2>1. \A i \in k .. n + 1 : g[i] = ReadAt(c, g, i)
    BY <1>1, <1>2, <1>4
  <2>2. [i \in k .. n + 1 |-> g[i]] = [i \in k .. n + 1 |-> ReadAt(c, g, i)]
    BY <2>1
  <2> QED BY <1>10, <2>2, Zenon DEF IsReading
<1>6. \A i \in k .. n + 1 : Forward(g[i], i, n)
  <2>1. ASSUME NEW i \in k .. n + 1 PROVE Forward(g[i], i, n)
    <3>1. CASE i = k
      BY <1>1, <1>2, <3>1
    <3>2. CASE i \in k + 1 .. n + 1
      BY <1>1, <1>3, <3>2
    <3> QED BY <3>1, <3>2
  <2> QED BY <2>1
<1> QED BY <1>5, <1>6 DEF GoesOn

LEMMA ReadingExists ==
  ASSUME NEW c, NEW n \in Nat, n = Len(c)
  PROVE  \E f : IsReading(c, f, 1) /\ GoesOn(c, f, 1)
<1> DEFINE Good(d) == \E f : IsReading(c, f, n + 1 - d) /\ GoesOn(c, f, n + 1 - d)
           T == {d \in 0 .. n : ~Good(d)}
<1>1. Good(0)
  <2> DEFINE f == [i \in n + 1 .. n + 1 |-> [what \in Kind |-> Read(<< >>, n + 1)]]
  <2>1. IsReading(c, f, n + 1)
    BY DEF IsReading, ReadAt
  <2>2. IsStack(<< >>)
    BY EmptyIsSound DEF Sound
  <2>3. GoesOn(c, f, n + 1)
    BY <2>2, EmptyIsMap DEF GoesOn, Forward, Read, Kind
  <2>4. n + 1 - 0 = n + 1
    OBVIOUS
  <2> HIDE DEF f
  <2> QED BY <2>1, <2>3, <2>4
<1>2. ASSUME T # {} PROVE FALSE
  <2>1. PICK d \in T : \A e \in T : d <= e
    <3>1. T \in SUBSET Nat
      OBVIOUS
    <3> HIDE DEF T
    <3> QED BY <1>2, <3>1, LeastNat
  <2>2. d \in 1 .. n /\ ~Good(d)
    <3>1. d # 0
      BY <1>1
    <3> QED BY <3>1
  <2>3. Good(d - 1)
    <3>1. d - 1 \in 0 .. n /\ ~(d <= d - 1)
      BY <2>2
    <3> QED BY <2>1, <3>1
  <2> DEFINE k == n + 1 - d
  <2>4. k \in 1 .. n /\ k + 1 = n + 1 - (d - 1)
    BY <2>2
  <2>41. ~ \E f : IsReading(c, f, k) /\ GoesOn(c, f, k)
    BY <2>2
  <2> HIDE DEF T, k
  <2>5. PICK f : IsReading(c, f, k + 1) /\ GoesOn(c, f, k + 1)
    BY <2>3, <2>4
  <2> QED BY <2>4, <2>41, <2>5, ReadingExtends
<1>3. Good(n)
  <2> HIDE DEF Good
  <2> QED BY <1>2
<1>4. n + 1 - n = 1
  OBVIOUS
<1> QED BY <1>3, <1>4

(* So Reading is what its definition says; from the end of the text back,  *)
(* it goes forward.                                                        *)
LEMMA ReadingIsRead ==
  ASSUME NEW c, NEW n \in Nat, n = Len(c)
  PROVE  /\ \A i \in 1 .. n + 1 : Reading(c)[i] = ReadAt(c, Reading(c), i)
         /\ GoesOn(c, Reading(c), 1)
<1> DEFINE Is(f) == IsReading(c, f, 1)
           r == Reading(c)
<1>1. PICK f : Is(f)
  BY ReadingExists
<1>2. r = CHOOSE h : Is(h)
  BY DEF Reading, IsReading, ReadAt, Kind
<1> HIDE DEF Is, r
<1>3. Is(r)
  BY <1>1, <1>2, Zenon
<1>4. \A i \in 1 .. n + 1 : r[i] = ReadAt(c, r, i)
  BY <1>3 DEF IsReading, Is
<1>5. GoesOn(c, r, 1)
  <2> DEFINE T == {d \in 0 .. n : ~Forward(r[n + 1 - d], n + 1 - d, n)}
  <2>1. SUFFICES ASSUME T # {} PROVE FALSE
    <3>1. ASSUME T = {}, NEW i \in 1 .. n + 1 PROVE Forward(r[i], i, n)
      <4>1. n + 1 - i \in 0 .. n /\ n + 1 - (n + 1 - i) = i
        OBVIOUS
      <4>2. ~(n + 1 - i \in T)
        BY <3>1
      <4> QED BY <4>1, <4>2
    <3> QED BY <3>1 DEF GoesOn
  <2>2. PICK d \in T : \A e \in T : d <= e
    <3>1. T \in SUBSET Nat
      OBVIOUS
    <3> HIDE DEF T
    <3> QED BY <2>1, <3>1, LeastNat
  <2> DEFINE k == n + 1 - d
  <2>3. d \in 0 .. n /\ k \in 1 .. n + 1 /\ ~Forward(r[k], k, n)
    OBVIOUS
  <2>4. \A i \in k + 1 .. n + 1 : Forward(r[i], i, n)
    <3>1. ASSUME NEW i \in k + 1 .. n + 1 PROVE Forward(r[i], i, n)
      <4>1. n + 1 - i \in 0 .. n /\ n + 1 - (n + 1 - i) = i /\ ~(d <= n + 1 - i)
        BY <2>3
      <4>2. ~(n + 1 - i \in T)
        <5> HIDE DEF T
        <5> QED BY <2>2, <4>1
      <4> QED BY <4>1, <4>2
    <3> QED BY <3>1
  <2> HIDE DEF k, T
  <2>5. CASE k = n + 1
    <3>1. IsStack(<< >>)
      BY EmptyIsSound DEF Sound
    <3>2. r[k] = [what \in Kind |-> Read(<< >>, n + 1)]
      BY <1>4, <2>5 DEF ReadAt
    <3> QED BY <2>3, <2>5, <3>1, <3>2, EmptyIsMap DEF Forward, Read, Kind
  <2>6. CASE k \in 1 .. n
    <3>1. GoesOn(c, r, k + 1)
      BY <2>4, <2>6 DEF GoesOn
    <3>2. Forward(ReadAt(c, r, k), k, n)
      BY <2>6, <3>1, ReadAtLooksAhead
    <3> QED BY <1>4, <2>3, <3>2
  <2> QED BY <2>3, <2>5, <2>6
<1> QED BY <1>4, <1>5 DEF r

-----------------------------------------------------------------------------
(* What one more item, entry or end makes of what is read.                 *)

(* What is read at a place of a text.                                      *)
LEMMA ReadsAt ==
  ASSUME NEW c, IsStack(c)
  PROVE  /\ Len(c) \in Nat /\ DOMAIN c = 1 .. Len(c)
         /\ \A i \in 1 .. Len(c) :
              /\ Reading(c)[i]["value"] = ReadValue(c, Reading(c), i)
              /\ Reading(c)[i]["items"] = ReadItems(c, Reading(c), i)
              /\ Reading(c)[i]["entries"] = ReadEntries(c, Reading(c), i)
         /\ \A i \in 1 .. Len(c) + 1 :
              /\ IsStack(Reading(c)[i]["items"].node)
              /\ IsMap(Reading(c)[i]["entries"].node)
              /\ Reading(c)[i]["value"].next \in i .. Len(c) + 1
<1>1. Len(c) \in Nat /\ DOMAIN c = 1 .. Len(c)
  BY DEF IsStack
<1> DEFINE r == Reading(c)
           n == Len(c)
<1>2. /\ \A i \in 1 .. n + 1 : r[i] = ReadAt(c, r, i)
      /\ GoesOn(c, r, 1)
  BY <1>1, ReadingIsRead
<1> HIDE DEF r
<1>3. ASSUME NEW i \in 1 .. n
      PROVE  /\ r[i]["value"] = ReadValue(c, r, i)
             /\ r[i]["items"] = ReadItems(c, r, i)
             /\ r[i]["entries"] = ReadEntries(c, r, i)
  <2>1. r[i] = ReadAt(c, r, i) /\ ~(i > Len(c))
    BY <1>1, <1>2
  <2> QED BY <2>1 DEF ReadAt, Kind
<1>4. ASSUME NEW i \in 1 .. n + 1
      PROVE  /\ IsStack(r[i]["items"].node)
             /\ IsMap(r[i]["entries"].node)
             /\ r[i]["value"].next \in i .. n + 1
  BY <1>2 DEF GoesOn, Forward, Kind
<1> QED BY <1>1, <1>3, <1>4 DEF r

(* A text that goes on where c ends.                                       *)
Ext(text, c) ==
  /\ IsStack(text) /\ Len(c) <= Len(text)
  /\ \A i \in 1 .. Len(c) : text[i] = c[i]

Over(map, rest) ==
  [k \in DOMAIN map \cup DOMAIN rest |-> IF k \in DOMAIN map THEN map[k] ELSE rest[k]]

(* From place a on a text reads as the items, or the map, and then as it   *)
(* does from place b on.                                                   *)
ItemsTo(text, a, items, b) ==
  /\ Reading(text)[a]["items"].node = items \o Reading(text)[b]["items"].node
  /\ Reading(text)[a]["items"].next = Reading(text)[b]["items"].next

EntriesTo(text, a, map, b) ==
  /\ Reading(text)[a]["entries"].node = Over(map, Reading(text)[b]["entries"].node)
  /\ Reading(text)[a]["entries"].next = Reading(text)[b]["entries"].next

Begins(call) == call.call \in {"Value", "StartArray", "StartDict"}

LEMMA ItemGiven ==
  ASSUME NEW text, IsStack(text), NEW a, NEW items, IsStack(items), NEW p \in 1 .. Len(text),
         NEW node, NEW q, Begins(text[p]), ItemsTo(text, a, items, p),
         Reading(text)[p]["value"] = Read(node, q)
  PROVE  ItemsTo(text, a, Append(items, node), q)
<1> DEFINE r == Reading(text)
<1>1. /\ Len(text) \in Nat /\ r[p]["value"] = ReadValue(text, r, p)
      /\ r[p]["items"] = ReadItems(text, r, p)
      /\ r[p]["value"].next \in p .. Len(text) + 1
      /\ \A i \in 1 .. Len(text) + 1 : IsStack(r[i]["items"].node)
  BY ReadsAt
<1>2. r[p]["value"] = Read(node, q)
  OBVIOUS
<1>3. ItemsTo(text, a, items, p) <=>
        /\ r[a]["items"].node = items \o r[p]["items"].node
        /\ r[a]["items"].next = r[p]["items"].next
  BY DEF ItemsTo
<1>4. ItemsTo(text, a, Append(items, node), q) <=>
        /\ r[a]["items"].node = Append(items, node) \o r[q]["items"].node
        /\ r[a]["items"].next = r[q]["items"].next
  BY DEF ItemsTo
<1> HIDE DEF r
<1>5. q \in 1 .. Len(text) + 1
  BY <1>1, <1>2 DEF Read
<1>6. r[p]["items"].node = <<node>> \o r[q]["items"].node /\ r[p]["items"].next = r[q]["items"].next
  <2>1. text[p].call # "EndArray"
    BY DEF Begins
  <2>2. ReadValue(text, r, p).node = node /\ ReadValue(text, r, p).next = q
    BY <1>1, <1>2 DEF Read
  <2>3. ReadItems(text, r, p) = Read(<<node>> \o r[q]["items"].node, r[q]["items"].next)
    BY <2>1, <2>2 DEF ReadItems
  <2> QED BY <1>1, <2>3, SMTT(20) DEF Read
<1> DEFINE rest == r[q]["items"].node
<1>7. items \o (<<node>> \o rest) = Append(items, node) \o rest
  <2>1. IsStack(rest)
    BY <1>1, <1>5
  <2> HIDE DEF rest
  <2> QED BY <2>1, JoinedBetween
<1> QED BY <1>3, <1>4, <1>6, <1>7

LEMMA ArrayEnds ==
  ASSUME NEW text, IsStack(text), NEW items, IsStack(items), NEW a \in 1 .. Len(text),
         NEW p \in 1 .. Len(text), ItemsTo(text, a + 1, items, p),
         text[a].call = "StartArray", text[p].call = "EndArray"
  PROVE  Reading(text)[a]["value"] = Read(Array(items), p + 1)
<1> DEFINE r == Reading(text)
<1>1. /\ r[a]["value"] = ReadValue(text, r, a)
      /\ r[p]["items"] = ReadItems(text, r, p)
  BY ReadsAt
<1>2. /\ r[a + 1]["items"].node = items \o r[p]["items"].node
      /\ r[a + 1]["items"].next = r[p]["items"].next
  BY DEF ItemsTo
<1> HIDE DEF r
<1>3. r[p]["items"].node = << >> /\ r[p]["items"].next = p + 1
  BY <1>1 DEF ReadItems, Read
<1>4. items \o << >> = items
  BY Joined
<1>5. ReadValue(text, r, a) = Read(Array(items), p + 1)
  BY <1>2, <1>3, <1>4 DEF ReadValue
<1> QED BY <1>1, <1>5 DEF r

LEMMA EntryGiven ==
  ASSUME NEW text, IsStack(text), NEW a, NEW map, IsMap(map), NEW p \in 1 .. Len(text),
         NEW node, NEW q, text[p].call = "Key", EntriesTo(text, a, map, p),
         Reading(text)[p + 1]["value"] = Read(node, q)
  PROVE  EntriesTo(text, a, Insert(map, text[p].argument.key, node), q)
<1> DEFINE r == Reading(text)
           key == text[p].argument.key
           rest == r[q]["entries"].node
<1>1. Len(text) \in Nat /\ r[p]["entries"] = ReadEntries(text, r, p)
  BY ReadsAt
<1>2. /\ r[a]["entries"].node = Over(map, r[p]["entries"].node)
      /\ r[a]["entries"].next = r[p]["entries"].next
  BY DEF EntriesTo
<1>3. r[p]["entries"].node = Assign(rest, key, node) /\ r[p]["entries"].next = r[q]["entries"].next
  <2>1. r[p + 1]["value"].node = node /\ r[p + 1]["value"].next = q
    BY DEF Read
  <2> HIDE DEF r
  <2> QED BY <1>1, <2>1 DEF ReadEntries, Read
<1> HIDE DEF r, key, rest
<1>4. Over(map, Assign(rest, key, node)) = Over(Insert(map, key, node), rest)
  <2>1. CASE key \in DOMAIN map
    BY <2>1 DEF Over, Assign, Insert
  <2>2. CASE key \notin DOMAIN map
    BY <2>2 DEF Over, Assign, Insert
  <2> QED BY <2>1, <2>2
<1> QED BY <1>2, <1>3, <1>4 DEF EntriesTo, r, key, rest

LEMMA DictEnds ==
  ASSUME NEW text, IsStack(text), NEW map, IsMap(map), NEW a \in 1 .. Len(text),
         NEW p \in 1 .. Len(text), EntriesTo(text, a + 1, map, p),
         text[a].call = "StartDict", text[p].call = "EndDict"
  PROVE  Reading(text)[a]["value"] = Read(Dict(map), p + 1)
<1> DEFINE r == Reading(text)
<1>1. /\ r[a]["value"] = ReadValue(text, r, a)
      /\ r[p]["entries"] = ReadEntries(text, r, p)
  BY ReadsAt
<1>2. /\ r[a + 1]["entries"].node = Over(map, r[p]["entries"].node)
      /\ r[a + 1]["entries"].next = r[p]["entries"].next
  BY DEF EntriesTo
<1> HIDE DEF r
<1>3. r[p]["entries"].node = << >> /\ r[p]["entries"].next = p + 1
  BY <1>1 DEF ReadEntries, Read
<1>4. Over(map, << >>) = map
  BY DEF Over, IsMap
<1>5. ReadValue(text, r, a) = Read(Dict(map), p + 1)
  BY <1>2, <1>3, <1>4 DEF ReadValue
<1> QED BY <1>1, <1>5 DEF r

-----------------------------------------------------------------------------
(* What is open: the places of the calls behind the stack.                 *)

(* The call that put a node on the stack.                                  *)
Opened(call, node) ==
  /\ node.kind = "array" => call.call = "StartArray"
  /\ node.kind = "dict" => call.call = "StartDict"
  /\ node.kind = "string" => call.call = "Key" /\ call.argument.key = node.key

Body(node) ==
  /\ node.kind = "array" => node = Array(node.items) /\ IsStack(node.items)
  /\ node.kind = "dict" => node = Dict(node.map) /\ IsMap(node.map)

(* From the call at a, which put the node on the stack, to the place b of  *)
(* what comes next in it, the text gives what the node has so far.         *)
Spelled(text, node, a, b) ==
  /\ node.kind = "array" => ItemsTo(text, a + 1, node.items, b)
  /\ node.kind = "dict" => EntriesTo(text, a + 1, node.map, b)
  /\ node.kind = "string" => b = a + 1

(* The stack s is what the text c, to place p, has left open: st has the   *)
(* places of the calls that put its nodes there, and p after them.         *)
Held(c, s, st, p) ==
  /\ IsStack(c) /\ IsStack(s)
  /\ p \in 1 .. Len(c) + 1
  /\ st[Len(s) + 1] = p
  /\ \A i \in 1 .. Len(s) : st[i] \in 1 .. Len(c) /\ Opened(c[st[i]], s[i]) /\ Body(s[i])
  /\ \A j \in 1 .. st[1] - 1 : LeavesNoTrace(c[j])
  /\ \A text : Ext(text, c) =>
       \A i \in 1 .. Len(s) : Spelled(text, s[i], st[i], st[i + 1])

Places(st, k, p) == [i \in 1 .. k |-> IF i = k THEN p ELSE st[i]]

LEMMA ExtAppend ==
  ASSUME NEW c, IsStack(c), NEW call
  PROVE  /\ IsStack(Append(c, call)) /\ Len(c) \in Nat /\ Len(Append(c, call)) = Len(c) + 1
         /\ Append(c, call)[Len(c) + 1] = call
         /\ Ext(Append(c, call), c)
<1>1. PICK S : c \in Seq(S)
  BY DEF IsStack
<1>2. IsStack(Append(c, call)) /\ Len(c) \in Nat /\ DOMAIN c = 1 .. Len(c)
      /\ Append(c, call)[Len(c) + 1] = call
      /\ \A i \in DOMAIN c : Append(c, call)[i] = c[i]
  BY PushStack
<1>3. Len(Append(c, call)) = Len(c) + 1
  BY <1>1
<1> QED BY <1>2, <1>3 DEF Ext

LEMMA ExtTransitive ==
  ASSUME NEW a, NEW b, NEW c, IsStack(c), Ext(a, b), Ext(b, c)
  PROVE  Ext(a, c)
<1>1. Len(a) \in Nat /\ Len(b) \in Nat /\ Len(c) \in Nat
  BY DEF Ext, IsStack
<1> QED BY <1>1 DEF Ext

LEMMA ExtItself ==
  ASSUME NEW c, IsStack(c)
  PROVE  Ext(c, c) /\ Len(c) \in Nat
BY DEF Ext, IsStack

(* A text that goes on keeps what was open.                                *)
LEMMA HeldOn ==
  ASSUME NEW c, NEW s, NEW st, NEW p, Held(c, s, st, p), NEW d, Ext(d, c)
  PROVE  Held(d, s, st, p)
<1>1. /\ Len(c) \in Nat /\ Len(s) \in Nat /\ Len(d) \in Nat /\ Len(c) <= Len(d)
      /\ IsStack(c) /\ IsStack(d) /\ IsStack(s)
      /\ \A i \in 1 .. Len(c) : d[i] = c[i]
  BY DEF Held, Ext, IsStack
<1>2. /\ p \in 1 .. Len(c) + 1
      /\ st[Len(s) + 1] = p
      /\ \A i \in 1 .. Len(s) : st[i] \in 1 .. Len(c)
      /\ \A i \in 1 .. Len(s) : Opened(c[st[i]], s[i]) /\ Body(s[i])
      /\ \A j \in 1 .. st[1] - 1 : LeavesNoTrace(c[j])
  BY DEF Held
<1>3. \A i \in 1 .. Len(s) : st[i] \in 1 .. Len(d) /\ Opened(d[st[i]], s[i]) /\ Body(s[i])
  BY <1>1, <1>2
<1>4. st[1] \in 1 .. Len(c) + 1
  <2>1. CASE Len(s) = 0
    BY <1>2, <2>1
  <2>2. CASE Len(s) > 0
    BY <1>1, <1>2, <2>2
  <2> QED BY <1>1, <2>1, <2>2
<1>5. \A j \in 1 .. st[1] - 1 : LeavesNoTrace(d[j])
  BY <1>1, <1>2, <1>4
<1>6. \A text : Ext(text, d) =>
        \A i \in 1 .. Len(s) : Spelled(text, s[i], st[i], st[i + 1])
  <2>1. \A text : Ext(text, d) => Ext(text, c)
    BY <1>1, ExtTransitive
  <2> QED BY <2>1 DEF Held
<1>7. p \in 1 .. Len(d) + 1
  BY <1>1, <1>2
<1> QED BY <1>1, <1>2, <1>3, <1>5, <1>6, <1>7 DEF Held

(* Without its top the stack is what was open at the call for the top.     *)
LEMMA HeldBelow ==
  ASSUME NEW c, NEW s, NEW st, NEW p, Held(c, s, st, p), s # << >>
  PROVE  /\ Held(c, Pop(s), st, st[Len(s)])
         /\ st[Len(s)] \in 1 .. Len(c)
         /\ Opened(c[st[Len(s)]], Top(s)) /\ Body(Top(s))
         /\ \A text : Ext(text, c) => Spelled(text, Top(s), st[Len(s)], p)
<1>1. /\ IsStack(c) /\ IsStack(s) /\ Len(c) \in Nat
  BY ExtItself DEF Held
<1>2. /\ IsStack(Pop(s)) /\ Len(s) \in Nat /\ Len(s) >= 1 /\ Len(Pop(s)) = Len(s) - 1
      /\ \A i \in 1 .. Len(s) - 1 : Pop(s)[i] = s[i]
  BY <1>1, PopStack
<1>3. /\ st[Len(s) + 1] = p
      /\ \A i \in 1 .. Len(s) : st[i] \in 1 .. Len(c) /\ Opened(c[st[i]], s[i]) /\ Body(s[i])
      /\ \A j \in 1 .. st[1] - 1 : LeavesNoTrace(c[j])
      /\ \A text : Ext(text, c) =>
           \A i \in 1 .. Len(s) : Spelled(text, s[i], st[i], st[i + 1])
  BY DEF Held
<1>4. Len(s) \in 1 .. Len(s) /\ Top(s) = s[Len(s)]
  BY <1>2 DEF Top
<1>5. /\ st[Len(s)] \in 1 .. Len(c)
      /\ Opened(c[st[Len(s)]], Top(s)) /\ Body(Top(s))
      /\ \A text : Ext(text, c) => Spelled(text, Top(s), st[Len(s)], p)
  BY <1>3, <1>4
<1>6. /\ st[Len(s)] \in 1 .. Len(c) + 1
      /\ st[Len(Pop(s)) + 1] = st[Len(s)]
      /\ \A i \in 1 .. Len(Pop(s)) :
           st[i] \in 1 .. Len(c) /\ Opened(c[st[i]], Pop(s)[i]) /\ Body(Pop(s)[i])
      /\ \A text : Ext(text, c) =>
           \A i \in 1 .. Len(Pop(s)) : Spelled(text, Pop(s)[i], st[i], st[i + 1])
  <2>1. /\ Len(Pop(s)) + 1 = Len(s)
        /\ \A i \in 1 .. Len(Pop(s)) : i \in 1 .. Len(s) /\ Pop(s)[i] = s[i]
    BY <1>2
  <2>2. st[Len(s)] \in 1 .. Len(c) + 1
    BY <1>1, <1>5
  <2> QED BY <1>3, <2>1, <2>2
<1> QED BY <1>1, <1>2, <1>3, <1>5, <1>6 DEF Held

(* A node on top of what is open.                                          *)
LEMMA HeldAbove ==
  ASSUME NEW c, NEW s, NEW st, NEW p, Held(c, s, st, p), p \in 1 .. Len(c),
         NEW node, Opened(c[p], node), Body(node), NEW q, q = Len(c) + 1,
         \A text : Ext(text, c) => Spelled(text, node, p, q)
  PROVE  Held(c, Append(s, node), Places(st, Len(s) + 2, q), q)
<1> DEFINE u == Append(s, node)
           m == Len(s)
           su == Places(st, m + 2, q)
<1>1. IsStack(c) /\ IsStack(s) /\ Len(c) \in Nat
  BY ExtItself DEF Held
<1>2. /\ IsStack(u) /\ m \in Nat /\ Len(u) = m + 1 /\ u[m + 1] = node
      /\ \A i \in 1 .. m : u[i] = s[i]
  BY <1>1, ExtAppend DEF Ext
<1>3. /\ st[m + 1] = p
      /\ \A i \in 1 .. m : st[i] \in 1 .. Len(c) /\ Opened(c[st[i]], s[i]) /\ Body(s[i])
      /\ \A j \in 1 .. st[1] - 1 : LeavesNoTrace(c[j])
      /\ \A text : Ext(text, c) =>
           \A i \in 1 .. m : Spelled(text, s[i], st[i], st[i + 1])
  BY DEF Held
<1>4. /\ \A i \in 1 .. m + 1 : su[i] = st[i]
      /\ su[m + 2] = q /\ su[1] = st[1] /\ su[m + 1] = p
  BY <1>2, <1>3 DEF Places
<1> HIDE DEF u, su
<1>5. \A i \in 1 .. m + 1 : su[i] \in 1 .. Len(c) /\ Opened(c[su[i]], u[i]) /\ Body(u[i])
  <2>1. ASSUME NEW i \in 1 .. m
        PROVE  su[i] \in 1 .. Len(c) /\ Opened(c[su[i]], u[i]) /\ Body(u[i])
    BY <1>2, <1>3, <1>4
  <2>2. su[m + 1] \in 1 .. Len(c) /\ Opened(c[su[m + 1]], u[m + 1]) /\ Body(u[m + 1])
    BY <1>2, <1>4
  <2>3. \A i \in 1 .. m + 1 : i \in 1 .. m \/ i = m + 1
    BY <1>2
  <2> QED BY <2>1, <2>2, <2>3
<1>6. ASSUME NEW text, Ext(text, c), NEW i \in 1 .. m + 1
      PROVE  Spelled(text, u[i], su[i], su[i + 1])
  <2>1. CASE i \in 1 .. m
    <3>1. u[i] = s[i] /\ su[i] = st[i] /\ su[i + 1] = st[i + 1]
      BY <1>2, <1>4, <2>1
    <3> QED BY <1>3, <1>6, <2>1, <3>1
  <2>2. CASE i = m + 1
    <3>1. u[i] = node /\ su[i] = p /\ su[i + 1] = q
      BY <1>2, <1>4, <2>2
    <3> QED BY <1>6, <3>1
  <2> QED BY <1>2, <2>1, <2>2
<1>7. q \in 1 .. Len(c) + 1 /\ su[Len(u) + 1] = q
  BY <1>1, <1>2, <1>4
<1>8. \A j \in 1 .. su[1] - 1 : LeavesNoTrace(c[j])
  BY <1>3, <1>4
<1> HIDE DEF m
<1> QED BY <1>1, <1>2, <1>5, <1>6, <1>7, <1>8 DEF Held, u, su, m

LEMMA SetTopIsPush ==
  ASSUME NEW s, IsStack(s), s # << >>, NEW node
  PROVE  SetTop(s, node) = Append(Pop(s), node)
<1>1. PICK S : s \in Seq(S)
  BY DEF IsStack
<1>2. s \in Seq(S \cup {node}) /\ Len(s) \in Nat /\ Len(s) >= 1
  BY <1>1
<1>3. SetTop(s, node) \in Seq(S \cup {node}) /\ Append(Pop(s), node) \in Seq(S \cup {node})
  <2>1. Len(s) \in DOMAIN s /\ node \in S \cup {node}
    BY <1>2
  <2>2. [s EXCEPT ![Len(s)] = node] \in Seq(S \cup {node})
    BY <1>2, <2>1
  <2>3. Pop(s) \in Seq(S \cup {node})
    BY <1>2 DEF Pop
  <2> QED BY <2>2, <2>3 DEF SetTop
<1>4. Len(SetTop(s, node)) = Len(s) /\ Len(Append(Pop(s), node)) = Len(s)
  <2>1. Len(Pop(s)) = Len(s) - 1 /\ DOMAIN SetTop(s, node) = 1 .. Len(s) /\ IsStack(Pop(s))
    BY PopStack, SetTopStack
  <2>2. Len(Append(Pop(s), node)) = Len(Pop(s)) + 1
    BY <2>1, ExtAppend
  <2> QED BY <1>2, <1>3, <2>1, <2>2
<1>5. ASSUME NEW i \in 1 .. Len(s) PROVE SetTop(s, node)[i] = Append(Pop(s), node)[i]
  <2>1. /\ IsStack(Pop(s)) /\ Len(Pop(s)) = Len(s) - 1
        /\ \A j \in 1 .. Len(s) - 1 : Pop(s)[j] = s[j]
        /\ SetTop(s, node)[Len(s)] = node
        /\ DOMAIN s = 1 .. Len(s)
        /\ \A j \in DOMAIN s : j # Len(s) => SetTop(s, node)[j] = s[j]
    BY PopStack, SetTopStack
  <2>2. /\ \A j \in 1 .. Len(s) - 1 : Append(Pop(s), node)[j] = Pop(s)[j]
        /\ Append(Pop(s), node)[Len(s)] = node
    <3>1. DOMAIN Pop(s) = 1 .. Len(Pop(s)) /\ Len(Pop(s)) + 1 = Len(s)
      BY <1>2, <2>1, PushStack
    <3> QED BY <2>1, <3>1, PushStack
  <2>3. CASE i = Len(s)
    BY <2>1, <2>2, <2>3
  <2>4. CASE i \in 1 .. Len(s) - 1
    BY <1>2, <2>1, <2>2, <2>4
  <2>5. i = Len(s) \/ i \in 1 .. Len(s) - 1
    BY <1>2
  <2> QED BY <2>3, <2>4, <2>5
<1> QED
  <2> DEFINE a == SetTop(s, node)
             b == Append(Pop(s), node)
  <2>1. a \in Seq(S \cup {node}) /\ b \in Seq(S \cup {node}) /\ Len(a) = Len(b)
    BY <1>3, <1>4
  <2>2. \A i \in 1 .. Len(a) : a[i] = b[i]
    BY <1>4, <1>5
  <2> HIDE DEF a, b
  <2>3. a = b
    BY <2>1, <2>2
  <2> QED BY <2>3 DEF a, b

-----------------------------------------------------------------------------
(* A value given at a place.                                               *)

(* A value has been spelled at the outermost level.                        *)
Rooted(c, root) ==
  \E p \in 1 .. Len(c) :
    /\ ~LeavesNoTrace(c[p])
    /\ \A j \in 1 .. p - 1 : LeavesNoTrace(c[j])
    /\ Reading(c)[p]["value"] = Read(root, Len(c) + 1)

(* What the calls c have made of a Builder.                                *)
Made(c, root, stack) ==
  /\ IsStack(c)
  /\ root = Null => \E st : Held(c, stack, st, Len(c) + 1)
  /\ root # Null => Rooted(c, root)

(* A value is spelled from place p of c to its end.                        *)
SpelledTo(c, p, node) ==
  /\ p \in 1 .. Len(c) /\ Begins(c[p])
  /\ \A text : Ext(text, c) => Reading(text)[p]["value"] = Read(node, Len(c) + 1)
  /\ node = Null => p = Len(c) /\ LeavesNoTrace(c[p])
  /\ node # Null => ~LeavesNoTrace(c[p])

LEMMA Records ==
  /\ \A items : Array(items).items = items
  /\ \A map : Dict(map).map = map
  /\ \A k : String(k).key = k
BY DEF Array, Dict, String

LEMMA InsertIsMap ==
  ASSUME NEW map, IsMap(map), NEW key, NEW node
  PROVE  IsMap(Insert(map, key, node))
BY DEF IsMap, Insert, Assign

LEMMA ArrayGiven ==
  ASSUME NEW c, NEW s, NEW st, NEW p, Held(c, s, st, p), s # << >>, Top(s).kind = "array",
         NEW node, SpelledTo(c, p, node)
  PROVE  \E su : Held(c, SetTop(s, Array(Append(Top(s).items, node))), su, Len(c) + 1)
<1> DEFINE a == st[Len(s)]
           items == Top(s).items
           more == Array(Append(items, node))
           q == Len(c) + 1
<1>1. /\ Held(c, Pop(s), st, a) /\ a \in 1 .. Len(c)
      /\ Opened(c[a], Top(s)) /\ Body(Top(s))
      /\ \A text : Ext(text, c) => Spelled(text, Top(s), a, p)
  BY HeldBelow
<1> HIDE DEF a
<1>2. more.kind = "array" /\ more.items = Append(items, node)
  BY Records, Kinds
<1>3. IsStack(items) /\ IsStack(c) /\ IsStack(s) /\ c[a].call = "StartArray"
  BY <1>1 DEF Body, Held, Opened
<1>4. IsStack(Append(items, node))
  BY <1>3, ExtAppend
<1> HIDE DEF items, more
<1>5. Opened(c[a], more)
  BY <1>2, <1>3 DEF Opened
<1>6. Body(more)
  BY <1>2, <1>4, Zenon DEF Body, more
<1>7. ASSUME NEW text, Ext(text, c) PROVE Spelled(text, more, a, q)
  <2>1. IsStack(text) /\ p \in 1 .. Len(text) /\ Begins(text[p])
    BY <1>3, <1>7, ExtItself DEF Ext, SpelledTo, IsStack
  <2>2. Reading(text)[p]["value"] = Read(node, q)
    BY <1>7 DEF SpelledTo
  <2>3. ItemsTo(text, a + 1, items, p)
    BY <1>1, <1>7 DEF Spelled, items
  <2>4. ItemsTo(text, a + 1, Append(items, node), q)
    BY <1>3, <2>1, <2>2, <2>3, ItemGiven
  <2> QED BY <1>2, <2>4 DEF Spelled
<1>8. Held(c, Append(Pop(s), more), Places(st, Len(Pop(s)) + 2, q), q)
  BY <1>1, <1>5, <1>6, <1>7, HeldAbove
<1>9. SetTop(s, more) = Append(Pop(s), more)
  BY <1>3, SetTopIsPush
<1> QED BY <1>8, <1>9, Zenon DEF more, items

LEMMA EntryGivenAt ==
  ASSUME NEW c, NEW s, NEW st, NEW p, Held(c, s, st, p), s # << >>, IsChain(s),
         Top(s).kind = "string", NEW node, SpelledTo(c, p, node)
  PROVE  \E su : Held(c, SetTop(Pop(s), Dict(Insert(Top(Pop(s)).map, Top(s).key, node))),
                      su, Len(c) + 1)
<1> DEFINE below == Pop(s)
           k == st[Len(s)]
           a == st[Len(below)]
           map == Top(below).map
           more == Dict(Insert(map, Top(s).key, node))
           q == Len(c) + 1
<1>0. IsStack(c) /\ IsStack(s)
  BY DEF Held
<1>1. /\ Held(c, below, st, k) /\ k \in 1 .. Len(c)
      /\ Opened(c[k], Top(s))
      /\ \A text : Ext(text, c) => Spelled(text, Top(s), k, p)
  BY HeldBelow
<1>2. below # << >> /\ Top(below).kind = "dict" /\ IsStack(below)
  BY <1>0, TopOfChain, PopStack
<1> HIDE DEF below, k
<1>3. /\ Held(c, Pop(below), st, a) /\ a \in 1 .. Len(c)
      /\ Opened(c[a], Top(below)) /\ Body(Top(below))
      /\ \A text : Ext(text, c) => Spelled(text, Top(below), a, k)
  BY <1>1, <1>2, HeldBelow
<1> HIDE DEF a
<1>4. more.kind = "dict" /\ more.map = Insert(map, Top(s).key, node)
  BY Records, Kinds
<1>5. IsMap(map) /\ c[a].call = "StartDict" /\ c[k].call = "Key" /\ c[k].argument.key = Top(s).key
  BY <1>1, <1>2, <1>3 DEF Body, Opened
<1>6. IsMap(Insert(map, Top(s).key, node))
  BY <1>5, InsertIsMap
<1>7. p = k + 1
  BY <1>0, <1>1, ExtItself DEF Spelled
<1> HIDE DEF map, more
<1>8. Opened(c[a], more)
  BY <1>4, <1>5 DEF Opened
<1>9. Body(more)
  BY <1>4, <1>6, Zenon DEF Body, more
<1>10. ASSUME NEW text, Ext(text, c) PROVE Spelled(text, more, a, q)
  <2>1. IsStack(text) /\ k \in 1 .. Len(text) /\ text[k] = c[k]
    BY <1>0, <1>1, <1>10, ExtItself DEF Ext, IsStack
  <2>2. Reading(text)[k + 1]["value"] = Read(node, q)
    BY <1>7, <1>10 DEF SpelledTo
  <2>3. EntriesTo(text, a + 1, map, k)
    BY <1>2, <1>3, <1>10 DEF Spelled, map
  <2>4. EntriesTo(text, a + 1, Insert(map, text[k].argument.key, node), q)
    BY <1>5, <2>1, <2>2, <2>3, EntryGiven
  <2> QED BY <1>4, <1>5, <2>1, <2>4 DEF Spelled
<1>11. Held(c, Append(Pop(below), more), Places(st, Len(Pop(below)) + 2, q), q)
  BY <1>3, <1>8, <1>9, <1>10, HeldAbove
<1>12. SetTop(below, more) = Append(Pop(below), more)
  BY <1>2, SetTopIsPush
<1> QED BY <1>11, <1>12, Zenon DEF more, map, below

LEMMA ValueMakes ==
  ASSUME NEW c, NEW s, NEW st, NEW p, Held(c, s, st, p), IsChain(s),
         NEW node, SpelledTo(c, p, node), NEW state, state = Value(Null, s, node), state.ok
  PROVE  Made(c, state.root, state.stack)
<1>1. IsStack(c) /\ IsStack(s)
  BY DEF Held
<1>2. CASE s = << >>
  <2>1. state.root = node /\ state.stack = << >>
    BY <1>2 DEF Value, State
  <2>2. st[1] = p /\ \A j \in 1 .. p - 1 : LeavesNoTrace(c[j])
    <3>1. Len(s) + 1 = 1
      BY <1>2
    <3> QED BY <3>1 DEF Held
  <2>3. ASSUME node = Null PROVE Held(c, << >>, Places(st, 1, Len(c) + 1), Len(c) + 1)
    <3>1. Len(c) \in Nat /\ p = Len(c) /\ LeavesNoTrace(c[p])
      BY <1>1, <2>3, ExtItself DEF SpelledTo
    <3>2. Places(st, 1, Len(c) + 1)[1] = Len(c) + 1
      BY DEF Places
    <3>3. \A j \in 1 .. Len(c) : LeavesNoTrace(c[j])
      BY <2>2, <3>1
    <3>4. Len(<< >>) = 0 /\ IsStack(<< >>)
      BY <1>1, <1>2
    <3> QED BY <1>1, <3>1, <3>2, <3>3, <3>4 DEF Held
  <2>4. ASSUME node # Null PROVE Rooted(c, node)
    <3>1. Reading(c)[p]["value"] = Read(node, Len(c) + 1)
      BY <1>1, ExtItself DEF SpelledTo
    <3> QED BY <2>2, <2>4, <3>1 DEF Rooted, SpelledTo
  <2> QED BY <1>1, <2>1, <2>3, <2>4 DEF Made
<1>3. CASE s # << >> /\ Top(s).kind = "array"
  <2> DEFINE stack == SetTop(s, Array(Append(Top(s).items, node)))
  <2>1. state = State(TRUE, Null, stack)
    BY <1>3 DEF Value
  <2>2. \E su : Held(c, stack, su, Len(c) + 1)
    BY <1>3, ArrayGiven
  <2> HIDE DEF stack
  <2>3. state.root = Null /\ state.stack = stack
    BY <2>1 DEF State
  <2> QED BY <1>1, <2>2, <2>3 DEF Made
<1>4. CASE s # << >> /\ Top(s).kind = "string"
  <2> DEFINE stack == SetTop(Pop(s), Dict(Insert(Top(Pop(s)).map, Top(s).key, node)))
  <2>1. state = State(TRUE, Null, stack)
    BY <1>4 DEF Value
  <2>2. \E su : Held(c, stack, su, Len(c) + 1)
    BY <1>4, EntryGivenAt
  <2> HIDE DEF stack
  <2>3. state.root = Null /\ state.stack = stack
    BY <2>1 DEF State
  <2> QED BY <1>1, <2>2, <2>3 DEF Made
<1>5. CASE s # << >> /\ Top(s).kind \notin {"array", "string"}
  BY <1>5 DEF Value, State
<1> QED BY <1>2, <1>3, <1>4, <1>5

-----------------------------------------------------------------------------
(* Every call that does not throw makes of the stack what it spells.       *)

LEMMA ValueNeedsNull ==
  \A root, stack, node : Value(root, stack, node).ok => root = Null
BY DEF Value, State

LEMMA CallValueMakes ==
  ASSUME NEW c, NEW root, NEW s, Sound(root, s), Made(c, root, s), NEW node,
         NEW call, call = [call |-> "Value", argument |-> node],
         NEW state, state = Value(root, s, node), state.ok
  PROVE  Made(Append(c, call), state.root, state.stack)
<1> DEFINE d == Append(c, call)
           p == Len(c) + 1
<1>1. root = Null
  BY ValueNeedsNull
<1>2. PICK st : Held(c, s, st, p)
  BY <1>1 DEF Made
<1>3. /\ IsStack(d) /\ Len(c) \in Nat /\ Len(d) = Len(c) + 1 /\ d[Len(c) + 1] = call
      /\ Ext(d, c)
  BY ExtAppend DEF Made
<1> HIDE DEF d
<1>4. Held(d, s, st, p)
  BY <1>2, <1>3, HeldOn
<1>5. SpelledTo(d, p, node)
  <2>1. /\ p \in 1 .. Len(d) /\ p = Len(d) /\ d[p] = call
        /\ call.call = "Value" /\ call.argument = node
    BY <1>3
  <2>2. ASSUME NEW text, Ext(text, d) PROVE Reading(text)[p]["value"] = Read(node, Len(d) + 1)
    <3>1. IsStack(text) /\ p \in 1 .. Len(text) /\ text[p] = call
      BY <1>3, <2>1, <2>2, ExtItself DEF Ext, IsStack
    <3>2. Reading(text)[p]["value"] = ReadValue(text, Reading(text), p)
      BY <3>1, ReadsAt
    <3>3. ReadValue(text, Reading(text), p) = Read(node, p + 1)
      BY <2>1, <3>1 DEF ReadValue
    <3> QED BY <2>1, <3>2, <3>3
  <2> HIDE DEF p
  <2> QED BY <2>1, <2>2 DEF SpelledTo, Begins, LeavesNoTrace
<1> QED BY <1>1, <1>4, <1>5, ValueMakes DEF Sound, d

LEMMA StartMakes ==
  ASSUME NEW c, NEW root, NEW s, Sound(root, s), Made(c, root, s), NEW container, NEW call,
         \/ call.call = "StartArray" /\ container = Array(<< >>)
         \/ call.call = "StartDict" /\ container = Dict(<< >>),
         NEW state, state = Start(root, s, container), state.ok
  PROVE  Made(Append(c, call), state.root, state.stack)
<1> DEFINE d == Append(c, call)
           p == Len(c) + 1
<1>1. root = Null /\ state.root = Null /\ state.stack = Append(s, container)
  BY DEF Start, State
<1>2. PICK st : Held(c, s, st, p)
  BY <1>1 DEF Made
<1>3. /\ IsStack(d) /\ Len(c) \in Nat /\ Len(d) = Len(c) + 1 /\ d[Len(c) + 1] = call
      /\ Ext(d, c)
  BY ExtAppend DEF Made
<1> HIDE DEF d
<1>4. Held(d, s, st, p)
  BY <1>2, <1>3, HeldOn
<1>5. Opened(d[p], container) /\ Body(container)
  <2>1. IsStack(<< >>)
    BY EmptyIsSound DEF Sound
  <2>2. CASE call.call = "StartArray" /\ container = Array(<< >>)
    <3>1. container.kind = "array" /\ container.items = << >>
      BY <2>2, Kinds, Records
    <3> QED BY <1>3, <2>1, <2>2, <3>1 DEF Opened, Body
  <2>3. CASE call.call = "StartDict" /\ container = Dict(<< >>)
    <3>1. container.kind = "dict" /\ container.map = << >>
      BY <2>3, Kinds, Records
    <3> QED BY <1>3, <2>3, <3>1, EmptyIsMap DEF Opened, Body
  <2> QED BY <2>2, <2>3
<1>6. ASSUME NEW text, Ext(text, d) PROVE Spelled(text, container, p, p + 1)
  <2>1. IsStack(text) /\ p + 1 \in 1 .. Len(text) + 1
    BY <1>3, <1>6, ExtItself DEF Ext, IsStack
  <2>2. IsStack(Reading(text)[p + 1]["items"].node) /\ IsMap(Reading(text)[p + 1]["entries"].node)
    BY <2>1, ReadsAt
  <2>3. CASE container = Array(<< >>)
    <3>1. container.kind = "array" /\ container.items = << >>
      BY <2>3, Kinds, Records
    <3>2. << >> \o Reading(text)[p + 1]["items"].node = Reading(text)[p + 1]["items"].node
      BY <2>2, Joined
    <3>3. ItemsTo(text, p + 1, << >>, p + 1)
      BY <3>2 DEF ItemsTo
    <3> QED BY <3>1, <3>3 DEF Spelled
  <2>4. CASE container = Dict(<< >>)
    <3>1. container.kind = "dict" /\ container.map = << >>
      BY <2>4, Kinds, Records
    <3>2. Over(<< >>, Reading(text)[p + 1]["entries"].node) = Reading(text)[p + 1]["entries"].node
      <4> DEFINE rest == Reading(text)[p + 1]["entries"].node
      <4>1. IsMap(rest)
        BY <2>2
      <4> HIDE DEF rest
      <4>2. Over(<< >>, rest) = rest
        BY <4>1 DEF Over, IsMap
      <4> QED BY <4>2 DEF rest
    <3>3. EntriesTo(text, p + 1, << >>, p + 1)
      BY <3>2 DEF EntriesTo
    <3> QED BY <3>1, <3>3 DEF Spelled
  <2> QED BY <2>3, <2>4
<1>7. p \in 1 .. Len(d) /\ p + 1 = Len(d) + 1
  BY <1>3
<1> HIDE DEF p
<1>8. Held(d, Append(s, container), Places(st, Len(s) + 2, p + 1), p + 1)
  BY <1>4, <1>5, <1>6, <1>7, HeldAbove
<1> QED BY <1>1, <1>3, <1>7, <1>8 DEF Made, d

LEMMA KeyMakes ==
  ASSUME NEW c, NEW root, NEW s, Sound(root, s), Made(c, root, s), NEW key,
         NEW call, call = [call |-> "Key", argument |-> String(key)],
         NEW state, state = Key(root, s, key), state.ok
  PROVE  Made(Append(c, call), state.root, state.stack)
<1> DEFINE d == Append(c, call)
           p == Len(c) + 1
           node == String(key)
<1>1. root = Null /\ state.root = Null /\ state.stack = Append(s, node)
  BY DEF Key, State
<1>2. PICK st : Held(c, s, st, p)
  BY <1>1 DEF Made
<1>3. /\ IsStack(d) /\ Len(c) \in Nat /\ Len(d) = Len(c) + 1 /\ d[Len(c) + 1] = call
      /\ Ext(d, c)
  BY ExtAppend DEF Made
<1>4. node.kind = "string" /\ call.call = "Key" /\ call.argument = node
  BY Kinds
<1> HIDE DEF d, node
<1>5. Held(d, s, st, p)
  BY <1>2, <1>3, HeldOn
<1>6. Opened(d[p], node) /\ Body(node)
  BY <1>3, <1>4 DEF Opened, Body
<1>7. \A text : Ext(text, d) => Spelled(text, node, p, p + 1)
  BY <1>4 DEF Spelled
<1>8. p \in 1 .. Len(d) /\ p + 1 = Len(d) + 1
  BY <1>3
<1> HIDE DEF p
<1>9. Held(d, Append(s, node), Places(st, Len(s) + 2, p + 1), p + 1)
  BY <1>5, <1>6, <1>7, <1>8, HeldAbove
<1> QED BY <1>1, <1>3, <1>8, <1>9 DEF Made, d

(* Ending a container is giving it as a value where it was started.        *)
LEMMA EndIsValue ==
  ASSUME NEW root, NEW s, Sound(root, s), NEW kind, NEW state, state = End(root, s, kind), state.ok
  PROVE  /\ root = Null /\ s # << >> /\ Top(s).kind = kind
         /\ kind \in {"array", "dict"} => state = Value(Null, Pop(s), Top(s))
<1>1. s # << >> /\ Top(s).kind = kind
  BY DEF End, State
<1>2. root = Null /\ IsStack(s)
  BY <1>1 DEF Sound
<1>3. ASSUME kind \in {"array", "dict"} PROVE state = Value(Null, Pop(s), Top(s))
  <2>1. CASE Len(s) = 1
    <3>1. Pop(s) = << >>
      <4>0. IsStack(Pop(s)) /\ Len(Pop(s)) = Len(s) - 1
        BY <1>1, <1>2, PopStack
      <4>1. IsStack(Pop(s)) /\ Len(Pop(s)) = 0
        BY <2>1, <4>0
      <4>2. PICK S : Pop(s) \in Seq(S)
        BY <4>1 DEF IsStack
      <4> QED BY <4>1, <4>2
    <3> QED BY <1>1, <1>2, <2>1, <3>1 DEF End, Value
  <2>2. CASE Len(s) # 1
    BY <1>1, <1>2, <2>2 DEF End
  <2> QED BY <2>1, <2>2
<1> QED BY <1>1, <1>2, <1>3

LEMMA EndMakes ==
  ASSUME NEW c, NEW root, NEW s, Sound(root, s), Made(c, root, s), NEW kind, NEW call,
         \/ call.call = "EndArray" /\ kind = "array"
         \/ call.call = "EndDict" /\ kind = "dict",
         NEW state, state = End(root, s, kind), state.ok
  PROVE  Made(Append(c, call), state.root, state.stack)
<1> DEFINE d == Append(c, call)
           p == Len(c) + 1
           node == Top(s)
<1>1. /\ root = Null /\ s # << >> /\ node.kind = kind
      /\ state = Value(Null, Pop(s), node)
      /\ IsChain(Pop(s))
  BY EndIsValue, ChainPop DEF Sound
<1>2. PICK st : Held(c, s, st, p)
  BY <1>1 DEF Made
<1>3. /\ IsStack(d) /\ Len(c) \in Nat /\ Len(d) = Len(c) + 1 /\ d[Len(c) + 1] = call
      /\ Ext(d, c)
  BY ExtAppend DEF Made
<1> DEFINE a == st[Len(s)]
<1> HIDE DEF d, p
<1>4. Held(d, s, st, p)
  BY <1>2, <1>3, HeldOn
<1>5. /\ Held(d, Pop(s), st, a) /\ a \in 1 .. Len(d)
      /\ Opened(d[a], node) /\ Body(node)
      /\ \A text : Ext(text, d) => Spelled(text, node, a, p)
  BY <1>1, <1>4, HeldBelow
<1> HIDE DEF a
<1>6. p \in 1 .. Len(d) /\ p + 1 = Len(d) + 1 /\ d[p] = call
  BY <1>3 DEF p
<1>7. ASSUME NEW text, Ext(text, d) PROVE Reading(text)[a]["value"] = Read(node, p + 1)
  <2>1. /\ IsStack(text) /\ a \in 1 .. Len(text) /\ p \in 1 .. Len(text)
        /\ text[a] = d[a] /\ text[p] = call
    BY <1>3, <1>5, <1>6, <1>7 DEF Ext, IsStack
  <2>2. Spelled(text, node, a, p)
    BY <1>5, <1>7
  <2>3. CASE node.kind = "array"
    <3>1. /\ text[a].call = "StartArray" /\ text[p].call = "EndArray"
          /\ IsStack(node.items) /\ node = Array(node.items)
          /\ ItemsTo(text, a + 1, node.items, p)
      BY <1>1, <1>5, <2>1, <2>2, <2>3 DEF Opened, Body, Spelled
    <3>2. Reading(text)[a]["value"] = Read(Array(node.items), p + 1)
      <4> HIDE DEF node
      <4> QED BY <2>1, <3>1, ArrayEnds
    <3> QED BY <3>1, <3>2, Zenon
  <2>4. CASE node.kind = "dict"
    <3>1. /\ text[a].call = "StartDict" /\ text[p].call = "EndDict"
          /\ IsMap(node.map) /\ node = Dict(node.map)
          /\ EntriesTo(text, a + 1, node.map, p)
      BY <1>1, <1>5, <2>1, <2>2, <2>4 DEF Opened, Body, Spelled
    <3>2. Reading(text)[a]["value"] = Read(Dict(node.map), p + 1)
      <4> HIDE DEF node
      <4> QED BY <2>1, <3>1, DictEnds
    <3> QED BY <3>1, <3>2, Zenon
  <2> QED BY <1>1, <2>3, <2>4
<1>8. node # Null /\ d[a].call \in {"StartArray", "StartDict"}
  BY <1>1, <1>5, Kinds DEF Opened
<1> HIDE DEF node
<1>9. SpelledTo(d, a, node)
  BY <1>5, <1>6, <1>7, <1>8 DEF SpelledTo, Begins, LeavesNoTrace
<1> QED BY <1>1, <1>5, <1>9, ValueMakes DEF d

-----------------------------------------------------------------------------
(* The numbers of calls and of open containers.                            *)

OfCall(c, name) == Cardinality({i \in DOMAIN c : c[i].call = name})
OfKind(s, kind) == Cardinality({i \in DOMAIN s : s[i].kind = kind})

LEMMA OneMore ==
  ASSUME NEW n \in Nat, NEW A, A \subseteq 1 .. n
  PROVE  Cardinality(A) \in Nat /\ Cardinality(A \cup {n + 1}) = Cardinality(A) + 1
<1>1. IsFiniteSet(1 .. n)
  BY FS_Interval
<1>2. IsFiniteSet(A)
  BY <1>1, FS_Subset
<1>3. n + 1 \notin A
  OBVIOUS
<1> QED BY <1>2, <1>3, FS_CardinalityType, FS_AddElement

LEMMA CallsAppended ==
  ASSUME NEW c, IsStack(c), NEW call, NEW name
  PROVE  /\ OfCall(c, name) \in Nat
         /\ call.call = name => OfCall(Append(c, call), name) = OfCall(c, name) + 1
         /\ call.call # name => OfCall(Append(c, call), name) = OfCall(c, name)
<1> DEFINE d == Append(c, call)
           A == {i \in DOMAIN c : c[i].call = name}
           B == {i \in DOMAIN d : d[i].call = name}
<1>1. /\ Len(c) \in Nat /\ DOMAIN c = 1 .. Len(c) /\ DOMAIN d = 1 .. Len(c) + 1
      /\ d[Len(c) + 1] = call
      /\ \A i \in DOMAIN c : d[i] = c[i]
  BY PushStack
<1> HIDE DEF d
<1>2. /\ A \subseteq 1 .. Len(c)
      /\ call.call = name => B = A \cup {Len(c) + 1}
      /\ call.call # name => B = A
  BY <1>1
<1> HIDE DEF A, B
<1> QED BY <1>1, <1>2, OneMore DEF OfCall, A, B, d

LEMMA KindsAppended ==
  ASSUME NEW s, IsStack(s), NEW node, NEW kind
  PROVE  /\ OfKind(s, kind) \in Nat
         /\ node.kind = kind => OfKind(Append(s, node), kind) = OfKind(s, kind) + 1
         /\ node.kind # kind => OfKind(Append(s, node), kind) = OfKind(s, kind)
<1> DEFINE d == Append(s, node)
           A == {i \in DOMAIN s : s[i].kind = kind}
           B == {i \in DOMAIN d : d[i].kind = kind}
<1>1. /\ Len(s) \in Nat /\ DOMAIN s = 1 .. Len(s) /\ DOMAIN d = 1 .. Len(s) + 1
      /\ d[Len(s) + 1] = node
      /\ \A i \in DOMAIN s : d[i] = s[i]
  BY PushStack
<1> HIDE DEF d
<1>2. /\ A \subseteq 1 .. Len(s)
      /\ node.kind = kind => B = A \cup {Len(s) + 1}
      /\ node.kind # kind => B = A
  BY <1>1
<1> HIDE DEF A, B
<1> QED BY <1>1, <1>2, OneMore DEF OfKind, A, B, d

(* Popping takes one node of its kind; replacing the top by a node of its  *)
(* kind takes none.                                                        *)
LEMMA KindsBelow ==
  ASSUME NEW s, IsStack(s), s # << >>, NEW kind
  PROVE  /\ OfKind(Pop(s), kind) \in Nat
         /\ Top(s).kind = kind => OfKind(s, kind) = OfKind(Pop(s), kind) + 1
         /\ Top(s).kind # kind => OfKind(s, kind) = OfKind(Pop(s), kind)
         /\ \A node : node.kind = Top(s).kind => OfKind(SetTop(s, node), kind) = OfKind(s, kind)
<1>1. IsStack(Pop(s))
  BY PopStack
<1>2. s = Append(Pop(s), Top(s))
  <2>1. SetTop(s, Top(s)) = s
    BY DEF SetTop, Top, IsStack
  <2> QED BY <2>1, SetTopIsPush
<1>3. /\ OfKind(Pop(s), kind) \in Nat
      /\ Top(s).kind = kind => OfKind(s, kind) = OfKind(Pop(s), kind) + 1
      /\ Top(s).kind # kind => OfKind(s, kind) = OfKind(Pop(s), kind)
  <2> DEFINE below == Pop(s)
             top == Top(s)
             again == Append(below, top)
  <2>1. IsStack(below)
    BY <1>1
  <2> HIDE DEF below, top
  <2>2. /\ OfKind(below, kind) \in Nat
        /\ top.kind = kind => OfKind(again, kind) = OfKind(below, kind) + 1
        /\ top.kind # kind => OfKind(again, kind) = OfKind(below, kind)
    BY <2>1, KindsAppended
  <2>3. s = again
    BY <1>2 DEF below, top
  <2> HIDE DEF again
  <2>4. /\ OfKind(below, kind) \in Nat
        /\ top.kind = kind => OfKind(s, kind) = OfKind(below, kind) + 1
        /\ top.kind # kind => OfKind(s, kind) = OfKind(below, kind)
    BY <2>2, <2>3
  <2> QED BY <2>4 DEF below, top
<1>4. ASSUME NEW node, node.kind = Top(s).kind
      PROVE  OfKind(SetTop(s, node), kind) = OfKind(s, kind)
  <2>1. SetTop(s, node) = Append(Pop(s), node)
    BY SetTopIsPush
  <2>2. /\ node.kind = kind => OfKind(Append(Pop(s), node), kind) = OfKind(Pop(s), kind) + 1
        /\ node.kind # kind => OfKind(Append(Pop(s), node), kind) = OfKind(Pop(s), kind)
    BY <1>1, KindsAppended
  <2> QED BY <1>3, <1>4, <2>1, <2>2
<1> QED BY <1>3, <1>4

LEMMA ValueOpensNothing ==
  ASSUME NEW root, NEW s, Sound(root, s), NEW node,
         NEW state, state = Value(root, s, node), state.ok,
         NEW kind \in {"array", "dict"}
  PROVE  OfKind(state.stack, kind) = OfKind(s, kind)
<1>1. root = Null /\ IsStack(s) /\ IsChain(s)
  BY ValueNeedsNull DEF Sound
<1>2. CASE s = << >>
  BY <1>1, <1>2 DEF Value, State
<1>3. CASE s # << >> /\ Top(s).kind = "array"
  <2> DEFINE more == Array(Append(Top(s).items, node))
  <2>1. state.stack = SetTop(s, more)
    BY <1>1, <1>3 DEF Value, State
  <2>2. more.kind = Top(s).kind
    BY <1>3, Kinds
  <2> HIDE DEF more
  <2> QED BY <1>1, <1>3, <2>1, <2>2, KindsBelow
<1>4. CASE s # << >> /\ Top(s).kind = "string"
  <2> DEFINE more == Dict(Insert(Top(Pop(s)).map, Top(s).key, node))
             below == Pop(s)
  <2>1. state.stack = SetTop(below, more)
    BY <1>1, <1>4 DEF Value, State
  <2>2. more.kind = "dict"
    BY Kinds
  <2> HIDE DEF more, below
  <2>3. below # << >> /\ Top(below).kind = "dict" /\ IsStack(below)
    BY <1>1, <1>4, TopOfChain, PopStack DEF below
  <2>4. OfKind(below, kind) = OfKind(s, kind)
    BY <1>1, <1>4, KindsBelow DEF below
  <2>5. OfKind(SetTop(below, more), kind) = OfKind(below, kind)
    BY <2>2, <2>3, KindsBelow
  <2> QED BY <2>1, <2>4, <2>5
<1>5. CASE s # << >> /\ Top(s).kind \notin {"array", "string"}
  BY <1>1, <1>5 DEF Value, State
<1> QED BY <1>2, <1>3, <1>4, <1>5

Balanced(c, s) ==
  /\ OfCall(c, "StartArray") = OfCall(c, "EndArray") + OfKind(s, "array")
  /\ OfCall(c, "StartDict") = OfCall(c, "EndDict") + OfKind(s, "dict")

(* What a call does to the numbers.                                        *)
LEMMA Balances ==
  ASSUME NEW c, IsStack(c), NEW s, IsStack(s), Balanced(c, s), NEW call, NEW u,
         /\ call.call = "StartArray" => OfKind(u, "array") = OfKind(s, "array") + 1
         /\ call.call = "StartDict" => OfKind(u, "dict") = OfKind(s, "dict") + 1
         /\ call.call = "EndArray" => OfKind(s, "array") = OfKind(u, "array") + 1
         /\ call.call = "EndDict" => OfKind(s, "dict") = OfKind(u, "dict") + 1
         /\ call.call \notin {"StartArray", "EndArray"} => OfKind(u, "array") = OfKind(s, "array")
         /\ call.call \notin {"StartDict", "EndDict"} => OfKind(u, "dict") = OfKind(s, "dict"),
         OfKind(u, "array") \in Nat /\ OfKind(u, "dict") \in Nat
  PROVE  Balanced(Append(c, call), u)
<1> DEFINE More(name) == OfCall(Append(c, call), name)
<1>1. \A name \in {"StartArray", "EndArray", "StartDict", "EndDict"} :
        /\ OfCall(c, name) \in Nat
        /\ call.call = name => More(name) = OfCall(c, name) + 1
        /\ call.call # name => More(name) = OfCall(c, name)
  BY CallsAppended
<1>2. OfKind(s, "array") \in Nat /\ OfKind(s, "dict") \in Nat
  BY KindsAppended
<1> HIDE DEF More
<1>3. More("StartArray") = More("EndArray") + OfKind(u, "array")
  <2>1. OfCall(c, "StartArray") = OfCall(c, "EndArray") + OfKind(s, "array")
    BY DEF Balanced
  <2>2. CASE call.call = "StartArray"
    BY <1>1, <1>2, <2>1, <2>2
  <2>3. CASE call.call = "EndArray"
    BY <1>1, <1>2, <2>1, <2>3
  <2>4. CASE call.call \notin {"StartArray", "EndArray"}
    BY <1>1, <1>2, <2>1, <2>4
  <2> QED BY <2>2, <2>3, <2>4
<1>4. More("StartDict") = More("EndDict") + OfKind(u, "dict")
  <2>1. OfCall(c, "StartDict") = OfCall(c, "EndDict") + OfKind(s, "dict")
    BY DEF Balanced
  <2>2. CASE call.call = "StartDict"
    BY <1>1, <1>2, <2>1, <2>2
  <2>3. CASE call.call = "EndDict"
    BY <1>1, <1>2, <2>1, <2>3
  <2>4. CASE call.call \notin {"StartDict", "EndDict"}
    BY <1>1, <1>2, <2>1, <2>4
  <2> QED BY <2>2, <2>3, <2>4
<1> QED BY <1>3, <1>4 DEF Balanced, More

-----------------------------------------------------------------------------
BuiltInv ==
  /\ IInv
  /\ Made(calls, root_, nodes_stack_)
  /\ Balanced(calls, nodes_stack_)

LEMMA InitBuilt == Init => BuiltInv
<1> SUFFICES ASSUME Init PROVE BuiltInv
  OBVIOUS
<1>1. root_ = Null /\ nodes_stack_ = << >> /\ calls = << >> /\ IInv
  BY InitSound DEF Init
<1>2. IsStack(<< >>)
  BY EmptyIsSound DEF Sound
<1>3. Made(calls, root_, nodes_stack_)
  <2> DEFINE st == [i \in 1 .. 1 |-> 1]
  <2>1. Held(<< >>, << >>, st, Len(<< >>) + 1)
    BY <1>2 DEF Held
  <2> QED BY <1>1, <1>2, <2>1 DEF Made
<1>4. Balanced(calls, nodes_stack_)
  <2>1. ASSUME NEW name PROVE OfCall(<< >>, name) = 0 /\ OfKind(<< >>, name) = 0
    <3>1. /\ {i \in DOMAIN << >> : << >>[i].call = name} = {}
          /\ {i \in DOMAIN << >> : << >>[i].kind = name} = {}
      OBVIOUS
    <3> QED BY <3>1, FS_EmptySet DEF OfCall, OfKind
  <2> QED BY <1>1, <2>1 DEF Balanced
<1> QED BY <1>1, <1>3, <1>4 DEF BuiltInv

(* The calls that throw leave root, stack and calls as they were.          *)
LEMMA CallBuilds ==
  ASSUME BuiltInv, NEW name, NEW argument, NEW state, Keeps(root_, nodes_stack_, state),
         Call(name, argument, state),
         NEW call, call = [call |-> name, argument |-> argument],
         state.ok => /\ Made(Append(calls, call), state.root, state.stack)
                     /\ Balanced(Append(calls, call), state.stack)
  PROVE  BuiltInv'
<1>1. IInv'
  BY CallKeeps DEF BuiltInv
<1>2. root_' = state.root /\ nodes_stack_' = state.stack
  BY DEF Call
<1>3. CASE state.ok
  <2>1. calls' = Append(calls, call)
    BY <1>3 DEF Call
  <2> QED BY <1>1, <1>2, <1>3, <2>1 DEF BuiltInv
<1>4. CASE ~state.ok
  <2>1. calls' = calls
    BY <1>4 DEF Call
  <2>2. root_' = root_ /\ nodes_stack_' = nodes_stack_
    BY <1>2, <1>4 DEF Keeps
  <2> QED BY <1>1, <2>1, <2>2 DEF BuiltInv
<1> QED BY <1>3, <1>4

LEMMA CallValueBuilds ==
  ASSUME BuiltInv, NEW node, CallValue(node)
  PROVE  BuiltInv'
<1> DEFINE state == Value(root_, nodes_stack_, node)
           call == [call |-> "Value", argument |-> node]
<1>1. /\ Sound(root_, nodes_stack_) /\ Made(calls, root_, nodes_stack_)
      /\ Balanced(calls, nodes_stack_)
      /\ IsStack(calls) /\ IsStack(nodes_stack_)
  BY DEF BuiltInv, IInv, Made, Sound
<1>2. Keeps(root_, nodes_stack_, state) /\ Call("Value", node, state)
  BY <1>1, ValueKeeps DEF CallValue
<1>3. call.call = "Value"
  OBVIOUS
<1> HIDE DEF state
<1>4. ASSUME state.ok PROVE Made(Append(calls, call), state.root, state.stack)
  BY <1>1, <1>4, CallValueMakes DEF state
<1>5. ASSUME state.ok PROVE Balanced(Append(calls, call), state.stack)
  <2>1. \A kind \in {"array", "dict"} :
          /\ OfKind(state.stack, kind) = OfKind(nodes_stack_, kind)
          /\ OfKind(nodes_stack_, kind) \in Nat
    BY <1>1, <1>5, ValueOpensNothing, KindsAppended DEF state
  <2> HIDE DEF call
  <2> QED BY <1>1, <1>3, <2>1, Balances
<1> QED BY <1>2, <1>4, <1>5, CallBuilds

LEMMA CallKeyBuilds ==
  ASSUME BuiltInv, NEW key, CallKey(key)
  PROVE  BuiltInv'
<1> DEFINE state == Key(root_, nodes_stack_, key)
           call == [call |-> "Key", argument |-> String(key)]
<1>1. /\ Sound(root_, nodes_stack_) /\ Made(calls, root_, nodes_stack_)
      /\ Balanced(calls, nodes_stack_)
      /\ IsStack(calls) /\ IsStack(nodes_stack_)
  BY DEF BuiltInv, IInv, Made, Sound
<1>2. Keeps(root_, nodes_stack_, state) /\ Call("Key", String(key), state)
  BY <1>1, KeyKeeps DEF CallKey
<1>3. call.call = "Key"
  OBVIOUS
<1>4. state.ok => state.stack = Append(nodes_stack_, String(key))
  BY DEF Key, State
<1> HIDE DEF state
<1>5. ASSUME state.ok PROVE Made(Append(calls, call), state.root, state.stack)
  BY <1>1, <1>5, KeyMakes DEF state
<1>6. ASSUME state.ok PROVE Balanced(Append(calls, call), state.stack)
  <2>1. \A kind \in {"array", "dict"} :
          /\ OfKind(state.stack, kind) = OfKind(nodes_stack_, kind)
          /\ OfKind(nodes_stack_, kind) \in Nat
    <3> DEFINE node == String(key)
    <3>1. node.kind = "string"
      BY Kinds
    <3>2. state.stack = Append(nodes_stack_, node)
      BY <1>4, <1>6
    <3> HIDE DEF node
    <3>3. ASSUME NEW kind \in {"array", "dict"}
          PROVE  /\ OfKind(Append(nodes_stack_, node), kind) = OfKind(nodes_stack_, kind)
                 /\ OfKind(nodes_stack_, kind) \in Nat
      BY <1>1, <3>1, KindsAppended
    <3> QED BY <3>2, <3>3
  <2> HIDE DEF call
  <2> QED BY <1>1, <1>3, <2>1, Balances
<1> QED BY <1>2, <1>5, <1>6, CallBuilds

LEMMA StartBuilds ==
  ASSUME BuiltInv, NEW name, NEW container,
         \/ name = "StartArray" /\ container = Array(<< >>)
         \/ name = "StartDict" /\ container = Dict(<< >>),
         Call(name, Null, Start(root_, nodes_stack_, container))
  PROVE  BuiltInv'
<1> DEFINE state == Start(root_, nodes_stack_, container)
           call == [call |-> name, argument |-> Null]
<1>1. /\ Sound(root_, nodes_stack_) /\ Made(calls, root_, nodes_stack_)
      /\ Balanced(calls, nodes_stack_)
      /\ IsStack(calls) /\ IsStack(nodes_stack_)
  BY DEF BuiltInv, IInv, Made, Sound
<1>2. /\ name = "StartArray" => container.kind = "array"
      /\ name = "StartDict" => container.kind = "dict"
      /\ name \in {"StartArray", "StartDict"}
      /\ container.kind \in {"array", "dict"}
  BY Kinds
<1>3. Keeps(root_, nodes_stack_, state)
  BY <1>1, <1>2, StartKeeps
<1>4. call.call = name
  OBVIOUS
<1>5. state.ok => state.stack = Append(nodes_stack_, container)
  BY DEF Start, State
<1> HIDE DEF state
<1>6. ASSUME state.ok PROVE Made(Append(calls, call), state.root, state.stack)
  BY <1>1, <1>4, <1>6, StartMakes DEF state
<1>7. ASSUME state.ok PROVE Balanced(Append(calls, call), state.stack)
  <2>1. \A kind \in {"array", "dict"} :
          /\ OfKind(nodes_stack_, kind) \in Nat
          /\ container.kind = kind => OfKind(state.stack, kind) = OfKind(nodes_stack_, kind) + 1
          /\ container.kind # kind => OfKind(state.stack, kind) = OfKind(nodes_stack_, kind)
    <3>1. state.stack = Append(nodes_stack_, container)
      BY <1>5, <1>7
    <3>2. ASSUME NEW kind \in {"array", "dict"}
          PROVE  LET more == OfKind(Append(nodes_stack_, container), kind) IN
                 /\ OfKind(nodes_stack_, kind) \in Nat
                 /\ container.kind = kind => more = OfKind(nodes_stack_, kind) + 1
                 /\ container.kind # kind => more = OfKind(nodes_stack_, kind)
      BY <1>1, KindsAppended
    <3> QED BY <3>1, <3>2
  <2> HIDE DEF call
  <2> QED BY <1>1, <1>2, <1>4, <2>1, Balances
<1> QED BY <1>3, <1>6, <1>7, CallBuilds DEF state

LEMMA EndBuilds ==
  ASSUME BuiltInv, NEW name, NEW kind,
         \/ name = "EndArray" /\ kind = "array"
         \/ name = "EndDict" /\ kind = "dict",
         Call(name, Null, End(root_, nodes_stack_, kind))
  PROVE  BuiltInv'
<1> DEFINE state == End(root_, nodes_stack_, kind)
           call == [call |-> name, argument |-> Null]
<1>1. /\ Sound(root_, nodes_stack_) /\ Made(calls, root_, nodes_stack_)
      /\ Balanced(calls, nodes_stack_)
      /\ IsStack(calls) /\ IsStack(nodes_stack_)
  BY DEF BuiltInv, IInv, Made, Sound
<1>2. kind \in {"array", "dict"}
  OBVIOUS
<1>3. Keeps(root_, nodes_stack_, state)
  BY <1>1, <1>2, EndKeeps
<1>4. call.call = name
  OBVIOUS
<1> HIDE DEF state
<1>5. ASSUME state.ok PROVE Made(Append(calls, call), state.root, state.stack)
  BY <1>1, <1>4, <1>5, EndMakes DEF state
<1>6. ASSUME state.ok PROVE Balanced(Append(calls, call), state.stack)
  <2> DEFINE below == Pop(nodes_stack_)
  <2>1. /\ nodes_stack_ # << >> /\ Top(nodes_stack_).kind = kind
        /\ state = Value(Null, below, Top(nodes_stack_))
    BY <1>1, <1>2, <1>6, EndIsValue DEF state
  <2>2. Sound(Null, below)
    BY <1>1, <2>1, PopStack, ChainPop DEF Sound
  <2>3. \A k \in {"array", "dict"} :
          /\ OfKind(below, k) \in Nat
          /\ kind = k => OfKind(nodes_stack_, k) = OfKind(below, k) + 1
          /\ kind # k => OfKind(nodes_stack_, k) = OfKind(below, k)
    BY <1>1, <2>1, KindsBelow
  <2> HIDE DEF below
  <2>4. \A k \in {"array", "dict"} : OfKind(state.stack, k) = OfKind(below, k)
    BY <1>6, <2>1, <2>2, ValueOpensNothing
  <2> HIDE DEF call
  <2> QED BY <1>1, <1>4, <2>3, <2>4, Balances
<1> QED BY <1>3, <1>5, <1>6, CallBuilds DEF state

LEMMA NextBuilt ==
  ASSUME BuiltInv, [Next]_vars
  PROVE  BuiltInv'
<1>1. CASE Next
  <2>1. ASSUME NEW node \in Leaves, CallValue(node) PROVE BuiltInv'
    BY <2>1, CallValueBuilds
  <2>2. ASSUME NEW key \in Keys, CallKey(key) PROVE BuiltInv'
    BY <2>2, CallKeyBuilds
  <2>3. CASE StartArray
    BY <2>3, StartBuilds DEF StartArray
  <2>4. CASE StartDict
    BY <2>4, StartBuilds DEF StartDict
  <2>5. CASE EndArray
    BY <2>5, EndBuilds DEF EndArray
  <2>6. CASE EndDict
    BY <2>6, EndBuilds DEF EndDict
  <2> QED BY <1>1, <2>1, <2>2, <2>3, <2>4, <2>5, <2>6 DEF Next
<1>2. CASE UNCHANGED vars
  BY <1>2 DEF vars, BuiltInv, IInv
<1> QED BY <1>1, <1>2

LEMMA BuiltAlways == Spec => []BuiltInv
BY InitBuilt, NextBuilt, PTL DEF Spec

(* BuiltIsWhatWasCalled: whatever calls were made, in any order and of any *)
(* number, a Builder that can be built from gives the value that the calls *)
(* it accepted spell, up to the last of them.                              *)
THEOREM BuilderBuildsWhatWasCalled == Spec => []BuiltIsWhatWasCalled
<1>1. ASSUME BuiltInv PROVE BuiltIsWhatWasCalled
  <2> SUFFICES ASSUME CanBuild
               PROVE  Reading(calls)[FirstTraced]["value"] = Read(root_, Len(calls) + 1)
    BY DEF BuiltIsWhatWasCalled
  <2> DEFINE First(i) == ~LeavesNoTrace(calls[i]) /\ \A j \in 1 .. i - 1 : LeavesNoTrace(calls[j])
  <2>1. Len(calls) \in Nat /\ DOMAIN calls = 1 .. Len(calls) /\ Rooted(calls, root_)
    BY <1>1, PushStack DEF BuiltInv, Made, CanBuild
  <2>2. PICK p \in 1 .. Len(calls) :
          First(p) /\ Reading(calls)[p]["value"] = Read(root_, Len(calls) + 1)
    BY <2>1 DEF Rooted
  <2>3. \A i \in DOMAIN calls : First(i) => i = p
    <3>1. ASSUME NEW i \in 1 .. Len(calls), First(i), i # p PROVE FALSE
      <4>1. CASE i < p
        <5>1. i \in 1 .. p - 1
          BY <2>1, <4>1
        <5> QED BY <2>2, <3>1, <5>1
      <4>2. CASE i > p
        <5>1. p \in 1 .. i - 1
          BY <2>1, <4>2
        <5> QED BY <2>2, <3>1, <5>1
      <4> QED BY <2>1, <3>1, <4>1, <4>2
    <3> QED BY <2>1, <3>1
  <2>4. FirstTraced = CHOOSE i \in DOMAIN calls : First(i)
    BY DEF FirstTraced
  <2> HIDE DEF First
  <2>5. FirstTraced = p
    BY <2>1, <2>2, <2>3, <2>4
  <2> QED BY <2>2, <2>5
<1> QED BY <1>1, BuiltAlways, PTL

(* NothingDropped: the stack has a container for each one started and not  *)
(* yet ended, whatever calls threw in between.                             *)
THEOREM BuilderDropsNothing == Spec => []NothingDropped
<1>1. BuiltInv => NothingDropped
  BY DEF BuiltInv, Balanced, NothingDropped, CallsOf, OpenOf, OfCall, OfKind
<1> QED BY <1>1, BuiltAlways, PTL

=============================================================================
