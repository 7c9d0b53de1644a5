-------------------------------- MODULE Maps --------------------------------
(***************************************************************************)
(* std::map and std::unordered_map, as functions on the keys they hold.    *)
(***************************************************************************)
EXTENDS Naturals, Sequences, FiniteSets

(* The elements of a sequence.                                             *)
Elements(s) == {s[i] : i \in DOMAIN s}

IsSequence(s) == s \in Seq(Elements(s))

(* The elements of a std::set of numbers, as it is gone through.           *)
InOrder(S) ==
  CHOOSE s \in [1 .. Cardinality(S) -> S] : \A i, j \in DOMAIN s : i < j => s[i] < s[j]

(* map[key] = value.                                                       *)
Assign(map, key, value) ==
  [k \in (DOMAIN map) \cup {key} |-> IF k = key THEN value ELSE map[k]]

(* map.insert({key, value}), map.emplace(key, value): nothing changes when *)
(* the key is there.                                                       *)
Insert(map, key, value) ==
  IF key \in DOMAIN map THEN map ELSE Assign(map, key, value)
=============================================================================
