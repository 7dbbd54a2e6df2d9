----------------------------- MODULE IndexedMap -----------------------------
(***************************************************************************)
(* libs/IndexedMap.h: a vector of values with a map from keys to positions *)
(* in it.  A position is an IndexType, the largest of which marks a key    *)
(* that has none yet.  order and stored record which keys were asked for,  *)
(* in order, and what was last written by each: no code reads them.        *)
(***************************************************************************)
EXTENDS Integers, Sequences, FiniteSets, StdMap

CONSTANTS Keys, Contents,
          Default,    \* what resize() fills the vector with
          Indices     \* how many values IndexType has

ASSUME DefaultAssumption == Default \in Contents
ASSUME IndicesAssumption == Indices \in Nat \ {0}

VARIABLES map, vec, order, stored

mapVars == <<map, vec, order, stored>>

InvalidIndex == Indices - 1

MapInit == map = <<>> /\ vec = <<>> /\ order = <<>> /\ stored = <<>>

Entry(key) == IF key \in DOMAIN map THEN map[key] ELSE InvalidIndex

\* vector::resize()
Resized(size) == [i \in 1..size |-> IF i <= Len(vec) THEN vec[i] ELSE Default]

\* Mutant of Assign: the position is the size of the map.
AssignPast(key, x) ==
  LET size  == Cardinality(DOMAIN map \cup {key})
      fresh == Entry(key) = InvalidIndex
      index == IF fresh THEN size % Indices ELSE Entry(key)
  IN  /\ map' = With(map, key, index)
      /\ vec' = [(IF fresh THEN Resized(size) ELSE vec) EXCEPT ![index + 1] = x]
      /\ order' = IF key \in DOMAIN map THEN order ELSE Append(order, key)
      /\ stored' = With(stored, key, x)

(***************************************************************************)
(* operator[](key), and a value written through the reference it returns.  *)
(* A key whose position is the invalid one is given a position again.      *)
(***************************************************************************)
Assign(key, x) ==
  LET size  == Cardinality(DOMAIN map \cup {key})
      fresh == Entry(key) = InvalidIndex
      index == IF fresh THEN (size - 1) % Indices ELSE Entry(key)
  IN  /\ map' = With(map, key, index)
      /\ vec' = [(IF fresh THEN Resized(size) ELSE vec) EXCEPT ![index + 1] = x]
      /\ order' = IF key \in DOMAIN map THEN order ELSE Append(order, key)
      /\ stored' = With(stored, key, x)

\* operator[](index), and a value written through its reference.
AssignAt(i, x) ==
  /\ vec' = [vec EXCEPT ![i] = x]
  /\ stored' = With(stored, order[i], x)
  /\ UNCHANGED <<map, order>>

MapNext == \E x \in Contents : \/ \E key \in Keys : Assign(key, x)
                               \/ \E i \in DOMAIN vec : AssignAt(i, x)

MapSpec == MapInit /\ [][MapNext]_mapVars

-----------------------------------------------------------------------------
(***************************************************************************)
(* Iterating gives the values of the keys in the order in which they were  *)
(* first asked for, each the one last written through its key or its       *)
(* position: as long as there are no more keys than values of IndexType,   *)
(* and so also for the key whose position is the invalid one.              *)
(***************************************************************************)
ValuesFollowKeys ==
  Len(order) <= Indices =>
    /\ vec = [i \in DOMAIN order |-> stored[order[i]]]
    /\ \A i \in DOMAIN order : map[order[i]] = i - 1
=============================================================================
