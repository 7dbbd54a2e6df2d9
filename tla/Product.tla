------------------------------ MODULE Product -------------------------------
(***************************************************************************)
(* libs/Product.h: the combinations of R places, the i-th of which takes   *)
(* the values 0..N[i]-1, one with each call of next().                     *)
(***************************************************************************)
EXTENDS Integers, Sequences, FiniteSetsExt, Functions

CONSTANTS Containers    \* what init() is called with: numbers of values

ASSUME ContainersAssumption == Containers \subseteq Seq(Nat) /\ <<>> \in Containers

VARIABLES N, current, first, completed, count

productVars == <<N, current, first, completed, count>>

R == Len(N)
Places == 1..R
Zeroes(n) == [i \in 1..n |-> 0]

ProductInit ==
  /\ N = <<>> /\ current = <<>>
  /\ first = TRUE /\ completed = FALSE
  /\ count = 0

\* Mutant of InitProduct: what is current is not cleared.
InitProductKeeps(Nt) ==
  /\ N' = Nt
  /\ current' = [i \in 1..Len(Nt) |-> IF i <= R THEN current[i] ELSE 0]
  /\ first' = TRUE /\ completed' = FALSE
  /\ count' = 0

InitProduct(Nt) ==
  /\ N' = Nt
  /\ current' = Zeroes(Len(Nt))
  /\ first' = TRUE /\ completed' = FALSE
  /\ count' = 0

\* next(): the first combination is the one of init().
NextFirst ==
  /\ ~completed /\ first
  /\ first' = FALSE
  /\ count' = 1
  /\ UNCHANGED <<N, current, completed>>

\* The last place that has a next value is counted up, those behind it start over.
Incrementable == {i \in Places : current[i] + 1 < N[i]}

NextIncrements ==
  /\ ~completed /\ ~first
  /\ Incrementable # {}
  /\ LET i == Max(Incrementable)
     IN  current' = [k \in Places |-> IF k < i THEN current[k]
                                      ELSE IF k = i THEN current[k] + 1 ELSE 0]
  /\ count' = count + 1
  /\ UNCHANGED <<N, first, completed>>

\* Every place has been counted up by then.
NextCompletes ==
  /\ ~completed /\ ~first
  /\ Incrementable = {}
  /\ current' = [i \in Places |-> current[i] + 1]
  /\ completed' = TRUE
  /\ UNCHANGED <<N, first, count>>

\* A completed product answers no more.
ProductNext ==
  NextFirst \/ NextIncrements \/ NextCompletes \/ \E Nt \in Containers : InitProduct(Nt)

ProductSpec == ProductInit /\ [][ProductNext]_productVars

-----------------------------------------------------------------------------
\* A place without values is taken for one with the value 0.
PlaceValues(i) == IF N[i] = 0 THEN 1 ELSE N[i]

\* The product of the sizes of the places behind i.
Weight[i \in 0..R] == IF i = R THEN 1 ELSE PlaceValues(i + 1) * Weight[i + 1]

\* What each place adds to the rank of the combination next() is at.
Ranks == [i \in Places |-> current[i] * Weight[i]]

(***************************************************************************)
(* The combination next() is at is the count-th in lexicographic order, so *)
(* that none comes twice or is left out, and when it is completed all have *)
(* been there; also for an object used again after it was completed or in  *)
(* the middle.                                                             *)
(***************************************************************************)
EveryCombinationOnce ==
  IF completed THEN count = Weight[0]
  ELSE ~first => /\ \A i \in Places : current[i] < PlaceValues(i)
                 /\ count = 1 + SumFunction(Ranks)
=============================================================================
