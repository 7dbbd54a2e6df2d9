------------------------------- MODULE Agenda -------------------------------
(***************************************************************************)
(* What a scheduler of timed events promises: an event that is scheduled   *)
(* is run once, at a check whose time it has reached, and never before one *)
(* that was due earlier.                                                   *)
(***************************************************************************)
EXTENDS Naturals, Bags

CONSTANTS Events, Times

VARIABLES pending,   \* the bag of scheduled events, as <<time, event>>
          now        \* the time of the last check

Init == pending = EmptyBag /\ now \in Times

Schedule ==
  /\ \E t \in Times, e \in Events : pending' = pending (+) SetToBag({<<t, e>>})
  /\ UNCHANGED now

Check == now' \in Times /\ UNCHANGED pending

Run ==
  /\ \E x \in BagToSet(pending) :
       /\ x[1] <= now
       /\ \A y \in BagToSet(pending) : x[1] <= y[1]
       /\ pending' = pending (-) SetToBag({x})
  /\ UNCHANGED now

Next == Schedule \/ Check \/ Run

Spec == Init /\ [][Next]_<<pending, now>>
=============================================================================
