-------------------------------- MODULE Heap --------------------------------
(***************************************************************************)
(* What an allocator promises: the ranges of bytes it has handed out and   *)
(* not been given back never overlap.                                      *)
(***************************************************************************)
EXTENDS Naturals

VARIABLE extents    \* the ranges handed out, as [from, to] inclusive

Overlap(a, b) == a.from <= b.to /\ b.from <= a.to

Init == extents = {}

Allocate ==
  \E e \in extents' \ extents :
    /\ extents' = extents \cup {e}
    /\ e.from <= e.to
    /\ \A d \in extents : ~ Overlap(d, e)

Free == \E e \in extents : extents' = extents \ {e}

Next == Allocate \/ Free

Spec == Init /\ [][Next]_extents
=============================================================================
