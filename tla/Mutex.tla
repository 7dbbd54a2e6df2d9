------------------------------- MODULE Mutex -------------------------------
(***************************************************************************)
(* What a lock promises to the processes that share it: at any time it has *)
(* at most one owner, only a free lock is taken, and only its owner gives  *)
(* it back.  The four classes of tests/memorymap/testMemoryMap.cpp are     *)
(* shown to implement this in module SpinLock.                             *)
(***************************************************************************)
CONSTANTS Procs, NoOwner

VARIABLE owner

Init == owner = NoOwner

Take(p) == owner = NoOwner /\ owner' = p

Drop(p) == owner = p /\ owner' = NoOwner

Next == \E p \in Procs : Take(p) \/ Drop(p)

Spec == Init /\ [][Next]_owner
=============================================================================
