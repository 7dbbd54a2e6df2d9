--------------------------- MODULE MCTestScheduler --------------------------
(***************************************************************************)
(* Three items: two of them at one time and a third before, after or at    *)
(* the bound, checked in two loops.                                        *)
(***************************************************************************)
EXTENDS TestScheduler

MCKinds == {"multimap", "priority_queue"}
=============================================================================
