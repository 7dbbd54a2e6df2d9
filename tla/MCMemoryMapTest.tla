-------------------------- MODULE MCMemoryMapTest --------------------------
(* MemoryMapTest for TLC. *)
EXTENDS MemoryMapTest

MCKinds == {"Rigtorp", "TAS"}
MCLeftOver == {0, 2}
=============================================================================
