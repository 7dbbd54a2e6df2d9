---------------------------- MODULE MCPerfGroup ----------------------------
(* PerfGroup for TLC. *)
EXTENDS PerfGroup

MCProcs == {0}
MCPair  == {0, 1}
MCIds   == 1..2
=============================================================================
