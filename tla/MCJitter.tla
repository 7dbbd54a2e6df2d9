------------------------------ MODULE MCJitter ------------------------------
(* Jitter for TLC: few thread ids, so that they are reused. *)
EXTENDS Jitter

MCTids == 1..(NumCores + 1)
=============================================================================
