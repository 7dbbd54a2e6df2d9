----------------------------- MODULE MCSpinLock -----------------------------
(* SpinLock for TLC: every lock class, a few processes. *)
EXTENDS SpinLock

CONSTANTS p1, p2, p3

MCProcs == {p1, p2, p3}
MCKinds == {"Rigtorp", "Bryce", "BryceSimplified", "TAS"}

\* The classes whose try_lock() returns TRUE when it has taken the word, and the
\* two that return the word's old value.
MCTruthful == {"Rigtorp", "TAS"}
MCNegated == {"Bryce", "BryceSimplified"}
=============================================================================
