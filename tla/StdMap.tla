------------------------------- MODULE StdMap -------------------------------
(***************************************************************************)
(* What several parts do to a std::map, and to memory: give one key a      *)
(* value, which replaces the one it had.                                   *)
(***************************************************************************)

\* map[key] = x
With(f, key, x) == [k \in DOMAIN f \cup {key} |-> IF k = key THEN x ELSE f[k]]
=============================================================================
