------------------------------ MODULE KahanSum ------------------------------
(***************************************************************************)
(* libs/KahanSum.h: a sum of doubles that carries what rounding took from  *)
(* it.  The addends are integers, and a double has a fraction of Mantissa  *)
(* bits, so that every intermediate result is an integer that was rounded. *)
(* exact and total record what was added, with and without its sign, since *)
(* the last clear(): no code reads them.                                   *)
(***************************************************************************)
EXTENDS BitUtils

CONSTANTS Addends,
          MaxTotal    \* bound: what is added up between two clears

ASSUME AddendsAssumption == Addends \subseteq Int
ASSUME MaxTotalAssumption == MaxTotal \in Nat /\ 4 * MaxTotal \in Words

VARIABLES sum, res, exact, total

sumVars == <<sum, res, exact, total>>

Magnitude(x) == IF x < 0 THEN -x ELSE x

\* What an operation whose exact result is x gives.
Rounded(x) == IF x < 0 THEN -AsDouble(-x) ELSE AsDouble(x)

\* What is added is a double.
ASSUME RoundedAssumption == \A value \in Addends : Rounded(value) = value

SumInit == sum = 0 /\ res = 0 /\ exact = 0 /\ total = 0

\* Mutant of Corrected: the residual is not taken into account.
Uncorrected(value) == Rounded(value)

Corrected(value) == Rounded(value - res)

SumAdd(value) ==
  LET y == Corrected(value)
      t == Rounded(sum + y)
  IN  /\ total + Magnitude(value) <= MaxTotal
      /\ res' = Rounded(Rounded(t - sum) - y)
      /\ sum' = t
      /\ exact' = exact + value
      /\ total' = total + Magnitude(value)

SumClear ==
  /\ sum' = 0 /\ res' = 0
  /\ exact' = 0 /\ total' = 0

SumNext == SumClear \/ \E value \in Addends : SumAdd(value)

SumSpec == SumInit /\ [][SumNext]_sumVars

-----------------------------------------------------------------------------
(***************************************************************************)
(* "Produces a sum with minimal rounding errors": however many values were *)
(* added, and whether they cancel or not, the sum is off by at most the    *)
(* 2^Mantissa-th part of their total, which is what rounding it once may   *)
(* cost, and together with the residual by half that.                      *)
(***************************************************************************)
SumAccurate ==
  /\ Magnitude(sum - exact) * 2^Mantissa <= total
  /\ Magnitude(sum - res - exact) * 2^(Mantissa + 1) <= total
=============================================================================
