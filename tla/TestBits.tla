------------------------------ MODULE TestBits ------------------------------
(***************************************************************************)
(* main() of tests/cache/testBits.cpp: it walks the numbers from 0 and, at *)
(* four resolutions, prints their bin, the range of that bin and the bin   *)
(* the floating-point version gives.  The bound of the walk is a parameter *)
(* here, so that it passes the numbers a double cannot hold exactly.       *)
(***************************************************************************)
EXTENDS BitUtils

CONSTANTS Last,          \* the walk stops before this number: 64 in the code
          Resolutions    \* the BITS it prints: 0..3

\* flog2() declares numbers of 55 bits and more unreachable.
ASSUME LastAssumption == Last \in Words /\ Last <= 2^(Mantissa + 3)
ASSUME ResolutionsAssumption == Resolutions \subseteq 0..(Mantissa - 1)
\* The bins of every octave fit a word, and so does a number that is rounded up.
ASSUME BinsFitAssumption == \A B \in Resolutions : Width * 2^B <= 2^Width
ASSUME RoundingFitsAssumption == Mantissa + 3 < Width

VARIABLES num,    \* the loop's number
          row     \* for each resolution what the line of num says

bitsVars == <<num, row>>

Row(n) == [B \in Resolutions |->
             [bin |-> ILog2(B, n), range |-> IRange2(B, ILog2(B, n)),
              float |-> FLog2(B, n)]]

BitsInit == num = 0 /\ row = Row(0)

Line ==
  /\ num + 1 < Last
  /\ num' = num + 1
  /\ row' = Row(num + 1)

BitsNext == Line

BitsSpec == BitsInit /\ [][BitsNext]_bitsVars

-----------------------------------------------------------------------------
(***************************************************************************)
(* Every number lies in the range of its bin, and the range is narrower    *)
(* than 1/2^B of its base: irange2() undoes ilog2() for each resolution,   *)
(* whatever the two shift amounts and the bias are.                        *)
(***************************************************************************)
RangeHoldsNumber ==
  \A B \in Resolutions :
    LET r == row[B].range
    IN  /\ r.base <= num /\ num < r.base + r.range
        /\ r.range = 1 \/ r.range * 2^B <= r.base

(***************************************************************************)
(* The bins of ilog2() follow each other without a gap: the next number is *)
(* in the same bin or in the next one, and in the next one exactly when    *)
(* the range irange2() gave the old bin is used up.                        *)
(***************************************************************************)
BinsAreContiguous ==
  [][\A B \in Resolutions :
       LET r    == row[B].range
           step == IF num' = r.base + r.range THEN 1 ELSE 0
       IN  row'[B].bin = row[B].bin + step]_bitsVars

(***************************************************************************)
(* flog2() agrees with ilog2() on every number a double holds exactly, and *)
(* beyond them rounding moves it up by one bin at most.  uflog2(), which   *)
(* has another bound and moves the bias, never differs from flog2().       *)
(***************************************************************************)
FloatAgrees ==
  \A B \in Resolutions :
    /\ num < 2^(Mantissa + 1) => row[B].float = row[B].bin
    /\ row[B].float - row[B].bin \in {0, 1}
    /\ UFLog2(B, num) = row[B].float

=============================================================================
