------------------------------ MODULE BitUtils ------------------------------
(***************************************************************************)
(* The partial logarithms of libs/BitUtils.h.  ILog2(B, n) numbers the     *)
(* bins of a scale that has 2^B steps in every octave, IRange2(B, bin) is  *)
(* the range of numbers a bin stands for, FLog2(B, n) is the bin computed  *)
(* from the floating-point form of n.  The widths of the machine types are *)
(* parameters: 64 and 52 in the code.                                      *)
(***************************************************************************)
EXTENDS Integers, FiniteSets

CONSTANTS Width,      \* bits of size_t and uint64_t
          Mantissa    \* bits of the fraction of a double

ASSUME WidthAssumption == Width \in Nat \ {0}
ASSUME MantissaAssumption == Mantissa \in Nat \ {0}

Words == 0..(2^Width - 1)

\* std::bit_width(): how many bits n needs.
BitWidth(n) == Cardinality({k \in 0..(Width - 1) : 2^k <= n})

\* Mutant of ILog2: the offset is taken one bit too high.
ILog2ShiftsOneMore(B, n) ==
  IF n < 2^B
  THEN n
  ELSE LET bits == BitWidth(n)
       IN  ((n \div 2^(bits - B)) % 2^B) + (bits - B) * 2^B

ILog2(B, n) ==
  IF n < 2^B
  THEN n
  ELSE LET bits == BitWidth(n)
           off  == (n \div 2^(bits - B - 1)) % 2^B
       IN  off + (bits - B) * 2^B

\* Mutant of IRange2: the range is that of the next octave.
IRange2Doubled(B, bin) ==
  IF bin < 2^B
  THEN [base |-> bin, range |-> 1]
  ELSE LET bits == ((bin + B * 2^B) % 2^Width) \div 2^B
       IN  [base  |-> ((2^B + (bin % 2^B)) * 2^(bits - B - 1)) % 2^Width,
            range |-> 2^(bits - B) % 2^Width]

\* Every stored value is cut to the width of its type.
IRange2(B, bin) ==
  IF bin < 2^B
  THEN [base |-> bin, range |-> 1]
  ELSE LET bits == ((bin + (B - 1) * 2^B) % 2^Width) \div 2^B
       IN  [base  |-> ((2^B + (bin % 2^B)) * 2^(bits - B)) % 2^Width,
            range |-> 2^(bits - B) % 2^Width]

(***************************************************************************)
(* Conversion to double: the number keeps its Mantissa + 1 leading bits,   *)
(* rounded to nearest, ties to even.                                       *)
(***************************************************************************)
AsDouble(n) ==
  LET drop == BitWidth(n) - (Mantissa + 1)
      ulp  == 2^drop
      low  == n - (n % ulp)
      up   == 2 * (n % ulp) > ulp \/ (2 * (n % ulp) = ulp /\ (low \div ulp) % 2 = 1)
  IN  IF drop <= 0 THEN n ELSE IF up THEN low + ulp ELSE low

\* Mutant of FLog2: the bias of the exponent itself, not of the bin.
FLog2OtherBias(B, n) ==
  IF n <= 2^B
  THEN n
  ELSE LET d == AsDouble(n)
           e == BitWidth(d) - 1
       IN  (e - B) * 2^B + ((d - 2^e) * 2^B) \div 2^e

\* The bits of the double above its B leading fraction bits, less the bias.
FLog2(B, n) ==
  IF n <= 2^B
  THEN n
  ELSE LET d == AsDouble(n)
           e == BitWidth(d) - 1
       IN  (e + 1 - B) * 2^B + ((d - 2^e) * 2^B) \div 2^e

\* The union's exponent less the bias, read again with B bits of the fraction.
UFLog2(B, n) ==
  IF n < 2^B
  THEN n
  ELSE LET d   == AsDouble(n)
           exp == BitWidth(d) - B
           man == d - 2^(BitWidth(d) - 1)
       IN  exp * 2^B + (man * 2^B) \div 2^(BitWidth(d) - 1)
=============================================================================
