----------------------------- MODULE MicroStats -----------------------------
(***************************************************************************)
(* MicroStats<NDB> of libs/MicroStats.h: a histogram whose bins split      *)
(* every power of two into 2^NDB parts, from which percentiles are read.   *)
(* The sums of a bin are only ever accumulated and are left out.  added    *)
(* records what the histogram was given since it was last empty: no code   *)
(* reads it.                                                               *)
(***************************************************************************)
EXTENDS Integers, FiniteSets, FiniteSetsExt, Functions

CONSTANTS NDB,       \* the template parameter
          LongBits,  \* bits of uint64_t
          IntBits,   \* bits of uint32_t
          Values,    \* the values added
          Shifters,  \* what the build makes of a shift that is too wide
          MaxAdds,   \* bound of a run: values between two clears
          Percents   \* the percentiles asked for

ASSUME WidthsAssumption ==
  NDB \in Nat /\ IntBits \in Nat /\ LongBits \in Nat /\ NDB < IntBits /\ IntBits < LongBits
ASSUME ShiftersAssumption == Shifters \subseteq {"masked", "zero"} /\ Shifters # {}
ASSUME ValuesAssumption == Values \subseteq 0..(2^LongBits - 1)
ASSUME PercentsAssumption == Percents \subseteq 0..100
\* The bin counters are 32 bits wide and a run stays below that.
ASSUME MaxAddsAssumption == MaxAdds \in 1..(2^IntBits - 1)

NUMBINS == (LongBits - NDB) * 2^NDB
Bins == 0..(NUMBINS - 1)

VARIABLES ranges, counts, totalcount, added

statsVars == <<ranges, counts, totalcount, added>>

Msb(value) == Cardinality({k \in 0..(LongBits - 1) : 2^k <= value})

\* Mutant of CalcBin: one division bit too many is shifted out.
CalcBinShiftsMore(value) ==
  IF value < 2^NDB
  THEN value
  ELSE LET numbits == Msb(value)
       IN  (numbits - NDB) * 2^NDB + ((value \div 2^(numbits - NDB)) % 2^NDB)

CalcBin(value) ==
  IF value < 2^NDB
  THEN value
  ELSE LET numbits == Msb(value)
       IN  (numbits - NDB) * 2^NDB + ((value \div 2^(numbits - (NDB + 1))) % 2^NDB)

(***************************************************************************)
(* The shift of the 32-bit partition.  C++ leaves a shift by the width or  *)
(* more undefined: the instruction the build picks takes the amount modulo *)
(* the width ("masked") or gives 0 ("zero").                               *)
(***************************************************************************)
ShiftInt(shifter, n, by) ==
  IF by >= IntBits /\ shifter = "zero" THEN 0
                                       ELSE (n * 2^(by % IntBits)) % 2^IntBits

CalcRange(shifter, bin) ==
  IF bin < 2^NDB
  THEN [from |-> bin, to |-> bin]
  ELSE LET numbits == (bin \div 2^NDB) + NDB
           base    == 2^(numbits - 1)
           offset  == ShiftInt(shifter, bin % 2^NDB, numbits - (NDB + 1))
       IN  [from |-> base + offset, to |-> base + (base \div 2^NDB) + offset - 1]

NoCounts == [b \in Bins |-> 0]

StatsInit ==
  /\ \E shifter \in Shifters : ranges = [b \in Bins |-> CalcRange(shifter, b)]
  /\ counts = NoCounts
  /\ totalcount = 0
  /\ added = [v \in Values |-> 0]

(***************************************************************************)
(* A value whose bin lies past the array is written behind the object: no  *)
(* counter of the histogram changes.                                       *)
(***************************************************************************)
Add(value) ==
  /\ totalcount < MaxAdds
  /\ counts' = [b \in Bins |-> IF b = CalcBin(value) THEN (counts[b] + 1) % 2^IntBits
                                                     ELSE counts[b]]
  /\ totalcount' = totalcount + 1
  /\ added' = [added EXCEPT ![value] = @ + 1]
  /\ UNCHANGED ranges

Clear ==
  /\ counts' = NoCounts
  /\ totalcount' = 0
  /\ added' = [v \in Values |-> 0]
  /\ UNCHANGED ranges

StatsNext == (\E v \in Values : Add(v)) \/ Clear

Spec == StatsInit /\ [][StatsNext]_statsVars

-----------------------------------------------------------------------------
(***************************************************************************)
(* percentile(): a rational num/den, den > 0, or -1 if no bin is reached.  *)
(* goal and the running count are compared a hundredfold.                  *)
(***************************************************************************)
Below(b) == SumFunctionOnSet(counts, 0..(b - 1))

\* The bins at which the loop stops, if it gets there.
Reached(goal) == {b \in Bins : 100 * (Below(b) + counts[b]) >= goal}

\* Mutant of Within: the ends of the range are swapped.
WithinSwapped(b, goal) ==
  LET r == ranges[b]
      excess == goal - 100 * Below(b)
  IN  IF counts[b] = 0
      THEN [num |-> (r.from + r.to) \div 2, den |-> 1]
      ELSE [num |-> r.from * excess + r.to * (100 * counts[b] - excess),
            den |-> 100 * counts[b]]

Within(b, goal) ==
  LET r == ranges[b]
      excess == goal - 100 * Below(b)
  IN  IF counts[b] = 0
      THEN [num |-> (r.from + r.to) \div 2, den |-> 1]
      ELSE [num |-> r.to * excess + r.from * (100 * counts[b] - excess),
            den |-> 100 * counts[b]]

Percentile(pct) ==
  LET goal == pct * totalcount
  IN  IF Reached(goal) = {} THEN [num |-> -1, den |-> 1]
                            ELSE Within(Min(Reached(goal)), goal)

-----------------------------------------------------------------------------
(***************************************************************************)
(* The total is the sum of the bins: no value is counted twice, outside    *)
(* the array or across a clear().                                          *)
(***************************************************************************)
AllCounted == totalcount = SumFunction(counts)

(***************************************************************************)
(* "The (inclusive) integer range of a bin": every value added lies in the *)
(* range that init() gave to the bin add() counts it in.                   *)
(***************************************************************************)
RangeHoldsValues ==
  \A v \in Values :
    added[v] > 0 =>
      LET r == ranges[CalcBin(v)] IN r.from <= v /\ v <= r.to

\* The k-th smallest of the values added.
Ranked(k) ==
  Min({v \in Values : SumFunctionOnSet(added, {u \in Values : u <= v}) >= k})

(***************************************************************************)
(* A percentile is as close to the order statistic it stands for as the    *)
(* divisions promise: off by less than a 2^NDB-th of it.                   *)
(***************************************************************************)
PercentileAccurate ==
  \A pct \in Percents :
    pct * totalcount > 0 =>
      LET p == Percentile(pct)
          x == Ranked((pct * totalcount + 99) \div 100)
      IN  /\ (p.num - x * p.den) * 2^NDB <= x * p.den
          /\ (x * p.den - p.num) * 2^NDB <= x * p.den

(***************************************************************************)
(* A higher percentile is never a smaller value, also where two of them    *)
(* fall in one bin or at the edge between two bins.                        *)
(***************************************************************************)
PercentileMonotone ==
  totalcount > 0 =>
    LET value == [p \in Percents |-> Percentile(p)]
    IN  \A p \in Percents, q \in Percents :
          p <= q => value[p].num * value[q].den <= value[q].num * value[p].den
=============================================================================
