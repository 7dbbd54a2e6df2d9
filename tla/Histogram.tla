----------------------------- MODULE Histogram ------------------------------
(***************************************************************************)
(* libs/Histogram.h: bins of equal width between a minimum and a maximum,  *)
(* and percentiles read from them.  pct() interpolates in a bin with a     *)
(* normal distribution and cuts what it finds to the limits of the bin, so *)
(* that of its result the bin is kept.  kept records the values added      *)
(* since clear(): no code reads it.                                        *)
(***************************************************************************)
EXTENDS Integers, FiniteSets, FiniteSetsExt, Functions

CONSTANTS NumBins,           \* the template parameter
          Least, Greatest,   \* _min and _max
          Samples,           \* the values added
          MaxSamples,        \* bound: values between two clears
          AskedPercents      \* what pct() is called with

\* The programs' ranges are 1..1E6 and the like.  With a negative minimum the
\* difference of a value and the minimum may round up to the whole range.
ASSUME RangeAssumption ==
  NumBins \in Nat \ {0} /\ Least \in Nat /\ Greatest \in Nat /\ Least < Greatest
\* As there are finitely many doubles.
ASSUME SamplesAssumption == Samples \subseteq Nat /\ IsFiniteSet(Samples)
ASSUME AskedPercentsAssumption == AskedPercents \subseteq 0..100

VARIABLES binned, kept

histogramVars == <<binned, kept>>

HistogramBins == 0..(NumBins - 1)
Missing == -1                      \* quiet_NaN()

NoneBinned == [b \in HistogramBins |-> 0]
NoneKept   == [v \in Samples |-> 0]

HistogramInit == binned = NoneBinned /\ kept = NoneKept

\* Mutant of BinOf: the maximum itself is taken for a value of the last bin's range.
BinOfMaximum(value) ==
  CASE value < Least    -> 0
    [] value > Greatest -> NumBins - 1
    [] OTHER            -> ((value - Least) * NumBins) \div (Greatest - Least)

BinOf(value) ==
  CASE value < Least     -> 0
    [] value >= Greatest -> NumBins - 1
    [] OTHER             -> ((value - Least) * NumBins) \div (Greatest - Least)

\* add(); a bin past the array is some other memory.
AddSample(value) ==
  /\ SumFunction(kept) < MaxSamples
  /\ binned' = [b \in HistogramBins |-> IF b = BinOf(value) THEN binned[b] + 1 ELSE binned[b]]
  /\ kept' = [kept EXCEPT ![value] = @ + 1]

ClearBins == binned' = NoneBinned /\ kept' = NoneKept

HistogramNext == ClearBins \/ \E value \in Samples : AddSample(value)

HistogramSpec == HistogramInit /\ [][HistogramNext]_histogramVars

-----------------------------------------------------------------------------
Total == SumFunction(binned)
UpTo(b) == SumFunctionOnSet(binned, 0..b)

(***************************************************************************)
(* What pct() may return: a number in a bin, given as the bin, or NaN.     *)
(* Counts are compared a hundredfold.  invcdf() of 0 or 1 subtracts        *)
(* infinities.  The variance of several values may come out negative, by   *)
(* rounding, and then has no root; that of a single one is zero.           *)
(***************************************************************************)
Pct(percent) ==
  LET goal  == percent * Total
      stops == {b \in HistogramBins : binned[b] > 0 /\ 100 * UpTo(b) >= goal}
      bin   == Min(stops)
      excess == goal - 100 * (UpTo(bin) - binned[bin])
  IN  IF stops = {} \/ excess \in {0, 100 * binned[bin]} THEN {Missing}
      ELSE IF binned[bin] > 1 THEN {bin, Missing} ELSE {bin}

\* The k-th smallest of the values added.
SmallestKept(k) ==
  Min({v \in Samples : SumFunctionOnSet(kept, {u \in Samples : u <= v}) >= k})

(***************************************************************************)
(* Values at the limits and outside of the range included, the percentile  *)
(* is a number in the bin of the order statistic it stands for, and never  *)
(* one of another bin.  It is NaN and no number if nothing was added, if   *)
(* the rank asked for is 0, or if that is a whole rank behind which a bin  *)
(* ends, as with a median of two values in different bins.  Otherwise it   *)
(* may be NaN only if the bin has more values than one.                    *)
(***************************************************************************)
PercentileOfRank ==
  \A percent \in AskedPercents :
    LET size  == SumFunction(kept)
        goal  == percent * size
        value == SmallestKept((goal + 99) \div 100)
        atEnd == goal % 100 = 0
                 /\ \A v \in Samples : kept[v] > 0 /\ BinOf(v) = BinOf(value) =>
                      100 * SumFunctionOnSet(kept, {u \in Samples : u <= v}) <= goal
        inBin == SumFunctionOnSet(kept, {v \in Samples : BinOf(v) = BinOf(value)})
    IN  Pct(percent) = IF goal = 0 \/ atEnd THEN {Missing}
                       ELSE IF inBin > 1 THEN {BinOf(value), Missing} ELSE {BinOf(value)}
=============================================================================
