------------------------------ MODULE Library -------------------------------
(***************************************************************************)
(* The parts of libs/ that know nothing of each other, one at a time: a    *)
(* program that uses one of them leaves the others as they were made.      *)
(***************************************************************************)
EXTENDS TestBits, MicroStats, Split, Product, IndexedMap, KahanSum, Histogram, PerfCounter,
        Regression, Calibration

CONSTANTS Parts    \* the parts that are run

VARIABLE part

libraryVars ==
  <<part, bitsVars, statsVars, splitVars, productVars, mapVars, sumVars, histogramVars,
    counterVars, snapshotVars, regressionVars, calibrationVars>>

LibraryInit ==
  /\ part \in Parts
  /\ BitsInit /\ StatsInit /\ SplitInit /\ ProductInit /\ MapInit /\ SumInit
  /\ HistogramInit /\ CounterInit /\ SnapshotInit /\ RegressionInit /\ CalibrationInit

Keeps(p, variables) == IF part = p THEN TRUE ELSE UNCHANGED variables

OthersKept ==
  /\ UNCHANGED part
  /\ Keeps("bits", bitsVars) /\ Keeps("micro_stats", statsVars)
  /\ Keeps("split", splitVars) /\ Keeps("product", productVars)
  /\ Keeps("map", mapVars) /\ Keeps("sum", sumVars)
  /\ Keeps("histogram", histogramVars) /\ Keeps("counter", counterVars)
  /\ Keeps("regression", <<snapshotVars, regressionVars>>)
  /\ Keeps("calibration", calibrationVars)

LibraryNext ==
  /\ \/ part = "bits" /\ BitsNext
     \/ part = "micro_stats" /\ StatsNext
     \/ part = "split" /\ SplitNext
     \/ part = "product" /\ ProductNext
     \/ part = "map" /\ MapNext
     \/ part = "sum" /\ SumNext
     \/ part = "histogram" /\ HistogramNext
     \/ part = "counter" /\ CounterNext
     \/ part = "regression" /\ RegressionNext
     \/ part = "calibration" /\ CalibrationNext
  /\ OthersKept

LibrarySpec == LibraryInit /\ [][LibraryNext]_libraryVars
=============================================================================
