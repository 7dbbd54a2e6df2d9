----------------------------- MODULE Regression -----------------------------
(***************************************************************************)
(* summary() of libs/Regression.cpp over the events of a Snapshot, which   *)
(* may be measured on and summarised again: for every label it fits four   *)
(* models and reports the one with the least information criterion (AIC).  *)
(* What a fit yields is arithmetic of reals: here it fails or gives any    *)
(* of a few AICs.  A fit that is reported as solved never gives NaN: a     *)
(* column that is not finite makes solve() fail or throw.                  *)
(* solved records the AICs of the last summary: no code reads it.          *)
(***************************************************************************)
EXTENDS Snapshot, FiniteSetsExt

CONSTANTS Dependents,   \* what dependent_name is called with
          Aics          \* the values of a criterion that the model tells apart

ASSUME AicsAssumption == Aics \subseteq Int

VARIABLES
  doing,              \* "idle", "events" or "options"
  dependent, todo,    \* the argument, and the labels the outer loop has not got to
  label, option,      \* ism.first, and the position in options
  found, best,        \* found, and bestname with bestreg.aic
  reports,            \* what was printed: label -> name of the model, or none
  solved

fitVars == <<label, option, found, best>>
regressionVars == <<doing, dependent, todo, fitVars, reports, solved>>

Options == <<"N", "logN", "N2", "NlogN">>
NotConverged == "Model did not converge or not enough points"
NoBest == [name |-> "", aic |-> 0]

RegressionInit ==
  /\ doing = "idle" /\ dependent = "" /\ todo = {}
  /\ label = 0 /\ option = 1
  /\ found = FALSE /\ best = NoBest
  /\ reports = <<>> /\ solved = <<>>

Summary(name) ==
  /\ doing = "idle"
  /\ doing' = "events" /\ dependent' = name /\ todo' = DOMAIN events
  /\ reports' = <<>> /\ solved' = <<>>
  /\ UNCHANGED fitVars

HasMetric(l) == \E j \in DOMAIN events[l].metrics : events[l].metrics[j].name = dependent

\* Mutant of NextLabel: the best model is declared outside of the loop.
NextLabelKeepsBest ==
  LET l == Min(todo)
  IN  /\ doing = "events" /\ todo # {} /\ HasMetric(l)
      /\ doing' = "options" /\ label' = l /\ todo' = todo \ {l}
      /\ option' = 1
      /\ solved' = With(solved, l, <<>>)
      /\ UNCHANGED <<dependent, reports, found, best>>

NextLabel ==
  LET l == Min(todo)
  IN  /\ doing = "events" /\ todo # {} /\ HasMetric(l)
      /\ doing' = "options" /\ label' = l /\ todo' = todo \ {l}
      /\ option' = 1 /\ found' = FALSE /\ best' = NoBest
      /\ solved' = With(solved, l, <<>>)
      /\ UNCHANGED <<dependent, reports>>

\* A label without the dependent metric ends the summary.
NoDependent ==
  /\ doing = "events" /\ todo # {} /\ ~HasMetric(Min(todo))
  /\ doing' = "idle" /\ todo' = {}
  /\ UNCHANGED <<dependent, fitVars, reports, solved>>

\* As many coefficients as metrics, and the constant.
EnoughPoints == Len(events[label].N) > Len(events[label].metrics) + 1

TrySolved ==
  /\ doing = "options" /\ option <= Len(Options) /\ EnoughPoints
  /\ \E aic \in Aics :
       /\ IF ~found \/ aic < best.aic
          THEN found' = TRUE /\ best' = [name |-> Options[option], aic |-> aic]
          ELSE UNCHANGED <<found, best>>
       /\ solved' = [solved EXCEPT ![label] = With(@, Options[option], aic)]
  /\ option' = option + 1
  /\ UNCHANGED <<doing, dependent, todo, label, reports>>

TryUnsolved ==
  /\ doing = "options" /\ option <= Len(Options)
  /\ option' = option + 1
  /\ UNCHANGED <<doing, dependent, todo, label, found, best, reports, solved>>

Report ==
  /\ doing = "options" /\ option > Len(Options)
  /\ doing' = "events"
  /\ reports' = With(reports, label, IF found THEN best.name ELSE NotConverged)
  /\ UNCHANGED <<dependent, todo, fitVars, solved>>

SummaryEnds ==
  /\ doing = "events" /\ todo = {}
  /\ doing' = "idle"
  /\ UNCHANGED <<dependent, todo, fitVars, reports, solved>>

RegressionNext ==
  \/ /\ \/ \E name \in Dependents : Summary(name)
        \/ NextLabel \/ NoDependent \/ TrySolved \/ TryUnsolved \/ Report \/ SummaryEnds
     /\ UNCHANGED snapshotVars
  \/ doing = "idle" /\ SnapshotNext /\ UNCHANGED regressionVars

RegressionSpec ==
  SnapshotInit /\ RegressionInit /\ [][RegressionNext]_<<snapshotVars, regressionVars>>

-----------------------------------------------------------------------------
(***************************************************************************)
(* "The best model is calculated using the Akaike Information Criterion":  *)
(* when summary() is through with a metric that exists, every label has    *)
(* its report.  A report names a model that was solved for that label,     *)
(* with the least criterion, the first of equals; it says that there is    *)
(* none exactly if none was solved, whatever the labels before and the     *)
(* summaries before had found.                                             *)
(***************************************************************************)
Position(name) == CHOOSE k \in DOMAIN Options : Options[k] = name

BestIsLeast ==
  /\ doing = "events" /\ todo = {} => DOMAIN reports = DOMAIN events
  /\ \A l \in DOMAIN reports :
       IF solved[l] = <<>> THEN reports[l] = NotConverged
       ELSE /\ reports[l] \in DOMAIN solved[l]
            /\ \A name \in DOMAIN solved[l] \ {reports[l]} :
                 \/ solved[l][name] > solved[l][reports[l]]
                 \/ /\ solved[l][name] = solved[l][reports[l]]
                    /\ Position(name) > Position(reports[l])
=============================================================================
