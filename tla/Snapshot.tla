------------------------------ MODULE Snapshot ------------------------------
(***************************************************************************)
(* What libs/Snapshot.cpp keeps of the sections it measures: by label, the *)
(* problem's size and for every event its count per iteration.  How the    *)
(* counts are read is the subject of PerfGroup; here they are those of the *)
(* events translate() has asked the kernel for.  measured records what     *)
(* really happened in the sections of a label: no code reads it.           *)
(***************************************************************************)
EXTENDS PerfUtils, Sequences, Functions, StdMap

CONSTANTS EventNames,   \* what the constructor is given
          Labels,       \* event_name, ordered as std::map orders the names
          ItemCounts,   \* numitems
          Iterations,   \* numiterations
          Sections,     \* what happens in a section: a count for every kind of event
          MaxStops      \* bound: sections that are measured

ASSUME EventNamesAssumption == EventNames \in Seq(STRING) /\ EventNames # <<>>
ASSUME LabelsAssumption == Labels \subseteq Int
ASSUME IterationsAssumption == Iterations \subseteq Nat

VARIABLES events, stops, measured

snapshotVars == <<events, stops, measured>>

SnapshotInit == events = <<>> /\ stops = 0 /\ measured = <<>>

NewEvent == [N |-> <<>>,
             metrics |-> [j \in DOMAIN EventNames |-> [name |-> EventNames[j], values |-> <<>>]]]

EventOf(label) == IF label \in DOMAIN events THEN events[label] ELSE NewEvent
MeasuredOf(label) == IF label \in DOMAIN measured THEN measured[label] ELSE <<>>

\* start() and stop(): counters[j] is what the kernel counted for the j-th event.
\* A value is a quotient.
SnapshotStop(label, numitems, iterations, section) ==
  LET event      == EventOf(label)
      counter(j) == section[Meaning(Translate(EventNames[j]))]
  IN  /\ stops < MaxStops
      /\ stops' = stops + 1
      /\ IF iterations = 0 THEN UNCHANGED <<events, measured>>
         ELSE /\ events' = With(events, label, [
                   N |-> Append(event.N, numitems),
                   metrics |-> [j \in DOMAIN EventNames |->
                     [event.metrics[j] EXCEPT !.values = Append(@, <<counter(j), iterations>>)]]])
              /\ measured' = With(measured, label, Append(MeasuredOf(label), <<section, iterations>>))

SnapshotNext ==
  \E label \in Labels, numitems \in ItemCounts, iterations \in Iterations, section \in Sections :
    SnapshotStop(label, numitems, iterations, section)

SnapshotSpec == SnapshotInit /\ [][SnapshotNext]_snapshotVars

-----------------------------------------------------------------------------
(***************************************************************************)
(* "several permutations of performance counters: cache misses and branch  *)
(* misses" (README.md): the values under the name of an event are how      *)
(* often that event happened, per iteration, in the sections of the label. *)
(***************************************************************************)
MetricsAsNamed ==
  \A label \in DOMAIN events :
    \A j \in DOMAIN EventNames :
      events[label].metrics[j].values =
        [row \in DOMAIN measured[label] |->
           <<measured[label][row][1][<<EventNames[j]>>], measured[label][row][2]>>]
=============================================================================
