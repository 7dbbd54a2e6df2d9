----------------------------- MODULE MCLibrary ------------------------------
(***************************************************************************)
(* Every part on an instance of its own.                                   *)
(***************************************************************************)
EXTENDS Library, TLC

MCParts == {"bits", "micro_stats", "split", "product", "map", "sum", "histogram", "counter",
            "regression", "calibration"}

\* Twelve bits of integer over a six-bit fraction: from 128 on a double has to round.
MCResolutions == 0..3

\* Edges of bins and octaves whose bins lie in the array and whose offset fits an int.
MCValues == {0, 3, 4, 40, 47, 127}
MCPercents == {0, 1, 25, 50, 75, 99}

MCSeparatorSets == {{" "}, {" ", ","}}

\* Up to three places with up to three values, places without values included.
MCContainers == UNION {[1..n -> 0..3] : n \in 0..3}

\* They cancel, and are small beside what has been added.
MCAddends == {1, -3, 50}

\* Four bins of ten from 10 on: the limits, their neighbours, and what lies outside.
MCSamples == {3, 10, 19, 20, 49, 50}
MCAskedPercents == {0, 10, 25, 50, 75, 90, 99, 100}

MCMayFailCalls == {"open", "reset", "enable", "disable", "read"}

MCEventNames == <<"cycles">>
MCSections == {<<"cycles">> :> 9}

\* The second core's clock is ahead by as much as makes a long step a short one.
MCCoreOffsets == <<0, 10>>
=============================================================================
