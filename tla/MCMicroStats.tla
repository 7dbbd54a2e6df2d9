---------------------------- MODULE MCMicroStats ----------------------------
(***************************************************************************)
(* Four divisions an octave over integers of 12 and 6 bits.  The values    *)
(* sit at the edges of the bins and of the octaves.                        *)
(***************************************************************************)
EXTENDS MicroStats

MCPercents == {0, 1, 25, 50, 75, 99}

\* 192 has offset 64: the first that does not fit.
MCWide == {3, 40, 192, 1600}

\* 2048 has all the bits of a long.
MCTop == {3, 40, 1024, 2047, 2048}
=============================================================================
