----------------------------- MODULE TurnCounter -----------------------------
(***************************************************************************)
(* What the processes of tests/memorymap/testMemoryMap.cpp do together,    *)
(* seen from the shared counter: it goes up by one at a time, process p    *)
(* takes the turns that are p modulo the number of processes, a process    *)
(* that has seen the target takes no further turn, and the last turns of   *)
(* the others overshoot the target by less than the number of processes.   *)
(***************************************************************************)
EXTENDS Naturals

CONSTANTS NumProcesses, NumLoops

VARIABLES counter,
          done       \* the processes that have seen the target

vars == <<counter, done>>

Procs == 0..(NumProcesses - 1)

Init == counter = 0 /\ done = {}

Turn(p) ==
  /\ p \notin done
  /\ counter % NumProcesses = p
  /\ counter < NumLoops + NumProcesses - 1
  /\ counter' = counter + 1
  /\ UNCHANGED done

Finish(p) ==
  /\ p \notin done
  /\ counter >= NumLoops
  /\ done' = done \cup {p}
  /\ UNCHANGED counter

Next == \E p \in Procs : Turn(p) \/ Finish(p)

Spec == Init /\ [][Next]_vars
=============================================================================
