---------------------------- MODULE Calibration -----------------------------
(***************************************************************************)
(* How tests/jitter/jitter.cpp decides what a pause is: calcQuantum()      *)
(* finds the least step between two readings of the clock, on whatever     *)
(* core it runs, and collectJitterSamples() counts the steps of more than  *)
(* ten times that, in a thread that is bound to a core unless the call     *)
(* which asks for it fails.  Every core's clock is ahead by an offset of   *)
(* its own.  A step of the model is a reading of the clock, what is        *)
(* computed from it, or sched_getcpu(); a thread that is not bound may     *)
(* migrate between any two.                                                *)
(*                                                                         *)
(* least, pauses, crossed and the cores of the two readings record what    *)
(* really happened: no code reads them.                                    *)
(***************************************************************************)
EXTENDS Integers

CONSTANTS ClockBits,       \* bits of uint64_t
          CoreOffsets,     \* core -> how far its clock is ahead
          StartTime,       \* what the clock shows when the program starts
          Gaps,            \* how long it may be from one reading to the next
          WaitTicks,       \* ticks, wait_ticks
          MaxMigrations    \* bound: migrations

ASSUME ClockAssumption ==
  /\ ClockBits \in Nat /\ StartTime \in Nat /\ WaitTicks \in Nat \ {0}
  /\ Gaps \subseteq Nat \ {0}
  /\ \A c \in DOMAIN CoreOffsets : CoreOffsets[c] \in Nat
  /\ 1 \in DOMAIN CoreOffsets /\ 0 \notin DOMAIN CoreOffsets   \* 0 is NoCore

VARIABLES
  phase,                 \* "reading", "update" or "getcpu" of calcQuantum(), "begin",
                         \* "wait", "collect" or "done" of collectJitterSamples()
  time, onCore, pinned,  \* the time, the core that executes the thread, whether the
                         \* thread is bound to it
  now, last, finish,     \* the variables of busyWait() and of its callbacks
  cpu, quantum,          \* those of calcQuantum()
  samples,               \* opt.hist.count()
  migrations, nowCore, lastCore, least, crossed, pauses

readings == <<now, last, finish>>
computed == <<cpu, quantum>>
facts == <<nowCore, lastCore, least, crossed, pauses>>
calibrationVars ==
  <<phase, time, onCore, pinned, readings, computed, samples, migrations, facts>>

ClockMax == 2^ClockBits - 1
NoCore == 0

Clock(t, c) == t + CoreOffsets[c]

\* forward_difference(a, b), in unsigned words: b - a - 1 if a is behind b.
ForwardDifference(a, b) ==
  IF a >= b THEN a - b ELSE ((ClockMax - a) + b) % 2^ClockBits

CalibrationInit ==
  /\ phase = "reading"
  /\ time = StartTime /\ onCore = 1 /\ pinned = FALSE
  /\ now = 0 /\ last = 0 /\ finish = Clock(StartTime, 1) + WaitTicks
  /\ cpu = 1 /\ quantum = ClockMax
  /\ samples = 0
  /\ migrations = 0 /\ nowCore = NoCore /\ lastCore = NoCore
  /\ least = ClockMax /\ crossed = FALSE /\ pauses = 0

Migrate ==
  /\ phase # "done" /\ ~pinned
  /\ migrations < MaxMigrations
  /\ \E c \in DOMAIN CoreOffsets \ {onCore} : onCore' = c
  /\ migrations' = migrations + 1
  /\ UNCHANGED <<phase, time, pinned, readings, computed, samples, facts>>

\* A pass of busyWait(): the clock is read, and the callback called.
ReadClock(gap) ==
  /\ phase = "reading"
  /\ time' = time + gap
  /\ now' = Clock(time + gap, onCore)
  /\ now' < finish
  /\ nowCore' = onCore
  /\ phase' = "update"
  /\ UNCHANGED <<onCore, pinned, last, finish, computed, samples, migrations, lastCore, least,
                 crossed, pauses>>

UpdateQuantum ==
  LET diff == ForwardDifference(now, last)
      step == now - last
  IN  /\ phase = "update"
      /\ quantum' = IF diff < quantum THEN diff ELSE quantum
      /\ least' = IF nowCore = lastCore /\ step < least THEN step ELSE least
      /\ crossed' = (crossed \/ lastCore \notin {NoCore, nowCore})
      /\ phase' = "getcpu"
      /\ UNCHANGED <<time, onCore, pinned, readings, cpu, samples, migrations, nowCore, lastCore,
                     pauses>>

\* Mutant of CheckCpu: the quantum is kept.
CheckCpuKeeps ==
  /\ phase = "getcpu"
  /\ cpu' = onCore
  /\ IF onCore = cpu THEN UNCHANGED <<least, crossed>>
     ELSE least' = ClockMax /\ crossed' = FALSE
  /\ last' = now /\ lastCore' = nowCore
  /\ phase' = "reading"
  /\ UNCHANGED <<time, onCore, pinned, now, finish, quantum, samples, migrations, nowCore, pauses>>

\* sched_getcpu(): "Unusual migration", the stats are reset.
CheckCpu ==
  /\ phase = "getcpu"
  /\ cpu' = onCore
  /\ IF onCore = cpu THEN UNCHANGED <<quantum, least, crossed>>
     ELSE quantum' = ClockMax /\ least' = ClockMax /\ crossed' = FALSE
  /\ last' = now /\ lastCore' = nowCore
  /\ phase' = "reading"
  /\ UNCHANGED <<time, onCore, pinned, now, finish, samples, migrations, nowCore, pauses>>

\* The last reading: calcQuantum() returns, and later a thread is created on some
\* core, not bound to it if pthread_attr_setaffinity_np() has failed.
CalibrationEnds(gap) ==
  /\ phase = "reading"
  /\ Clock(time + gap, onCore) >= finish
  /\ time' = time + gap
  /\ onCore' \in DOMAIN CoreOffsets /\ pinned' \in BOOLEAN
  /\ phase' = "begin"
  /\ UNCHANGED <<readings, computed, samples, migrations, facts>>

Threshold == (10 * quantum) % 2^ClockBits

\* The thread reads the clock for its own "last", then busyWait() for "start".
BeginCollecting(gap) ==
  /\ phase = "begin"
  /\ time' = time + gap
  /\ last' = Clock(time + gap, onCore) /\ lastCore' = onCore
  /\ phase' = "wait"
  /\ UNCHANGED <<onCore, pinned, now, finish, computed, samples, migrations, nowCore, least,
                 crossed, pauses>>

BeginWaiting(gap) ==
  /\ phase = "wait"
  /\ time' = time + gap
  /\ finish' = Clock(time + gap, onCore) + WaitTicks
  /\ phase' = "collect"
  /\ UNCHANGED <<onCore, pinned, now, last, computed, samples, migrations, facts>>

CollectReading(gap) ==
  LET reading == Clock(time + gap, onCore)
      elapsed == (time + gap) - (last - CoreOffsets[lastCore])   \* really
  IN  /\ phase = "collect"
      /\ reading < finish
      /\ time' = time + gap
      /\ samples' = IF ForwardDifference(reading, last) > Threshold
                    THEN samples + 1 ELSE samples
      /\ pauses' = IF elapsed > 10 * least THEN pauses + 1 ELSE pauses
      /\ crossed' = (crossed \/ lastCore # onCore)
      /\ last' = reading /\ lastCore' = onCore
      /\ UNCHANGED <<phase, onCore, pinned, now, finish, computed, migrations, nowCore, least>>

CollectingEnds(gap) ==
  /\ phase = "collect"
  /\ Clock(time + gap, onCore) >= finish
  /\ time' = time + gap
  /\ phase' = "done"
  /\ UNCHANGED <<onCore, pinned, readings, computed, samples, migrations, facts>>

CalibrationNext ==
  \/ Migrate \/ UpdateQuantum \/ CheckCpu
  \/ \E gap \in Gaps :
       \/ ReadClock(gap) \/ CalibrationEnds(gap)
       \/ BeginCollecting(gap) \/ BeginWaiting(gap) \/ CollectReading(gap) \/ CollectingEnds(gap)

CalibrationSpec == CalibrationInit /\ [][CalibrationNext]_calibrationVars

-----------------------------------------------------------------------------
(***************************************************************************)
(* The pauses counted are the steps of more than ten times the least step  *)
(* that was seen since the last migration noticed, and there are none if   *)
(* none was seen since: what a jump of the clock, forwards or backwards,   *)
(* has made of the quantum before a migration is noticed goes with the     *)
(* reset.  Nothing is claimed when a difference of two cores' clocks is    *)
(* taken and no reset follows it: because the thread migrated after its    *)
(* reading and before it asked for the core, was back when it asked, or    *)
(* is not bound while it collects.                                         *)
(***************************************************************************)
PausesAreReal == phase = "done" /\ ~crossed => samples = pauses
=============================================================================
