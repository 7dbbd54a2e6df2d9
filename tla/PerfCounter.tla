---------------------------- MODULE PerfCounter -----------------------------
(***************************************************************************)
(* libs/PerfCounter.cpp: one event of the kernel, opened by init(),        *)
(* counted between start() and stop(), and given back by close().  What    *)
(* the caller does is any sequence of these; each system call is a step.   *)
(* Only the last lines are history, which no code reads.                   *)
(***************************************************************************)
EXTENDS Integers

CONSTANTS MayFailCalls,   \* "open", "reset", "enable", "disable", "read"
          MaxOccurrences  \* bound: occurrences of the event

NoFile == -1
File   == 3

VARIABLES
  fd,                     \* _fd
  at,                     \* the call that is being executed, or "caller"
  kernelOn, kernelCount,  \* the event in the kernel
  returned,               \* what the last stop() returned
  occurred, since,        \* occurrences ever, and since start() was called ...
  inSection, inside,      \* ... and between its return and the call of stop()
  faultless               \* no call has failed since start() was called

kernelEvent == <<kernelOn, kernelCount>>
history     == <<occurred, since, inSection, inside>>
counterVars == <<fd, at, kernelEvent, returned, history, faultless>>

CounterInit ==
  /\ fd = NoFile /\ at = "caller"
  /\ kernelOn = FALSE /\ kernelCount = 0
  /\ returned = 0
  /\ occurred = 0 /\ since = 0 /\ inSection = FALSE /\ inside = 0
  /\ faultless = FALSE

Continue(from, to) == at = from /\ at' = to

\* The code reports a call that fails and goes on.
Fails(call) == call \in MayFailCalls

Occurs ==
  /\ occurred < MaxOccurrences
  /\ occurred' = occurred + 1
  /\ since' = since + 1
  /\ inside' = IF inSection THEN inside + 1 ELSE inside
  /\ kernelCount' = IF kernelOn THEN kernelCount + 1 ELSE kernelCount
  /\ UNCHANGED <<fd, at, kernelOn, returned, inSection, faultless>>

\* init(): nothing for a counter that has a file.  It answers true whether the
\* event could be opened or not.
OpenCounter ==
  /\ at = "caller" /\ fd < 0
  /\ \/ fd' = File /\ kernelOn' = FALSE /\ kernelCount' = 0
     \/ Fails("open") /\ UNCHANGED <<fd, kernelEvent>>
  /\ faultless' = FALSE
  /\ UNCHANGED <<at, returned, history>>

\* start(), which does nothing without a file.
StartCounter ==
  /\ fd >= 0
  /\ Continue("caller", "reset")
  /\ since' = 0 /\ inSection' = FALSE /\ inside' = 0
  /\ faultless' = TRUE
  /\ UNCHANGED <<fd, kernelEvent, returned, occurred>>

\* Mutant of ResetCounter: the count goes on.
ResetCounterSkipped ==
  /\ Continue("reset", "enable")
  /\ UNCHANGED <<kernelCount, faultless>>
  /\ UNCHANGED <<fd, kernelOn, returned, history>>

ResetCounter ==
  /\ Continue("reset", "enable")
  /\ \/ kernelCount' = 0 /\ UNCHANGED faultless
     \/ Fails("reset") /\ faultless' = FALSE /\ UNCHANGED kernelCount
  /\ UNCHANGED <<fd, kernelOn, returned, history>>

EnableCounter ==
  /\ Continue("enable", "caller")
  /\ \/ kernelOn' = TRUE /\ UNCHANGED faultless
     \/ Fails("enable") /\ faultless' = FALSE /\ UNCHANGED kernelOn
  /\ inSection' = TRUE
  /\ UNCHANGED <<fd, kernelCount, returned, occurred, since, inside>>

StopCounter ==
  /\ IF fd >= 0 THEN Continue("caller", "disable") /\ UNCHANGED returned
     ELSE at = "caller" /\ returned' = 0 /\ UNCHANGED at
  /\ inSection' = FALSE
  /\ UNCHANGED <<fd, kernelEvent, occurred, since, inside, faultless>>

DisableCounter ==
  /\ Continue("disable", "read")
  /\ \/ kernelOn' = FALSE /\ UNCHANGED faultless
     \/ Fails("disable") /\ faultless' = FALSE /\ UNCHANGED kernelOn
  /\ UNCHANGED <<fd, kernelCount, returned, history>>

ReadCounter ==
  /\ Continue("read", "caller")
  /\ \/ returned' = kernelCount /\ UNCHANGED faultless
     \/ Fails("read") /\ returned' = 0 /\ faultless' = FALSE
  /\ UNCHANGED <<fd, kernelEvent, history>>

\* The kernel's event goes with its file.
CloseCounter ==
  /\ at = "caller" /\ fd >= 0
  /\ fd' = NoFile
  /\ kernelOn' = FALSE /\ kernelCount' = 0
  /\ inSection' = FALSE /\ faultless' = FALSE
  /\ UNCHANGED <<at, returned, occurred, since, inside>>

CounterNext ==
  \/ Occurs \/ OpenCounter \/ CloseCounter
  \/ StartCounter \/ ResetCounter \/ EnableCounter
  \/ StopCounter \/ DisableCounter \/ ReadCounter

CounterSpec == CounterInit /\ [][CounterNext]_counterVars

-----------------------------------------------------------------------------
(***************************************************************************)
(* stop() answers for its own section, whatever was counted, failed or     *)
(* closed before: if every call since start() worked, it misses nothing of *)
(* what happened while the section ran, and adds nothing from before       *)
(* start() or from between the sections.                                   *)
(***************************************************************************)
StopInSection ==
  [][at = "read" /\ at' = "caller" /\ faultless'
       => inside <= returned' /\ returned' <= since]_counterVars
=============================================================================
