--------------------------- MODULE TestScheduler ----------------------------
(***************************************************************************)
(* test() of tests/scheduler/testScheduler.cpp, the program both           *)
(* schedulers run in: it schedules every event, checks at ascending times, *)
(* schedules every event again and checks again, now scheduling another    *)
(* event whenever a check has run some.  Items are numbered from 0.  given *)
(* is the sum of the classes asked for, of all the events scheduled so     *)
(* far: no code reads it.                                                  *)
(***************************************************************************)
EXTENDS Scheduler, Bags, FiniteSetsExt

CONSTANTS NumItems, NumLoops, NumClasses

ASSUME SizesAssumption == NumItems \in Nat \ {0} /\ NumLoops \in Nat \ {0}
\* What main() makes of its argument, which it does not compare with MaxClass.
ASSUME NumClassesAssumption == NumClasses \in Nat

Items == 0..(NumItems - 1)

VARIABLES erand,      \* the random times
          index,      \* the random classes asked of createEvents()
          phase,      \* which of the four sections runs
          n, j,       \* its loop variables
          checking,   \* inside check()
          given

vars == <<schedulerVars, erand, index, phase, n, j, checking, given>>

inputs == <<erand, index>>

\* Both distributions include their upper bound.
Init ==
  /\ SchedulerInit
  /\ erand \in [Items -> 0..NumItems]
  /\ index \in [Items -> 0..NumClasses]
  /\ phase = "fill"
  /\ n = 0 /\ j = 0
  /\ checking = FALSE
  /\ given = 0

\* The classes are 0 to MaxClass - 1; a number beyond them asks for the last.
ClassOf(m) == IF m < MaxClass THEN m ELSE MaxClass - 1

ScheduleItem(time, k) ==
  /\ Schedule(time, k, CreateOneEvent(index[k]))
  /\ given' = given + ClassOf(index[k])

Fill ==
  /\ phase \in {"fill", "refill"}
  /\ j < NumItems
  /\ ScheduleItem(erand[j], j)
  /\ j' = j + 1
  /\ UNCHANGED <<kind, at, found, counter, inputs, phase, n, checking>>

FillEnds ==
  /\ phase \in {"fill", "refill"}
  /\ j = NumItems
  /\ phase' = IF phase = "fill" THEN "check" ELSE "recheck"
  /\ n' = 0 /\ j' = 0
  /\ UNCHANGED <<schedulerVars, inputs, checking, given>>

\* The time goes on through the loops in one section, starts over in the other.
Time == IF phase = "check" THEN n * NumItems + j ELSE j

Check ==
  /\ phase \in {"check", "recheck"}
  /\ ~checking
  /\ n < NumLoops /\ j < NumItems
  /\ BeginCheck(Time)
  /\ checking' = TRUE
  /\ UNCHANGED <<inputs, phase, n, j, given>>

RunDue ==
  /\ checking
  /\ RunFirst
  /\ UNCHANGED <<inputs, phase, n, j, checking, given>>

\* Mutant of Reschedules: an event follows every check.
ReschedulesAlways == phase = "recheck"

Reschedules == phase = "recheck" /\ found

CheckReturns ==
  /\ checking
  /\ LoopEnds
  /\ checking' = FALSE
  /\ j' = j + 1
  /\ LET k == (NumItems - 1) - j
     IN  IF Reschedules THEN ScheduleItem(n * NumItems + erand[k], k)
                        ELSE UNCHANGED <<events, given>>
  /\ UNCHANGED <<kind, at, found, counter, inputs, phase, n>>

\* Mutant of NextLoop: the outer loop does not advance.
NextLoopKeepsN ==
  /\ phase \in {"check", "recheck"}
  /\ ~checking
  /\ n < NumLoops /\ j = NumItems
  /\ j' = 0
  /\ UNCHANGED <<schedulerVars, inputs, phase, n, checking, given>>

NextLoop ==
  /\ phase \in {"check", "recheck"}
  /\ ~checking
  /\ n < NumLoops /\ j = NumItems
  /\ n' = n + 1
  /\ j' = 0
  /\ UNCHANGED <<schedulerVars, inputs, phase, checking, given>>

LoopsEnd ==
  /\ phase \in {"check", "recheck"}
  /\ n = NumLoops
  /\ phase' = IF phase = "check" THEN "refill" ELSE "done"
  /\ n' = 0 /\ j' = 0
  /\ UNCHANGED <<schedulerVars, inputs, checking, given>>

Next == Fill \/ FillEnds \/ Check \/ RunDue \/ CheckReturns \/ NextLoop \/ LoopsEnd

Spec == Init /\ [][Next]_vars /\ WF_vars(Next)

-----------------------------------------------------------------------------
(***************************************************************************)
(* Both schedulers keep the promise of Agenda: of the entries scheduled,   *)
(* each is run once, at a check that has reached its time, after those     *)
(* that were due before it.                                                *)
(***************************************************************************)
Pending ==
  LET entry(i) == <<events[i].time, events[i].event>>
  IN  [x \in {entry(i) : i \in DOMAIN events} |->
         Cardinality({i \in DOMAIN events : entry(i) = x})]

A == INSTANCE Agenda WITH Events <- Items, Times <- 0..((NumLoops + 1) * NumItems),
                          pending <- Pending, now <- at

ImplementsAgenda == A!Spec

\* What the entries at the places S add to the counter.
Work(entries, S) == MapThenSumSet(LAMBDA i : entries[i].class, S)

(***************************************************************************)
(* The work done and the work pending are the work that was asked for: no  *)
(* event is lost or run twice, and none is of another class than the one   *)
(* asked for, also through createOneEvent().  That has no events of class  *)
(* MaxClass or more, which a large argument of main() makes createEvents() *)
(* ask for: each of those is an event of class MaxClass - 1.               *)
(***************************************************************************)
WorkConserved == counter + Work(events, DOMAIN events) = given

(***************************************************************************)
(* The container never holds more than two entries for each item: in the   *)
(* last section an event is scheduled only in place of one that was run.   *)
(***************************************************************************)
PendingBound == Len(events) <= 2 * NumItems

(***************************************************************************)
(* The test ends: every check() runs out of due events, also in the last   *)
(* section, where an event may be scheduled at a time that has passed and  *)
(* so is found by the next check, which schedules another.                 *)
(***************************************************************************)
Ends == <>(phase = "done")
=============================================================================
