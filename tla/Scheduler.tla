----------------------------- MODULE Scheduler ------------------------------
(***************************************************************************)
(* SchedulerMultimap and SchedulerPriorityQueue (tests/scheduler).  Both   *)
(* keep their pending events in a container and, at check(time), execute   *)
(* and remove those that are due one by one.  The container is a sequence  *)
(* in order of insertion; what distinguishes the two is which of the       *)
(* earliest entries is the first.  Events are those of Event.cpp, which    *)
(* add their class to the counter the user hands them.                     *)
(***************************************************************************)
EXTENDS Integers, Sequences, SequencesExt

CONSTANTS Kinds,      \* the schedulers under test
          MaxClass    \* createOneEvent<0, MaxClass>: 100 in the code

ASSUME MaxClassAssumption == MaxClass \in Nat \ {0}

VARIABLES kind,      \* the class under test
          events,    \* the container: entries [time, event, class]
          at,        \* the argument of the check() under way or last made
          found,     \* its local variable
          counter    \* what the events add to

schedulerVars == <<kind, events, at, found, counter>>

\* Mutant of CreateOneEvent: the search keeps the middle in the lower half.
CreateOneEventLow(n) ==
  LET class[N \in (0..MaxClass) \X (0..MaxClass)] ==
        LET N1  == N[1]
            N2  == N[2]
            mid == (N1 + N2) \div 2
        IN  IF N1 = N2 \/ N1 = mid THEN N1
            ELSE IF n <= mid THEN class[<<N1, mid>>]
            ELSE class[<<mid, N2>>]
  IN  class[<<0, MaxClass>>]

(***************************************************************************)
(* createOneEvent<N1, N2>(n): a binary search through the templates.       *)
(***************************************************************************)
CreateOneEvent(n) ==
  LET class[N \in (0..MaxClass) \X (0..MaxClass)] ==
        LET N1  == N[1]
            N2  == N[2]
            mid == (N1 + N2) \div 2
        IN  IF N1 = N2 \/ N1 = mid THEN N1
            ELSE IF n < mid THEN class[<<N1, mid>>]
            ELSE IF n > mid THEN class[<<mid, N2>>]
            ELSE mid
  IN  class[<<0, MaxClass>>]

Earliest == {i \in DOMAIN events : \A k \in DOMAIN events : events[i].time <= events[k].time}

\* Mutant of First: the priority queue without its inverted operator<.
FirstIsLatest ==
  {i \in DOMAIN events : \A k \in DOMAIN events : events[i].time >= events[k].time}

(***************************************************************************)
(* std::multimap keeps equal keys in order of insertion, and begin() is    *)
(* the first of the earliest; top() of std::priority_queue, which orders   *)
(* by time alone, may be any of the earliest.                              *)
(***************************************************************************)
First ==
  IF kind = "multimap" THEN {i \in Earliest : \A k \in Earliest : i <= k} ELSE Earliest

SchedulerInit ==
  /\ kind \in Kinds
  /\ events = <<>>
  /\ at = 0
  /\ found = FALSE
  /\ counter = 0

Schedule(time, event, class) ==
  events' = Append(events, [time |-> time, event |-> event, class |-> class])

BeginCheck(time) ==
  /\ at' = time
  /\ found' = FALSE
  /\ UNCHANGED <<kind, events, counter>>

\* An iteration of the loop of check(): the first entry is due.
RunFirst ==
  \E i \in First :
    /\ events[i].time <= at
    /\ found' = TRUE
    /\ counter' = counter + events[i].class
    /\ events' = RemoveAt(events, i)
    /\ UNCHANGED <<kind, at>>

\* The loop of check() ends: nothing is left, or the first is not due.
LoopEnds == events = <<>> \/ \A i \in First : events[i].time > at
=============================================================================
