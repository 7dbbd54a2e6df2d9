------------------------------- MODULE Jitter -------------------------------
(***************************************************************************)
(* runAllTests() of tests/jitter/jitter.cpp: main() launches a thread for  *)
(* every core, which counts the pauses it meets in the Stats of that core, *)
(* and collects them; then it does so again at another priority, with the  *)
(* same Stats.  In the asynchronous mode the threads run side by side and  *)
(* are joined when they are collected, in the other each is joined before  *)
(* the next one is launched.                                               *)
(*                                                                         *)
(* Of a histogram the model keeps the total; the percentiles are left out. *)
(* How long a thread waits and how long main() sleeps order nothing.       *)
(* recorded counts the calls of add(): no code reads it.                   *)
(***************************************************************************)
EXTENDS Integers, FiniteSets, Functions

CONSTANTS NumCores,
          Tids,         \* the thread ids the library may hand out
          MayFail,      \* "create"
          MaxSamples    \* bound: pauses a thread meets

ASSUME NumCoresAssumption == NumCores \in Nat \ {0}
ASSUME TidsAssumption == Tids \subseteq Nat \ {0} /\ Cardinality(Tids) >= NumCores
ASSUME MaxSamplesAssumption == MaxSamples \in Nat

Cores == 0..(NumCores - 1)
NoTid == 0                           \* what a new Stats holds
MAX   == NumCores * MaxSamples * 2   \* above every count

VARIABLES
  async,                  \* the argument
  pc, pass, core,         \* main(): where it is, in which pass, its loop index
  tid, events,            \* the fields of each core's Stats ...
  count,                  \* ... and the total of its histogram
  minEvents,              \* min_events
  thread,                 \* tid -> [core, pc, reg, left], until it is joined
  recorded                \* history

stats == <<tid, events, count>>
mainVars == <<async, pass, minEvents>>
vars == <<async, pc, pass, core, tid, events, count, minEvents, thread, recorded>>

InEveryCore(x) == [c \in Cores |-> x]

Init ==
  /\ async \in BOOLEAN
  /\ pc = "launch" /\ pass = 1 /\ core = 0
  /\ tid = InEveryCore(NoTid)
  /\ events = InEveryCore(0) /\ count = InEveryCore(0)
  /\ minEvents = MAX
  /\ thread = <<>>
  /\ recorded = InEveryCore(0)

-----------------------------------------------------------------------------
(***************************************************************************)
(* A thread: runtest().  add() is a load and a store of the total.         *)
(***************************************************************************)
At(t, from, to) == thread[t].pc = from /\ thread' = [thread EXCEPT ![t].pc = to]

LoadCount(t) ==
  /\ thread[t].pc = "busy"
  /\ thread[t].left > 0
  /\ thread' = [thread EXCEPT ![t].pc = "adding", ![t].reg = count[thread[t].core]]
  /\ UNCHANGED <<mainVars, pc, core, stats, recorded>>

StoreCount(t) ==
  LET c == thread[t].core
  IN  /\ thread[t].pc = "adding"
      /\ thread' = [thread EXCEPT ![t].pc = "busy", ![t].left = @ - 1]
      /\ count' = [count EXCEPT ![c] = thread[t].reg + 1]
      /\ recorded' = [recorded EXCEPT ![c] = @ + 1]
      /\ UNCHANGED <<mainVars, pc, core, tid, events>>

\* busyWait() returns, however many pauses there were.  The lines the thread
\* prints are left out.
Finish(t) ==
  /\ At(t, "busy", "ended")
  /\ events' = [events EXCEPT ![thread[t].core] = count[thread[t].core]]
  /\ UNCHANGED <<mainVars, pc, core, tid, count, recorded>>

Run(t) == LoadCount(t) \/ StoreCount(t) \/ Finish(t)

-----------------------------------------------------------------------------
(***************************************************************************)
(* runJitterTestInCore().  A pthread_create() that fails is reported, and  *)
(* main() goes on with what is in tid: what was there, or the id the       *)
(* library had picked.                                                     *)
(***************************************************************************)
FreeTids == Tids \ DOMAIN thread

Launched ==
  /\ pc = "launch" /\ core < NumCores
  /\ IF async THEN pc' = "launch" /\ core' = core + 1 ELSE pc' = "join" /\ core' = core

\* The thread main() has made, with its argument.
Begun(t) ==
  [u \in DOMAIN thread \cup {t} |->
     IF u = t THEN [core |-> core, pc |-> "busy", reg |-> 0, left |-> MaxSamples] ELSE thread[u]]

Launch ==
  /\ Launched
  /\ \E t \in FreeTids :
       /\ tid' = [tid EXCEPT ![core] = t]
       /\ thread' = Begun(t)
  /\ UNCHANGED <<mainVars, events, count, recorded>>

LaunchFails ==
  /\ "create" \in MayFail
  /\ Launched
  /\ \E t \in FreeTids \cup {tid[core]} : tid' = [tid EXCEPT ![core] = t]
  /\ UNCHANGED <<mainVars, events, count, thread, recorded>>

(***************************************************************************)
(* pthread_join().  A thread may be joined through an id that was meant    *)
(* for another.  Without such a thread the call is undefined: the library  *)
(* finds that out and returns, or it follows the id and crashes.           *)
(***************************************************************************)
Joined(next) ==
  LET t == tid[core]
  IN  \/ /\ t \in DOMAIN thread
         /\ thread[t].pc = "ended"
         /\ thread' = Restrict(thread, DOMAIN thread \ {t})
         /\ pc' = next
      \/ /\ t \notin DOMAIN thread
         /\ pc' \in {next, "crashed"}
         /\ UNCHANGED thread

\* Mutant of JoinSync: the loop does not advance.
JoinSyncRepeats ==
  /\ pc = "join"
  /\ Joined("launch")
  /\ UNCHANGED <<mainVars, core, stats, recorded>>

JoinSync ==
  /\ pc = "join"
  /\ Joined("launch")
  /\ core' = core + 1
  /\ UNCHANGED <<mainVars, stats, recorded>>

LaunchesEnd ==
  /\ pc = "launch" /\ core = NumCores
  /\ pc' = "collect" /\ core' = 0
  /\ UNCHANGED <<mainVars, stats, thread, recorded>>

\* Mutant of Collect: nobody is joined.
CollectUnjoined ==
  /\ pc = "collect" /\ core < NumCores
  /\ pc' = "read"
  /\ UNCHANGED <<mainVars, core, stats, thread, recorded>>

Collect ==
  /\ pc = "collect" /\ core < NumCores
  /\ IF async THEN Joined("read") ELSE pc' = "read" /\ UNCHANGED thread
  /\ UNCHANGED <<mainVars, core, stats, recorded>>

\* Mutant of Read: the number is not compared with the least before.
ReadLast ==
  /\ pc = "read"
  /\ pc' = "collect" /\ core' = core + 1
  /\ minEvents' = IF pass = 1 THEN events[core] ELSE minEvents
  /\ UNCHANGED <<async, pass, stats, thread, recorded>>

\* The first pass finds the least number of events; the second only prints.
Read ==
  /\ pc = "read"
  /\ pc' = "collect" /\ core' = core + 1
  /\ minEvents' = IF pass = 1 /\ events[core] < minEvents THEN events[core] ELSE minEvents
  /\ UNCHANGED <<async, pass, stats, thread, recorded>>

PassEnds ==
  /\ pc = "collect" /\ core = NumCores
  /\ IF pass = 1 THEN pass' = 2 /\ pc' = "launch" ELSE pass' = pass /\ pc' = "done"
  /\ core' = 0
  /\ UNCHANGED <<async, minEvents, stats, thread, recorded>>

Main == Launch \/ LaunchFails \/ JoinSync \/ LaunchesEnd \/ Collect \/ Read \/ PassEnds

Next == Main \/ \E t \in DOMAIN thread : Run(t)

(***************************************************************************)
(* The system runs main() and every thread.                                *)
(***************************************************************************)
Spec == /\ Init
        /\ [][Next]_vars
        /\ WF_vars(Main)
        /\ \A t \in Tids : WF_vars(t \in DOMAIN thread /\ Run(t))

-----------------------------------------------------------------------------
(***************************************************************************)
(* main() and the threads do not meet in a Stats: when main() reads or     *)
(* writes that of a core, or drops all of them at the end, no thread is at *)
(* work on it, and never are two.  So it is although after a failed        *)
(* pthread_create() a thread may be joined through another's id.           *)
(***************************************************************************)
Working(c) == {t \in DOMAIN thread : thread[t].core = c /\ thread[t].pc # "ended"}

NoStatsShared ==
  /\ \A c \in Cores : Cardinality(Working(c)) <= 1
  /\ pc \in {"read", "launch"} /\ core < NumCores => Working(core) = {}
  /\ pc = "done" => DOMAIN thread = {}

(***************************************************************************)
(* The excess of events the second pass prints counts every pause that was *)
(* met on the core, over both passes, none lost to another thread; and it  *)
(* is not negative, also when the second thread met no pause or was not    *)
(* launched: the histogram still has what the first pass counted.          *)
(***************************************************************************)
ExcessNotNegative ==
  pass = 2 /\ pc = "read" => minEvents <= count[core] /\ count[core] = recorded[core]

(***************************************************************************)
(* main() ends, or a join of a thread that is not there has crashed it.    *)
(***************************************************************************)
Ends == <>(pc \in {"done", "crashed"})
=============================================================================
