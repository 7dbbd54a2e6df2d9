---------------------------- MODULE JitterProofs ----------------------------
(***************************************************************************)
(* What main() and the threads of the jitter test share, and what they     *)
(* count, for any number of cores, thread ids and pauses.                  *)
(***************************************************************************)
EXTENDS Jitter, FiniteSetTheorems, TLAPS

Threads == [core : Cores, pc : {"busy", "adding", "ended"}, reg : Nat, left : Int]

JitterTypes ==
  /\ pc \in {"launch", "join", "collect", "read", "done", "crashed"}
  /\ pass \in {1, 2}
  /\ core \in 0..NumCores
  /\ pc \in {"join", "read"} => core < NumCores
  /\ DOMAIN tid = Cores
  /\ events \in [Cores -> Nat] /\ count \in [Cores -> Nat] /\ recorded \in [Cores -> Nat]
  /\ minEvents \in Nat
  /\ \A t \in DOMAIN thread : thread[t] \in Threads

\* A core's Stats has the id of its thread: what a failed launch puts there is
\* overwritten before a thread of that core is made, and never while there is one.
OwnId == \A t \in DOMAIN thread : tid[thread[t].core] = t

\* Which cores may have a thread, by where main() is.
ThreadsBy ==
  /\ pc = "launch" => \A t \in DOMAIN thread : thread[t].core < core
  /\ pc = "join" => ~async /\ \A t \in DOMAIN thread : thread[t].core = core
  /\ pc = "collect" => \A t \in DOMAIN thread : thread[t].core >= core
  /\ pc = "read" => \A t \in DOMAIN thread : thread[t].core > core
  /\ pc = "done" => DOMAIN thread = {}
  /\ ~async /\ pc \in {"launch", "collect", "read"} => DOMAIN thread = {}

SharedInv == JitterTypes /\ OwnId /\ ThreadsBy

-----------------------------------------------------------------------------
LEMMA CoresFacts ==
  /\ NumCores \in Nat /\ NumCores > 0
  /\ \A c : c \in Cores <=> c \in Int /\ 0 <= c /\ c < NumCores
BY NumCoresAssumption DEF Cores

LEMMA SharedInit == Init => SharedInv
<1> SUFFICES ASSUME Init PROVE SharedInv OBVIOUS
<1>1. /\ pc = "launch" /\ pass = 1 /\ core = 0 /\ DOMAIN thread = {}
      /\ tid = InEveryCore(NoTid) /\ events = InEveryCore(0) /\ count = InEveryCore(0)
      /\ recorded = InEveryCore(0) /\ minEvents = MAX
  BY DEF Init
<1>2. MAX \in Nat
  BY NumCoresAssumption, MaxSamplesAssumption DEF MAX
<1>3. JitterTypes
  BY <1>1, <1>2, NumCoresAssumption DEF JitterTypes, InEveryCore
<1> QED BY <1>1, <1>3 DEF SharedInv, OwnId, ThreadsBy

\* A step of a thread changes neither who it works for nor who there is.
LEMMA RunShared ==
  ASSUME SharedInv, NEW t \in DOMAIN thread, Run(t)
  PROVE  SharedInv'
<1>0. thread[t] \in Threads /\ thread[t].core \in Cores
  BY DEF SharedInv, JitterTypes, Threads
<1>1. /\ UNCHANGED <<async, pass, pc, core, tid, minEvents>>
      /\ DOMAIN thread' = DOMAIN thread
  BY DEF Run, LoadCount, StoreCount, Finish, At, mainVars, stats
<1>2. \A u \in DOMAIN thread : thread'[u] \in Threads /\ thread'[u].core = thread[u].core
  <2> SUFFICES ASSUME NEW u \in DOMAIN thread
               PROVE  thread'[u] \in Threads /\ thread'[u].core = thread[u].core
    OBVIOUS
  <2>0. thread[u] \in Threads /\ count[thread[t].core] \in Nat
    BY <1>0 DEF SharedInv, JitterTypes
  <2>1. CASE LoadCount(t)
    BY <2>0, <2>1, <1>0 DEF LoadCount, Threads
  <2>2. CASE StoreCount(t)
    BY <2>0, <2>2, <1>0 DEF StoreCount, Threads
  <2>3. CASE Finish(t)
    BY <2>0, <2>3, <1>0 DEF Finish, At, Threads
  <2> QED BY <2>1, <2>2, <2>3 DEF Run
<1>3. /\ events' \in [Cores -> Nat] /\ count' \in [Cores -> Nat] /\ recorded' \in [Cores -> Nat]
  <2>0. /\ events \in [Cores -> Nat] /\ count \in [Cores -> Nat] /\ recorded \in [Cores -> Nat]
        /\ thread[t].reg \in Nat
    BY <1>0 DEF SharedInv, JitterTypes, Threads
  <2>1. CASE LoadCount(t)
    BY <2>0, <2>1 DEF LoadCount, stats
  <2>2. CASE StoreCount(t)
    BY <2>0, <2>2, <1>0 DEF StoreCount
  <2>3. CASE Finish(t)
    BY <2>0, <2>3, <1>0 DEF Finish
  <2> QED BY <2>1, <2>2, <2>3 DEF Run
<1>4. JitterTypes'
  BY <1>1, <1>2, <1>3 DEF SharedInv, JitterTypes
<1>5. OwnId'
  BY <1>1, <1>2 DEF SharedInv, OwnId
<1>6. ThreadsBy'
  BY <1>1, <1>2 DEF SharedInv, ThreadsBy
<1> QED BY <1>4, <1>5, <1>6 DEF SharedInv

\* A new thread is the only one of its core.
LEMMA LaunchShared == SharedInv /\ Launch => SharedInv'
<1> SUFFICES ASSUME SharedInv, Launch PROVE SharedInv' OBVIOUS
<1>1. PICK t \in FreeTids : tid' = [tid EXCEPT ![core] = t] /\ thread' = Begun(t)
  BY DEF Launch
<1>2. /\ pc = "launch" /\ core < NumCores
      /\ IF async THEN pc' = "launch" /\ core' = core + 1 ELSE pc' = "join" /\ core' = core
      /\ UNCHANGED <<async, pass, minEvents, events, count, recorded>>
  BY DEF Launch, Launched, mainVars
<1>3. core \in Cores /\ DOMAIN tid = Cores /\ t \notin DOMAIN thread
  BY <1>2, CoresFacts DEF SharedInv, JitterTypes, FreeTids
<1>4. /\ DOMAIN thread' = DOMAIN thread \cup {t}
      /\ thread'[t] = [core |-> core, pc |-> "busy", reg |-> 0, left |-> MaxSamples]
      /\ \A u \in DOMAIN thread : thread'[u] = thread[u] /\ thread[u].core < core
      /\ ~async => DOMAIN thread = {}
  BY <1>1, <1>2, <1>3 DEF Begun, SharedInv, ThreadsBy
<1>5. JitterTypes'
  <2>1. thread'[t] \in Threads
    BY <1>3, <1>4, MaxSamplesAssumption DEF Threads
  <2>2. \A u \in DOMAIN thread' : thread'[u] \in Threads
    BY <1>4, <2>1 DEF SharedInv, JitterTypes
  <2>3. DOMAIN tid' = Cores BY <1>1, <1>3
  <2>4. /\ pc' \in {"launch", "join"} /\ core' \in 0..NumCores
        /\ pc' = "join" => core' < NumCores
    BY <1>2, CoresFacts DEF SharedInv, JitterTypes
  <2> QED BY <1>2, <2>2, <2>3, <2>4 DEF SharedInv, JitterTypes
<1>6. OwnId'
  <2> SUFFICES ASSUME NEW u \in DOMAIN thread' PROVE tid'[thread'[u].core] = u
    BY DEF OwnId
  <2>1. CASE u = t
    BY <1>1, <1>3, <1>4, <2>1
  <2>2. CASE u # t
    <3>1. u \in DOMAIN thread /\ thread'[u].core = thread[u].core /\ thread[u].core # core
      BY <1>4, <2>2, CoresFacts DEF SharedInv, JitterTypes, Threads
    <3>2. tid'[thread[u].core] = tid[thread[u].core]
      BY <1>1, <3>1
    <3> QED BY <3>1, <3>2 DEF SharedInv, OwnId
  <2> QED BY <2>1, <2>2
<1>7. ThreadsBy'
  <2>1. CASE async
    <3>1. /\ pc' = "launch" /\ core' = core + 1 /\ async'
          /\ core \in Int /\ \A u \in DOMAIN thread : thread[u].core \in Int
      BY <1>2, <1>3, <2>1, CoresFacts DEF SharedInv, JitterTypes, Threads
    <3>2. \A u \in DOMAIN thread' : thread'[u].core < core'
      BY <1>4, <3>1
    <3> QED BY <3>1, <3>2 DEF ThreadsBy
  <2>2. CASE ~async
    BY <1>2, <1>4, <2>2 DEF ThreadsBy
  <2> QED BY <2>1, <2>2
<1> QED BY <1>5, <1>6, <1>7 DEF SharedInv

\* There is no thread of the core whose id a failed launch replaces.
LEMMA LaunchFailsShared == SharedInv /\ LaunchFails => SharedInv'
<1> SUFFICES ASSUME SharedInv, LaunchFails PROVE SharedInv' OBVIOUS
<1>1. PICK t : tid' = [tid EXCEPT ![core] = t]
  BY DEF LaunchFails
<1>2. /\ pc = "launch" /\ core < NumCores
      /\ IF async THEN pc' = "launch" /\ core' = core + 1 ELSE pc' = "join" /\ core' = core
      /\ UNCHANGED <<async, pass, minEvents, events, count, thread, recorded>>
  BY DEF LaunchFails, Launched, mainVars
<1>3. core \in Int /\ \A u \in DOMAIN thread : thread[u].core \in Int /\ thread[u].core < core
  BY <1>2, CoresFacts DEF SharedInv, JitterTypes, Threads, ThreadsBy
<1>4. JitterTypes'
  <2>1. DOMAIN tid' = Cores BY <1>1 DEF SharedInv, JitterTypes
  <2>2. /\ pc' \in {"launch", "join"} /\ core' \in 0..NumCores
        /\ pc' = "join" => core' < NumCores
    BY <1>2, CoresFacts DEF SharedInv, JitterTypes
  <2> QED BY <1>2, <2>1, <2>2 DEF SharedInv, JitterTypes
<1>5. OwnId'
  <2>1. \A u \in DOMAIN thread : tid'[thread[u].core] = tid[thread[u].core]
    BY <1>1, <1>3
  <2> QED BY <1>2, <2>1 DEF SharedInv, OwnId
<1>6. ThreadsBy'
  <2>1. CASE async
    BY <1>2, <1>3, <2>1 DEF ThreadsBy
  <2>2. CASE ~async
    BY <1>2, <2>2 DEF SharedInv, ThreadsBy
  <2> QED BY <2>1, <2>2
<1> QED BY <1>4, <1>5, <1>6 DEF SharedInv

\* Whichever way a join returns, the core's own thread is no more: nobody else has
\* its id, and no thread of another core is gone unless its id was in its place.
LEMMA JoinedGone ==
  ASSUME SharedInv, NEW next, Joined(next)
  PROVE  /\ DOMAIN thread' \subseteq DOMAIN thread
         /\ \A u \in DOMAIN thread' : thread'[u] = thread[u] /\ thread[u].core # core
         /\ pc' \in {next, "crashed"}
<1>1. \A u \in DOMAIN thread : thread[u].core = core => u = tid[core]
  BY DEF SharedInv, OwnId
<1>2. CASE tid[core] \in DOMAIN thread
  BY <1>1, <1>2 DEF Joined, Restrict
<1>3. CASE tid[core] \notin DOMAIN thread
  BY <1>1, <1>3 DEF Joined
<1> QED BY <1>2, <1>3

LEMMA JoinSyncShared == SharedInv /\ JoinSync => SharedInv'
<1> SUFFICES ASSUME SharedInv, JoinSync PROVE SharedInv' OBVIOUS
<1>1. /\ pc = "join" /\ core' = core + 1
      /\ UNCHANGED <<async, pass, minEvents, tid, events, count, recorded>>
  BY DEF JoinSync, mainVars, stats
<1>2. DOMAIN thread' = {} /\ pc' \in {"launch", "crashed"}
  <2>1. \A u \in DOMAIN thread : thread[u].core = core
    BY <1>1 DEF SharedInv, ThreadsBy
  <2>2. Joined("launch") BY DEF JoinSync
  <2> QED BY <2>1, <2>2, JoinedGone
<1>3. core' \in 0..NumCores
  BY <1>1, CoresFacts DEF SharedInv, JitterTypes
<1>4. JitterTypes' BY <1>1, <1>2, <1>3 DEF SharedInv, JitterTypes
<1> QED BY <1>2, <1>4 DEF SharedInv, OwnId, ThreadsBy

LEMMA CollectShared == SharedInv /\ Collect => SharedInv'
<1> SUFFICES ASSUME SharedInv, Collect PROVE SharedInv' OBVIOUS
<1>1. /\ pc = "collect" /\ core < NumCores
      /\ UNCHANGED <<async, core, pass, minEvents, tid, events, count, recorded>>
  BY DEF Collect, mainVars, stats
<1>2. /\ DOMAIN thread' \subseteq DOMAIN thread /\ pc' \in {"read", "crashed"}
      /\ \A u \in DOMAIN thread' : thread'[u] = thread[u] /\ thread[u].core # core
  <2>1. CASE async
    <3>1. Joined("read") BY <2>1 DEF Collect
    <3> QED BY <3>1, JoinedGone
  <2>2. CASE ~async
    BY <1>1, <2>2 DEF Collect, SharedInv, ThreadsBy
  <2> QED BY <2>1, <2>2
<1>3. \A u \in DOMAIN thread' : thread'[u].core > core
  <2>1. /\ \A u \in DOMAIN thread : thread[u].core >= core /\ thread[u].core \in Int
        /\ core \in Int
    BY <1>1, CoresFacts DEF SharedInv, JitterTypes, Threads, ThreadsBy
  <2> QED BY <1>2, <2>1
<1>4. JitterTypes' BY <1>1, <1>2 DEF SharedInv, JitterTypes
<1>5. OwnId' BY <1>1, <1>2 DEF SharedInv, OwnId
<1>6. ThreadsBy' BY <1>1, <1>2, <1>3 DEF SharedInv, ThreadsBy
<1> QED BY <1>4, <1>5, <1>6 DEF SharedInv

\* The steps of main() that only move on.
LEMMA MovesShared == SharedInv /\ (LaunchesEnd \/ Read \/ PassEnds) => SharedInv'
<1> SUFFICES ASSUME SharedInv, LaunchesEnd \/ Read \/ PassEnds PROVE SharedInv' OBVIOUS
<1>0. /\ core \in Int
      /\ \A u \in DOMAIN thread :
           thread[u].core \in Int /\ 0 <= thread[u].core /\ thread[u].core < NumCores
  BY CoresFacts DEF SharedInv, JitterTypes, Threads
<1>1. UNCHANGED <<async, tid, events, count, thread, recorded>>
  BY DEF LaunchesEnd, Read, PassEnds, mainVars, stats
<1>2. OwnId' BY <1>1 DEF SharedInv, OwnId
<1>3. CASE LaunchesEnd
  <2>1. pc = "launch" /\ pc' = "collect" /\ core' = 0 /\ UNCHANGED <<pass, minEvents>>
    BY <1>3 DEF LaunchesEnd, mainVars
  <2>2. JitterTypes' BY <1>1, <2>1, CoresFacts DEF SharedInv, JitterTypes
  <2>3. ThreadsBy' BY <1>0, <1>1, <2>1 DEF SharedInv, ThreadsBy
  <2> QED BY <1>2, <2>2, <2>3 DEF SharedInv
<1>4. CASE Read
  <2>1. /\ pc = "read" /\ pc' = "collect" /\ core' = core + 1 /\ UNCHANGED pass
        /\ minEvents' \in {events[core], minEvents} /\ core \in Cores
    BY <1>4, CoresFacts DEF Read, SharedInv, JitterTypes
  <2>2. JitterTypes' BY <1>1, <2>1, CoresFacts DEF SharedInv, JitterTypes
  <2>3. \A u \in DOMAIN thread : thread[u].core >= core'
    BY <1>0, <2>1 DEF SharedInv, ThreadsBy
  <2>4. ThreadsBy' BY <1>1, <2>1, <2>3 DEF SharedInv, ThreadsBy
  <2> QED BY <1>2, <2>2, <2>4 DEF SharedInv
<1>5. CASE PassEnds
  <2>1. /\ pc = "collect" /\ core = NumCores /\ core' = 0 /\ UNCHANGED minEvents
        /\ pass' \in {1, 2} /\ pc' \in {"launch", "done"}
    BY <1>5 DEF PassEnds, SharedInv, JitterTypes
  <2>2. DOMAIN thread = {}
    <3>1. \A u \in DOMAIN thread : thread[u].core >= core
      BY <2>1 DEF SharedInv, ThreadsBy
    <3>2. SUFFICES ASSUME NEW u \in DOMAIN thread PROVE FALSE OBVIOUS
    <3>3. thread[u].core \in Int /\ thread[u].core < NumCores /\ thread[u].core >= core
      BY <1>0, <3>1
    <3> QED BY <2>1, <3>3, CoresFacts
  <2>3. JitterTypes' BY <1>1, <2>1, CoresFacts DEF SharedInv, JitterTypes
  <2>4. ThreadsBy' BY <1>1, <2>1, <2>2 DEF ThreadsBy
  <2> QED BY <1>2, <2>3, <2>4 DEF SharedInv
<1> QED BY <1>3, <1>4, <1>5

LEMMA SharedStep == SharedInv /\ [Next]_vars => SharedInv'
<1> SUFFICES ASSUME SharedInv, [Next]_vars PROVE SharedInv' OBVIOUS
<1>1. CASE UNCHANGED vars
  <2>1. UNCHANGED <<async, pc, pass, core, tid, events, count, minEvents, thread, recorded>>
    BY <1>1 DEF vars
  <2> QED BY <2>1 DEF SharedInv, JitterTypes, OwnId, ThreadsBy
<1>2. CASE Main
  BY <1>2, LaunchShared, LaunchFailsShared, JoinSyncShared, CollectShared, MovesShared DEF Main
<1>3. CASE \E t \in DOMAIN thread : Run(t)
  BY <1>3, RunShared
<1> QED BY <1>1, <1>2, <1>3 DEF Next

LEMMA SharedInvariant == Spec => []SharedInv
  BY SharedInit, SharedStep, PTL DEF Spec

(***************************************************************************)
(* main() of the jitter test and its threads never meet in a Stats, in     *)
(* both modes, whichever threads cannot be created and whatever ids the    *)
(* thread library hands out.                                               *)
(***************************************************************************)
THEOREM StatsNotShared == Spec => []NoStatsShared
<1>1. SharedInv => NoStatsShared
  <2> SUFFICES ASSUME SharedInv PROVE NoStatsShared OBVIOUS
  <2>1. ASSUME NEW c \in Cores PROVE Cardinality(Working(c)) <= 1
    <3>1. Working(c) \subseteq {tid[c]}
      BY DEF Working, SharedInv, OwnId
    <3>2. IsFiniteSet({tid[c]}) /\ Cardinality({tid[c]}) = 1
      BY FS_Singleton
    <3> QED BY <3>1, <3>2, FS_Subset
  <2>2. ASSUME pc \in {"read", "launch"}, core < NumCores PROVE Working(core) = {}
    <3>1. \A t \in DOMAIN thread : thread[t].core # core
      BY <2>2, CoresFacts DEF SharedInv, JitterTypes, Threads, ThreadsBy
    <3> QED BY <3>1 DEF Working
  <2>3. pc = "done" => DOMAIN thread = {}
    BY DEF SharedInv, ThreadsBy
  <2> QED BY <2>1, <2>2, <2>3 DEF NoStatsShared
<1> QED BY <1>1, SharedInvariant, PTL

-----------------------------------------------------------------------------
(***************************************************************************)
(* What the Stats count.  A thread that is between the load and the store  *)
(* of a total still has that total, since its core's Stats are its own;    *)
(* and the least number of events is no more than any total it was taken   *)
(* over.                                                                   *)
(***************************************************************************)
AddsItsOwn ==
  \A t \in DOMAIN thread : thread[t].pc = "adding" => thread[t].reg = count[thread[t].core]

Counted(c) == pass = 2 \/ (pc \in {"collect", "read"} /\ c < core)

CountInv ==
  /\ AddsItsOwn
  /\ \A c \in Cores : count[c] = recorded[c] /\ events[c] <= count[c]
  /\ \A c \in Cores : Counted(c) => minEvents <= count[c]

LEMMA CountInit == Init => CountInv
<1> SUFFICES ASSUME Init PROVE CountInv OBVIOUS
<1>1. /\ pc = "launch" /\ pass = 1 /\ DOMAIN thread = {}
      /\ events = InEveryCore(0) /\ count = InEveryCore(0) /\ recorded = InEveryCore(0)
  BY DEF Init
<1> QED BY <1>1 DEF CountInv, AddsItsOwn, Counted, InEveryCore

\* What a thread of the core adds to is not another's.
LEMMA RunCounts ==
  ASSUME SharedInv, CountInv, NEW t \in DOMAIN thread, Run(t)
  PROVE  CountInv'
<1> DEFINE c == thread[t].core
<1>0. /\ c \in Cores /\ thread[t].reg \in Nat
      /\ events \in [Cores -> Nat] /\ count \in [Cores -> Nat] /\ recorded \in [Cores -> Nat]
      /\ minEvents \in Nat
  BY DEF SharedInv, JitterTypes, Threads
<1>1. \A u \in DOMAIN thread : thread[u].core \in Cores /\ (u # t => thread[u].core # c)
  BY DEF SharedInv, JitterTypes, OwnId, Threads
<1>2. UNCHANGED <<pass, pc, core, minEvents>> /\ DOMAIN thread' = DOMAIN thread
  BY DEF Run, LoadCount, StoreCount, Finish, At, mainVars, stats
<1>3. CASE LoadCount(t)
  <2>1. /\ thread' = [thread EXCEPT ![t].pc = "adding", ![t].reg = count[c]]
        /\ UNCHANGED <<events, count, recorded>>
    BY <1>3 DEF LoadCount, stats
  <2>2. AddsItsOwn'
    <3> SUFFICES ASSUME NEW u \in DOMAIN thread, thread'[u].pc = "adding"
                 PROVE  thread'[u].reg = count[thread'[u].core]
      BY <1>2, <2>1 DEF AddsItsOwn
    <3>1. CASE u = t
      <4>1. thread[t] \in Threads BY DEF SharedInv, JitterTypes
      <4> QED BY <2>1, <3>1, <4>1 DEF Threads
    <3>2. CASE u # t
      BY <2>1, <3>2 DEF CountInv, AddsItsOwn
    <3> QED BY <3>1, <3>2
  <2> QED BY <1>2, <2>1, <2>2 DEF CountInv, Counted
<1>4. CASE StoreCount(t)
  <2>1. /\ thread[t].pc = "adding"
        /\ thread' = [thread EXCEPT ![t].pc = "busy", ![t].left = @ - 1]
        /\ count' = [count EXCEPT ![c] = thread[t].reg + 1]
        /\ recorded' = [recorded EXCEPT ![c] = @ + 1]
        /\ UNCHANGED events
    BY <1>4 DEF StoreCount
  <2>2. thread[t].reg = count[c]
    BY <2>1 DEF CountInv, AddsItsOwn
  <2>3. /\ count'[c] = count[c] + 1 /\ recorded'[c] = recorded[c] + 1
        /\ \A d \in Cores : d # c => count'[d] = count[d] /\ recorded'[d] = recorded[d]
    BY <1>0, <2>1, <2>2
  <2>4. AddsItsOwn'
    <3> SUFFICES ASSUME NEW u \in DOMAIN thread, thread'[u].pc = "adding"
                 PROVE  thread'[u].reg = count'[thread'[u].core]
      BY <1>2 DEF AddsItsOwn
    <3>1. u # t
      <4>1. thread[t] \in Threads BY DEF SharedInv, JitterTypes
      <4> QED BY <2>1, <4>1 DEF Threads
    <3>2. thread'[u] = thread[u] BY <2>1, <3>1
    <3>3. thread[u].core \in Cores /\ thread[u].core # c BY <1>1, <3>1
    <3> QED BY <2>3, <3>2, <3>3 DEF CountInv, AddsItsOwn
  <2>5. \A d \in Cores : count'[d] = recorded'[d] /\ events[d] <= count'[d]
                         /\ count[d] <= count'[d]
    <3> TAKE d \in Cores
    <3>1. count[d] \in Nat /\ events[d] \in Nat /\ count[d] = recorded[d] /\ events[d] <= count[d]
      BY <1>0 DEF CountInv
    <3> QED BY <2>3, <3>1
  <2>6. \A d \in Cores : Counted(d) => minEvents <= count'[d]
    <3> SUFFICES ASSUME NEW d \in Cores, Counted(d) PROVE minEvents <= count'[d] OBVIOUS
    <3>1. minEvents <= count[d] /\ count[d] <= count'[d] BY <2>5 DEF CountInv
    <3>2. count[d] \in Nat /\ minEvents \in Nat BY <1>0
    <3>3. count'[d] \in Nat BY <2>3, <3>2
    <3> QED BY <3>1, <3>2, <3>3
  <2> QED BY <1>2, <2>1, <2>4, <2>5, <2>6 DEF CountInv, Counted
<1>5. CASE Finish(t)
  <2>1. /\ thread' = [thread EXCEPT ![t].pc = "ended"]
        /\ events' = [events EXCEPT ![c] = count[c]]
        /\ UNCHANGED <<count, recorded>>
    BY <1>5 DEF Finish, At
  <2>2. AddsItsOwn'
    <3> SUFFICES ASSUME NEW u \in DOMAIN thread, thread'[u].pc = "adding"
                 PROVE  thread'[u].reg = count[thread'[u].core]
      BY <1>2, <2>1 DEF AddsItsOwn
    <3>1. u # t
      <4>1. thread[t] \in Threads BY DEF SharedInv, JitterTypes
      <4> QED BY <2>1, <4>1 DEF Threads
    <3> QED BY <2>1, <3>1 DEF CountInv, AddsItsOwn
  <2>3. \A d \in Cores : events'[d] <= count[d]
    BY <1>0, <2>1 DEF CountInv
  <2> QED BY <1>2, <2>1, <2>2, <2>3 DEF CountInv, Counted
<1> QED BY <1>3, <1>4, <1>5 DEF Run

\* A new thread has loaded nothing; main() takes the least of what it has read.
LEMMA MainCounts ==
  ASSUME SharedInv, CountInv, Main
  PROVE  CountInv'
<1>0. /\ events \in [Cores -> Nat] /\ count \in [Cores -> Nat]
      /\ minEvents \in Nat /\ core \in Int /\ pass \in {1, 2}
      /\ \A c \in Cores : c \in Int /\ 0 <= c /\ c < NumCores
  BY CoresFacts DEF SharedInv, JitterTypes
<1>1. UNCHANGED <<events, count, recorded>>
  BY DEF Main, Launch, LaunchFails, JoinSync, LaunchesEnd, Collect, Read, PassEnds, stats
<1>2. AddsItsOwn'
  <2>1. CASE Launch
    <3>1. PICK t \in FreeTids : thread' = Begun(t)
      BY <2>1 DEF Launch
    <3>2. \A u \in DOMAIN thread' :
             (thread'[u] = thread[u] /\ u \in DOMAIN thread) \/ thread'[u].pc = "busy"
      BY <3>1 DEF Begun
    <3> QED BY <1>1, <3>2 DEF CountInv, AddsItsOwn
  <2>2. CASE JoinSync \/ Collect
    <3>1. \A u \in DOMAIN thread' : u \in DOMAIN thread /\ thread'[u] = thread[u]
      BY <2>2, JoinedGone DEF JoinSync, Collect
    <3> QED BY <1>1, <3>1 DEF CountInv, AddsItsOwn
  <2>3. CASE LaunchFails \/ LaunchesEnd \/ Read \/ PassEnds
    <3>1. UNCHANGED thread
      BY <2>3 DEF LaunchFails, LaunchesEnd, Read, PassEnds
    <3> QED BY <1>1, <3>1 DEF CountInv, AddsItsOwn
  <2> QED BY <2>1, <2>2, <2>3 DEF Main
<1>3. ASSUME NEW c \in Cores, Counted(c)' PROVE minEvents' <= count[c]
  <2>1. CASE Launch \/ LaunchFails \/ JoinSync \/ LaunchesEnd
    <3>1. UNCHANGED <<pass, minEvents>>
      BY <2>1 DEF Launch, LaunchFails, JoinSync, LaunchesEnd, mainVars
    <3>2. pc' \notin {"collect", "read"} \/ core' = 0
      BY <2>1 DEF Launch, LaunchFails, Launched, JoinSync, Joined, LaunchesEnd
    <3>3. pass = 2
      BY <1>0, <1>3, <3>1, <3>2 DEF Counted
    <3> QED BY <3>1, <3>3 DEF CountInv, Counted
  <2>2. CASE Collect
    <3>1. pc = "collect" /\ UNCHANGED <<pass, minEvents, core>>
      BY <2>2 DEF Collect, mainVars
    <3>2. Counted(c) BY <1>3, <3>1 DEF Counted
    <3> QED BY <3>1, <3>2 DEF CountInv
  <2>3. CASE Read
    <3>1. /\ pc = "read" /\ core' = core + 1 /\ UNCHANGED pass /\ core \in Cores
          /\ minEvents' = IF pass = 1 /\ events[core] < minEvents
                          THEN events[core] ELSE minEvents
      BY <2>3, CoresFacts DEF Read, SharedInv, JitterTypes
    <3>2. events[core] \in Nat /\ minEvents' \in Nat /\ minEvents' <= minEvents
      BY <1>0, <3>1
    <3>3. CASE Counted(c)
      <4>1. minEvents <= count[c] /\ count[c] \in Nat BY <1>0, <3>3 DEF CountInv
      <4> QED BY <1>0, <3>2, <4>1
    <3>4. CASE ~Counted(c)
      <4>1. pass = 1 /\ c = core
        BY <1>0, <1>3, <3>1, <3>4 DEF Counted
      <4>2. minEvents' <= events[core] BY <1>0, <3>1, <3>2, <4>1
      <4>3. events[core] <= count[core] BY <3>1 DEF CountInv
      <4>4. count[core] \in Nat BY <1>0, <3>1
      <4> QED BY <3>2, <4>1, <4>2, <4>3, <4>4
    <3> QED BY <3>3, <3>4
  <2>4. CASE PassEnds
    <3>1. pc = "collect" /\ core = NumCores /\ UNCHANGED minEvents
      BY <2>4 DEF PassEnds
    <3>2. Counted(c) BY <1>0, <3>1 DEF Counted
    <3> QED BY <3>1, <3>2 DEF CountInv
  <2> QED BY <2>1, <2>2, <2>3, <2>4 DEF Main
<1> QED BY <1>1, <1>2, <1>3 DEF CountInv

LEMMA CountStep == SharedInv /\ CountInv /\ [Next]_vars => CountInv'
<1> SUFFICES ASSUME SharedInv, CountInv, [Next]_vars PROVE CountInv' OBVIOUS
<1>1. CASE UNCHANGED vars
  <2>1. UNCHANGED <<pc, pass, core, events, count, minEvents, thread, recorded>>
    BY <1>1 DEF vars
  <2> QED BY <2>1 DEF CountInv, AddsItsOwn, Counted
<1>2. CASE Main
  BY <1>2, MainCounts
<1>3. CASE \E t \in DOMAIN thread : Run(t)
  BY <1>3, RunCounts
<1> QED BY <1>1, <1>2, <1>3 DEF Next

(***************************************************************************)
(* The excess the second pass of the jitter test prints is never negative  *)
(* and misses no pause, for any number of cores and pauses, in both modes  *)
(* and whichever threads cannot be created.                                *)
(***************************************************************************)
THEOREM ExcessSound == Spec => []ExcessNotNegative
<1>1. SharedInv /\ CountInv => ExcessNotNegative
  <2> SUFFICES ASSUME SharedInv, CountInv, pass = 2, pc = "read"
               PROVE  minEvents <= count[core] /\ count[core] = recorded[core]
    BY DEF ExcessNotNegative
  <2>1. core \in Cores
    BY CoresFacts DEF SharedInv, JitterTypes
  <2> QED BY <2>1 DEF CountInv, Counted
<1> QED BY <1>1, SharedInvariant, CountInit, CountStep, PTL DEF Spec

-----------------------------------------------------------------------------
(***************************************************************************)
(* The end of the test.                                                    *)
(***************************************************************************)
\* The steps each thread has left at most, one by one; those of main() in this
\* pass, and in all.
StepsOf(t) ==
  CASE thread[t].pc = "busy"   -> 2 * thread[t].left + 1
    [] thread[t].pc = "adding" -> 2 * thread[t].left
    [] thread[t].pc = "ended"  -> 0

ThreadSteps == UNION {{t} \X (1..StepsOf(t)) : t \in DOMAIN thread}

PassLeft ==
  CASE pc = "launch"  -> 2 * (NumCores - core) + 1 + 2 * NumCores + 1
    [] pc = "join"    -> 2 * (NumCores - core) + 2 * NumCores + 1
    [] pc = "collect" -> 2 * (NumCores - core) + 1
    [] pc = "read"    -> 2 * (NumCores - core)
    [] OTHER          -> 0

MainLeft == PassLeft + (2 - pass) * (4 * NumCores + 2)

StepsLeft == (2 * MaxSamples + 2) * MainLeft + Cardinality(ThreadSteps)

(***************************************************************************)
(* Why it ends: no step can be made forever.  main() joins once for each   *)
(* launch, one that failed too, and goes through the cores twice; a thread *)
(* that is launched has only its pauses to count.  So a bound of the steps *)
(* still to be made goes down at each, in whatever order they are.         *)
(***************************************************************************)
StepsRunDown == [][StepsLeft' \in Nat /\ StepsLeft' < StepsLeft]_vars

\* A thread that is adding has a pause to count.
PausesLeft ==
  \A t \in DOMAIN thread :
    thread[t].left \in Nat /\ (thread[t].pc = "adding" => thread[t].left > 0)

EndInv == SharedInv /\ PausesLeft /\ IsFiniteSet(ThreadSteps)

LEMMA EndInit == Init => EndInv
<1> SUFFICES ASSUME Init PROVE PausesLeft /\ IsFiniteSet(ThreadSteps)
  BY SharedInit DEF EndInv
<1>1. DOMAIN thread = {} BY DEF Init
<1>2. ThreadSteps = {} BY <1>1 DEF ThreadSteps
<1> QED BY <1>1, <1>2, FS_EmptySet DEF PausesLeft

\* A step of a thread is one less it has left.
LEMMA RunEnds ==
  ASSUME EndInv, NEW t \in DOMAIN thread, Run(t)
  PROVE  /\ PausesLeft' /\ IsFiniteSet(ThreadSteps')
         /\ Cardinality(ThreadSteps') < Cardinality(ThreadSteps)
<1>0. /\ thread[t] \in Threads /\ thread[t].left \in Nat
      /\ thread[t].pc = "adding" => thread[t].left > 0
  BY DEF EndInv, SharedInv, JitterTypes, PausesLeft
<1>1. /\ DOMAIN thread' = DOMAIN thread
      /\ \A u \in DOMAIN thread \ {t} : thread'[u] = thread[u]
  BY DEF Run, LoadCount, StoreCount, Finish, At
<1>2. /\ thread'[t].left \in Nat
      /\ thread'[t].pc = "adding" => thread'[t].left > 0
      /\ StepsOf(t) \in Nat /\ StepsOf(t)' \in Nat /\ StepsOf(t)' < StepsOf(t)
  <2>1. CASE LoadCount(t)
    <3>1. /\ thread[t].pc = "busy" /\ thread[t].left > 0
          /\ thread'[t].pc = "adding" /\ thread'[t].left = thread[t].left
      BY <1>0, <2>1 DEF LoadCount, Threads
    <3>2. StepsOf(t) = 2 * thread[t].left + 1 /\ StepsOf(t)' = 2 * thread[t].left
      BY <3>1 DEF StepsOf
    <3> QED BY <1>0, <3>1, <3>2
  <2>2. CASE StoreCount(t)
    <3>1. /\ thread[t].pc = "adding"
          /\ thread'[t].pc = "busy" /\ thread'[t].left = thread[t].left - 1
      BY <1>0, <2>2 DEF StoreCount, Threads
    <3>2. StepsOf(t) = 2 * thread[t].left /\ StepsOf(t)' = 2 * (thread[t].left - 1) + 1
      BY <3>1 DEF StepsOf
    <3> QED BY <1>0, <3>1, <3>2
  <2>3. CASE Finish(t)
    <3>1. /\ thread[t].pc = "busy"
          /\ thread'[t].pc = "ended" /\ thread'[t].left = thread[t].left
      BY <1>0, <2>3 DEF Finish, At, Threads
    <3>2. StepsOf(t) = 2 * thread[t].left + 1 /\ StepsOf(t)' = 0
      BY <3>1 DEF StepsOf
    <3> QED BY <1>0, <3>1, <3>2
  <2> QED BY <2>1, <2>2, <2>3 DEF Run
<1>3. PausesLeft' BY <1>1, <1>2 DEF EndInv, PausesLeft
<1>4. \A u \in DOMAIN thread \ {t} : StepsOf(u)' = StepsOf(u) BY <1>1 DEF StepsOf
<1>5. \A u, k : <<u, k>> \in ThreadSteps <=> u \in DOMAIN thread /\ k \in 1..StepsOf(u)
  BY DEF ThreadSteps
<1>6. \A u, k : <<u, k>> \in ThreadSteps' <=> u \in DOMAIN thread' /\ k \in 1..StepsOf(u)'
  BY DEF ThreadSteps
<1>7. ThreadSteps' \subseteq ThreadSteps
  <2>1. ASSUME NEW x \in ThreadSteps' PROVE x \in ThreadSteps
    <3>1. PICK u, k : x = <<u, k>> BY DEF ThreadSteps
    <3>2. u \in DOMAIN thread /\ k \in 1..StepsOf(u)' BY <1>1, <1>6, <3>1
    <3>3. k \in 1..StepsOf(u)
      <4>1. CASE u = t BY <1>2, <3>2, <4>1
      <4>2. CASE u # t BY <1>4, <3>2, <4>2
      <4> QED BY <4>1, <4>2
    <3> QED BY <1>5, <3>1, <3>2, <3>3
  <2> QED BY <2>1
<1>8. ThreadSteps' # ThreadSteps
  <2>1. StepsOf(t) \in 1..StepsOf(t) /\ StepsOf(t) \notin 1..StepsOf(t)' BY <1>2
  <2>2. <<t, StepsOf(t)>> \in ThreadSteps /\ <<t, StepsOf(t)>> \notin ThreadSteps'
    BY <1>5, <1>6, <2>1
  <2> QED BY <2>2
<1>9. IsFiniteSet(ThreadSteps) BY DEF EndInv
<1>10. ThreadSteps' \in SUBSET ThreadSteps BY <1>7
<1>11. /\ IsFiniteSet(ThreadSteps')
       /\ Cardinality(ThreadSteps') <= Cardinality(ThreadSteps)
       /\ Cardinality(ThreadSteps) = Cardinality(ThreadSteps') => ThreadSteps = ThreadSteps'
  BY <1>9, <1>10, FS_Subset
<1>12. Cardinality(ThreadSteps) \in Nat /\ Cardinality(ThreadSteps') \in Nat
  BY <1>9, <1>11, FS_CardinalityType
<1> QED BY <1>3, <1>8, <1>11, <1>12

\* A thread that is made has its pauses to count.
LEMMA LaunchEnds ==
  ASSUME EndInv, Launch
  PROVE  /\ PausesLeft' /\ IsFiniteSet(ThreadSteps')
         /\ Cardinality(ThreadSteps') <= Cardinality(ThreadSteps) + 2 * MaxSamples + 1
<1>0. MaxSamples \in Nat BY MaxSamplesAssumption
<1>1. PICK t \in FreeTids : thread' = Begun(t) BY DEF Launch
<1>2. t \notin DOMAIN thread BY DEF FreeTids
<1>3. /\ DOMAIN thread' = DOMAIN thread \cup {t}
      /\ thread'[t].pc = "busy" /\ thread'[t].left = MaxSamples
      /\ \A u \in DOMAIN thread : thread'[u] = thread[u]
  BY <1>1, <1>2 DEF Begun
<1>4. PausesLeft' BY <1>0, <1>3 DEF EndInv, PausesLeft
<1> DEFINE m == 2 * MaxSamples + 1
           U == {t} \X (1..m)
<1>5. m \in Nat BY <1>0
<1>6. StepsOf(t)' = m /\ \A u \in DOMAIN thread : StepsOf(u)' = StepsOf(u)
  BY <1>3 DEF StepsOf
<1> HIDE DEF m
<1>7. ThreadSteps' = ThreadSteps \cup U BY <1>3, <1>6 DEF ThreadSteps
<1>8. IsFiniteSet(U) /\ Cardinality(U) = m
  <2>1. IsFiniteSet(1..m) /\ Cardinality(1..m) = m
    <3>1. IsFiniteSet(1..m) /\ Cardinality(1..m) = IF 1 > m THEN 0 ELSE m - 1 + 1
      BY <1>5, FS_Interval
    <3> QED BY <1>5, <3>1
  <2>2. IsFiniteSet({t}) /\ Cardinality({t}) = 1 BY FS_Singleton
  <2>3. IsFiniteSet(U) /\ Cardinality(U) = Cardinality({t}) * Cardinality(1..m)
    BY <2>1, <2>2, FS_Product
  <2> HIDE DEF U
  <2> QED BY <1>5, <2>1, <2>2, <2>3
<1> HIDE DEF U
<1>9. IsFiniteSet(ThreadSteps) BY DEF EndInv
<1>10. /\ IsFiniteSet(ThreadSteps \cup U)
       /\ Cardinality(ThreadSteps \cup U)
            = Cardinality(ThreadSteps) + Cardinality(U) - Cardinality(ThreadSteps \cap U)
  BY <1>8, <1>9, FS_Union
<1>11. Cardinality(ThreadSteps) \in Nat BY <1>9, FS_CardinalityType
<1>12. Cardinality(ThreadSteps \cap U) \in Nat
  <2>1. ThreadSteps \cap U \in SUBSET U OBVIOUS
  <2> QED BY <1>8, <2>1, FS_Subset, FS_CardinalityType
<1>13. Cardinality(ThreadSteps') <= Cardinality(ThreadSteps) + m
  BY <1>5, <1>7, <1>8, <1>10, <1>11, <1>12
<1>14. Cardinality(ThreadSteps) + m = Cardinality(ThreadSteps) + 2 * MaxSamples + 1
  BY <1>0, <1>11 DEF m
<1> QED BY <1>4, <1>7, <1>10, <1>13, <1>14

\* No step of main() but a launch gives a thread more to do.
LEMMA MainEnds ==
  ASSUME EndInv, DOMAIN thread' \subseteq DOMAIN thread,
         \A u \in DOMAIN thread' : thread'[u] = thread[u]
  PROVE  /\ PausesLeft' /\ IsFiniteSet(ThreadSteps')
         /\ Cardinality(ThreadSteps') <= Cardinality(ThreadSteps)
<1>1. PausesLeft' BY DEF EndInv, PausesLeft
<1>2. \A u \in DOMAIN thread' : StepsOf(u)' = StepsOf(u) BY DEF StepsOf
<1>3. ThreadSteps' \in SUBSET ThreadSteps BY <1>2 DEF ThreadSteps
<1> QED BY <1>1, <1>3, FS_Subset DEF EndInv

\* What main() has left is in the second factor of a product.
LEMMA Weighted ==
  ASSUME NEW w \in Nat, NEW a \in Nat, NEW b \in Nat, a < b
  PROVE  w * a \in Nat /\ w * b \in Nat /\ w * a + w <= w * b
<1>1. \A x, y \in Nat : x * y \in Nat OBVIOUS
<1>2. b - a - 1 \in Nat OBVIOUS
<1>3. w * b = w * a + w + w * (b - a - 1) OBVIOUS
<1> QED BY <1>1, <1>2, <1>3

LEMMA MainLeftIs == SharedInv => MainLeft \in Nat
<1> SUFFICES ASSUME SharedInv PROVE MainLeft \in Nat OBVIOUS
<1>1. pass \in {1, 2} /\ core \in 0..NumCores /\ NumCores \in Nat
  BY CoresFacts DEF SharedInv, JitterTypes
<1>2. PassLeft \in Nat BY <1>1 DEF PassLeft
<1>3. (2 - pass) * (4 * NumCores + 2) \in Nat
  <2>1. \A x, y \in Nat : x * y \in Nat OBVIOUS
  <2>2. 2 - pass \in Nat /\ 4 * NumCores + 2 \in Nat BY <1>1
  <2> QED BY <2>1, <2>2
<1> QED BY <1>2, <1>3 DEF MainLeft

\* A step of main() is one less it has left.
LEMMA MainRunsDown ==
  ASSUME SharedInv, Main
  PROVE  MainLeft \in Nat /\ MainLeft' \in Nat /\ MainLeft' < MainLeft
<1> USE CoresFacts
<1>0. /\ pass \in {1, 2} /\ core \in 0..NumCores
      /\ pc \in {"join", "read"} => core < NumCores
  BY DEF SharedInv, JitterTypes
<1> DEFINE Later == (2 - pass) * (4 * NumCores + 2)
<1>1. /\ Later \in Nat
      /\ pass = 1 => Later = 4 * NumCores + 2
      /\ pass = 2 => Later = 0
  <2>1. CASE pass = 1
    <3>1. \A x \in Nat : (2 - 1) * x = x OBVIOUS
    <3> QED BY <2>1, <3>1
  <2>2. CASE pass = 2
    <3>1. \A x \in Nat : (2 - 2) * x = 0 OBVIOUS
    <3> QED BY <2>2, <3>1
  <2> QED BY <1>0, <2>1, <2>2
<1>2. MainLeft = PassLeft + Later BY DEF MainLeft
<1>3. pass' = pass => MainLeft' = PassLeft' + Later BY DEF MainLeft
<1> HIDE DEF Later
\* Within a pass.
<1>4. ASSUME pass' = pass, PassLeft \in Nat, PassLeft' \in Nat, PassLeft' < PassLeft
      PROVE  MainLeft \in Nat /\ MainLeft' \in Nat /\ MainLeft' < MainLeft
  <2>1. PICK x : x = Later OBVIOUS
  <2>2. PICK y : y = PassLeft' OBVIOUS
  <2>3. x \in Nat /\ y \in Nat /\ y < PassLeft /\ PassLeft \in Nat BY <1>1, <1>4, <2>1, <2>2
  <2>4. MainLeft = PassLeft + x /\ MainLeft' = y + x BY <1>2, <1>3, <1>4, <2>1, <2>2
  <2>5. PassLeft + x \in Nat /\ y + x \in Nat /\ y + x < PassLeft + x BY ONLY <2>3
  <2> QED BY <2>4, <2>5
<1>5. CASE Launch \/ LaunchFails
  <2>1. /\ pc = "launch" /\ core < NumCores /\ pass' = pass
        /\ \/ pc' = "launch" /\ core' = core + 1
           \/ pc' = "join" /\ core' = core
    BY <1>5 DEF Launch, LaunchFails, Launched, mainVars
  <2> QED BY <1>0, <1>4, <2>1 DEF PassLeft
<1>6. CASE JoinSync
  <2>1. Joined("launch") BY <1>6 DEF JoinSync
  <2>2. /\ pc = "join" /\ core' = core + 1 /\ pass' = pass /\ pc' \in {"launch", "crashed"}
    BY <1>6, <2>1, JoinedGone DEF JoinSync, mainVars
  <2> QED BY <1>0, <1>4, <2>2 DEF PassLeft
<1>7. CASE LaunchesEnd
  <2>1. pc = "launch" /\ core = NumCores /\ pc' = "collect" /\ core' = 0 /\ pass' = pass
    BY <1>7 DEF LaunchesEnd, mainVars
  <2> QED BY <1>0, <1>4, <2>1 DEF PassLeft
<1>8. CASE Collect
  <2>1. pc = "collect" /\ core < NumCores /\ core' = core /\ pass' = pass
    BY <1>8 DEF Collect, mainVars
  <2>2. pc' \in {"read", "crashed"}
    <3>1. Joined("read") \/ pc' = "read" BY <1>8 DEF Collect
    <3> QED BY <3>1, JoinedGone
  <2> QED BY <1>0, <1>4, <2>1, <2>2 DEF PassLeft
<1>9. CASE Read
  <2>1. pc = "read" /\ pc' = "collect" /\ core' = core + 1 /\ pass' = pass BY <1>9 DEF Read
  <2> QED BY <1>0, <1>4, <2>1 DEF PassLeft
<1>10. CASE PassEnds
  <2>1. /\ pc = "collect" /\ core = NumCores /\ core' = 0
        /\ \/ pass = 1 /\ pass' = 2 /\ pc' = "launch"
           \/ pass = 2 /\ pass' = 2 /\ pc' = "done"
    BY <1>0, <1>10 DEF PassEnds
  <2>2. PassLeft = 1 BY <1>0, <2>1 DEF PassLeft
  <2>3. PassLeft' = IF pass = 1 THEN 4 * NumCores + 2 ELSE 0 BY <1>0, <2>1 DEF PassLeft
  <2>4. MainLeft' = PassLeft'
    <3> DEFINE x == 4 * NumCores + 2
    <3>1. x \in Nat OBVIOUS
    <3>2. MainLeft' = PassLeft' + (2 - 2) * x BY <2>1 DEF MainLeft
    <3>3. PassLeft' \in Nat BY <2>3
    <3> HIDE DEF x, PassLeft
    <3>4. (2 - 2) * x = 0 BY <3>1
    <3> QED BY <3>2, <3>3, <3>4
  <2> QED BY <1>0, <1>1, <1>2, <2>2, <2>3, <2>4
<1> QED BY <1>5, <1>6, <1>7, <1>8, <1>9, <1>10 DEF Main

LEMMA JitterRunDown ==
  EndInv /\ [Next]_vars => EndInv' /\ [StepsLeft' \in Nat /\ StepsLeft' < StepsLeft]_vars
<1> SUFFICES ASSUME EndInv, [Next]_vars
             PROVE  EndInv' /\ [StepsLeft' \in Nat /\ StepsLeft' < StepsLeft]_vars
  OBVIOUS
<1> DEFINE w == 2 * MaxSamples + 2
<1>0. SharedInv /\ SharedInv' /\ w \in Nat /\ MaxSamples \in Nat
  BY SharedStep, MaxSamplesAssumption DEF EndInv
<1>1. CASE UNCHANGED vars
  <2>1. thread' = thread BY <1>1 DEF vars
  <2>2. DOMAIN thread' \subseteq DOMAIN thread /\ \A u \in DOMAIN thread' : thread'[u] = thread[u]
    BY <2>1
  <2> QED BY <1>0, <1>1, <2>2, MainEnds DEF EndInv
<1>2. IsFiniteSet(ThreadSteps) /\ Cardinality(ThreadSteps) \in Nat
  BY FS_CardinalityType DEF EndInv
<1>3. CASE Main
  <2>1. MainLeft \in Nat /\ MainLeft' \in Nat /\ MainLeft' < MainLeft
    BY <1>0, <1>3, MainRunsDown
  <2>2. /\ PausesLeft' /\ IsFiniteSet(ThreadSteps')
        /\ Cardinality(ThreadSteps') <= Cardinality(ThreadSteps) + 2 * MaxSamples + 1
    <3>1. CASE Launch BY <3>1, LaunchEnds
    <3>2. CASE ~Launch
      <4>1. /\ DOMAIN thread' \subseteq DOMAIN thread
            /\ \A u \in DOMAIN thread' : thread'[u] = thread[u]
        <5>1. CASE LaunchFails \/ LaunchesEnd \/ Read \/ PassEnds
          BY <5>1 DEF LaunchFails, LaunchesEnd, Read, PassEnds
        <5>2. CASE JoinSync
          <6>1. Joined("launch") BY <5>2 DEF JoinSync
          <6> QED BY <1>0, <6>1, JoinedGone
        <5>3. CASE Collect
          <6>1. Joined("read") \/ thread' = thread BY <5>3 DEF Collect
          <6> QED BY <1>0, <6>1, JoinedGone
        <5> QED BY <1>3, <3>2, <5>1, <5>2, <5>3 DEF Main
      <4>2. /\ PausesLeft' /\ IsFiniteSet(ThreadSteps')
            /\ Cardinality(ThreadSteps') <= Cardinality(ThreadSteps)
        BY <4>1, MainEnds
      <4>3. Cardinality(ThreadSteps') \in Nat BY <4>2, FS_CardinalityType
      <4> QED BY <1>0, <1>2, <4>2, <4>3
    <3> QED BY <3>1, <3>2
  <2>3. Cardinality(ThreadSteps') \in Nat BY <2>2, FS_CardinalityType
  <2>4. w = 2 * MaxSamples + 2 OBVIOUS
  <2> HIDE DEF w
  <2>5. w * MainLeft' \in Nat /\ w * MainLeft \in Nat /\ w * MainLeft' + w <= w * MainLeft
    BY <1>0, <2>1, Weighted
  <2>6. /\ StepsLeft = w * MainLeft + Cardinality(ThreadSteps)
        /\ StepsLeft' = w * MainLeft' + Cardinality(ThreadSteps')
    BY <2>4 DEF StepsLeft
  <2>7. StepsLeft' \in Nat /\ StepsLeft' < StepsLeft
    BY <1>0, <1>2, <2>2, <2>3, <2>4, <2>5, <2>6
  <2> QED BY <1>0, <2>2, <2>7 DEF EndInv
<1>4. CASE \E t \in DOMAIN thread : Run(t)
  <2>1. PICK t \in DOMAIN thread : Run(t) BY <1>4
  <2>2. /\ PausesLeft' /\ IsFiniteSet(ThreadSteps')
        /\ Cardinality(ThreadSteps') < Cardinality(ThreadSteps)
    BY <2>1, RunEnds
  <2>3. Cardinality(ThreadSteps') \in Nat BY <2>2, FS_CardinalityType
  <2>4. UNCHANGED <<pc, pass, core>>
    BY <2>1 DEF Run, LoadCount, StoreCount, Finish, mainVars
  <2>5. MainLeft' = MainLeft BY <2>4 DEF MainLeft, PassLeft
  <2>6. MainLeft \in Nat BY <1>0, MainLeftIs
  <2>7. w * MainLeft \in Nat
    <3>1. \A x, y \in Nat : x * y \in Nat OBVIOUS
    <3> HIDE DEF w
    <3> QED BY <1>0, <2>6, <3>1
  <2>8. StepsLeft' \in Nat /\ StepsLeft' < StepsLeft
    BY <1>2, <2>2, <2>3, <2>5, <2>7 DEF StepsLeft
  <2> QED BY <1>0, <2>2, <2>8 DEF EndInv
<1> QED BY <1>1, <1>3, <1>4 DEF Next

(***************************************************************************)
(* The jitter test cannot go on forever, for any number of cores and       *)
(* pauses, in both modes and whichever threads cannot be created or are    *)
(* joined in another's place.                                              *)
(***************************************************************************)
THEOREM JitterExhausted == Spec => StepsRunDown
<1> QED BY EndInit, JitterRunDown, PTL DEF Spec, StepsRunDown
=============================================================================
