------------------------------ MODULE SpinLock ------------------------------
(***************************************************************************)
(* The four spin locks of tests/memorymap/testMemoryMap.cpp, one word of   *)
(* memory each, shared by the processes of Procs.  A step is one access to *)
(* that word: an exchange (test_and_set, __sync_lock_test_and_set,         *)
(* exchange), a load, or a store.  How a process waits between two failed  *)
(* attempts (pause, sched_yield, nanosleep) changes no state and is left   *)
(* out, so a failed attempt that leads to another attempt is a stutter.    *)
(***************************************************************************)
CONSTANTS Procs,    \* the processes that share the word
          Kinds,    \* the lock classes to consider
          TryKinds, \* those of them whose try_lock() is called
          NoOwner   \* "nobody", for the refinement of Mutex

ASSUME NoOwnerAssumption == NoOwner \notin Procs
ASSUME KindsAssumption ==
  /\ Kinds \subseteq {"Rigtorp", "Bryce", "BryceSimplified", "TAS"}
  /\ TryKinds \subseteq Kinds

VARIABLES kind,    \* the class under test, fixed in a behaviour
          word,    \* TRUE when the lock word is set
          lpc      \* where each process is in the lock's code

lockVars == <<kind, word, lpc>>

Holds(p) == lpc[p] \in {"in", "probe"}

Move(p, from, to) == lpc[p] = from /\ lpc' = [lpc EXCEPT ![p] = to]

(***************************************************************************)
(* The constructors store "clear", whatever the word held before.          *)
(***************************************************************************)
Construct(p) == lpc[p] = "out" /\ word' = FALSE /\ UNCHANGED <<kind, lpc>>

Init ==
  /\ kind \in Kinds
  /\ word = FALSE
  /\ lpc = [p \in Procs |-> "out"]

(***************************************************************************)
(* lock().  Rigtorp's spins on a plain load after a lost exchange and goes *)
(* back to the exchange when it has seen the word clear.                   *)
(***************************************************************************)
Lock(p) == Move(p, "out", "exchange") /\ UNCHANGED <<kind, word>>

\* Mutant of ExchangeWins: the result of the exchange is ignored.
ExchangeWinsUntested(p) ==
  Move(p, "exchange", "in") /\ word' = TRUE /\ UNCHANGED kind

ExchangeWins(p) ==
  /\ Move(p, "exchange", "in")
  /\ ~word
  /\ word' = TRUE
  /\ UNCHANGED kind

ExchangeLoses(p) ==
  /\ kind = "Rigtorp"
  /\ Move(p, "exchange", "spin")
  /\ word
  /\ UNCHANGED <<kind, word>>

SeesClear(p) ==
  /\ Move(p, "spin", "exchange")
  /\ ~word
  /\ UNCHANGED <<kind, word>>

(***************************************************************************)
(* try_lock().  Rigtorp's loads first and gives up at once on a set word.  *)
(* TASSpinLock and RigtorpSpinLock return whether the exchange found the   *)
(* word clear; the two Bryce classes return the word's old value.  The     *)
(* caller goes by what is returned: after TRUE it is in until it unlocks,  *)
(* after FALSE it is not.                                                  *)
(***************************************************************************)
TryReturns == IF kind \in {"Bryce", "BryceSimplified"} THEN word ELSE ~word

TryLock(p) ==
  /\ kind \in TryKinds
  /\ kind = "Rigtorp" => ~word
  /\ Move(p, "out", "tryExchange")
  /\ UNCHANGED <<kind, word>>

TryExchange(p) ==
  /\ Move(p, "tryExchange", IF TryReturns THEN "in" ELSE "out")
  /\ word' = TRUE
  /\ UNCHANGED kind

\* Mutant of Unlock: the word is not cleared.
UnlockKeepsWord(p) == Move(p, "in", "out") /\ UNCHANGED <<kind, word>>

Unlock(p) == Move(p, "in", "out") /\ word' = FALSE /\ UNCHANGED kind

(***************************************************************************)
(* locked().  The two Bryce classes have no way to look at the word: they  *)
(* take the lock and clear it again, so a probe is a short-lived owner.    *)
(* The other two load the word, a stutter.                                 *)
(***************************************************************************)
Locked(p) ==
  /\ kind \in {"Bryce", "BryceSimplified"}
  /\ Move(p, "out", "probe")
  /\ ~word
  /\ word' = TRUE
  /\ UNCHANGED kind

LockedClears(p) == Move(p, "probe", "out") /\ word' = FALSE /\ UNCHANGED kind

\* The steps a process takes inside the lock's code, once it has called it.
LockCode(p) ==
  ExchangeWins(p) \/ ExchangeLoses(p) \/ SeesClear(p) \/ TryExchange(p)
    \/ LockedClears(p)

Next == \E p \in Procs :
  Lock(p) \/ TryLock(p) \/ Locked(p) \/ LockCode(p) \/ Unlock(p)

\* A process does not stop inside lock(), try_lock() or locked(); whether it
\* calls them, and whether it ever unlocks, is up to the caller.
Spec == /\ Init
        /\ [][Next]_lockVars
        /\ \A p \in Procs : WF_lockVars(LockCode(p))

-----------------------------------------------------------------------------

\* Type invariant.
TypeOK ==
  /\ kind \in Kinds
  /\ word \in BOOLEAN
  /\ lpc \in [Procs -> {"out", "exchange", "spin", "tryExchange", "in", "probe"}]

\* At most one process is between an acquisition and its unlock, be it the return
\* of lock(), a try_lock() that returned TRUE or a probe of locked().
MutualExclusion == \A p, q \in Procs : Holds(p) /\ Holds(q) => p = q

\* The word is set exactly while somebody holds the lock and knows it, so no
\* interleaving of failed exchanges, probes and unlocks leaves it set for ever.
WordIsHeld == word <=> \E p \in Procs : Holds(p)

\* Only callers of a class in TryKinds are in its try_lock().
TriesAllowed == \A p \in Procs : lpc[p] = "tryExchange" => kind \in TryKinds

\* The strengthening that makes mutual exclusion inductive.
LockInv == TypeOK /\ TriesAllowed /\ WordIsHeld /\ MutualExclusion

\* Every class is a mutex, Rigtorp's and TAS with try_lock(), the two Bryce classes
\* without: an acquisition takes a free lock, a release is the owner's, and every
\* other access to the word is invisible.
holder == IF \E p \in Procs : Holds(p) THEN CHOOSE p \in Procs : Holds(p)
                                       ELSE NoOwner

Abstract == INSTANCE Mutex WITH owner <- holder

ImplementsMutex == Abstract!Spec

\* While somebody is waiting in lock(), the lock does not stay free: a waiter
\* that has just seen it taken still notices the release.
WaitersServed ==
  (\E p \in Procs : lpc[p] \in {"exchange", "spin"}) ~> (\E p \in Procs : Holds(p))
=============================================================================
