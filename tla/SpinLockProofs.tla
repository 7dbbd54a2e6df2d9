--------------------------- MODULE SpinLockProofs ---------------------------
(* Mutual exclusion of the four lock classes, for any number of processes. *)
EXTENDS SpinLock, TLAPS

\* try_lock() is called only of classes that return TRUE when it took the word.
\* lock(), unlock() and locked() are called of any.
TriesTruthful == TryKinds \cap {"Bryce", "BryceSimplified"} = {}

\* Every step keeps the types: no class leaves its word in a third state.
LEMMA TypeStep == TypeOK /\ [Next]_lockVars => TypeOK'
<1> SUFFICES ASSUME TypeOK, [Next]_lockVars PROVE TypeOK' OBVIOUS
<1>1. CASE UNCHANGED lockVars BY <1>1 DEF TypeOK, lockVars
<1>2. ASSUME NEW p \in Procs, Lock(p) \/ TryLock(p) \/ ExchangeLoses(p) \/ SeesClear(p)
      PROVE TypeOK'
  BY <1>2 DEF TypeOK, Move, Lock, TryLock, ExchangeLoses, SeesClear
<1>3. ASSUME NEW p \in Procs,
             Locked(p) \/ LockedClears(p) \/ ExchangeWins(p) \/ TryExchange(p) \/ Unlock(p)
      PROVE TypeOK'
  BY <1>3 DEF TypeOK, Move, Locked, LockedClears, ExchangeWins, TryExchange, Unlock
<1> QED BY <1>1, <1>2, <1>3 DEF Next, LockCode

LEMMA TypeInit == Init => TypeOK
  BY DEF Init, TypeOK

\* Who is in try_lock() has called it.
LEMMA TriesStep == TypeOK /\ TriesAllowed /\ [Next]_lockVars => TriesAllowed'
<1> SUFFICES ASSUME TypeOK, TriesAllowed, [Next]_lockVars,
                    NEW q \in Procs, lpc'[q] = "tryExchange"
             PROVE kind' \in TryKinds
  BY DEF TriesAllowed
<1>1. lpc[q] = "tryExchange" \/ kind \in TryKinds
  BY DEF Next, LockCode, Lock, TryLock, Locked, LockedClears, ExchangeWins,
         ExchangeLoses, SeesClear, TryExchange, Unlock, Move, TypeOK, lockVars
<1>2. kind' = kind
  BY DEF Next, LockCode, Lock, TryLock, Locked, LockedClears, ExchangeWins,
         ExchangeLoses, SeesClear, TryExchange, Unlock, lockVars
<1> QED BY <1>1, <1>2 DEF TriesAllowed

\* The lock word and the owner stay together: the heart of mutual exclusion.
LEMMA LockStep == TriesTruthful /\ LockInv /\ [Next]_lockVars => LockInv'
<1> SUFFICES ASSUME TriesTruthful, LockInv, [Next]_lockVars PROVE LockInv' OBVIOUS
<1>0. TypeOK /\ TypeOK' /\ TriesAllowed /\ TriesAllowed' /\ WordIsHeld /\ MutualExclusion
  BY TypeStep, TriesStep DEF LockInv
<1>1. CASE UNCHANGED lockVars
  BY <1>0, <1>1 DEF LockInv, WordIsHeld, MutualExclusion, Holds, lockVars
\* Steps that change neither the word nor who holds it.
<1>2. ASSUME NEW p \in Procs, Lock(p) \/ TryLock(p) \/ ExchangeLoses(p) \/ SeesClear(p)
      PROVE LockInv'
  <2>1. word' = word BY <1>2 DEF Lock, TryLock, ExchangeLoses, SeesClear
  <2>2. \A q \in Procs : Holds(q)' <=> Holds(q)
    BY <1>0, <1>2 DEF Holds, TypeOK, Move, Lock, TryLock, ExchangeLoses, SeesClear
  <2> QED BY <1>0, <2>1, <2>2 DEF LockInv, WordIsHeld, MutualExclusion
\* What try_lock() returns is whether the exchange took the word.
<1>r. ASSUME NEW p \in Procs, TryExchange(p) PROVE TryReturns <=> ~word
  <2>1. kind \in TryKinds BY <1>0, <1>r DEF TryExchange, Move, TriesAllowed
  <2> QED BY <2>1 DEF TriesTruthful, TryReturns
\* Steps that find the word clear, so that nobody holds it, and set it.
<1>3. ASSUME NEW p \in Procs, ~word,
             Locked(p) \/ ExchangeWins(p) \/ TryExchange(p)
      PROVE LockInv'
  <2>1. word' = TRUE BY <1>3 DEF Locked, ExchangeWins, TryExchange
  <2>2. \A q \in Procs : Holds(q)' <=> q = p
    BY <1>0, <1>3, <1>r
       DEF Holds, WordIsHeld, TypeOK, Move, Locked, ExchangeWins, TryExchange
  <2> QED BY <1>0, <2>1, <2>2 DEF LockInv, WordIsHeld, MutualExclusion
\* A lost exchange stores TRUE over TRUE.
<1>4. ASSUME NEW p \in Procs, word, TryExchange(p) PROVE LockInv'
  <2>1. word' = word BY <1>0, <1>4 DEF TryExchange, TypeOK
  <2>2. \A q \in Procs : Holds(q)' <=> Holds(q)
    BY <1>0, <1>4, <1>r DEF Holds, TypeOK, Move, TryExchange
  <2> QED BY <1>0, <2>1, <2>2 DEF LockInv, WordIsHeld, MutualExclusion
\* Steps of the one holder, which clear the word.
<1>5. ASSUME NEW p \in Procs, Unlock(p) \/ LockedClears(p) PROVE LockInv'
  <2>1. Holds(p) /\ word' = FALSE BY <1>5 DEF Holds, Move, Unlock, LockedClears
  <2>2. \A q \in Procs : ~Holds(q)'
    BY <1>0, <1>5, <2>1
       DEF Holds, MutualExclusion, TypeOK, Move, Unlock, LockedClears
  <2> QED BY <1>0, <2>1, <2>2 DEF LockInv, WordIsHeld, MutualExclusion
<1>6. ASSUME NEW p \in Procs, ExchangeWins(p) \/ Locked(p) PROVE ~word
  BY <1>6 DEF ExchangeWins, Locked
<1> QED BY <1>1, <1>2, <1>3, <1>4, <1>5, <1>6 DEF Next, LockCode

LEMMA LockInit == Init => LockInv
  BY DEF Init, LockInv, TypeOK, TriesAllowed, WordIsHeld, MutualExclusion, Holds

LEMMA LockInvariant == ASSUME TriesTruthful PROVE Spec => []LockInv
  BY LockInit, LockStep, PTL DEF Spec

\* The types hold in every reachable state, of every class.
THEOREM TypeCorrect == Spec => []TypeOK
  BY TypeInit, TypeStep, PTL DEF Spec

\* lock() and locked() of every class and try_lock() of Rigtorp's and TAS never give
\* the lock to two processes, however many share it.
THEOREM Exclusive == ASSUME TriesTruthful PROVE Spec => []MutualExclusion
  BY LockInvariant, PTL DEF LockInv

\* The lock word never stays set without an owner who knows that it is: of every
\* class, for the two Bryce classes if nobody calls try_lock().
THEOREM WordHeld == ASSUME TriesTruthful PROVE Spec => []WordIsHeld
  BY LockInvariant, PTL DEF LockInv

-----------------------------------------------------------------------------

\* Who the abstract mutex sees as the owner.
HolderFacts ==
  /\ \A p \in Procs : Holds(p) => holder = p
  /\ (\A p \in Procs : ~Holds(p)) => holder = NoOwner

LEMMA HolderIs == LockInv => HolderFacts
<1> SUFFICES ASSUME LockInv PROVE HolderFacts OBVIOUS
<1>1. ASSUME NEW p \in Procs, Holds(p) PROVE holder = p
  <2>1. (CHOOSE q \in Procs : Holds(q)) \in Procs /\ Holds(CHOOSE q \in Procs : Holds(q))
    BY <1>1
  <2> QED BY <1>1, <2>1 DEF LockInv, MutualExclusion, holder
<1> QED BY <1>1 DEF holder, HolderFacts

LEMMA HolderIsNext == LockInv' => HolderFacts'
  BY HolderIs, PTL

\* One step of a lock is one step of the mutex or none: who holds the lock
\* changes from nobody to somebody or back, never from one to another.
LEMMA HolderStep ==
  TriesTruthful /\ LockInv /\ [Next]_lockVars => [Abstract!Next]_holder
<1> SUFFICES ASSUME TriesTruthful, LockInv, [Next]_lockVars
             PROVE [Abstract!Next]_holder
  OBVIOUS
<1>0. LockInv' /\ HolderFacts /\ HolderFacts'
  BY LockStep, HolderIs, HolderIsNext
<1>1. CASE \A p \in Procs : ~Holds(p) /\ ~Holds(p)'
  BY <1>0, <1>1 DEF HolderFacts
<1>2. ASSUME NEW p \in Procs, Holds(p), Holds(p)' PROVE holder' = holder
  BY <1>0, <1>2 DEF HolderFacts
<1>3. ASSUME NEW p \in Procs, ~Holds(p), Holds(p)' PROVE Abstract!Take(p)
  <2>2. \A q \in Procs : ~Holds(q)
    <3>1. ~word
      BY <1>3, <1>0
         DEF Next, LockCode, Lock, TryLock, Locked, LockedClears, ExchangeWins,
             ExchangeLoses, SeesClear, TryExchange, TryReturns, Unlock, Move, Holds,
             LockInv, TriesAllowed, TriesTruthful, TypeOK, lockVars
    <3> QED BY <3>1 DEF LockInv, WordIsHeld
  <2> QED BY <1>0, <1>3, <2>2 DEF HolderFacts, Abstract!Take
<1>4. ASSUME NEW p \in Procs, Holds(p), ~Holds(p)' PROVE Abstract!Drop(p)
  <2>2. \A q \in Procs : ~Holds(q)'
    <3>1. word' = FALSE
      BY <1>4, <1>0
         DEF Next, LockCode, Lock, TryLock, Locked, LockedClears, ExchangeWins,
             ExchangeLoses, SeesClear, TryExchange, Unlock, Move, Holds, LockInv,
             TypeOK, lockVars
    <3> QED BY <1>0, <3>1 DEF LockInv, WordIsHeld
  <2> QED BY <1>0, <1>4, <2>2 DEF HolderFacts, Abstract!Drop
<1> QED BY <1>1, <1>2, <1>3, <1>4 DEF Abstract!Next

\* Each lock class implements the mutex of module Mutex, Rigtorp's and TAS with
\* try_lock(), the two Bryce classes for those who do not call it.
THEOREM Refinement == ASSUME TriesTruthful PROVE Spec => ImplementsMutex
<1>1. Init => Abstract!Init
  <2> SUFFICES ASSUME Init PROVE holder = NoOwner BY DEF Abstract!Init
  <2> QED BY DEF Init, holder, Holds
<1> QED BY <1>1, HolderStep, LockInvariant, PTL DEF ImplementsMutex, Abstract!Spec, Spec
=============================================================================
