-------------------------- MODULE MemoryMapProofs --------------------------
(* What holds of testSpinLock() for any number of processes and loops.     *)
EXTENDS MemoryMapTest, Integers, TLAPS

USE ProcessesAssumption, LoopsAssumption, LeftOverAssumption

\* A child's number is a process's, and the parent is process 0.
LEMMA ProcFacts == 0 \in Procs /\ Children \subseteq Procs /\ 0 \notin Children
                     /\ Procs \ {0} = Children
  BY DEF Procs, Children

-----------------------------------------------------------------------------
(* Types.                                                                  *)

LEMMA TypeInit == Init => TypeOK
  BY ProcFacts DEF Init, TypeOK, PC

LEMMA TypeStep == TypeOK /\ [Next]_vars => TypeOK'
<1> SUFFICES ASSUME TypeOK, [Next]_vars PROVE TypeOK' OBVIOUS
<1>1. CASE UNCHANGED vars BY <1>1 DEF TypeOK, vars
<1>2. CASE MapInit BY <1>2, ProcFacts DEF TypeOK, PC, Goto, MapInit
<1>3. CASE MapFails BY <1>3, ProcFacts DEF TypeOK, PC, Goto, MapFails
<1>4. CASE Fork BY <1>4, ProcFacts DEF TypeOK, PC, Fork, Children
<1>5. CASE ForkFails BY <1>5, ProcFacts DEF TypeOK, ForkFails, Children
<1>6. CASE ForkLoopEnds BY <1>6, ProcFacts DEF TypeOK, PC, Goto, ForkLoopEnds
<1>7. CASE LoopEnds BY <1>7, ProcFacts DEF TypeOK, PC, Goto, LoopEnds
<1>8. CASE WaitPid BY <1>8 DEF TypeOK, WaitPid, Children
<1>9. CASE WaitAny
  <2>1. idx' \in 1..NumProcesses BY <1>9 DEF TypeOK, WaitAny
  <2>2. reaped' \subseteq Children BY <1>9 DEF TypeOK, WaitAny, Forked
  <2> QED BY <1>9, <2>1, <2>2 DEF TypeOK, WaitAny
<1>10. CASE Unlink BY <1>10, ProcFacts DEF TypeOK, PC, Goto, Unlink
<1>11. ASSUME NEW p \in Procs, Test(p) \/ Add(p) \/ Store(p) \/ Read(p) \/ Exit(p)
       PROVE TypeOK'
  BY <1>11 DEF TypeOK, PC, InLoop, Goto, Test, Add, Store, Read, Exit, locals
<1>12. ASSUME NEW p \in Procs,
              Construct(p) \/ Loop(p) \/ Spin(p) \/ Acquire(p) \/ Unlock(p)
       PROVE TypeOK'
  BY <1>12
     DEF TypeOK, PC, InLoop, Goto, Construct, Loop, Spin, Acquire, Unlock, locals,
         L!Construct, L!Lock, L!ExchangeLoses, L!SeesClear, L!ExchangeWins, L!Unlock,
         L!Move
<1>13. CASE Finished BY <1>13 DEF Finished, TypeOK, vars
<1> QED
  BY <1>1, <1>2, <1>3, <1>4, <1>5, <1>6, <1>7, <1>8, <1>9, <1>10, <1>11, <1>12, <1>13
     DEF Next, Parent, Process

\* The types hold in every reachable state, for any number of processes.
THEOREM TypeCorrect == Spec => []TypeOK
  BY TypeInit, TypeStep, PTL DEF Spec

-----------------------------------------------------------------------------
(* Control: how the parts of the state that only control the flow agree.   *)

LockAgrees == \A p \in Procs :
  /\ lpc[p] = "in" <=> pc[p] \in Critical
  /\ lpc[p] \in {"exchange", "spin"} <=> pc[p] = "lock"

Unmapped == ~Mapped =>
  /\ \A p \in Procs : value[p] = 0
  /\ idx = 1
  /\ \A c \in Children : pids[c] = "none"

ForkAgrees ==
  /\ pc[0] = "fork" => \A c \in Children : c >= idx => pids[c] = "none"
  /\ pc[0] # "unborn"
  /\ \A c \in Children :
       /\ pids[c] = "child" <=> pc[c] # "unborn"
       /\ pc[c] \notin {"map", "unmapped", "fork", "wait"}

WaitAgrees ==
  /\ \A c \in reaped : pc[c] = "gone"
  /\ pc[0] = "wait" => \A c \in Children : c < idx /\ pids[c] = "child" => c \in reaped
  /\ pc[0] = "gone" => Forked \subseteq reaped /\ ~linked
  /\ Mapped /\ pc[0] # "gone" => linked

Control == TypeOK /\ LockAgrees /\ Unmapped /\ ForkAgrees /\ WaitAgrees

(* Turns: who has had which turn.                                          *)

UnbornTurns == Mapped => \A c \in Procs : pc[c] = "unborn" => counter <= c

\* Whoever took a turn at or past the last one has seen the target since, or is
\* about to.
FinishInv == Mapped => \A c \in (NumLoops - 1)..(counter - 1) :
  LET p == c % NumProcesses IN value[p] >= NumLoops \/ pc[p] = "read"

TurnsInv ==
  /\ Control /\ LeavesAtTarget /\ TurnInv /\ NoOrphanedLock
  /\ UnbornTurns /\ FinishInv /\ CounterBound

-----------------------------------------------------------------------------
(* What an action leaves alone.                                            *)

\* A step of process p in the body of the test moves nobody else and touches
\* none of the parent's bookkeeping.
LEMMA ProcessFrame ==
  ASSUME TypeOK, TypeOK', NEW p \in Procs, Process(p)
  PROVE  /\ UNCHANGED <<kind, pids, idx, reaped, linked>>
         /\ \A q \in Procs : q # p =>
              pc'[q] = pc[q] /\ lpc'[q] = lpc[q] /\ value'[q] = value[q] /\ reg'[q] = reg[q]
         /\ pc[p] \in InLoop \cup {"construct", "loop"}
         /\ pc'[p] \in InLoop \cup {"loop", "gone"}
         /\ pc'[p] = "gone" => p # 0
<1>1. CASE Test(p) \/ Add(p) \/ Store(p) \/ Read(p) \/ Exit(p)
  BY <1>1 DEF TypeOK, InLoop, Goto, Test, Add, Store, Read, Exit, locals
<1>2. CASE Construct(p) \/ Loop(p) \/ Spin(p) \/ Acquire(p) \/ Unlock(p)
  BY <1>2
     DEF TypeOK, InLoop, Goto, Construct, Loop, Spin, Acquire, Unlock, locals,
         L!Construct, L!Lock, L!ExchangeLoses, L!SeesClear, L!ExchangeWins, L!Unlock,
         L!Move
<1> QED BY <1>1, <1>2 DEF Process

\* A step of the parent before or after the body moves no child that runs.
LEMMA ParentFrame ==
  ASSUME TypeOK, TypeOK', Parent
  PROVE  /\ UNCHANGED <<kind, lpc, reg, value>>
         /\ MapInit \/ UNCHANGED <<word, counter>>
         /\ \A c \in Children :
              pc'[c] = pc[c] \/ (Fork /\ c = idx /\ pc'[c] = "construct")
         /\ pc[0] \in {"map", "fork", "loop", "wait"}
         /\ pc'[0] \in {"unmapped", "fork", "construct", "wait", "gone"}
         /\ pc[0] = "loop" => LoopEnds
         /\ Mapped => Mapped'
         /\ Fork \/ ForkFails \/ WaitPid \/ WaitAny \/ pc'[0] # pc[0]
<1>1. CASE MapInit BY <1>1, ProcFacts DEF TypeOK, Mapped, Goto, MapInit
<1>2. CASE MapFails BY <1>2, ProcFacts DEF TypeOK, Mapped, Goto, MapFails
<1>3. CASE Fork BY <1>3, ProcFacts DEF TypeOK, Mapped, Fork, Children
<1>4. CASE ForkFails BY <1>4, ProcFacts DEF TypeOK, Mapped, ForkFails
<1>5. CASE ForkLoopEnds BY <1>5, ProcFacts DEF TypeOK, Mapped, Goto, ForkLoopEnds
<1>6. CASE LoopEnds BY <1>6, ProcFacts DEF TypeOK, Mapped, Goto, LoopEnds
<1>7. CASE WaitPid \/ WaitAny BY <1>7, ProcFacts DEF TypeOK, Mapped, WaitPid, WaitAny
<1>8. CASE Unlink BY <1>8, ProcFacts DEF TypeOK, Mapped, Goto, Unlink
<1> QED BY <1>1, <1>2, <1>3, <1>4, <1>5, <1>6, <1>7, <1>8 DEF Parent

-----------------------------------------------------------------------------
(* Control is inductive.                                                   *)

LEMMA ControlInit == Init => Control
<1> SUFFICES ASSUME Init PROVE Control OBVIOUS
<1>1. TypeOK BY TypeInit
<1>2. LockAgrees BY ProcFacts DEF Init, LockAgrees, Critical
<1>3. Unmapped BY DEF Init, Unmapped
<1>4. ForkAgrees BY ProcFacts DEF Init, ForkAgrees
<1>5. WaitAgrees BY ProcFacts DEF Init, WaitAgrees, Mapped
<1> QED BY <1>1, <1>2, <1>3, <1>4, <1>5 DEF Control

LEMMA LockAgreesStep ==
  ASSUME Control, TypeOK', Next PROVE LockAgrees'
<1>1. CASE Parent
  <2>1. pc[0] \notin InLoop /\ pc'[0] \notin InLoop
    BY <1>1, ParentFrame DEF Control, InLoop, Critical
  <2>2. \A c \in Children : pc'[c] = pc[c] \/ (pc[c] = "unborn" /\ pc'[c] = "construct")
    <3>1. Fork => pc[idx] = "unborn"
      BY DEF Control, TypeOK, ForkAgrees, Fork, Children
    <3> QED BY <1>1, <3>1, ParentFrame DEF Control
  <2> QED BY <1>1, <2>1, <2>2, ParentFrame, ProcFacts
          DEF Control, LockAgrees, InLoop, Critical
<1>2. ASSUME NEW p \in Procs, Process(p) PROVE LockAgrees'
  <2>1. /\ lpc'[p] = "in" <=> pc'[p] \in Critical
        /\ lpc'[p] \in {"exchange", "spin"} <=> pc'[p] = "lock"
    <3>1. CASE Test(p) \/ Add(p) \/ Store(p) \/ Read(p) \/ Exit(p)
      BY <3>1 DEF Control, TypeOK, LockAgrees, Critical, Goto, Test, Add, Store, Read,
                  Exit, locals
    <3>2. CASE Construct(p) \/ Loop(p) \/ Spin(p) \/ Acquire(p) \/ Unlock(p)
      BY <3>2
         DEF Control, TypeOK, LockAgrees, Critical, Goto, Construct, Loop, Spin, Acquire,
             Unlock, locals, L!Construct, L!Lock, L!ExchangeLoses, L!SeesClear,
             L!ExchangeWins, L!Unlock, L!Move
    <3> QED BY <1>2, <3>1, <3>2 DEF Process
  <2> QED BY <1>2, <2>1, ProcessFrame DEF Control, LockAgrees
<1>3. CASE Finished BY <1>3 DEF Finished, Control, LockAgrees, vars
<1> QED BY <1>1, <1>2, <1>3 DEF Next

LEMMA UnmappedStep ==
  ASSUME Control, TypeOK', Next PROVE Unmapped'
<1>1. CASE Parent
  <2>1. CASE Mapped BY <1>1, <2>1, ParentFrame DEF Control, Unmapped
  <2>2. CASE ~Mapped
    BY <1>1, <2>2, ProcFacts
       DEF Control, TypeOK, Unmapped, Mapped, Goto, Parent, MapInit, MapFails, Fork,
           ForkFails, ForkLoopEnds, LoopEnds, WaitPid, WaitAny, Unlink
  <2> QED BY <2>1, <2>2
<1>2. ASSUME NEW p \in Procs, Process(p) PROVE Unmapped'
  <2>1. Mapped
    <3>1. p # 0 => pids[p] = "child"
      BY <1>2, ProcessFrame, ProcFacts DEF Control, ForkAgrees, InLoop, Critical
    <3>2. p = 0 => Mapped
      BY <1>2, ProcessFrame DEF Control, Mapped, InLoop, Critical
    <3> QED BY <3>1, <3>2, ProcFacts DEF Control, Unmapped
  <2>2. Mapped'
    BY <1>2, <2>1, ProcessFrame, ProcFacts DEF Control, Mapped, InLoop, Critical
  <2> QED BY <2>2 DEF Unmapped
<1>3. CASE Finished BY <1>3 DEF Finished, Control, Unmapped, Mapped, vars
<1> QED BY <1>1, <1>2, <1>3 DEF Next

LEMMA ForkAgreesStep ==
  ASSUME Control, TypeOK', Next PROVE ForkAgrees'
<1>1. CASE Fork
  BY <1>1, ProcFacts DEF Control, TypeOK, ForkAgrees, Fork, Children
<1>2. CASE ForkFails
  BY <1>2, ProcFacts DEF Control, TypeOK, ForkAgrees, ForkFails, Children
<1>3. CASE MapInit
  BY <1>3, ProcFacts DEF Control, TypeOK, ForkAgrees, Unmapped, Mapped, Goto, MapInit
<1>4. CASE MapFails \/ ForkLoopEnds \/ LoopEnds \/ Unlink
  <2>1. pids' = pids /\ pc'[0] \notin {"unborn", "fork"}
    BY <1>4, ProcFacts
       DEF Control, TypeOK, Goto, MapFails, ForkLoopEnds, LoopEnds, Unlink
  <2>2. \A c \in Children : pc'[c] = pc[c]
    BY <1>4, ProcFacts
       DEF Control, TypeOK, Goto, MapFails, ForkLoopEnds, LoopEnds, Unlink
  <2> QED BY <2>1, <2>2 DEF Control, ForkAgrees
<1>5. CASE WaitPid \/ WaitAny
  BY <1>5, ProcFacts DEF Control, ForkAgrees, WaitPid, WaitAny
<1>6. ASSUME NEW p \in Procs, Process(p) PROVE ForkAgrees'
  BY <1>6, ProcessFrame, ProcFacts DEF Control, ForkAgrees, InLoop, Critical
<1>7. CASE Finished BY <1>7 DEF Finished, Control, ForkAgrees, vars
<1> QED BY <1>1, <1>2, <1>3, <1>4, <1>5, <1>6, <1>7 DEF Next, Parent

LEMMA WaitAgreesStep ==
  ASSUME Control, TypeOK', Next PROVE WaitAgrees'
<1>1. CASE Fork
  <2>1. \A c \in reaped : c # idx
    BY <1>1 DEF Control, TypeOK, ForkAgrees, WaitAgrees, Fork
  <2> QED BY <1>1, <2>1, ProcFacts DEF Control, TypeOK, WaitAgrees, Fork, Mapped, Children
<1>2. CASE ForkFails
  BY <1>2, ProcFacts DEF Control, TypeOK, WaitAgrees, ForkFails, Mapped
<1>3. CASE MapInit \/ MapFails \/ ForkLoopEnds \/ LoopEnds
  <2>1. /\ reaped' = reaped /\ \A c \in Children : pc'[c] = pc[c]
        /\ pc'[0] # "gone" /\ (pc'[0] = "wait" => idx' = 1)
        /\ Mapped' => linked'
    <3>1. CASE MapInit \/ MapFails
      BY <3>1, ProcFacts DEF Control, TypeOK, Mapped, Goto, MapInit, MapFails
    <3>2. CASE ForkLoopEnds \/ LoopEnds
      BY <3>2, ProcFacts
         DEF Control, TypeOK, WaitAgrees, Mapped, Goto, ForkLoopEnds, LoopEnds
    <3> QED BY <1>3, <3>1, <3>2
  <2> QED BY <2>1 DEF Control, TypeOK, WaitAgrees, Children
<1>4. CASE WaitPid
  BY <1>4, ProcFacts DEF Control, TypeOK, WaitAgrees, WaitPid, Mapped, Children
<1>5. CASE WaitAny
  <2>1. \A c \in reaped' : c \in reaped \/ pc[c] = "gone" BY <1>5 DEF WaitAny
  <2>2. reaped \subseteq reaped' BY <1>5 DEF WaitAny
  <2>3. pids[idx] # "child" BY <1>5 DEF WaitAny
  <2>4. UNCHANGED <<pc, pids, linked>> /\ idx' = idx + 1 /\ pc[0] = "wait"
    BY <1>5 DEF WaitAny
  <2> QED BY <2>1, <2>2, <2>3, <2>4 DEF Control, TypeOK, WaitAgrees, Mapped, Children
<1>6. CASE Unlink
  <2>1. Forked \subseteq reaped
    BY <1>6 DEF Control, TypeOK, WaitAgrees, Unlink, Goto, Forked, Children
  <2> QED BY <1>6, <2>1, ProcFacts
          DEF Control, TypeOK, WaitAgrees, Mapped, Goto, Unlink, Forked
<1>7. ASSUME NEW p \in Procs, Process(p) PROVE WaitAgrees'
  <2>1. p \notin reaped
    BY <1>7, ProcessFrame DEF Control, WaitAgrees, InLoop, Critical
  <2> QED BY <1>7, <2>1, ProcessFrame, ProcFacts
          DEF Control, TypeOK, WaitAgrees, Mapped, InLoop, Critical, Forked
<1>8. CASE Finished BY <1>8 DEF Finished, Control, WaitAgrees, Mapped, Forked, vars
<1> QED BY <1>1, <1>2, <1>3, <1>4, <1>5, <1>6, <1>7, <1>8 DEF Next, Parent

LEMMA ControlStep == Control /\ [Next]_vars => Control'
<1>1. ASSUME Control, UNCHANGED vars PROVE Control'
  BY <1>1, TypeStep
     DEF vars, Control, LockAgrees, Unmapped, ForkAgrees, WaitAgrees, Mapped, Forked
<1>2. ASSUME Control, Next PROVE Control'
  <2>1. TypeOK' BY <1>2, TypeStep DEF Control
  <2> QED BY <1>2, <2>1, LockAgreesStep, UnmappedStep, ForkAgreesStep, WaitAgreesStep
          DEF Control
<1> QED BY <1>1, <1>2

LEMMA ControlInvariant == Spec => []Control
  BY ControlInit, ControlStep, PTL DEF Spec

\* While a child runs the segment keeps its name, and a parent that returns from
\* a run has collected every child it forked and removed the name, however many
\* of its forks failed and whichever child each waitpid() collects.
THEOREM ParentLast == Spec => []ParentReturnsLast
<1>1. Control => ParentReturnsLast
  <2> SUFFICES ASSUME Control PROVE ParentReturnsLast OBVIOUS
  <2>1. pc[0] = "gone" => reaped = Forked /\ ~linked
    BY DEF Control, TypeOK, WaitAgrees, ForkAgrees, Forked
  <2>2. ASSUME NEW c \in Children, pc[c] \notin {"unborn", "gone"} PROVE linked
    <3>1. pids[c] = "child" BY <2>2 DEF Control, ForkAgrees
    <3>2. Mapped BY <3>1 DEF Control, Unmapped
    <3>3. pc[0] # "gone" BY <2>1, <2>2, <3>1 DEF Control, WaitAgrees, Forked
    <3> QED BY <3>2, <3>3 DEF Control, WaitAgrees
  <2> QED BY <2>1, <2>2 DEF ParentReturnsLast
<1> QED BY <1>1, ControlInvariant, PTL

-----------------------------------------------------------------------------
(* Arithmetic of turns.                                                    *)

LEMMA ModRange ==
  ASSUME NEW c \in Nat PROVE c % NumProcesses \in Procs
  BY DEF Procs

LEMMA ModSmall ==
  ASSUME NEW c \in Procs PROVE c % NumProcesses = c
  BY DEF Procs

\* The only multiple of n strictly between -n and n is zero.
LEMMA OnlyZero ==
  ASSUME NEW n \in Nat \ {0}, NEW k \in Int, n * k < n, -n < n * k
  PROVE  k = 0
<1>1. CASE k >= 1
  <2>1. n * k >= n BY <1>1
  <2> QED BY <2>1
<1>2. CASE k <= -1
  <2>1. n * k <= -n BY <1>2
  <2> QED BY <2>1
<1> QED BY <1>1, <1>2

\* Turns come round: c and c less one round are the same process's turn.
LEMMA ModWrap ==
  ASSUME NEW n \in Nat \ {0}, NEW c \in Nat, c >= n
  PROVE  (c - n) % n = c % n
<1> DEFINE q == c \div n
           r == c % n
           p == (c - n) \div n
           s == (c - n) % n
<1>1. c = n * q + r /\ q \in Int /\ r \in 0..(n - 1) OBVIOUS
<1>2. c - n = n * p + s /\ p \in Int /\ s \in 0..(n - 1) OBVIOUS
<1>3. r = s
  <2> HIDE DEF q, r, p, s
  <2> DEFINE k == q - p - 1
  <2>1. n * k = s - r BY <1>1, <1>2
  <2>2. k \in Int BY <1>1, <1>2
  <2>3. n * k < n /\ -n < n * k BY <1>1, <1>2, <2>1
  <2> HIDE DEF k
  <2>4. k = 0 BY <2>2, <2>3, OnlyZero
  <2> QED BY <1>1, <1>2, <2>1, <2>4
<1> QED BY <1>3

-----------------------------------------------------------------------------
(* The turns are inductive.                                                *)

LEMMA TurnsInit == Init => TurnsInv
<1> SUFFICES ASSUME Init PROVE TurnsInv OBVIOUS
<1>1. Control BY ControlInit
<1>2. ~Mapped BY ProcFacts DEF Init, Mapped
<1>3. LeavesAtTarget BY ProcFacts DEF Init, LeavesAtTarget, InLoop, Critical
<1>4. TurnInv BY DEF Init, TurnInv
<1> QED BY <1>1, <1>2, <1>3, <1>4
        DEF TurnsInv, NoOrphanedLock, UnbornTurns, FinishInv, CounterBound

\* A process in the body of the test runs on a mapped segment.
LEMMA RunsMapped ==
  ASSUME Control, NEW p \in Procs, pc[p] \in InLoop \cup {"construct", "loop"}
  PROVE  Mapped
<1>1. CASE p = 0 BY <1>1 DEF Mapped, InLoop, Critical
<1>2. CASE p # 0
  <2>1. pids[p] = "child"
    BY <1>2, ProcFacts DEF Control, ForkAgrees, InLoop, Critical
  <2> QED BY <1>2, <2>1, ProcFacts DEF Control, Unmapped
<1> QED BY <1>1, <1>2

\* The increment: only the process whose turn it is gets to store.
LEMMA StoreStep ==
  ASSUME TurnsInv, Control', NEW p \in Procs, Store(p)
  PROVE  /\ TurnsInv'
         /\ Mapped /\ counter' = counter + 1 /\ counter % NumProcesses = p
         /\ value[p] < NumLoops /\ counter < NumLoops + NumProcesses - 1
<1>1. /\ TypeOK /\ pc[p] = "store" /\ reg[p] = counter /\ counter % NumProcesses = p
      /\ counter' = counter + 1
  BY DEF TurnsInv, Control, TurnInv, Store, Goto
<1>2. /\ pc' = [pc EXCEPT ![p] = "read"]
      /\ UNCHANGED <<word, lpc, value, reg>>
  BY DEF Store, Goto, locals
<1>3. Mapped BY <1>1, RunsMapped DEF TurnsInv, InLoop, Critical
<1>4. value[p] < NumLoops
  BY <1>1 DEF TurnsInv, LeavesAtTarget, InLoop, Critical
<1>5. counter < NumLoops + NumProcesses - 1
  <2> SUFFICES ASSUME counter = NumLoops + NumProcesses - 1 PROVE FALSE
    BY <1>1, <1>3 DEF TurnsInv, CounterBound, TypeOK
  <2>1. (NumLoops - 1) % NumProcesses = p
    <3>1. counter - NumProcesses = NumLoops - 1 /\ counter >= NumProcesses
      BY <1>1 DEF TypeOK
    <3>2. (counter - NumProcesses) % NumProcesses = counter % NumProcesses
      BY <1>1, <3>1, ModWrap DEF TypeOK
    <3> QED BY <1>1, <3>1, <3>2
  <2>2. NumLoops - 1 \in (NumLoops - 1)..(counter - 1) BY <1>1 DEF TypeOK
  <2>3. value[p] >= NumLoops \/ pc[p] = "read"
    BY <1>3, <2>1, <2>2 DEF TurnsInv, FinishInv
  <2> QED BY <1>1, <1>4, <2>3 DEF TypeOK
<1>6. LeavesAtTarget'
  BY <1>1, <1>2 DEF TurnsInv, LeavesAtTarget, TypeOK, InLoop, Critical
<1>7. TurnInv'
  BY <1>1, <1>2 DEF TurnsInv, TurnInv, TypeOK
<1>8. UnbornTurns'
  <2> SUFFICES ASSUME NEW c \in Procs, pc'[c] = "unborn" PROVE counter' <= c
    BY DEF UnbornTurns
  <2>1. c # p /\ pc[c] = "unborn" BY <1>1, <1>2 DEF TypeOK
  <2>2. counter <= c BY <1>3, <2>1 DEF TurnsInv, UnbornTurns
  <2>3. counter # c BY <1>1, <2>1, ModSmall
  <2> QED BY <1>1, <2>2, <2>3 DEF TypeOK, Procs
<1>9. FinishInv'
  <2> SUFFICES ASSUME NEW c \in (NumLoops - 1)..counter
               PROVE  value[c % NumProcesses] >= NumLoops \/ pc'[c % NumProcesses] = "read"
    <3>1. counter' - 1 = counter BY <1>1 DEF TypeOK
    <3> QED BY <1>2, <3>1 DEF FinishInv
  <2>1. CASE c = counter BY <1>1, <1>2, <2>1 DEF TypeOK
  <2>2. CASE c # counter
    <3>1. c \in (NumLoops - 1)..(counter - 1) BY <1>1, <2>2 DEF TypeOK
    <3>2. value[c % NumProcesses] >= NumLoops \/ pc[c % NumProcesses] = "read"
      BY <1>3, <3>1 DEF TurnsInv, FinishInv
    <3>3. c % NumProcesses \in Procs BY ModRange
    <3> QED BY <1>1, <1>2, <3>2, <3>3 DEF TypeOK
  <2> QED BY <2>1, <2>2
<1>10. NoOrphanedLock'
  BY <1>2, <1>3 DEF TurnsInv, NoOrphanedLock
<1>11. CounterBound' BY <1>1, <1>5 DEF CounterBound, TypeOK
<1> QED BY <1>1, <1>3, <1>4, <1>5, <1>6, <1>7, <1>8, <1>9, <1>10, <1>11 DEF TurnsInv

\* What a process sees is not ahead of what it is owed: after the read it has
\* either not reached the target or is about to leave the loop.
LEMMA ReadStep ==
  ASSUME TurnsInv, Control', NEW p \in Procs, Read(p)
  PROVE  TurnsInv'
<1>1. /\ TypeOK /\ pc[p] = "read"
      /\ pc' = [pc EXCEPT ![p] = "unlock"] /\ value' = [value EXCEPT ![p] = counter]
      /\ UNCHANGED <<word, lpc, counter, reg>>
  BY DEF TurnsInv, Control, Read, Goto
<1>2. Mapped BY <1>1, RunsMapped DEF TurnsInv, InLoop, Critical
<1>3. LeavesAtTarget'
  BY <1>1 DEF TurnsInv, LeavesAtTarget, TypeOK, InLoop, Critical
<1>4. TurnInv' BY <1>1 DEF TurnsInv, TurnInv, TypeOK
<1>5. UnbornTurns' BY <1>1, <1>2 DEF TurnsInv, UnbornTurns, TypeOK
<1>6. FinishInv'
  <2> SUFFICES ASSUME NEW c \in (NumLoops - 1)..(counter - 1)
               PROVE  \/ value'[c % NumProcesses] >= NumLoops
                      \/ pc'[c % NumProcesses] = "read"
    BY <1>1 DEF FinishInv
  <2>1. c % NumProcesses \in Procs BY ModRange
  <2>2. value[c % NumProcesses] >= NumLoops \/ pc[c % NumProcesses] = "read"
    BY <1>2 DEF TurnsInv, FinishInv
  <2>3. CASE c % NumProcesses = p
    BY <1>1, <2>3 DEF TypeOK
  <2>4. CASE c % NumProcesses # p
    BY <1>1, <2>1, <2>2, <2>4 DEF TypeOK
  <2> QED BY <2>3, <2>4
<1>7. NoOrphanedLock' BY <1>1, <1>2 DEF TurnsInv, NoOrphanedLock
<1>8. CounterBound' BY <1>1, <1>2 DEF TurnsInv, CounterBound
<1> QED BY <1>3, <1>4, <1>5, <1>6, <1>7, <1>8 DEF TurnsInv

\* Every other step of a process leaves the counter and what was seen of it.
LEMMA QuietStep ==
  ASSUME TurnsInv, Control', NEW p \in Procs,
         Construct(p) \/ Loop(p) \/ Spin(p) \/ Acquire(p) \/ Test(p) \/ Add(p)
           \/ Unlock(p) \/ Exit(p)
  PROVE  TurnsInv' /\ UNCHANGED <<counter, value>> /\ (Mapped <=> Mapped')
<1>0. TypeOK /\ TypeOK' /\ Process(p)
  BY DEF TurnsInv, Control, Process
<1>1. UNCHANGED <<counter, value>>
  BY DEF Construct, Loop, Spin, Acquire, Test, Add, Unlock, Exit, locals
<1>2. Mapped /\ Mapped'
  BY <1>0, RunsMapped, ProcessFrame, ProcFacts
     DEF TurnsInv, Mapped, TypeOK, InLoop, Critical
<1>3. pc[p] # "read" /\ pc[p] # "store" /\ pc[p] # "unborn" /\ pc'[p] # "unborn"
  BY <1>0, ProcessFrame
     DEF Construct, Loop, Spin, Acquire, Test, Add, Unlock, Exit, Goto, InLoop, Critical
<1>4. LeavesAtTarget'
  <2>1. /\ pc'[p] \in InLoop \ {"unlock"} => value[p] < NumLoops
        /\ pc'[p] \in {"wait", "gone"} => value[p] >= NumLoops
    BY <1>0
       DEF TurnsInv, LeavesAtTarget, TypeOK, InLoop, Critical, Construct, Loop, Spin,
           Acquire, Test, Add, Unlock, Exit, Goto
  <2> QED BY <1>0, <1>1, <2>1, ProcessFrame DEF TurnsInv, LeavesAtTarget
<1>5. TurnInv'
  <2>1. /\ pc'[p] \in {"add", "store"} => counter % NumProcesses = p
        /\ pc'[p] = "store" => reg'[p] = counter
    BY <1>0
       DEF TurnsInv, TurnInv, TypeOK, Construct, Loop, Spin, Acquire, Test, Add, Unlock,
           Exit, Goto, locals
  <2> QED BY <1>0, <1>1, <2>1, ProcessFrame DEF TurnsInv, TurnInv
<1>6. UnbornTurns'
  BY <1>0, <1>1, <1>2, <1>3, ProcessFrame DEF TurnsInv, UnbornTurns
<1>7. FinishInv'
  <2> SUFFICES ASSUME NEW c \in (NumLoops - 1)..(counter - 1)
               PROVE  \/ value[c % NumProcesses] >= NumLoops
                      \/ pc'[c % NumProcesses] = "read"
    BY <1>1 DEF FinishInv
  <2>1. c % NumProcesses \in Procs BY ModRange
  <2>2. value[c % NumProcesses] >= NumLoops \/ pc[c % NumProcesses] = "read"
    BY <1>2 DEF TurnsInv, FinishInv
  <2> QED BY <1>0, <1>3, <2>1, <2>2, ProcessFrame
<1>8. NoOrphanedLock'
  <2>1. word' => word \/ lpc'[p] = "in"
    BY <1>0
       DEF TypeOK, Construct, Loop, Spin, Acquire, Test, Add, Unlock, Exit, Goto,
           L!Construct, L!Lock, L!ExchangeLoses, L!SeesClear, L!ExchangeWins, L!Unlock,
           L!Move
  <2>2. word' /\ lpc[p] = "in" => lpc'[p] = "in"
    BY <1>0
       DEF TypeOK, Construct, Loop, Spin, Acquire, Test, Add, Unlock, Exit, Goto,
           L!Construct, L!Lock, L!ExchangeLoses, L!SeesClear, L!ExchangeWins, L!Unlock,
           L!Move
  <2> QED BY <1>0, <1>2, <2>1, <2>2, ProcessFrame DEF TurnsInv, NoOrphanedLock
<1>9. CounterBound' BY <1>1, <1>2 DEF TurnsInv, CounterBound
<1> QED BY <1>1, <1>2, <1>4, <1>5, <1>6, <1>7, <1>8, <1>9 DEF TurnsInv

\* The parent's own steps come before the first turn or after its last.
LEMMA ParentStep ==
  ASSUME TurnsInv, Control', Parent
  PROVE  TurnsInv' /\ UNCHANGED value /\ (~Mapped \/ (Mapped /\ UNCHANGED counter))
                   /\ (Mapped' /\ ~Mapped => counter' = 0)
                   /\ (Mapped => Mapped')
<1>0. TypeOK /\ TypeOK' BY DEF TurnsInv, Control
<1>1. CASE MapInit
  <2>1. ~Mapped /\ counter' = 0 /\ word' = FALSE /\ UNCHANGED value
    BY <1>1 DEF MapInit, Goto, Mapped
  <2>2. \A p \in Procs : value[p] = 0 /\ pc'[p] \in {"unborn", "fork"}
    <3>1. \A p \in Children : pc[p] = "unborn"
      BY <2>1 DEF TurnsInv, Control, Unmapped, ForkAgrees
    <3> QED BY <1>0, <1>1, <2>1, <3>1, ProcFacts
            DEF TurnsInv, Control, Unmapped, MapInit, Goto, TypeOK
  <2>3. LeavesAtTarget' /\ TurnInv'
    BY <2>1, <2>2 DEF LeavesAtTarget, TurnInv, InLoop, Critical
  <2>4. UnbornTurns' /\ FinishInv' /\ CounterBound' /\ NoOrphanedLock'
    BY <2>1 DEF UnbornTurns, FinishInv, CounterBound, NoOrphanedLock, Procs
  <2> QED BY <2>1, <2>3, <2>4 DEF TurnsInv
<1>2. CASE ~MapInit
  <2>1. UNCHANGED <<word, lpc, counter, value, reg>> BY <1>0, <1>2, ParentFrame
  <2>2. Mapped <=> Mapped'
    BY <1>0, <1>2, ProcFacts
       DEF TypeOK, Mapped, Goto, Parent, MapFails, Fork, ForkFails, ForkLoopEnds, LoopEnds,
           WaitPid, WaitAny, Unlink, Children
  <2>3. \A p \in Children :
          pc'[p] = pc[p] \/ (pc[p] = "unborn" /\ pc'[p] = "construct")
    <3>1. Fork => pc[idx] = "unborn"
      BY DEF TurnsInv, Control, TypeOK, ForkAgrees, Fork, Children
    <3> QED BY <1>0, <3>1, ParentFrame
  <2>4. pc[0] \notin InLoop /\ pc'[0] \notin InLoop \cup {"unborn"}
    BY <1>0, ParentFrame DEF InLoop, Critical
  <2>5. pc'[0] \in {"wait", "gone"} => value[0] >= NumLoops
    BY <1>0, <1>2, ProcFacts
       DEF TurnsInv, LeavesAtTarget, TypeOK, Goto, Parent, MapFails, Fork, ForkFails,
           ForkLoopEnds, LoopEnds, WaitPid, WaitAny, Unlink, Children
  <2>6. LeavesAtTarget'
    BY <2>1, <2>3, <2>4, <2>5, ProcFacts DEF TurnsInv, LeavesAtTarget, InLoop, Critical
  <2>7. TurnInv'
    BY <2>1, <2>3, <2>4, ProcFacts DEF TurnsInv, TurnInv, InLoop, Critical
  <2>8. UnbornTurns'
    BY <2>1, <2>2, <2>3, <2>4, ProcFacts DEF TurnsInv, UnbornTurns
  <2>9. FinishInv'
    <3>1. \A p \in Procs : pc[p] = "read" => pc'[p] = "read"
      BY <2>3, <2>4, ProcFacts DEF InLoop, Critical
    <3> SUFFICES ASSUME Mapped, NEW c \in (NumLoops - 1)..(counter - 1)
                 PROVE  \/ value[c % NumProcesses] >= NumLoops
                        \/ pc'[c % NumProcesses] = "read"
      BY <2>1, <2>2 DEF FinishInv
    <3>2. c % NumProcesses \in Procs BY ModRange
    <3> QED BY <3>1, <3>2 DEF TurnsInv, FinishInv
  <2>10. CounterBound' /\ NoOrphanedLock'
    BY <2>1, <2>2 DEF TurnsInv, CounterBound, NoOrphanedLock
  <2> QED BY <2>1, <2>2, <2>6, <2>7, <2>8, <2>9, <2>10 DEF TurnsInv
<1> QED BY <1>1, <1>2

LEMMA TurnsStep == TurnsInv /\ [Next]_vars => TurnsInv'
<1> SUFFICES ASSUME TurnsInv, [Next]_vars PROVE TurnsInv' OBVIOUS
<1>1. Control' BY ControlStep DEF TurnsInv
<1>2. CASE UNCHANGED vars
  BY <1>1, <1>2
     DEF vars, TurnsInv, LeavesAtTarget, TurnInv, NoOrphanedLock, UnbornTurns, FinishInv,
         CounterBound, Mapped
<1>3. CASE Parent BY <1>1, <1>3, ParentStep
<1>4. ASSUME NEW p \in Procs, Process(p) PROVE TurnsInv'
  BY <1>1, <1>4, StoreStep, ReadStep, QuietStep DEF Process
<1> QED BY <1>2, <1>3, <1>4 DEF Next, Finished

LEMMA TurnsInvariant == Spec => []TurnsInv
  BY TurnsInit, TurnsStep, PTL DEF Spec

\* No increment is lost, although construction breaks the lock's exclusion.
THEOREM NoLostUpdate == Spec => []TurnInv
  BY TurnsInvariant, PTL DEF TurnsInv

\* The counter overshoots the target by less than the number of processes.
THEOREM BoundedOvershoot == Spec => []CounterBound
  BY TurnsInvariant, PTL DEF TurnsInv

\* Nobody leaves the loop before the target is reached.
THEOREM Leaves == Spec => []LeavesAtTarget
  BY TurnsInvariant, PTL DEF TurnsInv

\* The lock word is never set for good.
THEOREM NoOrphan == Spec => []NoOrphanedLock
  BY TurnsInvariant, PTL DEF TurnsInv

\* The counter never passes the turn of a process that was never forked.
THEOREM TurnOfTheMissing == Spec => []MissingTurn
<1>1. TurnsInv => MissingTurn
  BY ProcFacts DEF TurnsInv, Control, ForkAgrees, UnbornTurns, MissingTurn
<1> QED BY <1>1, TurnsInvariant, PTL

-----------------------------------------------------------------------------
(* Refinement of the turn counter.                                         *)

LEMMA RefinementInit == Init => Turns!Init
<1> SUFFICES ASSUME Init PROVE Turns!Init OBVIOUS
<1>1. ~Mapped BY ProcFacts DEF Init, Mapped
<1>2. \A p \in Procs : ~(value[p] >= NumLoops) BY DEF Init
<1> QED BY <1>1, <1>2 DEF Turns!Init

LEMMA RefinementStep == TurnsInv /\ [Next]_vars => [Turns!Next]_Turns!vars
<1> SUFFICES ASSUME TurnsInv, [Next]_vars PROVE [Turns!Next]_Turns!vars OBVIOUS
<1>0. Control' /\ TypeOK BY ControlStep DEF TurnsInv, Control
<1>1. CASE UNCHANGED vars BY <1>1 DEF vars, Turns!vars, Mapped
<1>2. CASE Parent
  <2>1. UNCHANGED value BY <1>0, <1>2, ParentStep
  <2>2. (IF Mapped THEN counter ELSE 0)' = (IF Mapped THEN counter ELSE 0)
    BY <1>0, <1>2, ParentStep
  <2> QED BY <2>1, <2>2 DEF Turns!vars
<1>3. ASSUME NEW p \in Procs, Store(p) PROVE Turns!Turn(p)
  <2>1. UNCHANGED <<value, Mapped>>
    BY <1>0, <1>3, ProcFacts DEF Store, Goto, Mapped, locals, TypeOK
  <2> QED BY <1>0, <1>3, <2>1, StoreStep DEF Turns!Turn, TypeOK
<1>4. ASSUME NEW p \in Procs, Read(p) PROVE Turns!Finish(p) \/ UNCHANGED Turns!vars
  <2>1. /\ UNCHANGED <<counter, Mapped>> /\ Mapped
        /\ value' = [value EXCEPT ![p] = counter] /\ value[p] < NumLoops
    <3>1. pc[p] = "read" BY <1>4 DEF Read, Goto
    <3>2. Mapped BY <3>1, RunsMapped DEF TurnsInv, InLoop, Critical
    <3> QED BY <1>0, <1>4, <3>1, <3>2, ProcFacts
            DEF TurnsInv, LeavesAtTarget, Read, Goto, Mapped, TypeOK, InLoop, Critical
  <2>2. CASE counter >= NumLoops
    <3>1. (\A q \in Procs : q # p => value'[q] = value[q]) /\ value'[p] >= NumLoops
      BY <1>0, <2>1, <2>2 DEF TypeOK
    <3>2. {q \in Procs : value'[q] >= NumLoops}
             = {q \in Procs : value[q] >= NumLoops} \cup {p}
      BY <1>0, <2>1, <3>1 DEF TypeOK
    <3> QED BY <1>0, <2>1, <2>2, <3>2 DEF Turns!Finish, TypeOK
  <2>3. CASE ~(counter >= NumLoops)
    <3>1. \A q \in Procs : value'[q] >= NumLoops <=> value[q] >= NumLoops
      BY <1>0, <2>1, <2>3 DEF TypeOK
    <3> QED BY <2>1, <3>1 DEF Turns!vars
  <2> QED BY <2>2, <2>3
<1>5. ASSUME NEW p \in Procs, Process(p), ~Store(p), ~Read(p)
      PROVE UNCHANGED Turns!vars
  <2>1. UNCHANGED <<counter, value>> /\ (Mapped <=> Mapped')
    BY <1>0, <1>5, QuietStep DEF Process
  <2> QED BY <2>1 DEF Turns!vars
<1>6. Procs = Turns!Procs BY DEF Procs, Turns!Procs
<1> QED BY <1>1, <1>2, <1>3, <1>4, <1>5, <1>6 DEF Next, Finished, Turns!Next

\* The test is a turn counter: turns are taken one at a time and in order, nobody
\* takes one after having seen the target, and the overshoot is bounded.
THEOREM Refinement == Spec => TakesTurns
  BY RefinementInit, RefinementStep, TurnsInvariant, PTL
     DEF TakesTurns, Turns!Spec, Spec

-----------------------------------------------------------------------------
(* A healthy lock.                                                         *)

LEMMA HealthyStep == Control /\ Healthy /\ [Next]_vars => Healthy'
<1> SUFFICES ASSUME Control, Healthy, [Next]_vars PROVE Healthy' OBVIOUS
<1>0. Control' /\ TypeOK /\ TypeOK' BY ControlStep DEF Control
<1>1. CASE UNCHANGED vars BY <1>1 DEF vars, Healthy, Mapped
<1>2. CASE Parent
  <2>1. UNCHANGED <<word, lpc>>
    BY <1>0, <1>2, ParentFrame DEF Healthy, MapInit, Goto, Mapped
  <2>2. Mapped' /\ \A p \in Procs : pc'[p] \notin {"fork", "construct"}
    <3>1. \A c \in Children : pc'[c] = pc[c]
      BY <1>0, <1>2, ParentFrame, ProcFacts DEF Healthy, Fork
    <3>2. pc'[0] \notin {"fork", "construct", "map", "unmapped"}
      <4>1. pc[0] \in {"loop", "wait"}
        BY <1>0, <1>2, ParentFrame, ProcFacts DEF Healthy, Mapped
      <4>2. CASE LoopEnds BY <1>0, <4>2, ProcFacts DEF TypeOK, LoopEnds, Goto
      <4>3. CASE WaitPid \/ WaitAny BY <4>1, <4>3 DEF WaitPid, WaitAny
      <4>4. CASE Unlink BY <1>0, <4>4, ProcFacts DEF TypeOK, Unlink, Goto
      <4> QED BY <1>2, <4>1, <4>2, <4>3, <4>4
              DEF Parent, MapInit, MapFails, Fork, ForkFails, ForkLoopEnds, Goto
    <3> QED BY <3>1, <3>2, ProcFacts DEF Healthy, Mapped
  <2> QED BY <2>1, <2>2 DEF Healthy
<1>3. ASSUME NEW p \in Procs, Process(p) PROVE Healthy'
  <2>1. Mapped' /\ \A q \in Procs : pc'[q] \notin {"fork", "construct"}
    BY <1>0, <1>3, ProcessFrame, ProcFacts DEF Healthy, Mapped, InLoop, Critical
  <2>2. CASE Acquire(p)
    <3>1. word' = TRUE /\ \A q \in Procs : lpc'[q] = "in" <=> q = p
      BY <1>0, <2>2, ProcessFrame, <1>3
         DEF Healthy, TypeOK, Acquire, L!ExchangeWins, L!Move
    <3> QED BY <2>1, <3>1 DEF Healthy
  <2>3. CASE Unlock(p)
    <3>1. word' = FALSE /\ \A q \in Procs : lpc'[q] # "in"
      BY <1>0, <2>3, ProcessFrame, <1>3
         DEF Healthy, TypeOK, Unlock, L!Unlock, L!Move
    <3> QED BY <2>1, <3>1 DEF Healthy
  <2>4. CASE ~Acquire(p) /\ ~Unlock(p)
    <3>1. word' = word /\ (lpc'[p] = "in" <=> lpc[p] = "in")
      BY <1>0, <1>3, <2>4
         DEF Healthy, TypeOK, Process, Construct, Loop, Spin, Test, Add, Store, Read, Exit,
             Goto, locals, L!Lock, L!ExchangeLoses, L!SeesClear, L!Move
    <3> QED BY <1>0, <1>3, <2>1, <3>1, ProcessFrame DEF Healthy
  <2> QED BY <2>2, <2>3, <2>4
<1> QED BY <1>1, <1>2, <1>3 DEF Next, Finished

\* Only construction breaks the lock: once everybody has constructed it and it is
\* in order, it stays in order.
THEOREM StaysHealthy == Spec => HealthyLockStays
  BY HealthyStep, ControlInvariant, PTL DEF HealthyLockStays, Spec
=============================================================================
