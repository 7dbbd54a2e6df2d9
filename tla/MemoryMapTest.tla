--------------------------- MODULE MemoryMapTest ---------------------------
(***************************************************************************)
(* testSpinLock() of tests/memorymap/testMemoryMap.cpp: a process maps a   *)
(* shared segment, forks its children, and then all of them, each having   *)
(* constructed the lock anew in the segment, take turns to increment the   *)
(* counter behind it.  Process 0 is the parent; process j is the child of  *)
(* the j-th fork.  The lock is module SpinLock, instantiated as L; one     *)
(* step is one access to shared memory or one system call.  Memory is      *)
(* sequentially consistent.                                                *)
(***************************************************************************)
EXTENDS Naturals, FiniteSets

CONSTANTS NumProcesses,   \* opt.numprocesses
          NumLoops,       \* opt.numloops
          Kinds,          \* the lock classes under test
          MayFail,        \* system calls that may fail: "map", "fork"
          LeftOver        \* counter values a stale segment of this name may hold

ASSUME ProcessesAssumption == NumProcesses \in Nat \ {0}
ASSUME LoopsAssumption == NumLoops \in Nat \ {0}
ASSUME LeftOverAssumption == LeftOver \subseteq Nat

Procs    == 0..(NumProcesses - 1)
Children == 1..(NumProcesses - 1)

VARIABLES kind, word, lpc,   \* the lock, see SpinLock
          counter,           \* the shared counter
          linked,            \* the segment's name exists in /dev/shm
          pc,                \* where each process is in testSpinLock()
          reg,               \* the register of "*counter += 1"
          value,             \* each process's local "value"
          pids,              \* the parent's result of each fork
          idx,               \* the parent's loop index "j"
          reaped             \* the children waitpid() has collected

vars == <<kind, word, lpc, counter, linked, pc, reg, value, pids, idx, reaped>>

\* The test calls lock() and unlock() only.
L == INSTANCE SpinLock WITH NoOwner <- NumProcesses, TryKinds <- {}

locals == <<reg, value, pids, idx, reaped, linked>>

Forked == {c \in Children : pids[c] = "child"}

Goto(p, from, to) == pc[p] = from /\ pc' = [pc EXCEPT ![p] = to]

Init ==
  /\ kind \in Kinds
  /\ linked \in BOOLEAN
  /\ word \in BOOLEAN /\ counter \in LeftOver \cup {0}
  /\ lpc = [p \in Procs |-> "out"]
  /\ pc = [p \in Procs |-> IF p = 0 THEN "map" ELSE "unborn"]
  /\ reg = [p \in Procs |-> 0]
  /\ value = [p \in Procs |-> 0]
  /\ pids = [c \in Children |-> "none"]
  /\ idx = 1
  /\ reaped = {}

-----------------------------------------------------------------------------
(***************************************************************************)
(* The parent maps the segment and forks.  A segment of the same name that *)
(* an earlier run left behind is opened as it is, then cleared.            *)
(***************************************************************************)
\* Mutant of MapInit: a stale segment is not cleared.
MapInitKeepsOld ==
  /\ Goto(0, "map", "fork")
  /\ linked' = TRUE
  /\ UNCHANGED <<kind, word, lpc, counter, reg, value, pids, idx, reaped>>

MapInit ==
  /\ Goto(0, "map", "fork")
  /\ linked' = TRUE
  /\ word' = FALSE
  /\ counter' = 0
  /\ UNCHANGED <<kind, lpc, reg, value, pids, idx, reaped>>

\* shm_open() fails, or it succeeds and ftruncate() or mmap() fails.
MapFails ==
  /\ "map" \in MayFail
  /\ Goto(0, "map", "unmapped")
  /\ linked' \in {linked, TRUE}
  /\ UNCHANGED <<kind, word, lpc, counter, reg, value, pids, idx, reaped>>

Fork ==
  /\ pc[0] = "fork"
  /\ idx < NumProcesses
  /\ pids' = [pids EXCEPT ![idx] = "child"]
  /\ pc' = [pc EXCEPT ![idx] = "construct"]
  /\ idx' = idx + 1
  /\ UNCHANGED <<kind, word, lpc, counter, linked, reg, value, reaped>>

\* fork() returns -1, which the loop stores as if it were a pid.
ForkFails ==
  /\ "fork" \in MayFail
  /\ pc[0] = "fork"
  /\ idx < NumProcesses
  /\ pids' = [pids EXCEPT ![idx] = "failed"]
  /\ idx' = idx + 1
  /\ UNCHANGED <<kind, word, lpc, counter, linked, pc, reg, value, reaped>>

ForkLoopEnds ==
  /\ Goto(0, "fork", "construct")
  /\ idx >= NumProcesses
  /\ UNCHANGED <<kind, word, lpc, counter, linked, reg, value, pids, idx, reaped>>

-----------------------------------------------------------------------------
(***************************************************************************)
(* What every process runs, parent and child alike.                        *)
(***************************************************************************)
Construct(p) ==
  /\ Goto(p, "construct", "loop")
  /\ L!Construct(p)
  /\ UNCHANGED <<counter, locals>>

Loop(p) ==
  /\ value[p] < NumLoops
  /\ Goto(p, "loop", "lock")
  /\ L!Lock(p)
  /\ UNCHANGED <<counter, locals>>

\* A lost exchange and the spinning that follows it.
Spin(p) ==
  /\ pc[p] = "lock"
  /\ L!ExchangeLoses(p) \/ L!SeesClear(p)
  /\ UNCHANGED <<counter, pc, locals>>

Acquire(p) ==
  /\ Goto(p, "lock", "test")
  /\ L!ExchangeWins(p)
  /\ UNCHANGED <<counter, locals>>

\* Mutant of Test: every process adds, turn or not.
TestAlwaysAdds(p) ==
  /\ Goto(p, "test", "add")
  /\ UNCHANGED <<kind, word, lpc, counter, locals>>

Test(p) ==
  /\ Goto(p, "test", IF counter % NumProcesses = p THEN "add" ELSE "read")
  /\ UNCHANGED <<kind, word, lpc, counter, locals>>

Add(p) ==
  /\ Goto(p, "add", "store")
  /\ reg' = [reg EXCEPT ![p] = counter]
  /\ UNCHANGED <<kind, word, lpc, counter, linked, value, pids, idx, reaped>>

\* Mutant of Store: two are added.
StoreTwice(p) ==
  /\ Goto(p, "store", "read")
  /\ counter' = reg[p] + 2
  /\ UNCHANGED <<kind, word, lpc, locals>>

Store(p) ==
  /\ Goto(p, "store", "read")
  /\ counter' = reg[p] + 1
  /\ UNCHANGED <<kind, word, lpc, locals>>

\* Mutant of Read: the counter is read after a turn only, within the branch.
ReadInTurn(p) ==
  /\ Goto(p, "read", "unlock")
  /\ value' = IF counter % NumProcesses = (p + 1) % NumProcesses
              THEN [value EXCEPT ![p] = counter] ELSE value
  /\ UNCHANGED <<kind, word, lpc, counter, linked, reg, pids, idx, reaped>>

Read(p) ==
  /\ Goto(p, "read", "unlock")
  /\ value' = [value EXCEPT ![p] = counter]
  /\ UNCHANGED <<kind, word, lpc, counter, linked, reg, pids, idx, reaped>>

\* Mutant of Unlock: the word is not cleared.
UnlockForgotten(p) ==
  /\ Goto(p, "unlock", "loop")
  /\ L!UnlockKeepsWord(p)
  /\ UNCHANGED <<counter, locals>>

Unlock(p) ==
  /\ Goto(p, "unlock", "loop")
  /\ L!Unlock(p)
  /\ UNCHANGED <<counter, locals>>

-----------------------------------------------------------------------------
(***************************************************************************)
(* A child leaves the loop to exit(0).  The parent leaves it to wait for   *)
(* each pid in turn and then removes the segment's name.                   *)
(***************************************************************************)
Exit(p) ==
  /\ p # 0
  /\ value[p] >= NumLoops
  /\ Goto(p, "loop", "gone")
  /\ UNCHANGED <<kind, word, lpc, counter, locals>>

LoopEnds ==
  /\ value[0] >= NumLoops
  /\ Goto(0, "loop", "wait")
  /\ idx' = 1
  /\ UNCHANGED <<kind, word, lpc, counter, linked, reg, value, pids, reaped>>

\* Mutant of WaitPid: waitpid() does not wait.
WaitPidNoHang ==
  /\ pc[0] = "wait"
  /\ idx < NumProcesses
  /\ pids[idx] = "child"
  /\ reaped' = IF pc[idx] = "gone" THEN reaped \cup {idx} ELSE reaped
  /\ idx' = idx + 1
  /\ UNCHANGED <<kind, word, lpc, counter, linked, pc, reg, value, pids>>

\* A child that is already reaped is no longer the parent's: waitpid() fails
\* with ECHILD, which nobody looks at.
WaitPid ==
  /\ pc[0] = "wait"
  /\ idx < NumProcesses
  /\ pids[idx] = "child"
  /\ pc[idx] = "gone"
  /\ reaped' = reaped \cup {idx}
  /\ idx' = idx + 1
  /\ UNCHANGED <<kind, word, lpc, counter, linked, pc, reg, value, pids>>

\* The pid of a failed fork is -1, which waitpid() takes for "any child".
WaitAny ==
  /\ pc[0] = "wait"
  /\ idx < NumProcesses
  /\ pids[idx] = "failed"
  /\ \/ Forked \subseteq reaped /\ UNCHANGED reaped
     \/ \E c \in Forked \ reaped : pc[c] = "gone" /\ reaped' = reaped \cup {c}
  /\ idx' = idx + 1
  /\ UNCHANGED <<kind, word, lpc, counter, linked, pc, reg, value, pids>>

Unlink ==
  /\ idx >= NumProcesses
  /\ Goto(0, "wait", "gone")
  /\ linked' = FALSE
  /\ UNCHANGED <<kind, word, lpc, counter, reg, value, pids, idx, reaped>>

Parent == MapInit \/ MapFails \/ Fork \/ ForkFails \/ ForkLoopEnds \/ LoopEnds
            \/ WaitPid \/ WaitAny \/ Unlink

Process(p) == Construct(p) \/ Loop(p) \/ Spin(p) \/ Acquire(p) \/ Test(p) \/ Add(p)
                \/ Store(p) \/ Read(p) \/ Unlock(p) \/ Exit(p)

\* Everybody has returned or exited: the system stops here and nowhere else.
Finished == (\A p \in Procs : pc[p] \in {"gone", "unmapped", "unborn"})
              /\ UNCHANGED vars

Next == Parent \/ (\E p \in Procs : Process(p)) \/ Finished

(***************************************************************************)
(* Every process keeps running.  The process whose turn it is may lose     *)
(* every exchange nevertheless: a test-and-set lock is not fair.           *)
(***************************************************************************)
Fairness == WF_vars(Parent) /\ \A p \in Procs : WF_vars(Process(p))

Spec == Init /\ [][Next]_vars /\ Fairness

-----------------------------------------------------------------------------

InLoop == {"lock", "test", "add", "store", "read", "unlock"}
Critical == {"test", "add", "store", "read", "unlock"}
PC == {"map", "unmapped", "unborn", "fork", "construct", "loop", "wait", "gone"} \cup InLoop

Mapped == pc[0] \notin {"map", "unmapped"}

\* Type invariant.
TypeOK ==
  /\ kind \in Kinds
  /\ word \in BOOLEAN
  /\ lpc \in [Procs -> {"out", "exchange", "spin", "in"}]
  /\ counter \in Nat
  /\ linked \in BOOLEAN
  /\ pc \in [Procs -> PC]
  /\ reg \in [Procs -> Nat]
  /\ value \in [Procs -> Nat]
  /\ pids \in [Children -> {"none", "child", "failed"}]
  /\ idx \in 1..NumProcesses
  /\ reaped \subseteq Children

\* The lock excludes.  What the program sets out to find (lines 4-5), and what
\* it defeats: every process constructs the lock in place (line 208), so a late
\* one clears the word under a process that already holds it.
LocksExclude == L!MutualExclusion

\* No increment is lost, whatever the lock does: between the test of line 225
\* and the store of line 226 nobody else moves the counter, because it is
\* nobody else's turn.
TurnInv == \A p \in Procs :
  /\ pc[p] \in {"add", "store"} => counter % NumProcesses = p
  /\ pc[p] = "store" => reg[p] = counter

\* A set word always belongs to somebody who will clear it, however the
\* constructions interleave with the lock: it is never set for good.
NoOrphanedLock == Mapped /\ word => \E p \in Procs : lpc[p] = "in"

\* The counter stops at the turn of a process whose fork failed.
MissingTurn ==
  Mapped => \A c \in Children : pids[c] = "failed" => counter <= c

\* The counter overshoots the target by less than the number of processes: one
\* that has seen the target takes no further turn.
CounterBound == Mapped => counter <= NumLoops + NumProcesses - 1

\* A process leaves the loop only when the target is reached, and what it last
\* saw is not ahead of the counter.
LeavesAtTarget == \A p \in Procs :
  /\ value[p] <= counter
  /\ pc[p] \in InLoop \ {"unlock"} => value[p] < NumLoops
  /\ pc[p] \in {"wait", "gone"} => value[p] >= NumLoops

\* The segment's name is there as long as a child runs, and when the parent
\* returns from a run it has started, no child is left and the name is gone.
ParentReturnsLast ==
  /\ (\E c \in Children : pc[c] \notin {"unborn", "gone"}) => linked
  /\ pc[0] = "gone" => reaped = Forked /\ ~linked

\* Once every lock has been constructed and at most one process is in the lock,
\* exactly while the word is set, it stays so: only construction breaks it.
Healthy ==
  /\ Mapped /\ \A p \in Procs : pc[p] \notin {"fork", "construct"}
  /\ \A p, q \in Procs : lpc[p] = "in" /\ lpc[q] = "in" => p = q
  /\ word <=> \E p \in Procs : lpc[p] = "in"

HealthyLockStays == [][Healthy => Healthy']_vars

\* The processes together are the turn counter of module TurnCounter.
Turns == INSTANCE TurnCounter WITH
  counter <- IF Mapped THEN counter ELSE 0,
  done <- {p \in Procs : value[p] >= NumLoops}

TakesTurns == Turns!Spec

\* Once the counter has reached the target the run ends, whatever the lock does and
\* whoever wins it: each process that has not read the target yet takes the lock
\* for a last time, and the parent collects the children and returns, also when it
\* has a pid -1 to wait for.  How long the counter takes to get there is up to the
\* lock, which may starve the process whose turn it is.
TargetEndsRun == (Mapped /\ counter >= NumLoops) ~> (pc[0] = "gone")
=============================================================================
