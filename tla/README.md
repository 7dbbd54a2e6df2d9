# A verification project for tiny-cpp-perf-stats

tiny-cpp-perf-stats is a C++ library that taps the processor's performance
counters around sections of a program, and a set of test programs that use it.
These TLA+ modules model the parts of it that keep state: the shared-memory lock
test, the counter groups and single counters, the samples of a `Snapshot` and the
choice of a regression model over them, two histograms and the bits they rest on,
the jitter test with its calibration, the pool allocator, the two event
schedulers, and the library's small containers.
TLC checks them on small instances. TLAPS proves the lock and the lock test for
every number of processes and loops, what the threads of the jitter test share
for every number of cores, what a counter group opens, closes, reads and covers for
every number of events, both schedulers with their refinement for every number
of items, the bins of `BitUtils` for every width of the words, the percentiles of
both histograms for every number of bins, the pool allocator with its refinement
for every use of it, the pauses the jitter test's calibration finds for every number of
cores, and a single counter, `split()`, `Product`, `IndexedMap`, `KahanSum`, the
names of a sample's events and the choice of a regression model likewise.

Source paths below are relative to `src/`.

## 1. Inventory

### 1.1 Spin locks and the shared-memory test (`tests/memorymap`)

*State.* `MMapFile` owns a POSIX shared segment, which has a name in `/dev/shm`
and is zeroed when it is mapped. In the segment lie a lock word, constructed in
place, and a counter. Each process has its local `value`, and the parent has the
vector of pids.

*Operations.* `MMapFile::init()` and `unlink()`. Four lock classes with `lock()`,
`try_lock()`, `unlock()` and `locked()`. `testSpinLock()`: map, fork, construct
the lock, take turns to increment the counter, exit or wait for the children and
unlink.

*Interactions.* All processes share the word and the counter; the parent and its
children meet in `waitpid()`; all of them share one `Snapshot`.

*What is hard.* Every process constructs the lock, so the word is cleared under
whoever holds it. `fork()` may fail and its `-1` is kept as a pid. The segment
may be a stale one. The loop ends on what was last read. A test-and-set lock is
not fair. What `try_lock()` returns says success in two classes and failure in the
other two.

*Correct when* the lock excludes; no increment is lost; the counter's overshoot
is bounded; no set word is left without an owner; the parent removes the segment
last; once the target is reached everybody leaves.

### 1.2 Counter groups (`libs/PerfGroup`, `libs/Snapshot`, `libs/PerfUtils`, `libs/PerfCounter`)

*State.* One descriptor, id and value for each event, the list of group leaders,
an index from names to positions, a read buffer; in the kernel the events
themselves with their groups, their enabled flags and counts; in `Snapshot` the
samples: by label the sizes of the problem and, for each event's name, the counts
per iteration. A `PerfCounter` has one descriptor. `PerfUtils` is a table from
names to the type and number the kernel is asked for.

*Operations.* `init()` (open with up to five tries, retry as a leader, ask for
the id, sort, index), `start()` (reset and enable every group), `stop()`
(disable, then read), `read()`, `close()`; `Snapshot::stop()`, which files a row
of samples; `PerfCounter`'s `init()`, `start()`, `stop()`, `close()`.

*Interactions.* `Snapshot` calls `start()` and `stop()` and ignores their result.
After `fork()` several processes drive one set of events.

*What is hard.* Every system call may fail half way through the groups; a failed
read leaves an old message in the buffer; the descriptors are searched by id and
are sorted only if `init()` got to its end; the kernel counts between any two
calls. A type and a number of an event mean something only together. A
`PerfCounter` reports a failed call and goes on.

*Correct when* a sample whose calls worked covers its section and nothing more
than the two calls; a value never is another event's; nothing counts between the
sections; the descriptors that are closed are those that were opened; the values
under an event's name are that event's counts.

### 1.3 Bins (`libs/BitUtils.h`, `libs/MicroStats.h`, `libs/Histogram.h`)

*State.* `MicroStats`: the range of every bin, computed once, the counters of the
bins and their total. `Histogram`: the counters of bins of equal width and three
sums for each. `BitUtils` has none.

*Operations.* `ilog2`, `irange2`, `flog2`, `asfp64`; `add`, `clear`,
`percentile` or `pct`, `calcbin`, `calcrange`.

*What is hard.* Shifts, biases and masks that must fit each other for every
number of divisions; 32-bit arithmetic beside 64-bit; rounding in a conversion;
the edge between two bins; an interpolation that is not defined there.

*Correct when* a value lies in the range of its bin; every value is counted; a
percentile is as close to the order statistic as the divisions promise and grows
with its argument.

### 1.4 Allocators (`libs/Allocators.h`)

*State.* For each of 64 banks a free list threaded through the free items and the
rest of a block; the block allocator's vector of blocks.

*Operations.* `allocate`, `deallocate`, the destructor, and what the containers
do with their memory in between.

*What is hard.* Links are read from memory that clients write to. Requests of
several sizes share a bank. A block allocator may throw.

*Correct when* items in use never overlap or leave their block, none is lost,
every block is given back.

### 1.5 Schedulers (`tests/scheduler`)

*State.* A `std::multimap` or a `std::priority_queue` of pending events, the
counter the events add to, the loop variables of `test()`.

*Operations.* `schedule(time, event)`, `check(time)`, `createOneEvent<0,100>()`,
the four sections of `test()`.

*What is hard.* An event runs while it is still in the container; the last
section schedules events, some in the past, while it runs others.

*Correct when* each event runs once, in order, when due, and is the one that was
asked for; the container stays bounded; the test ends.

### 1.6 Jitter test (`tests/jitter`, `libs/TimingUtils.h`)

*State.* A `Stats` for each core: its thread's id, what the thread is to do, its
histogram and its results; the least number of events over the cores. Before
that, the quantum: the least step between two readings of the clock.

*Operations.* `calcQuantum()` while the program starts. `runAllTests()` in two
modes: launch a thread for each core, join, collect; then again at another
priority with the same `Stats`. A thread counts as a pause each step of more than
ten times the quantum.

*Interactions.* main and the thread of a core share its `Stats`, ordered by
`pthread_create()` and `pthread_join()` alone.

*What is hard.* A thread that cannot be created leaves an id that is joined all
the same, and may by then be another thread's. The histogram goes on from one
pass to the next. The calibration is not bound to a core: it may migrate between
any two calls, and the next core's clock may be behind.

*Correct when* main and a thread never use a `Stats` at once; no sample is lost;
the excess of events is one; what is counted as a pause is one; main ends.

### 1.7 Containers, sums and the regression (`libs/StringUtils.h`, `Product.h`, `IndexedMap.h`, `KahanSum.h`, `Regression.cpp`)

*State.* `Product`: a position in a space of combinations. `IndexedMap`: a vector,
and a map from keys to positions in it. `KahanSum`: a sum and its residual.
`summary()`: the best model so far while it goes through the labels of a
`Snapshot`.

*Operations.* `split()` in three forms; `init()` and `next()`; two `operator[]`
and the iterators; `add()` and `clear()`; `summary()` with up to four fits for
each label.

*What is hard.* The last view of `split<N>()` takes the rest. A place of a
product is counted up before it is compared. One value of the index type is a
mark. Every intermediate result of a sum is rounded. A fit may fail, and one
result is refilled by all of them.

*Correct when* views are the words; each combination comes once; values keep the
order in which their keys came; the sum is as good as if rounded once; the model
reported is the best of those that were solved for that label.

### 1.8 What else there is

| part | what it is | state here |
|---|---|---|
| `calcFrequencyGHz()`, `CpuUtils` | a quotient of two clocks, wrappers of system calls | not modelled: arithmetic of reals, or a single call |
| arithmetic of `Regression`, `Counter` | least squares over real numbers; an empty header | out of reach |
| cache tests, Duff's loop test | benchmarks: loops over library containers between two readings of a clock | not modelled: their result is a time |
| command line of the lock test | string parsing into four sets | not modelled |
| `SelectiveCacheVector`, `AsmUtils.h`, build files | no behaviour | not modelled |
| `datasets/` | two texts, 43,000 lines of arrays of characters | data: most lines of the sources that have no counterpart here are these |

## 2. The modules

| module | code | rests on | abstract specification |
|---|---|---|---|
| `Mutex` | | | what a lock promises |
| `SpinLock` | four lock classes, `testMemoryMap.cpp:35-160` | | implements `Mutex` |
| `TurnCounter` | | | what the processes of the lock test do together |
| `MemoryMapTest` | `testSpinLock()`, `MMapFile` | instance of `SpinLock` | implements `TurnCounter` |
| `PerfGroup` | `PerfGroup.cpp` under `Snapshot.cpp`, and the kernel's counting | | |
| `PerfCounter` | `PerfCounter.cpp`, and the kernel's event | | |
| `PerfUtils`, `Snapshot` | `PerfUtils.cpp`, the samples of `Snapshot.cpp` | | |
| `Regression` | `summary()` of `Regression.cpp` | extends `Snapshot` | |
| `BitUtils`, `TestBits` | `BitUtils.h`, `testBits.cpp` | | |
| `MicroStats`, `Histogram` | `MicroStats.h`, `Histogram.h` | | |
| `KahanSum` | `KahanSum.h` | extends `BitUtils` for the rounding | |
| `Split`, `Product`, `IndexedMap` | `StringUtils.h`, `Product.h`, `IndexedMap.h` | | |
| `StdMap` | `operator[]` of a `std::map`, used by `IndexedMap`, `Snapshot`, `Regression` and, for memory, `PoolAllocator` | | |
| `Heap` | | | what an allocator promises |
| `PoolAllocator` | `Allocators.h` | instance of `BitUtils` | implements `Heap` |
| `Agenda` | | | what a scheduler promises |
| `Scheduler`, `TestScheduler` | `tests/scheduler` | | implements `Agenda` |
| `Jitter` | `runAllTests()` of `jitter.cpp` | | |
| `Calibration` | `calcQuantum()`, `busyWait()` and the threshold of `jitter.cpp` | | |
| `Library` | a program that uses one of the parts above that know nothing of each other | extends ten modules | |
| `SpinLockProofs`, `MemoryMapProofs`, `TestSchedulerProofs`, `JitterProofs`, `PerfGroupProofs`, `PoolAllocatorProofs` | theorems about the module of that name | | |
| `BitUtilsProofs` | lemmas about the functions of `BitUtils`, used by the next one, for `TestBits` and `MicroStats`, and by `PoolAllocatorProofs` | extends `BitUtils` | |
| `LibraryProofs` | theorems about the parts of `Library`: `TestBits`, `MicroStats`, `Histogram`, `Split`, `Product`, `IndexedMap`, `KahanSum`, `PerfCounter`, `Snapshot`, `Regression`, `Calibration`; and about their composition | extends `Library` | |

Each module that TLC runs has an `MC` module that gives its constants values. A
comment "Mutant of D" stands before a definition that is not part of the model:
it changes D the way a plausible slip in that code would, and the property it is
paired with in `PROJECT.json` fails when it takes D's place.

### SpinLock

A step is one access to the word. `lock()` is `Lock` (the call) and then
`ExchangeWins`; a lost exchange of Rigtorp's lock is `ExchangeLoses`, after which
it spins on a load until `SeesClear`. For the other classes a lost exchange is
followed by another one and is a stutter. `TryLock`/`TryExchange` are
`try_lock()`; Rigtorp's loads first. `TryReturns` is what it returns, and the caller
goes by that: in Rigtorp's and TAS it is whether the word was taken, in the two Bryce
classes the word's old value, the opposite. `TryKinds` are the classes whose
`try_lock()` is called: with Rigtorp's and TAS each class is a mutex, with the others
it is not (finding 5). `Locked`/`LockedClears` are the probe of the
two Bryce classes, which take the lock to see whether it is held. What a process
does between two attempts (pause, `sched_yield`, `nanosleep`) changes no state.
The four classes share the model, and `kind` selects the differences.

### MemoryMapTest

Process 0 is the parent, process j the child of the j-th `fork()`. `pc` follows
`testSpinLock()`: map, fork loop, construct, the loop (`lock`, the modulus test,
the load and the store of `*counter += 1`, the read into `value`, `unlock`), then
`exit(0)` or the `waitpid()` loop and `unlink()`. `*counter += 1` is two steps.
A failed `fork()` leaves "failed" in `pids`, and `waitpid(-1)` is `WaitAny`: it
reaps any child, or fails when there is none. `Init` allows any stale segment.
Memory is taken to be sequentially consistent: the exchanges are, the plain
accesses to the counter lie between them on a strongly ordered processor.

### PerfGroup

Every system call of `init()`, `start()`, `stop()` and `read()` is a step,
because the kernel counts between any two of them (`Tick`). `perf` is the
kernel's side: descriptor to event, group, id, enabled flag and count. An event
counts when it and its leader are enabled. `leaders`, `ids`, `names` are the
object's fields, `value` and `buf` are per process, because a fork copies them.
`OpenAlone` is the retry without a group; `InitFails` leaves later descriptors
at 0 and the table unsorted. `Index` takes any order that is sorted by id
(`SortedOrders`): `std::sort` promises no more. `LowerBound` is `std::lower_bound` on the table
whatever its order. `tick`, `lo`, `hi`, `clean` record what really happened, and
only the properties read them. In `NeverAnothers` the sections of a failed
`init()` are included.

### PerfCounter, PerfUtils, Snapshot, Regression

`PerfCounter` is an event of its own with a system call a step; `Occurs` is the
kernel counting between any two. `since` and `inside` bound what a section may be
said to have: what happened since `start()` was called, and between its return
and the call of `stop()`.

`PerfUtils` has the table of `translate()` with the kernel's numbers, and
`Meaning`, the kernel's reading of them. `SnapshotStop` is a measured section: it
files what the kernel counted for the code each name was translated to, and
`measured` keeps what happened, by its true name. `Regression` goes on from it:
`Summary` is the call, `NextLabel` and `NoDependent` the outer loop's body up to
the options, `TrySolved` and `TryUnsolved` one fit, `Report` the end of the body.
A fit gives one of a few criteria or fails. It cannot be solved with fewer points
than coefficients, may fail for other reasons, and never has a criterion that is
NaN.

### BitUtils, TestBits, MicroStats, Histogram

Pure functions, written as the code computes them, every stored value cut to the
width of its type. The widths are parameters because TLC's integers have 32 bits:
`TestBits` runs with 12-bit words and 6-bit fractions, so that numbers from 128
on lose bits in a double as those from 2^53 do; `MicroStats` with 12 and 6 bits
for 64 and 32, so that an offset outgrows its 32-bit type as it does in the code.
The shift of a 32-bit value by 32 or more is undefined in C++. The model
leaves open which of two results the build produces: the amount modulo the width
("masked") or zero ("zero"). A percentile is a rational, compared by
cross-multiplication. A value whose bin lies behind the array changes no counter
of the model; what the code writes there is outside the object.

Of the number `Histogram::pct()` gives, the model keeps the bin: the place in it
is an approximation by a normal distribution, cut to the limits of the bin. Where
the approximation is not defined the result is `Missing`, which is NaN.

### KahanSum, Split, Product, IndexedMap

`KahanSum` adds integers under a rounding to `Mantissa` bits, so that a residual
is as large against the sum as it is for doubles. A step of `Split` is an
iteration of the loop, a view the positions of its ends. `next()` of `Product` is
three actions, for its three results. `Assign` of `IndexedMap` is
`operator[](key)` with a write through what it returns, `AssignAt` the one with a
position; `stored` and `order` are the map one would write down.

### PoolAllocator

Addresses are numbers. `word` holds the first word of every item ever carved: the
free list's link, or whatever the container put there (`Use` writes `Junk`).
`Reuse`, `Carve` and `NewBlock` are the three ways out of `memory_pool::alloc()`;
`MapFails`, `MadviseFails` and `MallocFails` are how the block allocators fail:
an exception, an exception after the memory is there, and `std::exit(1)`.
`Destroy` is the destructor of the last copy. Event counters that nobody reads
are left out. Requests are assumed to stay below bank 64 (4 GiB).

### Scheduler, TestScheduler

The container is a sequence in order of insertion. `First` is what distinguishes
the classes: `begin()` of a multimap is the oldest of the earliest entries,
`top()` of a priority queue, ordered by time alone, may be any of the earliest.
A step of `check()` is one iteration of its loop. `TestScheduler` is the whole of
`test()`, with every choice of random times and classes, both distributions
including their upper bound. `NumClasses` is any number, as `main()` takes it from its
argument: one past the classes there are asks for the last of them (`ClassOf`), which
is where the search of `createOneEvent()` ends.

### Jitter

`pc`, `pass` and `core` follow main through `runAllTests()`; `thread` holds what
the thread library knows: for each id a thread that is not joined yet. `Launch`
and `LaunchFails` are `runJitterTestInCore()` up to the sleep or the join. After
a failure `tid` is what it was or the id the library had picked. `Joined` is
`pthread_join()`: of a thread that is there, whosever it is, it waits for the
end; of an id without a thread it is undefined, and the model lets it return or
crash. A thread adds samples, each a load and a store of the total, then stores
its results. Percentiles and what is printed are left out.

### Calibration

A step is a reading of the clock, what is computed from it, or
`sched_getcpu()`; `Migrate` falls between any two, as long as the thread is not bound.
Each core's clock is the time and an offset. `ForwardDifference` is the code's in
unsigned words: for a clock that went backwards from `b` to `a` it wraps to
`b - a - 1`, a small number, which becomes the quantum if nothing resets it;
`Threshold` wraps as ten times a 64-bit number does. `BeginCollecting` and
`BeginWaiting` are the two readings before the thread's loop; the thread starts on any
core and is `pinned` to it, or not if the call that asks for it has failed, which the
code only prints. `least` and `pauses` say what would be found with one perfect clock,
`crossed` that a difference of two cores' clocks was taken since the last reset.

### Library

The ten parts are independent of each other, and the run takes one at a time:
`part` says which, and the others keep their initial state. Composed this way,
their state space is the sum of theirs and not the product.

## 3. The runs

| run | instance | what it shows |
|---|---|---|
| `spin_lock` | 3 processes, 4 classes, any calls in any order, `try_lock()` of Rigtorp's and TAS | each class implements a mutex; the word is set exactly while held; a waiter notices a release |
| `spin_lock_try` | the two Bryce classes with their `try_lock()` | finding 5: two are in |
| `memory_map` | 3 processes, target 2, failing forks and mappings, stale segments | no increment is lost, the overshoot is bounded, a set word has an owner, the parent returns last, the processes implement `TurnCounter`, and once the target is reached all leave and the parent returns |
| `memory_map_locks` | 3 processes, 3 loops | finding 1: the lock does not exclude |
| `perf_group` | 1 process, 2 events, 2 sections, every call may fail | samples cover their sections, values are their own event's, nothing counts in between, descriptors are closed |
| `perf_group_fork` | 2 processes, 1 event | finding 2: a section is cut |
| `library` | ten parts, each alone on an instance of its own | `irange2` undoes `ilog2`, bins have no gaps, `flog2` is off by rounding only; percentiles of `MicroStats` are accurate and monotone, those of `Histogram` lie in the right bin; fields are words; each combination comes once; values follow their keys; sums are off by one rounding; `stop()` answers for its section; the best model is reported; pauses are real |
| `micro_stats_ranges` | a value with a wide offset | finding 3: the range is wrong |
| `micro_stats_bins` | a value with the top bit | finding 4: no bin |
| `pool_allocator` | 3 banks, 2 pages of 32 bytes, 3 block allocators | `Heap` is implemented, free lists are sound and keep every free item, no block leaks |
| `jitter` | 2 cores, 3 thread ids, 2 samples a thread, both modes, failing launches | main and threads never meet in a `Stats`, no sample is lost, the excess is not negative, main ends |
| `test_scheduler` | 3 items, 2 loops, 4 classes and an index past them, both schedulers | `Agenda` is implemented, work is conserved, the container is bounded, the test ends |

### Why the bounds are enough

*Processes.* Three processes are the fewest with a holder, a late constructor and
a waiter at once; the target of two is the smallest that
lets a process take a second turn (process 0 at 0 and at 3), so that the overshoot
reaches its bound of 4, and lets the parent get past the failed fork of child 2,
whose turn is not needed, to `waitpid(-1)`; child 1's is, and a run without it
waits for ever. The program's own targets are from 1024 on, the number of its
processes is any. *Lock classes.* `memory_map` uses Rigtorp's and TAS: the test
calls `lock()` and `unlock()` only, and there the Bryce classes are TAS.
*Events.* Two events are a group of two, or two groups when the second cannot
join; ids come in either order, so that the sort matters. Two sections are the
fewest in which something may be left from one to the next, two ticks for each
event the fewest that tell "before" from "during". *Pages.* With 32-byte pages a
bank of 12-byte items leaves a remainder, one of 16 fits exactly, one of 48 takes
two pages; requests of 1 and 11 bytes share a bank. *Items.* Two events at one
time and a third before, after or beyond the last check; two loops carry events
over from one to the next. With four classes the search has two halvings, and the index
4, which stands for 100 and all beyond, asks for one that is not there. *Threads.* Two cores are the fewest at which one's id
may be another's; a third id lets a launch in the second pass find a free one
while an old one is still taken.

*The parts of `library`.* *Bins:* numbers below 512 and 0 to 3 division bits; with
a 6-bit fraction a double is exact up to 128, and two octaves beyond are rounded.
Four values at the edges of bins and octaves fill one bin or leave empty ones
between. *Words:* texts of up to five characters have separators at both ends,
double ones, and more words than an array of two or three has fields.
*Combinations:* up to three places of 0 to 3 values, any object used again at any
time. *Keys:* five keys for four indices reach the key whose position is the
mark; what happens to the fifth is beyond what the property claims. *Sums:* 1,
-3 and 50 up to 400 in total round at every step and cancel. *Histogram:* four
bins of ten; samples below, on, next to and beyond the limits. *Counter:* four
occurrences, so that one falls before, in, between and after sections.
*Regression:* two labels and four sections; with one metric a fit needs three
points, so that one label may have enough while the other has not. *Calibration:*
two cores whose clocks differ by 10, steps of 1 or 11, two migrations: a long
step looks short and a short one long, or is negative and wraps to a small number, and
a second migration falls between a reading and the call that would notice the first, or
into the collection if the thread is not bound.

`Finished` is the one place where `MemoryMapTest` and `PerfGroup` may stop, so
deadlock is checked there. `PoolAllocator` stops at `std::exit()`,
`TestScheduler` at the end of its program, `Jitter` there or in a crash. Of the
parts of `Library`, `TestBits` ends with its walk, `Split` with its text and
`Calibration` with its collection; `Snapshot` stops at the bound of its sections.

### Fairness

*SpinLock.* Weak fairness of the steps inside the lock's code: the scheduler keeps
running a process that is in `lock()`. Nothing is assumed of the caller, who may
never unlock. *MemoryMapTest.* Weak fairness of every process: the scheduler keeps
running it. Nothing is assumed about who wins an exchange: a test-and-set lock may
starve the one process whose turn it is, for ever, and that the target is ever reached
is not claimed. `TargetEndsRun` speaks of what follows when it is: a process that then
gets the lock sees the target and leaves, so that there are ever fewer to lose
against. It could fail through a word nobody clears, a child nobody reaps, a
`waitpid()` of a failed fork's pid, or a process that reads the counter only when it is
its turn.
*TestScheduler.* A single thread that keeps running.
*Jitter.* The system runs main and every thread, and a thread's wait is finite.
*PerfGroup*, *PoolAllocator* and the parts of `Library` state safety only.

### Findings

1. **The lock test's lock does not exclude** (`memory_map_locks`). Each process
   constructs the lock after the fork (`testMemoryMap.cpp:208`), which clears the
   word, maybe under a holder. The test is sound all the same: `TurnInv` holds,
   because only the process whose turn it is writes, and `HealthyLockStays` says
   that once the last construction is done and the lock excludes, it goes on to.
2. **Processes that share a Snapshot cut each other's sections**
   (`perf_group_fork`). `main()` makes it before the forks; `start()` and `stop()`
   of every process reset, enable and disable the same events. It takes the second
   process: theorem `SectionsWhole` has the same property for one.
3. **Ranges of bins above 2^32 are wrong** (`micro_stats_ranges`):
   `MicroStats.h:123` shifts a `uint32_t`. Below the ranges are right
   (`ValuesInRange`).
4. **Values from 2^63 on have no bin** (`micro_stats_bins`): `NUMBINS`
   (`MicroStats.h:36`) is one octave short of what `calcbin()` gives. `add()`
   then writes behind its array. All values below 2^63 are counted, also those whose
   ranges are wrong (`ValuesCounted`).
5. **`try_lock()` of the two Bryce classes says the opposite** (`spin_lock_try`): lines
   57 and 86 of `testMemoryMap.cpp` return the word's old value, lines 115 and 148 of the
   other classes whether it was clear. A caller who takes the result for success
   enters beside the holder, and a winner does not know that it should unlock. The
   test calls `lock()` and `unlock()` only.

Two more disagreements are in the model and have no run:

- *"cache-misses" are reads of the data TLB*: `PerfUtils.cpp:52` pairs the type of a
  cache event with the number of a hardware event. The kernel takes 3 for the data TLB,
  read, access. The other names of the table are what they say (theorem `NamesFit`,
  whose hypothesis `NamesMeant` leaves out this one).
- *The reset at a migration keeps a reading of the other core*: `calcQuantum()` resets
  `quantum` and `cpu`, and goes on from `last` (`jitter.cpp:49-53`), which a thread
  that migrated between its reading of the clock and `sched_getcpu()` has from the core
  it left. The next difference is one of two cores' clocks, and if the new one is behind
  it wraps to a small number, which stays the quantum. `PausesAreReal` excepts what was
  counted after that, as `crossed` says.

Not findings, but worth knowing: `transparent_allocator` leaks its block when
`madvise()` fails (`NothingLeaks` excludes it); after a failed `PerfGroup::init()`
the object's `close()` closes descriptor 0, once for each event it did not get to
(the model has it; `ClosesItsOwn` speaks of successful inits); with a failed fork the lock test
waits for ever, at the turn nobody takes (`MissingTurn`); after a
failed `pthread_create()` the jitter test joins an id that belongs to no thread,
which may crash it, or to another core's, which does no harm (`NoStatsShared`);
a percentile of `Histogram` is NaN when the rank asked for is 0 or the last of its bin,
as with a median of two values in different bins, and may be in any bin of several
values, when their variance rounds to a negative number (`PercentileOfRank` says which
of the two); after a migration at the last reading of the calibration the
quantum is its initial value, ten times which wraps to just below it, so that no
pause is counted; an argument of 100 or more gives the schedulers' test events of
class 99 for each number beyond, without a word; `forward_difference()` of a clock that
went backwards gives one less than the distance;
`PerfCounter::init()` answers true whether the event could be opened or not, and
`PerfCounter.cpp` is in no target of the build; `README.md` counts 28 models where
`summary()` has four.

## 4. The proofs

`SpinLockProofs` proves, for any set of processes and any subset of the four
classes:

- `TypeCorrect`, and, *if the tries are truthful* (`TriesTruthful`: `try_lock()` is only
  called of Rigtorp's and TAS; finding 5 is what happens otherwise), `Exclusive` and
  `WordHeld`. `MutualExclusion` alone is not inductive, because an unlock clears a word
  that another might own; with `WordIsHeld` it is (`LockInv`, lemma `LockStep`).
- `Refinement`: `Spec => ImplementsMutex`, under the same hypothesis. The holder is the
  process that holds; each step is a `Take`, a `Drop` or a stutter (`HolderFacts` ties
  the `CHOOSE` of the mapping to the one holder there is).

`MemoryMapProofs` proves, for any positive number of processes and loops and any
left-over contents:

- `TypeCorrect` and `ParentLast`, from `Control`: where a process is in the
  lock's code agrees with where it is in the test (`LockAgrees`), before the
  mapping only the parent runs (`Unmapped`), what `pids` says of a child agrees
  with its `pc` (`ForkAgrees`), and while waiting the parent has reaped or seen
  gone what lies before `idx` (`WaitAgrees`).
- `NoLostUpdate`, `BoundedOvershoot`, `Leaves`, `NoOrphan`, `TurnOfTheMissing`,
  from `TurnsInv`. The lock gives nothing, because a late construction breaks it:
  that no increment is lost follows from the turns alone. `TurnInv` says so and
  is inductive only with the modulus of the counter fixed while somebody is at
  its store. Two parts are not run as properties: the counter does not pass the
  turn of a process that is not yet born (`UnbornTurns`, which needs that a turn
  of a small number is that number, `ModSmall`), and each turn from
  `NumLoops - 1` on was taken by a process that has since been, or will be, at a
  read of the target (`FinishInv`). The last one bounds the overshoot: a counter of
  `NumLoops + NumProcesses - 1` would have its next turn at a process that
  finished (`ModWrap`).
- `Refinement`: `Spec => TakesTurns`; a `Store` is a `Turn`, a `Read` of the
  target a `Finish`, all else a stutter.
- `StaysHealthy`: the action property, by cases over the steps.

`TestSchedulerProofs` proves, for any number of items and loops, any argument, be it
more than there are classes, and any random times:

- `Bounded`: the container holds at most two entries for each item. `PendingBound`
  is inductive only with how full the container may be in each section of
  `test()` (`Filled`): in the last a check that has run an event has left room
  for the one that takes its place. That a run removes one entry is lemma
  `RunLen`, by `RemoveAt` as two subsequences.
- `Conserved`. That no work is lost needs more than `WorkConserved` says: `WorkInv`
  adds that the times and classes of all entries are numbers, and that
  `createOneEvent()` gives an event of the class it was asked for, or of the last if
  that is past them all, which its search in halves finds in every case (`ClassFound`). A sum of classes is the number of
  units of work there are, a class `c` having `c` of them (`Units`,
  `WorkIsUnits`), so that its independence of the order is a bijection
  (`WorkMoved`).
- `Refinement`: `Spec => ImplementsAgenda`. The container maps to the bag of its
  entries, in which appending one adds a copy (`BagAppended`) and `RemoveAt` takes
  one away (`BagRemoved`).
- `Exhausted`: `StepsRunDown`, why the test ends. `StepsLeft` counts the entries
  pending, one step each, and twice the steps the loops of `test()` may still make
  without those that run an event (`ControlLeft`). A run takes an entry away. Only a
  filling step and the return of a check add one, which is less than what the loop's
  own step counts; an event found late is not replaced before `check()` returns. A
  round of the checking loops is two steps an item and one more (`Rounds`), and the
  invariant keeps their indices within their bounds (`LoopInv`).

`JitterProofs` proves, for any number of cores, thread ids and pauses, in both
modes and with any launches failing:

- `StatsNotShared`. `NoStatsShared` is not inductive: a join through a wrong id
  seems to leave a thread behind. `SharedInv` says why none is: the id in a
  core's `Stats` is that of the core's thread as long as there is one (`OwnId`,
  because a launch that fails finds no thread of its core), and where main is
  tells which cores may have a thread (`ThreadsBy`). Lemma `JoinedGone` has the
  step that matters: however a join returns, the core's own thread is gone.
- `ExcessSound`, from `CountInv` on top of it: a thread between the load and the
  store of a total holds that total still (`AddsItsOwn`, because no two threads
  have one core), and the least number of events is at most every total of the
  cores it was taken over so far (`Counted`). That the histograms are never
  cleared is what carries it to the second pass.
- `JitterExhausted`: `StepsRunDown`. main makes at most two steps for each core in
  each of the two loops of each pass, and a thread at most two for each sample and
  one more. A launch therefore trades one of main's steps for no more than a
  thread's, which is why main's count `2 * MaxSamples + 2` times. The threads'
  steps are counted as a set of pairs, so that a step of one takes one pair away and
  a join all of the thread's.

`PerfGroupProofs` proves, for any number of events and of processes that share the
group, with any system calls failing:

- `ClosesOwn`, from `GroupInv`. While `init()` runs, the kernel has the events up
  to the one it is at, and each descriptor set so far is that event's
  (`OpenedSoFar`); no two of the kernel's events are the same or have one id
  (`Distinct`). What `Index` does is a permutation, which keeps the set of
  descriptors.
- `NotAnothers`, from `CountInv` on top of it: every copy of a count, in the
  kernel, in a message, in the object or in a sample, is one that its event has
  reached. Which place `lower_bound()` finds does not matter, nor whether the
  table is sorted or the message an old one, because a value is stored under an
  equal id only, and a descriptor's id is that of the event it names (`OwnIds`).
- `QuietWhenIdle`, from `QuietInv`: an event that is enabled has some process that
  will yet disable it, because it is before its `stop()` or in it and not past
  the event's group, or has had a call fail (`Holds`). An event without a group
  at its opening has its own leader in the list, so `stop()` reaches it.

- `SamplesCovered`, when the group is one process's alone (`Procs = {Main}`; with
  two a section may be cut, finding 2). `CoverInv` bounds the kernel's count of an
  event, wherever the process is, by what happened when the steps of `start()` and
  `stop()` were made: an event has been reset when the loop over the leaders has
  passed its group's, is enabled, and is disabled in the same way. The rest is that
  `read()` finds the place of every event in a message: `TableInv` says that after
  an `init()` that succeeded the table is sorted and has each id once, that each
  leader's message has the events of its group, and that the leaders' groups are
  all of them. The search is followed through the pairs of ends it may have left
  (`Windows`), of which the shortest around the place looked for is that place.
- `SectionsWhole`, from the same: the property that finding 2 refutes for two processes
  holds of one.

`BitUtilsProofs` has no theorem of its own. Its lemmas say what `ilog2()` and
`irange2()` give: the bin of `n` is `q + 2^B * d`, where `2^d` divides
the interval `n` is in `2^B` times, and `q` is the quotient (`BinIs`, `BinOf...`,
`NextBin`), and what the conversion to a fraction of `Mantissa` bits does to both
(`RoundedInBin`, `FloatBins`). Powers of two are taken as the numbers of subsets
of `1..n`, for which the library has theorems; an induction over numbers is an
argument about the least counterexample (`LeastNumber`), and a recursive function
is the one function that satisfies its equation.

`LibraryProofs` proves, about the ten parts of `Library` and about `Snapshot`:

- `RangesHold`, `BinsFollow`, `FloatsAgree` of `TestBits`, for any width of the
  words and of the fraction and any resolutions they have room for.
- `SectionCounted` of `PerfCounter`, for any sequence of calls and any failures:
  from `CounterInv`, in which the kernel's count lies between what happened inside
  the section and what happened since `start()` from the reset on
  (`CountBetween`).
- `ValuesInOrder` of `IndexedMap`, for any keys, contents and index type: from
  `MapInv`, where the vector, the map and the order of the keys have one length
  (`KeysAgree`), and as long as there are no more keys than indices each key's
  position is its place in the order (`ValuesAgree`). The key whose position is
  the mark is where this could fail: it is given a position again, and gets the
  same one, because it is the last there can be.
- `LeastReported` of `Regression`, for any samples, any outcomes of the fits and any
  criteria: from `RegressionInv`, where the labels that have a report are those
  gone through, each report is sound, and in the middle of a label `best` is the
  least of the options solved so far, the first of equal ones (`BestSoFar`). It
  needs that the next label is one at all (`LeastMember`: a finite set of
  numbers has a least one) and that the options are distinct (`Positions`).
- `EachOnce` of `Product`, for any numbers of values and an object used again at
  any time: from `ProductInv`. The rank of a combination is the sum of its places,
  each times its weight, which is the product of the sizes behind it. When a place
  is counted up, those behind it were all at their last values and come to one less
  than its weight together (`LastRanks`), so that the rank grows by one.
  That the recursive weight is what its equation says is `Weights`.
- `FieldsAreWords` of `Split`, for any text, separators and size of the array: from
  `SplitInv`, in which the views so far are the words before `start` and no word
  goes across it (`WordsBefore`). `NextWord` says that the two searches of a step
  end around a word, the first after `start`; `KthWord` that the word with `k` words
  up to it is the only one.
- `RankReported` of `Histogram`, for any range, number of bins and finite set of
  values: from `HistogramInv`, which says that the bins count the values kept, and
  `BinsInOrder`: a larger value is in no earlier bin. What follows from these two
  is common to both histograms and stated of any values counted in bins in order
  (`Tally`). As many values are in the bins up to a value's as there are values up to
  the last of its bin (`TallyUpTo`); so the first bin up to which there are `k`
  values is that of the `k`-th smallest (`BinOfKth`), and the search for a percentile
  stops there (`TallyStop`). For `Histogram` the rank left for that bin is then
  positive, and all of the bin exactly if the rank is that of its last value, where
  the result is NaN. The property is an equality of the results there may be, NaN among
  them for every bin of several values: the model does not follow the rounding of a
  variance.
- `PercentilesClose` and `PercentilesRise` of `MicroStats`, for any widths of the
  types, divisions, percents and either build, *if the values fit*
  (`Fits`): a value is below `2^(IntBits + 1)`, so that an offset is below the 32
  bits it is shifted in, and below `2^(LongBits - 1)`, so that its bin is in the array.
  Beyond the one finding 3 shows a wrong range, beyond the other finding 4
  a value that no bin counts; the property is not claimed there, and the run of `library`
  has values up to just below. `StatsInv` says that the ranges are those of
  `calcrange()` and that the bins are a `Tally` of the values added, whose total is at
  most `MaxAdds`, so that no counter wraps. A bin is one part of an octave
  (`PartOf`), the parts follow each other (`PartsInOrder`) and are narrow
  (`PartIsNarrow`), all from the lemmas about bins of `BitUtilsProofs`. The
  interpolated point lies in its bin's range, as the order statistic does, and the
  points of a bin are in the order of the ranks. `ValuesInRange` says of the same
  values what finding 3 refutes without the condition.
- `ValuesCounted` of `MicroStats` asks for less, that the values are *below the top
  octave* (`BelowTop`: below `2^(LongBits - 1)`, 2^63 in the code), which finding 4
  shows is needed. The counts do not depend on the ranges: `CountInv` says that they
  add up to the total and stay below the width of a counter, and `BinInArray` that
  the bin of such a value is in the array.
- `NamesFit` of `Snapshot`, for any sections, labels, sizes and iterations, *if the
  names are meant* (`NamesMeant`): of the names in the table of `translate()`, all but
  "cache-misses", whose entry is wrong. `NameMeant` goes through the table: for
  each of these names the kernel's reading of the type and number is the event of
  that name. `SnapshotInv` then says of each label that the values under a name are,
  row by row, what that event counted in the sections measured.
- `SumsClose` of `KahanSum`, for any addends, any order and cancellation and any `Mantissa`,
  *if the totals fit* (`TotalsFit`): what is added up between two clears has at most
  `2^(2 * Mantissa - 2)` in magnitude, which for doubles of whole numbers is `2^102`. With
  `C = 2^(Mantissa + 1)`, the sum is off by no more than `6 / C` of the total, and
  together with the residual by `3 / C`, however many values were added: the usual
  bound of a loop of additions grows with their number. These are weaker constants
  than those of `SumAccurate`, 2 and 1. From `SumInv`: the residual and the drift,
  what sum and residual together are off by, are at most `3 / C` of the total, and below
  `C` everything is exact. An addition rounds four times. The last is exact, because
  what it rounds is the sum of two errors (`ErrorsSmall`); the second goes into the
  residual and comes back with the next value; so only the first and the third
  enter the drift, and those are not exact only if the value is at least about as large as
  `C`, of which the residual is a small part under `TotalsFit`. That one rounding is off by
  at most half of the last bit is `NearestDouble`.
- `PausesCounted` of `Calibration`, for any cores, offsets, gaps and migrations, bound
  or not, *if the clock lasts* (`ClockLasts`): ten times what it shows at the end of the
  calibration is within its word, and a wait, a step before it and the offset of a clock
  are together no longer than ten times what it showed at the start.
  A 64-bit counter at 3 GHz keeps the first for nineteen years, and the second
  holds a few seconds after the machine was started, as the waits are one or ten
  seconds. Without the first a tenfold quantum wraps to a small threshold; without
  the second a calibration that saw one reading only, which is no step but a difference
  to the initial 0, would take it for a quantum that a wait may exceed tenfold. From
  `CalibrationInv`: unless a difference of two cores' clocks was taken since the last
  reset, the quantum is the least step, or that first reading and below it
  (`QuantumIsLeast`); `last` and `now` are readings of the cores that are recorded, so
  that on one core they grow (`Reading`), and while the thread collects so does `last`
  (`Collecting`). A difference that wrapped in the calibration is of two cores and is
  forgotten with the reset that follows, or `crossed` says so. `PauseIs` compares the two
  thresholds, also that of the initial quantum, ten times which wraps to more than a
  wait.
- `LibraryKeeps`, `LibraryPercentiles`, `LibraryPauses` and `LibrarySums`: the same of the program that uses the
  parts one at a time, which is the one the run checks. A part that is not in use
  stutters (`LibraryParts`).

Sums over a function, which the community modules define by folds, are taken as
numbers of units: the sum of `f` is the number of pairs of an argument and a number
below `f` of it (`SumIsAmounts`). That the order does not matter, that sums over
disjoint sets add up and that a sum grows with its terms are then facts about
cardinalities.

`PoolAllocatorProofs` proves, for any requests, page size, pointer size and number
of pages, and for every block allocator with all of its failures:

- `StaysInBlocks`, `GivesBack`, `ListsSound` and `Refinement`: `Spec =>
  ImplementsHeap`. All rest on `PoolInv`, which says what the code does not store:
  there are an owner for each item ever carved, the bank it came from, and for
  each bank a sequence of items such that its free list is that sequence, each
  item's first word naming the next. In these terms no two items share a byte and
  each is inside a block (`ItemsOk`), what is left of a bank's block is nobody's
  (`SpacesOk`), and an item that is carved and not in use is in the list of its
  owner (`AllFound`). That a container writes to its items does not disturb a list
  is then that a list has none of them, and that an item freed goes
  to the bank it came from is that `ilog2()` is asked with the same size again. An
  item is as large as the request by `RangesHold`'s lemma about bins: a bank is a
  bin of `ilog2<1>` and its items are as large as the end of its range
  (`ItemHoldsRequest`). Items in use are then apart, which is what `Heap` wants.

Assumptions: those named in the modules (`ProcessesAssumption`,
`LoopsAssumption`, `LeftOverAssumption`, `SizesAssumption`, `NumCoresAssumption`,
`MaxSamplesAssumption`, `MainAssumption`, `NumEventsAssumption`, `IdsAssumption`,
`DefaultAssumption`, `IndicesAssumption`, `PercentsAssumption`, `WidthAssumption`, `MantissaAssumption`,
`MaxClassAssumption`, `NumClassesAssumption`, `AicsAssumption`, `LabelsAssumption`,
and those below), and nothing else but
`Procs = {Main}` for `SamplesCovered` and `SectionsWhole`. Four are about
widths: a number tabulated and its line fit their words (`LastAssumption`), the
divisions fit the fraction (`ResolutionsAssumption`), the bins of all octaves fit a
word (`BinsFitAssumption`: 64 octaves of `2^B` bins in a number of 64 bits), and
the fraction has three bits less than the word (`RoundingFitsAssumption`: 52 of 64).
For the allocator, a request and a pointer's size are words (`WordsAssumption`: both
are a `size_t`) and a request has a bank (`RequestsAssumption`). `Histogram` has a range
from a smaller number to a larger one (`RangeAssumption`), finitely many values to add
(its `SamplesAssumption`, as there are finitely many doubles) and percents
(`AskedPercentsAssumption`). For `MicroStats` the divisions are fewer than the
narrow type's bits, which are fewer than the wide type's (`WidthsAssumption`: 32 and
64), the build does one of two things with a wide shift (`ShiftersAssumption`),
values are of the wide type (`ValuesAssumption`) and fewer are added than a counter can
count (`MaxAddsAssumption`, a bound of the model: the code's counters would wrap after
2^32 values). `TriesTruthful`, `Fits`, `BelowTop`, `ClockLasts`, `NamesMeant` and
`TotalsFit` are hypotheses of theorems and no assumptions. The first holds of the instance
of `spin_lock` and not of that of `spin_lock_try`; the others hold of the instance of
`library`, `BelowTop` not of that of `micro_stats_bins`. `KahanSum` has addends that are doubles (`RoundedAssumption`) and
totals of which four times are words (`MaxTotalAssumption`). `Split` and
`Product` have theirs about the types of their arguments (`SeparatorsAssumption`,
`SizesAssumption`, `ContainersAssumption`); `MaxText`, the bound of a text's length,
has none. `Calibration` has a clock, cores numbered from 1 on and gaps that are
positive (`ClockAssumption`).

*Model-checked only.* Liveness (`WaitersServed`, `TargetEndsRun`, `Ends`), which
the prover does not reach under fairness. Of `Ends` it has the half that says
something about the program: `StepsRunDown`, which the proof modules of both state,
bounds the steps of the schedulers' test and of the jitter test, so that all that is left to fairness is that a step that can be made is
made. The lock test has no such bound: a process may go round the loop until its turn
comes, for ever if the one whose turn it is never wins the lock.

`SumAccurate` itself: its constants are those of a bound of first order. What is known of
compensated sums in general has a second term, and with few bits it tells:
TLC finds sums of small numbers that break the bound with a fraction of one or two bits,
so that it is no theorem for every `Mantissa`. It is checked for the six bits and the
sums of the instance above. What is proved is `SumClose`, which follows from it.

## 5. What the models leave out

- `PerfGroup` and `PerfCounter`: the kernel's multiplexing of counters; an event
  that is enabled counts. `Snapshot`: `last_iterations` and the `operator[]` that
  reads the last section. `PerfUtils`: the branch for libpfm, which no build file
  enables.
- `Regression`: the least squares and the statistics of a fit, which are real
  arithmetic of libraries.
- `Histogram`: the place in a bin, and a count other than 1 given to `add()`,
  which no program does.
- `MicroStats`: the floating-point sums of a bin, `average()` and printing.
- `PoolAllocator`: the counters nobody reads; alignment (bank 6 has items of 12
  bytes); Boost's resources.
- `IndexedMap`: `size()`, which only reads.
- `Calibration`: a migration between `calcQuantum()`'s first `sched_getcpu()` and the
  first reading of `busyWait()`; both are taken on core 1.
- Weak memory: a step reads and writes memory at once.
- What section 1.8 names.

## 6. Plan

1. *Done*: the lock and the lock test with their proofs; counter groups and single
   counters with theirs; the samples of a snapshot, the names of events and the choice of a
   model; bins and both histograms; the allocator; the schedulers; the jitter test
   with its calibration and its proofs; the small containers and sums.
   The bins of `BitUtils`, the percentiles, the allocator, the samples of a counter
   group, the schedulers' agenda, the containers, the calibration and the choice of a model are
   proved as well.
2. *Next*: constants of `KahanSum`'s error nearer to those that are checked.
3. Percentiles in `Jitter` by composing it with `MicroStats`; the command line of
   the lock test.
