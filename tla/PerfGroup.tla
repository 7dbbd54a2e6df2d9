----------------------------- MODULE PerfGroup -----------------------------
(***************************************************************************)
(* libs/PerfGroup.cpp as libs/Snapshot.cpp drives it: a Snapshot opens its *)
(* events once, then measures sections of code between start() and stop(), *)
(* and closes the events when it goes away.  Every system call is a step,  *)
(* because the kernel counts between any two of them.                      *)
(*                                                                         *)
(* Procs are the processes that use the Snapshot: one, or, as in           *)
(* tests/memorymap/testMemoryMap.cpp, the parent and the children it forks *)
(* after the Snapshot is made, all of which hold the same descriptors.     *)
(* The events are opened with inherit = 1: they count everybody's work.    *)
(*                                                                         *)
(* The variables tick, lo and hi record what really happened: how often    *)
(* each event has occurred, and for a process's current section how often  *)
(* while it was being measured and how often since start() was called.     *)
(***************************************************************************)
EXTENDS Integers, Sequences, FiniteSets, Functions

CONSTANTS NumEvents,    \* events.size()
          Procs, Main,  \* Main makes the Snapshot, the others are its children
          MayFail,      \* system calls that may fail
          Ids,          \* ids the kernel may give to events
          MaxTicks,     \* bound: occurrences of each event
          MaxSections   \* bound: sections a process measures

ASSUME MainAssumption == Main \in Procs
ASSUME NumEventsAssumption == NumEvents \in Nat \ {0}
ASSUME IdsAssumption == Ids \subseteq Nat \ {0}

Events == 1..NumEvents
MAX    == -1             \* std::numeric_limits<uint64_t>::max(), as a bit pattern
None   == -1             \* no leader: the event opens a group of its own
Stdio  == {0, 1, 2}

VARIABLES
  \* the kernel
  perf,      \* the open perf descriptors: fd -> [event, group, id, on, count]
  others,    \* the other open descriptors
  \* PerfGroup, as init() leaves it
  leaders, ids, names, ready,
  \* init()'s locals
  leader, j,
  \* each process: where it is, its loop index, its copy of the values, its buffer
  pc, i, value, buf,
  \* Snapshot: the sample of each process's last section
  sample, sections,
  \* what really happened
  tick, lo, hi, clean

kernel == <<perf, others>>
group  == <<leaders, ids, names, ready, leader, j>>
locals == <<i, value, buf>>
snap   == <<sample, sections>>
truth  == <<tick, lo, hi, clean>>
vars   == <<kernel, group, pc, locals, snap, truth>>

Goto(p, from, to) == pc[p] = from /\ pc' = [pc EXCEPT ![p] = to]
Zero == [e \in Events |-> 0]

-----------------------------------------------------------------------------
(* The kernel.                                                             *)

\* The lowest descriptor that is free.
LowestFree == {f \in 0..Cardinality(others \cup DOMAIN perf) :
                 /\ f \notin others \cup DOMAIN perf
                 /\ \A g \in 0..(f - 1) : g \in others \cup DOMAIN perf}

Opened(fd, event) ==
  [f \in DOMAIN perf \cup {fd} |-> IF f = fd THEN event ELSE perf[f]]

Members(lead) == {f \in DOMAIN perf : perf[f].group = lead}

\* An event counts when it and its group's leader are enabled.
Counts(f) == perf[f].on /\ perf[perf[f].group].on

\* ioctl(lead, ..., PERF_IOC_FLAG_GROUP)
ForGroup(lead, Update(_)) ==
  [f \in DOMAIN perf |-> IF f \in Members(lead) THEN Update(perf[f]) ELSE perf[f]]

\* Mutant of ResetCount: the count goes on.
ResetCountForgotten(k) == k
ResetCount(k) == [k EXCEPT !.count = 0]
Enabled(k)    == [k EXCEPT !.on = TRUE]
\* Mutant of Disabled: reset instead of disable.
DisabledByReset(k) == [k EXCEPT !.count = 0]
Disabled(k)   == [k EXCEPT !.on = FALSE]

InSection(p) == pc[p] \in {"reset", "enable", "measuring", "disable", "read"}

\* Event e occurs while p runs: the library's own instructions count too.
Tick(p, e) ==
  /\ InSection(p) \/ p = Main
  /\ pc[p] # "closed"
  /\ tick[e] < MaxTicks
  /\ tick' = [tick EXCEPT ![e] = @ + 1]
  /\ lo' = IF pc[p] = "measuring" THEN [lo EXCEPT ![p][e] = @ + 1] ELSE lo
  /\ hi' = IF InSection(p) THEN [hi EXCEPT ![p][e] = @ + 1] ELSE hi
  /\ perf' = [f \in DOMAIN perf |->
                IF perf[f].event = e /\ Counts(f)
                THEN [perf[f] EXCEPT !.count = @ + 1] ELSE perf[f]]
  /\ UNCHANGED <<others, group, pc, locals, snap, clean>>

-----------------------------------------------------------------------------
(***************************************************************************)
(* init().  An event that cannot join the group opens one of its own; its  *)
(* attributes are those of a member, so it counts from the moment it is    *)
(* opened.  A failure leaves the descriptors it has not got to at zero.    *)
(***************************************************************************)
Init ==
  /\ perf = << >> /\ others = Stdio
  /\ leaders = << >> /\ names = << >> /\ ready = FALSE
  /\ ids = [k \in Events |-> [event |-> k, fd |-> 0, id |-> 0]]
  /\ leader = None /\ j = 1
  /\ pc = [p \in Procs |-> IF p = Main THEN "open" ELSE "unborn"]
  /\ i = [p \in Procs |-> 1]
  /\ value = [p \in Procs |-> Zero]
  /\ buf = [p \in Procs |-> {}]
  /\ sample = [p \in Procs |-> << >>]
  /\ sections = [p \in Procs |-> 0]
  /\ tick = Zero
  /\ lo = [p \in Procs |-> Zero] /\ hi = [p \in Procs |-> Zero]
  /\ clean = [p \in Procs |-> TRUE]

Open ==
  /\ pc[Main] \in {"open", "reopen"}
  /\ LET on == pc[Main] = "reopen" \/ leader # None
         own == leader = None IN
     \E fd \in LowestFree, id \in Ids \ {perf[f].id : f \in DOMAIN perf} :
       /\ perf' = Opened(fd, [event |-> j, group |-> IF own THEN fd ELSE leader,
                              id |-> id, on |-> on, count |-> 0])
       /\ leader' = IF own THEN fd ELSE leader
       /\ leaders' = IF own THEN Append(leaders, fd) ELSE leaders
  /\ pc' = [pc EXCEPT ![Main] = "id"]
  /\ UNCHANGED <<others, ids, names, ready, j, locals, snap, truth>>

\* All of them fail: without a group if it was in one, else init() gives up.
OpenAlone ==
  /\ "open" \in MayFail
  /\ leader # None
  /\ Goto(Main, "open", "reopen")
  /\ leader' = None
  /\ UNCHANGED <<kernel, leaders, ids, names, ready, j, locals, snap, truth>>

InitFails ==
  /\ \/ "open" \in MayFail /\ leader = None /\ pc[Main] \in {"open", "reopen"}
     \/ "id" \in MayFail /\ pc[Main] = "id"
  /\ pc' = [p \in Procs |-> "idle"]
  /\ UNCHANGED <<kernel, group, locals, snap, truth>>

\* Mutant of GetId: the descriptor is not stored.
GetIdForgetsFd ==
  /\ Goto(Main, "id", IF j = NumEvents THEN "index" ELSE "open")
  /\ LET fd == CHOOSE f \in DOMAIN perf : perf[f].event = j IN
     ids' = [ids EXCEPT ![j] = [event |-> j, fd |-> 0, id |-> perf[fd].id]]
  /\ j' = j + 1
  /\ UNCHANGED <<kernel, leaders, names, ready, leader, locals, snap, truth>>

GetId ==
  /\ Goto(Main, "id", IF j = NumEvents THEN "index" ELSE "open")
  /\ LET fd == CHOOSE f \in DOMAIN perf : perf[f].event = j IN
     ids' = [ids EXCEPT ![j] = [event |-> j, fd |-> fd, id |-> perf[fd].id]]
  /\ j' = j + 1
  /\ UNCHANGED <<kernel, leaders, names, ready, leader, locals, snap, truth>>

\* What std::sort may make of the descriptors.
SortedOrders ==
  {order \in Bijection(Events, Events) :
     \A a, b \in Events : a < b => ids[order[a]].id <= ids[order[b]].id}

\* Mutant of Index: the ids are sorted, the rest of the descriptors is not.
IndexSortsIdsOnly ==
  /\ pc[Main] = "index"
  /\ \E order \in SortedOrders :
       ids' = [k \in Events |-> [ids[k] EXCEPT !.id = ids[order[k]].id]]
  /\ names' = [e \in Events |-> e]
  /\ ready' = TRUE
  /\ pc' = [p \in Procs |-> "idle"]
  /\ UNCHANGED <<kernel, leaders, leader, j, locals, snap, truth>>

\* Sorts the descriptors by id for read(), and indexes them by name.
Index ==
  /\ pc[Main] = "index"
  /\ \E order \in SortedOrders : ids' = [k \in Events |-> ids[order[k]]]
  /\ names' = [e \in Events |-> CHOOSE k \in Events : ids'[k].event = e]
  /\ ready' = TRUE
  /\ pc' = [p \in Procs |-> "idle"]
  /\ UNCHANGED <<kernel, leaders, leader, j, locals, snap, truth>>

-----------------------------------------------------------------------------
(***************************************************************************)
(* start(): reset every group, then enable every group.  stop(): disable   *)
(* every group, then read them.  The first failure ends the call, and      *)
(* Snapshot does not look at what the call returns.                        *)
(***************************************************************************)
Start(p) ==
  /\ sections[p] < MaxSections
  /\ Goto(p, "idle", "reset")
  /\ i' = [i EXCEPT ![p] = 1]
  /\ sections' = [sections EXCEPT ![p] = @ + 1]
  /\ lo' = [lo EXCEPT ![p] = Zero] /\ hi' = [hi EXCEPT ![p] = Zero]
  /\ clean' = [clean EXCEPT ![p] = TRUE]
  /\ sample' = [sample EXCEPT ![p] = << >>]
  /\ UNCHANGED <<kernel, group, value, buf, tick>>

\* One pass of a loop over the leaders, or its end.
ForLeader(p, at, Update(_)) ==
  /\ pc[p] = at
  /\ i[p] <= Len(leaders)
  /\ perf' = ForGroup(leaders[i[p]], Update)
  /\ i' = [i EXCEPT ![p] = @ + 1]
  /\ UNCHANGED <<others, group, pc, value, buf, snap, truth>>

LoopEnds(p, at, next) ==
  /\ i[p] > Len(leaders)
  /\ Goto(p, at, next)
  /\ i' = [i EXCEPT ![p] = 1]
  /\ UNCHANGED <<kernel, group, snap, truth>>

CallFails(p, at, call, next) ==
  /\ call \in MayFail
  /\ i[p] <= Len(leaders)
  /\ Goto(p, at, next)
  /\ clean' = [clean EXCEPT ![p] = FALSE]
  /\ UNCHANGED <<kernel, group, locals, snap, tick, lo, hi>>

Reset(p)      == ForLeader(p, "reset", ResetCount)
ResetEnds(p)  == LoopEnds(p, "reset", "enable") /\ UNCHANGED <<value, buf>>
Enable(p)     == ForLeader(p, "enable", Enabled)
EnableEnds(p) == LoopEnds(p, "enable", "measuring") /\ UNCHANGED <<value, buf>>
StartFails(p) == CallFails(p, "reset", "reset", "measuring")
                   \/ CallFails(p, "enable", "enable", "measuring")

Stop(p) ==
  /\ Goto(p, "measuring", "disable")
  /\ i' = [i EXCEPT ![p] = 1]
  /\ UNCHANGED <<kernel, group, value, buf, snap, truth>>

Disable(p) == ForLeader(p, "disable", Disabled)

\* A stop() that fails returns before the read: the values are the old ones.
StopFails(p) == CallFails(p, "disable", "disable", "record")

\* read() first sets every value to the maximum and zeroes its buffer.
DisableEnds(p) ==
  /\ LoopEnds(p, "disable", "read")
  /\ value' = [value EXCEPT ![p] = [k \in Events |-> MAX]]
  /\ buf' = [buf EXCEPT ![p] = {}]

\* What is left of the table in a search: where it begins, and its length.
Windows == {w \in (1..(NumEvents + 1)) \X (0..NumEvents) : w[1] + w[2] <= NumEvents + 1}

\* std::lower_bound over the descriptors, sorted or not.
LowerBound(id) ==
  LET lb[w \in Windows] ==
        LET half == w[2] \div 2 IN
        IF w[2] = 0 THEN w[1]
        ELSE IF ids[w[1] + half].id < id THEN lb[<<w[1] + half + 1, w[2] - half - 1>>]
        ELSE lb[<<w[1], half>>]
  IN lb[<<1, NumEvents>>]

\* The message's counts, each to the descriptor with its id, if there is one.
Stored(old, msg) ==
  [k \in Events |->
     IF \E m \in msg : LowerBound(m.id) = k /\ ids[k].id = m.id
     THEN (CHOOSE m \in msg : LowerBound(m.id) = k /\ ids[k].id = m.id).count
     ELSE old[k]]

Message(lead) == {[id |-> perf[f].id, count |-> perf[f].count] : f \in Members(lead)}

Read(p) ==
  /\ pc[p] = "read"
  /\ i[p] <= Len(leaders)
  /\ buf' = [buf EXCEPT ![p] = Message(leaders[i[p]])]
  /\ value' = [value EXCEPT ![p] = Stored(@, Message(leaders[i[p]]))]
  /\ i' = [i EXCEPT ![p] = @ + 1]
  /\ UNCHANGED <<kernel, group, pc, snap, truth>>

\* A failed read leaves the previous leader's message in the buffer, and that is
\* what gets processed.
ReadFails(p) ==
  /\ "read" \in MayFail
  /\ pc[p] = "read"
  /\ i[p] <= Len(leaders)
  /\ value' = [value EXCEPT ![p] = Stored(@, buf[p])]
  /\ i' = [i EXCEPT ![p] = @ + 1]
  /\ clean' = [clean EXCEPT ![p] = FALSE]
  /\ UNCHANGED <<kernel, group, pc, buf, snap, tick, lo, hi>>

ReadEnds(p) == LoopEnds(p, "read", "record") /\ UNCHANGED <<value, buf>>

\* Snapshot::stop(): a sample, unless there were no iterations.  Each value goes
\* to the metric that bears the name of its position's event.
Record(p) ==
  /\ Goto(p, "record", "idle")
  /\ \/ UNCHANGED sample
     \/ sample' = [sample EXCEPT ![p] =
          <<[vals  |-> [e \in Events |->
                          value[p][CHOOSE k \in Events : ids[k].event = e]],
             lo    |-> lo[p], hi |-> hi[p], upTo |-> tick,
             clean |-> clean[p]]>>]
  /\ lo' = [lo EXCEPT ![p] = Zero] /\ hi' = [hi EXCEPT ![p] = Zero]
  /\ UNCHANGED <<kernel, group, locals, sections, tick, clean>>

-----------------------------------------------------------------------------
(***************************************************************************)
(* close(): the descriptors, whatever they are, zeros included.            *)
(***************************************************************************)
Close ==
  /\ \A p \in Procs : pc[p] = "idle"
  /\ LET fds == {ids[k].fd : k \in Events} IN
       /\ perf' = [f \in DOMAIN perf \ fds |-> perf[f]]
       /\ others' = others \ fds
  /\ pc' = [p \in Procs |-> "closed"]
  /\ UNCHANGED <<group, locals, snap, truth>>

Finished == pc[Main] = "closed" /\ UNCHANGED vars

Session(p) ==
  \/ Start(p) \/ Reset(p) \/ ResetEnds(p) \/ Enable(p) \/ EnableEnds(p) \/ StartFails(p)
  \/ Stop(p) \/ Disable(p) \/ DisableEnds(p) \/ StopFails(p)
  \/ Read(p) \/ ReadFails(p) \/ ReadEnds(p) \/ Record(p)

Next ==
  \/ Open \/ OpenAlone \/ InitFails \/ GetId \/ Index \/ Close \/ Finished
  \/ \E p \in Procs : Session(p) \/ \E e \in Events : Tick(p, e)

Spec == Init /\ [][Next]_vars

-----------------------------------------------------------------------------

Samples == {sample[p][1] : p \in {q \in Procs : sample[q] # << >>}}

\* A sample all of whose system calls worked covers its section: every event is
\* in it, with no fewer occurrences than while the section ran and no more than
\* since start() was called, whichever events had to open groups of their own.
SamplesCover ==
  ready => \A s \in Samples : s.clean =>
    \A e \in Events : s.vals[e] # MAX /\ s.lo[e] <= s.vals[e] /\ s.vals[e] <= s.hi[e]

\* No sample misses a part of its section.  Processes that share a Snapshot also
\* share its events: the reset or the disable of one cuts the section of another.
SectionNotCut ==
  ready => \A s \in Samples : s.clean => \A e \in Events : s.lo[e] <= s.vals[e]

\* Even if calls fail, or init() did, a value is one of its own event's counts.
NeverAnothers ==
  \A s \in Samples : \A e \in Events : s.vals[e] = MAX \/ s.vals[e] <= s.upTo[e]

\* After an init() that succeeded, close() closes what init() opened and nothing
\* else; before it, no two descriptors are the same file.
ClosesItsOwn ==
  ready => IF pc[Main] = "closed" THEN DOMAIN perf = {} /\ others = Stdio
           ELSE {ids[k].fd : k \in Events} = DOMAIN perf /\ others = Stdio

\* Nothing counts between two sections whose calls all worked: what a Snapshot
\* measures is the sections and not what lies between them.
QuietBetween ==
  (\A p \in Procs : pc[p] \in {"record", "idle"} /\ clean[p]) /\ sections[Main] > 0
    => \A f \in DOMAIN perf : ~Counts(f)
=============================================================================
