-------------------------- MODULE PerfGroupProofs ---------------------------
(***************************************************************************)
(* What a PerfGroup opens, closes, counts and reads, for any number of     *)
(* events and of processes that share it, and any system calls failing.    *)
(***************************************************************************)
EXTENDS PerfGroup, WellFoundedInduction, TLAPS

SessionAt == {"idle", "reset", "enable", "measuring", "disable", "read", "record"}
OpeningAt == {"open", "reopen", "id", "index"}
Opening == pc[Main] \in OpeningAt

PerfEvents  == [event : Events, group : Nat, id : Ids, on : BOOLEAN, count : Nat]
Descriptors == [event : Events, fd : Nat, id : Nat]
Messages    == [id : Nat, count : Nat]

KernelTypes ==
  /\ DOMAIN perf \subseteq Nat
  /\ \A f \in DOMAIN perf : perf[f] \in PerfEvents

GroupTypes ==
  /\ ids \in [Events -> Descriptors]
  /\ leaders \in Seq(Nat)
  /\ leader \in Nat \cup {None}
  /\ j \in Nat

ProcTypes ==
  /\ pc \in [Procs -> SessionAt \cup OpeningAt \cup {"unborn", "closed"}]
  /\ i \in [Procs -> Nat]
  /\ value \in [Procs -> [Events -> Int]]
  /\ buf \in [Procs -> SUBSET Messages]
  /\ sections \in [Procs -> Nat]
  /\ clean \in [Procs -> BOOLEAN]
  /\ DOMAIN sample = Procs
  /\ tick \in [Events -> Nat]

Types == KernelTypes /\ GroupTypes /\ ProcTypes

\* No session runs before init() has returned.
Before ==
  Opening => /\ ~ready /\ others = Stdio /\ sections[Main] = 0
             /\ \A k \in Events : ids[k].event = k
             /\ \A p \in Procs : /\ pc[p] \notin SessionAt
                                 /\ value[p] = Zero /\ buf[p] = {}

\* The events before the j-th, or up to it while its id is asked for, are the
\* kernel's, and each descriptor that is set is that of its event.
SoFar == IF pc[Main] = "id" THEN 1..j ELSE 1..(j - 1)

OpenedSoFar ==
  Opening => /\ pc[Main] = "index" => j = NumEvents + 1
             /\ pc[Main] # "index" => j \in Events
             /\ {perf[f].event : f \in DOMAIN perf} = SoFar
             /\ \A k \in 1..(j - 1) :
                  /\ ids[k].fd \in DOMAIN perf
                  /\ perf[ids[k].fd].event = k

\* Nothing is there twice, and nothing is a standard stream.
Distinct ==
  /\ \A f, g \in DOMAIN perf : \/ perf[f].event = perf[g].event
                               \/ perf[f].id = perf[g].id
                               => f = g
  /\ Opening \/ ready => DOMAIN perf \cap Stdio = {}

\* A descriptor's id is that of the event it has the name of.
OwnIds ==
  /\ \A k \in Events, f \in DOMAIN perf :
       ids[k].id = perf[f].id => ids[k].event = perf[f].event
  /\ Opening => \A k \in Events :
       ids[k].id = 0 \/ \E f \in DOMAIN perf : perf[f].id = ids[k].id
  /\ \A e \in Events : \E k \in Events : ids[k].event = e

GroupInv == Types /\ Before /\ OpenedSoFar /\ Distinct /\ OwnIds /\ ClosesItsOwn

-----------------------------------------------------------------------------
LEMMA EventsFacts ==
  /\ NumEvents \in Nat /\ NumEvents > 0
  /\ \A e : e \in Events <=> e \in Int /\ 1 <= e /\ e <= NumEvents
BY NumEventsAssumption DEF Events

LEMMA GroupInit == Init => GroupInv
<1> SUFFICES ASSUME Init PROVE GroupInv OBVIOUS
<1>1. /\ DOMAIN perf = {} /\ others = Stdio /\ leaders = <<>> /\ ~ready
      /\ ids = [k \in Events |-> [event |-> k, fd |-> 0, id |-> 0]]
      /\ leader = None /\ j = 1
      /\ pc = [p \in Procs |-> IF p = Main THEN "open" ELSE "unborn"]
      /\ i = [p \in Procs |-> 1]
      /\ value = [p \in Procs |-> Zero] /\ buf = [p \in Procs |-> {}]
      /\ DOMAIN sample = Procs /\ sections = [p \in Procs |-> 0]
      /\ tick = Zero /\ clean = [p \in Procs |-> TRUE]
  BY DEF Init
<1>2. pc[Main] = "open" BY <1>1, MainAssumption
<1>3. KernelTypes BY <1>1 DEF KernelTypes
<1>4. GroupTypes
  <2>1. ids \in [Events -> Descriptors] BY <1>1 DEF Descriptors
  <2>2. leaders \in Seq(Nat) BY <1>1
  <2> QED BY <1>1, <2>1, <2>2 DEF GroupTypes
<1>5. ProcTypes
  <2>1. Zero \in [Events -> Nat] /\ Zero \in [Events -> Int] BY DEF Zero
  <2> QED BY <1>1, <2>1 DEF ProcTypes, SessionAt, OpeningAt
<1>6. Before BY <1>1, <1>2, MainAssumption DEF Before, SessionAt
<1>7. OpenedSoFar
  <2>1. SoFar = {} /\ {perf[f].event : f \in DOMAIN perf} = {} /\ j \in Events
    BY <1>1, <1>2, EventsFacts DEF SoFar
  <2>2. \A k \in 1..(j - 1) : FALSE BY <1>1
  <2> QED BY <1>1, <1>2, <2>1, <2>2 DEF OpenedSoFar
<1>8. Distinct BY <1>1 DEF Distinct
<1>9. OwnIds BY <1>1 DEF OwnIds
<1>10. ClosesItsOwn BY <1>1 DEF ClosesItsOwn
<1> QED BY <1>3, <1>4, <1>5, <1>6, <1>7, <1>8, <1>9, <1>10 DEF GroupInv, Types

\* A message has the counts of the group's events; what is stored is among them.
LEMMA MessageOf ==
  ASSUME KernelTypes, NEW lead
  PROVE  /\ Message(lead) \in SUBSET Messages
         /\ \A m \in Message(lead) : \E f \in DOMAIN perf :
              m.id = perf[f].id /\ m.count = perf[f].count
<1>1. \A f \in DOMAIN perf : perf[f].id \in Nat /\ perf[f].count \in Nat
  BY IdsAssumption DEF KernelTypes, PerfEvents
<1> QED BY <1>1 DEF Message, Messages, Members

LEMMA StoredFrom ==
  ASSUME NEW old \in [Events -> Int], NEW msg \in SUBSET Messages
  PROVE  /\ Stored(old, msg) \in [Events -> Int]
         /\ \A k \in Events : \/ Stored(old, msg)[k] = old[k]
                              \/ \E m \in msg : ids[k].id = m.id /\ Stored(old, msg)[k] = m.count
<1> DEFINE Fits(m, k) == LowerBound(m.id) = k /\ ids[k].id = m.id
           s == Stored(old, msg)
<1>1. s = [k \in Events |-> IF \E m \in msg : Fits(m, k)
                            THEN (CHOOSE m \in msg : Fits(m, k)).count ELSE old[k]]
  BY DEF Stored
<1>2. ASSUME NEW k \in Events
      PROVE  s[k] \in Int /\ (s[k] = old[k] \/ \E m \in msg : ids[k].id = m.id /\ s[k] = m.count)
  <2>1. CASE \E m \in msg : Fits(m, k)
    <3> DEFINE m == CHOOSE n \in msg : Fits(n, k)
    <3>1. m \in msg /\ Fits(m, k) BY <2>1
    <3>2. s[k] = m.count BY <1>1, <2>1
    <3>3. m.count \in Int BY <3>1 DEF Messages
    <3> QED BY <3>1, <3>2, <3>3
  <2>2. CASE ~\E m \in msg : Fits(m, k)
    <3> HIDE DEF Fits
    <3> QED BY <1>1, <2>2
  <2> QED BY <2>1, <2>2
<1>3. DOMAIN s = Events BY <1>1
<1>4. s = [k \in Events |-> s[k]] BY <1>1, <1>3
<1> HIDE DEF s
<1>5. s \in [Events -> Int] BY <1>2, <1>3, <1>4
<1> QED BY <1>2, <1>5 DEF s

\* Event k is event e, with the same count or a smaller one.
KeepsEvent(e, k) ==
  /\ k \in PerfEvents
  /\ k.event = e.event /\ k.group = e.group /\ k.id = e.id /\ k.count <= e.count

LEMMA EventChanged ==
  ASSUME NEW e \in PerfEvents,
         NEW k \in {e, [e EXCEPT !.count = 0], [e EXCEPT !.on = TRUE], [e EXCEPT !.on = FALSE]}
  PROVE  KeepsEvent(e, k)
<1>1. CASE k = e BY <1>1 DEF PerfEvents, KeepsEvent
<1>2. CASE k = [e EXCEPT !.count = 0] BY <1>2 DEF PerfEvents, KeepsEvent
<1>3. ASSUME NEW b \in BOOLEAN, k = [e EXCEPT !.on = b] PROVE KeepsEvent(e, k)
  BY <1>3 DEF PerfEvents, KeepsEvent
<1> QED BY <1>1, <1>2, <1>3

\* A call of start() or stop() changes of the events only what they count.
LEMMA SessionKernel ==
  ASSUME Types, NEW p \in Procs, Session(p)
  PROVE  /\ UNCHANGED <<others, group, tick>>
         /\ DOMAIN perf' = DOMAIN perf
         /\ \A f \in DOMAIN perf :
              /\ perf'[f] \in PerfEvents
              /\ perf'[f].event = perf[f].event /\ perf'[f].group = perf[f].group
              /\ perf'[f].id = perf[f].id /\ perf'[f].count <= perf[f].count
<1>0. \A f \in DOMAIN perf : perf[f] \in PerfEvents
  BY DEF Types, KernelTypes
<1> DEFINE Kept == /\ UNCHANGED <<others, group, tick>> /\ DOMAIN perf' = DOMAIN perf
                   /\ \A f \in DOMAIN perf : KeepsEvent(perf[f], perf'[f])
<1>1. ASSUME Reset(p) PROVE Kept
  <2>1. /\ perf' = ForGroup(leaders[i[p]], ResetCount)
        /\ UNCHANGED <<others, group, tick>>
    BY <1>1 DEF Reset, ForLeader, truth
  <2>2. DOMAIN perf' = DOMAIN perf
        /\ \A f \in DOMAIN perf : perf'[f] \in {perf[f], [perf[f] EXCEPT !.count = 0]}
    BY <2>1 DEF ForGroup, ResetCount
  <2> QED BY <1>0, <2>1, <2>2, EventChanged
<1>2. ASSUME Enable(p) PROVE Kept
  <2>1. /\ perf' = ForGroup(leaders[i[p]], Enabled)
        /\ UNCHANGED <<others, group, tick>>
    BY <1>2 DEF Enable, ForLeader, truth
  <2>2. DOMAIN perf' = DOMAIN perf
        /\ \A f \in DOMAIN perf : perf'[f] \in {perf[f], [perf[f] EXCEPT !.on = TRUE]}
    BY <2>1 DEF ForGroup, Enabled
  <2> QED BY <1>0, <2>1, <2>2, EventChanged
<1>3. ASSUME Disable(p) PROVE Kept
  <2>1. /\ perf' = ForGroup(leaders[i[p]], Disabled)
        /\ UNCHANGED <<others, group, tick>>
    BY <1>3 DEF Disable, ForLeader, truth
  <2>2. DOMAIN perf' = DOMAIN perf
        /\ \A f \in DOMAIN perf : perf'[f] \in {perf[f], [perf[f] EXCEPT !.on = FALSE]}
    BY <2>1 DEF ForGroup, Disabled
  <2> QED BY <1>0, <2>1, <2>2, EventChanged
<1>4. ASSUME ~(Reset(p) \/ Enable(p) \/ Disable(p)) PROVE Kept
  <2>1. UNCHANGED <<perf, others, group, tick>>
    BY <1>4 DEF Session, Start, ResetEnds, EnableEnds, StartFails, Stop, StopFails, DisableEnds,
                Read, ReadFails, ReadEnds, Record, LoopEnds, CallFails, kernel, truth
  <2> QED BY <1>0, <2>1, EventChanged
<1>5. Kept BY <1>1, <1>2, <1>3, <1>4
<1> QED BY <1>5 DEF KeepsEvent

\* A process goes from one place of its session to another.
LEMMA SessionProc ==
  ASSUME Types, NEW p \in Procs, Session(p)
  PROVE  /\ pc[p] \in SessionAt /\ pc'[p] \in SessionAt
         /\ pc' \in [Procs -> SessionAt \cup OpeningAt \cup {"unborn", "closed"}]
         /\ \A q \in Procs : q # p => pc'[q] = pc[q]
<1>0. pc \in [Procs -> SessionAt \cup OpeningAt \cup {"unborn", "closed"}]
  BY DEF Types, ProcTypes
<1>1. \E to \in SessionAt : pc[p] \in SessionAt /\ pc' = [pc EXCEPT ![p] = to]
  <2>1. CASE Reset(p) \/ Enable(p) \/ Disable(p) \/ Read(p) \/ ReadFails(p)
    <3>1. pc[p] \in SessionAt /\ pc' = pc
      BY <2>1 DEF Reset, Enable, Disable, Read, ReadFails, ForLeader, SessionAt
    <3> QED BY <1>0, <3>1
  <2>2. CASE ~(Reset(p) \/ Enable(p) \/ Disable(p) \/ Read(p) \/ ReadFails(p))
    BY <2>2 DEF Session, Start, ResetEnds, EnableEnds, StartFails, Stop, StopFails, DisableEnds,
                ReadEnds, Record, LoopEnds, CallFails, Goto, SessionAt
  <2> QED BY <2>1, <2>2
<1> QED BY <1>0, <1>1

LEMMA SessionTypes ==
  ASSUME Types, NEW p \in Procs, Session(p)
  PROVE  ProcTypes'
<1>0. /\ i \in [Procs -> Nat] /\ value \in [Procs -> [Events -> Int]]
      /\ buf \in [Procs -> SUBSET Messages] /\ sections \in [Procs -> Nat]
      /\ clean \in [Procs -> BOOLEAN] /\ DOMAIN sample = Procs
  BY DEF Types, ProcTypes
<1>1. i' \in [Procs -> Nat]
  <2>1. \/ i' = i \/ i' = [i EXCEPT ![p] = 1] \/ i' = [i EXCEPT ![p] = @ + 1]
    BY DEF Session, Start, Reset, Enable, Disable, ForLeader, ResetEnds, EnableEnds, DisableEnds,
           ReadEnds, LoopEnds, StartFails, StopFails, CallFails, Stop, Read, ReadFails, Record,
           locals
  <2> QED BY <1>0, <2>1
<1>2. value' \in [Procs -> [Events -> Int]] /\ buf' \in [Procs -> SUBSET Messages]
  <2>1. CASE DisableEnds(p)
    <3>1. [k \in Events |-> MAX] \in [Events -> Int] /\ {} \in SUBSET Messages
      BY DEF MAX
    <3> QED BY <1>0, <2>1, <3>1 DEF DisableEnds
  <2>2. CASE Read(p)
    <3> DEFINE msg == Message(leaders[i[p]])
    <3>1. msg \in SUBSET Messages BY MessageOf DEF Types
    <3>2. value[p] \in [Events -> Int] BY <1>0
    <3>3. Stored(value[p], msg) \in [Events -> Int] BY <3>1, <3>2, StoredFrom
    <3>4. value' = [value EXCEPT ![p] = Stored(value[p], msg)] /\ buf' = [buf EXCEPT ![p] = msg]
      BY <2>2 DEF Read
    <3> HIDE DEF msg
    <3> QED BY <1>0, <3>1, <3>3, <3>4
  <2>3. CASE ReadFails(p)
    <3>1. value[p] \in [Events -> Int] /\ buf[p] \in SUBSET Messages BY <1>0
    <3>2. Stored(value[p], buf[p]) \in [Events -> Int] BY <3>1, StoredFrom
    <3>3. value' = [value EXCEPT ![p] = Stored(value[p], buf[p])] /\ buf' = buf
      BY <2>3 DEF ReadFails
    <3> QED BY <1>0, <3>2, <3>3
  <2>4. CASE ~(DisableEnds(p) \/ Read(p) \/ ReadFails(p))
    <3>1. UNCHANGED <<value, buf>>
      BY <2>4 DEF Session, Start, Reset, Enable, Disable, ForLeader, ResetEnds, EnableEnds,
                  ReadEnds, StartFails, StopFails, CallFails, Stop, Record, locals
    <3> QED BY <1>0, <3>1
  <2> QED BY <2>1, <2>2, <2>3, <2>4
<1>3. sections' \in [Procs -> Nat] /\ clean' \in [Procs -> BOOLEAN] /\ DOMAIN sample' = Procs
  <2>1. \/ sections' = sections \/ sections' = [sections EXCEPT ![p] = @ + 1]
    BY DEF Session, Start, Reset, Enable, Disable, ForLeader, ResetEnds, EnableEnds, DisableEnds,
           ReadEnds, LoopEnds, StartFails, StopFails, CallFails, Stop, Read, ReadFails, Record,
           snap
  <2>2. \/ clean' = clean \/ clean' = [clean EXCEPT ![p] = TRUE] \/ clean' = [clean EXCEPT ![p] = FALSE]
    BY DEF Session, Start, Reset, Enable, Disable, ForLeader, ResetEnds, EnableEnds, DisableEnds,
           ReadEnds, LoopEnds, StartFails, StopFails, CallFails, Stop, Read, ReadFails, Record,
           truth
  <2>3. DOMAIN sample' = Procs
    <3>1. CASE Start(p) BY <1>0, <3>1 DEF Start
    <3>2. CASE Record(p) BY <1>0, <3>2 DEF Record
    <3>3. CASE ~(Start(p) \/ Record(p))
      <4>1. sample' = sample
        BY <3>3 DEF Session, Reset, Enable, Disable, ForLeader, ResetEnds, EnableEnds,
             DisableEnds, ReadEnds, LoopEnds, StartFails, StopFails, CallFails, Stop, Read,
             ReadFails, snap
      <4> QED BY <1>0, <4>1
    <3> QED BY <3>1, <3>2, <3>3
  <2>4. sections' \in [Procs -> Nat] BY <1>0, <2>1
  <2>5. clean' \in [Procs -> BOOLEAN] BY <1>0, <2>2
  <2> QED BY <2>3, <2>4, <2>5
<1>4. tick' \in [Events -> Nat] BY SessionKernel DEF Types, ProcTypes
<1> QED BY <1>1, <1>2, <1>3, <1>4, SessionProc DEF ProcTypes

\* What is opened and who is who does not change once init() has returned.
LEMMA SessionGroup ==
  ASSUME GroupInv, NEW p \in Procs, Session(p)
  PROVE  GroupInv'
<1>0. Types BY DEF GroupInv
<1>1. /\ UNCHANGED <<others, leaders, ids, names, ready, leader, j>>
      /\ DOMAIN perf' = DOMAIN perf
      /\ \A f \in DOMAIN perf : perf'[f] \in PerfEvents /\ perf'[f].event = perf[f].event
                                /\ perf'[f].id = perf[f].id
  BY <1>0, SessionKernel DEF group
<1>2. ~Opening /\ ~Opening' /\ (pc'[Main] = "closed" <=> pc[Main] = "closed")
  <2>1. ~Opening BY <1>0, SessionProc DEF GroupInv, Before
  <2>2. CASE p = Main
    BY <1>0, <2>2, SessionProc DEF Opening, SessionAt, OpeningAt
  <2>3. CASE p # Main
    BY <1>0, <2>1, <2>3, SessionProc, MainAssumption DEF Opening
  <2> QED BY <2>2, <2>3
<1>3. Types'
  BY <1>0, <1>1, SessionTypes DEF Types, KernelTypes, GroupTypes
<1>4. Before' /\ OpenedSoFar' BY <1>2 DEF Before, OpenedSoFar
<1>5. Distinct' BY <1>1, <1>2 DEF GroupInv, Distinct
<1>6. OwnIds' BY <1>1, <1>2 DEF GroupInv, OwnIds
<1>7. ClosesItsOwn' BY <1>1, <1>2 DEF GroupInv, ClosesItsOwn
<1> QED BY <1>3, <1>4, <1>5, <1>6, <1>7 DEF GroupInv

\* Nor does it when an event occurs.
LEMMA TickKernel ==
  ASSUME Types, NEW p \in Procs, NEW e \in Events, Tick(p, e)
  PROVE  /\ UNCHANGED <<others, group, pc, locals, snap, clean>>
         /\ tick' = [tick EXCEPT ![e] = @ + 1]
         /\ DOMAIN perf' = DOMAIN perf
         /\ \A f \in DOMAIN perf :
              /\ perf'[f] \in PerfEvents
              /\ perf'[f].event = perf[f].event /\ perf'[f].group = perf[f].group
              /\ perf'[f].id = perf[f].id /\ perf'[f].on = perf[f].on
              /\ \/ perf'[f].count = perf[f].count
                 \/ perf[f].event = e /\ perf'[f].count = perf[f].count + 1
<1>1. \A f \in DOMAIN perf : perf[f] \in PerfEvents
  BY DEF Types, KernelTypes
<1>2. /\ UNCHANGED <<others, group, pc, locals, snap, clean>>
      /\ tick' = [tick EXCEPT ![e] = @ + 1]
      /\ perf' = [f \in DOMAIN perf |->
                   IF perf[f].event = e /\ Counts(f)
                   THEN [perf[f] EXCEPT !.count = @ + 1] ELSE perf[f]]
  BY DEF Tick
<1>3. ASSUME NEW k \in PerfEvents
      PROVE  LET n == [k EXCEPT !.count = @ + 1]
             IN  /\ n \in PerfEvents /\ n.event = k.event /\ n.group = k.group
                 /\ n.id = k.id /\ n.on = k.on /\ n.count = k.count + 1
  BY DEF PerfEvents
<1> QED BY <1>1, <1>2, <1>3

LEMMA TickGroup ==
  ASSUME GroupInv, NEW p \in Procs, NEW e \in Events, Tick(p, e)
  PROVE  GroupInv'
<1>0. Types BY DEF GroupInv
<1>1. /\ UNCHANGED <<others, leaders, ids, names, ready, leader, j, pc, i, value, buf,
                     sample, sections, clean>>
      /\ tick' = [tick EXCEPT ![e] = @ + 1]
      /\ DOMAIN perf' = DOMAIN perf
      /\ \A f \in DOMAIN perf : perf'[f] \in PerfEvents /\ perf'[f].event = perf[f].event
                                /\ perf'[f].id = perf[f].id
  BY <1>0, TickKernel DEF group, locals, snap
<1>2. tick' \in [Events -> Nat] BY <1>0, <1>1 DEF Types, ProcTypes
<1>3. Types' BY <1>0, <1>1, <1>2 DEF Types, KernelTypes, GroupTypes, ProcTypes
<1>4. Before' BY <1>1 DEF GroupInv, Before, Opening
<1>5. OpenedSoFar'
  <2>1. {perf'[f].event : f \in DOMAIN perf'} = {perf[f].event : f \in DOMAIN perf}
    BY <1>1
  <2>2. Opening' = Opening /\ SoFar' = SoFar BY <1>1 DEF Opening, SoFar
  <2> QED BY <1>1, <2>1, <2>2 DEF GroupInv, OpenedSoFar
<1>6. Distinct' BY <1>1 DEF GroupInv, Distinct, Opening
<1>7. OwnIds' BY <1>1 DEF GroupInv, OwnIds, Opening
<1>8. ClosesItsOwn' BY <1>1 DEF GroupInv, ClosesItsOwn
<1> QED BY <1>3, <1>4, <1>5, <1>6, <1>7, <1>8 DEF GroupInv

\* An event more in the kernel, of which the object has no id yet.
LEMMA OpenGroup == GroupInv /\ Open => GroupInv'
<1> SUFFICES ASSUME GroupInv, Open PROVE GroupInv' OBVIOUS
<1> DEFINE on == pc[Main] = "reopen" \/ leader # None
           own == leader = None
<1>1. PICK fd \in LowestFree, id \in Ids \ {perf[f].id : f \in DOMAIN perf} :
        /\ perf' = Opened(fd, [event |-> j, group |-> IF own THEN fd ELSE leader,
                               id |-> id, on |-> on, count |-> 0])
        /\ leader' = IF own THEN fd ELSE leader
        /\ leaders' = IF own THEN Append(leaders, fd) ELSE leaders
  BY DEF Open
<1>2. /\ pc[Main] \in {"open", "reopen"} /\ pc' = [pc EXCEPT ![Main] = "id"]
      /\ UNCHANGED <<others, ids, names, ready, j, i, value, buf, sample, sections, tick, clean>>
  BY DEF Open, locals, snap, truth
<1>3. Types /\ Opening /\ pc'[Main] = "id" /\ Opening'
  BY <1>2, MainAssumption DEF GroupInv, Types, ProcTypes, Opening, OpeningAt
<1>4. fd \in Nat /\ fd \notin others /\ fd \notin DOMAIN perf
  BY <1>1 DEF LowestFree
<1>5. j \in Events /\ others = Stdio /\ ~ready
      /\ {perf[f].event : f \in DOMAIN perf} = 1..(j - 1)
  BY <1>2, <1>3 DEF GroupInv, OpenedSoFar, Before, SoFar
<1> DEFINE new == [event |-> j, group |-> IF own THEN fd ELSE leader,
                   id |-> id, on |-> on, count |-> 0]
<1>6. new \in PerfEvents /\ new.event = j /\ new.id = id
  <2>1. (IF own THEN fd ELSE leader) \in Nat
    BY <1>3, <1>4 DEF Types, GroupTypes
  <2>2. on \in BOOLEAN OBVIOUS
  <2> HIDE DEF on, own
  <2> QED BY <1>1, <1>5, <2>1, <2>2 DEF PerfEvents
<1>7. /\ DOMAIN perf' = DOMAIN perf \cup {fd} /\ perf'[fd] = new
      /\ \A f \in DOMAIN perf : perf'[f] = perf[f]
  <2> HIDE DEF new
  <2>1. perf' = Opened(fd, new) BY <1>1 DEF new
  <2> QED BY <1>4, <2>1 DEF Opened
<1> HIDE DEF new, on
<1>8. Types'
  <2>1. KernelTypes' BY <1>3, <1>4, <1>6, <1>7 DEF Types, KernelTypes
  <2>2. GroupTypes' BY <1>1, <1>2, <1>3, <1>4 DEF Types, GroupTypes
  <2>3. pc' \in [Procs -> SessionAt \cup OpeningAt \cup {"unborn", "closed"}]
    BY <1>2, <1>3 DEF Types, ProcTypes, OpeningAt
  <2>4. ProcTypes' BY <1>2, <1>3, <2>3 DEF Types, ProcTypes
  <2> QED BY <2>1, <2>2, <2>4 DEF Types
<1>9. Before'
  BY <1>2, <1>3 DEF GroupInv, Before, SessionAt, Types, ProcTypes
<1>10. OpenedSoFar'
  <2>1. {perf'[f].event : f \in DOMAIN perf'} = {perf[f].event : f \in DOMAIN perf} \cup {j}
    BY <1>6, <1>7
  <2>2. 1..j = 1..(j - 1) \cup {j} BY <1>5, EventsFacts
  <2>3. \A k \in 1..(j - 1) : ids[k].fd \in DOMAIN perf' /\ perf'[ids[k].fd].event = k
    BY <1>3, <1>7 DEF GroupInv, OpenedSoFar
  <2> QED BY <1>2, <1>3, <1>5, <2>1, <2>2, <2>3 DEF OpenedSoFar, SoFar
<1>11. Distinct'
  <2>1. \A f \in DOMAIN perf : perf[f].event # j /\ perf[f].id # id
    BY <1>1, <1>5, EventsFacts
  <2>2. DOMAIN perf' \cap Stdio = {}
    BY <1>3, <1>4, <1>5, <1>7 DEF GroupInv, Distinct
  <2> QED BY <1>6, <1>7, <2>1, <2>2 DEF GroupInv, Distinct
<1>12. OwnIds'
  <2>1. \A k \in Events : ids[k].id # id
    BY <1>1, <1>3, IdsAssumption DEF GroupInv, OwnIds
  <2> QED BY <1>2, <1>3, <1>6, <1>7, <2>1 DEF GroupInv, OwnIds
<1>13. ClosesItsOwn' BY <1>2, <1>5 DEF ClosesItsOwn
<1> QED BY <1>8, <1>9, <1>10, <1>11, <1>12, <1>13 DEF GroupInv

LEMMA OpenAloneGroup == GroupInv /\ OpenAlone => GroupInv'
<1> SUFFICES ASSUME GroupInv, OpenAlone PROVE GroupInv' OBVIOUS
<1>1. /\ pc[Main] = "open" /\ pc' = [pc EXCEPT ![Main] = "reopen"] /\ leader' = None
      /\ UNCHANGED <<perf, others, leaders, ids, names, ready, j, i, value, buf, sample,
                     sections, tick, clean>>
  BY DEF OpenAlone, Goto, kernel, locals, snap, truth
<1>2. Types /\ Opening /\ pc'[Main] = "reopen" /\ Opening'
  BY <1>1, MainAssumption DEF GroupInv, Types, ProcTypes, Opening, OpeningAt
<1>3. pc' \in [Procs -> SessionAt \cup OpeningAt \cup {"unborn", "closed"}]
  BY <1>1, <1>2 DEF Types, ProcTypes, OpeningAt
<1>4. Types' BY <1>1, <1>2, <1>3 DEF Types, KernelTypes, GroupTypes, ProcTypes
<1>5. Before' BY <1>1, <1>2 DEF GroupInv, Before, SessionAt, Types, ProcTypes
<1>6. OpenedSoFar' BY <1>1, <1>2 DEF GroupInv, OpenedSoFar, SoFar
<1>7. Distinct' /\ OwnIds' BY <1>1, <1>2 DEF GroupInv, Distinct, OwnIds
<1>8. ClosesItsOwn' BY <1>1, <1>2 DEF GroupInv, Before, ClosesItsOwn
<1> QED BY <1>4, <1>5, <1>6, <1>7, <1>8 DEF GroupInv

LEMMA InitFailsGroup == GroupInv /\ InitFails => GroupInv'
<1> SUFFICES ASSUME GroupInv, InitFails PROVE GroupInv' OBVIOUS
<1>1. /\ pc[Main] \in {"open", "reopen", "id"} /\ pc' = [p \in Procs |-> "idle"]
      /\ UNCHANGED <<perf, others, leader, leaders, ids, names, ready, j, i, value, buf, sample,
                     sections, tick, clean>>
  BY DEF InitFails, kernel, group, locals, snap, truth
<1>2. Types /\ Opening /\ ~Opening' /\ ~ready
  BY <1>1, MainAssumption DEF GroupInv, Before, Opening, OpeningAt
<1>3. pc' \in [Procs -> SessionAt \cup OpeningAt \cup {"unborn", "closed"}]
  BY <1>1 DEF SessionAt
<1>4. Types' BY <1>1, <1>2, <1>3 DEF Types, KernelTypes, GroupTypes, ProcTypes
<1>5. Before' /\ OpenedSoFar' BY <1>2 DEF Before, OpenedSoFar
<1>6. Distinct' /\ OwnIds' BY <1>1, <1>2 DEF GroupInv, Distinct, OwnIds
<1>7. ClosesItsOwn' BY <1>1, <1>2 DEF ClosesItsOwn
<1> QED BY <1>4, <1>5, <1>6, <1>7 DEF GroupInv

\* The descriptor whose id is asked for is that of the j-th event.
LEMMA GetIdGroup == GroupInv /\ GetId => GroupInv'
<1> SUFFICES ASSUME GroupInv, GetId PROVE GroupInv' OBVIOUS
<1> DEFINE fd == CHOOSE f \in DOMAIN perf : perf[f].event = j
<1>1. /\ pc[Main] = "id" /\ j' = j + 1
      /\ pc' = [pc EXCEPT ![Main] = IF j = NumEvents THEN "index" ELSE "open"]
      /\ ids' = [ids EXCEPT ![j] = [event |-> j, fd |-> fd, id |-> perf[fd].id]]
      /\ UNCHANGED <<perf, others, leader, leaders, names, ready, i, value, buf, sample,
                     sections, tick, clean>>
  BY DEF GetId, Goto, kernel, locals, snap, truth
<1>2. Types /\ Opening /\ pc'[Main] = (IF j = NumEvents THEN "index" ELSE "open") /\ Opening'
  BY <1>1, MainAssumption DEF GroupInv, Types, ProcTypes, Opening, OpeningAt
<1>3. /\ j \in Events /\ j \in Nat /\ others = Stdio /\ ~ready
      /\ {perf[f].event : f \in DOMAIN perf} = 1..j
      /\ \A k \in Events : ids[k].event = k
  BY <1>1, <1>2 DEF GroupInv, OpenedSoFar, Before, SoFar, Types, GroupTypes
<1>4. fd \in DOMAIN perf /\ perf[fd].event = j
  <2>1. \E f \in DOMAIN perf : perf[f].event = j BY <1>3, EventsFacts
  <2> QED BY <2>1
<1> HIDE DEF fd
<1>5. perf[fd].id \in Nat /\ fd \in Nat
  BY <1>2, <1>4, IdsAssumption DEF Types, KernelTypes, PerfEvents
<1>6. /\ DOMAIN ids' = Events /\ \A k \in Events : k # j => ids'[k] = ids[k]
      /\ ids'[j].event = j /\ ids'[j].fd = fd /\ ids'[j].id = perf[fd].id
  BY <1>1, <1>2, <1>3 DEF Types, GroupTypes
<1>7. Types'
  <2>1. [event |-> j, fd |-> fd, id |-> perf[fd].id] \in Descriptors
    BY <1>3, <1>5 DEF Descriptors
  <2>2. ids' \in [Events -> Descriptors] BY <1>1, <1>2, <2>1 DEF Types, GroupTypes
  <2>3. GroupTypes' BY <1>1, <1>2, <1>3, <2>2 DEF Types, GroupTypes
  <2>4. pc' \in [Procs -> SessionAt \cup OpeningAt \cup {"unborn", "closed"}]
    BY <1>1, <1>2 DEF Types, ProcTypes, OpeningAt
  <2>5. ProcTypes' BY <1>1, <1>2, <2>4 DEF Types, ProcTypes
  <2> QED BY <1>1, <1>2, <2>3, <2>5 DEF Types, KernelTypes
<1>8. Before'
  <2>1. \A k \in Events : ids'[k].event = k BY <1>3, <1>6
  <2>2. \A q \in Procs : pc'[q] \notin SessionAt
    BY <1>1, <1>2 DEF GroupInv, Before, Types, ProcTypes, SessionAt
  <2> QED BY <1>1, <1>2, <2>1, <2>2 DEF GroupInv, Before
<1>9. OpenedSoFar'
  <2>1. \A k \in 1..j : ids'[k].fd \in DOMAIN perf /\ perf[ids'[k].fd].event = k
    <3>1. \A k \in 1..j : k \in Events /\ (k # j => k \in 1..(j - 1))
      BY <1>3, EventsFacts
    <3> QED BY <1>2, <1>4, <1>6, <3>1 DEF GroupInv, OpenedSoFar
  <2>2. (j + 1) - 1 = j BY <1>3
  <2>3. pc'[Main] # "index" => j + 1 \in Events BY <1>2, <1>3, EventsFacts
  <2> QED BY <1>1, <1>2, <1>3, <2>1, <2>2, <2>3 DEF OpenedSoFar, SoFar
<1>10. Distinct' BY <1>1, <1>2 DEF GroupInv, Distinct
<1>11. OwnIds'
  <2>1. \A k \in Events, f \in DOMAIN perf : ids'[k].id = perf[f].id => ids'[k].event = perf[f].event
    <3> SUFFICES ASSUME NEW k \in Events, NEW f \in DOMAIN perf, ids'[k].id = perf[f].id
                 PROVE  ids'[k].event = perf[f].event
      OBVIOUS
    <3>1. CASE k = j BY <1>4, <1>6, <3>1 DEF GroupInv, Distinct
    <3>2. CASE k # j BY <1>6, <3>2 DEF GroupInv, OwnIds
    <3> QED BY <3>1, <3>2
  <2>2. \A k \in Events : ids'[k].id = 0 \/ \E f \in DOMAIN perf : perf[f].id = ids'[k].id
    BY <1>2, <1>4, <1>6 DEF GroupInv, OwnIds
  <2>3. \A e \in Events : ids'[e].event = e BY <1>3, <1>6
  <2> QED BY <1>1, <2>1, <2>2, <2>3 DEF OwnIds
<1>12. ClosesItsOwn' BY <1>1, <1>3 DEF ClosesItsOwn
<1> QED BY <1>7, <1>8, <1>9, <1>10, <1>11, <1>12 DEF GroupInv

\* By then every event is open, and sorting only moves the descriptors.
LEMMA IndexGroup == GroupInv /\ Index => GroupInv'
<1> SUFFICES ASSUME GroupInv, Index PROVE GroupInv' OBVIOUS
<1>1. /\ pc[Main] = "index" /\ pc' = [p \in Procs |-> "idle"] /\ ready'
      /\ UNCHANGED <<perf, others, leader, leaders, j, i, value, buf, sample, sections, tick,
                     clean>>
  BY DEF Index, kernel, locals, snap, truth
<1>2. PICK order \in SortedOrders : ids' = [k \in Events |-> ids[order[k]]]
  BY DEF Index
<1>3. /\ order \in [Events -> Events]
      /\ \A e \in Events : \E k \in Events : order[k] = e
  BY <1>2 DEF SortedOrders, Bijection, Surjection
<1>4. Types /\ Opening /\ ~Opening' /\ pc'[Main] = "idle"
  BY <1>1, MainAssumption DEF GroupInv, Opening, OpeningAt
<1>5. /\ j = NumEvents + 1 /\ others = Stdio
      /\ {perf[f].event : f \in DOMAIN perf} = Events
      /\ \A k \in Events : ids[k].fd \in DOMAIN perf /\ perf[ids[k].fd].event = k
      /\ \A k \in Events : ids[k].event = k
  <2>1. j = NumEvents + 1 /\ others = Stdio /\ (\A k \in Events : ids[k].event = k)
    BY <1>1, <1>4 DEF GroupInv, OpenedSoFar, Before
  <2>2. 1..(j - 1) = Events
    <3>1. j - 1 = NumEvents BY <2>1, EventsFacts
    <3> QED BY <3>1 DEF Events
  <2>3. /\ {perf[f].event : f \in DOMAIN perf} = 1..(j - 1)
        /\ \A k \in 1..(j - 1) : ids[k].fd \in DOMAIN perf /\ perf[ids[k].fd].event = k
    BY <1>1, <1>4 DEF GroupInv, OpenedSoFar, SoFar
  <2> QED BY <2>1, <2>2, <2>3
<1>6. \A k \in Events : ids'[k] = ids[order[k]] /\ order[k] \in Events
  BY <1>2, <1>3
<1>7. Types'
  <2>1. ids' \in [Events -> Descriptors] BY <1>2, <1>3, <1>4 DEF Types, GroupTypes
  <2>2. pc' \in [Procs -> SessionAt \cup OpeningAt \cup {"unborn", "closed"}]
    BY <1>1 DEF SessionAt
  <2> QED BY <1>1, <1>4, <2>1, <2>2 DEF Types, KernelTypes, GroupTypes, ProcTypes
<1>8. Before' /\ OpenedSoFar' BY <1>4 DEF Before, OpenedSoFar
<1>9. Distinct' BY <1>1, <1>4 DEF GroupInv, Distinct
<1>10. OwnIds'
  <2>1. \A e \in Events : \E k \in Events : ids'[k].event = e
    BY <1>3, <1>5, <1>6
  <2>2. \A k \in Events, f \in DOMAIN perf :
          ids'[k].id = perf[f].id => ids'[k].event = perf[f].event
    BY <1>6 DEF GroupInv, OwnIds
  <2> QED BY <1>1, <1>4, <2>1, <2>2 DEF OwnIds
<1>11. ClosesItsOwn'
  <2>1. \A f \in DOMAIN perf : \E k \in Events : ids'[k].fd = f
    <3> SUFFICES ASSUME NEW f \in DOMAIN perf PROVE \E k \in Events : ids'[k].fd = f
      OBVIOUS
    <3>1. perf[f].event \in Events BY <1>4 DEF Types, KernelTypes, PerfEvents
    <3>2. ids[perf[f].event].fd = f BY <1>5, <3>1 DEF GroupInv, Distinct
    <3>3. PICK k \in Events : order[k] = perf[f].event BY <1>3, <3>1
    <3> QED BY <1>6, <3>2, <3>3
  <2>2. \A k \in Events : ids'[k].fd \in DOMAIN perf BY <1>5, <1>6
  <2>3. {ids'[k].fd : k \in Events} = DOMAIN perf BY <2>1, <2>2
  <2> QED BY <1>1, <1>4, <1>5, <2>3 DEF ClosesItsOwn
<1> QED BY <1>7, <1>8, <1>9, <1>10, <1>11 DEF GroupInv

LEMMA CloseGroup == GroupInv /\ Close => GroupInv'
<1> SUFFICES ASSUME GroupInv, Close PROVE GroupInv' OBVIOUS
<1> DEFINE fds == {ids[k].fd : k \in Events}
<1>1. /\ \A p \in Procs : pc[p] = "idle"
      /\ pc' = [p \in Procs |-> "closed"]
      /\ perf' = [f \in DOMAIN perf \ fds |-> perf[f]] /\ others' = others \ fds
      /\ UNCHANGED <<leader, leaders, ids, names, ready, j, i, value, buf, sample, sections,
                     tick, clean>>
  BY DEF Close, group, locals, snap, truth
<1>2. /\ DOMAIN perf' \subseteq DOMAIN perf /\ DOMAIN perf' = DOMAIN perf \ fds
      /\ \A f \in DOMAIN perf' : perf'[f] = perf[f]
  BY <1>1
<1>3. Types /\ ~Opening' /\ pc'[Main] = "closed" /\ pc[Main] # "closed"
  BY <1>1, MainAssumption DEF GroupInv, Opening, OpeningAt
<1>4. pc' \in [Procs -> SessionAt \cup OpeningAt \cup {"unborn", "closed"}]
  BY <1>1
<1>5. Types' BY <1>1, <1>2, <1>3, <1>4 DEF Types, KernelTypes, GroupTypes, ProcTypes
<1>6. Before' /\ OpenedSoFar' BY <1>3 DEF Before, OpenedSoFar
<1>7. Distinct' BY <1>1, <1>2, <1>3 DEF GroupInv, Distinct
<1>8. OwnIds' BY <1>1, <1>2, <1>3 DEF GroupInv, OwnIds
<1>9. ClosesItsOwn'
  BY <1>1, <1>2, <1>3 DEF GroupInv, Distinct, ClosesItsOwn
<1> QED BY <1>5, <1>6, <1>7, <1>8, <1>9 DEF GroupInv

LEMMA GroupStep == GroupInv /\ [Next]_vars => GroupInv'
<1> SUFFICES ASSUME GroupInv, [Next]_vars PROVE GroupInv' OBVIOUS
<1>1. CASE UNCHANGED vars \/ Finished
  <2>1. UNCHANGED <<perf, others, leader, leaders, ids, names, ready, j, pc, i, value, buf,
                    sample, sections, tick, clean>>
    BY <1>1 DEF Finished, vars, kernel, group, locals, snap, truth
  <2> QED BY <2>1 DEF GroupInv, Types, KernelTypes, GroupTypes, ProcTypes, Before, OpenedSoFar,
                      SoFar, Distinct, OwnIds, ClosesItsOwn, Opening
<1>2. CASE Open \/ OpenAlone \/ InitFails \/ GetId \/ Index \/ Close
  BY <1>2, OpenGroup, OpenAloneGroup, InitFailsGroup, GetIdGroup, IndexGroup, CloseGroup
<1>3. ASSUME NEW p \in Procs, Session(p) PROVE GroupInv'
  BY <1>3, SessionGroup
<1>4. ASSUME NEW p \in Procs, NEW e \in Events, Tick(p, e) PROVE GroupInv'
  BY <1>4, TickGroup
<1> QED BY <1>1, <1>2, <1>3, <1>4 DEF Next

LEMMA GroupInvariant == Spec => []GroupInv
  BY GroupInit, GroupStep, PTL DEF Spec

(***************************************************************************)
(* After an init() that succeeded, close() closes what init() opened and   *)
(* nothing else, for any number of events, in however many groups.         *)
(***************************************************************************)
THEOREM ClosesOwn == Spec => []ClosesItsOwn
<1>1. GroupInv => ClosesItsOwn BY DEF GroupInv
<1> QED BY <1>1, GroupInvariant, PTL

-----------------------------------------------------------------------------
(***************************************************************************)
(* Every count, wherever a copy of it is, is one its event has had.        *)
(***************************************************************************)
CountInv ==
  /\ \A f \in DOMAIN perf : perf[f].count <= tick[perf[f].event]
  /\ \A p \in Procs : \A k \in Events :
       value[p][k] = MAX \/ value[p][k] <= tick[ids[k].event]
  /\ \A p \in Procs : \A m \in buf[p] : \A k \in Events :
       ids[k].id = m.id => m.count <= tick[ids[k].event]
  /\ NeverAnothers

LEMMA CountInitial == Init => CountInv
<1> SUFFICES ASSUME Init PROVE CountInv OBVIOUS
<1>1. /\ DOMAIN perf = {} /\ tick = Zero /\ value = [p \in Procs |-> Zero]
      /\ buf = [p \in Procs |-> {}] /\ sample = [p \in Procs |-> <<>>]
      /\ ids = [k \in Events |-> [event |-> k, fd |-> 0, id |-> 0]]
  BY DEF Init
<1>2. NeverAnothers BY <1>1 DEF NeverAnothers, Samples
<1> QED BY <1>1, <1>2 DEF CountInv, Zero

\* A message that is stored has counts of the events whose ids it has.
LEMMA StoredCounts ==
  ASSUME GroupInv, CountInv, NEW p \in Procs, NEW msg \in SUBSET Messages,
         \A m \in msg : \A k \in Events : ids[k].id = m.id => m.count <= tick[ids[k].event]
  PROVE  \A k \in Events : LET v == Stored(value[p], msg)[k]
                           IN  v = MAX \/ v <= tick[ids[k].event]
<1> SUFFICES ASSUME NEW k \in Events
             PROVE  LET v == Stored(value[p], msg)[k] IN v = MAX \/ v <= tick[ids[k].event]
  OBVIOUS
<1>1. value[p] \in [Events -> Int] BY DEF GroupInv, Types, ProcTypes
<1>2. \/ Stored(value[p], msg)[k] = value[p][k]
      \/ \E m \in msg : ids[k].id = m.id /\ Stored(value[p], msg)[k] = m.count
  BY <1>1, StoredFrom
<1> QED BY <1>2 DEF CountInv

\* What is read is what the events of the group count now.
LEMMA MessageCounts ==
  ASSUME GroupInv, CountInv, NEW lead
  PROVE  \A m \in Message(lead) : \A k \in Events :
           ids[k].id = m.id => m.count <= tick[ids[k].event]
<1> SUFFICES ASSUME NEW m \in Message(lead), NEW k \in Events, ids[k].id = m.id
             PROVE  m.count <= tick[ids[k].event]
  OBVIOUS
<1>1. PICK f \in DOMAIN perf : m.id = perf[f].id /\ m.count = perf[f].count
  BY MessageOf DEF GroupInv, Types
<1>2. ids[k].event = perf[f].event BY <1>1 DEF GroupInv, OwnIds
<1> QED BY <1>1, <1>2 DEF CountInv

LEMMA SessionCounts ==
  ASSUME GroupInv, CountInv, NEW p \in Procs, Session(p)
  PROVE  CountInv'
<1>0. Types BY DEF GroupInv
<1>1. /\ UNCHANGED <<ids, tick>> /\ DOMAIN perf' = DOMAIN perf
      /\ \A f \in DOMAIN perf : /\ perf[f].event \in Events /\ perf[f].count \in Nat
                                /\ perf'[f].count \in Nat /\ perf'[f].event = perf[f].event
                                /\ perf'[f].count <= perf[f].count
      /\ tick \in [Events -> Nat]
      /\ value \in [Procs -> [Events -> Int]] /\ buf \in [Procs -> SUBSET Messages]
      /\ DOMAIN sample = Procs
  BY <1>0, SessionKernel DEF group, Types, KernelTypes, ProcTypes, PerfEvents
<1>2. \A f \in DOMAIN perf' : perf'[f].count <= tick'[perf'[f].event]
  <2> SUFFICES ASSUME NEW f \in DOMAIN perf PROVE perf'[f].count <= tick[perf[f].event]
    BY <1>1
  <2>1. tick[perf[f].event] \in Nat /\ perf[f].count <= tick[perf[f].event]
    BY <1>1 DEF CountInv
  <2> QED BY <1>1, <2>1
<1>3. /\ \A q \in Procs : \A k \in Events : value'[q][k] = MAX \/ value'[q][k] <= tick[ids[k].event]
      /\ \A q \in Procs : \A m \in buf'[q] : \A k \in Events :
           ids[k].id = m.id => m.count <= tick[ids[k].event]
  <2>1. CASE DisableEnds(p)
    BY <1>1, <2>1 DEF DisableEnds, CountInv
  <2>2. CASE Read(p)
    <3> DEFINE msg == Message(leaders[i[p]])
    <3>1. msg \in SUBSET Messages BY <1>0, MessageOf DEF Types
    <3>2. /\ value' = [value EXCEPT ![p] = Stored(value[p], msg)]
          /\ buf' = [buf EXCEPT ![p] = msg]
      BY <2>2 DEF Read
    <3>3. \A m \in msg : \A k \in Events : ids[k].id = m.id => m.count <= tick[ids[k].event]
      BY MessageCounts
    <3> HIDE DEF msg
    <3>4. \A k \in Events : LET v == Stored(value[p], msg)[k]
                            IN  v = MAX \/ v <= tick[ids[k].event]
      BY <3>1, <3>3, StoredCounts
    <3>5. value'[p] = Stored(value[p], msg) /\ \A q \in Procs : q # p => value'[q] = value[q]
      BY <1>1, <3>2
    <3>6. buf'[p] = msg /\ \A q \in Procs : q # p => buf'[q] = buf[q]
      BY <1>1, <3>2
    <3> QED BY <3>3, <3>4, <3>5, <3>6 DEF CountInv
  <2>3. CASE ReadFails(p)
    <3>1. buf[p] \in SUBSET Messages BY <1>1
    <3>2. value' = [value EXCEPT ![p] = Stored(value[p], buf[p])] /\ buf' = buf
      BY <2>3 DEF ReadFails
    <3>3. \A k \in Events : LET v == Stored(value[p], buf[p])[k]
                            IN  v = MAX \/ v <= tick[ids[k].event]
      BY <3>1, StoredCounts DEF CountInv
    <3>4. value'[p] = Stored(value[p], buf[p]) /\ \A q \in Procs : q # p => value'[q] = value[q]
      BY <1>1, <3>2
    <3> QED BY <3>2, <3>3, <3>4 DEF CountInv
  <2>4. CASE ~(DisableEnds(p) \/ Read(p) \/ ReadFails(p))
    <3>1. UNCHANGED <<value, buf>>
      BY <2>4 DEF Session, Start, Reset, Enable, Disable, ForLeader, ResetEnds, EnableEnds,
                  ReadEnds, StartFails, StopFails, CallFails, Stop, Record, locals
    <3> QED BY <3>1 DEF CountInv
  <2> QED BY <2>1, <2>2, <2>3, <2>4
<1>4. NeverAnothers'
  <2>1. CASE Start(p)
    <3>1. sample' = [sample EXCEPT ![p] = <<>>] BY <2>1 DEF Start
    <3>2. \A q \in Procs : sample'[q] # <<>> => sample[q] # <<>> /\ sample'[q] = sample[q]
      BY <1>1, <3>1
    <3>3. Samples' \subseteq Samples BY <3>2 DEF Samples
    <3> QED BY <3>3 DEF CountInv, NeverAnothers
  <2>2. CASE Record(p)
    <3> DEFINE vals == [e \in Events |-> value[p][CHOOSE k \in Events : ids[k].event = e]]
               s == [vals |-> vals, lo |-> lo[p], hi |-> hi[p], upTo |-> tick,
                     clean |-> clean[p]]
    <3>1. sample' = sample \/ sample' = [sample EXCEPT ![p] = <<s>>]
      BY <2>2 DEF Record
    <3>2. Samples' \subseteq Samples \cup {s}
      <4>1. \A q \in Procs : sample'[q] # <<>> =>
              \/ sample[q] # <<>> /\ sample'[q] = sample[q]
              \/ sample'[q] = <<s>>
        <5> HIDE DEF s
        <5> QED BY <1>1, <3>1
      <4>2. <<s>>[1] = s OBVIOUS
      <4> HIDE DEF s
      <4> QED BY <4>1, <4>2 DEF Samples
    <3>3. \A e \in Events : vals[e] = MAX \/ vals[e] <= tick[e]
      <4> SUFFICES ASSUME NEW e \in Events PROVE vals[e] = MAX \/ vals[e] <= tick[e]
        OBVIOUS
      <4> DEFINE k == CHOOSE n \in Events : ids[n].event = e
      <4>1. \E n \in Events : ids[n].event = e BY DEF GroupInv, OwnIds
      <4>2. k \in Events /\ ids[k].event = e BY <4>1
      <4>3. vals[e] = value[p][k] OBVIOUS
      <4> HIDE DEF k, vals
      <4> QED BY <4>2, <4>3 DEF CountInv
    <3>4. s.vals = vals /\ s.upTo = tick OBVIOUS
    <3> HIDE DEF s, vals
    <3> QED BY <3>2, <3>3, <3>4 DEF CountInv, NeverAnothers
  <2>3. CASE ~(Start(p) \/ Record(p))
    <3>1. sample' = sample
      BY <2>3 DEF Session, Reset, Enable, Disable, ForLeader, ResetEnds, EnableEnds, DisableEnds,
           ReadEnds, LoopEnds, StartFails, StopFails, CallFails, Stop, Read, ReadFails, snap
    <3> QED BY <3>1 DEF CountInv, NeverAnothers, Samples
  <2> QED BY <2>1, <2>2, <2>3
<1> QED BY <1>1, <1>2, <1>3, <1>4 DEF CountInv

LEMMA TickCounts ==
  ASSUME GroupInv, CountInv, NEW p \in Procs, NEW e \in Events, Tick(p, e)
  PROVE  CountInv'
<1>0. Types BY DEF GroupInv
<1>1. /\ UNCHANGED <<ids, value, buf, sample>>
      /\ tick \in [Events -> Nat] /\ tick' = [tick EXCEPT ![e] = @ + 1]
      /\ DOMAIN perf' = DOMAIN perf
      /\ \A f \in DOMAIN perf :
           /\ perf[f].event \in Events /\ perf[f].count \in Nat
           /\ perf'[f].event = perf[f].event
           /\ \/ perf'[f].count = perf[f].count
              \/ perf[f].event = e /\ perf'[f].count = perf[f].count + 1
  BY <1>0, TickKernel DEF group, locals, snap, Types, KernelTypes, ProcTypes, PerfEvents
<1>2. \A d \in Events : tick[d] \in Nat /\ tick'[d] \in Nat /\ tick[d] <= tick'[d]
                        /\ (d = e => tick'[d] = tick[d] + 1)
  BY <1>1
<1>3. \A f \in DOMAIN perf' : perf'[f].count <= tick'[perf'[f].event]
  <2> SUFFICES ASSUME NEW f \in DOMAIN perf PROVE perf'[f].count <= tick'[perf[f].event]
    BY <1>1
  <2>1. perf[f].count <= tick[perf[f].event] BY DEF CountInv
  <2> QED BY <1>1, <1>2, <2>1
<1>4. \A k \in Events : ids[k].event \in Events BY <1>0 DEF Types, GroupTypes, Descriptors
<1>5. \A q \in Procs : \A k \in Events : value[q][k] = MAX \/ value[q][k] <= tick'[ids[k].event]
  <2> SUFFICES ASSUME NEW q \in Procs, NEW k \in Events
               PROVE  value[q][k] = MAX \/ value[q][k] <= tick'[ids[k].event]
    OBVIOUS
  <2>1. value[q][k] \in Int BY <1>0 DEF Types, ProcTypes
  <2>2. value[q][k] = MAX \/ value[q][k] <= tick[ids[k].event] BY DEF CountInv
  <2> QED BY <1>2, <1>4, <2>1, <2>2
<1>6. \A q \in Procs : \A m \in buf[q] : \A k \in Events :
        ids[k].id = m.id => m.count <= tick'[ids[k].event]
  <2> SUFFICES ASSUME NEW q \in Procs, NEW m \in buf[q], NEW k \in Events, ids[k].id = m.id
               PROVE  m.count <= tick'[ids[k].event]
    OBVIOUS
  <2>1. m.count \in Nat BY <1>0 DEF Types, ProcTypes, Messages
  <2>2. m.count <= tick[ids[k].event] BY DEF CountInv
  <2> QED BY <1>2, <1>4, <2>1, <2>2
<1>7. NeverAnothers' BY <1>1 DEF CountInv, NeverAnothers, Samples
<1> QED BY <1>1, <1>3, <1>5, <1>6, <1>7 DEF CountInv

\* While events are opened nothing has been read.
LEMMA OpeningCounts ==
  ASSUME GroupInv, GroupInv', CountInv, Open \/ OpenAlone \/ InitFails \/ GetId \/ Index
  PROVE  CountInv'
<1>0. Types /\ Types' BY DEF GroupInv
<1>1. Opening /\ UNCHANGED <<value, buf, sample, tick>>
  BY MainAssumption DEF Open, OpenAlone, InitFails, GetId, Index, Goto, Opening, OpeningAt,
                        locals, snap, truth
<1>2. tick \in [Events -> Nat] /\ \A p \in Procs : value[p] = Zero /\ buf[p] = {}
  BY <1>0, <1>1 DEF GroupInv, Before, Types, ProcTypes
<1>3. \A k \in Events : ids'[k].event \in Events
  BY <1>0 DEF Types, GroupTypes, Descriptors
<1>4. \A p \in Procs : \A k \in Events : value'[p][k] <= tick'[ids'[k].event]
  BY <1>1, <1>2, <1>3 DEF Zero
<1>5. \A f \in DOMAIN perf' : perf'[f].count <= tick'[perf'[f].event]
  <2>1. CASE Open
    <3>1. \E fd, new : perf' = Opened(fd, new) /\ new.count = 0
      BY <2>1 DEF Open
    <3>2. \A f \in DOMAIN perf' :
             (f \in DOMAIN perf /\ perf'[f] = perf[f]) \/ perf'[f].count = 0
      BY <3>1 DEF Opened
    <3>3. \A f \in DOMAIN perf' : perf'[f].event \in Events
      BY <1>0 DEF Types, KernelTypes, PerfEvents
    <3> QED BY <1>1, <1>2, <3>2, <3>3 DEF CountInv
  <2>2. CASE OpenAlone \/ InitFails \/ GetId \/ Index
    <3>1. perf' = perf BY <2>2 DEF OpenAlone, InitFails, GetId, Index, kernel
    <3> QED BY <1>1, <3>1 DEF CountInv
  <2> QED BY <2>1, <2>2
<1>6. NeverAnothers' BY <1>1 DEF CountInv, NeverAnothers, Samples
<1> QED BY <1>1, <1>2, <1>4, <1>5, <1>6 DEF CountInv

LEMMA CountStep == GroupInv /\ CountInv /\ [Next]_vars => CountInv'
<1> SUFFICES ASSUME GroupInv, CountInv, [Next]_vars PROVE CountInv' OBVIOUS
<1>1. CASE UNCHANGED vars \/ Finished
  <2>1. UNCHANGED <<perf, ids, value, buf, sample, tick>>
    BY <1>1 DEF Finished, vars, kernel, group, locals, snap, truth
  <2> QED BY <2>1 DEF CountInv, NeverAnothers, Samples
<1>2. CASE Open \/ OpenAlone \/ InitFails \/ GetId \/ Index
  BY <1>2, GroupStep, OpeningCounts
<1>3. CASE Close
  <2>1. /\ UNCHANGED <<ids, value, buf, sample, tick>> /\ DOMAIN perf' \subseteq DOMAIN perf
        /\ \A f \in DOMAIN perf' : perf'[f] = perf[f]
    BY <1>3 DEF Close, group, locals, snap, truth
  <2> QED BY <2>1 DEF CountInv, NeverAnothers, Samples
<1>4. ASSUME NEW p \in Procs, Session(p) PROVE CountInv'
  BY <1>4, SessionCounts
<1>5. ASSUME NEW p \in Procs, NEW e \in Events, Tick(p, e) PROVE CountInv'
  BY <1>5, TickCounts
<1> QED BY <1>1, <1>2, <1>3, <1>4, <1>5 DEF Next

(***************************************************************************)
(* A sample never holds another event's count, for any number of events    *)
(* and processes that share them, whichever calls fail, init()'s included. *)
(***************************************************************************)
THEOREM NotAnothers == Spec => []NeverAnothers
<1>1. CountInv => NeverAnothers BY DEF CountInv
<1> QED BY <1>1, GroupInvariant, CountInitial, CountStep, PTL DEF Spec

-----------------------------------------------------------------------------
(***************************************************************************)
(* Somebody will yet disable what is enabled, or has failed to: a process  *)
(* that is before its stop(), or in it and not yet past the event's group. *)
(***************************************************************************)
Holds(p, f) ==
  \/ ~clean[p]
  \/ pc[p] \notin {"disable", "read", "record", "idle"}
  \/ pc[p] = "disable" /\ \A n \in 1..Len(leaders) : leaders[n] = perf[f].group => i[p] <= n

Leads(all, g) == \E n \in 1..Len(all) : all[n] = g

QuietInv ==
  /\ \A f \in DOMAIN perf : Leads(leaders, perf[f].group)
  /\ Opening => leader = None \/ Leads(leaders, leader)
  /\ \A f \in DOMAIN perf :
       perf[f].on => sections[Main] = 0 \/ \E p \in Procs : Holds(p, f)

LEMMA QuietInitial == Init => QuietInv
BY DEF Init, QuietInv

\* While init() opens the events, nobody has begun a section.
LEMMA OpeningQuiet ==
  ASSUME GroupInv, QuietInv, Open \/ OpenAlone \/ InitFails \/ GetId \/ Index
  PROVE  QuietInv'
<1>1. Opening /\ sections' = sections
  BY MainAssumption DEF Open, OpenAlone, InitFails, GetId, Index, Goto, Opening, OpeningAt, snap
<1>2. sections[Main] = 0 BY <1>1 DEF GroupInv, Before
<1>3. leaders \in Seq(Nat) BY DEF GroupInv, Types, GroupTypes
<1>4. /\ \A f \in DOMAIN perf' : Leads(leaders', perf'[f].group)
      /\ leader' = None \/ Leads(leaders', leader')
  <2>1. CASE Open
    <3>1. PICK fd \in LowestFree : \E new :
            /\ perf' = Opened(fd, new)
            /\ new.group = IF leader = None THEN fd ELSE leader
            /\ leader' = IF leader = None THEN fd ELSE leader
            /\ leaders' = IF leader = None THEN Append(leaders, fd) ELSE leaders
      BY <2>1 DEF Open
    <3>2. fd \in Nat BY <3>1 DEF LowestFree
    <3>3. \A g : Leads(leaders, g) => Leads(leaders', g)
      BY <1>3, <3>1, <3>2 DEF Leads
    <3>4. Leads(leaders', leader')
      <4>1. CASE leader = None
        <5>1. Len(leaders') \in 1..Len(leaders') /\ leaders'[Len(leaders')] = fd
          BY <1>3, <3>1, <3>2, <4>1
        <5> QED BY <3>1, <4>1, <5>1 DEF Leads
      <4>2. CASE leader # None
        BY <1>1, <3>1, <3>3, <4>2 DEF QuietInv
      <4> QED BY <4>1, <4>2
    <3>5. ASSUME NEW f \in DOMAIN perf' PROVE Leads(leaders', perf'[f].group)
      <4>1. perf'[f].group = leader' \/ (f \in DOMAIN perf /\ perf'[f] = perf[f])
        BY <3>1 DEF Opened
      <4> QED BY <3>3, <3>4, <4>1 DEF QuietInv
    <3> QED BY <3>4, <3>5
  <2>2. CASE OpenAlone \/ InitFails \/ GetId \/ Index
    <3>1. perf' = perf /\ leaders' = leaders /\ (leader' = leader \/ leader' = None)
      BY <2>2 DEF OpenAlone, InitFails, GetId, Index, kernel, group
    <3> QED BY <1>1, <3>1 DEF QuietInv, Leads
  <2> QED BY <2>1, <2>2
<1> QED BY <1>1, <1>2, <1>4 DEF QuietInv

\* A process leaves alone what the others have yet to disable.
LEMMA OthersHold ==
  ASSUME GroupInv, NEW p \in Procs, Session(p), NEW q \in Procs, q # p,
         NEW f \in DOMAIN perf, Holds(q, f)
  PROVE  Holds(q, f)'
<1>0. Types BY DEF GroupInv
<1>1. pc'[q] = pc[q] BY <1>0, SessionProc
<1>2. leaders' = leaders /\ perf'[f].group = perf[f].group
  BY <1>0, SessionKernel DEF group
<1>3. i'[q] = i[q] /\ clean'[q] = clean[q]
  <2>1. i \in [Procs -> Nat] /\ clean \in [Procs -> BOOLEAN] BY <1>0 DEF Types, ProcTypes
  <2>2. \/ i' = i \/ i' = [i EXCEPT ![p] = 1] \/ i' = [i EXCEPT ![p] = @ + 1]
    BY DEF Session, Start, Reset, Enable, Disable, ForLeader, ResetEnds, EnableEnds, DisableEnds,
           ReadEnds, LoopEnds, StartFails, StopFails, CallFails, Stop, Read, ReadFails, Record,
           locals
  <2>3. \/ clean' = clean \/ clean' = [clean EXCEPT ![p] = TRUE]
        \/ clean' = [clean EXCEPT ![p] = FALSE]
    BY DEF Session, Start, Reset, Enable, Disable, ForLeader, ResetEnds, EnableEnds, DisableEnds,
           ReadEnds, LoopEnds, StartFails, StopFails, CallFails, Stop, Read, ReadFails, Record,
           truth
  <2> QED BY <2>1, <2>2, <2>3
<1> QED BY <1>1, <1>2, <1>3 DEF Holds

\* A process that is still to disable an event is so after its step, or the
\* event is disabled.
LEMMA ItselfHolds ==
  ASSUME GroupInv, QuietInv, NEW p \in Procs, Session(p), NEW f \in DOMAIN perf, Holds(p, f)
  PROVE  Holds(p, f)' \/ ~perf'[f].on
<1>0. /\ Types /\ pc \in [Procs -> SessionAt \cup OpeningAt \cup {"unborn", "closed"}]
      /\ i \in [Procs -> Nat] /\ clean \in [Procs -> BOOLEAN] /\ leaders \in Seq(Nat)
  BY DEF GroupInv, Types, ProcTypes, GroupTypes
<1>1. leaders' = leaders /\ perf'[f].group = perf[f].group
  BY <1>0, SessionKernel DEF group
<1>2. CASE Start(p) \/ Reset(p) \/ ResetEnds(p) \/ Enable(p) \/ EnableEnds(p) \/ StartFails(p)
  <2>1. pc'[p] \in {"reset", "enable", "measuring"}
    BY <1>0, <1>2 DEF Start, Reset, ResetEnds, Enable, EnableEnds, StartFails, ForLeader, LoopEnds,
                      CallFails, Goto
  <2> QED BY <2>1 DEF Holds
<1>3. CASE Stop(p)
  <2>1. pc'[p] = "disable" /\ i'[p] = 1 BY <1>0, <1>3 DEF Stop, Goto
  <2> QED BY <1>0, <1>1, <2>1 DEF Holds
<1>4. CASE StopFails(p) \/ ReadFails(p)
  <2>1. clean'[p] = FALSE BY <1>0, <1>4 DEF StopFails, ReadFails, CallFails
  <2> QED BY <2>1 DEF Holds
<1>5. CASE Read(p) \/ ReadEnds(p) \/ Record(p)
  <2>1. pc[p] \in {"read", "record"} /\ clean' = clean
    BY <1>5 DEF Read, ReadEnds, Record, LoopEnds, Goto, truth
  <2> QED BY <2>1 DEF Holds
<1>6. CASE Disable(p)
  <2>1. /\ pc[p] = "disable" /\ pc' = pc /\ clean' = clean /\ i'[p] = i[p] + 1
        /\ perf' = ForGroup(leaders[i[p]], Disabled)
    BY <1>0, <1>6 DEF Disable, ForLeader, truth
  <2>2. CASE perf[f].group = leaders[i[p]]
    <3>1. perf'[f] = [perf[f] EXCEPT !.on = FALSE] BY <2>1, <2>2 DEF ForGroup, Members, Disabled
    <3>2. perf[f] \in PerfEvents BY <1>0 DEF Types, KernelTypes
    <3> QED BY <3>1, <3>2 DEF PerfEvents
  <2>3. CASE perf[f].group # leaders[i[p]]
    <3>1. ASSUME clean[p], NEW n \in 1..Len(leaders), leaders[n] = perf[f].group
          PROVE  i[p] + 1 <= n
      <4>1. i[p] <= n BY <2>1, <3>1 DEF Holds
      <4>2. i[p] # n BY <2>3, <3>1
      <4> QED BY <1>0, <4>1, <4>2
    <3>2. CASE ~clean[p] BY <2>1, <3>2 DEF Holds
    <3>3. CASE clean[p] BY <1>1, <2>1, <3>1, <3>3 DEF Holds
    <3> QED BY <3>2, <3>3
  <2> QED BY <2>2, <2>3
<1>7. CASE DisableEnds(p)
  <2>1. pc[p] = "disable" /\ i[p] > Len(leaders) /\ clean' = clean
    BY <1>7 DEF DisableEnds, LoopEnds, Goto, truth
  <2>2. \E n \in 1..Len(leaders) : leaders[n] = perf[f].group BY DEF QuietInv, Leads
  <2>3. ~clean[p] BY <1>0, <2>1, <2>2 DEF Holds
  <2> QED BY <2>1, <2>3 DEF Holds
<1> QED BY <1>2, <1>3, <1>4, <1>5, <1>6, <1>7 DEF Session

\* What a process turns on, it has yet to disable.
LEMMA SessionQuiet ==
  ASSUME GroupInv, QuietInv, NEW p \in Procs, Session(p)
  PROVE  QuietInv'
<1>0. Types BY DEF GroupInv
<1>1. /\ leaders' = leaders /\ leader' = leader /\ DOMAIN perf' = DOMAIN perf
      /\ \A f \in DOMAIN perf : perf'[f].group = perf[f].group
  BY <1>0, SessionKernel DEF group
<1>2. ~Opening'
  <2>1. ~Opening BY <1>0, SessionProc DEF GroupInv, Before
  <2>2. CASE p = Main
    BY <1>0, <2>2, SessionProc DEF Opening, SessionAt, OpeningAt
  <2>3. CASE p # Main
    BY <1>0, <2>1, <2>3, SessionProc, MainAssumption DEF Opening
  <2> QED BY <2>2, <2>3
<1>3. ASSUME NEW f \in DOMAIN perf, perf'[f].on
      PROVE  sections'[Main] = 0 \/ \E q \in Procs : Holds(q, f)'
  <2>1. CASE Start(p)
    <3>1. pc'[p] = "reset" BY <1>0, <2>1 DEF Start, Goto, Types, ProcTypes
    <3> QED BY <3>1 DEF Holds
  <2>2. CASE Enable(p)
    <3>1. pc'[p] = "enable" BY <2>2 DEF Enable, ForLeader
    <3> QED BY <3>1 DEF Holds
  <2>3. CASE ~(Start(p) \/ Enable(p))
    <3>1. sections' = sections
      BY <2>3 DEF Session, Reset, Disable, ForLeader, ResetEnds, EnableEnds, DisableEnds,
                  ReadEnds, LoopEnds, StartFails, StopFails, CallFails, Stop, Read, ReadFails,
                  Record, snap
    <3>2. perf[f].on
      <4>1. perf[f] \in PerfEvents BY <1>0 DEF Types, KernelTypes
      <4>2. CASE Reset(p)
        <5>1. perf'[f] \in {perf[f], [perf[f] EXCEPT !.count = 0]}
          BY <4>2 DEF Reset, ForLeader, ForGroup, ResetCount
        <5> QED BY <1>3, <4>1, <5>1 DEF PerfEvents
      <4>3. CASE Disable(p)
        <5>1. perf'[f] \in {perf[f], [perf[f] EXCEPT !.on = FALSE]}
          BY <4>3 DEF Disable, ForLeader, ForGroup, Disabled
        <5> QED BY <1>3, <4>1, <5>1 DEF PerfEvents
      <4>4. CASE ~(Reset(p) \/ Disable(p))
        <5>1. perf' = perf
          BY <2>3, <4>4 DEF Session, ResetEnds, EnableEnds, StartFails, Stop, StopFails,
                DisableEnds, Read, ReadFails, ReadEnds, Record, LoopEnds, CallFails, kernel
        <5> QED BY <1>3, <5>1
      <4> QED BY <4>2, <4>3, <4>4
    <3>3. CASE sections[Main] = 0 BY <3>1, <3>3
    <3>4. ASSUME NEW q \in Procs, Holds(q, f) PROVE Holds(q, f)'
      <4>1. CASE q = p BY <1>3, <3>4, <4>1, ItselfHolds
      <4>2. CASE q # p BY <3>4, <4>2, OthersHold
      <4> QED BY <4>1, <4>2
    <3> QED BY <3>2, <3>3, <3>4 DEF QuietInv
  <2> QED BY <2>1, <2>2, <2>3
<1>4. \A f \in DOMAIN perf' : Leads(leaders', perf'[f].group)
  BY <1>1 DEF QuietInv, Leads
<1> QED BY <1>1, <1>2, <1>3, <1>4 DEF QuietInv

LEMMA QuietStep == GroupInv /\ QuietInv /\ [Next]_vars => QuietInv'
<1> SUFFICES ASSUME GroupInv, QuietInv, [Next]_vars PROVE QuietInv' OBVIOUS
<1>1. CASE UNCHANGED vars \/ Finished
  <2>1. UNCHANGED <<perf, leaders, leader, pc, i, sections, clean>>
    BY <1>1 DEF Finished, vars, kernel, group, locals, snap, truth
  <2> QED BY <2>1 DEF QuietInv, Leads, Holds, Opening
<1>2. CASE Open \/ OpenAlone \/ InitFails \/ GetId \/ Index
  BY <1>2, OpeningQuiet
<1>3. CASE Close
  <2>1. /\ UNCHANGED <<leaders, sections>> /\ DOMAIN perf' \subseteq DOMAIN perf
        /\ \A f \in DOMAIN perf' : perf'[f] = perf[f]
        /\ pc' = [p \in Procs |-> "closed"]
    BY <1>3 DEF Close, group, snap
  <2>2. ~Opening' /\ \A f : Holds(Main, f)'
    BY <2>1, MainAssumption DEF Opening, OpeningAt, Holds
  <2>3. \A g : Leads(leaders, g) => Leads(leaders', g) BY <2>1 DEF Leads
  <2> QED BY <2>1, <2>2, <2>3, MainAssumption DEF QuietInv
<1>4. ASSUME NEW p \in Procs, Session(p) PROVE QuietInv'
  BY <1>4, SessionQuiet
<1>5. ASSUME NEW p \in Procs, NEW e \in Events, Tick(p, e) PROVE QuietInv'
  <2>1. /\ UNCHANGED <<leaders, leader, pc, i, sections, clean>> /\ DOMAIN perf' = DOMAIN perf
        /\ \A f \in DOMAIN perf : perf'[f].group = perf[f].group /\ perf'[f].on = perf[f].on
    BY <1>5, TickKernel DEF GroupInv, group, locals, snap
  <2> QED BY <2>1 DEF QuietInv, Leads, Holds, Opening
<1> QED BY <1>1, <1>2, <1>3, <1>4, <1>5 DEF Next

(***************************************************************************)
(* Nothing counts between the sections of any number of processes that     *)
(* share a Snapshot, unless a call of one of them failed in its last one.  *)
(***************************************************************************)
THEOREM QuietWhenIdle == Spec => []QuietBetween
<1>1. GroupInv /\ QuietInv => QuietBetween
  <2> SUFFICES ASSUME GroupInv, QuietInv, NEW f \in DOMAIN perf, sections[Main] > 0,
                      \A p \in Procs : pc[p] \in {"record", "idle"} /\ clean[p]
               PROVE  ~Counts(f)
    BY DEF QuietBetween
  <2>1. \A p \in Procs : ~Holds(p, f) BY DEF Holds
  <2>2. ~perf[f].on BY <2>1 DEF QuietInv
  <2> QED BY <2>2 DEF Counts
<1> QED BY <1>1, GroupInvariant, QuietInitial, QuietStep, PTL DEF Spec

-----------------------------------------------------------------------------
(***************************************************************************)
(* init()'s table: the descriptors are those of the kernel's events, and   *)
(* once they are sorted there is no id twice.  A group's leader is open as *)
(* long as its members are.                                                *)
(***************************************************************************)
TableInv ==
  /\ Opening => \A k \in 1..(j - 1) : perf[ids[k].fd].id = ids[k].id
  /\ Opening /\ leader # None => leader \in DOMAIN perf
  /\ pc[Main] # "closed" => \A f \in DOMAIN perf : perf[f].group \in DOMAIN perf
  /\ ready => \A a, b \in Events : a < b => ids[a].id < ids[b].id
  /\ ready /\ pc[Main] # "closed" => \A k \in Events :
       /\ ids[k].fd \in DOMAIN perf
       /\ perf[ids[k].fd].id = ids[k].id /\ perf[ids[k].fd].event = ids[k].event

LEMMA TableInitial == Init => TableInv
BY MainAssumption DEF Init, TableInv, Opening, OpeningAt

LEMMA OpenTable == GroupInv /\ TableInv /\ Open => TableInv'
<1> SUFFICES ASSUME GroupInv, TableInv, Open PROVE TableInv' OBVIOUS
<1>1. PICK fd \in LowestFree : \E new :
        /\ perf' = Opened(fd, new) /\ new.group = leader'
        /\ leader' = IF leader = None THEN fd ELSE leader
  BY DEF Open
<1>2. /\ pc[Main] \in {"open", "reopen"} /\ pc' = [pc EXCEPT ![Main] = "id"]
      /\ UNCHANGED <<ids, ready, j>>
  BY DEF Open
<1>3. Opening /\ pc'[Main] = "id" /\ ~ready
  BY <1>2, MainAssumption DEF GroupInv, Types, ProcTypes, Before, Opening, OpeningAt
<1>4. fd \notin DOMAIN perf BY <1>1 DEF LowestFree
<1>5. /\ DOMAIN perf' = DOMAIN perf \cup {fd} /\ perf'[fd].group = leader'
      /\ \A f \in DOMAIN perf : perf'[f] = perf[f]
  BY <1>1, <1>4 DEF Opened
<1>6. leader' \in DOMAIN perf' BY <1>1, <1>3, <1>5 DEF TableInv
<1>7. \A k \in 1..(j - 1) : ids[k].fd \in DOMAIN perf
  BY <1>3 DEF GroupInv, OpenedSoFar
<1>8. \A k \in 1..(j' - 1) : perf'[ids'[k].fd].id = ids'[k].id
  BY <1>2, <1>3, <1>5, <1>7 DEF TableInv
<1>9. \A f \in DOMAIN perf' : perf'[f].group \in DOMAIN perf'
  BY <1>3, <1>5, <1>6 DEF TableInv, Opening, OpeningAt
<1> QED BY <1>2, <1>3, <1>6, <1>8, <1>9 DEF TableInv

LEMMA GetIdTable == GroupInv /\ TableInv /\ GetId => TableInv'
<1> SUFFICES ASSUME GroupInv, TableInv, GetId PROVE TableInv' OBVIOUS
<1> DEFINE fd == CHOOSE f \in DOMAIN perf : perf[f].event = j
<1>1. /\ pc[Main] = "id" /\ j' = j + 1
      /\ pc' = [pc EXCEPT ![Main] = IF j = NumEvents THEN "index" ELSE "open"]
      /\ ids' = [ids EXCEPT ![j] = [event |-> j, fd |-> fd, id |-> perf[fd].id]]
      /\ UNCHANGED <<perf, leader, ready>>
  BY DEF GetId, Goto, kernel
<1>2. Opening /\ ~ready /\ j \in Events /\ j \in Nat /\ pc'[Main] # "closed"
  BY <1>1, MainAssumption
     DEF GroupInv, Types, GroupTypes, ProcTypes, Before, OpenedSoFar, Opening, OpeningAt
<1> HIDE DEF fd
<1>3. /\ \A k \in Events : k # j => ids'[k] = ids[k]
      /\ ids'[j].fd = fd /\ ids'[j].id = perf[fd].id
  BY <1>1, <1>2 DEF GroupInv, Types, GroupTypes
<1>4. \A k \in 1..(j' - 1) : perf'[ids'[k].fd].id = ids'[k].id
  <2> SUFFICES ASSUME NEW k \in 1..j PROVE perf[ids'[k].fd].id = ids'[k].id
    BY <1>1, <1>2
  <2>1. CASE k = j BY <1>3, <2>1
  <2>2. CASE k # j
    <3>1. k \in Events /\ k \in 1..(j - 1) BY <1>2, <2>2, EventsFacts
    <3> QED BY <1>2, <1>3, <2>2, <3>1 DEF TableInv
  <2> QED BY <2>1, <2>2
<1>5. pc[Main] # "closed" BY <1>1
<1> QED BY <1>1, <1>2, <1>4, <1>5 DEF TableInv

LEMMA IndexTable == GroupInv /\ TableInv /\ Index => TableInv'
<1> SUFFICES ASSUME GroupInv, TableInv, Index PROVE TableInv' OBVIOUS
<1>1. /\ pc[Main] = "index" /\ pc' = [p \in Procs |-> "idle"]
      /\ UNCHANGED <<perf, leader, j>>
  BY DEF Index, kernel
<1>2. PICK order \in SortedOrders : ids' = [k \in Events |-> ids[order[k]]]
  BY DEF Index
<1>3. /\ order \in [Events -> Events]
      /\ \A a, b \in Events : order[a] = order[b] => a = b
      /\ \A a, b \in Events : a < b => ids[order[a]].id <= ids[order[b]].id
  <2>1. order \in Injection(Events, Events) BY <1>2 DEF SortedOrders, Bijection
  <2>2. order \in [Events -> Events] /\ \A a, b \in Events : order[a] = order[b] => a = b
    BY <2>1 DEF Injection, IsInjective
  <2> QED BY <1>2, <2>2 DEF SortedOrders
<1>4. Opening /\ pc'[Main] = "idle" /\ ~Opening'
  BY <1>1, MainAssumption DEF Opening, OpeningAt
<1>5. \A k \in Events : /\ ids[k].fd \in DOMAIN perf /\ ids[k].event = k
                        /\ perf[ids[k].fd].event = k /\ perf[ids[k].fd].id = ids[k].id
  <2>1. j = NumEvents + 1 BY <1>1, <1>4 DEF GroupInv, OpenedSoFar
  <2>2. j - 1 = NumEvents BY <2>1, EventsFacts
  <2>3. 1..(j - 1) = Events BY <2>2 DEF Events
  <2> QED BY <1>1, <1>4, <2>3 DEF GroupInv, OpenedSoFar, Before, TableInv
<1>6. \A k \in Events : ids'[k] = ids[order[k]] /\ order[k] \in Events
  BY <1>2, <1>3
<1>7. \A k \in Events : /\ ids'[k].fd \in DOMAIN perf
                        /\ perf[ids'[k].fd].id = ids'[k].id
                        /\ perf[ids'[k].fd].event = ids'[k].event
  BY <1>5, <1>6
<1>8. ASSUME NEW a \in Events, NEW b \in Events, a < b PROVE ids'[a].id < ids'[b].id
  <2>1. a # b BY <1>8, EventsFacts
  <2>2. order[a] # order[b] BY <1>3, <2>1
  <2>3. ids[order[a]].id # ids[order[b]].id
    BY <1>5, <1>6, <2>2 DEF GroupInv, Distinct
  <2>4. ids[order[a]].id \in Nat /\ ids[order[b]].id \in Nat
    BY <1>6 DEF GroupInv, Types, GroupTypes, Descriptors
  <2>5. ids[order[a]].id < ids[order[b]].id BY <1>3, <1>8, <2>3, <2>4
  <2> QED BY <1>6, <2>5
<1>9. \A f \in DOMAIN perf : perf[f].group \in DOMAIN perf
  BY <1>1 DEF TableInv
<1> QED BY <1>1, <1>4, <1>7, <1>8, <1>9 DEF TableInv

\* Once init() has returned, the kernel's events and the table of them stay.
LEMMA TableStays ==
  ASSUME GroupInv, GroupInv', TableInv, ~Opening,
         UNCHANGED <<ids, ready>>, pc'[Main] = "closed" <=> pc[Main] = "closed", ~Opening',
         DOMAIN perf' = DOMAIN perf,
         \A f \in DOMAIN perf : /\ perf'[f].event = perf[f].event
                                /\ perf'[f].group = perf[f].group /\ perf'[f].id = perf[f].id
  PROVE  TableInv'
BY DEF TableInv

LEMMA TableStep == GroupInv /\ GroupInv' /\ TableInv /\ [Next]_vars => TableInv'
<1> SUFFICES ASSUME GroupInv, GroupInv', TableInv, [Next]_vars PROVE TableInv' OBVIOUS
<1>1. CASE UNCHANGED vars \/ Finished
  <2>1. UNCHANGED <<perf, leader, ids, ready, j, pc>>
    BY <1>1 DEF Finished, vars, kernel, group
  <2> QED BY <2>1 DEF TableInv, Opening
<1>2. CASE Open \/ GetId \/ Index
  BY <1>2, OpenTable, GetIdTable, IndexTable
<1>3. CASE OpenAlone
  <2>1. /\ pc[Main] = "open" /\ pc' = [pc EXCEPT ![Main] = "reopen"] /\ leader' = None
        /\ UNCHANGED <<perf, ids, ready, j>>
    BY <1>3 DEF OpenAlone, Goto, kernel
  <2>2. Opening /\ pc[Main] # "closed" BY <2>1 DEF Opening, OpeningAt
  <2>3. ~ready BY <2>2 DEF GroupInv, Before
  <2> QED BY <2>1, <2>2, <2>3 DEF TableInv
<1>4. CASE InitFails
  <2>1. /\ pc[Main] \in {"open", "reopen", "id"} /\ pc' = [p \in Procs |-> "idle"]
        /\ UNCHANGED <<perf, ids, ready, j, leader>>
    BY <1>4 DEF InitFails, kernel, group
  <2>2. Opening /\ ~Opening' /\ pc[Main] # "closed"
    BY <2>1, MainAssumption DEF Opening, OpeningAt
  <2>3. ~ready BY <2>2 DEF GroupInv, Before
  <2> QED BY <2>1, <2>2, <2>3 DEF TableInv
<1>5. CASE Close
  <2>1. pc'[Main] = "closed" /\ UNCHANGED <<ids, ready>>
    BY <1>5, MainAssumption DEF Close, group
  <2>2. ~Opening' BY <2>1 DEF Opening, OpeningAt
  <2> QED BY <2>1, <2>2 DEF TableInv
<1>6. ASSUME NEW p \in Procs, Session(p) PROVE TableInv'
  <2>0. Types BY DEF GroupInv
  <2>1. ~Opening BY <1>6, <2>0, SessionProc DEF GroupInv, Before
  <2>2. ~Opening' /\ (pc'[Main] = "closed" <=> pc[Main] = "closed")
    <3>1. CASE p = Main
      BY <1>6, <2>0, <3>1, SessionProc DEF Opening, SessionAt, OpeningAt
    <3>2. CASE p # Main
      BY <1>6, <2>0, <2>1, <3>2, SessionProc, MainAssumption DEF Opening
    <3> QED BY <3>1, <3>2
  <2>3. /\ UNCHANGED <<ids, ready>> /\ DOMAIN perf' = DOMAIN perf
        /\ \A f \in DOMAIN perf : /\ perf'[f].event = perf[f].event
                                  /\ perf'[f].group = perf[f].group /\ perf'[f].id = perf[f].id
    BY <1>6, <2>0, SessionKernel DEF group
  <2> QED BY <2>1, <2>2, <2>3, TableStays
<1>7. ASSUME NEW p \in Procs, NEW e \in Events, Tick(p, e) PROVE TableInv'
  <2>1. /\ UNCHANGED <<ids, ready, leader, j, pc>> /\ DOMAIN perf' = DOMAIN perf
        /\ \A f \in DOMAIN perf : /\ perf'[f].event = perf[f].event
                                  /\ perf'[f].group = perf[f].group /\ perf'[f].id = perf[f].id
    BY <1>7, TickKernel DEF GroupInv, group
  <2>2. Opening' = Opening BY <2>1 DEF Opening
  <2>3. CASE Opening
    <3>1. ~ready BY <2>3 DEF GroupInv, Before
    <3>2. \A k \in 1..(j - 1) : ids[k].fd \in DOMAIN perf
      BY <2>3 DEF GroupInv, OpenedSoFar
    <3>3. \A k \in 1..(j - 1) : perf'[ids[k].fd].id = ids[k].id
      BY <2>1, <2>3, <3>2 DEF TableInv
    <3>4. pc[Main] # "closed" => \A f \in DOMAIN perf' : perf'[f].group \in DOMAIN perf'
      BY <2>1 DEF TableInv
    <3>5. leader # None => leader \in DOMAIN perf' BY <2>1, <2>3 DEF TableInv
    <3> QED BY <2>1, <2>2, <3>1, <3>3, <3>4, <3>5 DEF TableInv
  <2>4. CASE ~Opening BY <2>1, <2>2, <2>4, TableStays
  <2> QED BY <2>3, <2>4
<1> QED BY <1>1, <1>2, <1>3, <1>4, <1>5, <1>6, <1>7 DEF Next

-----------------------------------------------------------------------------
(***************************************************************************)
(* std::lower_bound finds an id that is there, by induction on the length  *)
(* of what is left to search: each number that is a counterexample would   *)
(* have a smaller one.                                                     *)
(***************************************************************************)
LEMMA LeastElement ==
  ASSUME NEW T \in SUBSET Nat, T # {}
  PROVE  \E n \in T : \A m \in T : n <= m
<1> DEFINE R == {ss \in Nat \X Nat : ss[1] < ss[2]}
<1>1. IsWellFoundedOn(R, Nat)
  BY NatLessThanWellFounded DEF OpToRel
<1>2. PICK n \in T : \A m \in T : <<m, n>> \notin R
  BY <1>1, WFMin
<1>3. ASSUME NEW m \in T PROVE n <= m
  <2>1. ~(m < n) BY <1>2
  <2> QED BY <2>1
<1> QED BY <1>3

\* A search halves its window until it is at the place: or at the end of the
\* window that is nearer to it.
LEMMA LowerBoundFinds ==
  ASSUME NEW k \in Events,
         \A a \in Events : ids[a].id < ids[k].id <=> a < k
  PROVE  LowerBound(ids[k].id) = k
<1> DEFINE id == ids[k].id
           Search(lb) == [w \in Windows |->
             IF w[2] = 0 THEN w[1]
             ELSE IF ids[w[1] + w[2] \div 2].id < id
                  THEN lb[<<w[1] + w[2] \div 2 + 1, w[2] - w[2] \div 2 - 1>>]
                  ELSE lb[<<w[1], w[2] \div 2>>]]
           Near(w) == IF k < w[1] THEN w[1] ELSE IF k > w[1] + w[2] THEN w[1] + w[2] ELSE k
           near == [w \in Windows |-> Near(w)]
           lb == CHOOSE f : f = Search(f)
<1>0. NumEvents \in Nat /\ NumEvents > 0 /\ k \in Nat /\ 1 <= k /\ k <= NumEvents
  BY NumEventsAssumption DEF Events
<1>1. LowerBound(id) = lb[<<1, NumEvents>>]
  BY DEF LowerBound
<1>2. ASSUME NEW w \in Windows
      PROVE  /\ w = <<w[1], w[2]>> /\ w[1] \in Nat /\ w[2] \in Nat /\ 1 <= w[1]
             /\ w[1] + w[2] <= NumEvents + 1
             /\ w[2] # 0 => LET half == w[2] \div 2 IN
                  /\ half \in Nat /\ half < w[2] /\ w[1] + half \in Events
                  /\ <<w[1] + half + 1, w[2] - half - 1>> \in Windows
                  /\ <<w[1], half>> \in Windows
  <2>1. PICK a \in 1..(NumEvents + 1), n \in 0..NumEvents :
          w = <<a, n>> /\ a + n <= NumEvents + 1
    BY DEF Windows
  <2>2. n # 0 => LET half == n \div 2 IN
                  /\ half \in Nat /\ half < n /\ a + half \in Events
                  /\ <<a + half + 1, n - half - 1>> \in Windows
                  /\ <<a, half>> \in Windows
    <3> SUFFICES ASSUME n # 0
                 PROVE  LET half == n \div 2 IN
                  /\ half \in Nat /\ half < n /\ a + half \in Events
                  /\ <<a + half + 1, n - half - 1>> \in Windows
                  /\ <<a, half>> \in Windows
      OBVIOUS
    <3> DEFINE half == n \div 2
    <3>1. half \in Nat /\ half < n BY <1>0
    <3> HIDE DEF half
    <3>2. /\ a + half + 1 \in 1..(NumEvents + 1) /\ n - half - 1 \in 0..NumEvents
          /\ half \in 0..NumEvents /\ a + half \in Events
      BY <1>0, <2>1, <3>1 DEF Events
    <3> QED BY <1>0, <2>1, <3>1, <3>2 DEF Windows, half
  <2> QED BY <1>0, <2>1, <2>2
<1>3. near = Search(near)
  <2> SUFFICES ASSUME NEW w \in Windows PROVE near[w] = Search(near)[w]
    OBVIOUS
  <2> DEFINE half == w[2] \div 2
  <2>1. CASE w[2] = 0
    <3>1. near[w] = Near(w) OBVIOUS
    <3>2. Search(near)[w] = w[1] BY <2>1
    <3>3. w[1] \in Nat /\ w[2] \in Nat /\ w[1] + w[2] <= NumEvents + 1 BY <1>2
    <3> HIDE DEF near, Search
    <3> QED BY <1>0, <2>1, <3>1, <3>2, <3>3
  <2>2. CASE w[2] # 0
    <3>1. /\ half \in Nat /\ half < w[2] /\ w[1] + half \in Events
          /\ <<w[1] + half + 1, w[2] - half - 1>> \in Windows
          /\ <<w[1], half>> \in Windows
      BY <1>2, <2>2
    <3>2. w[1] \in Nat /\ w[2] \in Nat BY <1>2
    <3>3. ids[w[1] + half].id < id <=> w[1] + half < k BY <3>1
    <3>4. near[w] = Near(w) OBVIOUS
    <3>5. near[<<w[1] + half + 1, w[2] - half - 1>>] = Near(<<w[1] + half + 1, w[2] - half - 1>>)
      BY <3>1
    <3>6. near[<<w[1], half>>] = Near(<<w[1], half>>) BY <3>1
    <3>7. Search(near)[w] = IF ids[w[1] + half].id < id
                  THEN near[<<w[1] + half + 1, w[2] - half - 1>>]
                  ELSE near[<<w[1], half>>]
      BY <2>2
    <3> HIDE DEF near, half, id, Search
    <3> QED BY <1>0, <3>1, <3>2, <3>3, <3>4, <3>5, <3>6, <3>7
  <2> QED BY <2>1, <2>2
<1>4. lb = Search(lb)
  <2> HIDE DEF near, Search
  <2> QED BY <1>3
<1>5. \A w \in Windows : lb[w] = Near(w)
  <2> DEFINE T == {n \in Nat : \E w \in Windows : w[2] = n /\ lb[w] # Near(w)}
  <2> SUFFICES ASSUME T # {} PROVE FALSE
    BY <1>2
  <2>1. PICK n \in T : \A m \in T : n <= m BY LeastElement
  <2>2. PICK w \in Windows : w[2] = n /\ lb[w] # Near(w) BY <2>1
  <2>3. \A v \in Windows : v[2] < n => lb[v] = Near(v)
    <3> SUFFICES ASSUME NEW v \in Windows, v[2] < n, lb[v] # Near(v) PROVE FALSE
      OBVIOUS
    <3>1. v[2] \in Nat BY <1>2
    <3>2. v[2] \in T BY <3>1
    <3>3. n \in Nat /\ n <= v[2] BY <2>1, <3>2
    <3> HIDE DEF T
    <3> QED BY <3>1, <3>3
  <2> HIDE DEF T, lb
  <2> DEFINE half == w[2] \div 2
  <2>4. lb[w] = IF w[2] = 0 THEN w[1]
                ELSE IF ids[w[1] + half].id < id
                  THEN lb[<<w[1] + half + 1, w[2] - half - 1>>]
                  ELSE lb[<<w[1], half>>]
    BY <1>4
  <2>5. w[1] \in Nat /\ w[2] \in Nat BY <1>2
  <2>6. CASE w[2] = 0 BY <1>0, <2>2, <2>4, <2>5, <2>6
  <2>7. CASE w[2] # 0
    <3>1. /\ half \in Nat /\ half < w[2] /\ w[1] + half \in Events
          /\ <<w[1] + half + 1, w[2] - half - 1>> \in Windows
          /\ <<w[1], half>> \in Windows
      BY <1>2, <2>7
    <3>2. ids[w[1] + half].id < id <=> w[1] + half < k BY <3>1
    <3> HIDE DEF half, id, Search
    <3>3. lb[<<w[1] + half + 1, w[2] - half - 1>>] = Near(<<w[1] + half + 1, w[2] - half - 1>>)
      BY <2>2, <2>3, <2>5, <3>1
    <3>4. lb[<<w[1], half>>] = Near(<<w[1], half>>)
      BY <2>2, <2>3, <2>5, <3>1
    <3> QED BY <1>0, <2>2, <2>4, <2>5, <2>7, <3>1, <3>2, <3>3, <3>4
  <2> QED BY <2>6, <2>7
<1>6. <<1, NumEvents>> \in Windows BY <1>0 DEF Windows
<1> HIDE DEF lb
<1> QED BY <1>0, <1>1, <1>5, <1>6

\* A search for a descriptor's id comes to where the descriptor is.
LEMMA FoundWhereItIs ==
  ASSUME GroupInv, TableInv, ready, NEW k \in Events
  PROVE  LowerBound(ids[k].id) = k
<1>1. \A a \in Events : ids[a].id \in Nat BY DEF GroupInv, Types, GroupTypes, Descriptors
<1>2. ASSUME NEW a \in Events PROVE ids[a].id < ids[k].id <=> a < k
  <2>1. CASE a < k BY <2>1 DEF TableInv
  <2>2. CASE a = k BY <1>1, <2>2, EventsFacts
  <2>3. CASE k < a
    <3>1. ids[k].id < ids[a].id BY <2>3 DEF TableInv
    <3>2. ids[k].id \in Nat /\ ids[a].id \in Nat /\ k \in Int /\ a \in Int
      BY <1>1, EventsFacts
    <3> QED BY <2>3, <3>1, <3>2
  <2> QED BY <2>1, <2>2, <2>3, EventsFacts
<1> QED BY <1>2, LowerBoundFinds

\* A message stores a group's counts where its events' descriptors are, and
\* nothing anywhere else.
LEMMA StoredOfGroup ==
  ASSUME GroupInv, TableInv, ready, pc[Main] # "closed", NEW old, NEW lead, NEW k \in Events
  PROVE  /\ perf[ids[k].fd].group = lead
              => Stored(old, Message(lead))[k] = perf[ids[k].fd].count
         /\ perf[ids[k].fd].group # lead => Stored(old, Message(lead))[k] = old[k]
<1> DEFINE f == ids[k].fd
           msg == Message(lead)
           Fits(m) == LowerBound(m.id) = k /\ ids[k].id = m.id
<1>1. f \in DOMAIN perf /\ perf[f].id = ids[k].id BY DEF TableInv
<1>2. Stored(old, msg)[k] = IF \E m \in msg : Fits(m) THEN (CHOOSE m \in msg : Fits(m)).count
                                                      ELSE old[k]
  BY DEF Stored
<1>3. ASSUME NEW m \in msg, Fits(m) PROVE perf[f].group = lead /\ m.count = perf[f].count
  <2>1. PICK g \in Members(lead) : m = [id |-> perf[g].id, count |-> perf[g].count]
    BY DEF Message
  <2>2. g \in DOMAIN perf /\ perf[g].group = lead BY DEF Members
  <2>3. perf[g].id = perf[f].id BY <1>1, <1>3, <2>1
  <2>4. g = f BY <1>1, <2>2, <2>3 DEF GroupInv, Distinct
  <2> QED BY <2>1, <2>2, <2>4
<1>4. ASSUME perf[f].group = lead PROVE \E m \in msg : Fits(m)
  <2> DEFINE m == [id |-> perf[f].id, count |-> perf[f].count]
  <2>1. m \in msg BY <1>1, <1>4 DEF Message, Members
  <2>2. Fits(m) BY <1>1, FoundWhereItIs
  <2> QED BY <2>1, <2>2
<1> HIDE DEF Fits, msg
<1>5. CASE perf[f].group = lead
  <2> DEFINE m == CHOOSE n \in msg : Fits(n)
  <2>1. m \in msg /\ Fits(m) BY <1>4, <1>5
  <2>2. Stored(old, msg)[k] = m.count BY <1>2, <1>4, <1>5
  <2> HIDE DEF m
  <2> QED BY <1>3, <1>5, <2>1, <2>2 DEF msg
<1>6. CASE perf[f].group # lead BY <1>2, <1>3, <1>6 DEF msg
<1> QED BY <1>5, <1>6

-----------------------------------------------------------------------------
(***************************************************************************)
(* A section, while its calls work: a group that a loop of start() is past *)
(* is reset, or enabled; what it counts has been counted since start() and *)
(* is all of what was measured, and a value that was read is that.         *)
(***************************************************************************)
At(places) == pc[Main] \in places
Passed(f)  == \E n \in 1..Len(leaders) : leaders[n] = perf[f].group /\ n < i[Main]

EventsCover ==
  \A f \in DOMAIN perf : LET e == perf[f].event IN
    /\ (At({"reset"}) /\ Passed(f)) \/ At({"enable", "measuring", "disable", "read"})
         => perf[f].count <= hi[Main][e]
    /\ (At({"enable"}) /\ Passed(f)) \/ At({"measuring"}) => perf[f].on
    /\ At({"measuring", "disable", "read"}) => lo[Main][e] <= perf[f].count

ValuesCover ==
  \A k \in Events : LET e == ids[k].event IN
    (At({"read"}) /\ Passed(ids[k].fd)) \/ At({"record"})
      => lo[Main][e] <= value[Main][k] /\ value[Main][k] <= hi[Main][e]

Bounds == lo \in [Procs -> [Events -> Nat]] /\ hi \in [Procs -> [Events -> Nat]]

CoverInv ==
  /\ Bounds
  /\ Opening => sample[Main] = << >>
  /\ At({"reset", "enable"}) => lo[Main] = Zero
  /\ ready /\ clean[Main] => EventsCover /\ ValuesCover
  /\ SamplesCover

LEMMA CoverInitial == Procs = {Main} /\ Init => CoverInv
<1> SUFFICES ASSUME Procs = {Main}, Init PROVE CoverInv OBVIOUS
<1>1. /\ ~ready /\ pc = [p \in Procs |-> IF p = Main THEN "open" ELSE "unborn"]
      /\ sample = [p \in Procs |-> << >>]
      /\ lo = [p \in Procs |-> Zero] /\ hi = [p \in Procs |-> Zero]
  BY DEF Init
<1>2. Bounds BY <1>1 DEF Bounds, Zero
<1>3. sample[Main] = << >> /\ pc[Main] = "open" BY <1>1
<1> QED BY <1>1, <1>2, <1>3 DEF CoverInv, SamplesCover, At

\* Nothing is claimed of a section a call of which has failed.
LEMMA CoverFailed ==
  ASSUME Bounds', ~Opening', At({"reset", "enable"})' => lo'[Main] = Zero,
         ready' => ~clean'[Main], SamplesCover'
  PROVE  CoverInv'
BY DEF CoverInv

LEMMA SamplesStay ==
  ASSUME SamplesCover, UNCHANGED <<sample, ready>>
  PROVE  SamplesCover'
BY DEF SamplesCover, Samples

\* A loop that ends is past every group.
LEMMA LoopPassed ==
  ASSUME GroupInv, QuietInv, i[Main] > Len(leaders), NEW f \in DOMAIN perf
  PROVE  Passed(f)
<1>1. PICK n \in 1..Len(leaders) : leaders[n] = perf[f].group BY DEF QuietInv, Leads
<1>2. Len(leaders) \in Nat /\ i[Main] \in Nat
  BY MainAssumption DEF GroupInv, Types, GroupTypes, ProcTypes
<1>3. n < i[Main] BY <1>2
<1> QED BY <1>1, <1>3 DEF Passed

\* start(): each group is reset, then each is enabled.
LEMMA StartCovers ==
  ASSUME GroupInv, QuietInv, TableInv, CoverInv, Procs = {Main},
         Start(Main) \/ Reset(Main) \/ ResetEnds(Main) \/ Enable(Main) \/ EnableEnds(Main)
           \/ StartFails(Main)
  PROVE  CoverInv'
<1>0. /\ Types /\ Session(Main) /\ leaders \in Seq(Nat) /\ Len(leaders) \in Nat
      /\ pc \in [Procs -> SessionAt \cup OpeningAt \cup {"unborn", "closed"}]
      /\ i \in [Procs -> Nat] /\ clean \in [Procs -> BOOLEAN] /\ DOMAIN sample = Procs
      /\ i[Main] \in Nat
  BY DEF GroupInv, Types, GroupTypes, ProcTypes, Session
<1>1. /\ UNCHANGED <<leaders, ids, ready>> /\ DOMAIN perf' = DOMAIN perf
      /\ \A f \in DOMAIN perf : /\ perf[f] \in PerfEvents /\ perf'[f] \in PerfEvents
                                /\ perf'[f].event = perf[f].event
                                /\ perf'[f].group = perf[f].group
                                /\ perf'[f].count <= perf[f].count
  BY <1>0, SessionKernel DEF group, Types, KernelTypes
<1>2. ~Opening /\ ~Opening'
  BY <1>0, SessionProc DEF GroupInv, Before, Opening, SessionAt, OpeningAt
<1>3. CASE Start(Main)
  <2>1. /\ pc'[Main] = "reset" /\ i'[Main] = 1 /\ sample'[Main] = << >>
        /\ lo' = [lo EXCEPT ![Main] = Zero] /\ hi' = [hi EXCEPT ![Main] = Zero]
    BY <1>0, <1>3 DEF Start, Goto
  <2>2. Bounds' /\ lo'[Main] = Zero
    <3>1. Zero \in [Events -> Nat] BY DEF Zero
    <3> QED BY <2>1, <3>1 DEF CoverInv, Bounds
  <2>3. \A f : ~Passed(f)' BY <2>1 DEF Passed
  <2>4. EventsCover' /\ ValuesCover' BY <2>1, <2>3 DEF EventsCover, ValuesCover, At
  <2>5. SamplesCover' BY <2>1 DEF SamplesCover, Samples
  <2> QED BY <1>2, <2>2, <2>4, <2>5 DEF CoverInv
<1>4. CASE Reset(Main)
  <2>1. /\ pc[Main] = "reset" /\ i'[Main] = i[Main] + 1
        /\ perf' = ForGroup(leaders[i[Main]], ResetCount)
        /\ UNCHANGED <<pc, sample, lo, hi, clean>>
    BY <1>0, <1>4 DEF Reset, ForLeader, snap, truth
  <2>2. SamplesCover' BY <1>1, <2>1, SamplesStay DEF CoverInv
  <2>3. Bounds' /\ lo'[Main] = Zero BY <2>1 DEF CoverInv, Bounds, At
  <2>4. ASSUME ready, clean[Main], NEW f \in DOMAIN perf, Passed(f)'
        PROVE  perf'[f].count <= hi[Main][perf[f].event]
    <3>1. PICK n \in 1..Len(leaders) : leaders[n] = perf[f].group /\ n < i[Main] + 1
      BY <1>1, <2>1, <2>4 DEF Passed
    <3>2. CASE n = i[Main]
      <4>1. perf'[f] = [perf[f] EXCEPT !.count = 0]
        BY <2>1, <3>1, <3>2 DEF ForGroup, Members, ResetCount
      <4>2. perf'[f].count = 0 BY <1>1, <4>1 DEF PerfEvents
      <4>3. perf[f].event \in Events BY <1>1 DEF PerfEvents
      <4>4. hi[Main][perf[f].event] \in Nat BY <4>3 DEF CoverInv, Bounds
      <4> QED BY <4>2, <4>4
    <3>3. CASE n # i[Main]
      <4>1. n < i[Main] BY <1>0, <3>1, <3>3
      <4>2. Passed(f) BY <3>1, <4>1 DEF Passed
      <4>3. perf[f].count <= hi[Main][perf[f].event]
        BY <2>1, <2>4, <4>2 DEF CoverInv, EventsCover, At
      <4>4. perf[f].event \in Events /\ perf[f].count \in Nat /\ perf'[f].count \in Nat
        BY <1>1 DEF PerfEvents
      <4>5. hi[Main][perf[f].event] \in Nat BY <4>4 DEF CoverInv, Bounds
      <4> QED BY <1>1, <4>3, <4>4, <4>5
    <3> QED BY <3>2, <3>3
  <2>5. ready /\ clean[Main] => EventsCover' /\ ValuesCover'
    BY <1>1, <2>1, <2>4 DEF EventsCover, ValuesCover, At
  <2> QED BY <1>1, <1>2, <2>1, <2>2, <2>3, <2>5 DEF CoverInv
<1>5. CASE ResetEnds(Main)
  <2>1. /\ pc[Main] = "reset" /\ pc'[Main] = "enable" /\ i'[Main] = 1 /\ i[Main] > Len(leaders)
        /\ UNCHANGED <<perf, sample, lo, hi, clean>>
    BY <1>0, <1>5 DEF ResetEnds, LoopEnds, Goto, kernel, snap, truth
  <2>2. SamplesCover' BY <1>1, <2>1, SamplesStay DEF CoverInv
  <2>3. Bounds' /\ lo'[Main] = Zero BY <2>1 DEF CoverInv, Bounds, At
  <2>4. \A f : ~Passed(f)' BY <2>1 DEF Passed
  <2>5. ASSUME ready, clean[Main], NEW f \in DOMAIN perf
        PROVE  perf[f].count <= hi[Main][perf[f].event]
    <3>1. Passed(f) BY <2>1, LoopPassed
    <3> QED BY <2>1, <2>5, <3>1 DEF CoverInv, EventsCover, At
  <2>6. ready /\ clean[Main] => EventsCover' /\ ValuesCover'
    BY <2>1, <2>4, <2>5 DEF EventsCover, ValuesCover, At
  <2> QED BY <1>1, <1>2, <2>1, <2>2, <2>3, <2>6 DEF CoverInv
<1>6. CASE Enable(Main)
  <2>1. /\ pc[Main] = "enable" /\ i'[Main] = i[Main] + 1
        /\ perf' = ForGroup(leaders[i[Main]], Enabled)
        /\ UNCHANGED <<pc, sample, lo, hi, clean>>
    BY <1>0, <1>6 DEF Enable, ForLeader, snap, truth
  <2>2. SamplesCover' BY <1>1, <2>1, SamplesStay DEF CoverInv
  <2>3. Bounds' /\ lo'[Main] = Zero BY <2>1 DEF CoverInv, Bounds, At
  <2>4. ASSUME NEW f \in DOMAIN perf
        PROVE  /\ perf'[f].count = perf[f].count
               /\ perf[f].on \/ perf[f].group = leaders[i[Main]] => perf'[f].on
    <3>1. \/ perf'[f] = perf[f] /\ perf[f].group # leaders[i[Main]]
          \/ perf'[f] = [perf[f] EXCEPT !.on = TRUE]
      BY <2>1, <2>4 DEF ForGroup, Members, Enabled
    <3> QED BY <1>1, <3>1 DEF PerfEvents
  <2>5. ASSUME ready, clean[Main], NEW f \in DOMAIN perf, Passed(f)' PROVE perf'[f].on
    <3>1. PICK n \in 1..Len(leaders) : leaders[n] = perf[f].group /\ n < i[Main] + 1
      BY <1>1, <2>1, <2>5 DEF Passed
    <3>2. CASE n = i[Main] BY <2>4, <3>1, <3>2
    <3>3. CASE n # i[Main]
      <4>1. n < i[Main] BY <1>0, <3>1, <3>3
      <4>2. Passed(f) BY <3>1, <4>1 DEF Passed
      <4>3. perf[f].on BY <2>1, <2>5, <4>2 DEF CoverInv, EventsCover, At
      <4> QED BY <2>4, <4>3
    <3> QED BY <3>2, <3>3
  <2>6. ready /\ clean[Main] => EventsCover' /\ ValuesCover'
    BY <1>1, <2>1, <2>4, <2>5 DEF CoverInv, EventsCover, ValuesCover, At
  <2> QED BY <1>1, <1>2, <2>1, <2>2, <2>3, <2>6 DEF CoverInv
<1>7. CASE EnableEnds(Main)
  <2>1. /\ pc[Main] = "enable" /\ pc'[Main] = "measuring" /\ i[Main] > Len(leaders)
        /\ UNCHANGED <<perf, sample, lo, hi, clean>>
    BY <1>0, <1>7 DEF EnableEnds, LoopEnds, Goto, kernel, snap, truth
  <2>2. SamplesCover' BY <1>1, <2>1, SamplesStay DEF CoverInv
  <2>3. Bounds' /\ lo[Main] = Zero BY <2>1 DEF CoverInv, Bounds, At
  <2>4. ASSUME ready, clean[Main], NEW f \in DOMAIN perf
        PROVE  /\ perf[f].count <= hi[Main][perf[f].event] /\ perf[f].on
               /\ lo[Main][perf[f].event] <= perf[f].count
    <3>1. Passed(f) BY <2>1, LoopPassed
    <3>2. perf[f].count \in Nat /\ lo[Main][perf[f].event] = 0
      BY <1>1, <2>3 DEF PerfEvents, Zero
    <3> QED BY <2>1, <2>4, <3>1, <3>2 DEF CoverInv, EventsCover, At
  <2>5. ready /\ clean[Main] => EventsCover' /\ ValuesCover'
    BY <2>1, <2>4 DEF EventsCover, ValuesCover, At
  <2> QED BY <1>1, <1>2, <2>1, <2>2, <2>3, <2>5 DEF CoverInv, At
<1>8. CASE StartFails(Main)
  <2>1. /\ pc'[Main] = "measuring" /\ clean'[Main] = FALSE /\ UNCHANGED <<sample, lo, hi>>
    BY <1>0, <1>8 DEF StartFails, CallFails, Goto, snap
  <2>2. SamplesCover' BY <1>1, <2>1, SamplesStay DEF CoverInv
  <2>3. Bounds' BY <2>1 DEF CoverInv, Bounds
  <2> QED BY <1>2, <2>1, <2>2, <2>3, CoverFailed DEF At
<1> QED BY <1>3, <1>4, <1>5, <1>6, <1>7, <1>8

\* stop(), to where it reads: what the groups count is what they counted.
LEMMA StopCovers ==
  ASSUME GroupInv, QuietInv, TableInv, CoverInv, Procs = {Main},
         Stop(Main) \/ Disable(Main) \/ DisableEnds(Main) \/ StopFails(Main)
  PROVE  CoverInv'
<1>0. /\ Types /\ Session(Main)
      /\ pc \in [Procs -> SessionAt \cup OpeningAt \cup {"unborn", "closed"}]
      /\ i \in [Procs -> Nat] /\ clean \in [Procs -> BOOLEAN]
  BY DEF GroupInv, Types, ProcTypes, Session
<1>1. /\ UNCHANGED <<leaders, ids, ready>> /\ DOMAIN perf' = DOMAIN perf
      /\ \A f \in DOMAIN perf : perf[f] \in PerfEvents /\ perf'[f].event = perf[f].event
  BY <1>0, SessionKernel DEF group, Types, KernelTypes
<1>2. ~Opening /\ ~Opening'
  BY <1>0, SessionProc DEF GroupInv, Before, Opening, SessionAt, OpeningAt
<1>3. CASE StopFails(Main)
  <2>1. /\ pc'[Main] = "record" /\ clean'[Main] = FALSE /\ UNCHANGED <<sample, lo, hi>>
    BY <1>0, <1>3 DEF StopFails, CallFails, Goto, snap
  <2>2. SamplesCover' BY <1>1, <2>1, SamplesStay DEF CoverInv
  <2>3. Bounds' BY <2>1 DEF CoverInv, Bounds
  <2> QED BY <1>2, <2>1, <2>2, <2>3, CoverFailed DEF At
<1>4. CASE Stop(Main) \/ Disable(Main) \/ DisableEnds(Main)
  <2>1. /\ pc[Main] \in {"measuring", "disable"} /\ pc'[Main] \in {"disable", "read"}
        /\ pc'[Main] = "read" => i'[Main] = 1
        /\ UNCHANGED <<sample, lo, hi, clean>>
    <3>1. CASE Stop(Main) BY <1>0, <3>1 DEF Stop, Goto, snap, truth
    <3>2. CASE Disable(Main) BY <3>2 DEF Disable, ForLeader, snap, truth
    <3>3. CASE DisableEnds(Main) BY <1>0, <3>3 DEF DisableEnds, LoopEnds, Goto, snap, truth
    <3> QED BY <1>4, <3>1, <3>2, <3>3
  <2>2. \A f \in DOMAIN perf : perf'[f].count = perf[f].count
    <3>1. CASE Disable(Main)
      <4>1. \A f \in DOMAIN perf : perf'[f] \in {perf[f], [perf[f] EXCEPT !.on = FALSE]}
        BY <3>1 DEF Disable, ForLeader, ForGroup, Disabled
      <4> QED BY <1>1, <4>1 DEF PerfEvents
    <3>2. CASE Stop(Main) \/ DisableEnds(Main)
      <4>1. perf' = perf BY <3>2 DEF Stop, DisableEnds, LoopEnds, kernel
      <4> QED BY <4>1
    <3> QED BY <1>4, <3>1, <3>2
  <2>3. SamplesCover' BY <1>1, <2>1, SamplesStay DEF CoverInv
  <2>4. Bounds' BY <2>1 DEF CoverInv, Bounds
  <2>5. pc'[Main] = "read" => \A f : ~Passed(f)' BY <2>1 DEF Passed
  <2>6. ready /\ clean[Main] => EventsCover'
    BY <1>1, <2>1, <2>2 DEF CoverInv, EventsCover, At
  <2>7. ValuesCover' BY <2>1, <2>5 DEF ValuesCover, At
  <2> QED BY <1>1, <1>2, <2>1, <2>3, <2>4, <2>6, <2>7 DEF CoverInv, At
<1> QED BY <1>3, <1>4

\* stop(), from there: the values are what the groups count.
LEMMA ReadCovers ==
  ASSUME GroupInv, QuietInv, TableInv, CoverInv, Procs = {Main},
         Read(Main) \/ ReadFails(Main) \/ ReadEnds(Main)
  PROVE  CoverInv'
<1>0. /\ Types /\ Session(Main)
      /\ pc \in [Procs -> SessionAt \cup OpeningAt \cup {"unborn", "closed"}]
      /\ i \in [Procs -> Nat] /\ i[Main] \in Nat /\ clean \in [Procs -> BOOLEAN]
      /\ value \in [Procs -> [Events -> Int]]
  BY DEF GroupInv, Types, ProcTypes, Session
<1>1. /\ pc[Main] = "read" /\ pc'[Main] \in {"read", "record"}
      /\ UNCHANGED <<perf, leaders, ids, ready, sample, lo, hi>>
  BY <1>0 DEF Read, ReadFails, ReadEnds, LoopEnds, Goto, kernel, group, snap, truth
<1>2. ~Opening' BY <1>1 DEF Opening, OpeningAt
<1>3. SamplesCover' BY <1>1, SamplesStay DEF CoverInv
<1>4. Bounds' BY <1>1 DEF CoverInv, Bounds
<1>5. CASE ReadFails(Main)
  <2>1. clean'[Main] = FALSE BY <1>0, <1>5 DEF ReadFails
  <2> QED BY <1>1, <1>2, <1>3, <1>4, <2>1, CoverFailed DEF At
<1>6. CASE Read(Main) \/ ReadEnds(Main)
  <2>1. clean' = clean BY <1>6 DEF Read, ReadEnds, LoopEnds, truth
  <2>2. ready /\ clean[Main] => EventsCover'
    BY <1>1 DEF CoverInv, EventsCover, At
  <2>3. ASSUME ready, clean[Main], NEW k \in Events,
               pc'[Main] = "read" => Passed(ids[k].fd)'
        PROVE  /\ lo[Main][ids[k].event] <= value'[Main][k]
               /\ value'[Main][k] <= hi[Main][ids[k].event]
    <3> DEFINE f == ids[k].fd
    <3>1. f \in DOMAIN perf /\ perf[f].event = ids[k].event
      BY <1>1, <2>3 DEF TableInv
    <3>2. CASE Read(Main)
      <4> DEFINE lead == leaders[i[Main]]
      <4>1. /\ value'[Main] = Stored(value[Main], Message(lead))
            /\ i'[Main] = i[Main] + 1 /\ pc' = pc
        BY <1>0, <3>2 DEF Read
      <4>2. CASE perf[f].group = lead
        <5>1. value'[Main][k] = perf[f].count
          BY <1>1, <2>3, <4>1, <4>2, StoredOfGroup
        <5> QED BY <1>1, <2>3, <3>1, <5>1 DEF CoverInv, EventsCover, At
      <4>3. CASE perf[f].group # lead
        <5>1. value'[Main][k] = value[Main][k]
          BY <1>1, <2>3, <4>1, <4>3, StoredOfGroup
        <5>2. PICK n \in 1..Len(leaders) : leaders[n] = perf[f].group /\ n < i[Main] + 1
          BY <1>1, <2>3, <4>1 DEF Passed
        <5>3. n < i[Main] BY <1>0, <4>3, <5>2
        <5>4. Passed(f) BY <5>2, <5>3 DEF Passed
        <5> QED BY <1>1, <2>3, <5>1, <5>4 DEF CoverInv, ValuesCover, At
      <4> QED BY <4>2, <4>3
    <3>3. CASE ReadEnds(Main)
      <4>1. i[Main] > Len(leaders) /\ value' = value
        BY <3>3 DEF ReadEnds, LoopEnds
      <4>2. Passed(f) BY <3>1, <4>1, LoopPassed
      <4> QED BY <1>1, <2>3, <4>1, <4>2 DEF CoverInv, ValuesCover, At
    <3> QED BY <1>6, <3>2, <3>3
  <2>4. ready /\ clean[Main] => ValuesCover'
    BY <1>1, <2>3 DEF ValuesCover, At
  <2> QED BY <1>1, <1>2, <1>3, <1>4, <2>1, <2>2, <2>4 DEF CoverInv, At
<1> QED BY <1>5, <1>6

\* The sample has, of each event, the value at the place of its descriptor.
LEMMA RecordCovers ==
  ASSUME GroupInv, QuietInv, TableInv, CoverInv, Procs = {Main}, Record(Main)
  PROVE  CoverInv'
<1> DEFINE vals == [e \in Events |-> value[Main][CHOOSE k \in Events : ids[k].event = e]]
           s == [vals |-> vals, lo |-> lo[Main], hi |-> hi[Main], upTo |-> tick,
                 clean |-> clean[Main]]
<1>0. /\ pc \in [Procs -> SessionAt \cup OpeningAt \cup {"unborn", "closed"}]
      /\ DOMAIN sample = Procs
  BY DEF GroupInv, Types, ProcTypes
<1>1. /\ pc[Main] = "record" /\ pc'[Main] = "idle"
      /\ lo' = [lo EXCEPT ![Main] = Zero] /\ hi' = [hi EXCEPT ![Main] = Zero]
      /\ sample' = sample \/ sample' = [sample EXCEPT ![Main] = <<s>>]
      /\ UNCHANGED <<perf, ids, ready, clean>>
  BY <1>0 DEF Record, Goto, kernel, group
<1>2. ~Opening' BY <1>1 DEF Opening, OpeningAt
<1>3. Bounds'
  <2>1. Zero \in [Events -> Nat] BY DEF Zero
  <2> QED BY <1>1, <2>1 DEF CoverInv, Bounds
<1>4. EventsCover' /\ ValuesCover' BY <1>1 DEF EventsCover, ValuesCover, At
<1>5. ASSUME ready, clean[Main], NEW e \in Events
      PROVE  vals[e] # MAX /\ lo[Main][e] <= vals[e] /\ vals[e] <= hi[Main][e]
  <2> DEFINE k == CHOOSE n \in Events : ids[n].event = e
  <2>1. \E n \in Events : ids[n].event = e BY DEF GroupInv, OwnIds
  <2>2. k \in Events /\ ids[k].event = e BY <2>1
  <2>3. vals[e] = value[Main][k] OBVIOUS
  <2> HIDE DEF k, vals
  <2>4. lo[Main][e] <= vals[e] /\ vals[e] <= hi[Main][e]
    BY <1>1, <1>5, <2>2, <2>3 DEF CoverInv, ValuesCover, At
  <2>5. lo[Main][e] \in Nat BY DEF CoverInv, Bounds
  <2>6. value[Main][k] \in Int BY <2>2 DEF GroupInv, Types, ProcTypes
  <2> QED BY <2>3, <2>4, <2>5, <2>6 DEF MAX
<1>6. s.vals = vals /\ s.lo = lo[Main] /\ s.hi = hi[Main] /\ s.clean = clean[Main]
  OBVIOUS
<1>7. Samples' \subseteq Samples \cup {s}
  <2>1. <<s>>[1] = s OBVIOUS
  <2> HIDE DEF s
  <2> QED BY <1>0, <1>1, <2>1 DEF Samples
<1> HIDE DEF s, vals
<1>8. SamplesCover'
  BY <1>1, <1>5, <1>6, <1>7 DEF CoverInv, SamplesCover
<1> QED BY <1>1, <1>2, <1>3, <1>4, <1>8 DEF CoverInv, At

\* An event that occurs in a section is counted in it, if its group is enabled.
LEMMA TickCovers ==
  ASSUME GroupInv, TableInv, CoverInv, Procs = {Main}, NEW e \in Events, Tick(Main, e)
  PROVE  CoverInv'
<1>0. Types BY DEF GroupInv
<1>1. /\ UNCHANGED <<leaders, ids, ready, pc, i, value, sample, clean>>
      /\ DOMAIN perf' = DOMAIN perf
      /\ \A f \in DOMAIN perf :
           /\ perf[f].event \in Events /\ perf[f].count \in Nat
           /\ perf'[f].event = perf[f].event /\ perf'[f].group = perf[f].group
           /\ perf'[f].on = perf[f].on
           /\ \/ perf'[f].count = perf[f].count
              \/ perf[f].event = e /\ perf'[f].count = perf[f].count + 1
  BY <1>0, TickKernel DEF group, locals, snap, Types, KernelTypes, PerfEvents
<1>2. /\ lo' = IF pc[Main] = "measuring" THEN [lo EXCEPT ![Main][e] = @ + 1] ELSE lo
      /\ hi' = IF InSection(Main) THEN [hi EXCEPT ![Main][e] = @ + 1] ELSE hi
  BY DEF Tick
<1>3. lo \in [Procs -> [Events -> Nat]] /\ hi \in [Procs -> [Events -> Nat]]
  BY DEF CoverInv, Bounds
<1>4. /\ lo' \in [Procs -> [Events -> Nat]] /\ hi' \in [Procs -> [Events -> Nat]]
      /\ pc[Main] # "measuring" => lo' = lo
      /\ \A d \in Events : /\ d # e => lo'[Main][d] = lo[Main][d] /\ hi'[Main][d] = hi[Main][d]
                           /\ InSection(Main) => hi'[Main][e] = hi[Main][e] + 1
                           /\ hi[Main][d] <= hi'[Main][d]
                           /\ pc[Main] = "measuring" => lo'[Main][e] = lo[Main][e] + 1
  BY <1>2, <1>3, MainAssumption
<1>5. \A d \in Events : /\ lo[Main][d] \in Nat /\ lo'[Main][d] \in Nat
                        /\ hi[Main][d] \in Nat /\ hi'[Main][d] \in Nat
  BY <1>3, <1>4, MainAssumption
<1>6. SamplesCover' BY <1>1, SamplesStay DEF CoverInv
<1>7. ASSUME ready, clean[Main], NEW f \in DOMAIN perf
      PROVE  LET d == perf[f].event IN
             /\ (At({"reset"}) /\ Passed(f)) \/ At({"enable", "measuring", "disable", "read"})
                  => perf'[f].count <= hi'[Main][d]
             /\ At({"measuring", "disable", "read"}) => lo'[Main][d] <= perf'[f].count
  <2> DEFINE d == perf[f].event
  <2>1. /\ d \in Events /\ perf[f].count \in Nat
        /\ \/ perf'[f].count = perf[f].count
           \/ d = e /\ perf'[f].count = perf[f].count + 1
    BY <1>1
  <2>2. /\ (At({"reset"}) /\ Passed(f)) \/ At({"enable", "measuring", "disable", "read"})
             => perf[f].count <= hi[Main][d]
        /\ At({"measuring"}) => perf[f].on
        /\ At({"measuring", "disable", "read"}) => lo[Main][d] <= perf[f].count
    BY <1>7 DEF CoverInv, EventsCover
  <2>3. At({"reset", "enable", "measuring", "disable", "read"}) => InSection(Main)
    BY DEF At, InSection
  <2>4. ASSUME (At({"reset"}) /\ Passed(f)) \/ At({"enable", "measuring", "disable", "read"})
        PROVE  perf'[f].count <= hi'[Main][d]
    <3>1. perf[f].count <= hi[Main][d] /\ InSection(Main)
      BY <2>2, <2>3, <2>4 DEF At
    <3> HIDE DEF d
    <3> QED BY <1>4, <1>5, <2>1, <3>1
  <2>5. ASSUME At({"disable", "read"}) PROVE lo'[Main][d] <= perf'[f].count
    <3>1. lo[Main][d] <= perf[f].count /\ lo' = lo BY <1>4, <2>2, <2>5 DEF At
    <3> HIDE DEF d
    <3> QED BY <1>5, <2>1, <3>1
  <2>6. ASSUME At({"measuring"}) PROVE lo'[Main][d] <= perf'[f].count
    <3>1. lo[Main][d] <= perf[f].count BY <2>2, <2>6 DEF At
    <3>2. CASE d = e
      <4>1. perf[f].group \in DOMAIN perf BY <2>6 DEF At, TableInv
      <4>2. Counts(f) BY <1>7, <2>6, <4>1 DEF Counts, CoverInv, EventsCover
      <4>3. perf'[f] = [perf[f] EXCEPT !.count = @ + 1] BY <3>2, <4>2 DEF Tick
      <4>4. perf[f] \in PerfEvents BY <1>0 DEF Types, KernelTypes
      <4>5. perf'[f].count = perf[f].count + 1 BY <4>3, <4>4 DEF PerfEvents
      <4>6. lo'[Main][e] = lo[Main][e] + 1 BY <1>4, <2>6 DEF At
      <4> QED BY <1>5, <2>1, <3>1, <3>2, <4>5, <4>6
    <3>3. CASE d # e
      <4>1. lo'[Main][d] = lo[Main][d] BY <1>4, <2>1, <3>3
      <4> QED BY <2>1, <3>1, <3>3, <4>1
    <3> QED BY <3>2, <3>3
  <2> QED BY <2>4, <2>5, <2>6 DEF At
<1>8. \A f \in DOMAIN perf : Passed(f)' <=> Passed(f)
  BY <1>1 DEF Passed
<1>9. ready /\ clean[Main] => EventsCover'
  <2> SUFFICES ASSUME ready, clean[Main], NEW f \in DOMAIN perf
               PROVE  LET d == perf[f].event IN
                /\ (At({"reset"}) /\ Passed(f)) \/ At({"enable", "measuring", "disable", "read"})
                     => perf'[f].count <= hi'[Main][d]
                /\ (At({"enable"}) /\ Passed(f)) \/ At({"measuring"}) => perf'[f].on
                /\ At({"measuring", "disable", "read"}) => lo'[Main][d] <= perf'[f].count
    BY <1>1, <1>8 DEF EventsCover, At
  <2>1. (At({"enable"}) /\ Passed(f)) \/ At({"measuring"}) => perf'[f].on
    BY <1>1 DEF CoverInv, EventsCover
  <2>2. LET d == perf[f].event IN
        /\ (At({"reset"}) /\ Passed(f)) \/ At({"enable", "measuring", "disable", "read"})
             => perf'[f].count <= hi'[Main][d]
        /\ At({"measuring", "disable", "read"}) => lo'[Main][d] <= perf'[f].count
    BY <1>7
  <2> QED BY <2>1, <2>2
<1>10. ready /\ clean[Main] => ValuesCover'
  <2> SUFFICES ASSUME ready, clean[Main], NEW k \in Events,
                      (At({"read"}) /\ Passed(ids[k].fd)) \/ At({"record"})
               PROVE  /\ lo'[Main][ids[k].event] <= value[Main][k]
                      /\ value[Main][k] <= hi'[Main][ids[k].event]
    <3>1. \A k \in Events : At({"read"}) /\ ready => ids[k].fd \in DOMAIN perf
      BY DEF At, TableInv
    <3>2. ids' = ids /\ pc' = pc /\ value' = value /\ ready' = ready BY <1>1
    <3>3. \A k \in Events : At({"read"}) /\ ready => (Passed(ids[k].fd)' <=> Passed(ids[k].fd))
      BY <1>1, <3>1, <3>2 DEF Passed
    <3> QED BY <3>2, <3>3 DEF ValuesCover, At
  <2>2. /\ lo[Main][ids[k].event] <= value[Main][k]
        /\ value[Main][k] <= hi[Main][ids[k].event]
    BY DEF CoverInv, ValuesCover
  <2>3. lo' = lo BY <1>4 DEF At
  <2>4. ids[k].event \in Events /\ value[Main][k] \in Int
    BY <1>0, MainAssumption DEF Types, GroupTypes, ProcTypes, Descriptors
  <2> QED BY <1>4, <1>5, <2>2, <2>3, <2>4
<1>11. At({"reset", "enable"})' => lo'[Main] = Zero
  BY <1>1, <1>4 DEF CoverInv, At
<1>12. Opening' => sample'[Main] = << >> BY <1>1 DEF CoverInv, Opening
<1> QED BY <1>1, <1>4, <1>6, <1>9, <1>10, <1>11, <1>12 DEF CoverInv, Bounds

LEMMA CoverStep ==
  GroupInv /\ QuietInv /\ TableInv /\ CoverInv /\ Procs = {Main} /\ [Next]_vars => CoverInv'
<1> SUFFICES ASSUME GroupInv, QuietInv, TableInv, CoverInv, Procs = {Main}, [Next]_vars
             PROVE  CoverInv'
  OBVIOUS
<1>0. pc \in [Procs -> SessionAt \cup OpeningAt \cup {"unborn", "closed"}]
      /\ DOMAIN sample = Procs
  BY DEF GroupInv, Types, ProcTypes
<1>1. CASE UNCHANGED vars \/ Finished
  <2>1. UNCHANGED <<perf, leaders, ids, ready, pc, i, value, sample, lo, hi, clean>>
    BY <1>1 DEF Finished, vars, kernel, group, locals, snap, truth
  <2>2. SamplesCover' BY <2>1, SamplesStay DEF CoverInv
  <2>3. ready /\ clean[Main] => EventsCover' /\ ValuesCover'
    BY <2>1 DEF CoverInv, EventsCover, ValuesCover, At, Passed
  <2> QED BY <2>1, <2>2, <2>3 DEF CoverInv, Bounds, Opening, At
<1>2. CASE Open \/ OpenAlone \/ InitFails \/ GetId \/ Index
  <2>1. /\ Opening /\ pc'[Main] \in {"open", "reopen", "id", "index", "idle"}
        /\ UNCHANGED <<sample, lo, hi>>
    BY <1>0, <1>2 DEF Open, OpenAlone, InitFails, GetId, Index, Goto, Opening, OpeningAt,
                      snap, truth
  <2>2. Samples' = {} /\ sample'[Main] = << >>
    BY <2>1 DEF CoverInv, Samples
  <2>3. SamplesCover' BY <2>2 DEF SamplesCover
  <2>4. EventsCover' /\ ValuesCover' BY <2>1 DEF EventsCover, ValuesCover, At
  <2> QED BY <2>1, <2>2, <2>3, <2>4 DEF CoverInv, Bounds, At
<1>3. CASE Close
  <2>1. pc'[Main] = "closed" /\ UNCHANGED <<sample, ready, lo, hi>>
    BY <1>3 DEF Close, group, snap, truth
  <2>2. SamplesCover' BY <2>1, SamplesStay DEF CoverInv
  <2>3. EventsCover' /\ ValuesCover' BY <2>1 DEF EventsCover, ValuesCover, At
  <2> QED BY <2>1, <2>2, <2>3 DEF CoverInv, Bounds, At, Opening, OpeningAt
<1>4. ASSUME NEW p \in Procs, Session(p) PROVE CoverInv'
  <2>1. p = Main OBVIOUS
  <2> QED BY <1>4, <2>1, StartCovers, StopCovers, ReadCovers, RecordCovers DEF Session
<1>5. ASSUME NEW p \in Procs, NEW e \in Events, Tick(p, e) PROVE CoverInv'
  <2>1. p = Main OBVIOUS
  <2> QED BY <1>5, <2>1, TickCovers
<1> QED BY <1>1, <1>2, <1>3, <1>4, <1>5 DEF Next

(***************************************************************************)
(* A sample of a process that shares its events with no other covers its   *)
(* section: for any number of events, in however many groups.              *)
(***************************************************************************)
THEOREM SamplesCovered == ASSUME Procs = {Main} PROVE Spec => []SamplesCover
<1>1. CoverInv => SamplesCover BY DEF CoverInv
<1>2. GroupInv /\ QuietInv /\ TableInv /\ CoverInv /\ [Next]_vars => CoverInv'
  BY CoverStep
<1>3. Init => CoverInv BY CoverInitial
<1> QED BY <1>1, <1>2, <1>3, GroupInvariant, QuietInitial, QuietStep, TableInitial, TableStep,
           PTL DEF Spec

(***************************************************************************)
(* And then no sample misses a part of its section, whatever else the      *)
(* process did before: what cuts sections is only that others share the    *)
(* Snapshot, as the children of testMemoryMap.cpp do.                      *)
(***************************************************************************)
THEOREM SectionsWhole == ASSUME Procs = {Main} PROVE Spec => []SectionNotCut
<1>1. SamplesCover => SectionNotCut BY DEF SamplesCover, SectionNotCut
<1> QED BY <1>1, SamplesCovered, PTL
=============================================================================
