--------------------------- MODULE PoolAllocator ----------------------------
(***************************************************************************)
(* retail_allocator over a block allocator (libs/Allocators.h): banks of   *)
(* items of one size each.  A bank hands out the items on its free list,   *)
(* which is threaded through the first word of the free items themselves,  *)
(* then the rest of its current block, then asks for a new block.          *)
(* Addresses are numbers, Null is 0.  The event counters nobody reads are  *)
(* left out.                                                               *)
(***************************************************************************)
EXTENDS Integers, FiniteSets, Functions, StdMap

CONSTANTS PageSize,     \* large_page_size
          PointerSize,  \* sizeof(void*)
          NumBanks,     \* 64 in the code
          AddressBits,  \* bits of size_t
          ArenaPages,   \* bound: pages the operating system has
          Requests,     \* sizes n * sizeof(T) the containers ask for
          Kinds,        \* block allocators under test
          MayFail       \* "map", "madvise"

Null == 0
Junk == -1    \* what a client or nobody wrote

Larger(a, b) == IF a > b THEN a ELSE b

BU == INSTANCE BitUtils WITH Width <- AddressBits, Mantissa <- AddressBits

ASSUME SizesAssumption ==
  /\ PageSize \in Nat \ {0} /\ PointerSize \in Nat \ {0}
  /\ NumBanks \in Nat /\ AddressBits \in Nat \ {0} /\ ArenaPages \in Nat
\* What a request needs is a size_t.
ASSUME WordsAssumption == Requests \subseteq BU!Words /\ PointerSize \in BU!Words

RoundSize(n, size) == ((n - 1) \div size + 1) * size

\* The bytes a request needs, its bank, and the size of the items of a bank.
Bytes(n) == Larger(PointerSize, n)

BankOf(n) == BU!ILog2(1, Bytes(n))

\* Mutant of Size: the lower end of the range of the bank.
SizeOfBase(bank) == Larger(PointerSize, BU!IRange2(1, bank).base)

Size(bank) ==
  LET range == BU!IRange2(1, bank)
  IN  Larger(PointerSize, range.base + range.range)

\* The array of pools has no bank for a larger request.
ASSUME RequestsAssumption == \A n \in Requests : BankOf(n) < NumBanks

Banks == {BankOf(n) : n \in Requests}

VARIABLES kind,       \* the block allocator
          head,       \* for each bank: the first free item
          spaceptr,   \* for each bank: where its block goes on
          spaceleft,  \* for each bank: how many bytes of it are left
          word,       \* the first word of every item carved so far
          blocks,     \* the block allocator's vector of blocks
          mapped,     \* the blocks the operating system has given
          live,       \* the bytes each item in use was allocated for
          exited      \* std::exit(1) was called

pool == <<head, spaceptr, spaceleft>>
vars == <<kind, head, spaceptr, spaceleft, word, blocks, mapped, live, exited>>

InEveryBank(x) == [b \in Banks |-> x]

Init ==
  /\ kind \in Kinds
  /\ head = InEveryBank(Null) /\ spaceptr = InEveryBank(Null) /\ spaceleft = InEveryBank(0)
  /\ word = <<>>
  /\ blocks = {} /\ mapped = {}
  /\ live = <<>>
  /\ exited = FALSE

-----------------------------------------------------------------------------
(***************************************************************************)
(* The operating system gives any pages that are free.                     *)
(***************************************************************************)
Block(ptr, size) == [ptr |-> ptr, size |-> size]

FreePages(size) ==
  {p \in {PageSize * k : k \in 1..ArenaPages} :
     /\ p + size <= PageSize * (ArenaPages + 1)
     /\ \A m \in mapped : p + size <= m.ptr \/ m.ptr + m.size <= p}

Handed(n, p) == live' = With(live, p, n)

\* memory_pool::alloc() with an item on the free list.
Reuse(n) ==
  LET b == BankOf(n)
      p == head[b]
  IN  /\ ~exited
      /\ p # Null
      /\ head' = [head EXCEPT ![b] = word[p]]
      /\ Handed(n, p)
      /\ UNCHANGED <<kind, spaceptr, spaceleft, word, blocks, mapped, exited>>

\* The next item of the block, whose first word holds whatever was there.
TakeFrom(n, ptr, left) ==
  LET b == BankOf(n)
  IN  /\ spaceptr' = [spaceptr EXCEPT ![b] = ptr + Size(b)]
      /\ spaceleft' = [spaceleft EXCEPT ![b] = left - Size(b)]
      /\ word' = With(word, ptr, Junk)
      /\ Handed(n, ptr)

\* Mutant of Carve: the block is never used up.
CarveKeepsLeft(n) ==
  /\ ~exited
  /\ head[BankOf(n)] = Null
  /\ spaceleft[BankOf(n)] >= Size(BankOf(n))
  /\ TakeFrom(n, spaceptr[BankOf(n)], spaceleft[BankOf(n)] + Size(BankOf(n)))
  /\ UNCHANGED <<kind, head, blocks, mapped, exited>>

Carve(n) ==
  /\ ~exited
  /\ head[BankOf(n)] = Null
  /\ spaceleft[BankOf(n)] >= Size(BankOf(n))
  /\ TakeFrom(n, spaceptr[BankOf(n)], spaceleft[BankOf(n)])
  /\ UNCHANGED <<kind, head, blocks, mapped, exited>>

NeedsBlock(n) ==
  /\ ~exited
  /\ head[BankOf(n)] = Null
  /\ spaceleft[BankOf(n)] < Size(BankOf(n))

\* Mutant of NewBlock: the block is not pushed to the vector.
NewBlockUnrecorded(n) ==
  LET size == RoundSize(Size(BankOf(n)), PageSize)
  IN  /\ NeedsBlock(n)
      /\ \E p \in FreePages(size) :
           /\ mapped' = mapped \cup {Block(p, size)}
           /\ TakeFrom(n, p, size)
      /\ UNCHANGED <<kind, head, blocks, exited>>

NewBlock(n) ==
  LET size == RoundSize(Size(BankOf(n)), PageSize)
  IN  /\ NeedsBlock(n)
      /\ \E p \in FreePages(size) :
           /\ mapped' = mapped \cup {Block(p, size)}
           /\ blocks' = blocks \cup {Block(p, size)}
           /\ TakeFrom(n, p, size)
      /\ UNCHANGED <<kind, head, exited>>

\* The block allocator throws bad_alloc: the pool is as it was.
MapFails(n) ==
  /\ "map" \in MayFail
  /\ kind # "standard"
  /\ NeedsBlock(n)
  /\ UNCHANGED vars

\* transparent_allocator has its memory, and throws before it records it.
MadviseFails(n) ==
  LET size == RoundSize(Size(BankOf(n)), PageSize)
  IN  /\ "madvise" \in MayFail
      /\ kind = "transparent"
      /\ NeedsBlock(n)
      /\ \E p \in FreePages(size) : mapped' = mapped \cup {Block(p, size)}
      /\ UNCHANGED <<kind, pool, word, blocks, live, exited>>

\* standard_allocator hands on what malloc() returned, and the pool exits.
MallocFails(n) ==
  LET b    == BankOf(n)
      size == RoundSize(Size(b), PageSize)
  IN  /\ "map" \in MayFail
      /\ kind = "standard"
      /\ NeedsBlock(n)
      /\ blocks' = blocks \cup {Block(Null, size)}
      /\ spaceleft' = [spaceleft EXCEPT ![b] = size]
      /\ spaceptr' = [spaceptr EXCEPT ![b] = Null]
      /\ exited' = TRUE
      /\ UNCHANGED <<kind, head, word, mapped, live>>

Allocate(n) ==
  Reuse(n) \/ Carve(n) \/ NewBlock(n) \/ MapFails(n) \/ MadviseFails(n) \/ MallocFails(n)

\* Mutant of Deallocate: the item forgets the list it is put in front of.
DeallocateUnlinked(p) ==
  LET b == BankOf(live[p])
  IN  /\ ~exited
      /\ head' = [head EXCEPT ![b] = p]
      /\ live' = Restrict(live, DOMAIN live \ {p})
      /\ UNCHANGED <<kind, spaceptr, spaceleft, word, blocks, mapped, exited>>

\* The container gives an item back with the size it had asked for.
Deallocate(p) ==
  LET b == BankOf(live[p])
  IN  /\ ~exited
      /\ word' = [word EXCEPT ![p] = head[b]]
      /\ head' = [head EXCEPT ![b] = p]
      /\ live' = Restrict(live, DOMAIN live \ {p})
      /\ UNCHANGED <<kind, spaceptr, spaceleft, blocks, mapped, exited>>

\* The container uses its item, the first word included.
Use(p) ==
  /\ ~exited
  /\ word' = [word EXCEPT ![p] = Junk]
  /\ UNCHANGED <<kind, pool, blocks, mapped, live, exited>>

(***************************************************************************)
(* The last copy of the allocator goes, after its containers: the blocks   *)
(* are given back.  Another allocator then starts afresh.                  *)
(***************************************************************************)
Destroy ==
  /\ ~exited
  /\ live = <<>>
  /\ mapped' = mapped \ blocks
  /\ blocks' = {}
  /\ word' = <<>>
  /\ head' = InEveryBank(Null) /\ spaceptr' = InEveryBank(Null) /\ spaceleft' = InEveryBank(0)
  /\ UNCHANGED <<kind, live, exited>>

Next ==
  \/ \E n \in Requests : Allocate(n)
  \/ \E p \in DOMAIN live : Deallocate(p) \/ Use(p)
  \/ Destroy

Spec == Init /\ [][Next]_vars

-----------------------------------------------------------------------------
Carved == DOMAIN word
(***************************************************************************)
(* The allocator keeps the promise of Heap: what the containers asked for  *)
(* never overlaps, with items carved, freed and reused in any order and    *)
(* with sizes that share a bank.                                           *)
(***************************************************************************)
Extents == {[from |-> p, to |-> p + Bytes(live[p]) - 1] : p \in DOMAIN live}

H == INSTANCE Heap WITH extents <- Extents

ImplementsHeap == H!Spec

(***************************************************************************)
(* What a container uses lies inside one block the operating system gave   *)
(* and has not been given back: the last item of a block does not run over *)
(* its end.                                                                *)
(***************************************************************************)
InsideBlocks ==
  \A e \in Extents : \E m \in mapped : m.ptr <= e.from /\ e.to < m.ptr + m.size

\* The k-th item of the free list of a bank, Null from its end on.
ItemOf(b, k) ==
  LET item[i \in Nat] ==
        IF i = 0 THEN head[b]
                 ELSE IF item[i - 1] \in Carved THEN word[item[i - 1]] ELSE item[i - 1]
  IN  item[k]

FreeItems(b) == {ItemOf(b, k) : k \in 0..Cardinality(Carved)} \ {Null}

(***************************************************************************)
(* The free lists are threaded through memory the containers wrote to, and *)
(* yet each ends with a null pointer, no item is in two of them, and they  *)
(* have the items that were carved and are not in use, all of them, so     *)
(* that the next request finds them: nothing a container writes is ever    *)
(* taken for a link, and no item is lost.                                  *)
(***************************************************************************)
FreeListsSound ==
  /\ \A b \in Banks :
       /\ ItemOf(b, Cardinality(Carved)) = Null
       /\ \A c \in Banks \ {b} : FreeItems(b) \cap FreeItems(c) = {}
  /\ UNION {FreeItems(b) : b \in Banks} = Carved \ DOMAIN live

(***************************************************************************)
(* Every block the operating system gave is in the vector from which the   *)
(* destructor gives it back.  transparent_allocator does not keep this     *)
(* when madvise() fails.                                                   *)
(***************************************************************************)
NothingLeaks == kind # "transparent" /\ ~exited => mapped = blocks
=============================================================================
