------------------------ MODULE PoolAllocatorProofs -------------------------
(***************************************************************************)
(* What the pools of libs/Allocators.h keep, for any page size, any sizes  *)
(* of requests and any blocks the operating system gives.  The proofs name *)
(* what the code does not store: the bank of every item carved, and the    *)
(* free list of every bank, as the items from the last to the first.       *)
(***************************************************************************)
EXTENDS PoolAllocator, FiniteSetTheorems, WellFoundedInduction, TLAPS

BP == INSTANCE BitUtilsProofs WITH Width <- AddressBits, Mantissa <- AddressBits

\* Two ranges of bytes have none in common.
Apart(a, s, b, t) == a + s <= b \/ b + t <= a

\* A range lies in a block that is mapped.
Inside(a, s) == \E m \in mapped : m.ptr <= a /\ a + s <= m.ptr + m.size

BlocksOk == \A m \in mapped : m.ptr \in Nat /\ m.ptr > 0 /\ m.size \in Nat

Types ==
  /\ head \in [Banks -> Int]
  /\ spaceptr \in [Banks -> Int] /\ spaceleft \in [Banks -> Int]
  /\ word \in [Carved -> Int] /\ IsFiniteSet(Carved)
  /\ \A p \in Carved : p \in Nat /\ p > 0
  /\ DOMAIN live \subseteq Carved
  /\ live \in [DOMAIN live -> Requests]
  /\ exited \in BOOLEAN
  /\ BlocksOk

\* No two items share a byte, and every item is in a block.
ItemsOk(owner) ==
  /\ \A p \in Carved : Inside(p, Size(owner[p]))
  /\ \A p, q \in Carved : p # q => Apart(p, Size(owner[p]), q, Size(owner[q]))
  /\ \A p \in DOMAIN live : BankOf(live[p]) = owner[p]

\* What is left of the current blocks is no item's and no other bank's.
SpacesOk(owner) ==
  ~exited =>
    \A b \in Banks : spaceleft[b] > 0 =>
      /\ spaceptr[b] > 0 /\ Inside(spaceptr[b], spaceleft[b])
      /\ \A p \in Carved : Apart(p, Size(owner[p]), spaceptr[b], spaceleft[b])
      /\ \A c \in Banks \ {b} : spaceleft[c] > 0 =>
           Apart(spaceptr[b], spaceleft[b], spaceptr[c], spaceleft[c])

\* The free list of bank b is free[b][len[b]], ..., free[b][1]; free[b][0] is its end.
ListsOk(owner, len, free) ==
  \A b \in Banks :
    /\ free[b][0] = Null /\ head[b] = free[b][len[b]]
    /\ \A i \in 1..len[b] :
         /\ free[b][i] \in Carved \ DOMAIN live
         /\ owner[free[b][i]] = b
         /\ word[free[b][i]] = free[b][i - 1]
    /\ \A i, j \in 1..len[b] : free[b][i] = free[b][j] => i = j

\* Every item is in use or free.
AllFound(owner, len, free) ==
  \A p \in Carved \ DOMAIN live : \E i \in 1..len[owner[p]] : free[owner[p]][i] = p

Owners == [Carved -> Banks]
Lengths == [Banks -> Nat]
Lists == [Banks -> [Nat -> Int]]

PoolInv ==
  /\ Types
  /\ \E owner \in Owners, len \in Lengths, free \in Lists :
       /\ ItemsOk(owner) /\ SpacesOk(owner)
       /\ ListsOk(owner, len, free) /\ AllFound(owner, len, free)

-----------------------------------------------------------------------------
(***************************************************************************)
(* Sizes.                                                                  *)
(***************************************************************************)
LEMMA SameBits ==
  /\ \A n : BU!ILog2(1, n) = BP!ILog2(1, n)
  /\ \A n : BU!IRange2(1, n) = BP!IRange2(1, n)
  /\ BU!Words = BP!Words
<1>1. \A S : BU!Cardinality(S) = BP!Cardinality(S)
  BY DEF BU!Cardinality, BP!Cardinality
<1>2. \A n : BU!ILog2(1, n) = BP!ILog2(1, n)
  BY <1>1 DEF BU!ILog2, BP!ILog2, BU!BitWidth, BP!BitWidth
<1>3. \A n : BU!IRange2(1, n) = BP!IRange2(1, n) BY DEF BU!IRange2, BP!IRange2
<1>4. BU!Words = BP!Words BY DEF BU!Words, BP!Words
<1> QED BY <1>2, <1>3, <1>4

\* The items of the bank of a request are as large as the request.
LEMMA ItemHoldsRequest ==
  ASSUME NEW n \in Requests
  PROVE  /\ Bytes(n) \in Nat /\ 1 <= Bytes(n)
         /\ BankOf(n) \in Banks
         /\ Size(BankOf(n)) \in Nat /\ Bytes(n) <= Size(BankOf(n))
<1> DEFINE m == Bytes(n)
           r == BU!IRange2(1, BankOf(n))
<1>1. n \in BU!Words /\ PointerSize \in BU!Words /\ PointerSize \in Nat \ {0}
  BY WordsAssumption, SizesAssumption
<1>2. m \in BU!Words /\ m \in {PointerSize, n} BY <1>1 DEF Bytes, Larger
<1>3. m \in Nat /\ 1 <= m /\ PointerSize <= m
  <2>1. n \in Nat BY <1>1 DEF BU!Words
  <2> QED BY <1>1, <2>1 DEF Bytes, Larger
<1>4. m \in BP!Words BY <1>2, SameBits
<1>5. AddressBits * 2^1 <= 2^AddressBits
  <2>1. 2^1 = 2
    <3>1. 2^(0 + 1) = 2 * 2^0 /\ 2^0 = 1 BY BP!NextPower, BP!NoPower, SizesAssumption
    <3> QED BY <3>1
  <2>2. 2 * AddressBits <= 2^AddressBits BY BP!TwiceFits, SizesAssumption
  <2> QED BY <2>1, <2>2, SizesAssumption
<1>6. r = BP!IRange2(1, BP!ILog2(1, m)) BY SameBits DEF BankOf
<1> HIDE DEF m
<1>7. r.base \in Nat /\ r.range \in Nat /\ m < r.base + r.range
  BY <1>4, <1>5, <1>6, BP!RangeOfBin, SizesAssumption
<1>8. Size(BankOf(n)) = Larger(PointerSize, r.base + r.range) BY DEF Size
<1> HIDE DEF r
<1>9. Size(BankOf(n)) \in Nat /\ m <= Size(BankOf(n))
  BY <1>1, <1>3, <1>7, <1>8 DEF Larger
<1>10. BankOf(n) \in Banks BY DEF Banks
<1> QED BY <1>3, <1>9, <1>10 DEF m

LEMMA SizeOfBank ==
  ASSUME NEW b \in Banks
  PROVE  Size(b) \in Nat /\ 1 <= Size(b)
<1>1. PICK n \in Requests : b = BankOf(n) BY DEF Banks
<1> QED BY <1>1, ItemHoldsRequest

\* A block has room for an item.
LEMMA BlockHoldsItem ==
  ASSUME NEW s \in Nat, 1 <= s
  PROVE  RoundSize(s, PageSize) \in Nat /\ s <= RoundSize(s, PageSize)
<1> DEFINE q == (s - 1) \div PageSize
           r == (s - 1) % PageSize
<1>0. PageSize \in Nat /\ PageSize > 0 BY SizesAssumption
<1>1. q \in Nat /\ r \in 0..(PageSize - 1) /\ s - 1 = (q * PageSize) + r
  <2>1. s - 1 \in Nat OBVIOUS
  <2> QED BY <1>0, <2>1, BP!Division, SizesAssumption
<1>2. RoundSize(s, PageSize) = (q + 1) * PageSize BY DEF RoundSize
<1> HIDE DEF q, r
<1>3. (q + 1) * PageSize = q * PageSize + PageSize /\ q * PageSize \in Nat BY <1>0, <1>1
<1> QED BY <1>0, <1>1, <1>2, <1>3

LEMMA TypedEntry ==
  ASSUME NEW S, NEW T, NEW f \in [S -> T], NEW k, NEW v \in T
  PROVE  With(f, k, v) \in [S \cup {k} -> T]
BY DEF With

-----------------------------------------------------------------------------
LEMMA PoolInitial == Init => PoolInv
<1> SUFFICES ASSUME Init PROVE PoolInv OBVIOUS
<1> DEFINE owner == [p \in {} |-> 0]
           len == [b \in Banks |-> 0]
           free == [b \in Banks |-> [i \in Nat |-> Null]]
<1>1. Carved = {} /\ DOMAIN live = {} /\ mapped = {} BY DEF Init, Carved
<1>2. Types
  <2>1. IsFiniteSet(Carved) BY <1>1, FS_EmptySet
  <2>2. \A b \in Banks : head[b] = 0 /\ spaceptr[b] = 0 /\ spaceleft[b] = 0
    BY DEF Init, InEveryBank, Null
  <2>3. head \in [Banks -> Int] /\ spaceptr \in [Banks -> Int] /\ spaceleft \in [Banks -> Int]
    BY DEF Init, InEveryBank, Null
  <2>4. word \in [Carved -> Int] /\ live \in [DOMAIN live -> Requests] BY <1>1 DEF Init
  <2>5. exited \in BOOLEAN BY DEF Init
  <2> QED BY <1>1, <2>1, <2>3, <2>4, <2>5 DEF Types, BlocksOk
<1>3. owner \in Owners /\ len \in Lengths /\ free \in Lists
  BY <1>1 DEF Owners, Lengths, Lists, Null
<1>4. ItemsOk(owner) BY <1>1 DEF ItemsOk
<1>5. SpacesOk(owner) BY DEF SpacesOk, Init, InEveryBank
<1>6. ListsOk(owner, len, free) BY DEF ListsOk, Init, InEveryBank
<1>7. AllFound(owner, len, free) BY <1>1 DEF AllFound
<1> HIDE DEF owner, len, free
<1> QED BY <1>2, <1>3, <1>4, <1>5, <1>6, <1>7 DEF PoolInv

\* A request takes the first item of the free list of its bank.
LEMMA ReuseKeeps ==
  ASSUME PoolInv, NEW n \in Requests, Reuse(n)
  PROVE  /\ PoolInv'
         /\ \E p \in Carved \ DOMAIN live :
              live' = With(live, p, n) /\ word' = word /\ Carved' = Carved /\ mapped' = mapped
<1> DEFINE b == BankOf(n)
           p == head[b]
<1>1. PICK owner \in Owners, len \in Lengths, free \in Lists :
        /\ ItemsOk(owner) /\ SpacesOk(owner)
        /\ ListsOk(owner, len, free) /\ AllFound(owner, len, free)
  BY DEF PoolInv
<1>2. /\ p # Null
      /\ head' = [head EXCEPT ![b] = word[p]]
      /\ live' = With(live, p, n)
      /\ spaceptr' = spaceptr /\ spaceleft' = spaceleft /\ word' = word
      /\ mapped' = mapped /\ exited' = exited /\ Carved' = Carved
  BY DEF Reuse, Handed, Carved
<1>3. b \in Banks BY ItemHoldsRequest
<1> HIDE DEF b
<1>4. len[b] \in Nat /\ free[b] \in [Nat -> Int] BY <1>3 DEF Lengths, Lists
<1>5. /\ free[b][0] = Null /\ p = free[b][len[b]]
      /\ \A i \in 1..len[b] :
           /\ free[b][i] \in Carved \ DOMAIN live
           /\ owner[free[b][i]] = b
           /\ word[free[b][i]] = free[b][i - 1]
      /\ \A i, j \in 1..len[b] : free[b][i] = free[b][j] => i = j
  BY <1>1, <1>3 DEF ListsOk
<1>6. len[b] > 0 BY <1>2, <1>4, <1>5
<1>7. p \in Carved \ DOMAIN live /\ owner[p] = b /\ word[p] = free[b][len[b] - 1]
  BY <1>4, <1>5, <1>6
<1>8. DOMAIN live' = DOMAIN live \cup {p} /\ live'[p] = n
      /\ \A q \in DOMAIN live : q # p => live'[q] = live[q]
  <2> HIDE DEF p
  <2> QED BY <1>2 DEF With
<1> DEFINE len2 == [len EXCEPT ![b] = len[b] - 1]
<1>9. len2 \in Lengths /\ len2[b] = len[b] - 1 /\ len2[b] \in Nat
      /\ \A c \in Banks : c # b => len2[c] = len[c]
  BY <1>3, <1>4, <1>6 DEF Lengths
<1>10. Types'
  <2>1. head' \in [Banks -> Int]
    <3>1. word[p] \in Int BY <1>7 DEF PoolInv, Types
    <3>2. head \in [Banks -> Int] BY DEF PoolInv, Types
    <3> QED BY <1>2, <1>3, <3>1, <3>2
  <2>2. live' \in [DOMAIN live' -> Requests]
    <3>1. live \in [DOMAIN live -> Requests] BY DEF PoolInv, Types
    <3>2. With(live, p, n) \in [DOMAIN live \cup {p} -> Requests] BY <3>1, TypedEntry
    <3> QED BY <1>2, <1>8, <3>2
  <2>3. DOMAIN live' \subseteq Carved' BY <1>2, <1>7, <1>8 DEF PoolInv, Types
  <2>4. BlocksOk' BY <1>2 DEF PoolInv, Types, BlocksOk
  <2> QED BY <1>2, <2>1, <2>2, <2>3, <2>4 DEF PoolInv, Types
<1>11. owner \in Owners' BY <1>2 DEF Owners
<1>12. ItemsOk(owner)'
  <2>1. \A q \in DOMAIN live' : BankOf(live'[q]) = owner[q]
    BY <1>1, <1>7, <1>8 DEF ItemsOk, b
  <2> QED BY <1>1, <1>2, <2>1 DEF ItemsOk, Inside
<1>13. SpacesOk(owner)' BY <1>1, <1>2 DEF SpacesOk, Inside
<1>14. ListsOk(owner, len2, free)'
  <2> SUFFICES ASSUME NEW c \in Banks
               PROVE  /\ free[c][0] = Null /\ head'[c] = free[c][len2[c]]
                      /\ \A i \in 1..len2[c] :
                           /\ free[c][i] \in Carved \ DOMAIN live'
                           /\ owner[free[c][i]] = c
                           /\ word[free[c][i]] = free[c][i - 1]
                      /\ \A i, j \in 1..len2[c] : free[c][i] = free[c][j] => i = j
    BY <1>2 DEF ListsOk
  <2>1. CASE c = b
    <3>1. head'[b] = free[b][len2[b]]
      <4>1. head \in [Banks -> Int] BY DEF PoolInv, Types
      <4> QED BY <1>2, <1>3, <1>7, <1>9, <4>1
    <3>2. \A i \in 1..len2[b] : i \in 1..len[b] /\ i # len[b] BY <1>4, <1>9
    <3>3. \A i \in 1..len2[b] : free[b][i] # p
      <4>1. len[b] \in 1..len[b] BY <1>4, <1>6
      <4> QED BY <1>5, <3>2, <4>1
    <3> HIDE DEF p, len2
    <3> QED BY <1>5, <1>8, <2>1, <3>1, <3>2, <3>3
  <2>2. CASE c # b
    <3>1. head'[c] = head[c]
      <4>1. head \in [Banks -> Int] BY DEF PoolInv, Types
      <4> QED BY <1>2, <2>2, <4>1
    <3>2. \A i \in 1..len[c] : free[c][i] # p
      BY <1>1, <1>7, <2>2 DEF ListsOk
    <3> HIDE DEF p, len2
    <3> QED BY <1>1, <1>8, <1>9, <2>2, <3>1, <3>2 DEF ListsOk
  <2> QED BY <2>1, <2>2
<1>15. AllFound(owner, len2, free)'
  <2> SUFFICES ASSUME NEW q \in Carved \ DOMAIN live'
               PROVE  \E i \in 1..len2[owner[q]] : free[owner[q]][i] = q
    BY <1>2 DEF AllFound
  <2>1. q \in Carved \ DOMAIN live /\ q # p BY <1>8
  <2>2. PICK i \in 1..len[owner[q]] : free[owner[q]][i] = q BY <1>1, <2>1 DEF AllFound
  <2>3. CASE owner[q] = b
    <3>1. i # len[b] BY <1>5, <2>1, <2>2, <2>3
    <3>2. i \in 1..len2[b] BY <1>4, <1>9, <2>2, <2>3, <3>1
    <3> QED BY <2>2, <2>3, <3>2
  <2>4. CASE owner[q] # b
    <3>1. owner[q] \in Banks BY <2>1 DEF Owners
    <3> QED BY <1>9, <2>2, <2>4, <3>1
  <2> QED BY <2>3, <2>4
<1>16. PoolInv'
  <2>1. len2 \in Lengths' /\ free \in Lists' BY <1>9 DEF Lengths, Lists
  <2> HIDE DEF len2
  <2> QED BY <1>10, <1>11, <1>12, <1>13, <1>14, <1>15, <2>1 DEF PoolInv
<1> QED BY <1>2, <1>7, <1>16

\* The next item of a block in which nothing else is, be it the old one or a new one.
LEMMA TakeKeeps ==
  ASSUME PoolInv, NEW n \in Requests, ~exited, head[BankOf(n)] = Null,
         NEW owner \in Owners, NEW len \in Lengths, NEW free \in Lists,
         ItemsOk(owner), SpacesOk(owner), ListsOk(owner, len, free), AllFound(owner, len, free),
         NEW ptr \in Nat, ptr > 0, NEW left \in Nat, Size(BankOf(n)) <= left,
         TakeFrom(n, ptr, left), head' = head, exited' = exited,
         mapped \subseteq mapped', BlocksOk', Inside(ptr, left)',
         \A p \in Carved : Apart(p, Size(owner[p]), ptr, left),
         \A c \in Banks \ {BankOf(n)} : spaceleft[c] > 0 =>
            Apart(ptr, left, spaceptr[c], spaceleft[c])
  PROVE  PoolInv' /\ ptr \notin Carved /\ live' = With(live, ptr, n)
<1> DEFINE b == BankOf(n)
           s == Size(b)
           owner2 == With(owner, ptr, b)
<1>1. b \in Banks /\ s \in Nat /\ 1 <= s BY ItemHoldsRequest, SizeOfBank
<1>2. /\ spaceptr' = [spaceptr EXCEPT ![b] = ptr + s]
      /\ spaceleft' = [spaceleft EXCEPT ![b] = left - s]
      /\ word' = With(word, ptr, Junk)
      /\ live' = With(live, ptr, n)
  BY DEF TakeFrom, Handed
<1>3. s <= left OBVIOUS
<1> HIDE DEF b, s
<1>4. \A p \in Carved : p \in Nat /\ owner[p] \in Banks BY DEF PoolInv, Types, Owners
<1>5. ptr \notin Carved
  <2> SUFFICES ASSUME ptr \in Carved PROVE FALSE OBVIOUS
  <2>1. Apart(ptr, Size(owner[ptr]), ptr, left) OBVIOUS
  <2>2. Size(owner[ptr]) \in Nat /\ 1 <= Size(owner[ptr]) BY <1>4, SizeOfBank
  <2> QED BY <1>1, <1>3, <2>1, <2>2 DEF Apart
<1>6. Carved' = Carved \cup {ptr} /\ word'[ptr] = Junk
      /\ \A q \in Carved : word'[q] = word[q]
  BY <1>2, <1>5 DEF Carved, With
<1>7. DOMAIN live' = DOMAIN live \cup {ptr} /\ live'[ptr] = n
      /\ (\A q \in DOMAIN live : live'[q] = live[q]) /\ ptr \notin DOMAIN live
  <2>1. ptr \notin DOMAIN live BY <1>5 DEF PoolInv, Types
  <2> QED BY <1>2, <2>1 DEF With
<1>8. owner2 \in Owners' /\ owner2[ptr] = b /\ \A q \in Carved : owner2[q] = owner[q]
  <2>1. owner \in [Carved -> Banks] BY DEF Owners
  <2>2. owner2 \in [Carved \cup {ptr} -> Banks] BY <1>1, <2>1, TypedEntry
  <2>3. \A q \in Carved : q \in DOMAIN owner /\ q # ptr BY <1>5, <2>1
  <2>4. owner2 \in Owners' BY <1>6, <2>2 DEF Owners
  <2>5. owner2[ptr] = b BY DEF With
  <2>6. \A q \in Carved : owner2[q] = owner[q] BY <2>3 DEF With
  <2> QED BY <2>4, <2>5, <2>6
<1> HIDE DEF owner2
<1>9. spaceptr'[b] = ptr + s /\ spaceleft'[b] = left - s
      /\ \A c \in Banks \ {b} : spaceptr'[c] = spaceptr[c] /\ spaceleft'[c] = spaceleft[c]
  <2>1. spaceptr \in [Banks -> Int] /\ spaceleft \in [Banks -> Int] BY DEF PoolInv, Types
  <2> QED BY <1>1, <1>2, <2>1
<1>10. Types'
  <2>1. spaceptr' \in [Banks -> Int] /\ spaceleft' \in [Banks -> Int]
    <3>1. spaceptr \in [Banks -> Int] /\ spaceleft \in [Banks -> Int] BY DEF PoolInv, Types
    <3>2. ptr + s \in Int /\ left - s \in Int BY <1>1
    <3> QED BY <1>2, <3>1, <3>2
  <2>2. word' \in [Carved' -> Int]
    <3>1. word \in [Carved -> Int] BY DEF PoolInv, Types
    <3>2. Junk \in Int BY DEF Junk
    <3>3. With(word, ptr, Junk) \in [Carved \cup {ptr} -> Int] BY <3>1, <3>2, TypedEntry
    <3> QED BY <1>2, <1>6, <3>3
  <2>3. IsFiniteSet(Carved')
    <3>1. IsFiniteSet(Carved \cup {ptr}) BY FS_AddElement DEF PoolInv, Types
    <3> QED BY <1>6, <3>1
  <2>4. live' \in [DOMAIN live' -> Requests]
    <3>1. live \in [DOMAIN live -> Requests] BY DEF PoolInv, Types
    <3>2. With(live, ptr, n) \in [DOMAIN live \cup {ptr} -> Requests] BY <3>1, TypedEntry
    <3> QED BY <1>2, <1>7, <3>2
  <2>5. \A p \in Carved' : p \in Nat /\ p > 0 BY <1>6 DEF PoolInv, Types
  <2>6. DOMAIN live' \subseteq Carved' BY <1>6, <1>7 DEF PoolInv, Types
  <2>7. head' \in [Banks -> Int] /\ exited' \in BOOLEAN BY DEF PoolInv, Types
  <2> QED BY <2>1, <2>2, <2>3, <2>4, <2>5, <2>6, <2>7 DEF Types
<1>11. PICK m \in mapped' : m.ptr <= ptr /\ ptr + left <= m.ptr + m.size BY DEF Inside
<1>12. m.ptr \in Nat /\ m.size \in Nat BY <1>11 DEF BlocksOk
<1>13. ItemsOk(owner2)'
  <2>1. ASSUME NEW p \in Carved' PROVE Inside(p, Size(owner2[p]))'
    <3>1. CASE p = ptr
      <4>1. m.ptr <= ptr /\ ptr + s <= m.ptr + m.size BY <1>1, <1>3, <1>11, <1>12
      <4> QED BY <1>8, <1>11, <3>1, <4>1 DEF Inside, s
    <3>2. CASE p \in Carved
      <4>1. Inside(p, Size(owner[p])) BY <3>2 DEF ItemsOk
      <4> QED BY <1>8, <3>2, <4>1 DEF Inside
    <3> QED BY <1>6, <3>1, <3>2
  <2>2. ASSUME NEW p \in Carved', NEW q \in Carved', p # q
        PROVE  Apart(p, Size(owner2[p]), q, Size(owner2[q]))
    <3>1. ASSUME NEW o \in Carved PROVE Apart(o, Size(owner[o]), ptr, s)
      <4>1. Apart(o, Size(owner[o]), ptr, left) OBVIOUS
      <4>2. Size(owner[o]) \in Nat /\ o \in Nat BY <1>4, SizeOfBank
      <4> QED BY <1>1, <1>3, <4>1, <4>2 DEF Apart
    <3>2. CASE p \in Carved /\ q \in Carved BY <1>8, <2>2, <3>2 DEF ItemsOk
    <3>3. CASE p \in Carved /\ q = ptr BY <1>8, <3>1, <3>3 DEF s
    <3>4. CASE p = ptr /\ q \in Carved BY <1>8, <3>1, <3>4 DEF s, Apart
    <3> QED BY <1>6, <2>2, <3>2, <3>3, <3>4
  <2>3. ASSUME NEW p \in DOMAIN live' PROVE BankOf(live'[p]) = owner2[p]
    <3>1. CASE p = ptr BY <1>7, <1>8, <3>1 DEF b
    <3>2. CASE p \in DOMAIN live
      <4>1. p \in Carved BY <3>2 DEF PoolInv, Types
      <4> QED BY <1>7, <1>8, <3>2, <4>1 DEF ItemsOk
    <3> QED BY <1>7, <3>1, <3>2
  <2> QED BY <2>1, <2>2, <2>3 DEF ItemsOk
<1>14. SpacesOk(owner2)'
  <2> SUFFICES ASSUME NEW c \in Banks, spaceleft'[c] > 0
               PROVE  /\ spaceptr'[c] > 0 /\ Inside(spaceptr[c], spaceleft[c])'
                      /\ \A p \in Carved' : Apart(p, Size(owner2[p]), spaceptr'[c], spaceleft'[c])
                      /\ \A d \in Banks \ {c} : spaceleft'[d] > 0 =>
                           Apart(spaceptr'[c], spaceleft'[c], spaceptr'[d], spaceleft'[d])
    BY DEF SpacesOk
  <2>1. \A d \in Banks : spaceptr[d] \in Int /\ spaceleft[d] \in Int BY DEF PoolInv, Types
  <2>2. CASE c = b
    <3>1. m.ptr <= ptr + s /\ (ptr + s) + (left - s) <= m.ptr + m.size
      BY <1>1, <1>3, <1>11, <1>12
    <3>2. Inside(spaceptr[b], spaceleft[b])' BY <1>9, <1>11, <3>1 DEF Inside
    <3>3. ASSUME NEW p \in Carved' PROVE Apart(p, Size(owner2[p]), ptr + s, left - s)
      <4>1. CASE p = ptr
        <5>1. owner2[p] = b BY <1>8, <4>1
        <5> QED BY <1>1, <1>3, <4>1, <5>1 DEF Apart, s
      <4>2. CASE p \in Carved
        <5>1. Apart(p, Size(owner[p]), ptr, left) BY <4>2
        <5>2. Size(owner[p]) \in Nat /\ p \in Nat BY <1>4, <4>2, SizeOfBank
        <5>3. owner2[p] = owner[p] BY <1>8, <4>2
        <5> QED BY <1>1, <1>3, <5>1, <5>2, <5>3 DEF Apart
      <4> QED BY <1>6, <4>1, <4>2
    <3>4. ASSUME NEW d \in Banks \ {b}, spaceleft'[d] > 0
          PROVE  Apart(ptr + s, left - s, spaceptr'[d], spaceleft'[d])
      <4>1. Apart(ptr, left, spaceptr[d], spaceleft[d]) BY <1>9, <3>4 DEF b
      <4> QED BY <1>1, <1>3, <1>9, <2>1, <4>1 DEF Apart
    <3>5. ptr + s > 0 BY <1>1
    <3> QED BY <1>9, <2>2, <3>2, <3>3, <3>4, <3>5
  <2>3. CASE c # b
    <3>1. spaceptr'[c] = spaceptr[c] /\ spaceleft'[c] = spaceleft[c] BY <1>9, <2>3
    <3>2. /\ spaceptr[c] > 0 /\ Inside(spaceptr[c], spaceleft[c])
          /\ \A p \in Carved : Apart(p, Size(owner[p]), spaceptr[c], spaceleft[c])
          /\ \A d \in Banks \ {c} : spaceleft[d] > 0 =>
               Apart(spaceptr[c], spaceleft[c], spaceptr[d], spaceleft[d])
      BY <3>1 DEF SpacesOk
    <3>3. Apart(ptr, left, spaceptr[c], spaceleft[c]) BY <2>3, <3>1 DEF b
    <3>4. Inside(spaceptr[c], spaceleft[c])' BY <3>1, <3>2 DEF Inside
    <3>5. ASSUME NEW p \in Carved' PROVE Apart(p, Size(owner2[p]), spaceptr[c], spaceleft[c])
      <4>1. CASE p = ptr
        <5>1. owner2[p] = b BY <1>8, <4>1
        <5> QED BY <1>1, <1>3, <2>1, <3>3, <4>1, <5>1 DEF Apart, s
      <4>2. CASE p \in Carved BY <1>8, <3>2, <4>2
      <4> QED BY <1>6, <4>1, <4>2
    <3>6. ASSUME NEW d \in Banks \ {c}, spaceleft'[d] > 0
          PROVE  Apart(spaceptr[c], spaceleft[c], spaceptr'[d], spaceleft'[d])
      <4>1. CASE d = b BY <1>1, <1>3, <1>9, <2>1, <3>3, <4>1 DEF Apart
      <4>2. CASE d # b BY <1>9, <3>2, <3>6, <4>2
      <4> QED BY <4>1, <4>2
    <3> QED BY <3>1, <3>2, <3>4, <3>5, <3>6
  <2> QED BY <2>2, <2>3
<1>15. ListsOk(owner2, len, free)'
  <2> SUFFICES ASSUME NEW c \in Banks
               PROVE  /\ free[c][0] = Null /\ head'[c] = free[c][len[c]]
                      /\ \A i \in 1..len[c] :
                           /\ free[c][i] \in Carved' \ DOMAIN live'
                           /\ owner2[free[c][i]] = c
                           /\ word'[free[c][i]] = free[c][i - 1]
                      /\ \A i, j \in 1..len[c] : free[c][i] = free[c][j] => i = j
    BY DEF ListsOk
  <2>1. /\ free[c][0] = Null /\ head[c] = free[c][len[c]]
        /\ \A i \in 1..len[c] :
             /\ free[c][i] \in Carved \ DOMAIN live
             /\ owner[free[c][i]] = c
             /\ word[free[c][i]] = free[c][i - 1]
        /\ \A i, j \in 1..len[c] : free[c][i] = free[c][j] => i = j
    BY DEF ListsOk
  <2> QED BY <1>5, <1>6, <1>7, <1>8, <2>1
<1>16. AllFound(owner2, len, free)'
  <2> SUFFICES ASSUME NEW q \in Carved' \ DOMAIN live'
               PROVE  \E i \in 1..len[owner2[q]] : free[owner2[q]][i] = q
    BY DEF AllFound
  <2>1. q \in Carved \ DOMAIN live BY <1>6, <1>7
  <2> QED BY <1>8, <2>1 DEF AllFound
<1>17. PoolInv'
  <2>1. len \in Lengths' /\ free \in Lists' BY DEF Lengths, Lists
  <2> QED BY <1>8, <1>10, <1>13, <1>14, <1>15, <1>16, <2>1 DEF PoolInv
<1> QED BY <1>2, <1>5, <1>17

LEMMA CarveKeeps ==
  ASSUME PoolInv, NEW n \in Requests, Carve(n)
  PROVE  /\ PoolInv'
         /\ \E p \in Nat \ Carved : live' = With(live, p, n)
<1> DEFINE b == BankOf(n)
<1>1. PICK owner \in Owners, len \in Lengths, free \in Lists :
        /\ ItemsOk(owner) /\ SpacesOk(owner)
        /\ ListsOk(owner, len, free) /\ AllFound(owner, len, free)
  BY DEF PoolInv
<1>2. /\ ~exited /\ head[b] = Null /\ spaceleft[b] >= Size(b)
      /\ TakeFrom(n, spaceptr[b], spaceleft[b])
      /\ head' = head /\ exited' = exited /\ mapped' = mapped
  BY DEF Carve
<1>3. b \in Banks /\ Size(b) \in Nat /\ 1 <= Size(b) BY ItemHoldsRequest, SizeOfBank
<1> HIDE DEF b
<1>4. spaceptr[b] \in Int /\ spaceleft[b] \in Int BY <1>3 DEF PoolInv, Types
<1>5. spaceleft[b] > 0 /\ spaceleft[b] \in Nat BY <1>2, <1>3, <1>4
<1>6. /\ spaceptr[b] > 0 /\ Inside(spaceptr[b], spaceleft[b])
      /\ \A p \in Carved : Apart(p, Size(owner[p]), spaceptr[b], spaceleft[b])
      /\ \A c \in Banks \ {b} : spaceleft[c] > 0 =>
           Apart(spaceptr[b], spaceleft[b], spaceptr[c], spaceleft[c])
  BY <1>1, <1>2, <1>3, <1>5 DEF SpacesOk
<1>7. PICK ptr \in Nat, left \in Nat : ptr = spaceptr[b] /\ left = spaceleft[b]
  BY <1>4, <1>5, <1>6
<1>8. ptr > 0 /\ Size(b) <= left BY <1>2, <1>6, <1>7
<1>9. TakeFrom(n, ptr, left) BY <1>2, <1>7
<1>10. BlocksOk' /\ Inside(ptr, left)' /\ mapped \subseteq mapped'
  <2>1. BlocksOk BY DEF PoolInv, Types
  <2>2. BlocksOk' BY <1>2, <2>1 DEF BlocksOk
  <2>3. Inside(ptr, left) BY <1>6, <1>7
  <2>4. Inside(ptr, left)' BY <1>2, <2>3 DEF Inside
  <2> QED BY <1>2, <2>2, <2>4
<1>11. /\ \A p \in Carved : Apart(p, Size(owner[p]), ptr, left)
       /\ \A c \in Banks \ {b} : spaceleft[c] > 0 => Apart(ptr, left, spaceptr[c], spaceleft[c])
  BY <1>6, <1>7
<1>12. PoolInv' /\ ptr \notin Carved /\ live' = With(live, ptr, n)
  BY <1>1, <1>2, <1>8, <1>9, <1>10, <1>11, TakeKeeps DEF b
<1> QED BY <1>12

LEMMA NewBlockKeeps ==
  ASSUME PoolInv, NEW n \in Requests, NewBlock(n)
  PROVE  /\ PoolInv'
         /\ \E p \in Nat \ Carved : live' = With(live, p, n)
<1> DEFINE b == BankOf(n)
           size == RoundSize(Size(b), PageSize)
<1>1. PICK owner \in Owners, len \in Lengths, free \in Lists :
        /\ ItemsOk(owner) /\ SpacesOk(owner)
        /\ ListsOk(owner, len, free) /\ AllFound(owner, len, free)
  BY DEF PoolInv
<1>2. PICK ptr \in FreePages(size) :
        /\ mapped' = mapped \cup {Block(ptr, size)}
        /\ TakeFrom(n, ptr, size)
  BY DEF NewBlock
<1>3. ~exited /\ head[b] = Null /\ head' = head /\ exited' = exited
  BY DEF NewBlock, NeedsBlock
<1>4. b \in Banks /\ Size(b) \in Nat /\ 1 <= Size(b) BY ItemHoldsRequest, SizeOfBank
<1>5. size \in Nat /\ Size(b) <= size BY <1>4, BlockHoldsItem
<1>6. ptr \in Nat /\ ptr > 0
  <2>1. PICK k \in 1..ArenaPages : ptr = PageSize * k BY <1>2 DEF FreePages
  <2>2. k \in Nat /\ k >= 1 /\ PageSize \in Nat /\ PageSize >= 1 BY SizesAssumption
  <2>3. PageSize * k = PageSize * (k - 1) + PageSize /\ PageSize * (k - 1) \in Nat BY <2>2
  <2> QED BY <2>1, <2>2, <2>3
<1> HIDE DEF b, size
<1>7. BlocksOk BY DEF PoolInv, Types
<1>8. BlocksOk' /\ Inside(ptr, size)' /\ mapped \subseteq mapped'
  <2>1. Block(ptr, size).ptr = ptr /\ Block(ptr, size).size = size BY DEF Block
  <2>2. BlocksOk' BY <1>2, <1>5, <1>6, <1>7, <2>1 DEF BlocksOk
  <2>3. Block(ptr, size) \in mapped' BY <1>2
  <2>4. Inside(ptr, size)' BY <1>5, <1>6, <2>1, <2>3 DEF Inside
  <2> QED BY <1>2, <2>2, <2>4
<1>9. \A m \in mapped : ptr + size <= m.ptr \/ m.ptr + m.size <= ptr
  BY <1>2 DEF FreePages
<1>10. ASSUME NEW a \in Int, NEW s \in Int, Inside(a, s)
       PROVE  Apart(a, s, ptr, size) /\ Apart(ptr, size, a, s)
  <2>1. PICK m \in mapped : m.ptr <= a /\ a + s <= m.ptr + m.size BY <1>10 DEF Inside
  <2>2. m.ptr \in Nat /\ m.size \in Nat BY <1>7, <2>1 DEF BlocksOk
  <2> QED BY <1>5, <1>6, <1>9, <2>1, <2>2 DEF Apart
<1>11. \A p \in Carved : Apart(p, Size(owner[p]), ptr, size)
  <2> SUFFICES ASSUME NEW p \in Carved PROVE Apart(p, Size(owner[p]), ptr, size) OBVIOUS
  <2>1. p \in Nat /\ owner[p] \in Banks BY DEF PoolInv, Types, Owners
  <2>2. Size(owner[p]) \in Nat BY <2>1, SizeOfBank
  <2>3. Inside(p, Size(owner[p])) BY <1>1 DEF ItemsOk
  <2> QED BY <1>10, <2>1, <2>2, <2>3
<1>12. \A c \in Banks \ {b} : spaceleft[c] > 0 => Apart(ptr, size, spaceptr[c], spaceleft[c])
  <2> SUFFICES ASSUME NEW c \in Banks \ {b}, spaceleft[c] > 0
               PROVE  Apart(ptr, size, spaceptr[c], spaceleft[c])
    OBVIOUS
  <2>1. spaceptr[c] \in Int /\ spaceleft[c] \in Int BY DEF PoolInv, Types
  <2>2. Inside(spaceptr[c], spaceleft[c]) BY <1>1, <1>3 DEF SpacesOk
  <2> QED BY <1>10, <2>1, <2>2
<1> QED BY <1>1, <1>2, <1>3, <1>5, <1>6, <1>8, <1>11, <1>12, TakeKeeps DEF b

\* An item given back becomes the first of the free list of its bank.
LEMMA DeallocateKeeps ==
  ASSUME PoolInv, NEW p \in DOMAIN live, Deallocate(p)
  PROVE  PoolInv'
<1> DEFINE b == BankOf(live[p])
<1>1. PICK owner \in Owners, len \in Lengths, free \in Lists :
        /\ ItemsOk(owner) /\ SpacesOk(owner)
        /\ ListsOk(owner, len, free) /\ AllFound(owner, len, free)
  BY DEF PoolInv
<1>2. /\ word' = [word EXCEPT ![p] = head[b]]
      /\ head' = [head EXCEPT ![b] = p]
      /\ live' = Restrict(live, DOMAIN live \ {p})
      /\ spaceptr' = spaceptr /\ spaceleft' = spaceleft /\ mapped' = mapped /\ exited' = exited
  BY DEF Deallocate
<1>3. b \in Banks /\ b = owner[p] /\ p \in Carved /\ p \in Nat
  <2>1. live[p] \in Requests /\ p \in Carved /\ p \in Nat BY DEF PoolInv, Types
  <2>2. b \in Banks BY <2>1, ItemHoldsRequest
  <2>3. b = owner[p] BY <1>1 DEF ItemsOk
  <2> QED BY <2>1, <2>2, <2>3
<1> HIDE DEF b
<1>4. len[b] \in Nat /\ free[b] \in [Nat -> Int] BY <1>3 DEF Lengths, Lists
<1>5. DOMAIN live' = DOMAIN live \ {p} /\ \A q \in DOMAIN live' : live'[q] = live[q]
  BY <1>2 DEF Restrict
<1>6. word \in [Carved -> Int] /\ head \in [Banks -> Int] BY DEF PoolInv, Types
<1>7. Carved' = Carved /\ word' \in [Carved -> Int] /\ head' \in [Banks -> Int]
      /\ word'[p] = head[b] /\ head'[b] = p
      /\ (\A q \in Carved \ {p} : word'[q] = word[q])
      /\ \A c \in Banks \ {b} : head'[c] = head[c]
  <2>1. head[b] \in Int /\ p \in Int BY <1>3, <1>6
  <2>2. DOMAIN word' = DOMAIN word BY <1>2, <1>6
  <2> QED BY <1>2, <1>3, <1>6, <2>1, <2>2 DEF Carved
<1> DEFINE k == len[b] + 1
<1>8. PICK len2 \in Lengths : len2[b] = k /\ \A c \in Banks \ {b} : len2[c] = len[c]
  <2> DEFINE grown == [len EXCEPT ![b] = k]
  <2>1. grown \in Lengths /\ grown[b] = k /\ \A c \in Banks \ {b} : grown[c] = len[c]
    BY <1>3, <1>4 DEF Lengths
  <2> HIDE DEF grown
  <2> QED BY <2>1
<1>9. PICK free2 \in Lists :
        /\ free2[b][k] = p
        /\ \A i \in Nat \ {k} : free2[b][i] = free[b][i]
        /\ \A c \in Banks \ {b} : free2[c] = free[c]
  <2> DEFINE longer == [free[b] EXCEPT ![k] = p]
             grown == [free EXCEPT ![b] = longer]
  <2>1. k \in Nat /\ p \in Int BY <1>3, <1>4
  <2> HIDE DEF k
  <2>2. longer \in [Nat -> Int] /\ longer[k] = p /\ \A i \in Nat \ {k} : longer[i] = free[b][i]
    BY <1>4, <2>1
  <2> HIDE DEF longer
  <2>3. grown \in Lists /\ grown[b] = longer /\ \A c \in Banks \ {b} : grown[c] = free[c]
    BY <1>3, <2>2 DEF Lists
  <2> HIDE DEF grown
  <2> QED BY <2>2, <2>3
<1>10. Types'
  <2>1. live' \in [DOMAIN live' -> Requests] BY <1>2, <1>5 DEF PoolInv, Types, Restrict
  <2>2. DOMAIN live' \subseteq Carved' BY <1>5, <1>7 DEF PoolInv, Types
  <2>3. BlocksOk' BY <1>2 DEF PoolInv, Types, BlocksOk
  <2> QED BY <1>2, <1>7, <2>1, <2>2, <2>3 DEF PoolInv, Types
<1>11. ItemsOk(owner)'
  BY <1>1, <1>2, <1>5, <1>7 DEF ItemsOk, Inside
<1>12. SpacesOk(owner)' BY <1>1, <1>2, <1>7 DEF SpacesOk, Inside
<1>13. ListsOk(owner, len2, free2)'
  <2> SUFFICES ASSUME NEW c \in Banks
               PROVE  /\ free2[c][0] = Null /\ head'[c] = free2[c][len2[c]]
                      /\ \A i \in 1..len2[c] :
                           /\ free2[c][i] \in Carved' \ DOMAIN live'
                           /\ owner[free2[c][i]] = c
                           /\ word'[free2[c][i]] = free2[c][i - 1]
                      /\ \A i, j \in 1..len2[c] : free2[c][i] = free2[c][j] => i = j
    BY DEF ListsOk
  <2>1. /\ free[c][0] = Null /\ head[c] = free[c][len[c]]
        /\ \A i \in 1..len[c] :
             /\ free[c][i] \in Carved \ DOMAIN live
             /\ owner[free[c][i]] = c
             /\ word[free[c][i]] = free[c][i - 1]
        /\ \A i, j \in 1..len[c] : free[c][i] = free[c][j] => i = j
    BY <1>1 DEF ListsOk
  <2>2. CASE c # b BY <1>3, <1>5, <1>7, <1>8, <1>9, <2>1, <2>2
  <2>3. CASE c = b
    <3>1. 0 \in Nat \ {k} /\ k \in Nat /\ k - 1 = len[b] BY <1>4
    <3>2. free2[b][0] = Null /\ head'[b] = free2[b][len2[b]]
      BY <1>7, <1>8, <1>9, <2>1, <2>3, <3>1
    <3>3. ASSUME NEW i \in 1..len[b]
          PROVE  /\ free2[b][i] = free[b][i] /\ free2[b][i - 1] = free[b][i - 1]
                 /\ free[b][i] # p
      <4>1. i \in Nat \ {k} /\ i - 1 \in Nat \ {k} BY <1>4
      <4> HIDE DEF k
      <4> QED BY <1>9, <2>1, <2>3, <4>1
    <3>4. ASSUME NEW i \in 1..len2[b]
          PROVE  /\ free2[b][i] \in Carved' \ DOMAIN live'
                 /\ owner[free2[b][i]] = b
                 /\ word'[free2[b][i]] = free2[b][i - 1]
      <4>1. CASE i \in 1..len[b]
        BY <1>5, <1>7, <2>1, <2>3, <3>3, <4>1
      <4>2. CASE i = k
        <5>1. free2[b][i] = p BY <1>9, <4>2
        <5>2. free2[b][i - 1] = head[b]
          <6>1. i - 1 = len[b] /\ len[b] \in Nat \ {k} BY <1>4, <4>2
          <6> QED BY <1>9, <2>1, <2>3, <6>1
        <5> QED BY <1>3, <1>5, <1>7, <5>1, <5>2
      <4> QED BY <1>4, <1>8, <4>1, <4>2
    <3>5. ASSUME NEW i \in 1..len2[b], NEW j \in 1..len2[b], free2[b][i] = free2[b][j]
          PROVE  i = j
      <4>1. (i \in 1..len[b] \/ i = k) /\ (j \in 1..len[b] \/ j = k) BY <1>4, <1>8
      <4> HIDE DEF k
      <4>2. CASE i \in 1..len[b] /\ j \in 1..len[b] BY <2>1, <2>3, <3>3, <3>5, <4>2
      <4>3. CASE i = k /\ j \in 1..len[b] BY <1>9, <3>3, <3>5, <4>3
      <4>4. CASE i \in 1..len[b] /\ j = k BY <1>9, <3>3, <3>5, <4>4
      <4> QED BY <4>1, <4>2, <4>3, <4>4
    <3> QED BY <2>3, <3>2, <3>4, <3>5
  <2> QED BY <2>2, <2>3
<1>14. AllFound(owner, len2, free2)'
  <2> SUFFICES ASSUME NEW q \in Carved \ DOMAIN live'
               PROVE  \E i \in 1..len2[owner[q]] : free2[owner[q]][i] = q
    BY <1>7 DEF AllFound
  <2>1. CASE q = p
    <3>1. k \in 1..len2[b] BY <1>4, <1>8
    <3> HIDE DEF k
    <3> QED BY <1>3, <1>9, <2>1, <3>1
  <2>2. CASE q # p
    <3>1. PICK i \in 1..len[owner[q]] : free[owner[q]][i] = q
      BY <1>1, <1>5, <2>2 DEF AllFound
    <3>2. CASE owner[q] = b
      <4>1. i \in 1..len2[b] /\ i \in Nat \ {k} BY <1>4, <1>8, <3>1, <3>2
      <4> HIDE DEF k
      <4> QED BY <1>9, <3>1, <3>2, <4>1
    <3>3. CASE owner[q] # b
      <4>1. owner[q] \in Banks BY DEF Owners
      <4> QED BY <1>8, <1>9, <3>1, <3>3, <4>1
    <3> QED BY <3>2, <3>3
  <2> QED BY <2>1, <2>2
<1>15. owner \in Owners' /\ len2 \in Lengths' /\ free2 \in Lists'
  BY <1>7, <1>8, <1>9 DEF Owners, Lengths, Lists
<1> QED BY <1>10, <1>11, <1>12, <1>13, <1>14, <1>15 DEF PoolInv

\* What a container writes is in no list: its item is in use.
LEMMA UseKeeps ==
  ASSUME PoolInv, NEW p \in DOMAIN live, Use(p)
  PROVE  PoolInv'
<1>1. PICK owner \in Owners, len \in Lengths, free \in Lists :
        /\ ItemsOk(owner) /\ SpacesOk(owner)
        /\ ListsOk(owner, len, free) /\ AllFound(owner, len, free)
  BY DEF PoolInv
<1>2. /\ word' = [word EXCEPT ![p] = Junk]
      /\ UNCHANGED <<head, spaceptr, spaceleft, mapped, live, exited>>
  BY DEF Use, pool
<1>3. word \in [Carved -> Int] /\ p \in Carved BY DEF PoolInv, Types
<1>4. Carved' = Carved /\ word' \in [Carved -> Int]
      /\ \A q \in Carved \ {p} : word'[q] = word[q]
  <2>1. Junk \in Int BY DEF Junk
  <2>2. DOMAIN word' = DOMAIN word BY <1>2, <1>3
  <2> QED BY <1>2, <1>3, <2>1, <2>2 DEF Carved
<1>5. Types' BY <1>2, <1>4 DEF PoolInv, Types, BlocksOk
<1>6. ItemsOk(owner)' BY <1>1, <1>2, <1>4 DEF ItemsOk, Inside
<1>7. SpacesOk(owner)' BY <1>1, <1>2, <1>4 DEF SpacesOk, Inside
<1>8. ListsOk(owner, len, free)' BY <1>1, <1>2, <1>4 DEF ListsOk
<1>9. AllFound(owner, len, free)' BY <1>1, <1>2, <1>4 DEF AllFound
<1>10. owner \in Owners' /\ len \in Lengths' /\ free \in Lists'
  BY <1>4 DEF Owners, Lengths, Lists
<1> QED BY <1>5, <1>6, <1>7, <1>8, <1>9, <1>10 DEF PoolInv

\* Without items and blocks it starts afresh, whatever is mapped still.
LEMMA DestroyKeeps ==
  ASSUME PoolInv, Destroy
  PROVE  PoolInv'
<1> DEFINE owner == [p \in {} |-> 0]
           len == [b \in Banks |-> 0]
           free == [b \in Banks |-> [i \in Nat |-> Null]]
<1>1. Carved' = {} /\ DOMAIN live' = {} /\ live' = live /\ word' = <<>>
  BY DEF Destroy, Carved
<1>2. /\ head' = InEveryBank(Null) /\ spaceptr' = InEveryBank(Null)
      /\ spaceleft' = InEveryBank(0)
      /\ mapped' \subseteq mapped /\ exited' = exited
  BY DEF Destroy
<1>3. Types'
  <2>1. IsFiniteSet(Carved') BY <1>1, FS_EmptySet
  <2>2. head' \in [Banks -> Int] /\ spaceptr' \in [Banks -> Int] /\ spaceleft' \in [Banks -> Int]
    BY <1>2 DEF InEveryBank, Null
  <2>3. word' \in [Carved' -> Int] BY <1>1
  <2>4. live' \in [DOMAIN live' -> Requests] BY <1>1 DEF PoolInv, Types
  <2>5. BlocksOk' BY <1>2 DEF PoolInv, Types, BlocksOk
  <2>6. exited' \in BOOLEAN BY <1>2 DEF PoolInv, Types
  <2> QED BY <1>1, <2>1, <2>2, <2>3, <2>4, <2>5, <2>6 DEF Types
<1>4. owner \in Owners' /\ len \in Lengths' /\ free \in Lists'
  BY <1>1 DEF Owners, Lengths, Lists, Null
<1>5. ItemsOk(owner)' BY <1>1 DEF ItemsOk
<1>6. SpacesOk(owner)' BY <1>2 DEF SpacesOk, InEveryBank
<1>7. ListsOk(owner, len, free)' BY <1>2 DEF ListsOk, InEveryBank
<1>8. AllFound(owner, len, free)' BY <1>1 DEF AllFound
<1> HIDE DEF owner, len, free
<1> QED BY <1>3, <1>4, <1>5, <1>6, <1>7, <1>8 DEF PoolInv

\* More may be mapped, and once the program has left, the spaces do not matter.
LEMMA FailureKeeps ==
  ASSUME PoolInv, UNCHANGED <<head, word, live>>,
         mapped \subseteq mapped', BlocksOk',
         spaceptr' \in [Banks -> Int], spaceleft' \in [Banks -> Int], exited' \in BOOLEAN,
         ~exited' => UNCHANGED <<spaceptr, spaceleft, exited>>
  PROVE  PoolInv'
<1>1. PICK owner \in Owners, len \in Lengths, free \in Lists :
        /\ ItemsOk(owner) /\ SpacesOk(owner)
        /\ ListsOk(owner, len, free) /\ AllFound(owner, len, free)
  BY DEF PoolInv
<1>2. Carved' = Carved BY DEF Carved
<1>3. Types' BY <1>2 DEF PoolInv, Types
<1>4. \A a, s : Inside(a, s) => Inside(a, s)' BY DEF Inside
<1>5. ItemsOk(owner)' BY <1>1, <1>2, <1>4 DEF ItemsOk
<1>6. SpacesOk(owner)' BY <1>1, <1>2, <1>4 DEF SpacesOk
<1>7. ListsOk(owner, len, free)' BY <1>1, <1>2 DEF ListsOk
<1>8. AllFound(owner, len, free)' BY <1>1, <1>2 DEF AllFound
<1>9. owner \in Owners' /\ len \in Lengths' /\ free \in Lists'
  BY <1>2 DEF Owners, Lengths, Lists
<1> QED BY <1>3, <1>5, <1>6, <1>7, <1>8, <1>9 DEF PoolInv

LEMMA BlockIsOk ==
  ASSUME NEW n \in Requests, NEW p \in FreePages(RoundSize(Size(BankOf(n)), PageSize))
  PROVE  /\ p \in Nat /\ p > 0
         /\ RoundSize(Size(BankOf(n)), PageSize) \in Nat
<1>1. PICK k \in 1..ArenaPages : p = PageSize * k BY DEF FreePages
<1>2. k \in Nat /\ k >= 1 /\ PageSize \in Nat /\ PageSize >= 1 BY SizesAssumption
<1>3. PageSize * k = PageSize * (k - 1) + PageSize /\ PageSize * (k - 1) \in Nat BY <1>2
<1>4. RoundSize(Size(BankOf(n)), PageSize) \in Nat
  BY ItemHoldsRequest, SizeOfBank, BlockHoldsItem
<1> QED BY <1>1, <1>2, <1>3, <1>4

LEMMA MadviseKeeps ==
  ASSUME PoolInv, NEW n \in Requests, MadviseFails(n)
  PROVE  PoolInv'
<1> DEFINE size == RoundSize(Size(BankOf(n)), PageSize)
<1>1. PICK p \in FreePages(size) : mapped' = mapped \cup {Block(p, size)}
  BY DEF MadviseFails
<1>2. UNCHANGED <<head, spaceptr, spaceleft, word, live, exited>>
  BY DEF MadviseFails, pool
<1>3. BlocksOk'
  <2>1. p \in Nat /\ p > 0 /\ size \in Nat BY BlockIsOk
  <2> HIDE DEF size
  <2>2. Block(p, size).ptr = p /\ Block(p, size).size = size BY DEF Block
  <2> QED BY <1>1, <2>1, <2>2 DEF PoolInv, Types, BlocksOk
<1>4. mapped \subseteq mapped' BY <1>1
<1>5. /\ spaceptr' \in [Banks -> Int] /\ spaceleft' \in [Banks -> Int]
      /\ exited' \in BOOLEAN
  BY <1>2 DEF PoolInv, Types
<1> QED BY <1>2, <1>3, <1>4, <1>5, FailureKeeps

LEMMA MallocKeeps ==
  ASSUME PoolInv, NEW n \in Requests, MallocFails(n)
  PROVE  PoolInv'
<1> DEFINE b == BankOf(n)
           size == RoundSize(Size(b), PageSize)
<1>1. /\ spaceleft' = [spaceleft EXCEPT ![b] = size]
      /\ spaceptr' = [spaceptr EXCEPT ![b] = Null]
      /\ exited' = TRUE
      /\ UNCHANGED <<head, word, mapped, live>>
  BY DEF MallocFails
<1>2. size \in Nat BY ItemHoldsRequest, SizeOfBank, BlockHoldsItem
<1>3. BlocksOk' BY <1>1 DEF PoolInv, Types, BlocksOk
<1>4. spaceptr' \in [Banks -> Int] /\ spaceleft' \in [Banks -> Int]
  <2>1. PICK s \in Int : s = size BY <1>2
  <2>2. spaceleft \in [Banks -> Int] /\ spaceptr \in [Banks -> Int] BY DEF PoolInv, Types
  <2>3. spaceleft' = [spaceleft EXCEPT ![b] = s] BY <1>1, <2>1
  <2>4. PICK z \in Int : z = Null BY DEF Null
  <2>5. spaceptr' = [spaceptr EXCEPT ![b] = z] BY <1>1, <2>4
  <2> HIDE DEF size, b
  <2>6. spaceleft' \in [Banks -> Int] BY <2>1, <2>2, <2>3
  <2>7. spaceptr' \in [Banks -> Int] BY <2>2, <2>4, <2>5
  <2> QED BY <2>6, <2>7
<1> QED BY <1>1, <1>3, <1>4, FailureKeeps

LEMMA PoolStep == PoolInv /\ [Next]_vars => PoolInv'
<1> SUFFICES ASSUME PoolInv, [Next]_vars PROVE PoolInv' OBVIOUS
<1>1. CASE UNCHANGED vars
  <2>1. UNCHANGED <<head, spaceptr, spaceleft, word, mapped, live, exited>> BY <1>1 DEF vars
  <2>2. BlocksOk' BY <2>1 DEF PoolInv, Types, BlocksOk
  <2>3. /\ spaceptr' \in [Banks -> Int] /\ spaceleft' \in [Banks -> Int]
        /\ exited' \in BOOLEAN
    BY <2>1 DEF PoolInv, Types
  <2> QED BY <2>1, <2>2, <2>3, FailureKeeps
<1>2. ASSUME NEW n \in Requests, Allocate(n) PROVE PoolInv'
  <2>1. CASE MapFails(n) BY <1>1, <2>1 DEF MapFails
  <2> QED
    BY <1>2, <2>1, ReuseKeeps, CarveKeeps, NewBlockKeeps, MadviseKeeps, MallocKeeps
       DEF Allocate
<1>3. ASSUME NEW p \in DOMAIN live, Deallocate(p) \/ Use(p) PROVE PoolInv'
  BY <1>3, DeallocateKeeps, UseKeeps
<1> QED BY <1>1, <1>2, <1>3, DestroyKeeps DEF Next

LEMMA PoolInvariant == Spec => []PoolInv
<1> QED BY PoolInitial, PoolStep, PTL DEF Spec

-----------------------------------------------------------------------------
(***************************************************************************)
(* What a container uses lies inside one block that is mapped: no item     *)
(* runs over the end of its block, whatever the sizes and the pages are.   *)
(***************************************************************************)
THEOREM StaysInBlocks == Spec => []InsideBlocks
<1>1. PoolInv => InsideBlocks
  <2> SUFFICES ASSUME PoolInv, NEW p \in DOMAIN live
               PROVE  \E m \in mapped : m.ptr <= p /\ p + Bytes(live[p]) - 1 < m.ptr + m.size
    BY DEF InsideBlocks, Extents
  <2>1. PICK owner \in Owners : ItemsOk(owner) BY DEF PoolInv
  <2>2. p \in Carved /\ p \in Nat /\ live[p] \in Requests BY DEF PoolInv, Types
  <2>3. owner[p] = BankOf(live[p]) BY <2>1 DEF ItemsOk
  <2>4. PICK m \in mapped : m.ptr <= p /\ p + Size(owner[p]) <= m.ptr + m.size
    BY <2>1, <2>2 DEF ItemsOk, Inside
  <2>5. m.ptr \in Nat /\ m.size \in Nat BY DEF PoolInv, Types, BlocksOk
  <2>6. /\ Bytes(live[p]) \in Nat /\ Size(owner[p]) \in Nat
        /\ Bytes(live[p]) <= Size(owner[p])
    BY <2>2, <2>3, ItemHoldsRequest
  <2> QED BY <2>2, <2>4, <2>5, <2>6
<1> QED BY <1>1, PoolInvariant, PTL

(***************************************************************************)
(* But for transparent_allocator's failing madvise(), what the operating   *)
(* system gave is in the vector from which the destructor gives it back.   *)
(***************************************************************************)
THEOREM GivesBack == Spec => []NothingLeaks
<1>1. Init => NothingLeaks BY DEF Init, NothingLeaks
<1>2. NothingLeaks /\ [Next]_vars => NothingLeaks'
  <2> SUFFICES ASSUME NothingLeaks, [Next]_vars PROVE NothingLeaks' OBVIOUS
  <2> USE DEF NothingLeaks
  <2>1. CASE UNCHANGED vars BY <2>1 DEF vars
  <2>2. ASSUME NEW n \in Requests, Allocate(n) PROVE NothingLeaks'
    <3>1. CASE Reuse(n) BY <3>1 DEF Reuse
    <3>2. CASE Carve(n) BY <3>2 DEF Carve
    <3>3. CASE NewBlock(n) BY <3>3 DEF NewBlock, NeedsBlock
    <3>4. CASE MapFails(n) BY <2>1, <3>4 DEF MapFails
    <3>5. CASE MadviseFails(n) BY <3>5 DEF MadviseFails
    <3>6. CASE MallocFails(n) BY <3>6 DEF MallocFails
    <3> QED BY <2>2, <3>1, <3>2, <3>3, <3>4, <3>5, <3>6 DEF Allocate
  <2>3. ASSUME NEW p \in DOMAIN live, Deallocate(p) PROVE NothingLeaks'
    BY <2>3 DEF Deallocate
  <2>4. ASSUME NEW p \in DOMAIN live, Use(p) PROVE NothingLeaks' BY <2>4 DEF Use
  <2>5. CASE Destroy BY <2>5 DEF Destroy
  <2> QED BY <2>1, <2>2, <2>3, <2>4, <2>5 DEF Next
<1> QED BY <1>1, <1>2, PTL DEF Spec

-----------------------------------------------------------------------------
(***************************************************************************)
(* The promise of a heap.                                                  *)
(***************************************************************************)
\* Handing out an item with which no item in use has a byte in common.
LEMMA HandingOut ==
  ASSUME PoolInv, PoolInv', NEW n \in Requests, NEW p \in Nat \ DOMAIN live,
         live' = With(live, p, n)
  PROVE  H!Allocate
<1> DEFINE e == [from |-> p, to |-> p + Bytes(n) - 1]
<1>1. DOMAIN live' = DOMAIN live \cup {p} /\ live'[p] = n
      /\ \A q \in DOMAIN live : live'[q] = live[q]
  BY DEF With
<1>2. \A q \in DOMAIN live' : q \in Nat /\ live'[q] \in Requests /\ q \in Carved'
  BY DEF PoolInv, Types
<1>3. Extents' = Extents \cup {e}
  <2>1. Extents' = {[from |-> q, to |-> q + Bytes(live'[q]) - 1] : q \in DOMAIN live'}
    BY DEF Extents
  <2>2. Extents = {[from |-> q, to |-> q + Bytes(live[q]) - 1] : q \in DOMAIN live}
    BY DEF Extents
  <2>3. ASSUME NEW x \in Extents' PROVE x \in Extents \cup {e}
    <3>1. PICK q \in DOMAIN live' : x = [from |-> q, to |-> q + Bytes(live'[q]) - 1] BY <2>1
    <3>2. CASE q = p BY <1>1, <3>1, <3>2
    <3>3. CASE q \in DOMAIN live BY <1>1, <2>2, <3>1, <3>3
    <3> QED BY <1>1, <3>2, <3>3
  <2>4. e \in Extents' BY <1>1, <2>1
  <2>5. ASSUME NEW x \in Extents PROVE x \in Extents'
    <3>1. PICK q \in DOMAIN live : x = [from |-> q, to |-> q + Bytes(live[q]) - 1] BY <2>2
    <3>2. q \in DOMAIN live' /\ live'[q] = live[q] BY <1>1
    <3> QED BY <2>1, <3>1, <3>2
  <2> HIDE DEF e
  <2> QED BY <2>3, <2>4, <2>5
<1>4. Bytes(n) \in Nat /\ 1 <= Bytes(n) BY ItemHoldsRequest
<1>5. e.from <= e.to BY <1>4
<1>6. ASSUME NEW d \in Extents PROVE ~ H!Overlap(d, e) /\ d # e
  <2>1. PICK q \in DOMAIN live : d = [from |-> q, to |-> q + Bytes(live[q]) - 1]
    BY DEF Extents
  <2>2. q # p /\ q \in DOMAIN live' /\ p \in DOMAIN live' BY <1>1
  <2>3. PICK owner \in Owners' : ItemsOk(owner)' BY DEF PoolInv
  <2>4. Apart(p, Size(owner[p]), q, Size(owner[q])) BY <1>2, <2>2, <2>3 DEF ItemsOk
  <2>5. owner[p] = BankOf(n) /\ owner[q] = BankOf(live[q]) /\ live[q] \in Requests
    BY <1>1, <1>2, <2>2, <2>3 DEF ItemsOk
  <2>6. /\ Size(owner[p]) \in Nat /\ Size(owner[q]) \in Nat
        /\ Bytes(n) <= Size(owner[p]) /\ Bytes(live[q]) <= Size(owner[q])
        /\ Bytes(live[q]) \in Nat
    BY <2>5, ItemHoldsRequest
  <2>7. p \in Nat /\ q \in Nat BY <1>2, <2>2
  <2> QED BY <1>4, <2>1, <2>2, <2>4, <2>6, <2>7 DEF Apart, H!Overlap
<1>7. e \in Extents' \ Extents BY <1>3, <1>6
<1> HIDE DEF e
<1> QED BY <1>3, <1>5, <1>6, <1>7 DEF H!Allocate

LEMMA TakingBack ==
  ASSUME PoolInv, NEW p \in DOMAIN live, live' = Restrict(live, DOMAIN live \ {p})
  PROVE  H!Free
<1> DEFINE e == [from |-> p, to |-> p + Bytes(live[p]) - 1]
<1>1. DOMAIN live' = DOMAIN live \ {p} /\ \A q \in DOMAIN live' : live'[q] = live[q]
  BY DEF Restrict
<1>2. e \in Extents BY DEF Extents
<1>3. Extents' = Extents \ {e}
  <2>1. Extents' = {[from |-> q, to |-> q + Bytes(live'[q]) - 1] : q \in DOMAIN live'}
    BY DEF Extents
  <2>2. Extents = {[from |-> q, to |-> q + Bytes(live[q]) - 1] : q \in DOMAIN live}
    BY DEF Extents
  <2>3. ASSUME NEW x \in Extents' PROVE x \in Extents \ {e}
    <3>1. PICK q \in DOMAIN live' : x = [from |-> q, to |-> q + Bytes(live'[q]) - 1] BY <2>1
    <3>2. q # p /\ q \in DOMAIN live /\ live'[q] = live[q] BY <1>1
    <3>3. x # e BY <3>1, <3>2
    <3> QED BY <2>2, <3>1, <3>2, <3>3
  <2>4. ASSUME NEW x \in Extents \ {e} PROVE x \in Extents'
    <3>1. PICK q \in DOMAIN live : x = [from |-> q, to |-> q + Bytes(live[q]) - 1] BY <2>2
    <3>2. q # p BY <3>1
    <3>3. q \in DOMAIN live' /\ live'[q] = live[q] BY <1>1, <3>2
    <3> QED BY <2>1, <3>1, <3>3
  <2> HIDE DEF e
  <2> QED BY <2>3, <2>4
<1> HIDE DEF e
<1> QED BY <1>2, <1>3 DEF H!Free

(***************************************************************************)
(* What the containers asked for never overlaps.                           *)
(***************************************************************************)
THEOREM Refinement == Spec => ImplementsHeap
<1>1. Init => H!Init
  <2> SUFFICES ASSUME Init PROVE Extents = {} BY DEF H!Init
  <2>1. DOMAIN live = {} BY DEF Init
  <2> QED BY <2>1 DEF Extents
<1>2. PoolInv /\ PoolInv' /\ [Next]_vars => [H!Next]_Extents
  <2> SUFFICES ASSUME PoolInv, PoolInv', [Next]_vars
               PROVE  H!Next \/ Extents' = Extents
    OBVIOUS
  <2>1. ASSUME live' = live PROVE Extents' = Extents BY <2>1 DEF Extents
  <2>2. CASE UNCHANGED vars BY <2>1, <2>2 DEF vars
  <2>3. ASSUME NEW n \in Requests, Allocate(n) PROVE H!Next \/ Extents' = Extents
    <3>1. CASE Reuse(n)
      <4>1. PICK p \in Carved \ DOMAIN live : live' = With(live, p, n) BY <3>1, ReuseKeeps
      <4>2. p \in Nat \ DOMAIN live BY <4>1 DEF PoolInv, Types
      <4> QED BY <4>1, <4>2, HandingOut DEF H!Next
    <3>2. CASE Carve(n) \/ NewBlock(n)
      <4>1. PICK p \in Nat \ Carved : live' = With(live, p, n)
        BY <3>2, CarveKeeps, NewBlockKeeps
      <4>2. p \in Nat \ DOMAIN live BY <4>1 DEF PoolInv, Types
      <4> QED BY <4>1, <4>2, HandingOut DEF H!Next
    <3>3. CASE MapFails(n) BY <2>2, <3>3 DEF MapFails
    <3>4. CASE MadviseFails(n) BY <2>1, <3>4 DEF MadviseFails
    <3>5. CASE MallocFails(n) BY <2>1, <3>5 DEF MallocFails
    <3> QED BY <2>3, <3>1, <3>2, <3>3, <3>4, <3>5 DEF Allocate
  <2>4. ASSUME NEW p \in DOMAIN live, Deallocate(p) PROVE H!Next
    BY <2>4, TakingBack DEF Deallocate, H!Next
  <2>5. ASSUME NEW p \in DOMAIN live, Use(p) PROVE Extents' = Extents
    BY <2>1, <2>5 DEF Use
  <2>6. CASE Destroy BY <2>1, <2>6 DEF Destroy
  <2> QED BY <2>2, <2>3, <2>4, <2>5, <2>6 DEF Next
<1> QED BY <1>1, <1>2, PoolInvariant, PTL DEF Spec, ImplementsHeap, H!Spec

-----------------------------------------------------------------------------
(***************************************************************************)
(* The free lists.  Following the links from the head of a bank gives the  *)
(* items of its list from the first to the last, then Null.                *)
(***************************************************************************)
LEMMA ItemIs ==
  ASSUME PoolInv, NEW owner \in Owners, NEW len \in Lengths, NEW free \in Lists,
         ListsOk(owner, len, free), NEW b \in Banks, NEW k \in Nat
  PROVE  ItemOf(b, k) = IF k <= len[b] THEN free[b][len[b] - k] ELSE Null
<1> DEFINE Follow(f) == [i \in Nat |->
             IF i = 0 THEN head[b]
             ELSE IF f[i - 1] \in Carved THEN word[f[i - 1]] ELSE f[i - 1]]
           Nth(i) == IF i <= len[b] THEN free[b][len[b] - i] ELSE Null
           nth == [i \in Nat |-> Nth(i)]
           item == CHOOSE f : f = Follow(f)
<1>1. ItemOf(b, k) = item[k] BY DEF ItemOf
<1>2. len[b] \in Nat BY DEF Lengths
<1>3. /\ free[b][0] = Null /\ head[b] = free[b][len[b]]
      /\ \A i \in 1..len[b] : free[b][i] \in Carved /\ word[free[b][i]] = free[b][i - 1]
  BY DEF ListsOk
<1>4. Null \notin Carved BY DEF PoolInv, Types, Null
<1>5. ASSUME NEW i \in Nat
      PROVE  Nth(i) = IF i = 0 THEN head[b]
                      ELSE IF Nth(i - 1) \in Carved THEN word[Nth(i - 1)] ELSE Nth(i - 1)
  <2>1. CASE i = 0 BY <1>2, <1>3, <2>1
  <2>2. CASE i # 0 /\ i <= len[b]
    <3>1. len[b] - (i - 1) \in 1..len[b] /\ (len[b] - (i - 1)) - 1 = len[b] - i
          /\ i - 1 <= len[b]
      BY <1>2, <2>2
    <3> QED BY <1>3, <2>2, <3>1
  <2>3. CASE i # 0 /\ ~(i <= len[b])
    <3>1. Nth(i) = Null BY <2>3
    <3>2. Nth(i - 1) = Null
      <4>1. CASE i - 1 <= len[b]
        <5>1. len[b] - (i - 1) = 0 BY <1>2, <2>3, <4>1
        <5> QED BY <1>3, <4>1, <5>1
      <4>2. CASE ~(i - 1 <= len[b]) BY <4>2
      <4> QED BY <4>1, <4>2
    <3> HIDE DEF Nth
    <3> QED BY <1>4, <2>3, <3>1, <3>2
  <2> QED BY <2>1, <2>2, <2>3
<1>6. nth = Follow(nth)
  <2>1. ASSUME NEW i \in Nat PROVE nth[i] = Follow(nth)[i]
    <3>1. nth[i] = Nth(i) OBVIOUS
    <3>2. i # 0 => i - 1 \in Nat /\ nth[i - 1] = Nth(i - 1) OBVIOUS
    <3>3. Follow(nth)[i] = IF i = 0 THEN head[b]
            ELSE IF nth[i - 1] \in Carved THEN word[nth[i - 1]] ELSE nth[i - 1]
      <4> HIDE DEF nth
      <4> QED OBVIOUS
    <3> HIDE DEF Nth, nth, Follow
    <3> QED BY <1>5, <3>1, <3>2, <3>3
  <2>2. nth = [i \in Nat |-> nth[i]] OBVIOUS
  <2>3. Follow(nth) = [i \in Nat |-> Follow(nth)[i]] OBVIOUS
  <2> HIDE DEF nth, Follow
  <2> QED BY <2>1, <2>2, <2>3
<1>7. item = Follow(item)
  <2> HIDE DEF nth, Follow
  <2> QED BY <1>6
<1>8. \A i \in Nat : item[i] = Nth(i)
  <2> DEFINE T == {i \in Nat : item[i] # Nth(i)}
  <2> SUFFICES ASSUME T # {} PROVE FALSE OBVIOUS
  <2>1. PICK i \in T : \A j \in T : i <= j BY BP!LeastNumber, SizesAssumption
  <2>2. i \in Nat /\ item[i] # Nth(i) OBVIOUS
  <2>3. item[i] = IF i = 0 THEN head[b]
                  ELSE IF item[i - 1] \in Carved THEN word[item[i - 1]] ELSE item[i - 1]
    <3> HIDE DEF item
    <3> QED BY <1>7, <2>2
  <2>4. i # 0 => item[i - 1] = Nth(i - 1)
    <3> SUFFICES ASSUME i # 0 PROVE item[i - 1] = Nth(i - 1) OBVIOUS
    <3>1. i - 1 \in Nat /\ ~(i <= i - 1) BY <2>2
    <3>2. i - 1 \notin T BY <2>1, <3>1
    <3> QED BY <3>1, <3>2
  <2> HIDE DEF item, Nth, T
  <2> QED BY <1>5, <2>2, <2>3, <2>4
<1> HIDE DEF item, Nth
<1> QED BY <1>1, <1>8 DEF Nth

\* A list is no longer than there are items.
LEMMA ListFits ==
  ASSUME PoolInv, NEW owner \in Owners, NEW len \in Lengths, NEW free \in Lists,
         ListsOk(owner, len, free), NEW b \in Banks
  PROVE  Cardinality(Carved) \in Nat /\ len[b] <= Cardinality(Carved)
<1> DEFINE g == [i \in 1..len[b] |-> free[b][i]]
<1>1. len[b] \in Nat BY DEF Lengths
<1>2. /\ \A i \in 1..len[b] : free[b][i] \in Carved
      /\ \A i, j \in 1..len[b] : free[b][i] = free[b][j] => i = j
  BY DEF ListsOk
<1>3. g \in Injection(1..len[b], Carved)
  <2>1. g \in [1..len[b] -> Carved] BY <1>2
  <2>2. \A i, j \in 1..len[b] : g[i] = g[j] => i = j BY <1>2
  <2> HIDE DEF g
  <2> QED BY <2>1, <2>2 DEF Injection, IsInjective
<1>4. IsFiniteSet(Carved) BY DEF PoolInv, Types
<1>5. Cardinality(1..len[b]) <= Cardinality(Carved)
  BY <1>3, <1>4, FS_Injection DEF ExistsInjection
<1>6. Cardinality(1..len[b]) = len[b] BY <1>1, FS_Interval
<1> QED BY <1>4, <1>5, <1>6, FS_CardinalityType

(***************************************************************************)
(* The free lists have exactly the items that are not in use, each in one  *)
(* list, and end: whatever the containers write into their items.          *)
(***************************************************************************)
THEOREM ListsSound == Spec => []FreeListsSound
<1>1. PoolInv => FreeListsSound
  <2> SUFFICES ASSUME PoolInv PROVE FreeListsSound OBVIOUS
  <2>1. PICK owner \in Owners, len \in Lengths, free \in Lists :
          ListsOk(owner, len, free) /\ AllFound(owner, len, free)
    BY DEF PoolInv
  <2> DEFINE card == Cardinality(Carved)
  <2>2. ASSUME NEW b \in Banks
        PROVE  /\ len[b] \in Nat /\ card \in Nat /\ len[b] <= card
               /\ free[b][0] = Null
               /\ \A i \in 1..len[b] : free[b][i] \in Carved \ DOMAIN live /\ owner[free[b][i]] = b
               /\ \A k \in Nat :
                    ItemOf(b, k) = IF k <= len[b] THEN free[b][len[b] - k] ELSE Null
    <3>1. len[b] \in Nat BY DEF Lengths
    <3>2. card \in Nat /\ len[b] <= card BY <2>1, ListFits
    <3>3. /\ free[b][0] = Null
          /\ \A i \in 1..len[b] : free[b][i] \in Carved \ DOMAIN live /\ owner[free[b][i]] = b
      BY <2>1 DEF ListsOk
    <3>4. \A k \in Nat : ItemOf(b, k) = IF k <= len[b] THEN free[b][len[b] - k] ELSE Null
      BY <2>1, ItemIs
    <3> QED BY <3>1, <3>2, <3>3, <3>4
  <2> HIDE DEF card
  <2>3. Null \notin Carved BY DEF PoolInv, Types, Null
  <2>4. ASSUME NEW b \in Banks
        PROVE  FreeItems(b) = {free[b][i] : i \in 1..len[b]}
    <3>1. FreeItems(b) = {ItemOf(b, k) : k \in 0..card} \ {Null} BY DEF FreeItems, card
    <3>2. ASSUME NEW x \in FreeItems(b) PROVE x \in {free[b][i] : i \in 1..len[b]}
      <4>1. PICK k \in 0..card : x = ItemOf(b, k) /\ x # Null BY <3>1
      <4>2. k \in Nat /\ k <= len[b] /\ x = free[b][len[b] - k] BY <2>2, <4>1
      <4>3. len[b] - k \in 1..len[b]
        <5>1. len[b] - k # 0 BY <2>2, <4>1, <4>2
        <5> QED BY <2>2, <4>2, <5>1
      <4> QED BY <4>2, <4>3
    <3>3. ASSUME NEW i \in 1..len[b] PROVE free[b][i] \in FreeItems(b)
      <4> DEFINE k == len[b] - i
      <4>1. k \in 0..card /\ k \in Nat /\ k <= len[b] /\ len[b] - k = i BY <2>2
      <4> HIDE DEF k
      <4>2. ItemOf(b, k) = free[b][i] BY <2>2, <4>1
      <4>3. free[b][i] # Null BY <2>2, <2>3
      <4> QED BY <3>1, <4>1, <4>2, <4>3
    <3> QED BY <3>2, <3>3
  <2>5. ASSUME NEW b \in Banks PROVE ItemOf(b, Cardinality(Carved)) = Null
    <3>1. card \in Nat /\ len[b] \in Nat /\ len[b] <= card /\ free[b][0] = Null BY <2>2
    <3>2. card <= len[b] => len[b] - card = 0 BY <3>1
    <3> QED BY <2>2, <3>1, <3>2 DEF card
  <2>6. ASSUME NEW b \in Banks, NEW c \in Banks \ {b}
        PROVE  FreeItems(b) \cap FreeItems(c) = {}
    <3>1. \A x \in FreeItems(b) : owner[x] = b BY <2>2, <2>4
    <3>2. \A x \in FreeItems(c) : owner[x] = c BY <2>2, <2>4
    <3> QED BY <3>1, <3>2
  <2>7. UNION {FreeItems(b) : b \in Banks} = Carved \ DOMAIN live
    <3>1. ASSUME NEW b \in Banks PROVE FreeItems(b) \subseteq Carved \ DOMAIN live
      BY <2>2, <2>4
    <3>2. ASSUME NEW p \in Carved \ DOMAIN live PROVE \E b \in Banks : p \in FreeItems(b)
      <4>1. owner[p] \in Banks BY DEF Owners
      <4>2. PICK i \in 1..len[owner[p]] : free[owner[p]][i] = p BY <2>1 DEF AllFound
      <4>3. p \in FreeItems(owner[p]) BY <2>4, <4>1, <4>2
      <4> QED BY <4>1, <4>3
    <3> QED BY <3>1, <3>2
  <2> QED BY <2>5, <2>6, <2>7 DEF FreeListsSound
<1> QED BY <1>1, PoolInvariant, PTL
=============================================================================
