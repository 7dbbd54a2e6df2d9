--------------------------- MODULE BitUtilsProofs ---------------------------
(***************************************************************************)
(* The partial logarithms of libs/BitUtils.h, for every resolution, number *)
(* and width of the machine types.                                         *)
(***************************************************************************)
EXTENDS BitUtils, FiniteSetTheorems, WellFoundedInduction, TLAPS

\* Every set of numbers has a least one: a claim about all numbers holds if each
\* counterexample has a smaller one.
LEMMA LeastNumber ==
  ASSUME NEW T \in SUBSET Nat, T # {}
  PROVE  \E n \in T : \A m \in T : n <= m
<1> DEFINE R == {ss \in Nat \X Nat : ss[1] < ss[2]}
<1>1. IsWellFoundedOn(R, Nat)
  BY NatLessThanWellFounded DEF OpToRel
<1>2. PICK n \in T : \A m \in T : <<m, n>> \notin R
  BY <1>1, WFMin
<1>3. ASSUME NEW m \in T PROVE n <= m
  <2>1. ~(m < n) BY <1>2
  <2> QED BY <2>1
<1> QED BY <1>3

-----------------------------------------------------------------------------
(***************************************************************************)
(* Powers of two, which the provers know only as numbers of subsets.       *)
(***************************************************************************)
LEMMA PowerIsSubsets ==
  ASSUME NEW n \in Nat
  PROVE  /\ 2^n = Cardinality(SUBSET (1..n)) /\ IsFiniteSet(SUBSET (1..n))
         /\ 2^n \in Nat /\ 2^n > 0
<1>1. IsFiniteSet(1..n) /\ Cardinality(1..n) = n
  BY FS_Interval
<1>2. IsFiniteSet(SUBSET (1..n)) /\ Cardinality(SUBSET (1..n)) = 2^n
  BY <1>1, FS_SUBSET
<1>3. Cardinality(SUBSET (1..n)) \in Nat BY <1>2, FS_CardinalityType
<1>4. Cardinality(SUBSET (1..n)) # 0
  <2>1. {} \in SUBSET (1..n) OBVIOUS
  <2>2. SUBSET (1..n) # {} BY <2>1
  <2> QED BY <1>2, <2>2, FS_EmptySet
<1> QED BY <1>2, <1>3, <1>4

LEMMA NoPower == 2^0 = 1
<1>1. 1..0 = {} OBVIOUS
<1>2. SUBSET {} = {{}} OBVIOUS
<1>3. Cardinality({{}}) = 1 BY FS_Singleton
<1>4. 2^0 = Cardinality(SUBSET (1..0)) BY PowerIsSubsets
<1> QED BY <1>1, <1>2, <1>3, <1>4

LEMMA NextPower ==
  ASSUME NEW n \in Nat
  PROVE  2^(n + 1) = 2 * 2^n
<1> DEFINE S == SUBSET (1..n)
           T == {A \cup {n + 1} : A \in S}
           f == [A \in S |-> A \cup {n + 1}]
<1>1. \A A \in S : n + 1 \notin A OBVIOUS
<1>2. SUBSET (1..(n + 1)) = S \cup T
  <2>1. 1..(n + 1) = (1..n) \cup {n + 1} OBVIOUS
  <2>2. ASSUME NEW A \in SUBSET (1..(n + 1)) PROVE A \in S \cup T
    <3>1. CASE n + 1 \in A
      <4>1. A \ {n + 1} \in S BY <2>1
      <4>2. A = (A \ {n + 1}) \cup {n + 1} BY <3>1
      <4> QED BY <4>1, <4>2
    <3>2. CASE n + 1 \notin A BY <2>1, <3>2
    <3> QED BY <3>1, <3>2
  <2>3. ASSUME NEW A \in S \cup T PROVE A \in SUBSET (1..(n + 1))
    BY <2>1
  <2> QED BY <2>2, <2>3
<1>3. S \cap T = {} BY <1>1
<1>4. f \in Bijection(S, T)
  <2>1. f \in [S -> T] OBVIOUS
  <2>2. \A A, B \in S : f[A] = f[B] => A = B BY <1>1
  <2>3. \A t \in T : \E A \in S : f[A] = t OBVIOUS
  <2> HIDE DEF f, S, T
  <2> QED BY <2>1, <2>2, <2>3 DEF Bijection, Injection, Surjection, IsInjective
<1>5. IsFiniteSet(S) /\ Cardinality(S) = 2^n /\ 2^n \in Nat BY PowerIsSubsets
<1>6. IsFiniteSet(T) /\ Cardinality(T) = 2^n
  BY <1>4, <1>5, FS_Bijection DEF ExistsBijection
<1> DEFINE c == 2^n
<1>7. Cardinality(S \cup T) = c + c
  <2>1. c \in Nat /\ Cardinality(S) = c /\ Cardinality(T) = c BY <1>5, <1>6
  <2>2. IsFiniteSet(S) /\ IsFiniteSet(T) BY <1>5, <1>6
  <2> HIDE DEF S, T, c
  <2>3. Cardinality(S \cap T) = 0 BY <1>3, FS_EmptySet
  <2>4. Cardinality(S \cup T) = Cardinality(S) + Cardinality(T) - Cardinality(S \cap T)
    BY <2>2, FS_Union
  <2> QED BY <2>1, <2>3, <2>4
<1>8. 2^(n + 1) = Cardinality(SUBSET (1..(n + 1)))
  <2>1. n + 1 \in Nat OBVIOUS
  <2> QED BY <2>1, PowerIsSubsets
<1>9. c + c = 2 * c BY <1>5
<1> HIDE DEF S, T
<1> QED BY <1>2, <1>7, <1>8, <1>9

LEMMA PowerOfSum ==
  ASSUME NEW a \in Nat, NEW b \in Nat
  PROVE  2^(a + b) = 2^a * 2^b
<1> DEFINE T == {n \in Nat : 2^(a + n) # 2^a * 2^n}
<1> SUFFICES ASSUME T # {} PROVE FALSE OBVIOUS
<1>1. PICK n \in T : \A m \in T : n <= m BY LeastNumber
<1>2. n \in Nat /\ 2^(a + n) # 2^a * 2^n OBVIOUS
<1>3. 2^a \in Nat BY PowerIsSubsets
<1>4. CASE n = 0 BY <1>2, <1>3, <1>4, NoPower
<1>5. CASE n # 0
  <2> DEFINE k == n - 1
  <2>1. k \in Nat /\ n = k + 1 /\ a + n = (a + k) + 1 /\ ~(n <= k) BY <1>2, <1>5
  <2>2. k \notin T BY <1>1, <2>1
  <2>3. 2^(a + k) = 2^a * 2^k BY <2>1, <2>2
  <2>4. 2^n = 2 * 2^k /\ 2^k \in Nat BY <2>1, NextPower, PowerIsSubsets
  <2>5. 2^(a + n) = 2 * 2^(a + k)
    <3>1. a + k \in Nat BY <2>1
    <3> QED BY <2>1, <3>1, NextPower
  <2>6. ASSUME NEW x \in Nat, NEW y \in Nat PROVE 2 * (x * y) = x * (2 * y)
    OBVIOUS
  <2> QED BY <1>2, <1>3, <2>3, <2>4, <2>5, <2>6
<1> QED BY <1>4, <1>5

LEMMA PowersGrow ==
  ASSUME NEW a \in Nat, NEW b \in Nat
  PROVE  /\ a < b => 2 * 2^a <= 2^b
         /\ a <= b => 2^a <= 2^b
         /\ 2^a < 2^b => a < b
<1>1. 2^a \in Nat /\ 2^a > 0 /\ 2^b \in Nat /\ 2^b > 0 BY PowerIsSubsets
<1>2. ASSUME NEW c \in Nat, NEW d \in Nat, c < d PROVE 2 * 2^c <= 2^d
  <2> DEFINE e == d - c - 1
  <2>1. e \in Nat /\ d = (c + 1) + e /\ c + 1 \in Nat BY <1>2
  <2> HIDE DEF e
  <2>2. 2^d = 2^(c + 1) * 2^e BY <2>1, PowerOfSum
  <2>3. 2^(c + 1) = 2 * 2^c BY NextPower
  <2>4. 2^c \in Nat /\ 2^e \in Nat /\ 2^e > 0 BY <2>1, PowerIsSubsets
  <2>5. ASSUME NEW x \in Nat, NEW y \in Nat, y > 0 PROVE x <= x * y
    BY <2>5
  <2> QED BY <2>2, <2>3, <2>4, <2>5
<1>3. a < b => 2 * 2^a <= 2^b BY <1>2
<1>4. a <= b => 2^a <= 2^b
  <2>1. CASE a < b BY <1>1, <1>3, <2>1
  <2>2. CASE a = b BY <1>1, <2>2
  <2> QED BY <2>1, <2>2
<1>5. 2^a < 2^b => a < b
  <2> SUFFICES ASSUME ~(a < b) PROVE ~(2^a < 2^b) OBVIOUS
  <2>1. CASE b = a BY <1>1, <2>1
  <2>2. CASE b < a
    <3>1. 2 * 2^b <= 2^a BY <1>2, <2>2
    <3> QED BY <1>1, <3>1
  <2> QED BY <2>1, <2>2
<1> QED BY <1>3, <1>4, <1>5

\* The bins of every octave fit a word, of one bit or more, when an octave has two.
LEMMA TwiceFits ==
  ASSUME NEW n \in Nat \ {0}
  PROVE  2 * n <= 2^n
<1> DEFINE T == {m \in Nat \ {0} : ~(2 * m <= 2^m)}
<1> SUFFICES ASSUME T # {} PROVE FALSE OBVIOUS
<1>1. PICK m \in T : \A k \in T : m <= k BY LeastNumber
<1>2. m \in Nat /\ m > 0 /\ ~(2 * m <= 2^m) OBVIOUS
<1>3. 2^1 = 2 /\ 2^2 = 4
  <2>1. 2^(0 + 1) = 2 * 2^0 /\ 2^(1 + 1) = 2 * 2^1 BY NextPower
  <2> QED BY <2>1, NoPower
<1>4. m > 2
  <2>1. CASE m = 1 BY <1>2, <1>3, <2>1
  <2>2. CASE m = 2 BY <1>2, <1>3, <2>2
  <2> QED BY <1>2, <2>1, <2>2
<1>5. m - 1 \in Nat \ {0} /\ m - 1 \notin T BY <1>1, <1>2, <1>4
<1>6. 2 * (m - 1) <= 2^(m - 1) BY <1>5
<1>7. 2^m = 2 * 2^(m - 1)
  <2>1. 2^((m - 1) + 1) = 2 * 2^(m - 1) BY <1>5, NextPower
  <2>2. (m - 1) + 1 = m BY <1>2
  <2> QED BY <2>1, <2>2
<1>8. 2^(m - 1) \in Nat BY <1>5, PowerIsSubsets
<1> QED BY <1>2, <1>4, <1>6, <1>7, <1>8

-----------------------------------------------------------------------------
(***************************************************************************)
(* Shifts and masks, as quotients and remainders.                          *)
(***************************************************************************)
LEMMA Division ==
  ASSUME NEW p \in Nat, p > 0, NEW n \in Nat
  PROVE  /\ n \div p \in Nat /\ n % p \in 0..(p - 1)
         /\ n = ((n \div p) * p) + (n % p)
OBVIOUS

LEMMA Quotient ==
  ASSUME NEW p \in Nat, p > 0, NEW q \in Nat, NEW r \in Nat, r < p
  PROVE  (q * p + r) \div p = q /\ (q * p + r) % p = r
<1> DEFINE n == q * p + r
           k == n \div p
           s == n % p
<1>1. n \in Nat OBVIOUS
<1>2. k \in Nat /\ s \in 0..(p - 1) /\ n = k * p + s
  <2> HIDE DEF n
  <2> QED BY <1>1, Division
<1>3. q * p + r = k * p + s BY <1>2
<1> HIDE DEF k, s, n
<1>4. ASSUME NEW x \in Nat, NEW y \in Nat, x < y PROVE x * p + p <= y * p
  <2> DEFINE d == y - x - 1
  <2>1. d \in Nat /\ y = x + 1 + d BY <1>4
  <2> HIDE DEF d
  <2>2. y * p = x * p + p + d * p BY <2>1
  <2>3. d * p \in Nat BY <2>1
  <2>4. x * p \in Nat OBVIOUS
  <2> QED BY <2>2, <2>3, <2>4
<1>5. q * p \in Nat /\ k * p \in Nat BY <1>2
<1>6. ~(q < k)
  <2> SUFFICES ASSUME q < k PROVE FALSE OBVIOUS
  <2>1. q * p + p <= k * p BY <1>2, <1>4
  <2> QED BY <1>2, <1>3, <1>5, <2>1
<1>7. ~(k < q)
  <2> SUFFICES ASSUME k < q PROVE FALSE OBVIOUS
  <2>1. k * p + p <= q * p BY <1>2, <1>4
  <2> QED BY <1>2, <1>3, <1>5, <2>1
<1>8. k = q BY <1>2, <1>6, <1>7
<1>9. s = r BY <1>2, <1>3, <1>5, <1>8
<1> QED BY <1>8, <1>9 DEF k, s, n

LEMMA SmallRemainder ==
  ASSUME NEW p \in Nat, NEW n \in Nat, n < p
  PROVE  n % p = n /\ n \div p = 0
<1>1. p > 0 /\ 0 * p + n = n OBVIOUS
<1> QED BY <1>1, Quotient

\* How many of W bits a number needs: the octave it lies in.
LEMMA BitsOfOctave ==
  ASSUME NEW W \in Nat, NEW b \in Nat, b < W, NEW n \in Nat, 2^b <= n, n < 2^(b + 1)
  PROVE  Cardinality({k \in 0..(W - 1) : 2^k <= n}) = b + 1
<1>1. {k \in 0..(W - 1) : 2^k <= n} = 0..b
  <2>1. ASSUME NEW k \in 0..(W - 1), 2^k <= n PROVE k \in 0..b
    <3>1. k \in Nat /\ b + 1 \in Nat OBVIOUS
    <3>2. 2^k \in Nat /\ 2^(b + 1) \in Nat BY <3>1, PowerIsSubsets
    <3>3. 2^k < 2^(b + 1) BY <2>1, <3>2
    <3>4. k < b + 1 BY <3>1, <3>3, PowersGrow
    <3> QED BY <3>1, <3>4
  <2>2. ASSUME NEW k \in 0..b PROVE k \in 0..(W - 1) /\ 2^k <= n
    <3>1. k \in Nat /\ k <= b OBVIOUS
    <3>2. 2^k <= 2^b BY <3>1, PowersGrow
    <3>3. 2^k \in Nat /\ 2^b \in Nat BY <3>1, PowerIsSubsets
    <3>4. 2^k <= n BY <3>2, <3>3
    <3> QED BY <3>1, <3>4
  <2> QED BY <2>1, <2>2
<1>2. Cardinality(0..b) = b + 1 BY FS_Interval
<1> QED BY <1>1, <1>2

LEMMA WidthOfOctave ==
  ASSUME NEW b \in Nat, b < Width, NEW n \in Nat, 2^b <= n, n < 2^(b + 1)
  PROVE  BitWidth(n) = b + 1
BY WidthAssumption, BitsOfOctave DEF BitWidth

\* Every number other than 0 lies in an octave.
LEMMA OctaveBelow ==
  ASSUME NEW W \in Nat, NEW n \in Nat, n > 0, n < 2^W
  PROVE  \E b \in Nat : b < W /\ 2^b <= n /\ n < 2^(b + 1)
<1>0. 2^W \in Nat BY PowerIsSubsets
<1> DEFINE T == {m \in Nat : n < 2^m}
<1>1. W \in T OBVIOUS
<1>2. PICK m \in T : \A k \in T : m <= k BY <1>1, LeastNumber
<1>3. m \in Nat /\ n < 2^m /\ m <= W BY <1>1, <1>2
<1>4. m # 0
  <2> SUFFICES ASSUME m = 0 PROVE FALSE OBVIOUS
  <2>1. n < 1 BY <1>3, NoPower
  <2> QED BY <2>1
<1> DEFINE b == m - 1
<1>5. b \in Nat /\ m = b + 1 /\ b < m /\ b < W BY <1>3, <1>4
<1>6. b \notin T BY <1>2, <1>3, <1>5
<1>7. 2^b \in Nat BY <1>5, PowerIsSubsets
<1>8. 2^b <= n BY <1>5, <1>6, <1>7
<1> QED BY <1>3, <1>5, <1>8

LEMMA OctaveOf ==
  ASSUME NEW n \in Words, n > 0
  PROVE  \E b \in Nat : b < Width /\ 2^b <= n /\ n < 2^(b + 1)
<1>1. n \in Nat /\ Width \in Nat /\ 2^Width \in Nat /\ n < 2^Width
  BY WidthAssumption, PowerIsSubsets DEF Words
<1> QED BY <1>1, OctaveBelow

-----------------------------------------------------------------------------
(***************************************************************************)
(* The bins.  A number of at least 2^B is q * 2^d and a rest, with q of    *)
(* B + 1 bits; its bin is q + d * 2^B, and the range of the bin has the    *)
(* numbers with that q and that d.                                         *)
(***************************************************************************)
InBin(B, d, q, n) ==
  /\ d \in Nat /\ q \in Nat
  /\ 2^B <= q /\ q < 2 * 2^B
  /\ q * 2^d <= n /\ n < (q + 1) * 2^d

LEMMA MonotoneProduct ==
  ASSUME NEW x \in Nat, NEW y \in Nat, NEW p \in Nat
  PROVE  /\ x * p \in Nat
         /\ x <= y => x * p <= y * p
         /\ x < y => x * p + p <= y * p
         /\ x * p < y * p => x < y
<1>1. \A a, b \in Nat : a * b \in Nat OBVIOUS
<1>2. ASSUME NEW a \in Nat, NEW b \in Nat, a <= b PROVE a * p <= b * p
  <2> DEFINE c == b - a
  <2>1. c \in Nat /\ b = a + c BY <1>2
  <2> HIDE DEF c
  <2>2. b * p = a * p + c * p BY <2>1
  <2> QED BY <1>1, <2>1, <2>2
<1>3. x < y => x * p + p <= y * p
  <2> SUFFICES ASSUME x < y PROVE x * p + p <= y * p OBVIOUS
  <2>1. (x + 1) * p <= y * p BY <1>2
  <2>2. (x + 1) * p = x * p + p OBVIOUS
  <2> QED BY <2>1, <2>2
<1>4. x * p < y * p => x < y
  <2> SUFFICES ASSUME y <= x PROVE ~(x * p < y * p) OBVIOUS
  <2>1. y * p <= x * p BY <1>2
  <2>2. y * p \in Nat /\ x * p \in Nat BY <1>1
  <2> QED BY <2>1, <2>2
<1> QED BY <1>1, <1>2, <1>3, <1>4

\* Such a number is in the octave of B + d + 1 bits.
LEMMA OctaveBounds ==
  ASSUME NEW B \in Nat, NEW d, NEW q, NEW n \in Nat, InBin(B, d, q, n)
  PROVE  /\ 2^(B + d) <= n /\ n < 2^(B + d + 1)
         /\ 2^(B + d) = 2^B * 2^d
<1> DEFINE P == 2^B
           D == 2^d
<1>0. d \in Nat /\ q \in Nat /\ B + d \in Nat BY DEF InBin
<1>1. P \in Nat /\ P > 0 /\ D \in Nat /\ D > 0 BY <1>0, PowerIsSubsets
<1>2. P <= q /\ q < 2 * P /\ q * D <= n /\ n < (q + 1) * D BY DEF InBin
<1>3. 2^(B + d) = P * D BY <1>0, PowerOfSum
<1>4. 2^(B + d + 1) = 2 * (P * D)
  <2>1. 2^((B + d) + 1) = 2 * 2^(B + d) BY <1>0, NextPower
  <2> QED BY <1>0, <1>3, <2>1
<1> HIDE DEF P, D
<1>5. P * D <= q * D /\ P * D \in Nat /\ q * D \in Nat BY <1>0, <1>1, <1>2, MonotoneProduct
<1>6. (q + 1) * D <= (2 * P) * D
  <2>1. q + 1 \in Nat /\ 2 * P \in Nat /\ q + 1 <= 2 * P BY <1>0, <1>1, <1>2
  <2> QED BY <1>1, <2>1, MonotoneProduct
<1>7. (2 * P) * D = 2 * (P * D) /\ (q + 1) * D \in Nat BY <1>0, <1>1
<1>8. P * D <= n /\ n < 2 * (P * D) BY <1>2, <1>5, <1>6, <1>7
<1> QED BY <1>3, <1>4, <1>8 DEF P, D

\* Of the numbers of W bits none lies in a later octave.
LEMMA OctaveBelowWidth ==
  ASSUME NEW W \in Nat, NEW b \in Nat, NEW n \in Nat, 2^b <= n, n < 2^W
  PROVE  b < W
<1>1. 2^b \in Nat /\ 2^W \in Nat BY PowerIsSubsets
<1>2. 2^b < 2^W BY <1>1
<1> QED BY <1>2, PowersGrow

LEMMA OctaveOfBin ==
  ASSUME NEW B \in Nat, NEW d, NEW q, NEW n \in Words, InBin(B, d, q, n)
  PROVE  /\ 2^(B + d) <= n /\ n < 2^(B + d + 1) /\ B + d < Width
         /\ 2^(B + d) = 2^B * 2^d
         /\ BitWidth(n) = B + d + 1
<1>1. n \in Nat /\ Width \in Nat /\ 2^Width \in Nat /\ n < 2^Width
  BY WidthAssumption, PowerIsSubsets DEF Words
<1>2. 2^(B + d) <= n /\ n < 2^(B + d + 1) /\ 2^(B + d) = 2^B * 2^d BY <1>1, OctaveBounds
<1> DEFINE b == B + d
<1>3. b \in Nat BY DEF InBin
<1>4. 2^b <= n /\ n < 2^(b + 1) BY <1>2
<1> HIDE DEF b
<1>5. b < Width BY <1>1, <1>3, <1>4, OctaveBelowWidth
<1>6. BitWidth(n) = b + 1 BY <1>1, <1>3, <1>4, <1>5, WidthOfOctave
<1> QED BY <1>2, <1>5, <1>6 DEF b

\* The quotient of a number by what lies below its leading bits.
LEMMA Leading ==
  ASSUME NEW q \in Nat, NEW D \in Nat, D > 0, NEW n \in Nat,
         q * D <= n, n < (q + 1) * D
  PROVE  n \div D = q
<1> DEFINE r == n - q * D
<1>1. q * D \in Nat /\ (q + 1) * D = q * D + D BY MonotoneProduct
<1>2. r \in Nat /\ r < D /\ n = q * D + r BY <1>1
<1> HIDE DEF r
<1> QED BY <1>2, Quotient

\* The bits that follow the first.
LEMMA NextBits ==
  ASSUME NEW B \in Nat, NEW d, NEW q, NEW n \in Nat, InBin(B, d, q, n)
  PROVE  ~(n < 2^B) /\ (n \div 2^d) % 2^B = q - 2^B
<1> DEFINE P == 2^B
           D == 2^d
<1>0. d \in Nat /\ q \in Nat BY DEF InBin
<1>1. P \in Nat /\ P > 0 /\ D \in Nat /\ D > 0 BY <1>0, PowerIsSubsets
<1>2. P <= q /\ q < 2 * P /\ q * D <= n /\ n < (q + 1) * D BY DEF InBin
<1>3. ~(n < P)
  <2>1. P * D <= n
    <3>1. P * D = 2^(B + d) /\ 2^(B + d) <= n BY OctaveBounds
    <3> QED BY <3>1
  <2> HIDE DEF P, D
  <2>2. P * 1 <= P * D
    <3>1. 1 * P <= D * P BY <1>1, MonotoneProduct
    <3> QED BY <1>1, <3>1
  <2> QED BY <1>1, <2>1, <2>2
<1> HIDE DEF P, D
<1>4. n \div D = q BY <1>0, <1>1, <1>2, Leading
<1>5. q % P = q - P
  <2> DEFINE r == q - P
  <2>1. r \in Nat /\ r < P /\ q = 1 * P + r BY <1>0, <1>1, <1>2
  <2> HIDE DEF r
  <2>2. (1 * P + r) % P = r BY <1>1, <2>1, Quotient
  <2> QED BY <2>1, <2>2 DEF r
<1> QED BY <1>3, <1>4, <1>5 DEF P, D

LEMMA BinIs ==
  ASSUME NEW B \in Nat, NEW d, NEW q, NEW n \in Words, InBin(B, d, q, n)
  PROVE  ILog2(B, n) = q + d * 2^B
<1> DEFINE P == 2^B
<1>1. d \in Nat /\ q \in Nat /\ n \in Nat BY DEF InBin, Words
<1>2. BitWidth(n) = B + d + 1 BY OctaveOfBin
<1>3. ~(n < P) /\ (n \div 2^d) % P = q - P BY <1>1, NextBits
<1>4. (B + d + 1) - B - 1 = d /\ (B + d + 1) - B = d + 1 BY <1>1
<1>5. ILog2(B, n) = (q - P) + (d + 1) * P BY <1>2, <1>3, <1>4 DEF ILog2
<1>6. P \in Nat BY PowerIsSubsets
<1> HIDE DEF P
<1>7. (q - P) + (d + 1) * P = q + d * P BY <1>1, <1>6
<1> QED BY <1>5, <1>7 DEF P

\* Every number from 2^B on is in a bin.
LEMMA SomeBin ==
  ASSUME NEW B \in Nat, NEW n \in Nat, 2^B <= n
  PROVE  \E d, q \in Nat : InBin(B, d, q, n)
<1>0. 2^B \in Nat /\ 2^B > 0 BY PowerIsSubsets
<1>1. PICK b \in Nat : 2^b <= n /\ n < 2^(b + 1)
  <2>1. n > 0 BY <1>0
  <2>2. 2 * n <= 2^n /\ 2^n \in Nat BY <2>1, TwiceFits, PowerIsSubsets
  <2>3. n < 2^n BY <2>1, <2>2
  <2> QED BY <2>1, <2>3, OctaveBelow
<1>2. 2^(b + 1) \in Nat /\ b + 1 \in Nat
  <2>1. b + 1 \in Nat OBVIOUS
  <2> QED BY <2>1, PowerIsSubsets
<1>3. B <= b
  <2>1. 2^B < 2^(b + 1) BY <1>0, <1>1, <1>2
  <2>2. B < b + 1 BY <1>2, <2>1, PowersGrow
  <2> QED BY <2>2
<1> DEFINE d == b - B
           P == 2^B
           D == 2^d
           q == n \div D
<1>4. d \in Nat /\ b = B + d BY <1>3
<1>5. 2^b = P * D BY <1>4, PowerOfSum
<1>6. P \in Nat /\ P > 0 /\ D \in Nat /\ D > 0 BY <1>0, <1>4, PowerIsSubsets
<1>7. 2^(b + 1) = 2 * (P * D)
  <2>1. 2^(b + 1) = 2 * 2^b BY NextPower
  <2> QED BY <1>5, <2>1
<1> HIDE DEF P, D
<1>8. q \in Nat /\ n % D \in 0..(D - 1) /\ n = (q * D) + (n % D) BY <1>0, <1>6, Division
<1> HIDE DEF q
<1>9. q * D <= n /\ n < (q + 1) * D
  <2>1. q * D \in Nat /\ (q + 1) * D = q * D + D BY <1>6, <1>8
  <2> QED BY <1>0, <1>6, <1>8, <2>1
<1>10. P <= q
  <2>1. P * D < (q + 1) * D
    <3>1. P * D \in Nat /\ (q + 1) * D \in Nat BY <1>6, <1>8
    <3> QED BY <1>0, <1>1, <1>5, <1>9, <3>1
  <2>2. q + 1 \in Nat BY <1>8
  <2>3. P < q + 1 BY <1>6, <2>1, <2>2, MonotoneProduct
  <2> QED BY <1>6, <1>8, <2>3
<1>11. q < 2 * P
  <2>1. q * D < (2 * P) * D
    <3>1. q * D \in Nat /\ (2 * P) * D = 2 * (P * D) /\ P * D \in Nat BY <1>6, <1>8
    <3> QED BY <1>0, <1>1, <1>7, <1>9, <3>1
  <2>2. 2 * P \in Nat BY <1>6
  <2> QED BY <1>6, <1>8, <2>1, <2>2, MonotoneProduct
<1>12. InBin(B, d, q, n) BY <1>4, <1>8, <1>9, <1>10, <1>11 DEF InBin, P, D
<1> QED BY <1>4, <1>8, <1>12

\* The first number after a bin is the first of the next one.
LEMMA BinAfter ==
  ASSUME NEW B \in Nat, NEW d \in Nat, NEW q \in Nat, 2^B <= q, q < 2 * 2^B,
         NEW n \in Words, n = (q + 1) * 2^d
  PROVE  ILog2(B, n) = q + 1 + d * 2^B
<1> DEFINE P == 2^B
           D == 2^d
<1>1. P \in Nat /\ P > 0 /\ D \in Nat /\ D > 0 BY PowerIsSubsets
<1>2. CASE q + 1 < 2 * P
  <2>1. (q + 1) * D <= n /\ n < (q + 2) * D
    <3> HIDE DEF P, D
    <3>1. (q + 2) * D = (q + 1) * D + D /\ (q + 1) * D \in Nat BY <1>1
    <3> QED BY <1>1, <3>1 DEF D
  <2>2. q + 1 \in Nat /\ (q + 1) + 1 = q + 2 /\ P <= q + 1 BY <1>1
  <2>3. InBin(B, d, q + 1, n) BY <1>2, <2>1, <2>2 DEF InBin
  <2> QED BY <2>3, BinIs
<1>3. CASE q + 1 = 2 * P
  <2>1. d + 1 \in Nat /\ 2^(d + 1) = 2 * D BY NextPower
  <2>2. n = P * (2 * D) /\ n < (P + 1) * (2 * D) /\ P < 2 * P
    <3>0. n = (2 * P) * D BY <1>3
    <3> HIDE DEF P, D
    <3>1. (2 * P) * D = P * (2 * D) /\ (P + 1) * (2 * D) = P * (2 * D) + 2 * D
      BY <1>1
    <3>2. P * (2 * D) \in Nat BY <1>1
    <3> QED BY <1>1, <3>0, <3>1, <3>2
  <2>3. P * (2 * D) <= n
    <3>1. n \in Nat BY DEF Words
    <3> QED BY <2>2, <3>1
  <2>4. InBin(B, d + 1, P, n)  BY <1>1, <2>1, <2>2, <2>3 DEF InBin
  <2>5. ILog2(B, n) = P + (d + 1) * P BY <2>4, BinIs
  <2> HIDE DEF P, D
  <2>6. P + (d + 1) * P = 2 * P + d * P BY <1>1
  <2> QED BY <1>3, <2>5, <2>6 DEF P
<1> QED BY <1>1, <1>2, <1>3

-----------------------------------------------------------------------------
(***************************************************************************)
(* irange2() undoes ilog2(), if the bins of all octaves fit a word.        *)
(***************************************************************************)
LEMMA RangeIs ==
  ASSUME NEW B \in Nat, Width * 2^B <= 2^Width,
         NEW d, NEW q, NEW n \in Words, InBin(B, d, q, n)
  PROVE  IRange2(B, ILog2(B, n)) = [base |-> q * 2^d, range |-> 2^d]
<1> DEFINE P == 2^B
           D == 2^d
           W == 2^Width
           r == q - P
           bin == q + d * P
<1>0. d \in Nat /\ q \in Nat /\ B + d \in Nat /\ Width \in Nat
  BY WidthAssumption DEF InBin
<1>1. P \in Nat /\ P > 0 /\ D \in Nat /\ D > 0 BY <1>0, PowerIsSubsets
<1>2. W \in Nat /\ n \in Nat /\ n < W
  <2>1. W \in Nat BY <1>0, PowerIsSubsets
  <2> QED BY <2>1 DEF Words
<1>3. P <= q /\ q < 2 * P /\ q * D <= n /\ n < (q + 1) * D BY DEF InBin
<1>4. ILog2(B, n) = bin BY BinIs
<1>5. B + d < Width /\ Width * P <= W BY OctaveOfBin
<1> HIDE DEF P, D, W
<1>6. r \in Nat /\ r < P BY <1>0, <1>1, <1>3
<1>7. d * P \in Nat /\ bin = (d + 1) * P + r BY <1>0, <1>1
<1>8. bin + (B - 1) * P = (B + d) * P + r BY <1>0, <1>1
<1>9. ~(bin < P) BY <1>0, <1>1, <1>3, <1>7
<1>10. (B + d) * P + r \in Nat /\ (B + d) * P + r < W
  <2>1. (B + d) * P + P <= Width * P BY <1>0, <1>1, <1>5, MonotoneProduct
  <2>2. (B + d) * P \in Nat /\ Width * P \in Nat BY <1>0, <1>1
  <2> QED BY <1>1, <1>2, <1>5, <1>6, <2>1, <2>2
<1> HIDE DEF r
<1>11. ((bin + (B - 1) * P) % W) \div P = B + d
  <2>1. ((B + d) * P + r) % W = (B + d) * P + r BY <1>2, <1>10, SmallRemainder
  <2>2. ((B + d) * P + r) \div P = B + d BY <1>0, <1>1, <1>6, Quotient
  <2> QED BY <1>8, <2>1, <2>2
<1>12. bin % P = r
  <2>1. d + 1 \in Nat BY <1>0
  <2> HIDE DEF bin
  <2> QED BY <1>1, <1>6, <1>7, <2>1, Quotient
<1>13. P + r = q BY <1>0, <1>1 DEF r
<1>14. (q * D) % W = q * D
  <2>1. q * D \in Nat BY <1>0, <1>1
  <2>2. q * D < W BY <1>2, <1>3, <2>1
  <2> QED BY <1>2, <2>1, <2>2, SmallRemainder
<1>15. D % W = D
  <2>1. 1 * D <= q * D BY <1>0, <1>1, <1>3, MonotoneProduct
  <2>2. q * D \in Nat /\ 1 * D = D BY <1>0, <1>1
  <2>3. D < W BY <1>1, <1>2, <1>3, <2>1, <2>2
  <2> QED BY <1>1, <1>2, <2>3, SmallRemainder
<1>16. (B + d) - B = d BY <1>0
<1>17. IRange2(B, bin) = [base |-> ((P + r) * 2^d) % W, range |-> 2^d % W]
  <2> HIDE DEF bin
  <2> QED BY <1>9, <1>11, <1>12, <1>16 DEF IRange2, P, W
<1> QED BY <1>4, <1>13, <1>14, <1>15, <1>17 DEF D

\* The numbers of the range are those of the bin, and it is narrow.
LEMMA RangeOfBin ==
  ASSUME NEW B \in Nat, Width * 2^B <= 2^Width, NEW n \in Words
  PROVE  LET r == IRange2(B, ILog2(B, n))
         IN  /\ r.base \in Nat /\ r.range \in Nat
             /\ r.base <= n /\ n < r.base + r.range
             /\ r.range = 1 \/ r.range * 2^B <= r.base
<1>0. n \in Nat BY DEF Words
<1> DEFINE P == 2^B
<1>1. P \in Nat /\ P > 0 BY PowerIsSubsets
<1>2. CASE n < P
  <2>1. ILog2(B, n) = n BY <1>2 DEF ILog2
  <2>2. IRange2(B, n) = [base |-> n, range |-> 1] BY <1>2 DEF IRange2
  <2> QED BY <1>0, <2>1, <2>2
<1>3. CASE P <= n
  <2>1. PICK d, q \in Nat : InBin(B, d, q, n) BY <1>0, <1>3, SomeBin
  <2>2. IRange2(B, ILog2(B, n)) = [base |-> q * 2^d, range |-> 2^d] BY <2>1, RangeIs
  <2> DEFINE D == 2^d
  <2>3. D \in Nat BY PowerIsSubsets
  <2>4. P <= q /\ q * D <= n /\ n < (q + 1) * D BY <2>1 DEF InBin
  <2> HIDE DEF D, P
  <2>5. (q + 1) * D = q * D + D /\ q * D \in Nat BY <2>3
  <2>6. D * P <= q * D
    <3>1. P * D <= q * D BY <1>1, <2>3, <2>4, MonotoneProduct
    <3> QED BY <1>1, <2>3, <3>1
  <2> QED BY <2>2, <2>3, <2>4, <2>5, <2>6 DEF D, P
<1> QED BY <1>0, <1>1, <1>2, <1>3

LEMMA BinOfPower ==
  ASSUME NEW B \in Nat, 2^B \in Words
  PROVE  ILog2(B, 2^B) = 2^B
<1> DEFINE P == 2^B
<1>1. P \in Nat /\ P > 0 BY PowerIsSubsets
<1>2. 2^0 = 1 /\ P * 1 <= P /\ P < (P + 1) * 1 /\ P < 2 * P BY <1>1, NoPower
<1>3. InBin(B, 0, P, P) BY <1>1, <1>2 DEF InBin
<1>4. ILog2(B, P) = P + 0 * P BY <1>3, BinIs
<1> QED BY <1>1, <1>4

\* The next number is in the same bin until the range is used up, then in the next.
LEMMA NextBin ==
  ASSUME NEW B \in Nat, Width * 2^B <= 2^Width, NEW n \in Words, n + 1 \in Words
  PROVE  LET r == IRange2(B, ILog2(B, n))
         IN  ILog2(B, n + 1) =
               ILog2(B, n) + (IF n + 1 = r.base + r.range THEN 1 ELSE 0)
<1>0. n \in Nat /\ n + 1 \in Nat BY DEF Words
<1> DEFINE P == 2^B
<1>1. P \in Nat /\ P > 0 BY PowerIsSubsets
<1>2. CASE n < P
  <2>1. ILog2(B, n) = n BY <1>2 DEF ILog2
  <2>2. IRange2(B, n) = [base |-> n, range |-> 1] BY <1>2 DEF IRange2
  <2>3. ILog2(B, n + 1) = n + 1
    <3>1. CASE n + 1 < P BY <3>1 DEF ILog2
    <3>2. CASE n + 1 = P
      <4> QED BY <3>2, BinOfPower
    <3> QED BY <1>0, <1>1, <1>2, <3>1, <3>2
  <2> QED BY <1>0, <2>1, <2>2, <2>3
<1>3. CASE P <= n
  <2>1. PICK d, q \in Nat : InBin(B, d, q, n) BY <1>0, <1>3, SomeBin
  <2>2. IRange2(B, ILog2(B, n)) = [base |-> q * 2^d, range |-> 2^d] BY <2>1, RangeIs
  <2>3. ILog2(B, n) = q + d * P BY <2>1, BinIs
  <2> DEFINE D == 2^d
  <2>4. D \in Nat BY PowerIsSubsets
  <2>5. P <= q /\ q < 2 * P /\ q * D <= n /\ n < (q + 1) * D BY <2>1 DEF InBin
  <2>6. (q + 1) * D = q * D + D /\ q * D \in Nat /\ q + d * P \in Nat
    <3> HIDE DEF D, P
    <3> QED BY <1>1, <2>4
  <2>7. CASE n + 1 = (q + 1) * D
    <3>1. ILog2(B, n + 1) = q + 1 + d * P BY <2>5, <2>7, BinAfter
    <3>2. q + 1 + d * P = (q + d * P) + 1
      <4>1. d * P \in Nat
        <5> HIDE DEF P
        <5> QED BY <1>1
      <4> QED BY <4>1
    <3> QED BY <2>2, <2>3, <2>6, <2>7, <3>1, <3>2
  <2>8. CASE n + 1 # (q + 1) * D
    <3>1. q * D <= n + 1 /\ n + 1 < (q + 1) * D
      <4> HIDE DEF D, P
      <4> QED BY <1>0, <2>4, <2>5, <2>6, <2>8
    <3>2. InBin(B, d, q, n + 1) BY <2>5, <3>1 DEF InBin
    <3>3. ILog2(B, n + 1) = q + d * P BY <3>2, BinIs
    <3> QED BY <2>2, <2>3, <2>6, <2>8, <3>3
  <2> QED BY <2>7, <2>8
<1> QED BY <1>0, <1>1, <1>2, <1>3

-----------------------------------------------------------------------------
(***************************************************************************)
(* The floating-point versions.  Rounding to a double leaves a number in   *)
(* its bin or makes it the first of the next one: the ends of a bin have   *)
(* few enough bits.                                                        *)
(***************************************************************************)
LEMMA ExactDouble ==
  ASSUME NEW n \in Words, n > 0, n < 2^(Mantissa + 1)
  PROVE  AsDouble(n) = n
<1>0. n \in Nat BY DEF Words
<1>1. PICK b \in Nat : b < Width /\ 2^b <= n /\ n < 2^(b + 1) BY OctaveOf
<1>2. BitWidth(n) = b + 1 BY <1>0, <1>1, WidthOfOctave
<1>3. b < Mantissa + 1
  <2>1. Mantissa + 1 \in Nat BY MantissaAssumption
  <2>2. 2^b \in Nat /\ 2^(Mantissa + 1) \in Nat BY <2>1, PowerIsSubsets
  <2>3. 2^b < 2^(Mantissa + 1) BY <1>0, <1>1, <2>2
  <2> QED BY <2>1, <2>3, PowersGrow
<1>4. BitWidth(n) - (Mantissa + 1) <= 0 BY <1>2, <1>3, MantissaAssumption
<1> QED BY <1>4 DEF AsDouble

LEMMA RoundedInBin ==
  ASSUME NEW B \in Nat, B < Mantissa, NEW d, NEW q, NEW n \in Words, InBin(B, d, q, n)
  PROVE  /\ AsDouble(n) \in Nat
         /\ q * 2^d <= AsDouble(n) /\ AsDouble(n) <= (q + 1) * 2^d
<1> DEFINE drop == (B + d + 1) - (Mantissa + 1)
           U == 2^drop
           D == 2^d
           k == n \div U
           rest == n % U
<1>0. d \in Nat /\ q \in Nat /\ n \in Nat /\ Mantissa \in Nat
  BY MantissaAssumption DEF InBin, Words
<1>1. BitWidth(n) = B + d + 1 BY OctaveOfBin
<1>2. q * D <= n /\ n < (q + 1) * D BY DEF InBin
<1>3. D \in Nat /\ D > 0 BY <1>0, PowerIsSubsets
<1>4. CASE drop <= 0
  <2>1. AsDouble(n) = n BY <1>1, <1>4 DEF AsDouble
  <2>2. (q + 1) * D \in Nat
    <3> HIDE DEF D
    <3> QED BY <1>0, <1>3
  <2> QED BY <1>0, <1>2, <2>1, <2>2
<1>5. CASE drop > 0
  <2> DEFINE e == d - drop
             V == 2^e
  <2>1. drop \in Nat /\ e \in Nat /\ d = drop + e BY <1>0, <1>5
  <2> HIDE DEF drop, e
  <2>2. U \in Nat /\ U > 0 /\ V \in Nat /\ D = U * V
    BY <2>1, PowerIsSubsets, PowerOfSum
  <2>3. AsDouble(n) \in {n - rest, (n - rest) + U}
    <3>1. BitWidth(n) - (Mantissa + 1) = drop /\ ~(drop <= 0) BY <1>0, <1>1, <1>5 DEF drop
    <3>2. \E c \in BOOLEAN : AsDouble(n) = IF c THEN (n - rest) + U ELSE n - rest
      BY <3>1 DEF AsDouble
    <3> QED BY <3>2
  <2> HIDE DEF U, V, D
  <2>4. k \in Nat /\ rest \in 0..(U - 1) /\ n = (k * U) + rest BY <1>0, <2>2, Division
  <2> HIDE DEF k, rest
  <2>5. n - rest = k * U /\ (n - rest) + U = (k + 1) * U /\ k * U \in Nat
        /\ (k + 1) * U = k * U + U
    BY <1>0, <2>2, <2>4
  <2>6. q * D = (q * V) * U /\ (q + 1) * D = ((q + 1) * V) * U /\ q * V \in Nat
        /\ (q + 1) * V \in Nat
    BY <1>0, <2>2
  <2>7. k < (q + 1) * V
    <3>1. k * U < ((q + 1) * V) * U
      <4>1. ((q + 1) * V) * U \in Nat BY <2>2, <2>6
      <4> QED BY <1>0, <1>2, <2>2, <2>4, <2>5, <2>6, <4>1
    <3> QED BY <2>2, <2>4, <2>6, <3>1, MonotoneProduct
  <2>8. (k + 1) * U <= (q + 1) * D
    <3>1. k * U + U <= ((q + 1) * V) * U BY <2>2, <2>4, <2>6, <2>7, MonotoneProduct
    <3> QED BY <2>5, <2>6, <3>1
  <2>9. q * V <= k
    <3>1. (q * V) * U < (k + 1) * U
      <4>1. (q * V) * U \in Nat BY <2>2, <2>6
      <4> QED BY <1>0, <1>2, <2>2, <2>4, <2>5, <2>6, <4>1
    <3>2. k + 1 \in Nat BY <2>4
    <3>3. q * V < k + 1 BY <2>2, <2>6, <3>1, <3>2, MonotoneProduct
    <3> QED BY <2>4, <2>6, <3>3
  <2>10. q * D <= k * U BY <2>2, <2>4, <2>6, <2>9, MonotoneProduct
  <2>11. q * D \in Nat /\ (q + 1) * D \in Nat BY <1>0, <1>3
  <2>12. CASE AsDouble(n) = n - rest
    BY <2>2, <2>5, <2>8, <2>10, <2>11, <2>12 DEF D
  <2>13. CASE AsDouble(n) = (n - rest) + U
    BY <2>2, <2>5, <2>8, <2>10, <2>11, <2>13 DEF D
  <2> QED BY <2>3, <2>12, <2>13
<1>6. drop \in Int BY <1>0
<1> QED BY <1>4, <1>5, <1>6

\* What the exponent and the leading bits of the fraction of a double give.
FractionBin(B, x) ==
  LET e == BitWidth(x) - 1 IN (e + 1 - B) * 2^B + (((x - 2^e) * 2^B) \div 2^e)

LEMMA FractionBinIs ==
  ASSUME NEW B \in Nat, NEW x \in Words, 2^B <= x
  PROVE  FractionBin(B, x) = ILog2(B, x)
<1>1. PICK d, q \in Nat : InBin(B, d, q, x) BY SomeBin DEF Words
<1>2. ILog2(B, x) = q + d * 2^B BY <1>1, BinIs
<1>3. BitWidth(x) = B + d + 1 /\ 2^(B + d) = 2^B * 2^d BY <1>1, OctaveOfBin
<1> DEFINE P == 2^B
           D == 2^d
           r == q - P
           s == x - q * D
<1>4. P \in Nat /\ P > 0 /\ D \in Nat /\ D > 0 /\ x \in Nat
  <2>1. x \in Nat BY DEF Words
  <2>2. P \in Nat /\ P > 0 /\ D \in Nat /\ D > 0 BY PowerIsSubsets
  <2> QED BY <2>1, <2>2
<1>5. P <= q /\ q < 2 * P /\ q * D <= x /\ x < (q + 1) * D BY <1>1 DEF InBin
<1>6. (B + d + 1) - 1 = B + d /\ (B + d) + 1 - B = d + 1 OBVIOUS
<1>7. FractionBin(B, x) = (d + 1) * P + (((x - P * D) * P) \div (P * D))
  BY <1>3, <1>6 DEF FractionBin
<1> HIDE DEF P, D
<1>8. q * D \in Nat /\ (q + 1) * D = q * D + D BY <1>4
<1>9. r \in Nat /\ s \in Nat /\ s < D /\ q = P + r /\ x = q * D + s BY <1>4, <1>5, <1>8
<1> HIDE DEF r, s
<1>10. (x - P * D) * P = r * (P * D) + s * P
  <2>1. q * D = P * D + r * D BY <1>4, <1>9
  <2>2. P * D \in Nat /\ r * D \in Nat BY <1>4, <1>9
  <2>3. x - P * D = r * D + s BY <1>4, <1>9, <2>1, <2>2
  <2>4. (r * D + s) * P = r * (P * D) + s * P BY <1>4, <1>9
  <2> QED BY <2>3, <2>4
<1>11. s * P \in Nat /\ s * P < P * D /\ P * D \in Nat
  <2>1. s * P + P <= D * P BY <1>4, <1>9, MonotoneProduct
  <2>2. D * P = P * D /\ s * P \in Nat /\ P * D \in Nat BY <1>4, <1>9
  <2> QED BY <1>4, <2>1, <2>2
<1>12. (r * (P * D) + s * P) \div (P * D) = r
  <2> DEFINE z == s * P
             c == P * D
  <2>1. z \in Nat /\ c \in Nat /\ c > 0 /\ z < c BY <1>11
  <2> HIDE DEF z, c
  <2>2. (r * c + z) \div c = r BY <1>9, <2>1, Quotient
  <2> QED BY <2>2 DEF z, c
<1>13. (d + 1) * P + r = q + d * P BY <1>4, <1>9
<1> QED BY <1>2, <1>7, <1>10, <1>12, <1>13 DEF P

LEMMA FloatBins ==
  ASSUME NEW B \in Nat, B < Mantissa, Mantissa + 3 < Width,
         NEW n \in Words, n < 2^(Mantissa + 3)
  PROVE  /\ n < 2^(Mantissa + 1) => FLog2(B, n) = ILog2(B, n)
         /\ FLog2(B, n) - ILog2(B, n) \in {0, 1}
         /\ UFLog2(B, n) = FLog2(B, n)
<1> DEFINE P == 2^B
           x == AsDouble(n)
<1>0. n \in Nat /\ Mantissa \in Nat /\ Width \in Nat
  BY WidthAssumption, MantissaAssumption DEF Words
<1>1. P \in Nat /\ P > 0 BY PowerIsSubsets
<1>2. CASE n < P
  <2>1. FLog2(B, n) = n /\ UFLog2(B, n) = n /\ ILog2(B, n) = n
    BY <1>0, <1>1, <1>2 DEF FLog2, UFLog2, ILog2
  <2> QED BY <1>0, <2>1
<1>3. CASE P <= n
  <2>1. PICK d, q \in Nat : InBin(B, d, q, n) BY <1>0, <1>3, SomeBin
  <2>2. ILog2(B, n) = q + d * P BY <2>1, BinIs
  <2> DEFINE D == 2^d
  <2>3. D \in Nat /\ D > 0 BY PowerIsSubsets
  <2>4. P <= q /\ q < 2 * P BY <2>1 DEF InBin
  <2>5. x \in Nat /\ q * D <= x /\ x <= (q + 1) * D BY <2>1, RoundedInBin
  <2>6. B + d < Mantissa + 3 /\ 2^(B + d) = P * D
    <3>1. 2^(B + d) <= n /\ 2^(B + d) = P * D BY <2>1, OctaveOfBin
    <3>2. B + d \in Nat /\ Mantissa + 3 \in Nat BY <1>0
    <3>3. 2^(B + d) \in Nat /\ 2^(Mantissa + 3) \in Nat BY <3>2, PowerIsSubsets
    <3>4. 2^(B + d) < 2^(Mantissa + 3) BY <1>0, <3>1, <3>3
    <3> QED BY <3>1, <3>2, <3>4, PowersGrow
  <2>7. x \in Words
    <3>1. 2 * (P * D) < 2^Width
      <4>1. B + d \in Nat /\ (B + d) + 1 \in Nat /\ (B + d) + 1 < Width BY <1>0, <2>6
      <4>2. 2^((B + d) + 1) = 2 * 2^(B + d) BY <4>1, NextPower
      <4>3. 2 * 2^((B + d) + 1) <= 2^Width BY <1>0, <4>1, PowersGrow
      <4>4. 2^((B + d) + 1) \in Nat /\ 2^((B + d) + 1) > 0 BY <4>1, PowerIsSubsets
      <4>5. 2^Width \in Nat BY <1>0, PowerIsSubsets
      <4> QED BY <2>6, <4>2, <4>3, <4>4, <4>5
    <3>2. (q + 1) * D <= 2 * (P * D)
      <4> HIDE DEF P, D
      <4>1. q + 1 \in Nat /\ 2 * P \in Nat /\ q + 1 <= 2 * P BY <1>1, <2>4
      <4>2. (q + 1) * D <= (2 * P) * D BY <2>3, <4>1, MonotoneProduct
      <4> QED BY <1>1, <2>3, <4>2
    <3>3. (q + 1) * D \in Nat /\ 2 * (P * D) \in Nat
      <4> HIDE DEF P, D
      <4> QED BY <1>1, <2>3
    <3>4. 2^Width \in Nat BY <1>0, PowerIsSubsets
    <3> HIDE DEF P, D, x
    <3> QED BY <2>5, <3>1, <3>2, <3>3, <3>4 DEF Words, D
  <2>8. P <= x
    <3> HIDE DEF P, D, x
    <3>1. P * D \in Nat /\ P * 1 <= P * D
      <4>1. 1 * P <= D * P BY <1>1, <2>3, MonotoneProduct
      <4> QED BY <1>1, <2>3, <4>1
    <3>2. P * D <= q * D BY <1>1, <2>3, <2>4, MonotoneProduct
    <3>3. q * D \in Nat BY <2>3
    <3> QED BY <1>1, <2>5, <3>1, <3>2, <3>3 DEF D
  <2>9. FractionBin(B, x) = ILog2(B, x) BY <2>7, <2>8, FractionBinIs
  <2>10. ILog2(B, x) - ILog2(B, n) \in {0, 1}
    <3>0. d * P \in Nat
      <4> HIDE DEF P
      <4> QED BY <1>1
    <3>1. CASE x = (q + 1) * D
      <4>1. ILog2(B, x) = q + 1 + d * P BY <2>4, <2>7, <3>1, BinAfter
      <4> HIDE DEF P, D, x
      <4> QED BY <2>2, <3>0, <4>1 DEF P
    <3>2. CASE x # (q + 1) * D
      <4>1. x < (q + 1) * D
        <5> HIDE DEF P, D, x
        <5>1. (q + 1) * D \in Nat BY <2>3
        <5> QED BY <2>5, <3>2, <5>1 DEF D
      <4>2. InBin(B, d, q, x) BY <2>4, <2>5, <4>1 DEF InBin
      <4>3. ILog2(B, x) = q + d * P BY <2>7, <4>2, BinIs
      <4> HIDE DEF P, D, x
      <4> QED BY <2>2, <3>0, <4>3 DEF P
    <3> QED BY <3>1, <3>2
  <2>11. n < 2^(Mantissa + 1) => x = n BY <1>0, <1>1, <1>3, ExactDouble
  <2>12. UFLog2(B, n) = FractionBin(B, x)
    <3>1. BitWidth(x) \in Nat
      <4>1. x > 0 BY <1>1, <2>5, <2>8
      <4>2. PICK b \in Nat : b < Width /\ 2^b <= x /\ x < 2^(b + 1) BY <2>7, <4>1, OctaveOf
      <4>3. BitWidth(x) = b + 1 BY <2>5, <4>2, WidthOfOctave
      <4> QED BY <4>3
    <3>2. BitWidth(x) - B = (BitWidth(x) - 1) + 1 - B BY <3>1
    <3>3. ~(n < 2^B) BY <1>0, <1>1, <1>3
    <3> QED BY <3>2, <3>3 DEF UFLog2, FractionBin
  <2>13. FLog2(B, n) = FractionBin(B, x)
    <3>1. CASE n = P
      <4>1. P < 2^(Mantissa + 1)
        <5>1. Mantissa + 1 \in Nat /\ B < Mantissa + 1 BY <1>0
        <5>2. 2 * P <= 2^(Mantissa + 1) /\ 2^(Mantissa + 1) \in Nat
          BY <5>1, PowersGrow, PowerIsSubsets
        <5> QED BY <1>1, <5>2
      <4>2. FLog2(B, n) = n BY <1>0, <3>1 DEF FLog2
      <4>3. ILog2(B, P) = P BY <3>1, BinOfPower
      <4> QED BY <2>9, <2>11, <3>1, <4>1, <4>2, <4>3
    <3>2. CASE n # P
      <4>1. ~(n <= P) BY <1>0, <1>1, <1>3, <3>2
      <4> QED BY <4>1 DEF FLog2, FractionBin
    <3> QED BY <3>1, <3>2
  <2> QED BY <2>9, <2>10, <2>11, <2>12, <2>13
<1> QED BY <1>0, <1>1, <1>2, <1>3
=============================================================================
