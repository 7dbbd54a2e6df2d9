------------------------ MODULE TestSchedulerProofs ------------------------
(***************************************************************************)
(* The bound of the schedulers' container, the work that is done, and the  *)
(* agenda both schedulers keep, for any number of items, loops and classes.*)
(***************************************************************************)
EXTENDS TestScheduler, FiniteSetTheorems, WellFoundedInduction, TLAPS

(***************************************************************************)
(* Sums.                                                                   *)
(***************************************************************************)
\* A set of numbers has a least one: inductions are about the least counterexample.
LEMMA LeastNumber ==
  ASSUME NEW T \in SUBSET Nat, T # {}
  PROVE  \E m \in T : \A k \in T : m <= k
<1> DEFINE R == {ss \in Nat \X Nat : ss[1] < ss[2]}
<1>1. IsWellFoundedOn(R, Nat)
  BY NatLessThanWellFounded DEF OpToRel
<1>2. PICK m \in T : \A k \in T : ~(<<k, m>> \in R)
  BY <1>1, WFMin
<1>3. ASSUME NEW k \in T PROVE m <= k
  <2>1. ~(k < m) BY <1>2
  <2> QED BY <2>1
<1> QED BY <1>3

\* The units of work in the entries at the places S: their number is the sum of
\* the classes.
Units(e, S) == UNION {{i} \X (1..e[i].class) : i \in S}

LEMMA UnitsMore ==
  ASSUME NEW e, NEW S, IsFiniteSet(Units(e, S)), NEW i, i \notin S, e[i].class \in Nat
  PROVE  /\ IsFiniteSet(Units(e, S \cup {i}))
         /\ Cardinality(Units(e, S \cup {i})) = e[i].class + Cardinality(Units(e, S))
<1> DEFINE c == e[i].class
           U == {i} \X (1..c)
           f == [k \in 1..c |-> <<i, k>>]
<1>1. IsFiniteSet(1..c) /\ Cardinality(1..c) = c
  <2>1. c \in Nat OBVIOUS
  <2> HIDE DEF c
  <2>2. IsFiniteSet(1..c) /\ Cardinality(1..c) = IF 1 > c THEN 0 ELSE c - 1 + 1
    BY <2>1, FS_Interval
  <2> QED BY <2>1, <2>2
<1>2. f \in Bijection(1..c, U)
  <2>0. \A k \in 1..c : <<i, k>> \in U OBVIOUS
  <2>1. f \in [1..c -> U] BY <2>0
  <2>2. \A a, b \in 1..c : f[a] = f[b] => a = b OBVIOUS
  <2>3. ASSUME NEW u \in U PROVE \E k \in 1..c : u = f[k]
    <3>1. PICK a \in {i}, k \in 1..c : u = <<a, k>> OBVIOUS
    <3> QED BY <3>1
  <2> HIDE DEF f, U, c
  <2>4. f \in Injection(1..c, U) BY <2>1, <2>2 DEF Injection, IsInjective
  <2>5. f \in Surjection(1..c, U) BY <2>1, <2>3 DEF Surjection
  <2> QED BY <2>4, <2>5 DEF Bijection
<1>3. IsFiniteSet(U) /\ Cardinality(U) = c
  <2>1. ExistsBijection(1..c, U) BY <1>2 DEF ExistsBijection
  <2>2. IsFiniteSet(U) BY <1>1, <2>1, FS_Bijection
  <2> QED BY <1>1, <2>1, <2>2, FS_Bijection
<1>4. Units(e, S \cup {i}) = Units(e, S) \cup U BY DEF Units
<1>5. Units(e, S) \cap U = {} BY DEF Units
<1>6. c \in Nat OBVIOUS
<1> HIDE DEF U, c
<1>7. IsFiniteSet(Units(e, S) \cup U) BY <1>3, FS_Union
<1>8. Cardinality(Units(e, S) \cup U)
        = Cardinality(Units(e, S)) + Cardinality(U) - Cardinality(Units(e, S) \cap U)
  BY <1>3, FS_Union
<1>9. Cardinality(Units(e, S) \cap U) = 0 BY <1>5, FS_EmptySet
<1>10. Cardinality(Units(e, S)) \in Nat BY FS_CardinalityType
<1>11. Cardinality(Units(e, S) \cup U) = c + Cardinality(Units(e, S))
  BY <1>3, <1>6, <1>8, <1>9, <1>10
<1> QED BY <1>4, <1>7, <1>11 DEF c

\* The units of finitely many entries are finitely many.
LEMMA UnitsFinite ==
  ASSUME NEW e, NEW S, IsFiniteSet(S), \A i \in S : e[i].class \in Nat
  PROVE  IsFiniteSet(Units(e, S)) /\ Cardinality(Units(e, S)) \in Nat
<1> DEFINE T == {Cardinality(s) : s \in {u \in SUBSET S : ~IsFiniteSet(Units(e, u))}}
<1>1. \A s \in SUBSET S : IsFiniteSet(s) /\ Cardinality(s) \in Nat
  BY FS_Subset, FS_CardinalityType
<1>2. T = {}
  <2> SUFFICES ASSUME T # {} PROVE FALSE OBVIOUS
  <2>1. T \in SUBSET Nat BY <1>1
  <2>2. PICK m \in T : \A k \in T : m <= k BY <2>1, LeastNumber
  <2>3. PICK s \in SUBSET S : ~IsFiniteSet(Units(e, s)) /\ m = Cardinality(s) BY <2>2
  <2>4. CASE s = {}
    <3>1. Units(e, s) = {} BY <2>4 DEF Units
    <3> QED BY <2>3, <3>1, FS_EmptySet
  <2>5. CASE s # {}
    <3>1. PICK i \in s : TRUE BY <2>5
    <3> DEFINE r == s \ {i}
    <3>2. r \in SUBSET S /\ Cardinality(r) = Cardinality(s) - 1
      BY <1>1, <3>1, FS_RemoveElement
    <3>3. Cardinality(r) \in Nat /\ Cardinality(s) \in Nat BY <1>1, <3>2
    <3>4. IsFiniteSet(Units(e, r))
      <4>1. Cardinality(r) \notin T BY <2>2, <2>3, <3>2, <3>3
      <4> QED BY <3>2, <4>1
    <3>5. s = r \cup {i} /\ i \notin r BY <3>1
    <3>6. e[i].class \in Nat BY <3>1
    <3> HIDE DEF r
    <3> QED BY <2>3, <3>4, <3>5, <3>6, UnitsMore
  <2> QED BY <2>4, <2>5
<1> QED BY <1>1, <1>2, FS_CardinalityType

LEMMA WorkIsUnits ==
  ASSUME NEW e, NEW S, IsFiniteSet(S), \A i \in S : e[i].class \in Nat
  PROVE  Work(e, S) = Cardinality(Units(e, S))
<1> DEFINE c(s) == CHOOSE x \in s : TRUE
           F(f) == [s \in SUBSET S |-> IF s = {} THEN 0 ELSE e[c(s)].class + f[s \ {c(s)}]]
           u == [s \in SUBSET S |-> Cardinality(Units(e, s))]
           it == CHOOSE f : f = F(f)
<1>1. Work(e, S) = it[S] BY DEF Work, MapThenSumSet, MapThenFoldSet
<1>2. \A s \in SUBSET S : IsFiniteSet(s) /\ Cardinality(s) \in Nat
  BY FS_Subset, FS_CardinalityType
<1>3. \A s \in SUBSET S : s # {} => c(s) \in s OBVIOUS
<1>4. ASSUME NEW s \in SUBSET S
      PROVE  u[s] = IF s = {} THEN 0 ELSE e[c(s)].class + u[s \ {c(s)}]
  <2>1. CASE s = {}
    <3>1. Units(e, s) = {} BY <2>1 DEF Units
    <3> QED BY <2>1, <3>1, FS_EmptySet
  <2>2. CASE s # {}
    <3> DEFINE i == c(s)
               r == s \ {i}
    <3>1. i \in s BY <1>3, <2>2
    <3> HIDE DEF i
    <3>2. s = r \cup {i} /\ i \notin r /\ r \in SUBSET S /\ i \in S BY <3>1
    <3>3. e[i].class \in Nat BY <3>2
    <3>4. IsFiniteSet(r) BY <1>2, <3>2
    <3>5. IsFiniteSet(Units(e, r)) BY <3>2, <3>4, UnitsFinite
    <3> HIDE DEF r
    <3>6. Cardinality(Units(e, r \cup {i})) = e[i].class + Cardinality(Units(e, r))
      BY <3>2, <3>3, <3>5, UnitsMore
    <3>7. u[s] = e[i].class + u[r] BY <3>2, <3>6
    <3> QED BY <2>2, <3>7 DEF i, r
  <2> QED BY <2>1, <2>2
<1> HIDE DEF c
<1>5. u = F(u) BY <1>4
<1> HIDE DEF u
<1>6. it = F(it) BY <1>5
<1> HIDE DEF it
<1>7. ASSUME NEW s \in SUBSET S
      PROVE  it[s] = IF s = {} THEN 0 ELSE e[c(s)].class + it[s \ {c(s)}]
  BY <1>6
<1> DEFINE T == {Cardinality(s) : s \in {v \in SUBSET S : it[v] # u[v]}}
<1>8. T = {}
  <2> SUFFICES ASSUME T # {} PROVE FALSE OBVIOUS
  <2>1. T \in SUBSET Nat BY <1>2
  <2>2. PICK m \in T : \A k \in T : m <= k BY <2>1, LeastNumber
  <2>3. PICK s \in SUBSET S : it[s] # u[s] /\ m = Cardinality(s) BY <2>2
  <2>4. CASE s = {} BY <1>4, <1>7, <2>3, <2>4
  <2>5. CASE s # {}
    <3>1. c(s) \in s BY <1>3, <2>5
    <3> DEFINE r == s \ {c(s)}
    <3>2. r \in SUBSET S /\ Cardinality(r) = Cardinality(s) - 1
      BY <1>2, <3>1, FS_RemoveElement
    <3>3. Cardinality(r) \in Nat /\ Cardinality(s) \in Nat BY <1>2, <3>2
    <3>4. it[r] = u[r]
      <4>1. Cardinality(r) \notin T
        <5>1. Cardinality(r) < m BY <2>3, <3>2, <3>3
        <5>2. m \in Nat BY <2>3, <3>3
        <5> HIDE DEF r, T
        <5> QED BY <2>2, <3>3, <5>1, <5>2
      <4> QED BY <3>2, <4>1
    <3> QED BY <1>4, <1>7, <2>3, <2>5, <3>4
  <2> QED BY <2>4, <2>5
<1>9. it[S] = u[S] BY <1>8
<1> QED BY <1>1, <1>9 DEF u

\* The same work at other places is as much.
LEMMA WorkMoved ==
  ASSUME NEW e, NEW S, IsFiniteSet(S), \A i \in S : e[i].class \in Nat,
         NEW d, NEW T, NEW h \in Bijection(S, T), \A i \in S : d[h[i]].class = e[i].class
  PROVE  Work(d, T) = Work(e, S)
<1> DEFINE U == Units(e, S)
           V == Units(d, T)
           f == [u \in U |-> <<h[u[1]], u[2]>>]
<1>1. /\ h \in [S -> T] /\ \A a, b \in S : h[a] = h[b] => a = b
      /\ \A x \in T : \E i \in S : h[i] = x
  BY DEF Bijection, Injection, Surjection, IsInjective
<1>2. IsFiniteSet(T) BY FS_Surjection DEF Bijection
<1>3. \A x \in T : d[x].class \in Nat BY <1>1
<1>4. \A u \in U : \E i \in S : \E k \in 1..e[i].class : u = <<i, k>> BY DEF Units
<1>5. f \in [U -> V]
  <2> SUFFICES ASSUME NEW u \in U PROVE <<h[u[1]], u[2]>> \in V OBVIOUS
  <2>0. PICK i \in S : \E k \in 1..e[i].class : u = <<i, k>> BY <1>4
  <2>1. PICK k \in 1..e[i].class : u = <<i, k>> BY <2>0
  <2>2. h[i] \in T /\ k \in 1..d[h[i]].class BY <1>1, <2>1
  <2> QED BY <2>1, <2>2 DEF Units
<1>6. ASSUME NEW u \in U, NEW v \in U, f[u] = f[v] PROVE u = v
  <2>a. PICK a \in S : \E k \in 1..e[a].class : u = <<a, k>> BY <1>4
  <2>1. PICK k \in 1..e[a].class : u = <<a, k>> BY <2>a
  <2>b. PICK b \in S : \E l \in 1..e[b].class : v = <<b, l>> BY <1>4
  <2>2. PICK l \in 1..e[b].class : v = <<b, l>> BY <2>b
  <2>3. <<h[a], k>> = <<h[b], l>> BY <1>6, <2>1, <2>2
  <2>4. h[a] = h[b] /\ k = l BY <2>3
  <2>5. a = b BY <1>1, <2>1, <2>2, <2>4
  <2> QED BY <2>1, <2>2, <2>4, <2>5
<1>7. ASSUME NEW v \in V PROVE \E u \in U : f[u] = v
  <2>0. PICK x \in T : \E k \in 1..d[x].class : v = <<x, k>> BY DEF Units
  <2>1. PICK k \in 1..d[x].class : v = <<x, k>> BY <2>0
  <2>2. PICK i \in S : h[i] = x BY <1>1
  <2>3. <<i, k>> \in U BY <2>1, <2>2 DEF Units
  <2>4. f[<<i, k>>] = v BY <2>1, <2>2, <2>3
  <2> QED BY <2>3, <2>4
<1>8. IsFiniteSet(U) BY UnitsFinite
<1>9. Work(e, S) = Cardinality(U) BY WorkIsUnits
<1>10. Work(d, T) = Cardinality(V) BY <1>2, <1>3, WorkIsUnits
<1> HIDE DEF f, U, V
<1>11. f \in Bijection(U, V)
  BY <1>5, <1>6, <1>7 DEF Bijection, Injection, Surjection, IsInjective
<1>12. ExistsBijection(U, V) BY <1>11 DEF ExistsBijection
<1> QED BY <1>8, <1>9, <1>10, <1>12, FS_Bijection

LEMMA WorkMore ==
  ASSUME NEW e, NEW S, IsFiniteSet(S), \A k \in S : e[k].class \in Nat,
         NEW i, i \notin S, e[i].class \in Nat
  PROVE  Work(e, S \cup {i}) = e[i].class + Work(e, S)
<1>1. IsFiniteSet(S \cup {i}) BY FS_AddElement
<1>2. \A k \in S \cup {i} : e[k].class \in Nat OBVIOUS
<1>3. Work(e, S \cup {i}) = Cardinality(Units(e, S \cup {i})) BY <1>1, <1>2, WorkIsUnits
<1>4. Work(e, S) = Cardinality(Units(e, S)) BY WorkIsUnits
<1>5. IsFiniteSet(Units(e, S)) BY UnitsFinite
<1> QED BY <1>3, <1>4, <1>5, UnitsMore

-----------------------------------------------------------------------------
(***************************************************************************)
(* What the containers and createOneEvent() do.                            *)
(***************************************************************************)
\* What erasing the entry at i leaves, and where.
LEMMA Removed ==
  ASSUME NEW R, NEW s \in Seq(R), NEW i \in 1..Len(s)
  PROVE  LET t == RemoveAt(s, i)
             h == [k \in 1..Len(t) |-> IF k < i THEN k ELSE k + 1]
         IN  /\ t \in Seq(R) /\ Len(t) = Len(s) - 1
             /\ \A k \in 1..Len(t) : t[k] = s[h[k]]
             /\ h \in Bijection(1..Len(t), 1..Len(s) \ {i})
<1> DEFINE t == RemoveAt(s, i)
           h == [k \in 1..Len(t) |-> IF k < i THEN k ELSE k + 1]
           a == SubSeq(s, 1, i - 1)
           b == SubSeq(s, i + 1, Len(s))
<1>1. Len(s) \in Nat /\ i \in Nat /\ 1 <= i /\ i <= Len(s) OBVIOUS
<1>2. a \in Seq(R) /\ Len(a) = i - 1 /\ \A k \in 1..(i - 1) : a[k] = s[k]
  BY <1>1
<1>3. b \in Seq(R) /\ Len(b) = Len(s) - i /\ \A k \in 1..(Len(s) - i) : b[k] = s[i + k]
  BY <1>1
<1>4. t = a \o b BY DEF RemoveAt
<1> HIDE DEF a, b, t
<1>5. t \in Seq(R) /\ Len(t) = Len(s) - 1
  <2>0. a \in Seq(R) /\ b \in Seq(R) BY <1>2, <1>3
  <2>1. t \in Seq(R) /\ Len(t) = Len(a) + Len(b) BY <2>0, <1>4
  <2> QED BY <1>1, <1>2, <1>3, <2>1
<1>6. ASSUME NEW k \in 1..Len(t) PROVE t[k] = s[h[k]]
  <2>1. CASE k < i
    <3>1. k \in 1..(i - 1) BY <1>1, <1>5, <2>1
    <3>2. t[k] = a[k] BY <1>2, <1>3, <1>4, <3>1
    <3> QED BY <1>2, <2>1, <3>1, <3>2
  <2>2. CASE ~(k < i)
    <3> DEFINE m == k - (i - 1)
    <3>1. m \in 1..(Len(s) - i) /\ k = (i - 1) + m /\ i + m = k + 1 BY <1>1, <1>5, <2>2
    <3> HIDE DEF m
    <3>2. t[k] = b[m] BY <1>1, <1>2, <1>3, <1>4, <3>1
    <3>3. b[m] = s[k + 1] BY <1>3, <3>1
    <3> QED BY <2>2, <3>2, <3>3
  <2> QED BY <2>1, <2>2
<1>7. h \in [1..Len(t) -> 1..Len(s) \ {i}] BY <1>1, <1>5
<1>8. \A k, l \in 1..Len(t) : h[k] = h[l] => k = l BY <1>1, <1>5
<1>9. ASSUME NEW x \in 1..Len(s) \ {i} PROVE \E k \in 1..Len(t) : h[k] = x
  <2>1. CASE x < i
    <3>1. x \in 1..Len(t) /\ h[x] = x BY <1>1, <1>5, <2>1
    <3> QED BY <3>1
  <2>2. CASE ~(x < i)
    <3>1. x - 1 \in 1..Len(t) /\ ~(x - 1 < i) BY <1>1, <1>5, <2>2
    <3>2. h[x - 1] = (x - 1) + 1 BY <3>1
    <3> QED BY <3>1, <3>2
  <2> QED BY <2>1, <2>2
<1> HIDE DEF h
<1>10. h \in Bijection(1..Len(t), 1..Len(s) \ {i})
  BY <1>7, <1>8, <1>9 DEF Bijection, Injection, Surjection, IsInjective
<1> QED BY <1>5, <1>6, <1>10 DEF t, h

\* createOneEvent() finds the class it is asked for, and the last one for a number
\* that is beyond the classes.
LEMMA ClassFound ==
  ASSUME NEW c \in Nat
  PROVE  CreateOneEvent(c) = ClassOf(c)
<1> USE MaxClassAssumption
<1> DEFINE D == 0..MaxClass
           Mid(a, b) == (a + b) \div 2
           At(f, a, b) == IF a = b \/ a = Mid(a, b) THEN a
                          ELSE IF c < Mid(a, b) THEN f[<<a, Mid(a, b)>>]
                          ELSE IF c > Mid(a, b) THEN f[<<Mid(a, b), b>>]
                          ELSE Mid(a, b)
           E(f) == [N \in D \X D |-> At(f, N[1], N[2])]
           class == CHOOSE f : f = E(f)
           Up(a, b) == IF c < a THEN a ELSE IF c >= b THEN b - 1 ELSE c
           Down(a, b) == IF c < Mid(a, b) THEN a - 1 ELSE IF c > Mid(a, b) THEN b ELSE c
           Value(a, b) == IF a = b THEN a ELSE IF a < b THEN Up(a, b) ELSE Down(a, b)
           g == [N \in D \X D |-> Value(N[1], N[2])]
<1>1. CreateOneEvent(c) = class[<<0, MaxClass>>] BY DEF CreateOneEvent
<1>2. ASSUME NEW a \in D, NEW b \in D
      PROVE  /\ Mid(a, b) \in D
             /\ a < b => a <= Mid(a, b) /\ Mid(a, b) < b
             /\ b < a => b <= Mid(a, b) /\ Mid(a, b) < a
  OBVIOUS
<1>3. ASSUME NEW a \in D, NEW b \in D PROVE g[<<a, b>>] = At(g, a, b)
  <2> DEFINE m == Mid(a, b)
  <2>1. m \in D BY <1>2
  <2>2. CASE a = b BY <2>2
  <2>3. CASE a < b
    <3>1. a <= m /\ m < b BY <1>2, <2>3
    <3>2. g[<<a, b>>] = Up(a, b) BY <2>3
    <3>3. a < m => g[<<a, m>>] = Up(a, m) BY <2>1
    <3>4. g[<<m, b>>] = Up(m, b) BY <2>1, <3>1
    <3>5. m = a => b = a + 1 BY <2>3
    <3> HIDE DEF g, Mid
    <3>6. CASE m = a BY <2>1, <2>3, <3>2, <3>5, <3>6
    <3>7. CASE a < m
      <4>1. CASE c < m BY <2>1, <2>3, <3>1, <3>2, <3>3, <3>7, <4>1
      <4>2. CASE c = m BY <2>1, <2>3, <3>1, <3>2, <3>7, <4>2
      <4>3. CASE c > m BY <2>1, <2>3, <3>1, <3>2, <3>4, <3>7, <4>3
      <4> QED BY <2>1, <4>1, <4>2, <4>3
    <3> QED BY <2>1, <3>1, <3>6, <3>7
  <2>4. CASE b < a
    <3>1. b <= m /\ m < a BY <1>2, <2>4
    <3>2. g[<<a, b>>] = Down(a, b) BY <2>4
    <3>3. g[<<a, m>>] = Down(a, m) BY <2>1, <3>1
    <3>4. g[<<m, b>>] = IF m = b THEN b ELSE Down(m, b) BY <2>1, <3>1
    <3>5. m <= Mid(a, m) /\ Mid(a, m) \in D BY <1>2, <2>1, <3>1
    <3>6. b < m => Mid(m, b) < m /\ Mid(m, b) \in D BY <1>2, <2>1
    <3> HIDE DEF g, Mid
    <3> QED BY <2>1, <2>4, <3>1, <3>2, <3>3, <3>4, <3>5, <3>6
  <2> QED BY <2>2, <2>3, <2>4
<1>4. g = E(g) BY <1>3
<1> HIDE DEF g
<1>5. class = E(class) BY <1>4
<1> HIDE DEF class
<1>6. ASSUME NEW a \in D, NEW b \in D
      PROVE  class[<<a, b>>] = At(class, a, b)
  BY <1>5
<1> DEFINE V(b) == IF c < b THEN c ELSE b - 1
           T == {l \in Nat : \E a \in D, b \in D :
                   a <= c /\ a < b /\ l = b - a /\ class[<<a, b>>] # V(b)}
<1>7. T = {}
  <2> SUFFICES ASSUME T # {} PROVE FALSE OBVIOUS
  <2>1. PICK l \in T : \A k \in T : l <= k BY LeastNumber
  <2>2. PICK a \in D, b \in D : a <= c /\ a < b /\ l = b - a /\ class[<<a, b>>] # V(b) BY <2>1
  <2> DEFINE m == Mid(a, b)
  <2>3. m \in D /\ a <= m /\ m < b BY <1>2, <2>2
  <2>4. m = a => b = a + 1 BY <2>2
  <2>0. ASSUME NEW k \in Nat, k < l PROVE k \notin T
    <3>1. l \in Nat OBVIOUS
    <3> HIDE DEF T
    <3> QED BY <2>0, <2>1, <3>1
  <2>5. a < m /\ c < m => class[<<a, m>>] = c
    <3> SUFFICES ASSUME a < m, c < m PROVE class[<<a, m>>] = c OBVIOUS
    <3> HIDE DEF m
    <3>1. m - a \in Nat /\ m - a < l BY <2>2, <2>3
    <3>2. m - a \notin T BY <2>0, <3>1
    <3>3. m \in D /\ a <= c /\ c < m BY <2>2, <2>3
    <3> QED BY <3>1, <3>2, <3>3
  <2>6. a < m /\ c > m => class[<<m, b>>] = V(b)
    <3> SUFFICES ASSUME a < m, c > m PROVE class[<<m, b>>] = V(b) OBVIOUS
    <3> HIDE DEF m
    <3>1. b - m \in Nat /\ b - m < l BY <2>2, <2>3
    <3>2. b - m \notin T BY <2>0, <3>1
    <3>3. m \in D /\ m <= c /\ m < b BY <2>2, <2>3
    <3> QED BY <3>1, <3>2, <3>3
  <2>7. class[<<a, b>>] = IF a = b \/ a = m THEN a
                      ELSE IF c < m THEN class[<<a, m>>]
                      ELSE IF c > m THEN class[<<m, b>>] ELSE m
    BY <1>6
  <2> HIDE DEF m
  <2> QED BY <2>2, <2>3, <2>4, <2>5, <2>6, <2>7
<1>8. class[<<0, MaxClass>>] = ClassOf(c)
  <2>1. MaxClass - 0 \in Nat /\ 0 \in D /\ MaxClass \in D OBVIOUS
  <2>2. MaxClass - 0 \notin T BY <1>7
  <2> QED BY <2>1, <2>2 DEF ClassOf
<1> QED BY <1>1, <1>8

-----------------------------------------------------------------------------
(***************************************************************************)
(* The container's bound.                                                  *)
(***************************************************************************)
Entries == [time : Nat, event : Items, class : {CreateOneEvent(c) : c \in 0..NumClasses}]

\* What the steps need to know of the variables' types.
Types ==
  /\ events \in Seq(Entries)
  /\ erand \in [Items -> 0..NumItems]
  /\ index \in [Items -> 0..NumClasses]
  /\ phase \in {"fill", "check", "refill", "recheck", "done"}
  /\ n \in Nat /\ j \in 0..NumItems
  /\ found \in BOOLEAN /\ checking \in BOOLEAN

\* How full the container may be in each section: in the last a check that has run
\* an event has left room for the one that takes its place.
Filled ==
  /\ phase = "fill" => Len(events) <= j
  /\ phase = "check" => Len(events) <= NumItems
  /\ phase = "refill" => Len(events) <= NumItems + j
  /\ phase \in {"recheck", "done"} => Len(events) <= 2 * NumItems
  /\ phase = "recheck" /\ checking /\ found => Len(events) < 2 * NumItems

\* A check is under way only inside a loop.
InLoop == checking => phase \in {"check", "recheck"} /\ j < NumItems /\ n < NumLoops

BoundInv == Types /\ Filled /\ InLoop

-----------------------------------------------------------------------------

\* An entry more.
LEMMA ScheduleLen ==
  ASSUME Types, NEW time \in Nat, NEW k \in Items, ScheduleItem(time, k)
  PROVE  events' \in Seq(Entries) /\ Len(events') = Len(events) + 1
<1>1. [time |-> time, event |-> k, class |-> CreateOneEvent(index[k])] \in Entries
  BY DEF Types, Entries
<1> QED BY <1>1 DEF Types, ScheduleItem, Schedule

\* An entry less.
LEMMA RunLen ==
  ASSUME Types, RunFirst
  PROVE  events' \in Seq(Entries) /\ Len(events') = Len(events) - 1
<1>1. PICK i \in First : events' = RemoveAt(events, i)
  BY DEF RunFirst
<1>2. i \in 1..Len(events)
  BY <1>1 DEF First, Earliest, Types
<1>3. events \in Seq(Entries) BY DEF Types
<1> QED BY <1>1, <1>2, <1>3, Removed

\* The item and the time an event is scheduled for after a check.
LEMMA ReturnTime ==
  ASSUME Types, InLoop, checking
  PROVE  LET k == (NumItems - 1) - j
         IN  /\ k \in Items /\ erand[k] \in 0..NumItems
             /\ n * NumItems + erand[k] \in Nat
             /\ n * NumItems + erand[k] <= (NumLoops + 1) * NumItems
<1> USE SizesAssumption
<1> DEFINE k == (NumItems - 1) - j
<1>1. n \in Nat /\ n < NumLoops /\ j \in 0..NumItems /\ j < NumItems BY DEF Types, InLoop
<1>2. k \in Items BY <1>1 DEF Items
<1>3. erand[k] \in 0..NumItems BY <1>2 DEF Types
<1> HIDE DEF k
<1>4. n * NumItems \in Nat /\ n * NumItems <= NumLoops * NumItems BY <1>1
<1>5. (NumLoops + 1) * NumItems = NumLoops * NumItems + NumItems OBVIOUS
<1> QED BY <1>2, <1>3, <1>4, <1>5 DEF k

LEMMA BoundInit == Init => BoundInv
<1> SUFFICES ASSUME Init PROVE BoundInv OBVIOUS
<1>1. events = <<>> /\ phase = "fill" /\ j = 0 /\ n = 0 /\ checking = FALSE /\ found = FALSE
  BY DEF Init, SchedulerInit
<1>2. events \in Seq(Entries) /\ Len(events) = 0 BY <1>1
<1>3. Types
  <2>1. erand \in [Items -> 0..NumItems] /\ index \in [Items -> 0..NumClasses]
    BY DEF Init
  <2>2. n \in Nat /\ j \in 0..NumItems
    BY <1>1, SizesAssumption
  <2>3. found \in BOOLEAN /\ checking \in BOOLEAN
    BY <1>1
  <2>4. phase \in {"fill", "check", "refill", "recheck", "done"}
    BY <1>1
  <2> QED BY <1>2, <2>1, <2>2, <2>3, <2>4 DEF Types
<1> QED BY <1>1, <1>2, <1>3 DEF BoundInv, Filled, InLoop

LEMMA BoundStep == BoundInv /\ [Next]_vars => BoundInv'
<1> SUFFICES ASSUME BoundInv, [Next]_vars PROVE BoundInv' OBVIOUS
<1> USE SizesAssumption
<1>0. Types /\ Filled /\ InLoop /\ Len(events) \in Nat BY DEF BoundInv, Types
<1>1. CASE Fill
  <2>1. j \in Items /\ erand[j] \in Nat BY <1>0, <1>1 DEF Types, Fill, Items
  <2>2. events' \in Seq(Entries) /\ Len(events') = Len(events) + 1
    BY <1>0, <1>1, <2>1, ScheduleLen DEF Fill
  <2> QED BY <1>0, <1>1, <2>2 DEF BoundInv, Types, Filled, InLoop, Fill, inputs
<1>2. CASE FillEnds
  BY <1>0, <1>2 DEF BoundInv, Types, Filled, InLoop, FillEnds, inputs, schedulerVars
<1>3. CASE Check
  BY <1>0, <1>3 DEF BoundInv, Types, Filled, InLoop, Check, BeginCheck, inputs
<1>4. CASE RunDue
  <2>1. events' \in Seq(Entries) /\ Len(events') = Len(events) - 1
    BY <1>0, <1>4, RunLen DEF RunDue
  <2>2. found' = TRUE BY <1>4 DEF RunDue, RunFirst
  <2> QED BY <1>0, <1>4, <2>1, <2>2 DEF BoundInv, Types, Filled, InLoop, RunDue, inputs
<1>5. CASE CheckReturns
  <2> DEFINE k == (NumItems - 1) - j
  <2>1. phase \in {"check", "recheck"} /\ j < NumItems BY <1>0, <1>5 DEF CheckReturns, InLoop
  <2>2. k \in Items /\ n * NumItems + erand[k] \in Nat
    BY <1>0, <1>5, ReturnTime DEF CheckReturns
  <2>3. /\ UNCHANGED <<erand, index, phase, n, found>>
        /\ j' = j + 1 /\ checking' = FALSE
    BY <1>5 DEF CheckReturns, inputs
  <2>4. events' \in Seq(Entries) /\ Len(events') <= 2 * NumItems
          /\ (phase = "check" => Len(events') <= NumItems)
    <3>1. CASE Reschedules
      <4>1. events' \in Seq(Entries) /\ Len(events') = Len(events) + 1
        BY <1>0, <1>5, <2>2, <3>1, ScheduleLen DEF CheckReturns
      <4>2. Len(events) < 2 * NumItems /\ phase # "check"
        BY <1>0, <1>5, <3>1 DEF Filled, Reschedules, CheckReturns
      <4> QED BY <1>0, <4>1, <4>2
    <3>2. CASE ~Reschedules
      <4>1. events' = events BY <1>5, <3>2 DEF CheckReturns
      <4> QED BY <1>0, <2>1, <4>1 DEF Types, Filled
    <3> QED BY <3>1, <3>2
  <2>5. Types'
    <3>1. j' \in 0..NumItems BY <1>0, <2>1, <2>3 DEF Types
    <3> QED BY <1>0, <2>3, <2>4, <3>1 DEF Types
  <2>6. Filled' BY <2>1, <2>3, <2>4 DEF Filled
  <2> QED BY <2>3, <2>5, <2>6 DEF BoundInv, InLoop
<1>6. CASE NextLoop
  BY <1>0, <1>6 DEF BoundInv, Types, Filled, InLoop, NextLoop, inputs, schedulerVars
<1>7. CASE LoopsEnd
  BY <1>0, <1>7 DEF BoundInv, Types, Filled, InLoop, LoopsEnd, inputs, schedulerVars
<1>8. CASE UNCHANGED vars
  BY <1>0, <1>8 DEF BoundInv, Types, Filled, InLoop, vars, inputs, schedulerVars
<1> QED BY <1>1, <1>2, <1>3, <1>4, <1>5, <1>6, <1>7, <1>8 DEF Next

\* The container never holds more than two entries for each item, whichever
\* scheduler it is and whatever the random times: PendingBound of TestScheduler.
THEOREM Bounded == Spec => []PendingBound
<1>1. BoundInv => PendingBound
  BY SizesAssumption DEF BoundInv, Types, Filled, PendingBound
<1> QED BY <1>1, BoundInit, BoundStep, PTL DEF Spec

-----------------------------------------------------------------------------
(***************************************************************************)
(* The work.                                                               *)
(***************************************************************************)
WorkInv == BoundInv /\ counter \in Int /\ given \in Int /\ WorkConserved

\* An entry's class is the one its item asked for, and a number.
LEMMA Classes ==
  /\ \A r \in Entries : r.class \in Nat
  /\ \A c \in 0..NumClasses : CreateOneEvent(c) = ClassOf(c) /\ ClassOf(c) \in Nat
<1>1. \A c \in 0..NumClasses : c \in Nat /\ ClassOf(c) \in Nat
  BY NumClassesAssumption, MaxClassAssumption DEF ClassOf
<1>2. \A c \in 0..NumClasses : CreateOneEvent(c) = ClassOf(c) /\ ClassOf(c) \in Nat
  BY <1>1, ClassFound
<1> QED BY <1>2 DEF Entries

\* The places of the entries are finitely many.
LEMMA Places ==
  ASSUME NEW s \in Seq(Entries)
  PROVE  /\ DOMAIN s = 1..Len(s) /\ IsFiniteSet(DOMAIN s) /\ Len(s) \in Nat
         /\ \A i \in DOMAIN s : s[i] \in Entries /\ s[i].class \in Nat
<1>1. DOMAIN s = 1..Len(s) /\ Len(s) \in Nat OBVIOUS
<1>2. IsFiniteSet(1..Len(s)) BY <1>1, FS_Interval
<1>3. \A i \in DOMAIN s : s[i] \in Entries OBVIOUS
<1> QED BY <1>1, <1>2, <1>3, Classes

LEMMA WorkAppended ==
  ASSUME NEW s \in Seq(Entries), NEW r \in Entries
  PROVE  LET t == Append(s, r)
         IN  Work(t, DOMAIN t) = Work(s, DOMAIN s) + r.class
<1> DEFINE t == Append(s, r)
           m == Len(s) + 1
           h == [i \in DOMAIN s |-> i]
<1>1. /\ DOMAIN s = 1..Len(s) /\ IsFiniteSet(DOMAIN s) /\ Len(s) \in Nat
      /\ \A i \in DOMAIN s : s[i].class \in Nat
  BY Places
<1>2. r.class \in Nat BY Classes
<1>3. /\ DOMAIN t = DOMAIN s \cup {m} /\ m \notin DOMAIN s
      /\ t[m] = r /\ \A i \in DOMAIN s : t[i] = s[i]
  BY <1>1
<1> HIDE DEF t, m
<1>4. h \in Bijection(DOMAIN s, DOMAIN s)
  BY DEF Bijection, Injection, Surjection, IsInjective
<1>5. \A i \in DOMAIN s : t[h[i]].class = s[i].class BY <1>3
<1> HIDE DEF h
<1>6. Work(t, DOMAIN s) = Work(s, DOMAIN s) BY <1>1, <1>4, <1>5, WorkMoved
<1>7. \A i \in DOMAIN s : t[i].class \in Nat BY <1>1, <1>3
<1>8. t[m].class \in Nat BY <1>2, <1>3
<1>9. Work(t, DOMAIN s \cup {m}) = t[m].class + Work(t, DOMAIN s)
  BY <1>1, <1>3, <1>7, <1>8, WorkMore
<1>10. Work(s, DOMAIN s) \in Nat BY <1>1, WorkIsUnits, UnitsFinite
<1>11. Work(t, DOMAIN t) = r.class + Work(s, DOMAIN s) BY <1>3, <1>6, <1>9
<1>12. r.class + Work(s, DOMAIN s) = Work(s, DOMAIN s) + r.class BY <1>2, <1>10
<1> QED BY <1>11, <1>12 DEF t

LEMMA WorkRemoved ==
  ASSUME NEW s \in Seq(Entries), NEW i \in DOMAIN s
  PROVE  LET t == RemoveAt(s, i)
         IN  Work(t, DOMAIN t) + s[i].class = Work(s, DOMAIN s)
<1> DEFINE t == RemoveAt(s, i)
           S == DOMAIN s \ {i}
           h == [k \in 1..Len(t) |-> IF k < i THEN k ELSE k + 1]
<1>1. /\ DOMAIN s = 1..Len(s) /\ IsFiniteSet(DOMAIN s) /\ Len(s) \in Nat
      /\ \A k \in DOMAIN s : s[k].class \in Nat
  BY Places
<1>2. /\ t \in Seq(Entries)
      /\ \A k \in 1..Len(t) : t[k] = s[h[k]]
      /\ h \in Bijection(1..Len(t), 1..Len(s) \ {i})
  BY <1>1, Removed
<1>3. /\ DOMAIN t = 1..Len(t) /\ IsFiniteSet(DOMAIN t)
      /\ \A k \in DOMAIN t : t[k].class \in Nat
  BY <1>2, Places
<1> HIDE DEF t, h
<1>4. \A k \in DOMAIN t : s[h[k]].class = t[k].class BY <1>2, <1>3
<1>5. h \in Bijection(DOMAIN t, S) BY <1>1, <1>2, <1>3
<1>6. DOMAIN s = S \cup {i} /\ i \notin S OBVIOUS
<1>7. IsFiniteSet(S) BY <1>1, FS_RemoveElement
<1>8. \A k \in S : s[k].class \in Nat BY <1>1
<1> HIDE DEF S
<1>9. Work(s, S) = Work(t, DOMAIN t) BY <1>3, <1>4, <1>5, WorkMoved
<1>10. s[i].class \in Nat BY <1>1
<1>11. Work(s, S \cup {i}) = s[i].class + Work(s, S) BY <1>6, <1>7, <1>8, <1>10, WorkMore
<1>12. Work(s, S) \in Nat BY <1>7, <1>8, WorkIsUnits, UnitsFinite
<1>13. Work(s, DOMAIN s) = s[i].class + Work(s, S) BY <1>6, <1>11
<1>14. Work(t, DOMAIN t) + s[i].class = s[i].class + Work(s, S) BY <1>9, <1>10, <1>12
<1> QED BY <1>13, <1>14 DEF t

LEMMA WorkIsNumber ==
  ASSUME NEW s \in Seq(Entries)
  PROVE  Work(s, DOMAIN s) \in Nat
BY Places, WorkIsUnits, UnitsFinite

\* An entry more is its class more to do, an entry run its class more done.
LEMMA ScheduleWork ==
  ASSUME Types, NEW time \in Nat, NEW k \in Items, ScheduleItem(time, k)
  PROVE  /\ Work(events', DOMAIN events') = Work(events, DOMAIN events) + ClassOf(index[k])
         /\ given' = given + ClassOf(index[k]) /\ ClassOf(index[k]) \in Nat
<1> DEFINE r == [time |-> time, event |-> k, class |-> CreateOneEvent(index[k])]
<1>1. r \in Entries BY DEF Types, Entries
<1>2. events \in Seq(Entries) /\ index[k] \in 0..NumClasses BY DEF Types
<1>3. r.class = ClassOf(index[k]) /\ ClassOf(index[k]) \in Nat BY <1>2, Classes
<1>4. events' = Append(events, r) /\ given' = given + ClassOf(index[k]) BY DEF ScheduleItem, Schedule
<1> HIDE DEF r
<1> QED BY <1>1, <1>2, <1>3, <1>4, WorkAppended

LEMMA RunWork ==
  ASSUME Types, RunFirst, counter \in Int
  PROVE  /\ counter' \in Int
         /\ counter' + Work(events', DOMAIN events') = counter + Work(events, DOMAIN events)
<1>1. PICK i \in First : events' = RemoveAt(events, i) /\ counter' = counter + events[i].class
  BY DEF RunFirst
<1>2. events \in Seq(Entries) /\ i \in DOMAIN events BY <1>1 DEF First, Earliest, Types
<1>3. Work(events', DOMAIN events') + events[i].class = Work(events, DOMAIN events)
  BY <1>1, <1>2, WorkRemoved
<1>4. events' \in Seq(Entries) BY RunLen
<1>5. Work(events', DOMAIN events') \in Nat BY <1>4, WorkIsNumber
<1>6. events[i].class \in Nat BY <1>2, Places
<1> QED BY <1>1, <1>3, <1>5, <1>6

LEMMA WorkInit == Init => WorkInv
<1> SUFFICES ASSUME Init PROVE WorkInv OBVIOUS
<1>1. events = <<>> /\ counter = 0 /\ given = 0 BY DEF Init, SchedulerInit
<1>2. Work(<<>>, {}) = 0
  <2>1. Units(<<>>, {}) = {} BY DEF Units
  <2>2. IsFiniteSet({}) /\ Cardinality({}) = 0 BY FS_EmptySet
  <2>3. Work(<<>>, {}) = Cardinality(Units(<<>>, {})) BY <2>2, WorkIsUnits
  <2> QED BY <2>1, <2>2, <2>3
<1>3. DOMAIN events = {} BY <1>1
<1>4. WorkConserved
  <2>1. Work(events, DOMAIN events) = 0 BY <1>1, <1>2, <1>3
  <2> QED BY <1>1, <2>1 DEF WorkConserved
<1> QED BY <1>1, <1>4, BoundInit DEF WorkInv

LEMMA WorkStep == WorkInv /\ [Next]_vars => WorkInv'
<1> SUFFICES ASSUME WorkInv, [Next]_vars PROVE WorkInv' OBVIOUS
<1>0. /\ BoundInv /\ Types /\ InLoop
      /\ counter \in Int /\ given \in Int
      /\ counter + Work(events, DOMAIN events) = given
      /\ Work(events, DOMAIN events) \in Nat
  BY WorkIsNumber DEF WorkInv, BoundInv, Types, WorkConserved
<1>1. BoundInv' BY <1>0, BoundStep
<1>2. Work(events', DOMAIN events') \in Nat BY <1>1, WorkIsNumber DEF BoundInv, Types
<1>3. ASSUME UNCHANGED <<events, counter, given>> PROVE WorkInv'
  BY <1>0, <1>1, <1>3 DEF WorkInv, WorkConserved
<1>4. ASSUME NEW time \in Nat, NEW k \in Items, ScheduleItem(time, k), counter' = counter
      PROVE  WorkInv'
  <2>1. /\ Work(events', DOMAIN events') = Work(events, DOMAIN events) + ClassOf(index[k])
        /\ given' = given + ClassOf(index[k]) /\ ClassOf(index[k]) \in Nat
    BY <1>0, <1>4, ScheduleWork
  <2>2. counter' + Work(events', DOMAIN events') = given' BY <1>0, <1>4, <2>1
  <2>3. given' \in Int /\ counter' \in Int BY <1>0, <1>4, <2>1
  <2> QED BY <1>1, <2>2, <2>3 DEF WorkInv, WorkConserved
<1>5. CASE Fill
  <2>1. j \in Items /\ erand[j] \in Nat BY <1>0, <1>5, SizesAssumption DEF Types, Fill, Items
  <2> QED BY <1>4, <1>5, <2>1 DEF Fill
<1>6. CASE FillEnds BY <1>3, <1>6 DEF FillEnds, schedulerVars
<1>7. CASE Check BY <1>3, <1>7 DEF Check, BeginCheck
<1>8. CASE RunDue
  <2>1. /\ counter' \in Int
        /\ counter' + Work(events', DOMAIN events') = counter + Work(events, DOMAIN events)
    BY <1>0, <1>8, RunWork DEF RunDue
  <2>2. given' = given BY <1>8 DEF RunDue
  <2> QED BY <1>0, <1>1, <2>1, <2>2 DEF WorkInv, WorkConserved
<1>9. CASE CheckReturns
  <2> DEFINE k == (NumItems - 1) - j
  <2>1. CASE Reschedules
    <3>1. k \in Items /\ n * NumItems + erand[k] \in Nat
      BY <1>0, <1>9, ReturnTime DEF CheckReturns
    <3> QED BY <1>4, <1>9, <2>1, <3>1 DEF CheckReturns
  <2>2. CASE ~Reschedules BY <1>3, <1>9, <2>2 DEF CheckReturns
  <2> QED BY <2>1, <2>2
<1>10. CASE NextLoop BY <1>3, <1>10 DEF NextLoop, schedulerVars
<1>11. CASE LoopsEnd BY <1>3, <1>11 DEF LoopsEnd, schedulerVars
<1>12. CASE UNCHANGED vars BY <1>3, <1>12 DEF vars, schedulerVars
<1> QED BY <1>5, <1>6, <1>7, <1>8, <1>9, <1>10, <1>11, <1>12 DEF Next

\* No event is lost, run twice or of another class than the one asked for, in either
\* scheduler and for any argument of main(), where a number beyond the classes asks
\* for the last of them: WorkConserved of TestScheduler.
THEOREM Conserved == Spec => []WorkConserved
<1>1. WorkInv => WorkConserved BY DEF WorkInv
<1> QED BY <1>1, WorkInit, WorkStep, PTL DEF Spec

-----------------------------------------------------------------------------
(***************************************************************************)
(* The agenda: the bag of the entries' times and items.                    *)
(***************************************************************************)
Entry(r) == <<r.time, r.event>>

PlacesOf(s, x) == {i \in DOMAIN s : Entry(s[i]) = x}

BagOf(s) == [x \in {Entry(s[i]) : i \in DOMAIN s} |-> Cardinality(PlacesOf(s, x))]

LEMMA PlacesFinite ==
  ASSUME NEW s \in Seq(Entries), NEW x
  PROVE  IsFiniteSet(PlacesOf(s, x)) /\ Cardinality(PlacesOf(s, x)) \in Nat
<1>1. IsFiniteSet(DOMAIN s) BY Places
<1>2. PlacesOf(s, x) \subseteq DOMAIN s BY DEF PlacesOf
<1>3. IsFiniteSet(PlacesOf(s, x)) BY <1>1, <1>2, FS_Subset
<1> QED BY <1>3, FS_CardinalityType

\* An entry is in the bag as often as it has places.
LEMMA InBag ==
  ASSUME NEW s \in Seq(Entries), NEW x
  PROVE  x \in DOMAIN BagOf(s) <=> Cardinality(PlacesOf(s, x)) > 0
<1>1. x \in DOMAIN BagOf(s) <=> PlacesOf(s, x) # {} BY DEF BagOf, PlacesOf
<1>2. PlacesOf(s, x) # {} <=> Cardinality(PlacesOf(s, x)) # 0 BY PlacesFinite, FS_EmptySet
<1>3. Cardinality(PlacesOf(s, x)) \in Nat BY PlacesFinite
<1> QED BY <1>1, <1>2, <1>3

LEMMA BagAppended ==
  ASSUME NEW s \in Seq(Entries), NEW r \in Entries
  PROVE  BagOf(Append(s, r)) = BagOf(s) (+) SetToBag({Entry(r)})
<1> DEFINE t == Append(s, r)
           m == Len(s) + 1
           e == Entry(r)
<1>1. t \in Seq(Entries) /\ DOMAIN s = 1..Len(s) /\ Len(s) \in Nat BY Places
<1>2. /\ DOMAIN t = DOMAIN s \cup {m} /\ m \notin DOMAIN s
      /\ t[m] = r /\ \A i \in DOMAIN s : t[i] = s[i]
  BY <1>1
<1> HIDE DEF t, m, e
<1>3. \A x : PlacesOf(t, x) = PlacesOf(s, x) \cup (IF x = e THEN {m} ELSE {})
  BY <1>2 DEF PlacesOf, e
<1>4. ASSUME NEW x
      PROVE  Cardinality(PlacesOf(t, x)) = Cardinality(PlacesOf(s, x)) + (IF x = e THEN 1 ELSE 0)
  <2>1. m \notin PlacesOf(s, x) BY <1>2 DEF PlacesOf
  <2>2. IsFiniteSet(PlacesOf(s, x)) /\ Cardinality(PlacesOf(s, x)) \in Nat BY PlacesFinite
  <2>3. CASE x = e
    <3>1. PlacesOf(t, x) = PlacesOf(s, x) \cup {m} BY <1>3, <2>3
    <3>2. Cardinality(PlacesOf(s, x) \cup {m}) = Cardinality(PlacesOf(s, x)) + 1
      BY <2>1, <2>2, FS_AddElement
    <3> QED BY <2>3, <3>1, <3>2
  <2>4. CASE x # e
    <3>1. PlacesOf(t, x) = PlacesOf(s, x) BY <1>3, <2>4
    <3> QED BY <2>2, <2>4, <3>1
  <2> QED BY <2>3, <2>4
<1>5. DOMAIN BagOf(t) = DOMAIN BagOf(s) \cup {e}
  BY <1>2 DEF BagOf, e
<1>6. ASSUME NEW x \in DOMAIN BagOf(s) \cup {e}
      PROVE  BagOf(t)[x] = (IF x \in DOMAIN BagOf(s) THEN BagOf(s)[x] ELSE 0)
                             + (IF x \in {e} THEN 1 ELSE 0)
  <2>1. BagOf(t)[x] = Cardinality(PlacesOf(t, x)) BY <1>5 DEF BagOf
  <2>2. Cardinality(PlacesOf(s, x)) = IF x \in DOMAIN BagOf(s) THEN BagOf(s)[x] ELSE 0
    <3>1. CASE x \in DOMAIN BagOf(s) BY <3>1 DEF BagOf
    <3>2. CASE x \notin DOMAIN BagOf(s)
      <4>1. ~(Cardinality(PlacesOf(s, x)) > 0) BY <3>2, InBag
      <4>2. Cardinality(PlacesOf(s, x)) \in Nat BY PlacesFinite
      <4> QED BY <3>2, <4>1, <4>2
    <3> QED BY <3>1, <3>2
  <2> QED BY <1>4, <2>1, <2>2
<1>7. BagOf(t) = [x \in DOMAIN BagOf(t) |-> BagOf(t)[x]] BY DEF BagOf
<1>8. BagOf(t) = [x \in DOMAIN BagOf(s) \cup {e} |->
                    (IF x \in DOMAIN BagOf(s) THEN BagOf(s)[x] ELSE 0)
                      + (IF x \in {e} THEN 1 ELSE 0)]
  BY <1>5, <1>6, <1>7
<1>9. BagOf(s) (+) SetToBag({e})
        = [x \in DOMAIN BagOf(s) \cup {e} |->
             (IF x \in DOMAIN BagOf(s) THEN BagOf(s)[x] ELSE 0)
               + (IF x \in {e} THEN 1 ELSE 0)]
  BY DEF (+), SetToBag
<1> QED BY <1>8, <1>9 DEF t, e

LEMMA BagRemoved ==
  ASSUME NEW s \in Seq(Entries), NEW i \in DOMAIN s
  PROVE  BagOf(RemoveAt(s, i)) = BagOf(s) (-) SetToBag({Entry(s[i])})
<1> DEFINE t == RemoveAt(s, i)
           e == Entry(s[i])
           h == [k \in 1..Len(t) |-> IF k < i THEN k ELSE k + 1]
<1>1. DOMAIN s = 1..Len(s) BY Places
<1>2. /\ t \in Seq(Entries)
      /\ \A k \in 1..Len(t) : t[k] = s[h[k]]
      /\ h \in Bijection(1..Len(t), 1..Len(s) \ {i})
  BY <1>1, Removed
<1>3. DOMAIN t = 1..Len(t) BY <1>2, Places
<1> HIDE DEF t, h, e
<1>4. /\ h \in [DOMAIN t -> DOMAIN s \ {i}]
      /\ \A k, l \in DOMAIN t : h[k] = h[l] => k = l
      /\ \A x \in DOMAIN s \ {i} : \E k \in DOMAIN t : h[k] = x
  BY <1>1, <1>2, <1>3 DEF Bijection, Injection, Surjection, IsInjective
<1>5. ASSUME NEW x
      PROVE  Cardinality(PlacesOf(t, x)) = Cardinality(PlacesOf(s, x)) - (IF x = e THEN 1 ELSE 0)
  <2> DEFINE P == PlacesOf(t, x)
             Q == PlacesOf(s, x) \ {i}
             f == [k \in P |-> h[k]]
  <2>1. f \in [P -> Q] BY <1>2, <1>3, <1>4 DEF PlacesOf
  <2>2. \A k, l \in P : f[k] = f[l] => k = l BY <1>4 DEF PlacesOf
  <2>3. \A y \in Q : \E k \in P : f[k] = y BY <1>2, <1>3, <1>4 DEF PlacesOf
  <2>4. IsFiniteSet(P) BY <1>2, PlacesFinite
  <2>5. IsFiniteSet(PlacesOf(s, x)) /\ Cardinality(PlacesOf(s, x)) \in Nat BY PlacesFinite
  <2>6. i \in PlacesOf(s, x) <=> x = e BY DEF PlacesOf, e
  <2>7. Cardinality(Q) = Cardinality(PlacesOf(s, x)) - (IF x = e THEN 1 ELSE 0)
    <3>1. CASE x = e
      <4>1. Cardinality(Q) = Cardinality(PlacesOf(s, x)) - 1
        BY <2>5, <2>6, <3>1, FS_RemoveElement
      <4> QED BY <3>1, <4>1
    <3>2. CASE x # e
      <4>1. Q = PlacesOf(s, x) BY <2>6, <3>2
      <4>2. Cardinality(Q) = Cardinality(PlacesOf(s, x)) BY <4>1
      <4> HIDE DEF Q
      <4> QED BY <2>5, <3>2, <4>2
    <3> QED BY <3>1, <3>2
  <2> HIDE DEF P, Q, f
  <2>8. f \in Bijection(P, Q)
    BY <2>1, <2>2, <2>3 DEF Bijection, Injection, Surjection, IsInjective
  <2>9. ExistsBijection(P, Q) BY <2>8 DEF ExistsBijection
  <2>10. Cardinality(P) = Cardinality(Q) BY <2>4, <2>9, FS_Bijection
  <2> QED BY <2>7, <2>10 DEF P
<1> DEFINE B == [x \in DOMAIN BagOf(s) |->
                   IF x \in {e} THEN BagOf(s)[x] - 1 ELSE BagOf(s)[x]]
<1>6. BagOf(s) (-) SetToBag({e}) = [x \in {d \in DOMAIN B : B[d] > 0} |-> B[x]]
  BY DEF (-), SetToBag
<1>7. ASSUME NEW x \in DOMAIN BagOf(s) PROVE B[x] = Cardinality(PlacesOf(t, x))
  <2>1. BagOf(s)[x] = Cardinality(PlacesOf(s, x)) BY DEF BagOf
  <2>2. Cardinality(PlacesOf(s, x)) \in Nat BY PlacesFinite
  <2> QED BY <1>5, <2>1, <2>2
<1>8. DOMAIN B = DOMAIN BagOf(s) OBVIOUS
<1> HIDE DEF B
<1>9. DOMAIN BagOf(t) = {d \in DOMAIN B : B[d] > 0}
  <2>1. ASSUME NEW x \in DOMAIN BagOf(t) PROVE x \in DOMAIN B /\ B[x] > 0
    <3>1. Cardinality(PlacesOf(t, x)) > 0 BY <1>2, <2>1, InBag
    <3>2. Cardinality(PlacesOf(s, x)) \in Nat /\ Cardinality(PlacesOf(t, x)) \in Nat
      BY <1>2, PlacesFinite
    <3>3. Cardinality(PlacesOf(s, x)) > 0 BY <1>5, <3>1, <3>2
    <3>4. x \in DOMAIN BagOf(s) BY <3>3, InBag
    <3> QED BY <1>7, <1>8, <3>1, <3>4
  <2>2. ASSUME NEW x \in DOMAIN B, B[x] > 0 PROVE x \in DOMAIN BagOf(t)
    <3>1. Cardinality(PlacesOf(t, x)) > 0 BY <1>7, <1>8, <2>2
    <3> QED BY <1>2, <3>1, InBag
  <2> QED BY <2>1, <2>2
<1>10. \A x \in DOMAIN BagOf(t) : BagOf(t)[x] = B[x]
  <2>1. \A x \in DOMAIN BagOf(t) : BagOf(t)[x] = Cardinality(PlacesOf(t, x)) BY DEF BagOf
  <2>2. DOMAIN BagOf(t) \subseteq DOMAIN BagOf(s) BY <1>8, <1>9
  <2> QED BY <1>7, <2>1, <2>2
<1>11. BagOf(t) = [x \in DOMAIN BagOf(t) |-> BagOf(t)[x]] BY DEF BagOf
<1>12. BagOf(t) = [x \in {d \in DOMAIN B : B[d] > 0} |-> B[x]] BY <1>9, <1>10, <1>11
<1> QED BY <1>6, <1>12 DEF t, e

LEMMA PendingIsBag ==
  /\ Pending = BagOf(events)
  /\ Pending' = BagOf(events')
BY DEF Pending, BagOf, PlacesOf, Entry

-----------------------------------------------------------------------------
AgendaTimes == 0..((NumLoops + 1) * NumItems)

AgendaInv == BoundInv /\ at \in AgendaTimes

LEMMA CheckTime ==
  ASSUME Types, n < NumLoops, j < NumItems
  PROVE  Time \in AgendaTimes
<1> USE SizesAssumption
<1>1. n \in Nat /\ j \in Nat BY DEF Types
<1>2. n * NumItems \in Nat /\ n * NumItems <= NumLoops * NumItems BY <1>1
<1>3. (NumLoops + 1) * NumItems = NumLoops * NumItems + NumItems OBVIOUS
<1>4. NumLoops * NumItems \in Nat OBVIOUS
<1> QED BY <1>1, <1>2, <1>3, <1>4 DEF Time, AgendaTimes

LEMMA AgendaInit == Init => AgendaInv /\ A!Init
<1> SUFFICES ASSUME Init PROVE AgendaInv /\ A!Init OBVIOUS
<1>1. events = <<>> /\ at = 0 BY DEF Init, SchedulerInit
<1>2. at \in AgendaTimes BY <1>1, SizesAssumption DEF AgendaTimes
<1>3. Pending = A!EmptyBag
  <2>1. DOMAIN events = {} BY <1>1
  <2>2. Pending = [x \in {} |-> 1] BY <2>1, PendingIsBag DEF BagOf
  <2> QED BY <2>2 DEF A!EmptyBag, A!SetToBag
<1> QED BY <1>2, <1>3, BoundInit DEF AgendaInv, A!Init, AgendaTimes

LEMMA AgendaStep ==
  AgendaInv /\ [Next]_vars => AgendaInv' /\ [A!Next]_<<Pending, at>>
<1> SUFFICES ASSUME AgendaInv, [Next]_vars PROVE AgendaInv' /\ [A!Next]_<<Pending, at>>
  OBVIOUS
<1>0. Types /\ InLoop /\ at \in AgendaTimes /\ BoundInv' /\ events \in Seq(Entries)
  BY BoundStep DEF AgendaInv, BoundInv, Types
<1>1. ASSUME UNCHANGED <<events, at>> PROVE AgendaInv' /\ [A!Next]_<<Pending, at>>
  <2>1. Pending' = Pending BY <1>1, PendingIsBag
  <2> QED BY <1>0, <1>1, <2>1 DEF AgendaInv, AgendaTimes
<1>2. ASSUME NEW time \in AgendaTimes, NEW k \in Items, ScheduleItem(time, k), at' = at
      PROVE  AgendaInv' /\ [A!Next]_<<Pending, at>>
  <2> DEFINE r == [time |-> time, event |-> k, class |-> CreateOneEvent(index[k])]
  <2>1. time \in Nat BY SizesAssumption DEF AgendaTimes
  <2>2. r \in Entries BY <1>0, <2>1 DEF Types, Entries
  <2>3. events' = Append(events, r) BY <1>2 DEF ScheduleItem, Schedule
  <2>4. Entry(r) = <<time, k>> BY DEF Entry
  <2> HIDE DEF r
  <2>5. BagOf(events') = BagOf(events) (+) SetToBag({<<time, k>>})
    BY <1>0, <2>2, <2>3, <2>4, BagAppended
  <2>6. A!Schedule
    <3>1. Pending' = A!(+)(Pending, A!SetToBag({<<time, k>>}))
      BY <2>5, PendingIsBag DEF (+), SetToBag, A!(+), A!SetToBag
    <3> QED BY <1>2, <3>1 DEF A!Schedule, AgendaTimes
  <2> QED BY <1>0, <1>2, <2>6 DEF AgendaInv, AgendaTimes, A!Next
<1>3. CASE Fill
  <2>1. j \in Items /\ erand[j] \in 0..NumItems BY <1>0, <1>3, SizesAssumption DEF Types, Fill, Items
  <2>2. NumItems <= (NumLoops + 1) * NumItems
    <3>1. (NumLoops + 1) * NumItems = NumLoops * NumItems + NumItems BY SizesAssumption
    <3>2. NumLoops * NumItems \in Nat BY SizesAssumption
    <3> QED BY <3>1, <3>2, SizesAssumption
  <2>3. (NumLoops + 1) * NumItems \in Nat BY SizesAssumption
  <2>4. erand[j] \in AgendaTimes BY <2>1, <2>2, <2>3, SizesAssumption DEF AgendaTimes
  <2> QED BY <1>2, <1>3, <2>1, <2>4 DEF Fill
<1>4. CASE FillEnds BY <1>1, <1>4 DEF FillEnds, schedulerVars
<1>5. CASE Check
  <2>1. at' \in AgendaTimes /\ events' = events
    BY <1>0, <1>5, CheckTime DEF Check, BeginCheck
  <2>2. Pending' = Pending BY <2>1, PendingIsBag
  <2> QED BY <1>0, <2>1, <2>2 DEF AgendaInv, AgendaTimes, A!Next, A!Check
<1>6. CASE RunDue
  <2>1. at' = at BY <1>6 DEF RunDue, RunFirst
  <2>2. PICK i \in First : events[i].time <= at /\ events' = RemoveAt(events, i)
    BY <1>6 DEF RunDue, RunFirst
  <2>3. /\ i \in DOMAIN events
        /\ \A k \in DOMAIN events : events[i].time <= events[k].time
    BY <2>2 DEF First, Earliest
  <2> DEFINE x == Entry(events[i])
  <2>4. BagOf(events') = BagOf(events) (-) SetToBag({x}) BY <1>0, <2>2, <2>3, BagRemoved
  <2>5. DOMAIN Pending = {Entry(events[k]) : k \in DOMAIN events} BY PendingIsBag DEF BagOf
  <2>6. x \in DOMAIN Pending BY <2>3, <2>5
  <2>7. x[1] <= at BY <2>2 DEF Entry
  <2>8. \A y \in DOMAIN Pending : x[1] <= y[1] BY <2>3, <2>5 DEF Entry
  <2> HIDE DEF x
  <2>9. Pending' = A!(-)(Pending, A!SetToBag({x}))
    BY <2>4, PendingIsBag DEF (-), SetToBag, A!(-), A!SetToBag
  <2>10. A!Run BY <2>1, <2>6, <2>7, <2>8, <2>9 DEF A!Run, A!BagToSet
  <2> QED BY <1>0, <2>1, <2>10 DEF AgendaInv, AgendaTimes, A!Next
<1>7. CASE CheckReturns
  <2> DEFINE k == (NumItems - 1) - j
  <2>1. CASE Reschedules
    <3>1. /\ k \in Items /\ n * NumItems + erand[k] \in Nat
          /\ n * NumItems + erand[k] <= (NumLoops + 1) * NumItems
      BY <1>0, <1>7, ReturnTime DEF CheckReturns
    <3>2. (NumLoops + 1) * NumItems \in Nat BY SizesAssumption
    <3>3. n * NumItems + erand[k] \in AgendaTimes BY <3>1, <3>2 DEF AgendaTimes
    <3>4. ScheduleItem(n * NumItems + erand[k], k) /\ at' = at
      BY <1>7, <2>1 DEF CheckReturns
    <3> QED BY <1>2, <3>1, <3>3, <3>4
  <2>2. CASE ~Reschedules BY <1>1, <1>7, <2>2 DEF CheckReturns
  <2> QED BY <2>1, <2>2
<1>8. CASE NextLoop BY <1>1, <1>8 DEF NextLoop, schedulerVars
<1>9. CASE LoopsEnd BY <1>1, <1>9 DEF LoopsEnd, schedulerVars
<1>10. CASE UNCHANGED vars BY <1>1, <1>10 DEF vars, schedulerVars
<1> QED BY <1>3, <1>4, <1>5, <1>6, <1>7, <1>8, <1>9, <1>10 DEF Next

\* Both schedulers keep the promise of Agenda, whichever of the earliest entries
\* is the first: ImplementsAgenda of TestScheduler.
THEOREM Refinement == Spec => ImplementsAgenda
<1> QED BY AgendaInit, AgendaStep, PTL DEF Spec, ImplementsAgenda, A!Spec

-----------------------------------------------------------------------------
(***************************************************************************)
(* The end of the test.                                                    *)
(***************************************************************************)
\* The steps that lead through a filling and through a checking section, in the
\* checking one without those that run an event; what is left of the section
\* that runs, and of those that follow it.
FillSteps  == NumItems + 1
CheckSteps == NumLoops * (2 * NumItems + 1) + 1

SectionLeft ==
  IF phase \in {"fill", "refill"} THEN FillSteps - j
  ELSE (NumLoops - n) * (2 * NumItems + 1) + 1 - 2 * j - (IF checking THEN 1 ELSE 0)

ControlLeft ==
  CASE phase = "fill"    -> SectionLeft + 2 * CheckSteps + FillSteps
    [] phase = "check"   -> SectionLeft + FillSteps + CheckSteps
    [] phase = "refill"  -> SectionLeft + CheckSteps
    [] phase = "recheck" -> SectionLeft
    [] phase = "done"    -> 0

StepsLeft == Len(events) + 2 * ControlLeft

(***************************************************************************)
(* Why it ends, whatever the order: a bound of the steps still to be made  *)
(* goes down at each.  A step may schedule one event, which is one step    *)
(* more to run it; none does so without leaving one of the loops' behind,  *)
(* as an event that is found late is not replaced until check() returns.   *)
(***************************************************************************)
StepsRunDown == [][StepsLeft' \in Nat /\ StepsLeft' < StepsLeft]_vars

\* The loops stay in their bounds, and outside the checks the outer index rests.
LoopInv ==
  /\ n <= NumLoops
  /\ phase \in {"check", "recheck"} /\ n = NumLoops => j = 0

EndInv == BoundInv /\ LoopInv

LEMMA EndInit == Init => EndInv
<1> SUFFICES ASSUME Init PROVE EndInv OBVIOUS
<1>1. n = 0 /\ phase = "fill" BY DEF Init
<1> QED BY <1>1, BoundInit, SizesAssumption DEF EndInv, LoopInv

LEMMA EndStep == EndInv /\ [Next]_vars => EndInv'
<1> SUFFICES ASSUME EndInv, [Next]_vars PROVE LoopInv' BY BoundStep DEF EndInv
<1>0. Types /\ InLoop /\ LoopInv /\ n \in Nat /\ NumLoops \in Nat \ {0}
  BY SizesAssumption DEF EndInv, BoundInv, Types
<1>1. CASE Fill BY <1>0, <1>1 DEF LoopInv, Fill
<1>2. CASE FillEnds BY <1>0, <1>2 DEF LoopInv, FillEnds
<1>3. CASE Check BY <1>0, <1>3 DEF LoopInv, Check
<1>4. CASE RunDue BY <1>0, <1>4 DEF LoopInv, RunDue
<1>5. CASE CheckReturns
  <2>1. n < NumLoops /\ n' = n BY <1>0, <1>5 DEF CheckReturns, InLoop
  <2> QED BY <1>0, <2>1 DEF LoopInv
<1>6. CASE NextLoop BY <1>0, <1>6 DEF LoopInv, NextLoop
<1>7. CASE LoopsEnd BY <1>0, <1>7 DEF LoopInv, LoopsEnd
<1>8. CASE UNCHANGED vars BY <1>0, <1>8 DEF LoopInv, vars
<1> QED BY <1>1, <1>2, <1>3, <1>4, <1>5, <1>6, <1>7, <1>8 DEF Next

\* A round of the outer loop is a multiple of its length away from the last.
LEMMA Rounds ==
  ASSUME NEW m \in 0..NumLoops
  PROVE  /\ (NumLoops - m) * (2 * NumItems + 1) \in Nat
         /\ m < NumLoops =>
              (NumLoops - m) * (2 * NumItems + 1)
                = (NumLoops - (m + 1)) * (2 * NumItems + 1) + (2 * NumItems + 1)
         /\ m < NumLoops => (NumLoops - (m + 1)) * (2 * NumItems + 1) \in Nat
         /\ m = NumLoops => (NumLoops - m) * (2 * NumItems + 1) = 0
<1> USE SizesAssumption
<1>1. NumLoops - m \in Nat /\ 2 * NumItems + 1 \in Nat OBVIOUS
<1>2. \A a, b \in Nat : a * b \in Nat OBVIOUS
<1>3. \A a, b \in Nat : a > 0 => a - 1 \in Nat /\ a * b = (a - 1) * b + b OBVIOUS
<1>4. NumLoops - (m + 1) = (NumLoops - m) - 1 OBVIOUS
<1>5. m < NumLoops => NumLoops - m > 0 OBVIOUS
<1>6. \A b \in Nat : 0 * b = 0 OBVIOUS
<1>7. m = NumLoops => NumLoops - m = 0 OBVIOUS
<1> QED BY ONLY <1>1, <1>2, <1>3, <1>4, <1>5, <1>6, <1>7

\* What is left in front of a step, in numbers.
LEMMA ControlLeftIs ==
  ASSUME EndInv
  PROVE  /\ CheckSteps \in Nat /\ FillSteps \in Nat /\ FillSteps = NumItems + 1
         /\ CheckSteps = (NumLoops - 0) * (2 * NumItems + 1) + 1
         /\ phase # "done" => SectionLeft \in Nat
         /\ ControlLeft \in Nat /\ Len(events) \in Nat
<1>0. Types /\ InLoop /\ LoopInv /\ n \in Nat /\ n \in 0..NumLoops /\ j \in 0..NumItems
  BY SizesAssumption DEF EndInv, BoundInv, Types, LoopInv
<1>1. 0 \in 0..NumLoops BY SizesAssumption
<1>2. NumLoops - 0 = NumLoops BY SizesAssumption
<1>3. CheckSteps \in Nat /\ CheckSteps = (NumLoops - 0) * (2 * NumItems + 1) + 1
  BY <1>1, <1>2, Rounds DEF CheckSteps
<1>4. FillSteps \in Nat /\ FillSteps = NumItems + 1 BY SizesAssumption DEF FillSteps
<1>5. phase # "done" => SectionLeft \in Nat
  <2>1. CASE phase \in {"fill", "refill"} BY <1>0, <1>4, <2>1, SizesAssumption DEF SectionLeft
  <2>2. CASE phase \in {"check", "recheck"}
    <3> DEFINE P == (NumLoops - n) * (2 * NumItems + 1)
    <3>1. P \in Nat BY <1>0, Rounds
    <3>2. n < NumLoops => P >= 2 * NumItems + 1 BY <1>0, Rounds, SizesAssumption
    <3>3. SectionLeft = P + 1 - 2 * j - (IF checking THEN 1 ELSE 0) BY <2>2 DEF SectionLeft
    <3>4. n = NumLoops => j = 0 /\ ~checking BY <1>0, <2>2, SizesAssumption DEF LoopInv, InLoop
    <3>5. checking => j < NumItems BY <1>0 DEF InLoop
    <3> HIDE DEF P
    <3> QED BY <1>0, <3>1, <3>2, <3>3, <3>4, <3>5, SizesAssumption
  <2> QED BY <1>0, <2>1, <2>2 DEF Types
<1>6. Len(events) \in Nat BY <1>0 DEF Types
<1> QED BY <1>0, <1>3, <1>4, <1>5, <1>6 DEF ControlLeft, Types

LEMMA LeftAfter == EndInv' => (ControlLeft \in Nat /\ Len(events) \in Nat)'
<1>1. EndInv => (ControlLeft \in Nat /\ Len(events) \in Nat) BY ControlLeftIs
<1> QED BY <1>1, PTL

LEMMA RunDown == EndInv /\ [Next]_vars => [StepsLeft' \in Nat /\ StepsLeft' < StepsLeft]_vars
<1> SUFFICES ASSUME EndInv, Next PROVE StepsLeft' \in Nat /\ StepsLeft' < StepsLeft
  OBVIOUS
<1>0. /\ Types /\ InLoop /\ LoopInv /\ NumItems \in Nat /\ NumLoops \in Nat
      /\ n \in Nat /\ n \in 0..NumLoops /\ j \in 0..NumItems
  BY SizesAssumption DEF EndInv, BoundInv, Types, LoopInv
<1>1. EndInv' BY EndStep
<1>2. /\ CheckSteps \in Nat /\ FillSteps \in Nat /\ FillSteps = NumItems + 1
      /\ CheckSteps = (NumLoops - 0) * (2 * NumItems + 1) + 1
      /\ ControlLeft \in Nat /\ Len(events) \in Nat
  BY ControlLeftIs
<1>3. ControlLeft' \in Nat /\ Len(events') \in Nat
  BY <1>1, LeftAfter
\* A step of the loops, which may schedule an event.
<1>4. ASSUME ControlLeft' < ControlLeft, Len(events') <= Len(events) + 1
      PROVE  StepsLeft' \in Nat /\ StepsLeft' < StepsLeft
  BY <1>2, <1>3, <1>4 DEF StepsLeft
<1>5. CASE Fill
  <2>1. j \in Items /\ erand[j] \in Nat BY <1>0, <1>5 DEF Types, Fill, Items
  <2>2. Len(events') = Len(events) + 1 BY <1>0, <1>5, <2>1, ScheduleLen DEF Fill
  <2>3. phase' = phase /\ j' = j + 1 /\ phase \in {"fill", "refill"} BY <1>5 DEF Fill
  <2>4. SectionLeft' = SectionLeft - 1 BY <1>0, <1>2, <2>3 DEF SectionLeft, FillSteps
  <2>5. SectionLeft \in Int BY <1>0, <1>2, <2>3 DEF SectionLeft
  <2>6. ControlLeft' = ControlLeft - 1
    BY <1>2, <2>3, <2>4, <2>5 DEF ControlLeft, FillSteps, CheckSteps
  <2> QED BY <1>2, <1>4, <2>2, <2>6
<1>6. CASE FillEnds
  <2>1. /\ phase \in {"fill", "refill"} /\ j = NumItems /\ events' = events
        /\ phase' = IF phase = "fill" THEN "check" ELSE "recheck"
        /\ n' = 0 /\ j' = 0 /\ checking' = checking
    BY <1>6 DEF FillEnds, schedulerVars
  <2>2. ~checking BY <1>0, <2>1 DEF InLoop
  <2>3. SectionLeft = 1 BY <1>0, <1>2, <2>1 DEF SectionLeft
  <2>4. SectionLeft' = CheckSteps
    <3>1. phase' \notin {"fill", "refill"} BY <2>1
    <3>2. SectionLeft' = (NumLoops - 0) * (2 * NumItems + 1) + 1 - 2 * 0 - 0
      BY <2>1, <2>2, <3>1 DEF SectionLeft
    <3> QED BY <1>2, <3>2
  <2>5. ControlLeft' = ControlLeft - 1
    BY <1>2, <2>1, <2>3, <2>4 DEF ControlLeft, FillSteps, CheckSteps
  <2> QED BY <1>2, <1>4, <2>1, <2>5
<1>7. ASSUME phase' = phase, phase \in {"check", "recheck"}, SectionLeft' < SectionLeft,
             SectionLeft \in Nat, SectionLeft' \in Int
      PROVE  ControlLeft' < ControlLeft
  BY <1>2, <1>7 DEF ControlLeft, FillSteps, CheckSteps
<1>8. phase # "done" => SectionLeft \in Nat BY ControlLeftIs
<1> DEFINE P == (NumLoops - n) * (2 * NumItems + 1)
<1>9. P \in Nat BY <1>0, Rounds
<1>10. phase \in {"check", "recheck"} => SectionLeft = P + 1 - 2 * j - (IF checking THEN 1 ELSE 0)
  BY DEF SectionLeft
<1>11. phase' \in {"check", "recheck"} /\ n' = n
        => SectionLeft' = P + 1 - 2 * j' - (IF checking' THEN 1 ELSE 0)
  BY DEF SectionLeft
<1> HIDE DEF P
<1>12. CASE Check
  <2>1. /\ phase \in {"check", "recheck"} /\ ~checking /\ checking' = TRUE
        /\ UNCHANGED <<phase, n, j, events>>
    BY <1>12 DEF Check, BeginCheck
  <2>2. SectionLeft' = SectionLeft - 1 BY <1>0, <1>9, <1>10, <1>11, <2>1
  <2>3. ControlLeft' < ControlLeft BY <1>7, <1>8, <2>1, <2>2
  <2> QED BY <1>2, <1>4, <2>1, <2>3
<1>13. CASE RunDue
  <2>1. Len(events') = Len(events) - 1 BY <1>0, <1>13, RunLen DEF RunDue
  <2>2. UNCHANGED <<phase, n, j, checking>> BY <1>13 DEF RunDue
  <2>3. ControlLeft' = ControlLeft BY <2>2 DEF ControlLeft, SectionLeft, FillSteps, CheckSteps
  <2> QED BY <1>2, <1>3, <2>1, <2>3 DEF StepsLeft
<1>14. CASE CheckReturns
  <2>1. /\ checking /\ checking' = FALSE /\ j' = j + 1 /\ UNCHANGED <<phase, n>>
        /\ phase \in {"check", "recheck"}
    BY <1>0, <1>14 DEF CheckReturns, InLoop
  <2>2. Len(events') <= Len(events) + 1
    <3> DEFINE k == (NumItems - 1) - j
    <3>1. k \in Items /\ n * NumItems + erand[k] \in Nat
      BY <1>0, <1>14, ReturnTime DEF CheckReturns
    <3>2. CASE Reschedules
      <4>1. ScheduleItem(n * NumItems + erand[k], k) BY <1>14, <3>2 DEF CheckReturns
      <4>2. Len(events') = Len(events) + 1 BY <1>0, <3>1, <4>1, ScheduleLen
      <4> QED BY <1>2, <4>2
    <3>3. CASE ~Reschedules
      <4>1. events' = events BY <1>14, <3>3 DEF CheckReturns
      <4> QED BY <1>2, <4>1
    <3> QED BY <3>2, <3>3
  <2>3. SectionLeft' = SectionLeft - 1 BY <1>0, <1>9, <1>10, <1>11, <2>1
  <2>4. ControlLeft' < ControlLeft BY <1>7, <1>8, <2>1, <2>3
  <2> QED BY <1>4, <2>2, <2>4
<1>15. CASE NextLoop
  <2>1. /\ phase \in {"check", "recheck"} /\ ~checking /\ n < NumLoops /\ j = NumItems
        /\ n' = n + 1 /\ j' = 0 /\ UNCHANGED <<phase, events, checking>>
    BY <1>15 DEF NextLoop, schedulerVars
  <2> DEFINE Q == (NumLoops - (n + 1)) * (2 * NumItems + 1)
  <2>2. P = Q + (2 * NumItems + 1) /\ Q \in Nat BY <1>0, <2>1, Rounds DEF P
  <2>3. SectionLeft' = Q + 1 - 2 * 0 - 0 BY <2>1 DEF SectionLeft
  <2> HIDE DEF Q
  <2>4. SectionLeft' = SectionLeft - 1 BY <1>0, <1>10, <2>1, <2>2, <2>3
  <2>5. ControlLeft' < ControlLeft BY <1>7, <1>8, <2>1, <2>4
  <2> QED BY <1>2, <1>4, <2>1, <2>5
<1>16. CASE LoopsEnd
  <2>1. /\ phase \in {"check", "recheck"} /\ n = NumLoops
        /\ phase' = IF phase = "check" THEN "refill" ELSE "done"
        /\ j' = 0 /\ UNCHANGED <<events, checking>>
    BY <1>16 DEF LoopsEnd, schedulerVars
  <2>2. j = 0 /\ ~checking BY <1>0, <2>1 DEF LoopInv, InLoop
  <2>3. P = 0 BY <1>0, <2>1, Rounds DEF P
  <2>4. SectionLeft = 1 BY <1>10, <2>1, <2>2, <2>3
  <2>5. phase = "check" => SectionLeft' = FillSteps
    BY <1>2, <2>1 DEF SectionLeft, FillSteps
  <2>6. ControlLeft' < ControlLeft
    BY <1>2, <2>1, <2>4, <2>5 DEF ControlLeft, FillSteps, CheckSteps
  <2> QED BY <1>2, <1>4, <2>1, <2>6
<1> QED BY <1>5, <1>6, <1>12, <1>13, <1>14, <1>15, <1>16 DEF Next

\* The test of the schedulers cannot go on forever, nor can anything in it, however
\* many items and loops there are.
THEOREM Exhausted == Spec => StepsRunDown
<1> QED BY EndInit, EndStep, RunDown, PTL DEF Spec, StepsRunDown
=============================================================================
