--------------------------- MODULE LibraryProofs ---------------------------
(***************************************************************************)
(* What the parts of libs/ keep, for any values of the constants.          *)
(***************************************************************************)
EXTENDS Library, BitUtilsProofs, SequenceTheorems, TLAPS

(***************************************************************************)
(* TestBits: the walk over the numbers, whose line is that of its number.  *)
(***************************************************************************)
BitsInv == num \in Nat /\ (num = 0 \/ num < Last) /\ row = Row(num)

LEMMA LastIsWord ==
  Last \in Nat /\ Last < 2^Width /\ Last <= 2^(Mantissa + 3) /\ 2^Width \in Nat
<1>1. 2^Width \in Nat BY WidthAssumption, PowerIsSubsets
<1> QED BY <1>1, LastAssumption DEF Words

LEMMA NumberIsWord ==
  ASSUME NEW n \in Nat, n = 0 \/ n < Last
  PROVE  n \in Words /\ n < 2^(Mantissa + 3)
<1>1. 2^Width \in Nat /\ 2^Width > 0 BY WidthAssumption, PowerIsSubsets
<1>2. 2^(Mantissa + 3) \in Nat /\ 2^(Mantissa + 3) > 0
  <2>1. Mantissa + 3 \in Nat BY MantissaAssumption
  <2> QED BY <2>1, PowerIsSubsets
<1>3. n < 2^Width /\ n < 2^(Mantissa + 3) BY <1>1, <1>2, LastIsWord
<1> QED BY <1>1, <1>3 DEF Words

LEMMA ResolutionFits ==
  ASSUME NEW B \in Resolutions
  PROVE  B \in Nat /\ B < Mantissa /\ Width * 2^B <= 2^Width
BY ResolutionsAssumption, BinsFitAssumption, MantissaAssumption

LEMMA BitsInvariant == BitsSpec => []BitsInv
<1>1. BitsInit => BitsInv BY DEF BitsInit, BitsInv
<1>2. BitsInv /\ [BitsNext]_bitsVars => BitsInv'
  <2> SUFFICES ASSUME BitsInv, [BitsNext]_bitsVars PROVE BitsInv' OBVIOUS
  <2>1. CASE Line
    <3>1. num' = num + 1 /\ num + 1 < Last /\ row' = Row(num + 1) BY <2>1 DEF Line
    <3> QED BY <3>1 DEF BitsInv, Row
  <2>2. CASE UNCHANGED bitsVars BY <2>2 DEF BitsInv, bitsVars, Row
  <2> QED BY <2>1, <2>2 DEF BitsNext
<1> QED BY <1>1, <1>2, PTL DEF BitsSpec

(***************************************************************************)
(* irange2() of libs/BitUtils.h gives back a narrow range that holds the   *)
(* number, for numbers and resolutions of any size.                        *)
(***************************************************************************)
THEOREM RangesHold == BitsSpec => []RangeHoldsNumber
<1>1. BitsInv => RangeHoldsNumber
  <2> SUFFICES ASSUME BitsInv, NEW B \in Resolutions
               PROVE  LET r == row[B].range
                      IN  /\ r.base <= num /\ num < r.base + r.range
                          /\ r.range = 1 \/ r.range * 2^B <= r.base
    BY DEF RangeHoldsNumber
  <2>1. num \in Words BY NumberIsWord DEF BitsInv
  <2>2. row[B].range = IRange2(B, ILog2(B, num)) BY DEF BitsInv, Row
  <2> QED BY <2>1, <2>2, ResolutionFits, RangeOfBin
<1> QED BY <1>1, BitsInvariant, PTL

(***************************************************************************)
(* The bins of ilog2() follow each other without a gap, and irange2()      *)
(* knows where each ends.                                                  *)
(***************************************************************************)
THEOREM BinsFollow == BitsSpec => BinsAreContiguous
<1>1. BitsInv /\ [BitsNext]_bitsVars
        => [\A B \in Resolutions :
              LET r    == row[B].range
                  step == IF num' = r.base + r.range THEN 1 ELSE 0
              IN  row'[B].bin = row[B].bin + step]_bitsVars
  <2> SUFFICES ASSUME BitsInv, Line, NEW B \in Resolutions
               PROVE  LET r    == row[B].range
                          step == IF num' = r.base + r.range THEN 1 ELSE 0
                      IN  row'[B].bin = row[B].bin + step
    BY DEF BitsNext
  <2>1. num \in Nat /\ num' = num + 1 /\ num + 1 < Last /\ row' = Row(num + 1)
    BY DEF Line, BitsInv
  <2>2. num \in Words BY NumberIsWord DEF BitsInv
  <2>3. num + 1 \in Words
    <3>1. num + 1 \in Nat BY <2>1
    <3> QED BY <2>1, <3>1, NumberIsWord
  <2>4. row[B].range = IRange2(B, ILog2(B, num)) /\ row[B].bin = ILog2(B, num)
    BY DEF BitsInv, Row
  <2>5. row'[B].bin = ILog2(B, num + 1) BY <2>1 DEF Row
  <2> QED BY <2>1, <2>2, <2>3, <2>4, <2>5, ResolutionFits, NextBin
<1> QED BY <1>1, BitsInvariant, PTL DEF BitsSpec, BinsAreContiguous

(***************************************************************************)
(* flog2() and uflog2() agree with ilog2() on what a double holds exactly, *)
(* and are one bin above it at most on all other numbers they are for.     *)
(***************************************************************************)
THEOREM FloatsAgree == BitsSpec => []FloatAgrees
<1>1. BitsInv => FloatAgrees
  <2> SUFFICES ASSUME BitsInv, NEW B \in Resolutions
               PROVE  /\ num < 2^(Mantissa + 1) => row[B].float = row[B].bin
                      /\ row[B].float - row[B].bin \in {0, 1}
                      /\ UFLog2(B, num) = row[B].float
    BY DEF FloatAgrees
  <2>1. num \in Words /\ num < 2^(Mantissa + 3) BY NumberIsWord DEF BitsInv
  <2>2. row[B].float = FLog2(B, num) /\ row[B].bin = ILog2(B, num) BY DEF BitsInv, Row
  <2> QED BY <2>1, <2>2, ResolutionFits, RoundingFitsAssumption, FloatBins
<1> QED BY <1>1, BitsInvariant, PTL

-----------------------------------------------------------------------------
(***************************************************************************)
(* IndexedMap.                                                             *)
(***************************************************************************)
\* The keys asked for, each once, are those of the map; the vector has a value for each.
KeysAgree ==
  /\ order \in Seq(Keys)
  /\ vec \in Seq(Contents) /\ Len(vec) = Len(order)
  /\ \A i, j \in 1..Len(order) : order[i] = order[j] => i = j
  /\ DOMAIN map = {order[i] : i \in 1..Len(order)} /\ DOMAIN stored = DOMAIN map
  /\ IsFiniteSet(DOMAIN map) /\ Cardinality(DOMAIN map) = Len(order)

\* What the property says, position by position.
ValuesAgree ==
  Len(order) <= Indices =>
    \A i \in 1..Len(order) : vec[i] = stored[order[i]] /\ map[order[i]] = i - 1

MapInv == KeysAgree /\ ValuesAgree

-----------------------------------------------------------------------------
\* An entry more, or another value for an old one.
LEMMA WithEntry ==
  ASSUME NEW f, NEW k, NEW v
  PROVE  /\ DOMAIN With(f, k, v) = DOMAIN f \cup {k}
         /\ With(f, k, v)[k] = v
         /\ \A a \in DOMAIN f : a # k => With(f, k, v)[a] = f[a]
  BY DEF With

\* resize() gives a vector of the wanted asked for, which keeps the values that fit.
LEMMA ResizedVec ==
  ASSUME vec \in Seq(Contents), NEW wanted \in Nat
  PROVE  /\ Resized(wanted) \in Seq(Contents) /\ Len(Resized(wanted)) = wanted
         /\ \A i \in 1..wanted : i <= Len(vec) => Resized(wanted)[i] = vec[i]
<1>1. \A i \in 1..wanted : (IF i <= Len(vec) THEN vec[i] ELSE Default) \in Contents
  <2> SUFFICES ASSUME NEW i \in 1..wanted
               PROVE  (IF i <= Len(vec) THEN vec[i] ELSE Default) \in Contents
    OBVIOUS
  <2>1. CASE i <= Len(vec)
    BY <2>1, ElementOfSeq, LenProperties
  <2>2. CASE ~(i <= Len(vec))
    BY <2>2, DefaultAssumption
  <2> QED BY <2>1, <2>2
<1>2. Resized(wanted) \in Seq(Contents) /\ Len(Resized(wanted)) = wanted
  BY <1>1, IsASeq DEF Resized
<1> QED BY <1>2 DEF Resized

\* Writing to an element, or past the end, which changes nothing.
LEMMA WrittenVec ==
  ASSUME NEW v \in Seq(Contents), NEW i, NEW x \in Contents
  PROVE  /\ [v EXCEPT ![i] = x] \in Seq(Contents)
         /\ Len([v EXCEPT ![i] = x]) = Len(v)
         /\ i \in 1..Len(v) => [v EXCEPT ![i] = x][i] = x
         /\ \A j \in 1..Len(v) : j # i => [v EXCEPT ![i] = x][j] = v[j]
<1>1. DOMAIN v = 1..Len(v) /\ Len(v) \in Nat
  BY LenProperties
<1>2. CASE i \in 1..Len(v)
  BY <1>1, <1>2, ExceptSeq
<1>3. CASE i \notin 1..Len(v)
  <2>1. [v EXCEPT ![i] = x] = v
    BY <1>1, <1>3
  <2> QED BY <1>3, <2>1
<1> QED BY <1>2, <1>3

LEMMA MapInitial == MapInit => MapInv
<1> SUFFICES ASSUME MapInit PROVE MapInv OBVIOUS
<1>1. order = <<>> /\ vec = <<>> /\ map = <<>> /\ stored = <<>> BY DEF MapInit
<1>2. Len(order) = 0 /\ Len(vec) = 0 /\ order \in Seq(Keys) /\ vec \in Seq(Contents)
  BY <1>1
<1>3. DOMAIN map = {} /\ DOMAIN stored = {} BY <1>1
<1>4. IsFiniteSet(DOMAIN map) /\ Cardinality(DOMAIN map) = 0
  BY <1>3, FS_EmptySet
<1>5. 1..Len(order) = {} BY <1>2
<1>6. {order[i] : i \in 1..Len(order)} = {} BY <1>5
<1>7. KeysAgree BY <1>2, <1>3, <1>4, <1>5, <1>6 DEF KeysAgree
<1> QED BY <1>5, <1>7 DEF MapInv, ValuesAgree

\* A position below the wanted of IndexType is what it is cut to.
LEMMA IndexFits ==
  ASSUME NEW k \in Nat, k < Indices
  PROVE  k % Indices = k
BY IndicesAssumption

\* A key that was asked for before: its position is found, if it must be by giving it again.
LEMMA AssignKnown ==
  ASSUME MapInv, NEW key \in DOMAIN map, NEW x \in Contents, Assign(key, x)
  PROVE  MapInv'
<1> DEFINE wanted == Cardinality(DOMAIN map \cup {key})
           fresh == Entry(key) = InvalidIndex
           index == IF fresh THEN (wanted - 1) % Indices ELSE Entry(key)
           v == IF fresh THEN Resized(wanted) ELSE vec
<1>1. /\ order' = order
      /\ map' = With(map, key, index)
      /\ vec' = [v EXCEPT ![index + 1] = x]
      /\ stored' = With(stored, key, x)
  BY DEF Assign
<1>2. DOMAIN map' = DOMAIN map /\ DOMAIN stored' = DOMAIN map
  <2>1. DOMAIN map' = DOMAIN map \cup {key} BY <1>1 DEF With
  <2>2. DOMAIN stored' = DOMAIN stored \cup {key} BY <1>1 DEF With
  <2> QED BY <2>1, <2>2 DEF MapInv, KeysAgree
<1>3. wanted = Len(order) /\ Len(order) \in Nat /\ Entry(key) = map[key]
  <2>1. DOMAIN map \cup {key} = DOMAIN map OBVIOUS
  <2> QED BY <2>1, LenProperties DEF MapInv, KeysAgree, Entry
<1>4. PICK i \in 1..Len(order) : order[i] = key
  BY DEF MapInv, KeysAgree
<1>5. v \in Seq(Contents) /\ Len(v) = Len(order)
      /\ \A j \in 1..Len(order) : v[j] = vec[j]
  <2>1. CASE fresh
    <3>1. wanted \in Nat /\ vec \in Seq(Contents) /\ Len(vec) = wanted
      BY <1>3 DEF MapInv, KeysAgree
    <3> HIDE DEF wanted
    <3>2. /\ Resized(wanted) \in Seq(Contents) /\ Len(Resized(wanted)) = wanted
          /\ \A j \in 1..wanted : j <= Len(vec) => Resized(wanted)[j] = vec[j]
      BY <3>1, ResizedVec
    <3>3. \A j \in 1..wanted : Resized(wanted)[j] = vec[j]
      BY <3>1, <3>2
    <3> QED BY <1>3, <2>1, <3>2, <3>3
  <2>2. CASE ~fresh
    BY <2>2 DEF MapInv, KeysAgree
  <2> QED BY <2>1, <2>2
<1> HIDE DEF wanted, fresh, v
<1>6. KeysAgree'
  <2>1. vec' \in Seq(Contents) /\ Len(vec') = Len(order)
    BY <1>1, <1>5, WrittenVec
  <2>2. /\ order' \in Seq(Keys)
        /\ \A a, b \in 1..Len(order') : order'[a] = order'[b] => a = b
        /\ DOMAIN map' = {order'[a] : a \in 1..Len(order')}
        /\ IsFiniteSet(DOMAIN map') /\ Cardinality(DOMAIN map') = Len(order')
    <3>1. order' = order /\ DOMAIN map' = DOMAIN map BY <1>1, <1>2
    <3>2. /\ order \in Seq(Keys)
          /\ \A a, b \in 1..Len(order) : order[a] = order[b] => a = b
          /\ DOMAIN map = {order[a] : a \in 1..Len(order)}
          /\ IsFiniteSet(DOMAIN map) /\ Cardinality(DOMAIN map) = Len(order)
      BY DEF MapInv, KeysAgree
    <3> QED BY <3>1, <3>2, Zenon
  <2> QED BY <1>1, <1>2, <2>1, <2>2 DEF KeysAgree
<1>7. ASSUME Len(order) <= Indices
      PROVE  \A j \in 1..Len(order) : vec'[j] = stored'[order[j]] /\ map'[order[j]] = j - 1
  <2>1. map[key] = i - 1 /\ i - 1 < Indices
    BY <1>3, <1>4, <1>7, IndicesAssumption DEF MapInv, ValuesAgree
  <2>2. index = i - 1
    <3>1. CASE fresh
      <4>1. i = Indices /\ wanted = Indices
        BY <1>3, <1>4, <1>7, <2>1, <3>1, IndicesAssumption DEF fresh, InvalidIndex
      <4> QED BY <3>1, <4>1, <2>1, IndexFits, IndicesAssumption
    <3>2. CASE ~fresh
      BY <1>3, <2>1, <3>2
    <3> QED BY <3>1, <3>2
  <2>3. /\ vec'[i] = x
        /\ \A j \in 1..Len(order) : j # i => vec'[j] = vec[j]
    <3>1. index + 1 = i BY <1>4, <2>2
    <3> QED BY <1>1, <1>4, <1>5, <3>1, WrittenVec
  <2> SUFFICES ASSUME NEW j \in 1..Len(order)
               PROVE  vec'[j] = stored'[order[j]] /\ map'[order[j]] = j - 1
    OBVIOUS
  <2>4. CASE j = i
    <3>1. map'[key] = index /\ stored'[key] = x BY <1>1 DEF With
    <3> HIDE DEF index
    <3> QED BY <1>4, <2>2, <2>3, <2>4, <3>1
  <2>5. CASE j # i
    <3>1. order[j] # key /\ order[j] \in DOMAIN map
      BY <1>4, <2>5 DEF MapInv, KeysAgree
    <3>2. map'[order[j]] = map[order[j]]
      BY <1>1, <3>1 DEF With
    <3>3. stored'[order[j]] = stored[order[j]]
      BY <1>1, <3>1 DEF With, MapInv, KeysAgree
    <3> QED BY <1>7, <2>3, <2>5, <3>2, <3>3 DEF MapInv, ValuesAgree
  <2> QED BY <2>4, <2>5
<1> QED BY <1>1, <1>6, <1>7 DEF MapInv, ValuesAgree

\* A new key gets the position behind the others.
LEMMA AssignNew ==
  ASSUME MapInv, NEW key \in Keys \ DOMAIN map, NEW x \in Contents, Assign(key, x)
  PROVE  MapInv'
<1> DEFINE wanted == Cardinality(DOMAIN map \cup {key})
           longer == Len(order) + 1
           index == (wanted - 1) % Indices
<1>1. /\ order' = Append(order, key)
      /\ map' = With(map, key, index)
      /\ vec' = [Resized(wanted) EXCEPT ![index + 1] = x]
      /\ stored' = With(stored, key, x)
  BY DEF Assign, Entry
<1>2. wanted = longer /\ Len(order) \in Nat
  BY FS_AddElement, LenProperties DEF MapInv, KeysAgree
<1>3. /\ order' \in Seq(Keys) /\ Len(order') = longer /\ order'[longer] = key
      /\ \A j \in 1..Len(order) : order'[j] = order[j]
  BY <1>1, AppendProperties DEF MapInv, KeysAgree
<1>4. /\ Resized(wanted) \in Seq(Contents) /\ Len(Resized(wanted)) = longer
      /\ \A j \in 1..Len(order) : Resized(wanted)[j] = vec[j]
  <2>1. wanted \in Nat /\ wanted = longer /\ vec \in Seq(Contents) /\ Len(vec) = Len(order)
    BY <1>2 DEF MapInv, KeysAgree
  <2>2. \A j \in 1..Len(order) : j \in 1..longer /\ j <= Len(vec)
    BY <1>2, <2>1
  <2> HIDE DEF wanted, longer
  <2>3. /\ Resized(wanted) \in Seq(Contents) /\ Len(Resized(wanted)) = wanted
        /\ \A j \in 1..wanted : j <= Len(vec) => Resized(wanted)[j] = vec[j]
    BY <2>1, ResizedVec
  <2> QED BY <2>1, <2>2, <2>3
<1>5. DOMAIN map' = DOMAIN map \cup {key} /\ DOMAIN stored' = DOMAIN map \cup {key}
  BY <1>1 DEF With, MapInv, KeysAgree
<1> HIDE DEF wanted
<1>6. KeysAgree'
  <2>1. vec' \in Seq(Contents) /\ Len(vec') = longer
    BY <1>1, <1>4, WrittenVec
  <2>2. \A i, j \in 1..longer : order'[i] = order'[j] => i = j
    BY <1>2, <1>3 DEF MapInv, KeysAgree
  <2>3. DOMAIN map' = {order'[i] : i \in 1..longer}
    BY <1>2, <1>3, <1>5 DEF MapInv, KeysAgree
  <2>4. IsFiniteSet(DOMAIN map') /\ Cardinality(DOMAIN map') = longer
    <3>1. IsFiniteSet(DOMAIN map) /\ Cardinality(DOMAIN map) = Len(order) /\ key \notin DOMAIN map
      BY DEF MapInv, KeysAgree
    <3>2. IsFiniteSet(DOMAIN map \cup {key}) BY <3>1, FS_AddElement
    <3> QED BY <1>2, <1>5, <3>2 DEF wanted
  <2> HIDE DEF longer
  <2>5. DOMAIN stored' = DOMAIN map' BY <1>5
  <2> QED BY <1>3, <2>1, <2>2, <2>3, <2>4, <2>5 DEF KeysAgree
<1>7. ASSUME longer <= Indices
      PROVE  \A j \in 1..longer : vec'[j] = stored'[order'[j]] /\ map'[order'[j]] = j - 1
  <2>1. index = Len(order)
    BY <1>2, <1>7, IndexFits, IndicesAssumption
  <2>2. /\ vec'[longer] = x
        /\ \A j \in 1..Len(order) : vec'[j] = vec[j]
    <3>1. index + 1 = longer /\ longer \in 1..longer BY <1>2, <2>1
    <3> HIDE DEF index, longer
    <3>2. vec' = [Resized(wanted) EXCEPT ![longer] = x] BY <1>1, <3>1
    <3>3. vec'[longer] = x BY <1>4, <3>1, <3>2, WrittenVec
    <3>4. \A j \in 1..Len(order) : j \in 1..longer /\ j # longer BY <1>2 DEF longer
    <3> QED BY <1>4, <3>2, <3>3, <3>4, WrittenVec
  <2> SUFFICES ASSUME NEW j \in 1..longer
               PROVE  vec'[j] = stored'[order'[j]] /\ map'[order'[j]] = j - 1
    OBVIOUS
  <2>3. CASE j = longer
    <3>1. map'[key] = index /\ stored'[key] = x BY <1>1 DEF With
    <3> HIDE DEF index
    <3> QED BY <1>2, <1>3, <2>1, <2>2, <2>3, <3>1
  <2>4. CASE j # longer
    <3>1. j \in 1..Len(order) BY <1>2, <2>4
    <3>2. order[j] # key /\ order[j] \in DOMAIN map
      BY <3>1 DEF MapInv, KeysAgree
    <3>3. map'[order[j]] = map[order[j]]
      BY <1>1, <3>2 DEF With
    <3>4. stored'[order[j]] = stored[order[j]]
      BY <1>1, <3>2 DEF With, MapInv, KeysAgree
    <3>5. vec[j] = stored[order[j]] /\ map[order[j]] = j - 1
      <4>1. Len(order) <= Indices BY <1>2, <1>7, IndicesAssumption
      <4> QED BY <3>1, <4>1 DEF MapInv, ValuesAgree
    <3>6. vec'[j] = vec[j] /\ order'[j] = order[j]
      BY <1>3, <2>2, <3>1
    <3> QED BY <3>3, <3>4, <3>5, <3>6
  <2> QED BY <2>3, <2>4
<1> QED BY <1>3, <1>6, <1>7 DEF MapInv, ValuesAgree

\* A value written at a position is that of the position's key, and of no other.
LEMMA AssignAtStep ==
  ASSUME MapInv, NEW i \in DOMAIN vec, NEW x \in Contents, AssignAt(i, x)
  PROVE  MapInv'
<1>1. /\ map' = map /\ order' = order
      /\ vec' = [vec EXCEPT ![i] = x]
      /\ stored' = With(stored, order[i], x)
  BY DEF AssignAt
<1>2. i \in 1..Len(order) /\ order[i] \in DOMAIN stored
  BY LenProperties DEF MapInv, KeysAgree
<1>3. DOMAIN stored' = DOMAIN stored
  BY <1>1, <1>2 DEF With
<1>4. vec \in Seq(Contents) /\ Len(vec) = Len(order) BY DEF MapInv, KeysAgree
<1>5. /\ vec' \in Seq(Contents) /\ Len(vec') = Len(vec)
      /\ vec'[i] = x /\ \A j \in 1..Len(vec) : j # i => vec'[j] = vec[j]
  BY <1>1, <1>2, <1>4, WrittenVec
<1>6. KeysAgree'
  <2>1. vec' \in Seq(Contents) /\ Len(vec') = Len(order)
    BY <1>4, <1>5
  <2>2. /\ order' \in Seq(Keys)
        /\ \A a, b \in 1..Len(order') : order'[a] = order'[b] => a = b
        /\ DOMAIN map' = {order'[a] : a \in 1..Len(order')}
        /\ IsFiniteSet(DOMAIN map') /\ Cardinality(DOMAIN map') = Len(order')
    BY <1>1 DEF MapInv, KeysAgree
  <2>3. DOMAIN stored' = DOMAIN map'
    BY <1>1, <1>3 DEF MapInv, KeysAgree
  <2> QED BY <1>1, <2>1, <2>2, <2>3 DEF KeysAgree
<1>7. ASSUME Len(order) <= Indices, NEW j \in 1..Len(order)
      PROVE  vec'[j] = stored'[order[j]] /\ map'[order[j]] = j - 1
  <2>1. vec[j] = stored[order[j]] /\ map[order[j]] = j - 1
    BY <1>7 DEF MapInv, ValuesAgree
  <2>2. CASE j = i
    BY <1>1, <1>5, <2>1, <2>2 DEF With
  <2>3. CASE j # i
    <3>1. order[j] # order[i] /\ order[j] \in DOMAIN stored
      BY <1>2, <2>3 DEF MapInv, KeysAgree
    <3>2. stored'[order[j]] = stored[order[j]]
      BY <1>1, <3>1 DEF With
    <3> QED BY <1>1, <1>4, <1>5, <2>1, <2>3, <3>2
  <2> QED BY <2>2, <2>3
<1> QED BY <1>1, <1>6, <1>7 DEF MapInv, ValuesAgree

LEMMA MapStep == MapInv /\ [MapNext]_mapVars => MapInv'
<1> SUFFICES ASSUME MapInv, [MapNext]_mapVars PROVE MapInv' OBVIOUS
<1>1. CASE UNCHANGED mapVars
  <2>1. map' = map /\ vec' = vec /\ order' = order /\ stored' = stored
    BY <1>1 DEF mapVars
  <2>2. KeysAgree' BY <2>1 DEF MapInv, KeysAgree
  <2>3. ValuesAgree' BY <2>1 DEF MapInv, ValuesAgree
  <2> QED BY <2>2, <2>3 DEF MapInv
<1>2. ASSUME NEW x \in Contents, NEW key \in Keys, Assign(key, x) PROVE MapInv'
  BY <1>2, AssignKnown, AssignNew
<1>3. ASSUME NEW x \in Contents, NEW i \in DOMAIN vec, AssignAt(i, x) PROVE MapInv'
  BY <1>3, AssignAtStep
<1> QED BY <1>1, <1>2, <1>3 DEF MapNext

LEMMA MapInvariant == MapSpec => []MapInv
  BY MapInitial, MapStep, PTL DEF MapSpec

(***************************************************************************)
(* Iterating over an IndexedMap gives the values of its keys in the order  *)
(* in which operator[] first saw them, up to as many keys as IndexType has *)
(* values: the position that marks a key without one does no harm.         *)
(***************************************************************************)
THEOREM ValuesInOrder == MapSpec => []ValuesFollowKeys
<1>1. MapInv => ValuesFollowKeys
  <2> SUFFICES ASSUME MapInv, Len(order) <= Indices
               PROVE  /\ vec = [i \in DOMAIN order |-> stored[order[i]]]
                      /\ \A i \in DOMAIN order : map[order[i]] = i - 1
    BY DEF ValuesFollowKeys
  <2>1. /\ DOMAIN order = 1..Len(order) /\ DOMAIN vec = 1..Len(order)
        /\ vec = [i \in DOMAIN vec |-> vec[i]]
    BY LenProperties DEF MapInv, KeysAgree
  <2>2. \A i \in 1..Len(order) : vec[i] = stored[order[i]] /\ map[order[i]] = i - 1
    BY DEF MapInv, ValuesAgree
  <2> QED BY <2>1, <2>2
<1> QED BY <1>1, MapInvariant, PTL

-----------------------------------------------------------------------------
(***************************************************************************)
(* PerfCounter.                                                            *)
(***************************************************************************)
Flags ==
  /\ at \in {"caller", "reset", "enable", "disable", "read"}
  /\ kernelOn \in BOOLEAN /\ inSection \in BOOLEAN /\ faultless \in BOOLEAN

Numbers == kernelCount \in Nat /\ occurred \in Nat /\ since \in Nat /\ inside \in Nat

CounterTypes == Flags /\ Numbers

\* A section is open only while the caller runs, and nothing is inside before it is.
SectionAgrees ==
  /\ inSection => at = "caller"
  /\ at \in {"reset", "enable"} => inside = 0

\* Once the reset has worked, the kernel's count lies between the two that bound
\* what stop() returns; in the section it grows with them.
CountBetween ==
  faultless => /\ at # "reset" => inside <= kernelCount /\ kernelCount <= since
               /\ inSection => kernelOn

CounterInv == CounterTypes /\ SectionAgrees /\ CountBetween

-----------------------------------------------------------------------------
LEMMA CounterInitial == CounterInit => CounterInv
<1> SUFFICES ASSUME CounterInit PROVE CounterInv OBVIOUS
<1>1. CounterTypes BY DEF CounterInit, CounterTypes, Flags, Numbers
<1>2. SectionAgrees BY DEF CounterInit, SectionAgrees
<1>3. CountBetween BY DEF CounterInit, CountBetween
<1> QED BY <1>1, <1>2, <1>3 DEF CounterInv

\* An occurrence counts in the kernel whenever it counts as inside.
LEMMA OccursStep == CounterInv /\ Occurs => CounterInv'
<1> SUFFICES ASSUME CounterInv, Occurs PROVE CounterInv' OBVIOUS
<1> USE DEF CounterInv
<1>1. /\ UNCHANGED <<at, kernelOn, inSection, faultless>>
      /\ occurred' = occurred + 1 /\ since' = since + 1
      /\ inside' = IF inSection THEN inside + 1 ELSE inside
      /\ kernelCount' = IF kernelOn THEN kernelCount + 1 ELSE kernelCount
  BY DEF Occurs
<1>2. CounterTypes'
  <2>1. Flags' BY <1>1 DEF CounterTypes, Flags
  <2>2. Numbers' BY <1>1 DEF CounterTypes, Numbers
  <2> QED BY <2>1, <2>2 DEF CounterTypes
<1>3. SectionAgrees'
  BY <1>1 DEF SectionAgrees
<1>4. CountBetween'
  BY <1>1 DEF CounterTypes, Flags, Numbers, SectionAgrees, CountBetween
<1> QED BY <1>2, <1>3, <1>4

LEMMA CounterStep == CounterInv /\ [CounterNext]_counterVars => CounterInv'
<1> SUFFICES ASSUME CounterInv, [CounterNext]_counterVars PROVE CounterInv' OBVIOUS
<1> USE DEF CounterInv
<1>1. CASE UNCHANGED counterVars
  <2>1. UNCHANGED <<at, kernelOn, inSection, faultless>>
        /\ UNCHANGED <<kernelCount, occurred, since, inside>>
    BY <1>1 DEF counterVars, kernelEvent, history
  <2> QED BY <2>1 DEF CounterTypes, Flags, Numbers, SectionAgrees, CountBetween
<1>2. CASE Occurs
  BY <1>2, OccursStep
<1>3. CASE OpenCounter \/ CloseCounter
  <2>1. /\ at' = "caller" /\ faultless' = FALSE
        /\ UNCHANGED <<occurred, since, inside>>
        /\ inSection' \in {inSection, FALSE} /\ kernelOn' \in {kernelOn, FALSE}
        /\ kernelCount' \in {kernelCount, 0}
    BY <1>3 DEF OpenCounter, CloseCounter, kernelEvent, history
  <2>2. CounterTypes'
    <3>1. Flags' BY <2>1 DEF CounterTypes, Flags
    <3>2. Numbers' BY <2>1 DEF CounterTypes, Numbers
    <3> QED BY <3>1, <3>2 DEF CounterTypes
  <2>3. SectionAgrees' BY <2>1 DEF SectionAgrees
  <2>4. CountBetween' BY <2>1 DEF CountBetween
  <2> QED BY <2>2, <2>3, <2>4
<1>4. CASE StartCounter
  <2>1. /\ at' = "reset" /\ since' = 0 /\ inside' = 0 /\ inSection' = FALSE /\ faultless' = TRUE
        /\ UNCHANGED <<kernelOn, kernelCount, occurred>>
    BY <1>4 DEF StartCounter, Continue, kernelEvent
  <2>2. CounterTypes'
    <3>1. Flags' BY <2>1 DEF CounterTypes, Flags
    <3>2. Numbers' BY <2>1 DEF CounterTypes, Numbers
    <3> QED BY <3>1, <3>2 DEF CounterTypes
  <2>3. SectionAgrees' BY <2>1 DEF SectionAgrees
  <2>4. CountBetween' BY <2>1 DEF CountBetween
  <2> QED BY <2>2, <2>3, <2>4
<1>5. CASE ResetCounter
  <2>1. /\ at = "reset" /\ at' = "enable"
        /\ UNCHANGED <<kernelOn, occurred, since, inside, inSection>>
        /\ kernelCount' \in {kernelCount, 0} /\ faultless' \in {faultless, FALSE}
        /\ faultless' => kernelCount' = 0
    BY <1>5 DEF ResetCounter, Continue, history
  <2>2. CounterTypes'
    <3>1. Flags' BY <2>1 DEF CounterTypes, Flags
    <3>2. Numbers' BY <2>1 DEF CounterTypes, Numbers
    <3> QED BY <3>1, <3>2 DEF CounterTypes
  <2>3. SectionAgrees' BY <2>1 DEF SectionAgrees
  <2>4. CountBetween' BY <2>1 DEF CounterTypes, Flags, Numbers, SectionAgrees, CountBetween
  <2> QED BY <2>2, <2>3, <2>4
<1>6. CASE EnableCounter
  <2>1. /\ at = "enable" /\ at' = "caller" /\ inSection' = TRUE
        /\ UNCHANGED <<kernelCount, occurred, since, inside>>
    BY <1>6 DEF EnableCounter, Continue
  <2>2. \/ kernelOn' = TRUE /\ faultless' = faultless
        \/ kernelOn' = kernelOn /\ faultless' = FALSE
    BY <1>6 DEF EnableCounter
  <2>3. CounterTypes'
    <3>1. Flags' BY <2>1, <2>2 DEF CounterTypes, Flags
    <3>2. Numbers' BY <2>1 DEF CounterTypes, Numbers
    <3> QED BY <3>1, <3>2 DEF CounterTypes
  <2>4. SectionAgrees' BY <2>1 DEF SectionAgrees
  <2>5. CountBetween' BY <2>1, <2>2 DEF CountBetween
  <2> QED BY <2>3, <2>4, <2>5
\* stop() ends the section before the kernel is told.
<1>7. CASE StopCounter \/ DisableCounter \/ ReadCounter
  <2>1. /\ at \in {"caller", "disable", "read"} /\ at' \in {"caller", "disable", "read"}
        /\ UNCHANGED <<kernelCount, occurred, since, inside>>
        /\ inSection' \in {inSection, FALSE} /\ kernelOn' \in {kernelOn, FALSE}
        /\ faultless' \in {faultless, FALSE}
        /\ at = "caller" \/ inSection' = inSection
        /\ at = "caller" => inSection' = FALSE
    BY <1>7 DEF StopCounter, DisableCounter, ReadCounter, Continue, kernelEvent, history
  <2>2. inSection' = FALSE
    BY <2>1 DEF SectionAgrees, CounterTypes, Flags
  <2>3. CounterTypes'
    <3>1. Flags' BY <2>1, <2>2 DEF CounterTypes, Flags
    <3>2. Numbers' BY <2>1, <2>2 DEF CounterTypes, Numbers
    <3> QED BY <3>1, <3>2 DEF CounterTypes
  <2>4. SectionAgrees' BY <2>1, <2>2 DEF SectionAgrees
  <2>5. CountBetween' BY <2>1, <2>2 DEF CounterTypes, Flags, Numbers, CountBetween
  <2> QED BY <2>3, <2>4, <2>5
<1> QED
  BY <1>1, <1>2, <1>3, <1>4, <1>5, <1>6, <1>7 DEF CounterNext

LEMMA CounterInvariant == CounterSpec => []CounterInv
<1> QED BY CounterInitial, CounterStep, PTL DEF CounterSpec

\* The only step from "read" to the caller is the read itself.
LEMMA ReadReturnsCount ==
  ASSUME CounterInv, [CounterNext]_counterVars, at = "read", at' = "caller", faultless'
  PROVE  inside <= returned' /\ returned' <= since
<1>1. ReadCounter
  <2>1. at # at' OBVIOUS
  <2> QED
    BY <2>1 DEF CounterNext, counterVars, Occurs, OpenCounter, CloseCounter, StartCounter,
                ResetCounter, EnableCounter, StopCounter, DisableCounter, Continue
<1>2. faultless /\ returned' = kernelCount
  BY <1>1 DEF ReadCounter, CounterInv, CounterTypes, Flags
<1> QED BY <1>2 DEF CounterInv, CountBetween

(***************************************************************************)
(* stop() of PerfCounter.cpp answers for its own section, whatever calls   *)
(* the caller makes in which order and whichever of them fail.             *)
(***************************************************************************)
THEOREM SectionCounted == CounterSpec => StopInSection
<1>1. CounterInv /\ [CounterNext]_counterVars
        => [at = "read" /\ at' = "caller" /\ faultless'
              => inside <= returned' /\ returned' <= since]_counterVars
  BY ReadReturnsCount
<1> QED BY <1>1, CounterInvariant, PTL DEF CounterSpec, StopInSection
-----------------------------------------------------------------------------
(***************************************************************************)
(* Regression: the best model of a label.                                  *)
(***************************************************************************)
\* What a report says of a label.
SoundReport(l) ==
  IF solved[l] = <<>> THEN reports[l] = NotConverged
  ELSE /\ reports[l] \in DOMAIN solved[l]
       /\ \A name \in DOMAIN solved[l] \ {reports[l]} :
            \/ solved[l][name] > solved[l][reports[l]]
            \/ /\ solved[l][name] = solved[l][reports[l]]
               /\ Position(name) > Position(reports[l])

\* The options tried so far, and the best of those that were solved.
BestSoFar ==
  /\ option \in 1..(Len(Options) + 1)
  /\ found \in BOOLEAN
  /\ DOMAIN solved[label] \subseteq {Options[k] : k \in 1..(option - 1)}
  /\ \A name \in DOMAIN solved[label] : solved[label][name] \in Int
  /\ solved[label] # <<>> => found
  /\ found => /\ best.name \in DOMAIN solved[label]
              /\ best.aic = solved[label][best.name]
              /\ \A name \in DOMAIN solved[label] \ {best.name} :
                   \/ solved[label][name] > best.aic
                   \/ solved[label][name] = best.aic /\ Position(name) > Position(best.name)

\* The labels that have their report, and the one that is being fitted.
RegressionInv ==
  /\ DOMAIN events \subseteq Int /\ IsFiniteSet(DOMAIN events)
  /\ doing \in {"idle", "events", "options"}
  /\ DOMAIN reports \subseteq DOMAIN solved
  /\ \A l \in DOMAIN reports : SoundReport(l)
  /\ doing # "idle" => todo \subseteq DOMAIN events
  /\ doing = "events" => DOMAIN reports = DOMAIN events \ todo
  /\ doing = "options" =>
       /\ label \in DOMAIN events \ todo /\ label \in DOMAIN solved
       /\ DOMAIN reports = DOMAIN events \ (todo \cup {label})
       /\ BestSoFar

\* A finite set of numbers has a least one.
LEMMA LeastMember ==
  ASSUME NEW S \in SUBSET Int, IsFiniteSet(S), S # {}
  PROVE  Min(S) \in S /\ \A k \in S : Min(S) <= k
<1> DEFINE Minimum(s) == \E a \in s : \A b \in s : a <= b
           T == {Cardinality(s) : s \in {u \in SUBSET S : u # {} /\ ~Minimum(u)}}
<1>1. \A s \in SUBSET S : IsFiniteSet(s) /\ Cardinality(s) \in Nat
  BY FS_Subset, FS_CardinalityType
<1>2. T = {}
  <2> SUFFICES ASSUME T # {} PROVE FALSE OBVIOUS
  <2>1. T \in SUBSET Nat BY <1>1
  <2>2. PICK m \in T : \A k \in T : m <= k BY <2>1, LeastNumber
  <2>3. PICK s \in SUBSET S : s # {} /\ ~Minimum(s) /\ m = Cardinality(s) BY <2>2
  <2>4. PICK x \in s : TRUE BY <2>3
  <2> DEFINE r == s \ {x}
  <2>5. r \in SUBSET S /\ Cardinality(r) = Cardinality(s) - 1 BY <1>1, <2>4, FS_RemoveElement
  <2>6. Cardinality(r) \notin T
    <3>1. Cardinality(r) \in Nat /\ Cardinality(s) \in Nat BY <1>1, <2>5
    <3>2. Cardinality(r) < m BY <2>3, <2>5, <3>1
    <3> HIDE DEF T, r
    <3> QED BY <2>2, <2>3, <3>1, <3>2
  <2>7. CASE r = {}
    <3>1. s = {x} BY <2>4, <2>7
    <3> QED BY <2>3, <3>1
  <2>8. CASE r # {}
    <3>1. Minimum(r) BY <2>5, <2>6, <2>8
    <3>2. PICK a \in r : \A b \in r : a <= b BY <3>1
    <3>3. a \in Int /\ x \in Int /\ a \in s /\ s \subseteq Int BY <2>4
    <3>4. CASE a <= x
      <4>1. \A b \in s : a <= b BY <3>2, <3>4
      <4> QED BY <2>3, <3>3, <4>1
    <3>5. CASE ~(a <= x)
      <4>1. \A b \in s : x <= b
        <5> TAKE b \in s
        <5>1. CASE b = x BY <3>3, <5>1
        <5>2. CASE b # x
          <6>1. b \in r /\ b \in Int BY <3>3, <5>2
          <6>2. a <= b BY <3>2, <6>1
          <6> QED BY <3>3, <3>5, <6>1, <6>2
        <5> QED BY <5>1, <5>2
      <4> QED BY <2>3, <2>4, <4>1
    <3> QED BY <3>4, <3>5
  <2> QED BY <2>7, <2>8
<1>3. Minimum(S)
  <2>1. Cardinality(S) \notin T BY <1>2
  <2> QED BY <2>1
<1> QED BY <1>3 DEF Min

\* No two options have one name.
LEMMA Positions ==
  ASSUME NEW k \in 1..Len(Options)
  PROVE  Position(Options[k]) = k
<1>1. Len(Options) = 4 /\ DOMAIN Options = 1..4 BY DEF Options
<1>2. k \in {1, 2, 3, 4} BY <1>1
<1>3. \A i, j \in {1, 2, 3, 4} : Options[i] = Options[j] => i = j BY DEF Options
<1>4. \A i \in DOMAIN Options : i \in {1, 2, 3, 4} BY <1>1
<1> HIDE DEF Options
<1>5. k \in DOMAIN Options BY <1>1, <1>2
<1> QED BY <1>2, <1>3, <1>4, <1>5 DEF Position

LEMMA RegressionInitial == SnapshotInit /\ RegressionInit => RegressionInv
<1> SUFFICES ASSUME SnapshotInit, RegressionInit PROVE RegressionInv OBVIOUS
<1>1. events = <<>> /\ reports = <<>> /\ solved = <<>> /\ doing = "idle"
  BY DEF SnapshotInit, RegressionInit
<1>2. DOMAIN events = {} /\ DOMAIN reports = {} BY <1>1
<1> QED BY <1>1, <1>2, FS_EmptySet DEF RegressionInv

LEMMA SnapshotLabels ==
  ASSUME DOMAIN events \subseteq Int, IsFiniteSet(DOMAIN events), SnapshotNext
  PROVE  DOMAIN events' \subseteq Int /\ IsFiniteSet(DOMAIN events')
<1>1. PICK l \in Labels, numitems \in ItemCounts, iterations \in Iterations, section \in Sections :
        SnapshotStop(l, numitems, iterations, section)
  BY DEF SnapshotNext
<1>2. l \in Int BY LabelsAssumption
<1>3. CASE iterations = 0
  <2>1. events' = events BY <1>1, <1>3 DEF SnapshotStop
  <2> QED BY <2>1
<1>4. CASE iterations # 0
  <2>1. \E e : events' = With(events, l, e) BY <1>1, <1>4 DEF SnapshotStop
  <2>2. DOMAIN events' = DOMAIN events \cup {l} BY <2>1 DEF With
  <2> QED BY <1>2, <2>2, FS_AddElement
<1> QED BY <1>3, <1>4

\* A fit that is solved: the first of the least stays the best.
LEMMA FitKeepsBest ==
  ASSUME RegressionInv, TrySolved
  PROVE  BestSoFar' /\ \A l \in DOMAIN reports : solved'[l] = solved[l]
<1>1. /\ doing = "options" /\ option <= Len(Options)
      /\ option' = option + 1 /\ label' = label
  BY DEF TrySolved
<1>2. BestSoFar /\ label \in DOMAIN solved /\ label \notin DOMAIN reports
  BY <1>1 DEF RegressionInv
<1>3. PICK aic \in Aics :
        /\ IF ~found \/ aic < best.aic
           THEN found' = TRUE /\ best' = [name |-> Options[option], aic |-> aic]
           ELSE UNCHANGED <<found, best>>
        /\ solved' = [solved EXCEPT ![label] = With(@, Options[option], aic)]
  BY DEF TrySolved
<1> DEFINE s == solved[label]
           t == solved'[label]
           fit == Options[option]
<1>4. t = With(s, fit, aic) BY <1>2, <1>3
<1>5. \A l \in DOMAIN reports : solved'[l] = solved[l] BY <1>2, <1>3
<1>6. Len(Options) = 4 BY DEF Options
<1>7. option \in 1..4 /\ aic \in Int BY <1>1, <1>2, <1>6, AicsAssumption DEF BestSoFar
<1>8. /\ DOMAIN s \subseteq {Options[k] : k \in 1..(option - 1)}
      /\ \A name \in DOMAIN s : s[name] \in Int
  BY <1>2 DEF BestSoFar
<1>9. Position(fit) = option BY <1>6, <1>7, Positions
<1>10. \A name \in DOMAIN s : Position(name) \in Int /\ Position(name) < option
  <2> TAKE name \in DOMAIN s
  <2>1. PICK k \in 1..(option - 1) : name = Options[k] BY <1>8
  <2>2. k \in 1..Len(Options) BY <1>6, <1>7
  <2>3. Position(name) = k BY <2>1, <2>2, Positions
  <2> QED BY <1>7, <2>3
<1>11. fit \notin DOMAIN s BY <1>7, <1>9, <1>10
<1> HIDE DEF fit, s, t
<1>12. /\ DOMAIN t = DOMAIN s \cup {fit} /\ t[fit] = aic
       /\ \A name \in DOMAIN s : t[name] = s[name]
  BY <1>4, <1>11 DEF With
<1>13. option' \in 1..(Len(Options) + 1) BY <1>1, <1>6, <1>7
<1>14. DOMAIN t \subseteq {Options[k] : k \in 1..(option' - 1)}
  <2>1. fit \in {Options[k] : k \in 1..(option' - 1)} BY <1>1, <1>7 DEF fit
  <2>2. {Options[k] : k \in 1..(option - 1)} \subseteq {Options[k] : k \in 1..(option' - 1)}
    BY <1>1, <1>7
  <2> QED BY <1>8, <1>12, <2>1, <2>2
<1>15. \A name \in DOMAIN t : t[name] \in Int BY <1>7, <1>8, <1>12
<1>16. /\ found' = TRUE
       /\ best'.name \in DOMAIN t /\ best'.aic = t[best'.name]
       /\ \A name \in DOMAIN t \ {best'.name} :
            \/ t[name] > best'.aic
            \/ t[name] = best'.aic /\ Position(name) > Position(best'.name)
  <2>0. found \in BOOLEAN /\ (s # <<>> => found) BY <1>2 DEF BestSoFar, s
  <2>1. CASE ~found
    <3>1. found' = TRUE /\ best' = [name |-> fit, aic |-> aic] BY <1>3, <2>1 DEF fit
    <3>2. DOMAIN s = {}
      <4>1. s = <<>> BY <2>0, <2>1
      <4> QED BY <4>1
    <3> QED BY <1>12, <3>1, <3>2
  <2>2. CASE found
    <3>1. /\ best.name \in DOMAIN s /\ best.aic = s[best.name]
          /\ \A name \in DOMAIN s \ {best.name} :
               \/ s[name] > best.aic
               \/ s[name] = best.aic /\ Position(name) > Position(best.name)
      BY <1>2, <2>2 DEF BestSoFar, s
    <3>2. best.aic \in Int BY <1>8, <3>1
    <3>3. CASE aic < best.aic
      <4>1. found' = TRUE /\ best' = [name |-> fit, aic |-> aic] BY <1>3, <3>3 DEF fit
      <4>2. \A name \in DOMAIN s : s[name] > aic
        <5> TAKE name \in DOMAIN s
        <5>1. s[name] \in Int BY <1>8
        <5>2. CASE name = best.name BY <1>7, <3>1, <3>2, <3>3, <5>1, <5>2
        <5>3. CASE name # best.name
          <6>1. s[name] >= best.aic BY <3>1, <3>2, <5>1, <5>3
          <6> QED BY <1>7, <3>2, <3>3, <5>1, <6>1
        <5> QED BY <5>2, <5>3
      <4>3. best'.name = fit /\ best'.aic = aic BY <4>1
      <4> QED BY <1>12, <4>1, <4>2, <4>3
    <3>4. CASE ~(aic < best.aic)
      <4>1. found' = TRUE /\ best' = best BY <1>3, <2>0, <2>2, <3>4
      <4>2. best.name \in DOMAIN t /\ best.aic = t[best.name] BY <1>12, <3>1
      <4>3. ASSUME NEW name \in DOMAIN t \ {best.name}
            PROVE  \/ t[name] > best.aic
                   \/ t[name] = best.aic /\ Position(name) > Position(best.name)
        <5>1. CASE name \in DOMAIN s BY <1>12, <3>1, <5>1
        <5>2. CASE name = fit
          <6>1. Position(best.name) \in Int /\ Position(best.name) < option BY <1>10, <3>1
          <6>2. t[name] = aic /\ Position(name) = option BY <1>9, <1>12, <5>2
          <6> QED BY <1>7, <3>2, <3>4, <6>1, <6>2
        <5> QED BY <1>12, <5>1, <5>2
      <4> QED BY <4>1, <4>2, <4>3
    <3> QED BY <3>3, <3>4
  <2> QED BY <2>0, <2>1, <2>2
<1>17. BestSoFar'
  BY <1>1, <1>13, <1>14, <1>15, <1>16 DEF BestSoFar, t
<1> QED BY <1>5, <1>17

LEMMA RegressionStep ==
  RegressionInv /\ [RegressionNext]_<<snapshotVars, regressionVars>> => RegressionInv'
<1> SUFFICES ASSUME RegressionInv, [RegressionNext]_<<snapshotVars, regressionVars>>
             PROVE  RegressionInv'
  OBVIOUS
<1>0. /\ DOMAIN events \subseteq Int /\ IsFiniteSet(DOMAIN events)
      /\ DOMAIN reports \subseteq DOMAIN solved
      /\ \A l \in DOMAIN reports : SoundReport(l)
  BY DEF RegressionInv
<1>1. ASSUME NEW name \in Dependents, Summary(name), events' = events PROVE RegressionInv'
  <2>1. /\ doing' = "events" /\ todo' = DOMAIN events
        /\ reports' = <<>> /\ solved' = <<>>
    BY <1>1 DEF Summary
  <2>2. DOMAIN reports' = {} BY <2>1
  <2>3. DOMAIN events' \subseteq Int /\ IsFiniteSet(DOMAIN events') BY <1>0, <1>1
  <2> QED BY <1>1, <2>1, <2>2, <2>3 DEF RegressionInv
<1>2. ASSUME NextLabel, events' = events PROVE RegressionInv'
  <2> DEFINE l == Min(todo)
  <2>1. /\ doing = "events" /\ todo # {}
        /\ doing' = "options" /\ label' = l /\ todo' = todo \ {l}
        /\ option' = 1 /\ found' = FALSE
        /\ solved' = With(solved, l, <<>>) /\ reports' = reports
    BY <1>2 DEF NextLabel
  <2>2. todo \subseteq DOMAIN events /\ DOMAIN reports = DOMAIN events \ todo
    BY <2>1 DEF RegressionInv
  <2>3. IsFiniteSet(todo) BY <1>0, <2>2, FS_Subset
  <2>4. l \in todo BY <1>0, <2>1, <2>2, <2>3, LeastMember
  <2> HIDE DEF l
  <2>5. /\ DOMAIN solved' = DOMAIN solved \cup {l} /\ solved'[l] = <<>>
        /\ \A k \in DOMAIN solved \ {l} : solved'[k] = solved[k]
    BY <2>1 DEF With
  <2>6. \A k \in DOMAIN reports : SoundReport(k)'
    <3> TAKE k \in DOMAIN reports
    <3>1. k # l /\ k \in DOMAIN solved BY <1>0, <2>2, <2>4
    <3>2. solved'[k] = solved[k] /\ reports'[k] = reports[k] BY <2>1, <2>5, <3>1
    <3> QED BY <1>0, <3>2 DEF SoundReport
  <2>7. BestSoFar'
    <3>1. solved'[label'] = <<>> BY <2>1, <2>5
    <3>2. DOMAIN solved'[label'] = {} BY <3>1
    <3>3. option' \in 1..(Len(Options) + 1) BY <2>1 DEF Options
    <3> QED BY <2>1, <3>1, <3>2, <3>3 DEF BestSoFar
  <2>8. /\ label' \in DOMAIN events' \ todo' /\ label' \in DOMAIN solved'
        /\ todo' \subseteq DOMAIN events'
        /\ DOMAIN reports' = DOMAIN events' \ (todo' \cup {label'})
        /\ DOMAIN reports' \subseteq DOMAIN solved'
    BY <1>0, <1>2, <2>1, <2>2, <2>4, <2>5
  <2> QED BY <1>0, <1>2, <2>1, <2>6, <2>7, <2>8 DEF RegressionInv
<1>3. ASSUME NoDependent, events' = events PROVE RegressionInv'
  BY <1>0, <1>3 DEF NoDependent, RegressionInv, SoundReport
<1>4. ASSUME TrySolved, events' = events PROVE RegressionInv'
  <2>1. /\ doing = "options" /\ doing' = "options"
        /\ todo' = todo /\ label' = label /\ reports' = reports
    BY <1>4 DEF TrySolved
  <2>2. DOMAIN solved' = DOMAIN solved BY <1>4 DEF TrySolved
  <2>3. BestSoFar' /\ \A l \in DOMAIN reports : solved'[l] = solved[l]
    BY <1>4, FitKeepsBest
  <2>4. \A l \in DOMAIN reports : SoundReport(l)' BY <1>0, <2>1, <2>3 DEF SoundReport
  <2> QED BY <1>4, <2>1, <2>2, <2>3, <2>4 DEF RegressionInv
<1>5. ASSUME TryUnsolved, events' = events PROVE RegressionInv'
  <2>1. /\ doing = "options" /\ doing' = "options" /\ option <= Len(Options)
        /\ option' = option + 1
        /\ UNCHANGED <<todo, label, found, best, reports, solved>>
    BY <1>5 DEF TryUnsolved
  <2>2. Len(Options) = 4 BY DEF Options
  <2>3. BestSoFar BY <2>1 DEF RegressionInv
  <2>4. option \in 1..4 BY <2>1, <2>2, <2>3 DEF BestSoFar
  <2>5. option' \in 1..(Len(Options) + 1) BY <2>1, <2>2, <2>4
  <2>6. DOMAIN solved[label] \subseteq {Options[k] : k \in 1..(option' - 1)}
    <3>1. {Options[k] : k \in 1..(option - 1)} \subseteq {Options[k] : k \in 1..(option' - 1)}
      BY <2>1, <2>4
    <3> QED BY <2>3, <3>1 DEF BestSoFar
  <2>7. BestSoFar' BY <2>1, <2>3, <2>5, <2>6 DEF BestSoFar
  <2>8. \A l \in DOMAIN reports : SoundReport(l)' BY <1>0, <2>1 DEF SoundReport
  <2> QED BY <1>5, <2>1, <2>7, <2>8 DEF RegressionInv
<1>6. ASSUME Report, events' = events PROVE RegressionInv'
  <2>1. /\ doing = "options" /\ doing' = "events"
        /\ reports' = With(reports, label, IF found THEN best.name ELSE NotConverged)
        /\ UNCHANGED <<todo, label, solved>>
    BY <1>6 DEF Report, fitVars
  <2>2. /\ label \in DOMAIN events \ todo /\ label \in DOMAIN solved
        /\ DOMAIN reports = DOMAIN events \ (todo \cup {label})
        /\ BestSoFar /\ todo \subseteq DOMAIN events
    BY <2>1 DEF RegressionInv
  <2>3. /\ DOMAIN reports' = DOMAIN reports \cup {label}
        /\ reports'[label] = IF found THEN best.name ELSE NotConverged
        /\ \A l \in DOMAIN reports \ {label} : reports'[l] = reports[l]
    BY <2>1 DEF With
  <2>4. SoundReport(label)'
    <3>1. CASE found
      <4>1. reports'[label] = best.name BY <2>3, <3>1
      <4>2. best.name \in DOMAIN solved[label] BY <2>2, <3>1 DEF BestSoFar
      <4>3. solved[label] # <<>>
        <5>1. DOMAIN solved[label] # {} BY <4>2
        <5> QED BY <5>1
      <4> QED BY <2>1, <2>2, <3>1, <4>1, <4>2, <4>3 DEF SoundReport, BestSoFar
    <3>2. CASE ~found
      <4>1. solved[label] = <<>> BY <2>2, <3>2 DEF BestSoFar
      <4> QED BY <2>1, <2>3, <3>2, <4>1 DEF SoundReport
    <3> QED BY <3>1, <3>2
  <2>5. \A l \in DOMAIN reports' : SoundReport(l)'
    <3> TAKE l \in DOMAIN reports'
    <3>1. CASE l = label BY <2>1, <2>4, <3>1 DEF SoundReport
    <3>2. CASE l # label BY <1>0, <2>1, <2>3, <3>2 DEF SoundReport
    <3> QED BY <3>1, <3>2
  <2>6. DOMAIN reports' = DOMAIN events' \ todo' /\ DOMAIN reports' \subseteq DOMAIN solved'
    BY <1>0, <1>6, <2>1, <2>2, <2>3
  <2> QED BY <1>0, <1>6, <2>1, <2>2, <2>5, <2>6 DEF RegressionInv
<1>7. ASSUME SummaryEnds, events' = events PROVE RegressionInv'
  BY <1>0, <1>7 DEF SummaryEnds, RegressionInv, SoundReport
<1>8. ASSUME doing = "idle", SnapshotNext, UNCHANGED regressionVars PROVE RegressionInv'
  <2>1. DOMAIN events' \subseteq Int /\ IsFiniteSet(DOMAIN events') BY <1>0, <1>8, SnapshotLabels
  <2>2. UNCHANGED <<doing, reports, solved>> BY <1>8 DEF regressionVars
  <2> QED BY <1>0, <1>8, <2>1, <2>2 DEF RegressionInv, SoundReport
<1>9. ASSUME UNCHANGED <<snapshotVars, regressionVars>> PROVE RegressionInv'
  BY <1>9 DEF RegressionInv, SoundReport, BestSoFar, snapshotVars, regressionVars, fitVars
<1> QED BY <1>1, <1>2, <1>3, <1>4, <1>5, <1>6, <1>7, <1>8, <1>9 DEF RegressionNext, snapshotVars

\* summary() reports for every label the model with the least criterion of those
\* that were solved for it: BestIsLeast of Regression.
THEOREM LeastReported == RegressionSpec => []BestIsLeast
<1>1. RegressionInv => BestIsLeast
  <2> SUFFICES ASSUME RegressionInv PROVE BestIsLeast OBVIOUS
  <2>1. doing = "events" /\ todo = {} => DOMAIN reports = DOMAIN events BY DEF RegressionInv
  <2>2. \A l \in DOMAIN reports : SoundReport(l) BY DEF RegressionInv
  <2> QED BY <2>1, <2>2 DEF BestIsLeast, SoundReport
<1> QED BY <1>1, RegressionInitial, RegressionStep, PTL DEF RegressionSpec
-----------------------------------------------------------------------------
(***************************************************************************)
(* Sums of natural numbers.                                                *)
(***************************************************************************)
\* The units of work in the entries at the places S: their number is the sum of
\* the classes.
Amounts(f, S) == UNION {{i} \X (1..f[i]) : i \in S}

LEMMA AmountsMore ==
  ASSUME NEW f, NEW S, IsFiniteSet(Amounts(f, S)), NEW i, i \notin S, f[i] \in Nat
  PROVE  /\ IsFiniteSet(Amounts(f, S \cup {i}))
         /\ Cardinality(Amounts(f, S \cup {i})) = f[i] + Cardinality(Amounts(f, S))
<1> DEFINE c == f[i]
           U == {i} \X (1..c)
           h == [k \in 1..c |-> <<i, k>>]
<1>1. IsFiniteSet(1..c) /\ Cardinality(1..c) = c
  <2>1. c \in Nat OBVIOUS
  <2> HIDE DEF c
  <2>2. IsFiniteSet(1..c) /\ Cardinality(1..c) = IF 1 > c THEN 0 ELSE c - 1 + 1
    BY <2>1, FS_Interval
  <2> QED BY <2>1, <2>2
<1>2. h \in Bijection(1..c, U)
  <2>0. \A k \in 1..c : <<i, k>> \in U OBVIOUS
  <2>1. h \in [1..c -> U] BY <2>0
  <2>2. \A a, b \in 1..c : h[a] = h[b] => a = b OBVIOUS
  <2>3. ASSUME NEW u \in U PROVE \E k \in 1..c : u = h[k]
    <3>1. PICK a \in {i}, k \in 1..c : u = <<a, k>> OBVIOUS
    <3> QED BY <3>1
  <2> HIDE DEF h, U, c
  <2>4. h \in Injection(1..c, U) BY <2>1, <2>2 DEF Injection, IsInjective
  <2>5. h \in Surjection(1..c, U) BY <2>1, <2>3 DEF Surjection
  <2> QED BY <2>4, <2>5 DEF Bijection
<1>3. IsFiniteSet(U) /\ Cardinality(U) = c
  <2>1. ExistsBijection(1..c, U) BY <1>2 DEF ExistsBijection
  <2>2. IsFiniteSet(U) BY <1>1, <2>1, FS_Bijection
  <2> QED BY <1>1, <2>1, <2>2, FS_Bijection
<1>4. Amounts(f, S \cup {i}) = Amounts(f, S) \cup U BY DEF Amounts
<1>5. Amounts(f, S) \cap U = {} BY DEF Amounts
<1>6. c \in Nat OBVIOUS
<1> HIDE DEF U, c
<1>7. IsFiniteSet(Amounts(f, S) \cup U) BY <1>3, FS_Union
<1>8. Cardinality(Amounts(f, S) \cup U)
        = Cardinality(Amounts(f, S)) + Cardinality(U) - Cardinality(Amounts(f, S) \cap U)
  BY <1>3, FS_Union
<1>9. Cardinality(Amounts(f, S) \cap U) = 0 BY <1>5, FS_EmptySet
<1>10. Cardinality(Amounts(f, S)) \in Nat BY FS_CardinalityType
<1>11. Cardinality(Amounts(f, S) \cup U) = c + Cardinality(Amounts(f, S))
  BY <1>3, <1>6, <1>8, <1>9, <1>10
<1> QED BY <1>4, <1>7, <1>11 DEF c

\* The units of finitely many entries are finitely many.
LEMMA AmountsFinite ==
  ASSUME NEW f, NEW S, IsFiniteSet(S), \A i \in S : f[i] \in Nat
  PROVE  IsFiniteSet(Amounts(f, S)) /\ Cardinality(Amounts(f, S)) \in Nat
<1> DEFINE T == {Cardinality(s) : s \in {u \in SUBSET S : ~IsFiniteSet(Amounts(f, u))}}
<1>1. \A s \in SUBSET S : IsFiniteSet(s) /\ Cardinality(s) \in Nat
  BY FS_Subset, FS_CardinalityType
<1>2. T = {}
  <2> SUFFICES ASSUME T # {} PROVE FALSE OBVIOUS
  <2>1. T \in SUBSET Nat BY <1>1
  <2>2. PICK m \in T : \A k \in T : m <= k BY <2>1, LeastNumber
  <2>3. PICK s \in SUBSET S : ~IsFiniteSet(Amounts(f, s)) /\ m = Cardinality(s) BY <2>2
  <2>4. CASE s = {}
    <3>1. Amounts(f, s) = {} BY <2>4 DEF Amounts
    <3> QED BY <2>3, <3>1, FS_EmptySet
  <2>5. CASE s # {}
    <3>1. PICK i \in s : TRUE BY <2>5
    <3> DEFINE r == s \ {i}
    <3>2. r \in SUBSET S /\ Cardinality(r) = Cardinality(s) - 1
      BY <1>1, <3>1, FS_RemoveElement
    <3>3. Cardinality(r) \in Nat /\ Cardinality(s) \in Nat BY <1>1, <3>2
    <3>4. IsFiniteSet(Amounts(f, r))
      <4>1. Cardinality(r) \notin T
        <5>1. Cardinality(r) < m /\ m \in Nat BY <2>3, <3>2, <3>3
        <5> HIDE DEF r, T
        <5> QED BY <2>2, <3>3, <5>1
      <4> QED BY <3>2, <4>1
    <3>5. s = r \cup {i} /\ i \notin r BY <3>1
    <3>6. f[i] \in Nat BY <3>1
    <3> HIDE DEF r
    <3> QED BY <2>3, <3>4, <3>5, <3>6, AmountsMore
  <2> QED BY <2>4, <2>5
<1> QED BY <1>1, <1>2, FS_CardinalityType

LEMMA SumIsAmounts ==
  ASSUME NEW f, NEW S, IsFiniteSet(S), \A i \in S : f[i] \in Nat
  PROVE  SumFunctionOnSet(f, S) = Cardinality(Amounts(f, S))
<1> DEFINE c(s) == CHOOSE x \in s : TRUE
           F(g) == [s \in SUBSET S |-> IF s = {} THEN 0 ELSE f[c(s)] + g[s \ {c(s)}]]
           u == [s \in SUBSET S |-> Cardinality(Amounts(f, s))]
           it == CHOOSE g : g = F(g)
<1>1. SumFunctionOnSet(f, S) = it[S] BY DEF SumFunctionOnSet, FoldFunctionOnSet, MapThenFoldSet
<1>2. \A s \in SUBSET S : IsFiniteSet(s) /\ Cardinality(s) \in Nat
  BY FS_Subset, FS_CardinalityType
<1>3. \A s \in SUBSET S : s # {} => c(s) \in s OBVIOUS
<1>4. ASSUME NEW s \in SUBSET S
      PROVE  u[s] = IF s = {} THEN 0 ELSE f[c(s)] + u[s \ {c(s)}]
  <2>1. CASE s = {}
    <3>1. Amounts(f, s) = {} BY <2>1 DEF Amounts
    <3> QED BY <2>1, <3>1, FS_EmptySet
  <2>2. CASE s # {}
    <3> DEFINE i == c(s)
               r == s \ {i}
    <3>1. i \in s BY <1>3, <2>2
    <3> HIDE DEF i
    <3>2. s = r \cup {i} /\ i \notin r /\ r \in SUBSET S /\ i \in S BY <3>1
    <3>3. f[i] \in Nat BY <3>2
    <3>4. IsFiniteSet(r) BY <1>2, <3>2
    <3>5. IsFiniteSet(Amounts(f, r)) BY <3>2, <3>4, AmountsFinite
    <3> HIDE DEF r
    <3>6. Cardinality(Amounts(f, r \cup {i})) = f[i] + Cardinality(Amounts(f, r))
      BY <3>2, <3>3, <3>5, AmountsMore
    <3>7. u[s] = f[i] + u[r] BY <3>2, <3>6
    <3> QED BY <2>2, <3>7 DEF i, r
  <2> QED BY <2>1, <2>2
<1> HIDE DEF c
<1>5. u = F(u) BY <1>4
<1> HIDE DEF u
<1>6. it = F(it) BY <1>5
<1> HIDE DEF it
<1>7. ASSUME NEW s \in SUBSET S
      PROVE  it[s] = IF s = {} THEN 0 ELSE f[c(s)] + it[s \ {c(s)}]
  BY <1>6
<1> DEFINE T == {Cardinality(s) : s \in {v \in SUBSET S : it[v] # u[v]}}
<1>8. T = {}
  <2> SUFFICES ASSUME T # {} PROVE FALSE OBVIOUS
  <2>1. T \in SUBSET Nat BY <1>2
  <2>2. PICK m \in T : \A k \in T : m <= k BY <2>1, LeastNumber
  <2>3. PICK s \in SUBSET S : it[s] # u[s] /\ m = Cardinality(s) BY <2>2
  <2>4. CASE s = {} BY <1>4, <1>7, <2>3, <2>4
  <2>5. CASE s # {}
    <3>1. c(s) \in s BY <1>3, <2>5
    <3> DEFINE r == s \ {c(s)}
    <3>2. r \in SUBSET S /\ Cardinality(r) = Cardinality(s) - 1
      BY <1>2, <3>1, FS_RemoveElement
    <3>3. Cardinality(r) \in Nat /\ Cardinality(s) \in Nat BY <1>2, <3>2
    <3>4. it[r] = u[r]
      <4>1. Cardinality(r) \notin T
        <5>1. Cardinality(r) < m BY <2>3, <3>2, <3>3
        <5>2. m \in Nat BY <2>3, <3>3
        <5> HIDE DEF r, T
        <5> QED BY <2>2, <3>3, <5>1, <5>2
      <4> QED BY <3>2, <4>1
    <3> QED BY <1>4, <1>7, <2>3, <2>5, <3>4
  <2> QED BY <2>4, <2>5
<1>9. it[S] = u[S] BY <1>8
<1> QED BY <1>1, <1>9 DEF u

\* A sum over two sets, over one place, over none, and of equal numbers.
LEMMA SumOfUnion ==
  ASSUME NEW f, NEW S, IsFiniteSet(S), NEW T, IsFiniteSet(T), S \cap T = {},
         \A i \in S \cup T : f[i] \in Nat
  PROVE  SumFunctionOnSet(f, S \cup T) = SumFunctionOnSet(f, S) + SumFunctionOnSet(f, T)
<1>1. IsFiniteSet(S \cup T) BY FS_Union
<1>2. Amounts(f, S \cup T) = Amounts(f, S) \cup Amounts(f, T) BY DEF Amounts
<1>3. Amounts(f, S) \cap Amounts(f, T) = {} BY DEF Amounts
<1>4. IsFiniteSet(Amounts(f, S)) /\ Cardinality(Amounts(f, S)) \in Nat BY AmountsFinite
<1>5. IsFiniteSet(Amounts(f, T)) /\ Cardinality(Amounts(f, T)) \in Nat BY AmountsFinite
<1>6. Cardinality(Amounts(f, S) \cup Amounts(f, T))
        = Cardinality(Amounts(f, S)) + Cardinality(Amounts(f, T))
            - Cardinality(Amounts(f, S) \cap Amounts(f, T))
  BY <1>4, <1>5, FS_Union
<1>7. Cardinality(Amounts(f, S) \cap Amounts(f, T)) = 0 BY <1>3, FS_EmptySet
<1>8. SumFunctionOnSet(f, S \cup T) = Cardinality(Amounts(f, S \cup T)) BY <1>1, SumIsAmounts
<1>9. /\ SumFunctionOnSet(f, S) = Cardinality(Amounts(f, S))
      /\ SumFunctionOnSet(f, T) = Cardinality(Amounts(f, T))
  BY SumIsAmounts
<1>10. Cardinality(Amounts(f, S) \cup Amounts(f, T))
        = Cardinality(Amounts(f, S)) + Cardinality(Amounts(f, T))
  BY <1>4, <1>5, <1>6, <1>7
<1> QED BY <1>2, <1>8, <1>9, <1>10

LEMMA SumOfNone ==
  ASSUME NEW f
  PROVE  SumFunctionOnSet(f, {}) = 0
<1>1. Amounts(f, {}) = {} BY DEF Amounts
<1>2. IsFiniteSet({}) /\ Cardinality({}) = 0 BY FS_EmptySet
<1> QED BY <1>1, <1>2, SumIsAmounts

LEMMA SumOfOne ==
  ASSUME NEW f, NEW i, f[i] \in Nat
  PROVE  SumFunctionOnSet(f, {i}) = f[i]
<1>1. Amounts(f, {}) = {} BY DEF Amounts
<1>2. IsFiniteSet({}) /\ Cardinality({}) = 0 BY FS_EmptySet
<1>3. Cardinality(Amounts(f, {} \cup {i})) = f[i] + Cardinality(Amounts(f, {}))
  BY <1>1, <1>2, AmountsMore
<1>4. IsFiniteSet({i}) BY FS_Singleton
<1> QED BY <1>1, <1>2, <1>3, <1>4, SumIsAmounts

LEMMA SumOfZeroes ==
  ASSUME NEW f, NEW S, IsFiniteSet(S), \A i \in S : f[i] = 0
  PROVE  SumFunctionOnSet(f, S) = 0
<1>1. Amounts(f, S) = {} BY DEF Amounts
<1> QED BY <1>1, FS_EmptySet, SumIsAmounts

LEMMA SumIsNumber ==
  ASSUME NEW f, NEW S, IsFiniteSet(S), \A i \in S : f[i] \in Nat
  PROVE  SumFunctionOnSet(f, S) \in Nat
BY SumIsAmounts, AmountsFinite

LEMMA SumGrows ==
  ASSUME NEW f, NEW T, IsFiniteSet(T), NEW S \in SUBSET T, \A i \in T : f[i] \in Nat
  PROVE  /\ SumFunctionOnSet(f, S) \in Nat /\ SumFunctionOnSet(f, T) \in Nat
         /\ SumFunctionOnSet(f, S) <= SumFunctionOnSet(f, T)
<1> DEFINE D == T \ S
<1>1. IsFiniteSet(S) /\ IsFiniteSet(D) BY FS_Subset
<1>2. S \cap D = {} /\ S \cup D = T /\ \A i \in S \cup D : f[i] \in Nat OBVIOUS
<1> HIDE DEF D
<1>3. SumFunctionOnSet(f, S \cup D) = SumFunctionOnSet(f, S) + SumFunctionOnSet(f, D)
  BY <1>1, <1>2, SumOfUnion
<1>4. SumFunctionOnSet(f, S) \in Nat /\ SumFunctionOnSet(f, D) \in Nat
  BY <1>1, <1>2, SumIsNumber
<1>5. SumFunctionOnSet(f, T) \in Nat BY <1>2, SumIsNumber
<1>6. \A a, b \in Nat : a <= a + b OBVIOUS
<1>7. SumFunctionOnSet(f, T) = SumFunctionOnSet(f, S) + SumFunctionOnSet(f, D) BY <1>2, <1>3
<1> QED BY <1>4, <1>5, <1>6, <1>7

LEMMA SumWith ==
  ASSUME NEW f, NEW S, IsFiniteSet(S), \A i \in S : f[i] \in Nat, NEW x \in S
  PROVE  /\ SumFunctionOnSet(f, S) = f[x] + SumFunctionOnSet(f, S \ {x})
         /\ SumFunctionOnSet(f, S \ {x}) \in Nat
<1> DEFINE D == S \ {x}
<1>1. IsFiniteSet({x}) /\ IsFiniteSet(D) BY FS_Subset, FS_Singleton
<1>2. {x} \cap D = {} /\ {x} \cup D = S /\ \A i \in {x} \cup D : f[i] \in Nat OBVIOUS
<1> HIDE DEF D
<1>3. SumFunctionOnSet(f, {x} \cup D) = SumFunctionOnSet(f, {x}) + SumFunctionOnSet(f, D)
  BY <1>1, <1>2, SumOfUnion
<1>4. SumFunctionOnSet(f, {x}) = f[x] BY SumOfOne
<1>5. SumFunctionOnSet(f, D) \in Nat BY <1>1, <1>2, SumIsNumber
<1>6. SumFunctionOnSet(f, S) = f[x] + SumFunctionOnSet(f, D) BY <1>2, <1>3, <1>4
<1> QED BY <1>5, <1>6 DEF D

LEMMA SumOfEquals ==
  ASSUME NEW f, NEW g, NEW S, IsFiniteSet(S), \A i \in S : f[i] \in Nat /\ g[i] = f[i]
  PROVE  SumFunctionOnSet(g, S) = SumFunctionOnSet(f, S)
<1>1. Amounts(g, S) = Amounts(f, S) BY DEF Amounts
<1> QED BY <1>1, SumIsAmounts

-----------------------------------------------------------------------------
(***************************************************************************)
(* Product: the rank of the combination next() is at.                      *)
(***************************************************************************)
LEMMA PositiveProduct ==
  ASSUME NEW a \in Nat \ {0}, NEW b \in Nat \ {0}
  PROVE  a * b \in Nat \ {0}
<1>1. a * b >= a BY SMT
<1>2. a * b \in Nat OBVIOUS
<1> QED BY <1>1, <1>2

\* The weights are positive, and each is that of the place behind it times its values.
LEMMA Weights ==
  ASSUME N \in Seq(Nat)
  PROVE  /\ R \in Nat
         /\ \A i \in Places : PlaceValues(i) \in Nat \ {0}
         /\ Weight[R] = 1
         /\ \A i \in 0..R : Weight[i] \in Nat \ {0}
         /\ \A i \in 0..(R - 1) : Weight[i] = PlaceValues(i + 1) * Weight[i + 1]
<1> DEFINE r == R
           pv(i) == PlaceValues(i)
           P == Nat \ {0}
           E(w) == [i \in 0..r |-> IF i = r THEN 1 ELSE pv(i + 1) * w[i + 1]]
           W == CHOOSE w : w = E(w)
           Solves(w, j) == /\ w[r] = 1
                           /\ \A i \in (r - j)..(r - 1) : w[i] = pv(i + 1) * w[i + 1]
           Solvable(j) == \E w \in [(r - j)..r -> P] : Solves(w, j)
           T == {j \in 0..r : ~Solvable(j)}
<1>1. r \in Nat BY DEF R
<1>2. \A i \in 1..r : pv(i) \in P BY DEF R, PlaceValues
<1>3. Weight = W BY DEF Weight
<1> HIDE DEF r, pv, P
<1>4. T = {}
  <2> SUFFICES ASSUME T # {} PROVE FALSE OBVIOUS
  <2>1. T \in SUBSET Nat BY <1>1
  <2>2. PICK m \in T : \A k \in T : m <= k BY <2>1, LeastNumber
  <2>3. m \in 0..r /\ ~Solvable(m) BY <2>2
  <2>4. CASE m = 0
    <3> DEFINE w == [i \in (r - 0)..r |-> 1]
    <3>1. w \in [(r - 0)..r -> P] BY DEF P
    <3>2. Solves(w, 0) BY <1>1
    <3> QED BY <2>3, <2>4, <3>1, <3>2
  <2>5. CASE m # 0
    <3>1. m - 1 \in 0..r /\ m \in 1..r BY <1>1, <2>3, <2>5
    <3>2. Solvable(m - 1)
      <4>1. m - 1 \notin T BY <2>2, <2>3, <3>1
      <4> QED BY <3>1, <4>1
    <3> DEFINE a == r - (m - 1)
    <3>3. a \in 1..r /\ r - m = a - 1 BY <1>1, <3>1
    <3>4. PICK v \in [a..r -> P] : Solves(v, m - 1) BY <3>2
    <3> HIDE DEF a
    <3> DEFINE w == [i \in (r - m)..r |-> IF i = a - 1 THEN pv(a) * v[a] ELSE v[i]]
    <3>5. v[a] \in P /\ pv(a) \in P BY <1>1, <1>2, <3>3, <3>4
    <3>6. pv(a) * v[a] \in P BY <3>5, PositiveProduct DEF P
    <3>7. \A i \in (r - m)..r : i = a - 1 \/ i \in a..r BY <1>1, <3>3
    <3>8. w \in [(r - m)..r -> P] BY <3>4, <3>6, <3>7
    <3>9. w[a - 1] = pv(a) * v[a] /\ \A i \in a..r : w[i] = v[i] BY <1>1, <3>3
    <3>10. \A i \in a..(r - 1) : v[i] = pv(i + 1) * v[i + 1] BY <3>4 DEF a
    <3>11. v[r] = 1 BY <3>4
    <3> HIDE DEF w
    <3>12. ASSUME NEW i \in (r - m)..(r - 1) PROVE w[i] = pv(i + 1) * w[i + 1]
      <4>1. CASE i = a - 1
        <5>1. i + 1 = a /\ w[a] = v[a] BY <1>1, <3>3, <3>9, <4>1
        <5> QED BY <3>9, <4>1, <5>1
      <4>2. CASE i # a - 1
        <5>1. i \in a..(r - 1) /\ i \in a..r /\ i + 1 \in a..r BY <1>1, <3>3, <4>2
        <5> QED BY <3>9, <3>10, <5>1
      <4> QED BY <4>1, <4>2
    <3>13. w[r] = 1 BY <1>1, <3>3, <3>9, <3>11
    <3> QED BY <2>3, <3>8, <3>12, <3>13
  <2> QED BY <2>4, <2>5
<1>5. Solvable(r)
  <2>1. r \in 0..r BY <1>1
  <2> HIDE DEF Solvable
  <2> QED BY <1>4, <2>1
<1>6. PICK w \in [(r - r)..r -> P] : Solves(w, r) BY <1>5
<1>7. w = E(w)
  <2>1. r - r = 0 BY <1>1
  <2>2. \A i \in 0..r : i = r \/ i \in 0..(r - 1) BY <1>1
  <2> QED BY <1>6, <2>1, <2>2
<1>8. W = E(W) BY <1>7
<1> HIDE DEF W
<1>9. W[r] = 1 BY <1>1, <1>8
<1>10. \A i \in 0..(r - 1) : W[i] = pv(i + 1) * W[i + 1]
  <2> TAKE i \in 0..(r - 1)
  <2>1. i \in 0..r /\ i # r BY <1>1
  <2> QED BY <1>8, <2>1
<1> DEFINE Wrong == {j \in 0..r : W[r - j] \notin P}
<1>11. Wrong = {}
  <2> SUFFICES ASSUME Wrong # {} PROVE FALSE OBVIOUS
  <2>1. Wrong \in SUBSET Nat BY <1>1
  <2>2. PICK m \in Wrong : \A k \in Wrong : m <= k BY <2>1, LeastNumber
  <2>3. m \in 0..r /\ W[r - m] \notin P BY <2>2
  <2>4. m # 0
    <3> SUFFICES ASSUME m = 0 PROVE FALSE OBVIOUS
    <3>1. r - m = r BY <1>1
    <3> QED BY <1>9, <2>3, <3>1 DEF P
  <2>5. m - 1 \in 0..r /\ r - m \in 0..(r - 1) /\ (r - m) + 1 \in 1..r
        /\ r - (m - 1) = (r - m) + 1
    BY <1>1, <2>3, <2>4
  <2>6. W[r - (m - 1)] \in P
    <3>1. m - 1 \notin Wrong
      <4>1. ~(m <= m - 1) BY <1>1, <2>3
      <4> HIDE DEF Wrong
      <4> QED BY <2>2, <4>1
    <3> QED BY <2>5, <3>1
  <2>7. W[r - m] = pv((r - m) + 1) * W[(r - m) + 1] BY <1>10, <2>5
  <2>8. pv((r - m) + 1) \in P BY <1>2, <2>5
  <2> QED BY <2>3, <2>5, <2>6, <2>7, <2>8, PositiveProduct DEF P
<1>12. \A i \in 0..r : W[i] \in P
  <2> TAKE i \in 0..r
  <2>1. r - i \in 0..r /\ r - (r - i) = i BY <1>1
  <2> QED BY <1>11, <2>1
<1> QED BY <1>1, <1>2, <1>3, <1>9, <1>10, <1>12 DEF r, pv, P, Places

\* The places behind i, each at its last value, come to one less than i's weight.
LEMMA LastRanks ==
  ASSUME N \in Seq(Nat), NEW f, NEW i \in 0..R,
         \A k \in (i + 1)..R : f[k] = (PlaceValues(k) - 1) * Weight[k]
  PROVE  SumFunctionOnSet(f, (i + 1)..R) = Weight[i] - 1
<1> DEFINE Sum(j) == SumFunctionOnSet(f, (j + 1)..R)
           T == {d \in 0..(R - i) : Sum(R - d) # Weight[R - d] - 1}
<1>1. /\ R \in Nat /\ i \in Nat /\ i <= R
      /\ \A k \in 1..R : PlaceValues(k) \in Nat \ {0}
      /\ Weight[R] = 1
      /\ \A k \in 0..R : Weight[k] \in Nat \ {0}
      /\ \A k \in 0..(R - 1) : Weight[k] = PlaceValues(k + 1) * Weight[k + 1]
  BY Weights DEF Places
<1> HIDE DEF R
<1>2. \A k \in (i + 1)..R : f[k] \in Nat
  <2> TAKE k \in (i + 1)..R
  <2>1. k \in 1..R /\ k \in 0..R BY <1>1
  <2>2. PlaceValues(k) - 1 \in Nat /\ Weight[k] \in Nat BY <1>1, <2>1
  <2> QED BY <2>2
<1>3. T = {}
  <2> SUFFICES ASSUME T # {} PROVE FALSE OBVIOUS
  <2>1. T \in SUBSET Nat BY <1>1
  <2>2. PICK m \in T : \A k \in T : m <= k BY <2>1, LeastNumber
  <2>3. m \in 0..(R - i) /\ Sum(R - m) # Weight[R - m] - 1 BY <2>2
  <2>4. CASE m = 0
    <3>1. R - m = R BY <1>1, <2>4
    <3>2. (R + 1)..R = {} BY <1>1
    <3> QED BY <1>1, <2>3, <3>1, <3>2, SumOfNone
  <2>5. CASE m # 0
    <3> DEFINE a == R - m + 1
    <3>1. /\ m - 1 \in 0..(R - i) /\ R - (m - 1) = a /\ R - m = a - 1
          /\ a \in (i + 1)..R /\ a - 1 \in 0..(R - 1) /\ a \in 0..R /\ a \in 1..R
      BY <1>1, <2>3, <2>5
    <3>2. Sum(a) = Weight[a] - 1
      <4>1. m - 1 \notin T
        <5>1. ~(m <= m - 1) BY <1>1, <2>3
        <5> HIDE DEF T
        <5> QED BY <2>2, <5>1
      <4> HIDE DEF a, Sum
      <4> QED BY <3>1, <4>1
    <3> HIDE DEF a
    <3>3. a..R = {a} \cup ((a + 1)..R) /\ {a} \cap ((a + 1)..R) = {}
          /\ (a - 1) + 1 = a /\ {a} \cup ((a + 1)..R) \subseteq (i + 1)..R
      <4>1. a \in Nat /\ R \in Nat /\ i \in Nat /\ i + 1 <= a /\ a <= R BY <1>1, <3>1
      <4>2. a..R = {a} \cup ((a + 1)..R) BY <4>1
      <4>3. {a} \cap ((a + 1)..R) = {} BY <4>1
      <4>4. {a} \cup ((a + 1)..R) \subseteq (i + 1)..R BY <4>1
      <4> QED BY <4>1, <4>2, <4>3, <4>4
    <3>4. IsFiniteSet({a}) /\ IsFiniteSet((a + 1)..R)
      <4>1. a + 1 \in Int /\ R \in Int BY <1>1, <3>1
      <4> QED BY <4>1, FS_Singleton, FS_Interval
    <3>5. f[a] \in Nat /\ f[a] = (PlaceValues(a) - 1) * Weight[a] BY <1>2, <3>1
    <3>6. \A k \in {a} \cup ((a + 1)..R) : f[k] \in Nat BY <1>2, <3>3
    <3>7. SumFunctionOnSet(f, {a} \cup ((a + 1)..R)) = SumFunctionOnSet(f, {a}) + Sum(a)
      BY <3>3, <3>4, <3>6, SumOfUnion
    <3>8. SumFunctionOnSet(f, {a}) = f[a] BY <3>5, SumOfOne
    <3>9. Sum(a - 1) = SumFunctionOnSet(f, {a} \cup ((a + 1)..R)) BY <3>3
    <3>10. Weight[a - 1] = PlaceValues(a) * Weight[a] BY <1>1, <3>1, <3>3
    <3> DEFINE p == PlaceValues(a)
               w == Weight[a]
    <3>11. p \in Nat /\ w \in Nat BY <1>1, <3>1
    <3> HIDE DEF Sum, p, w
    <3>12. (p - 1) * w + (w - 1) = p * w - 1 BY <3>11
    <3>13. Sum(a - 1) = (p - 1) * w + (w - 1) BY <3>2, <3>5, <3>7, <3>8, <3>9 DEF p, w
    <3> QED BY <2>3, <3>1, <3>10, <3>12, <3>13 DEF p, w
  <2> QED BY <2>4, <2>5
<1>4. R - i \in 0..(R - i) /\ R - (R - i) = i BY <1>1
<1> QED BY <1>3, <1>4

\* next() walks through the combinations in order; the first is that of init().
ProductInv ==
  /\ N \in Seq(Nat) /\ current \in [Places -> Nat] /\ count \in Nat
  /\ first \in BOOLEAN /\ completed \in BOOLEAN
  /\ first => ~completed /\ count = 0 /\ current = Zeroes(R)
  /\ EveryCombinationOnce

LEMMA SameWeights ==
  ASSUME N' = N
  PROVE  Weight' = Weight /\ Places' = Places /\ R' = R
         /\ \A i \in Places : PlaceValues(i)' = PlaceValues(i)
<1>1. R' = R /\ Places' = Places BY DEF R, Places
<1>2. Weight' = Weight BY DEF Weight, R, PlaceValues
<1>3. \A i \in Places : PlaceValues(i)' = PlaceValues(i) BY DEF PlaceValues
<1> QED BY <1>1, <1>2, <1>3

\* The rank of the current combination as a sum over the places around i.
LEMMA RankAround ==
  ASSUME N \in Seq(Nat), NEW f, \A k \in Places : f[k] \in Nat, NEW i \in Places
  PROVE  /\ SumFunctionOnSet(f, Places)
               = SumFunctionOnSet(f, 1..(i - 1)) + f[i] + SumFunctionOnSet(f, (i + 1)..R)
         /\ SumFunctionOnSet(f, 1..(i - 1)) \in Nat
<1>1. i \in Nat /\ R \in Nat /\ 1 <= i /\ i <= R BY DEF Places, R
<1> DEFINE A == 1..(i - 1)
           B == (i + 1)..R
<1>2. IsFiniteSet(A) /\ IsFiniteSet(B) /\ IsFiniteSet({i})
  <2>1. 1 \in Int /\ i - 1 \in Int /\ i + 1 \in Int /\ R \in Int BY <1>1
  <2> QED BY <2>1, FS_Interval, FS_Singleton
<1>3. Places = A \cup ({i} \cup B) BY <1>1 DEF Places
<1>4. A \cap ({i} \cup B) = {} /\ {i} \cap B = {} BY <1>1
<1>5. \A k \in A \cup ({i} \cup B) : f[k] \in Nat BY <1>3
<1> HIDE DEF A, B
<1>6. IsFiniteSet({i} \cup B) BY <1>2, FS_Union
<1>7. SumFunctionOnSet(f, Places) = SumFunctionOnSet(f, A) + SumFunctionOnSet(f, {i} \cup B)
  BY <1>2, <1>3, <1>4, <1>5, <1>6, SumOfUnion
<1>8. SumFunctionOnSet(f, {i} \cup B) = SumFunctionOnSet(f, {i}) + SumFunctionOnSet(f, B)
  BY <1>2, <1>4, <1>5, SumOfUnion
<1>9. SumFunctionOnSet(f, {i}) = f[i] /\ f[i] \in Nat BY <1>5, SumOfOne
<1>10. SumFunctionOnSet(f, A) \in Nat /\ SumFunctionOnSet(f, B) \in Nat
  BY <1>2, <1>5, SumIsNumber
<1>11. SumFunctionOnSet(f, Places)
         = SumFunctionOnSet(f, A) + (f[i] + SumFunctionOnSet(f, B))
  BY <1>7, <1>8, <1>9
<1>12. \A a, b, c \in Nat : a + (b + c) = a + b + c OBVIOUS
<1> QED BY <1>9, <1>10, <1>11, <1>12 DEF A, B

LEMMA ProductInitial == ProductInit => ProductInv
<1> SUFFICES ASSUME ProductInit PROVE ProductInv OBVIOUS
<1>1. R = 0 /\ Places = {} BY DEF ProductInit, R, Places
<1>2. current \in [Places -> Nat] /\ current = Zeroes(R)
  BY <1>1 DEF ProductInit, Zeroes
<1>3. N \in Seq(Nat) BY DEF ProductInit
<1> QED BY <1>2, <1>3 DEF ProductInit, ProductInv, EveryCombinationOnce

LEMMA RankOfPlaces ==
  ASSUME ProductInv
  PROVE  /\ IsFiniteSet(Places)
         /\ DOMAIN Ranks = Places
         /\ SumFunction(Ranks) = SumFunctionOnSet(Ranks, Places)
         /\ \A k \in Places : Ranks[k] = current[k] * Weight[k] /\ Ranks[k] \in Nat
<1>1. R \in Nat /\ N \in Seq(Nat) BY DEF ProductInv, R
<1>2. IsFiniteSet(Places)
  <2>1. 1 \in Int /\ R \in Int BY <1>1
  <2> QED BY <2>1, FS_Interval DEF Places
<1>3. DOMAIN Ranks = Places BY DEF Ranks
<1>4. \A k \in Places : Ranks[k] = current[k] * Weight[k] BY DEF Ranks
<1>5. \A k \in Places : current[k] \in Nat /\ Weight[k] \in Nat
  <2>1. \A k \in 0..R : Weight[k] \in Nat BY <1>1, Weights
  <2> QED BY <1>1, <2>1 DEF ProductInv, Places
<1> QED BY <1>2, <1>3, <1>4, <1>5 DEF SumFunction

LEMMA FirstStep == ProductInv /\ NextFirst => ProductInv'
<1> SUFFICES ASSUME ProductInv, NextFirst PROVE ProductInv' OBVIOUS
<1>1. /\ UNCHANGED <<N, current, completed>> /\ count' = 1 /\ ~first' /\ ~completed
      /\ N \in Seq(Nat) /\ first' \in BOOLEAN /\ completed' \in BOOLEAN
      /\ current \in [Places -> Nat] /\ current = Zeroes(R)
  BY DEF NextFirst, ProductInv
<1>2. Weight' = Weight /\ Places' = Places /\ R' = R
      /\ \A k \in Places : PlaceValues(k)' = PlaceValues(k)
  BY <1>1, SameWeights
<1>3. Ranks' = Ranks BY <1>1, <1>2 DEF Ranks
<1>4. \A k \in Places : current[k] = 0 BY <1>1 DEF Zeroes, Places
<1>5. \A k \in Places : current[k] < PlaceValues(k)
  <2>1. \A k \in Places : PlaceValues(k) \in Nat \ {0} BY <1>1, Weights
  <2> QED BY <1>4, <2>1
<1>6. \A k \in Places : Ranks[k] = 0
  <2> TAKE k \in Places
  <2>1. Ranks[k] = current[k] * Weight[k] BY RankOfPlaces
  <2>2. Weight[k] \in Nat
    <3>1. k \in 0..R BY DEF Places
    <3> QED BY <1>1, <3>1, Weights
  <2>3. \A w \in Nat : 0 * w = 0 OBVIOUS
  <2> QED BY <1>4, <2>1, <2>2, <2>3
<1>7. SumFunction(Ranks) = 0 BY <1>6, RankOfPlaces, SumOfZeroes
<1>8. EveryCombinationOnce'
  <2>1. \A k \in Places' : current'[k] < PlaceValues(k)' BY <1>1, <1>2, <1>5
  <2>2. SumFunction(Ranks)' = 0 BY <1>3, <1>7
  <2>3. count' = 1 + SumFunction(Ranks)' BY <1>1, <2>2
  <2> QED BY <1>1, <2>1, <2>3 DEF EveryCombinationOnce
<1> QED BY <1>1, <1>2, <1>8 DEF ProductInv

\* The last place that has a next value.
LEMMA LastIncrementable ==
  ASSUME N \in Seq(Nat), Incrementable # {}
  PROVE  /\ Max(Incrementable) \in Incrementable
         /\ \A k \in Incrementable : k <= Max(Incrementable)
<1> DEFINE S == Incrementable
           T == {R - k : k \in S}
<1>1. R \in Nat /\ S \subseteq 1..R BY DEF R, Incrementable, Places
<1> HIDE DEF S
<1>2. T \in SUBSET Nat /\ T # {}
  <2>1. \A k \in S : R - k \in Nat BY <1>1
  <2>2. S # {} BY DEF S
  <2> QED BY <2>1, <2>2
<1>3. PICK m \in T : \A n \in T : m <= n BY <1>2, LeastNumber
<1>4. PICK i \in S : m = R - i BY <1>3
<1>5. \A k \in S : k <= i
  <2> TAKE k \in S
  <2>1. R - i <= R - k BY <1>3, <1>4
  <2> QED BY <1>1, <2>1
<1>6. \E x \in S : \A y \in S : x >= y BY <1>1, <1>5
<1>7. Max(S) \in S /\ \A k \in S : Max(S) >= k BY <1>6 DEF Max
<1>8. \A k \in S : k <= Max(S) BY <1>1, <1>7
<1> QED BY <1>7, <1>8 DEF S

\* A place that has no next value is at its last one.
LEMMA AtLastValue ==
  ASSUME ProductInv, ~completed, ~first, NEW k \in Places, k \notin Incrementable
  PROVE  Ranks[k] = (PlaceValues(k) - 1) * Weight[k]
<1>1. current[k] \in Nat /\ N[k] \in Nat BY DEF ProductInv, Places, R
<1>2. current[k] < PlaceValues(k) BY DEF ProductInv, EveryCombinationOnce
<1>3. ~(current[k] + 1 < N[k]) BY DEF Incrementable
<1>4. current[k] = PlaceValues(k) - 1 BY <1>1, <1>2, <1>3 DEF PlaceValues
<1> QED BY <1>4, RankOfPlaces

LEMMA IncrementStep == ProductInv /\ NextIncrements => ProductInv'
<1> SUFFICES ASSUME ProductInv, NextIncrements PROVE ProductInv' OBVIOUS
<1> DEFINE i == Max(Incrementable)
           f == Ranks
           g == Ranks'
<1>1. /\ N' = N /\ count' = count + 1 /\ ~first /\ ~first' /\ ~completed /\ ~completed'
      /\ first' \in BOOLEAN /\ completed' \in BOOLEAN
      /\ N \in Seq(Nat) /\ count \in Nat /\ current \in [Places -> Nat]
      /\ Incrementable # {}
      /\ current' = [k \in Places |-> IF k < i THEN current[k]
                                      ELSE IF k = i THEN current[k] + 1 ELSE 0]
      /\ \A k \in Places : current[k] < PlaceValues(k)
      /\ count = 1 + SumFunction(Ranks)
  BY DEF NextIncrements, ProductInv, EveryCombinationOnce
<1>2. Weight' = Weight /\ Places' = Places /\ R' = R
      /\ \A k \in Places : PlaceValues(k)' = PlaceValues(k)
  BY <1>1, SameWeights
<1>3. /\ i \in Incrementable /\ \A k \in Incrementable : k <= i
  BY <1>1, LastIncrementable
<1> HIDE DEF i
<1>4. /\ i \in Places /\ Places = 1..R /\ R \in Nat /\ i \in 0..R
      /\ current[i] + 1 < N[i] /\ N[i] \in Nat
  BY <1>1, <1>3 DEF Incrementable, Places, R
<1>5. current' \in [Places -> Nat] BY <1>1, <1>4
<1>6. \A k \in Places' : current'[k] < PlaceValues(k)'
  <2> SUFFICES ASSUME NEW k \in Places PROVE current'[k] < PlaceValues(k) BY <1>2
  <2>1. PlaceValues(k) \in Nat \ {0} BY <1>1, Weights
  <2>2. CASE k < i BY <1>1, <2>2
  <2>3. CASE k = i
    <3>1. current'[k] = current[i] + 1 BY <1>1, <1>4, <2>3
    <3>2. PlaceValues(i) = N[i] BY <1>1, <1>4 DEF PlaceValues
    <3> QED BY <1>4, <2>3, <3>1, <3>2
  <2>4. CASE k > i
    <3>1. current'[k] = 0 BY <1>1, <1>4, <2>4
    <3> QED BY <2>1, <3>1
  <2> QED BY <1>4, <2>2, <2>3, <2>4
<1>7. \A k \in Places : f[k] = current[k] * Weight[k] /\ f[k] \in Nat BY RankOfPlaces
<1>8. /\ \A k \in 0..R : Weight[k] \in Nat \ {0} BY <1>1, Weights
<1>9. g = [k \in Places |-> current'[k] * Weight[k]] BY <1>2 DEF Ranks
<1> HIDE DEF f, g
<1>10. \A k \in Places : g[k] \in Nat
  <2> TAKE k \in Places
  <2>1. current'[k] \in Nat /\ Weight[k] \in Nat BY <1>4, <1>5, <1>8
  <2> QED BY <1>9, <2>1
<1>11. g[i] = f[i] + Weight[i]
  <2> DEFINE c == current[i]
             w == Weight[i]
  <2>1. c \in Nat /\ w \in Nat BY <1>1, <1>4, <1>8
  <2>2. current'[i] = c + 1 BY <1>1, <1>4
  <2>3. g[i] = (c + 1) * w /\ f[i] = c * w BY <1>4, <1>7, <1>9, <2>2
  <2> HIDE DEF c, w
  <2>4. (c + 1) * w = c * w + w BY <2>1
  <2> QED BY <2>3, <2>4 DEF w
<1>12. SumFunctionOnSet(g, 1..(i - 1)) = SumFunctionOnSet(f, 1..(i - 1))
  <2>1. \A k \in 1..(i - 1) : k \in Places /\ k < i BY <1>4
  <2>2. \A k \in 1..(i - 1) : f[k] \in Nat /\ g[k] = f[k]
    BY <1>1, <1>7, <1>9, <2>1
  <2>3. IsFiniteSet(1..(i - 1))
    <3>1. 1 \in Int /\ i - 1 \in Int BY <1>4
    <3> QED BY <3>1, FS_Interval
  <2> QED BY <2>2, <2>3, SumOfEquals
<1>13. SumFunctionOnSet(f, (i + 1)..R) = Weight[i] - 1
  <2>1. ASSUME NEW k \in (i + 1)..R PROVE f[k] = (PlaceValues(k) - 1) * Weight[k]
    <3>1. k \in Places /\ ~(k <= i) BY <1>4
    <3>2. k \notin Incrementable BY <1>3, <3>1
    <3> QED BY <1>1, <3>1, <3>2, AtLastValue DEF f
  <2> QED BY <1>1, <1>4, <2>1, LastRanks
<1>14. SumFunctionOnSet(g, (i + 1)..R) = 0
  <2>1. \A k \in (i + 1)..R : k \in Places /\ ~(k < i) /\ k # i /\ k \in 0..R BY <1>4
  <2>2. \A k \in (i + 1)..R : current'[k] = 0 BY <1>1, <2>1
  <2>3. \A k \in (i + 1)..R : g[k] = 0
    <3> TAKE k \in (i + 1)..R
    <3>1. g[k] = 0 * Weight[k] BY <1>9, <2>1, <2>2
    <3>2. Weight[k] \in Nat BY <1>8, <2>1
    <3> QED BY <3>1, <3>2
  <2>4. IsFiniteSet((i + 1)..R)
    <3>1. R \in Int /\ i + 1 \in Int BY <1>4
    <3> QED BY <3>1, FS_Interval
  <2> QED BY <2>3, <2>4, SumOfZeroes
<1> DEFINE A == SumFunctionOnSet(f, 1..(i - 1))
<1>15. SumFunctionOnSet(f, Places) = A + f[i] + (Weight[i] - 1) /\ A \in Nat
  BY <1>1, <1>4, <1>7, <1>13, RankAround
<1>16. SumFunctionOnSet(g, Places) = A + (f[i] + Weight[i]) + 0
  BY <1>1, <1>4, <1>10, <1>11, <1>12, <1>14, RankAround
<1>17. SumFunctionOnSet(g, Places) = SumFunctionOnSet(f, Places) + 1
  <2>1. f[i] \in Nat /\ Weight[i] \in Nat BY <1>4, <1>7, <1>8
  <2> HIDE DEF A
  <2> QED BY <1>15, <1>16, <2>1
<1>18. SumFunction(Ranks) = SumFunctionOnSet(f, Places) BY RankOfPlaces DEF f
<1>19. SumFunction(Ranks)' = SumFunctionOnSet(g, Places)
  <2>1. DOMAIN g = Places BY <1>9
  <2> QED BY <2>1 DEF SumFunction, g
<1>20. count' = 1 + SumFunction(Ranks)'
  <2>1. SumFunctionOnSet(f, Places) \in Nat BY <1>7, RankOfPlaces, SumIsNumber DEF f
  <2> QED BY <1>1, <1>17, <1>18, <1>19, <2>1
<1>21. EveryCombinationOnce' BY <1>1, <1>6, <1>20 DEF EveryCombinationOnce
<1>22. current' \in [Places' -> Nat] /\ N' \in Seq(Nat) /\ count' \in Nat BY <1>1, <1>2, <1>5
<1> QED BY <1>1, <1>21, <1>22 DEF ProductInv

LEMMA CompleteStep == ProductInv /\ NextCompletes => ProductInv'
<1> SUFFICES ASSUME ProductInv, NextCompletes PROVE ProductInv' OBVIOUS
<1>1. /\ UNCHANGED <<N, first, count>> /\ ~first /\ ~completed /\ completed'
      /\ completed' \in BOOLEAN
      /\ N \in Seq(Nat) /\ count \in Nat /\ current \in [Places -> Nat]
      /\ Incrementable = {}
      /\ current' = [k \in Places |-> current[k] + 1]
      /\ count = 1 + SumFunction(Ranks)
  BY DEF NextCompletes, ProductInv, EveryCombinationOnce
<1>2. Weight' = Weight /\ Places' = Places /\ R' = R BY <1>1, SameWeights
<1>3. current' \in [Places' -> Nat] BY <1>1, <1>2
<1>4. Places = (0 + 1)..R /\ 0 \in 0..R BY <1>1 DEF Places, R
<1>5. \A k \in (0 + 1)..R : Ranks[k] = (PlaceValues(k) - 1) * Weight[k]
  BY <1>1, <1>4, AtLastValue
<1>6. SumFunctionOnSet(Ranks, (0 + 1)..R) = Weight[0] - 1 BY <1>1, <1>4, <1>5, LastRanks
<1>7. SumFunction(Ranks) = Weight[0] - 1 BY <1>4, <1>6, RankOfPlaces
<1>8. Weight[0] \in Nat BY <1>1, <1>4, Weights
<1>9. count' = Weight'[0] BY <1>1, <1>2, <1>7, <1>8
<1>10. EveryCombinationOnce' BY <1>1, <1>9 DEF EveryCombinationOnce
<1> QED BY <1>1, <1>3, <1>10 DEF ProductInv

LEMMA ProductStep == ProductInv /\ [ProductNext]_productVars => ProductInv'
<1> SUFFICES ASSUME ProductInv, [ProductNext]_productVars PROVE ProductInv' OBVIOUS
<1>1. CASE NextFirst BY <1>1, FirstStep
<1>2. CASE NextIncrements BY <1>2, IncrementStep
<1>3. CASE NextCompletes BY <1>3, CompleteStep
<1>4. ASSUME NEW Nt \in Containers, InitProduct(Nt) PROVE ProductInv'
  <2>1. Nt \in Seq(Nat) BY ContainersAssumption
  <2>2. N' = Nt /\ current' = Zeroes(Len(Nt)) /\ first' = TRUE /\ completed' = FALSE /\ count' = 0
    BY <1>4 DEF InitProduct
  <2>3. R' = Len(Nt) /\ Places' = 1..Len(Nt) BY <2>2 DEF R, Places
  <2>4. current' \in [Places' -> Nat] /\ current' = Zeroes(R)' BY <2>2, <2>3 DEF Zeroes
  <2>5. EveryCombinationOnce' BY <2>2 DEF EveryCombinationOnce
  <2> QED BY <2>1, <2>2, <2>4, <2>5 DEF ProductInv
<1>5. CASE UNCHANGED productVars
  <2>1. UNCHANGED <<N, current, first, completed, count>> BY <1>5 DEF productVars
  <2>2. Weight' = Weight /\ Places' = Places /\ R' = R
        /\ \A k \in Places : PlaceValues(k)' = PlaceValues(k)
    BY <2>1, SameWeights
  <2>3. SumFunction(Ranks)' = SumFunction(Ranks) BY <2>1, <2>2 DEF Ranks
  <2>4. EveryCombinationOnce'
    <3>1. CASE completed
      <4>1. count = Weight[0] BY <3>1 DEF ProductInv, EveryCombinationOnce
      <4> QED BY <2>1, <2>2, <3>1, <4>1 DEF EveryCombinationOnce
    <3>2. CASE ~completed /\ first BY <2>1, <3>2 DEF EveryCombinationOnce
    <3>3. CASE ~completed /\ ~first
      <4>1. count = 1 + SumFunction(Ranks) /\ \A k \in Places : current[k] < PlaceValues(k)
        BY <3>3 DEF ProductInv, EveryCombinationOnce
      <4>2. count' = 1 + SumFunction(Ranks)' BY <2>1, <2>3, <4>1
      <4>3. \A k \in Places' : current'[k] < PlaceValues(k)' BY <2>1, <2>2, <4>1
      <4> QED BY <2>1, <3>3, <4>2, <4>3 DEF EveryCombinationOnce
    <3> QED BY <3>1, <3>2, <3>3
  <2>5. Zeroes(R)' = Zeroes(R) BY <2>2 DEF Zeroes
  <2> QED BY <2>1, <2>2, <2>4, <2>5 DEF ProductInv
<1> QED BY <1>1, <1>2, <1>3, <1>4, <1>5 DEF ProductNext

(***************************************************************************)
(* next() of Product.h goes through all combinations of its places, each   *)
(* once and in order, for any number of places and of their values.        *)
(***************************************************************************)
THEOREM EachOnce == ProductSpec => []EveryCombinationOnce
<1>1. ProductInv => EveryCombinationOnce BY DEF ProductInv
<1> QED BY <1>1, ProductInitial, ProductStep, PTL DEF ProductSpec

-----------------------------------------------------------------------------
(***************************************************************************)
(* Split: the words taken so far.                                          *)
(***************************************************************************)
IsText == text \in Seq(Chars) /\ issep \subseteq Chars

LEMMA WordFacts ==
  ASSUME IsText, NEW w
  PROVE  w \in TextWords <=>
           /\ w \in [from : 1..Len(text), to : 1..Len(text)]
           /\ w.from <= w.to
           /\ \A k \in w.from..w.to : text[k] \notin issep
           /\ w.from = 1 \/ text[w.from - 1] \in issep
           /\ w.to = Len(text) \/ text[w.to + 1] \in issep
<1>1. DOMAIN text = 1..Len(text) BY DEF IsText
<1> QED BY <1>1 DEF TextWords

\* No two words start at one place.
LEMMA OneWordAt ==
  ASSUME IsText, NEW w \in TextWords, NEW v \in TextWords, w.from = v.from
  PROVE  w = v
<1>1. Len(text) \in Nat BY DEF IsText
<1>2. ASSUME NEW x \in TextWords, NEW y \in TextWords, x.from = y.from PROVE ~(x.to < y.to)
  <2> SUFFICES ASSUME x.to < y.to PROVE FALSE OBVIOUS
  <2>1. x \in [from : 1..Len(text), to : 1..Len(text)] /\ x.from <= x.to
        /\ (x.to = Len(text) \/ text[x.to + 1] \in issep)
    BY WordFacts
  <2>2. y \in [from : 1..Len(text), to : 1..Len(text)]
        /\ \A k \in y.from..y.to : text[k] \notin issep
    BY WordFacts
  <2>3. x.to + 1 \in y.from..y.to /\ x.to # Len(text) BY <1>1, <1>2, <2>1, <2>2
  <2> QED BY <2>1, <2>2, <2>3
<1>3. ~(w.to < v.to) /\ ~(v.to < w.to) BY <1>2
<1>4. w \in [from : 1..Len(text), to : 1..Len(text)]
      /\ v \in [from : 1..Len(text), to : 1..Len(text)]
  BY WordFacts
<1>5. w.to = v.to BY <1>1, <1>3, <1>4
<1> QED BY <1>4, <1>5

\* The words that start no later than w.
NotBehind(w) == {v \in TextWords : v.from <= w.from}

LEMMA WordsFinite ==
  ASSUME IsText
  PROVE  /\ IsFiniteSet(TextWords) /\ Cardinality(TextWords) \in Nat
         /\ \A w \in TextWords : IsFiniteSet(NotBehind(w))
<1>1. Len(text) \in Nat BY DEF IsText
<1> DEFINE f == [w \in TextWords |-> w.from]
           S == 1..Len(text)
<1>2. \A w \in TextWords : w.from \in S BY WordFacts
<1>3. f \in Injection(TextWords, S)
  <2>1. f \in [TextWords -> S] BY <1>2
  <2>2. \A a, b \in TextWords : f[a] = f[b] => a = b BY OneWordAt
  <2> HIDE DEF f, S
  <2> QED BY <2>1, <2>2 DEF Injection, IsInjective
<1>4. IsFiniteSet(S)
  <2>1. 1 \in Int /\ Len(text) \in Int BY <1>1
  <2> QED BY <2>1, FS_Interval
<1>5. IsFiniteSet(TextWords) BY <1>3, <1>4, FS_Injection
<1>6. \A w \in TextWords : NotBehind(w) \in SUBSET TextWords BY DEF NotBehind
<1> QED BY <1>5, <1>6, FS_Subset, FS_CardinalityType

LEMMA LaterHasMore ==
  ASSUME IsText, NEW w \in TextWords, NEW v \in TextWords, w.from < v.from
  PROVE  Cardinality(NotBehind(w)) # Cardinality(NotBehind(v))
<1>1. \A x \in TextWords : x.from \in Nat BY WordFacts
<1>2. NotBehind(w) \in SUBSET NotBehind(v) BY <1>1 DEF NotBehind
<1>3. v \in NotBehind(v) /\ v \notin NotBehind(w) BY <1>1 DEF NotBehind
<1> QED BY <1>2, <1>3, WordsFinite, FS_Subset

\* The words e that start before a place, in order.
WordsBefore(e, place) ==
  /\ e \in Seq(TextWords)
  /\ \A i, j \in 1..Len(e) : i < j => e[i].from < e[j].from
  /\ \A k \in 1..Len(e) : e[k].from < place
  /\ \A w \in TextWords : w.from < place => \E k \in 1..Len(e) : w = e[k]

LEMMA KthWord ==
  ASSUME IsText, NEW place \in Nat, NEW e, WordsBefore(e, place), NEW k \in 1..Len(e)
  PROVE  WordAt(k) = e[k]
<1>1. Len(e) \in Nat /\ \A i \in 1..Len(e) : e[i] \in TextWords BY DEF WordsBefore
<1>2. \A x \in TextWords : x.from \in Nat BY WordFacts
<1> DEFINE h == [j \in 1..k |-> e[j]]
           S == NotBehind(e[k])
<1>3. \A j \in 1..k : j \in 1..Len(e) BY <1>1
<1>4. \A j \in 1..k : h[j] \in S
  <2> TAKE j \in 1..k
  <2>1. e[j].from <= e[k].from
    <3>1. CASE j = k BY <1>1, <1>2, <3>1
    <3>2. CASE j # k
      <4>1. j < k BY <3>2
      <4>2. e[j].from < e[k].from BY <1>3, <4>1 DEF WordsBefore
      <4> QED BY <1>1, <1>2, <1>3, <4>2
    <3> QED BY <3>1, <3>2
  <2> QED BY <1>1, <1>3, <2>1 DEF NotBehind
<1>5. \A i, j \in 1..k : h[i] = h[j] => i = j
  <2> SUFFICES ASSUME NEW i \in 1..k, NEW j \in 1..k, e[i] = e[j] PROVE i = j OBVIOUS
  <2>1. ~(i < j)
    <3> SUFFICES ASSUME i < j PROVE FALSE OBVIOUS
    <3>1. e[i].from < e[j].from BY <1>3 DEF WordsBefore
    <3> QED BY <1>1, <1>2, <1>3, <3>1
  <2>2. ~(j < i)
    <3> SUFFICES ASSUME j < i PROVE FALSE OBVIOUS
    <3>1. e[j].from < e[i].from BY <1>3 DEF WordsBefore
    <3> QED BY <1>1, <1>2, <1>3, <3>1
  <2> QED BY <2>1, <2>2
<1>6. ASSUME NEW v \in S PROVE \E j \in 1..k : h[j] = v
  <2>1. v \in TextWords /\ v.from <= e[k].from BY DEF NotBehind
  <2>2. e[k].from < place BY DEF WordsBefore
  <2>3. v.from < place BY <1>1, <1>2, <2>1, <2>2
  <2>4. PICK j \in 1..Len(e) : v = e[j] BY <2>1, <2>3 DEF WordsBefore
  <2>5. ~(k < j)
    <3> SUFFICES ASSUME k < j PROVE FALSE OBVIOUS
    <3>1. e[k].from < e[j].from BY <2>4 DEF WordsBefore
    <3> QED BY <1>1, <1>2, <2>1, <2>4, <3>1
  <2>6. j \in 1..k BY <1>1, <2>5
  <2> QED BY <2>4, <2>6
<1> HIDE DEF h
<1>7. h \in Bijection(1..k, S)
  <2> HIDE DEF S
  <2>1. h \in [1..k -> S] BY <1>4 DEF h
  <2> QED BY <1>5, <1>6, <2>1 DEF Bijection, Injection, Surjection, IsInjective
<1>8. IsFiniteSet(1..k) /\ Cardinality(1..k) = k
  <2>1. k \in Nat /\ 1 <= k BY <1>1
  <2>2. IsFiniteSet(1..k) /\ Cardinality(1..k) = IF 1 > k THEN 0 ELSE k - 1 + 1
    BY <2>1, FS_Interval
  <2> QED BY <2>1, <2>2
<1>9. Cardinality(NotBehind(e[k])) = k BY <1>7, <1>8, FS_Bijection DEF ExistsBijection
<1>10. ASSUME NEW w \in TextWords, Cardinality(NotBehind(w)) = k PROVE w = e[k]
  <2>1. ~(w.from < e[k].from) /\ ~(e[k].from < w.from) BY <1>1, <1>9, <1>10, LaterHasMore
  <2>2. w.from = e[k].from BY <1>1, <1>2, <2>1
  <2> QED BY <1>1, <2>2, OneWordAt
<1>11. WordAt(k) = CHOOSE w \in TextWords : Cardinality(NotBehind(w)) = k
  BY DEF WordAt, NotBehind
<1> QED BY <1>1, <1>9, <1>10, <1>11

LEMMA NumberOfWords ==
  ASSUME IsText, NEW place \in Nat, NEW e, WordsBefore(e, place)
  PROVE  /\ Len(e) <= Cardinality(TextWords)
         /\ (\A w \in TextWords : w.from < place) => Len(e) = Cardinality(TextWords)
<1> DEFINE S == 1..Len(e)
<1>1. Len(e) \in Nat /\ e \in [S -> TextWords] BY DEF WordsBefore
<1>2. \A x \in TextWords : x.from \in Nat BY WordFacts
<1>3. ASSUME NEW i \in S, NEW j \in S, e[i] = e[j] PROVE i = j
  <2>1. (i < j => e[i].from < e[j].from) /\ (j < i => e[j].from < e[i].from) BY DEF WordsBefore
  <2>2. ~(i < j) /\ ~(j < i) BY <1>1, <1>2, <1>3, <2>1
  <2> QED BY <1>1, <2>2
<1>4. IsFiniteSet(S) /\ Cardinality(S) = Len(e)
  <2> DEFINE n == Len(e)
  <2>1. n \in Nat BY <1>1
  <2> HIDE DEF n
  <2>2. IsFiniteSet(1..n) /\ Cardinality(1..n) = IF 1 > n THEN 0 ELSE n - 1 + 1
    BY <2>1, FS_Interval
  <2>3. IsFiniteSet(1..n) /\ Cardinality(1..n) = n BY <2>1, <2>2
  <2> QED BY <2>3 DEF n
<1> HIDE DEF S
<1>5. e \in Injection(S, TextWords) BY <1>1, <1>3 DEF Injection, IsInjective
<1>6. Cardinality(S) <= Cardinality(TextWords) BY <1>5, WordsFinite, FS_Injection
<1>7. ASSUME \A w \in TextWords : w.from < place PROVE Len(e) = Cardinality(TextWords)
  <2>1. \A w \in TextWords : \E k \in S : e[k] = w BY <1>7 DEF WordsBefore, S
  <2>2. e \in Bijection(S, TextWords) BY <1>1, <1>5, <2>1 DEF Bijection, Surjection
  <2> QED BY <1>4, <2>2, FS_Bijection DEF ExistsBijection
<1> QED BY <1>4, <1>6, <1>7

\* Where skipping stops.
LEMMA SkipStops ==
  ASSUME IsText, NEW p \in 1..(Len(text) + 1), NEW marks
  PROVE  /\ SkipUntil(p, marks) \in p..(Len(text) + 1)
         /\ \A k \in p..(SkipUntil(p, marks) - 1) : text[k] \notin marks
         /\ SkipUntil(p, marks) <= Len(text) => text[SkipUntil(p, marks)] \in marks
<1> DEFINE n == Len(text)
           T == {k \in p..n : text[k] \in marks} \cup {n + 1}
<1>1. n \in Nat BY DEF IsText
<1>2. SkipUntil(p, marks) = Min(T) BY DEF SkipUntil
<1> HIDE DEF n
<1>3. T \in SUBSET (p..(n + 1)) /\ n + 1 \in T BY <1>1 DEF n
<1>4. T \in SUBSET Nat /\ T # {} BY <1>1, <1>3 DEF n
<1> DEFINE q == Min(T)
<1>5. q \in T /\ \A k \in T : q <= k
  <2> HIDE DEF T
  <2>1. \E m \in T : \A k \in T : m <= k BY <1>4, LeastNumber
  <2> QED BY <2>1 DEF Min
<1> HIDE DEF q
<1>6. q \in p..(n + 1) BY <1>3, <1>5
<1>7. \A k \in p..(q - 1) : text[k] \notin marks
  <2> SUFFICES ASSUME NEW k \in p..(q - 1), text[k] \in marks PROVE FALSE OBVIOUS
  <2>1. k \in p..n /\ ~(q <= k) BY <1>1, <1>6 DEF n
  <2>2. k \in T BY <2>1
  <2> QED BY <1>5, <2>1, <2>2
<1>8. q <= n => text[q] \in marks BY <1>1, <1>5
<1> QED BY <1>2, <1>6, <1>7, <1>8 DEF n, q

Views == [from : Nat, to : Nat]

\* The views are the words e, but for the last of an array, which has the rest.
Taken(e) ==
  /\ Len(e) = Len(fields)
  /\ \A k \in 1..Len(e) :
       fields[k] = IF k = size THEN [from |-> e[k].from, to |-> Len(text)] ELSE e[k]

\* There is no word from start on, or the array is full.
Finished ==
  \/ (\A w \in TextWords : w.from < start) /\ (size = 0 \/ Len(fields) < size)
  \/ size # 0 /\ Len(fields) = size

SplitInv ==
  /\ IsText /\ size \in Nat /\ fields \in Seq(Views)
  /\ splitting \in {"idle", "loop", "pad", "split"}
  /\ splitting = "idle" => start = 1 /\ fields = <<>>
  /\ splitting \in {"loop", "pad"} =>
       /\ start \in 1..(Len(text) + 1)
       /\ \E e \in Seq(TextWords) : WordsBefore(e, start) /\ Taken(e)
  /\ splitting = "loop" =>
       /\ start = 1 \/ start = Len(text) + 1 \/ text[start] \in issep
       /\ size = 0 \/ Len(fields) < size
  /\ splitting = "pad" => Finished
  /\ FieldsOfText

LEMMA SplitInitial == SplitInit => SplitInv
<1> SUFFICES ASSUME SplitInit PROVE SplitInv OBVIOUS
<1>1. IsText /\ fields \in Seq(Views) BY DEF SplitInit, IsText
<1> QED BY <1>1 DEF SplitInit, SplitInv, FieldsOfText

\* No word starts among separators.
LEMMA NoWordBetween ==
  ASSUME IsText, NEW p \in 1..(Len(text) + 1), NEW q \in p..(Len(text) + 1),
         \A k \in p..(q - 1) : text[k] \notin Chars \ issep,
         NEW w \in TextWords, w.from < q
  PROVE  w.from < p
<1>1. w.from \in 1..Len(text) /\ w.to \in 1..Len(text) /\ w.from <= w.to
      /\ \A k \in w.from..w.to : text[k] \notin issep
  BY WordFacts
<1>2. Len(text) \in Nat BY DEF IsText
<1>3. w.from \in w.from..w.to BY <1>1
<1>4. text[w.from] \in Chars \ issep BY <1>1, <1>3 DEF IsText
<1>5. w.from \notin p..(q - 1) BY <1>4
<1> QED BY <1>1, <1>2, <1>5

\* The word that starts at the first character that is no separator.
LEMMA NextWord ==
  ASSUME IsText, NEW p \in 1..(Len(text) + 1),
         p = 1 \/ p = Len(text) + 1 \/ text[p] \in issep,
         NEW from, from = SkipUntil(p, Chars \ issep), from <= Len(text),
         NEW behind, behind = SkipUntil(from, issep)
  PROVE  /\ from \in p..Len(text) /\ behind \in (from + 1)..(Len(text) + 1)
         /\ behind = Len(text) + 1 \/ text[behind] \in issep
         /\ [from |-> from, to |-> behind - 1] \in TextWords
         /\ \A w \in TextWords :
              w.from < behind => w.from < p \/ w = [from |-> from, to |-> behind - 1]
<1>1. Len(text) \in Nat BY DEF IsText
<1>2. /\ from \in p..(Len(text) + 1) /\ text[from] \in Chars \ issep
      /\ \A k \in p..(from - 1) : text[k] \notin Chars \ issep
  BY SkipStops
<1>3. from \in p..Len(text) /\ from \in 1..(Len(text) + 1) /\ from \in 1..Len(text)
  BY <1>1, <1>2
<1>4. /\ behind \in from..(Len(text) + 1)
      /\ \A k \in from..(behind - 1) : text[k] \notin issep
      /\ behind <= Len(text) => text[behind] \in issep
  BY <1>3, SkipStops
<1>5. behind # from BY <1>2, <1>3, <1>4
<1>6. behind \in (from + 1)..(Len(text) + 1) BY <1>1, <1>3, <1>4, <1>5
<1>7. behind = Len(text) + 1 \/ text[behind] \in issep BY <1>1, <1>4, <1>6
<1> DEFINE v == [from |-> from, to |-> behind - 1]
<1>8. from = 1 \/ text[from - 1] \in issep
  <2>1. CASE from = p
    <3>1. p # Len(text) + 1 /\ text[p] \notin issep BY <1>1, <1>2, <1>3, <2>1
    <3> QED BY <2>1, <3>1
  <2>2. CASE from # p
    <3>1. from - 1 \in p..(from - 1) /\ from - 1 \in 1..Len(text) BY <1>1, <1>3, <2>2
    <3>2. text[from - 1] \in Chars BY <3>1 DEF IsText
    <3> QED BY <1>2, <3>1, <3>2
  <2> QED BY <2>1, <2>2
<1>9. v \in TextWords
  <2>1. behind - 1 \in 1..Len(text) /\ from <= behind - 1 BY <1>1, <1>3, <1>6
  <2>2. v \in [from : 1..Len(text), to : 1..Len(text)] BY <1>3, <2>1
  <2>3. behind - 1 = Len(text) \/ text[(behind - 1) + 1] \in issep
    <3>1. CASE behind = Len(text) + 1 BY <1>1, <3>1
    <3>2. CASE text[behind] \in issep
      <4>1. (behind - 1) + 1 = behind BY <1>1, <1>6
      <4> QED BY <3>2, <4>1
    <3> QED BY <1>7, <3>1, <3>2
  <2>4. v.from = from /\ v.to = behind - 1 OBVIOUS
  <2> HIDE DEF v
  <2> QED BY <1>4, <1>8, <2>1, <2>2, <2>3, <2>4, WordFacts
<1>10. ASSUME NEW w \in TextWords, w.from < behind PROVE w.from < p \/ w = v
  <2>1. w.from \in 1..Len(text) /\ (w.from = 1 \/ text[w.from - 1] \in issep) BY WordFacts
  <2>2. CASE w.from < from BY <1>2, <1>3, <2>2, NoWordBetween
  <2>3. CASE w.from = from BY <1>9, <2>3, OneWordAt
  <2>4. CASE w.from > from
    <3>1. w.from # 1 /\ w.from - 1 \in from..(behind - 1) BY <1>1, <1>3, <1>6, <1>10, <2>1, <2>4
    <3> QED BY <1>4, <2>1, <3>1
  <2> QED BY <1>1, <1>3, <2>1, <2>2, <2>3, <2>4
<1> QED BY <1>3, <1>6, <1>7, <1>9, <1>10

LEMMA CallStep == SplitInv /\ Call => SplitInv'
<1> SUFFICES ASSUME SplitInv, Call PROVE SplitInv' OBVIOUS
<1>1. /\ splitting = "idle" /\ splitting' = "loop" /\ start = 1 /\ start' = 1
      /\ fields = <<>> /\ fields' = <<>> /\ issep' \in SeparatorSets /\ size' \in Sizes
      /\ text' \in UNION {[1..n -> Chars] : n \in 0..MaxText}
  BY DEF Call, SplitInv
<1>2. text' \in Seq(Chars)
  <2>1. PICK n \in 0..MaxText : text' \in [1..n -> Chars] BY <1>1
  <2> QED BY <2>1
<1>3. IsText' BY <1>1, <1>2, SeparatorsAssumption DEF IsText
<1>4. size' \in Nat BY <1>1, SizesAssumption
<1>5. start' \in 1..(Len(text') + 1) BY <1>1, <1>2
<1>6. \A w \in TextWords' : ~(w.from < 1)
  <2>1. \A w \in TextWords' : w.from \in DOMAIN text' BY DEF TextWords
  <2>2. DOMAIN text' \subseteq Nat \ {0} BY <1>2
  <2> QED BY <2>1, <2>2
<1>7. PICK e : e = <<>> OBVIOUS
<1>8. e \in Seq(TextWords') /\ Len(e) = 0 BY <1>7
<1>9. WordsBefore(e, start)' BY <1>1, <1>6, <1>8 DEF WordsBefore
<1>10. Taken(e)' BY <1>1, <1>8 DEF Taken
<1>11. fields' \in Seq(Views) BY <1>1
<1>12. size' = 0 \/ Len(fields') < size' BY <1>1, <1>4
<1>13. FieldsOfText' BY <1>1 DEF FieldsOfText
<1> QED BY <1>1, <1>3, <1>4, <1>5, <1>8, <1>9, <1>10, <1>11, <1>12, <1>13 DEF SplitInv

LEMMA SameText ==
  ASSUME UNCHANGED arguments
  PROVE  /\ text' = text /\ issep' = issep /\ size' = size
         /\ TextWords' = TextWords /\ (IsText => IsText')
<1>1. text' = text /\ issep' = issep /\ size' = size BY DEF arguments
<1> QED BY <1>1 DEF TextWords, IsText

\* What is true of an iteration's start.
LEMMA InLoop ==
  ASSUME SplitInv, splitting = "loop"
  PROVE  /\ IsText /\ size \in Nat /\ fields \in Seq(Views) /\ Len(text) \in Nat
         /\ start \in 1..(Len(text) + 1)
         /\ start = 1 \/ start = Len(text) + 1 \/ text[start] \in issep
         /\ size = 0 \/ Len(fields) < size
         /\ \E e \in Seq(TextWords) : WordsBefore(e, start) /\ Taken(e)
BY DEF SplitInv, IsText

LEMMA TakeWordStep == SplitInv /\ TakeWord => SplitInv'
<1> SUFFICES ASSUME SplitInv, TakeWord PROVE SplitInv' OBVIOUS
<1>1. PICK from : from = SkipUntil(start, Chars \ issep) OBVIOUS
<1>2. PICK behind : behind = SkipUntil(from, issep) OBVIOUS
<1>3. PICK n : n = Len(fields) OBVIOUS
<1>4. PICK view : view = [from |-> from, to |-> IF n + 1 = size THEN Len(text) ELSE behind - 1]
  OBVIOUS
<1>5. /\ splitting = "loop" /\ from <= Len(text)
      /\ fields' = Append(fields, view)
      /\ start' = behind
      /\ splitting' = IF n + 1 = size THEN "pad" ELSE "loop"
      /\ UNCHANGED arguments
  BY <1>1, <1>2, <1>3, <1>4 DEF TakeWord
<1>6. /\ IsText /\ size \in Nat /\ fields \in Seq(Views) /\ Len(text) \in Nat
      /\ start \in 1..(Len(text) + 1)
      /\ start = 1 \/ start = Len(text) + 1 \/ text[start] \in issep
      /\ size = 0 \/ Len(fields) < size
      /\ \E e \in Seq(TextWords) : WordsBefore(e, start) /\ Taken(e)
  BY <1>5, InLoop
<1>7. /\ text' = text /\ issep' = issep /\ size' = size /\ TextWords' = TextWords /\ IsText'
  BY <1>5, <1>6, SameText
<1>8. PICK word : word = [from |-> from, to |-> behind - 1] OBVIOUS
<1>9. /\ from \in start..Len(text) /\ behind \in (from + 1)..(Len(text) + 1)
      /\ behind = Len(text) + 1 \/ text[behind] \in issep
      /\ word \in TextWords
      /\ \A w \in TextWords : w.from < behind => w.from < start \/ w = word
  BY <1>1, <1>2, <1>5, <1>6, <1>8, NextWord
<1>10. PICK e \in Seq(TextWords) : WordsBefore(e, start) /\ Taken(e) BY <1>6
<1>11. PICK f : f = Append(e, word) OBVIOUS
<1>12. Len(e) = n /\ n \in Nat /\ \A k \in 1..n : e[k] \in TextWords
  BY <1>3, <1>6, <1>10 DEF Taken
<1>13. f \in Seq(TextWords) /\ Len(f) = n + 1 /\ f[n + 1] = word
       /\ \A k \in 1..n : f[k] = e[k]
  BY <1>9, <1>11, <1>12, AppendProperties
<1>14. WordsBefore(f, behind)
  <2>1. \A w \in TextWords : w.from \in Nat BY <1>6, WordFacts
  <2>2. \A k \in 1..(n + 1) : k \in 1..n \/ k = n + 1 BY <1>12
  <2>3. \A k \in 1..n : e[k].from < start /\ e[k].from \in Nat
    BY <1>10, <1>12, <2>1 DEF WordsBefore
  <2>4. word.from = from /\ start <= from /\ from < behind
        /\ start \in Nat /\ from \in Nat /\ behind \in Nat
    BY <1>6, <1>8, <1>9
  <2>5. \A k \in 1..n : f[k].from < from /\ f[k].from < behind /\ f[k].from \in Nat
    BY <1>13, <2>3, <2>4
  <2>6. \A k \in 1..(n + 1) : f[k].from < behind BY <1>13, <2>2, <2>4, <2>5
  <2>7. ASSUME NEW i \in 1..(n + 1), NEW j \in 1..(n + 1), i < j PROVE f[i].from < f[j].from
    <3>1. i \in 1..n BY <1>12, <2>7
    <3>2. CASE j = n + 1 BY <1>13, <2>4, <2>5, <3>1, <3>2
    <3>3. CASE j # n + 1
      <4>1. j \in 1..n BY <2>2, <3>3
      <4>2. e[i].from < e[j].from BY <1>10, <1>12, <2>7, <3>1, <4>1 DEF WordsBefore
      <4> QED BY <1>13, <3>1, <4>1, <4>2
    <3> QED BY <3>2, <3>3
  <2>8. ASSUME NEW w \in TextWords, w.from < behind PROVE \E k \in 1..(n + 1) : w = f[k]
    <3>1. CASE w = word
      <4>1. n + 1 \in 1..(n + 1) BY <1>12
      <4> QED BY <1>13, <3>1, <4>1
    <3>2. CASE w # word
      <4>1. w.from < start BY <1>9, <2>8, <3>2
      <4>2. PICK k \in 1..n : w = e[k] BY <1>10, <1>12, <4>1 DEF WordsBefore
      <4>3. k \in 1..(n + 1) BY <1>12
      <4> QED BY <1>13, <4>2, <4>3
    <3> QED BY <3>1, <3>2
  <2> QED BY <1>13, <2>6, <2>7, <2>8 DEF WordsBefore
<1>15. view \in Views BY <1>4, <1>6, <1>9 DEF Views
<1>16. fields' \in Seq(Views) /\ Len(fields') = n + 1 /\ fields'[n + 1] = view
       /\ \A k \in 1..n : fields'[k] = fields[k]
  BY <1>3, <1>5, <1>6, <1>15, AppendProperties
<1>17. Taken(f)'
  <2>1. Len(f) = Len(fields') BY <1>13, <1>16
  <2>2. ASSUME NEW k \in 1..Len(f)
        PROVE  fields'[k] = IF k = size THEN [from |-> f[k].from, to |-> Len(text)] ELSE f[k]
    <3>1. CASE k = n + 1
      <4>1. f[k].from = from BY <1>8, <1>13, <3>1
      <4> QED BY <1>4, <1>8, <1>13, <1>16, <3>1, <4>1
    <3>2. CASE k # n + 1
      <4>1. k \in 1..n BY <1>12, <1>13, <3>2
      <4>2. fields[k] = IF k = size THEN [from |-> e[k].from, to |-> Len(text)] ELSE e[k]
        BY <1>10, <1>12, <4>1 DEF Taken
      <4> QED BY <1>13, <1>16, <4>1, <4>2
    <3> QED BY <3>1, <3>2
  <2> QED BY <1>7, <2>1, <2>2 DEF Taken
<1>18. WordsBefore(f, start)' BY <1>5, <1>7, <1>14 DEF WordsBefore
<1>19. start' \in 1..(Len(text') + 1) BY <1>5, <1>6, <1>7, <1>9
<1>20. start' = Len(text') + 1 \/ text'[start'] \in issep' BY <1>5, <1>7, <1>9
<1>21. splitting' = "loop" => size' = 0 \/ Len(fields') < size'
  BY <1>3, <1>5, <1>6, <1>7, <1>12, <1>16
<1>22. splitting' = "pad" => Finished'
  <2> SUFFICES ASSUME n + 1 = size PROVE Finished' BY <1>5
  <2> QED BY <1>7, <1>12, <1>16 DEF Finished
<1>23. splitting' \in {"loop", "pad"} BY <1>5
<1>24. FieldsOfText' BY <1>23 DEF FieldsOfText
<1>25. \E g \in Seq(TextWords') : WordsBefore(g, start)' /\ Taken(g)' BY <1>7, <1>13, <1>17, <1>18
<1> QED BY <1>6, <1>7, <1>16, <1>19, <1>20, <1>21, <1>22, <1>23, <1>24, <1>25 DEF SplitInv

LEMMA LoopEndsStep == SplitInv /\ LoopEnds => SplitInv'
<1> SUFFICES ASSUME SplitInv, LoopEnds PROVE SplitInv' OBVIOUS
<1>1. /\ splitting = "loop" /\ splitting' = "pad"
      /\ SkipUntil(start, Chars \ issep) > Len(text)
      /\ UNCHANGED arguments /\ start' = start /\ fields' = fields
  BY DEF LoopEnds
<1>2. /\ IsText /\ size \in Nat /\ fields \in Seq(Views) /\ Len(text) \in Nat
      /\ start \in 1..(Len(text) + 1)
      /\ size = 0 \/ Len(fields) < size
      /\ \E e \in Seq(TextWords) : WordsBefore(e, start) /\ Taken(e)
  BY <1>1, InLoop
<1>3. /\ text' = text /\ issep' = issep /\ size' = size /\ TextWords' = TextWords /\ IsText'
  BY <1>1, <1>2, SameText
<1>4. \A w \in TextWords : w.from < start
  <2> TAKE w \in TextWords
  <2> DEFINE q == SkipUntil(start, Chars \ issep)
  <2>1. q \in start..(Len(text) + 1) /\ \A k \in start..(q - 1) : text[k] \notin Chars \ issep
    BY <1>2, SkipStops
  <2>2. w.from \in 1..Len(text) BY <1>2, WordFacts
  <2>3. w.from < q BY <1>1, <1>2, <2>1, <2>2
  <2> HIDE DEF q
  <2> QED BY <1>2, <2>1, <2>3, NoWordBetween
<1>5. Finished' BY <1>1, <1>2, <1>3, <1>4 DEF Finished
<1>6. PICK e \in Seq(TextWords) : WordsBefore(e, start) /\ Taken(e) BY <1>2
<1>7. WordsBefore(e, start)' BY <1>1, <1>3, <1>6 DEF WordsBefore
<1>8. Taken(e)' BY <1>1, <1>3, <1>6 DEF Taken
<1>9. FieldsOfText' BY <1>1 DEF FieldsOfText
<1> QED BY <1>1, <1>2, <1>3, <1>5, <1>6, <1>7, <1>8, <1>9 DEF SplitInv

LEMMA PadStep == SplitInv /\ Pad => SplitInv'
<1> SUFFICES ASSUME SplitInv, Pad PROVE SplitInv' OBVIOUS
<1>1. /\ splitting = "pad" /\ splitting' = "split" /\ UNCHANGED arguments /\ start' = start
      /\ fields' = fields \o [k \in 1..(size - Len(fields)) |-> NoView]
  BY DEF Pad
<1>2. /\ IsText /\ size \in Nat /\ fields \in Seq(Views) /\ Finished
      /\ start \in 1..(Len(text) + 1) /\ Len(text) \in Nat
      /\ \E e \in Seq(TextWords) : WordsBefore(e, start) /\ Taken(e)
  BY <1>1 DEF SplitInv, IsText
<1>3. /\ text' = text /\ issep' = issep /\ size' = size /\ TextWords' = TextWords /\ IsText'
  BY <1>1, <1>2, SameText
<1>4. PICK e \in Seq(TextWords) : WordsBefore(e, start) /\ Taken(e) BY <1>2
<1>5. PICK n : n = Len(fields) OBVIOUS
<1>6. PICK m : m = IF size < n THEN 0 ELSE size - n OBVIOUS
<1>7. n \in Nat /\ m \in Nat /\ 1..(size - n) = 1..m BY <1>2, <1>5, <1>6
<1> DEFINE g == [k \in 1..m |-> NoView]
<1>8. NoView \in Views BY DEF NoView, Views
<1>9. g \in Seq(Views) /\ Len(g) = m /\ \A k \in 1..m : g[k] = NoView BY <1>7, <1>8
<1>10. fields' = fields \o g BY <1>1, <1>5, <1>7
<1> HIDE DEF g
<1>11. /\ fields' \in Seq(Views) /\ Len(fields') = n + m
       /\ \A k \in 1..(n + m) : fields'[k] = IF k <= n THEN fields[k] ELSE g[k - n]
  BY <1>2, <1>5, <1>9, <1>10, ConcatProperties
<1>12. \A k \in 1..(n + m) : fields'[k] = IF k <= n THEN fields[k] ELSE NoView
  <2> TAKE k \in 1..(n + m)
  <2>1. CASE k <= n BY <1>11, <2>1
  <2>2. CASE ~(k <= n)
    <3>1. k - n \in 1..m BY <1>7, <2>2
    <3> QED BY <1>9, <1>11, <2>2, <3>1
  <2> QED BY <2>1, <2>2
<1> DEFINE words == Cardinality(TextWords)
<1>13. words \in Nat BY <1>2, WordsFinite
<1>14. Len(e) = n BY <1>4, <1>5 DEF Taken
<1>15. n <= words /\ ((\A w \in TextWords : w.from < start) => n = words)
  BY <1>2, <1>4, <1>14, NumberOfWords
<1>16. \/ n = words /\ (size = 0 \/ n < size)
       \/ size # 0 /\ n = size
  BY <1>2, <1>5, <1>15 DEF Finished
<1>17. ASSUME NEW k \in 1..n
       PROVE  /\ fields[k] = IF k = size THEN [from |-> e[k].from, to |-> Len(text)] ELSE e[k]
              /\ WordAt(k) = e[k] /\ e[k] \in TextWords
  <2>1. k \in 1..Len(e) /\ start \in Nat BY <1>2, <1>14
  <2>2. WordAt(k) = e[k] BY <1>2, <1>4, <2>1, KthWord
  <2> QED BY <1>4, <2>1, <2>2 DEF Taken
<1> HIDE DEF words
<1>18. Len(fields') = IF size = 0 THEN words ELSE size BY <1>2, <1>6, <1>7, <1>11, <1>16
<1>19. DOMAIN fields' = 1..(n + m) BY <1>11
<1>20. ASSUME NEW k \in DOMAIN fields', k > words PROVE fields'[k] = NoView
  <2>1. k \in 1..(n + m) /\ ~(k <= n) BY <1>7, <1>13, <1>15, <1>19, <1>20
  <2> QED BY <1>12, <2>1
<1>21. ASSUME NEW k \in DOMAIN fields', k <= words PROVE k \in 1..n
  <2>1. k \in 1..(n + m) BY <1>19
  <2>2. m = 0 \/ n = words BY <1>2, <1>6, <1>16
  <2> QED BY <1>7, <1>13, <1>21, <2>1, <2>2
<1>22. ASSUME NEW k \in DOMAIN fields', k <= words, k = size
       PROVE  fields'[k] = [WordAt(k) EXCEPT !.to = Len(text)]
  <2>1. k \in 1..n BY <1>21, <1>22
  <2>2. fields'[k] = fields[k] BY <1>7, <1>12, <1>19, <2>1
  <2>3. e[k] \in [from : 1..Len(text), to : 1..Len(text)] BY <1>2, <1>17, <2>1, WordFacts
  <2>4. [e[k] EXCEPT !.to = Len(text)] = [from |-> e[k].from, to |-> Len(text)] BY <2>3
  <2> QED BY <1>17, <1>22, <2>1, <2>2, <2>4
<1>23. ASSUME NEW k \in DOMAIN fields', k <= words, k # size PROVE fields'[k] = WordAt(k)
  <2>1. k \in 1..n BY <1>21, <1>23
  <2>2. fields'[k] = fields[k] BY <1>7, <1>12, <1>19, <2>1
  <2> QED BY <1>17, <1>23, <2>1, <2>2
<1>24. FieldsOfText'
  <2>1. \A k : WordAt(k)' = WordAt(k) BY <1>3 DEF WordAt
  <2>2. Cardinality(TextWords)' = words BY <1>3 DEF words
  <2>3. \A k \in DOMAIN fields' : k > words \/ k <= words BY <1>7, <1>13, <1>19
  <2>4. \A k \in DOMAIN fields' :
          fields'[k] = CASE k > words -> NoView
                         [] k <= words /\ k = size -> [WordAt(k) EXCEPT !.to = Len(text)]
                         [] OTHER -> WordAt(k)
    <3> TAKE k \in DOMAIN fields'
    <3>1. CASE k > words
      <4>1. ~(k <= words) BY <1>7, <1>13, <1>19, <3>1
      <4> QED BY <1>20, <3>1, <4>1
    <3>2. CASE k <= words /\ k = size
      <4>1. ~(k > words) BY <1>7, <1>13, <1>19, <3>2
      <4> QED BY <1>22, <3>2, <4>1
    <3>3. CASE k <= words /\ k # size
      <4>1. ~(k > words) BY <1>7, <1>13, <1>19, <3>3
      <4> QED BY <1>23, <3>3, <4>1
    <3> QED BY <2>3, <3>1, <3>2, <3>3
  <2> QED BY <1>3, <1>18, <2>1, <2>2, <2>4 DEF FieldsOfText
<1> QED BY <1>1, <1>2, <1>3, <1>11, <1>24 DEF SplitInv

LEMMA SplitStep == SplitInv /\ [SplitNext]_splitVars => SplitInv'
<1> SUFFICES ASSUME SplitInv, [SplitNext]_splitVars PROVE SplitInv' OBVIOUS
<1>1. CASE Call BY <1>1, CallStep
<1>2. CASE TakeWord BY <1>2, TakeWordStep
<1>3. CASE LoopEnds BY <1>3, LoopEndsStep
<1>4. CASE Pad BY <1>4, PadStep
<1>5. CASE UNCHANGED splitVars
  <2>1. UNCHANGED <<text, issep, size, start, fields, splitting>> BY <1>5 DEF splitVars
  <2>2. UNCHANGED arguments BY <2>1 DEF arguments
  <2>3. TextWords' = TextWords /\ (IsText => IsText') BY <2>2, SameText
  <2>4. \A e : WordsBefore(e, start)' = WordsBefore(e, start) BY <2>1, <2>3 DEF WordsBefore
  <2>5. \A e : Taken(e)' = Taken(e) BY <2>1 DEF Taken
  <2>6. Finished' = Finished BY <2>1, <2>3 DEF Finished
  <2>7. FieldsOfText' = FieldsOfText
    <3>1. \A k : WordAt(k)' = WordAt(k) BY <2>3 DEF WordAt
    <3> QED BY <2>1, <2>3, <3>1 DEF FieldsOfText
  <2> QED BY <2>1, <2>3, <2>4, <2>5, <2>6, <2>7 DEF SplitInv
<1> QED BY <1>1, <1>2, <1>3, <1>4, <1>5 DEF SplitNext

(***************************************************************************)
(* split() of StringUtils.h gives the words of any text, in both forms,    *)
(* for any separators and sizes of the array.                              *)
(***************************************************************************)
THEOREM FieldsAreWords == SplitSpec => []FieldsOfText
<1>1. SplitInv => FieldsOfText BY DEF SplitInv
<1> QED BY <1>1, SplitInitial, SplitStep, PTL DEF SplitSpec

-----------------------------------------------------------------------------
(***************************************************************************)
(* Tallies: the values V, f[v] of each, are counted in n bins.             *)
(***************************************************************************)
Tally(V, f, n, bin, c) ==
  /\ V \in SUBSET Nat /\ IsFiniteSet(V) /\ n \in Nat
  /\ f \in [V -> Nat] /\ bin \in [V -> 0..(n - 1)]
  /\ \A u, v \in V : u <= v => bin[u] <= bin[v]
  /\ c \in [0..(n - 1) -> Nat]
  /\ \A b \in 0..(n - 1) : c[b] = SumFunctionOnSet(f, {v \in V : bin[v] = b})

LEMMA TallyUpTo ==
  ASSUME NEW V, NEW f, NEW n, NEW bin, NEW c, Tally(V, f, n, bin, c), NEW a \in 0..(n - 1)
  PROVE  SumFunctionOnSet(c, 0..a) = SumFunctionOnSet(f, {v \in V : bin[v] <= a})
<1>1. /\ V \in SUBSET Nat /\ IsFiniteSet(V) /\ n \in Nat
      /\ f \in [V -> Nat] /\ bin \in [V -> 0..(n - 1)]
      /\ c \in [0..(n - 1) -> Nat]
      /\ \A b \in 0..(n - 1) : c[b] = SumFunctionOnSet(f, {v \in V : bin[v] = b})
  BY DEF Tally
<1> DEFINE In(b) == {v \in V : bin[v] = b}
           Under(b) == {v \in V : bin[v] <= b}
           T == {b \in 0..(n - 1) : SumFunctionOnSet(c, 0..b) # SumFunctionOnSet(f, Under(b))}
<1>2. \A v \in V : bin[v] \in Nat BY <1>1
<1>3. \A b \in 0..(n - 1) : IsFiniteSet(In(b)) /\ IsFiniteSet(Under(b))
  <2>1. \A b \in 0..(n - 1) : In(b) \in SUBSET V /\ Under(b) \in SUBSET V OBVIOUS
  <2> QED BY <1>1, <2>1, FS_Subset
<1>4. T = {}
  <2> SUFFICES ASSUME T # {} PROVE FALSE OBVIOUS
  <2>1. T \in SUBSET Nat BY <1>1
  <2>2. PICK m \in T : \A k \in T : m <= k BY <2>1, LeastNumber
  <2>3. m \in 0..(n - 1) /\ SumFunctionOnSet(c, 0..m) # SumFunctionOnSet(f, Under(m)) BY <2>2
  <2>4. c[m] \in Nat /\ c[m] = SumFunctionOnSet(f, In(m)) BY <1>1, <2>3
  <2>5. CASE m = 0
    <3>1. 0..m = {m} BY <2>5
    <3>2. Under(m) = In(m)
      <4>1. \A v \in V : bin[v] <= m <=> bin[v] = m BY <1>2, <2>5
      <4> QED BY <4>1
    <3>3. SumFunctionOnSet(c, {m}) = c[m] BY <2>4, SumOfOne
    <3> QED BY <2>3, <2>4, <3>1, <3>2, <3>3
  <2>6. CASE m # 0
    <3> DEFINE p == m - 1
    <3>1. p \in 0..(n - 1) /\ p \in Nat /\ m \in Nat /\ m = p + 1 BY <1>1, <2>3, <2>6
    <3>2. SumFunctionOnSet(c, 0..p) = SumFunctionOnSet(f, Under(p))
      <4>1. p \notin T
        <5>1. ~(m <= p) BY <3>1
        <5> HIDE DEF T, p
        <5> QED BY <2>2, <5>1
      <4> HIDE DEF p, Under
      <4> QED BY <3>1, <4>1
    <3> HIDE DEF p
    <3>3. 0..m = (0..p) \cup {m} /\ (0..p) \cap {m} = {} BY <3>1
    <3>4. \A i \in (0..p) \cup {m} : c[i] \in Nat BY <1>1, <2>3, <3>1
    <3>5. IsFiniteSet(0..p) /\ IsFiniteSet({m})
      <4>1. 0 \in Int /\ p \in Int BY <3>1
      <4> QED BY <4>1, FS_Interval, FS_Singleton
    <3>6. SumFunctionOnSet(c, (0..p) \cup {m})
            = SumFunctionOnSet(c, 0..p) + SumFunctionOnSet(c, {m})
      BY <3>3, <3>4, <3>5, SumOfUnion
    <3>7. SumFunctionOnSet(c, {m}) = c[m] BY <2>4, SumOfOne
    <3>8. Under(m) = Under(p) \cup In(m) /\ Under(p) \cap In(m) = {}
      <4>1. \A v \in V : /\ bin[v] <= m <=> bin[v] <= p \/ bin[v] = m
                         /\ ~(bin[v] <= p /\ bin[v] = m)
        BY <1>2, <3>1
      <4> QED BY <4>1
    <3>9. \A i \in Under(p) \cup In(m) : f[i] \in Nat BY <1>1
    <3>10. IsFiniteSet(Under(p)) /\ IsFiniteSet(In(m)) BY <1>3, <2>3, <3>1
    <3> HIDE DEF Under, In
    <3>11. SumFunctionOnSet(f, Under(p) \cup In(m))
             = SumFunctionOnSet(f, Under(p)) + SumFunctionOnSet(f, In(m))
      BY <3>8, <3>9, <3>10, SumOfUnion
    <3>12. SumFunctionOnSet(c, 0..m) = SumFunctionOnSet(c, 0..p) + c[m] BY <3>3, <3>6, <3>7
    <3>13. SumFunctionOnSet(f, Under(m)) = SumFunctionOnSet(f, Under(p)) + c[m]
      BY <2>4, <3>8, <3>11
    <3> QED BY <2>3, <3>2, <3>12, <3>13
  <2> QED BY <2>5, <2>6
<1>5. SumFunctionOnSet(c, 0..a) = SumFunctionOnSet(f, Under(a))
  <2> HIDE DEF Under
  <2> QED BY <1>4
<1> QED BY <1>5

LEMMA TallyTotal ==
  ASSUME NEW V, NEW f, NEW n, NEW bin, NEW c, Tally(V, f, n, bin, c)
  PROVE  /\ SumFunctionOnSet(c, 0..(n - 1)) = SumFunctionOnSet(f, V)
         /\ SumFunctionOnSet(f, V) \in Nat
<1>1. n \in Nat /\ bin \in [V -> 0..(n - 1)] /\ IsFiniteSet(V) /\ f \in [V -> Nat] BY DEF Tally
<1>2. CASE n = 0
  <2>1. 0..(n - 1) = {} /\ V = {} BY <1>1, <1>2
  <2>2. SumFunctionOnSet(c, {}) = 0 /\ SumFunctionOnSet(f, {}) = 0 BY SumOfNone
  <2> DEFINE D == 0..(n - 1)
  <2> HIDE DEF D
  <2>3. D = {} BY <2>1 DEF D
  <2>4. SumFunctionOnSet(c, D) = SumFunctionOnSet(f, V) BY <2>1, <2>2, <2>3
  <2> QED BY <2>1, <2>2, <2>4 DEF D
<1>3. CASE n # 0
  <2>1. n - 1 \in 0..(n - 1) BY <1>1, <1>3
  <2>2. V = {v \in V : bin[v] <= n - 1} BY <1>1
  <2>3. SumFunctionOnSet(c, 0..(n - 1)) = SumFunctionOnSet(f, {v \in V : bin[v] <= n - 1})
    BY <2>1, TallyUpTo
  <2>4. SumFunctionOnSet(f, V) \in Nat BY <1>1, SumIsNumber
  <2> QED BY <2>2, <2>3, <2>4
<1> QED BY <1>2, <1>3

\* A finite set of numbers has a greatest one.
LEMMA GreatestNumber ==
  ASSUME NEW S \in SUBSET Nat, IsFiniteSet(S), S # {}
  PROVE  \E m \in S : \A k \in S : k <= m
<1> DEFINE T == {-k : k \in S}
           f == [t \in T |-> -t]
<1>1. T \in SUBSET Int /\ T # {} OBVIOUS
<1>2. \A t \in T : -t \in S /\ t \in Int OBVIOUS
<1>3. \A k \in S : -k \in T /\ k \in Nat OBVIOUS
<1>4. f \in [T -> S] /\ \A a, b \in T : f[a] = f[b] => a = b
  <2> HIDE DEF T
  <2> QED BY <1>2
<1> HIDE DEF T, f
<1>5. f \in Injection(T, S) BY <1>4 DEF Injection, IsInjective
<1>6. IsFiniteSet(T) BY <1>5, FS_Injection
<1>7. Min(T) \in T /\ \A t \in T : Min(T) <= t BY <1>1, <1>6, LeastMember
<1> DEFINE m == -Min(T)
<1>8. m \in S /\ m \in Nat BY <1>2, <1>7
<1>9. ASSUME NEW k \in S PROVE k <= m
  <2>1. -k \in T /\ k \in Nat BY <1>3
  <2>2. Min(T) <= -k /\ Min(T) \in Int BY <1>2, <1>7, <2>1
  <2> QED BY <2>1, <2>2
<1> QED BY <1>8, <1>9

\* The k-th smallest of the values.
Upto(V, v) == {u \in V : u <= v}
Before(V, v) == {u \in V : u < v}

LEMMA KthSmallest ==
  ASSUME NEW V, NEW f, NEW n, NEW bin, NEW c, Tally(V, f, n, bin, c),
         NEW k \in Nat \ {0}, k <= SumFunctionOnSet(f, V),
         NEW x, x = Min({v \in V : SumFunctionOnSet(f, Upto(V, v)) >= k})
  PROVE  /\ x \in V /\ f[x] > 0
         /\ SumFunctionOnSet(f, Upto(V, x)) \in Nat /\ SumFunctionOnSet(f, Before(V, x)) \in Nat
         /\ SumFunctionOnSet(f, Upto(V, x)) >= k
         /\ SumFunctionOnSet(f, Before(V, x)) < k
<1>1. V \in SUBSET Nat /\ IsFiniteSet(V) /\ f \in [V -> Nat] BY DEF Tally
<1> DEFINE T == {v \in V : SumFunctionOnSet(f, Upto(V, v)) >= k}
<1>2. ASSUME NEW v \in V
      PROVE  /\ Upto(V, v) \in SUBSET V /\ Before(V, v) \in SUBSET V
             /\ IsFiniteSet(Upto(V, v)) /\ IsFiniteSet(Before(V, v))
             /\ SumFunctionOnSet(f, Upto(V, v)) \in Nat
             /\ SumFunctionOnSet(f, Before(V, v)) \in Nat
  <2>1. Upto(V, v) \in SUBSET V /\ Before(V, v) \in SUBSET V BY DEF Upto, Before
  <2>2. IsFiniteSet(Upto(V, v)) /\ IsFiniteSet(Before(V, v)) BY <1>1, <2>1, FS_Subset
  <2>3. (\A i \in Upto(V, v) : f[i] \in Nat) /\ (\A i \in Before(V, v) : f[i] \in Nat)
    BY <1>1, <2>1
  <2> QED BY <2>1, <2>2, <2>3, SumIsNumber
\* A set of values with k among them ends with one that has k up to itself.
<1>3. ASSUME NEW S \in SUBSET V, \A u \in S, v \in V : v <= u => v \in S,
             SumFunctionOnSet(f, S) >= k
      PROVE  \E v \in S : v \in T
  <2>1. S # {} BY <1>3, SumOfNone
  <2>2. IsFiniteSet(S) /\ S \in SUBSET Nat BY <1>1, FS_Subset
  <2>3. PICK m \in S : \A u \in S : u <= m BY <2>1, <2>2, GreatestNumber
  <2>4. S = Upto(V, m) BY <1>3, <2>3 DEF Upto
  <2>5. m \in T BY <1>3, <2>3, <2>4
  <2> QED BY <2>3, <2>5
<1>4. \E v \in V : v \in T BY <1>3
<1>5. T \in SUBSET Int /\ T \in SUBSET V /\ IsFiniteSet(T) /\ T # {}
  <2>1. T \in SUBSET V OBVIOUS
  <2> HIDE DEF T
  <2>2. IsFiniteSet(T) BY <1>1, <2>1, FS_Subset
  <2>3. T \in SUBSET Int BY <1>1, <2>1
  <2> QED BY <1>4, <2>1, <2>2, <2>3
<1>6. x \in T /\ \A v \in T : x <= v BY <1>5, LeastMember
<1>7. x \in V /\ SumFunctionOnSet(f, Upto(V, x)) >= k BY <1>6
<1>8. SumFunctionOnSet(f, Before(V, x)) < k
  <2> SUFFICES ASSUME SumFunctionOnSet(f, Before(V, x)) >= k PROVE FALSE BY <1>2, <1>7
  <2>1. Before(V, x) \in SUBSET V BY <1>2, <1>7
  <2>2. \A u \in Before(V, x), v \in V : v <= u => v \in Before(V, x) BY <1>1, <1>7 DEF Before
  <2>3. PICK v \in Before(V, x) : v \in T
    <3> HIDE DEF T
    <3> QED BY <1>3, <2>1, <2>2
  <2>4. v < x /\ v \in Nat /\ x \in Nat BY <1>1, <1>7, <2>3 DEF Before
  <2> QED BY <1>6, <2>3, <2>4
<1>9. f[x] > 0
  <2>1. x \in Upto(V, x) /\ Upto(V, x) \ {x} = Before(V, x)
    <3>1. \A u \in V : u \in Nat /\ x \in Nat BY <1>1, <1>7
    <3>2. \A u \in V : u <= x /\ u # x <=> u < x BY <3>1
    <3>3. x \in Upto(V, x) BY <1>7, <3>1 DEF Upto
    <3>4. \A u : u \in Upto(V, x) \ {x} <=> u \in Before(V, x) BY <3>2 DEF Upto, Before
    <3> QED BY <3>3, <3>4
  <2>2. \A i \in Upto(V, x) : f[i] \in Nat BY <1>1, <1>2, <1>7
  <2>3. SumFunctionOnSet(f, Upto(V, x)) = f[x] + SumFunctionOnSet(f, Before(V, x))
    BY <1>2, <1>7, <2>1, <2>2, SumWith
  <2>4. f[x] \in Nat BY <1>1, <1>7
  <2> QED BY <1>2, <1>7, <1>8, <2>3, <2>4
<1> QED BY <1>2, <1>7, <1>8, <1>9

\* The bins end with the values: the k-th smallest is in the first that has k up to it.
LEMMA BinOfKth ==
  ASSUME NEW V, NEW f, NEW n, NEW bin, NEW c, Tally(V, f, n, bin, c),
         NEW k \in Nat \ {0}, k <= SumFunctionOnSet(f, V),
         NEW x, x = Min({v \in V : SumFunctionOnSet(f, Upto(V, v)) >= k})
  PROVE  /\ x \in V /\ f[x] > 0 /\ bin[x] \in 0..(n - 1) /\ c[bin[x]] > 0
         /\ SumFunctionOnSet(c, 0..bin[x]) >= k
         /\ \A b \in 0..(bin[x] - 1) : SumFunctionOnSet(c, 0..b) < k
<1>1. /\ V \in SUBSET Nat /\ IsFiniteSet(V) /\ n \in Nat
      /\ f \in [V -> Nat] /\ bin \in [V -> 0..(n - 1)]
      /\ \A u, v \in V : u <= v => bin[u] <= bin[v]
      /\ \A b \in 0..(n - 1) : c[b] = SumFunctionOnSet(f, {v \in V : bin[v] = b})
  BY DEF Tally
<1>2. /\ x \in V /\ f[x] > 0
      /\ SumFunctionOnSet(f, Upto(V, x)) \in Nat /\ SumFunctionOnSet(f, Before(V, x)) \in Nat
      /\ SumFunctionOnSet(f, Upto(V, x)) >= k
      /\ SumFunctionOnSet(f, Before(V, x)) < k
  BY KthSmallest
<1> DEFINE a == bin[x]
           Under(b) == {v \in V : bin[v] <= b}
<1>3. a \in 0..(n - 1) /\ a \in Nat BY <1>1, <1>2
<1>4. \A v \in V : v \in Nat /\ bin[v] \in Nat /\ f[v] \in Nat BY <1>1
<1>5. ASSUME NEW b \in 0..(n - 1)
      PROVE  SumFunctionOnSet(c, 0..b) = SumFunctionOnSet(f, Under(b))
  BY TallyUpTo
<1>6. SumFunctionOnSet(c, 0..a) >= k
  <2>1. Upto(V, x) \in SUBSET Under(a) BY <1>1, <1>2 DEF Upto
  <2>2. Under(a) \in SUBSET V OBVIOUS
  <2>3. SumFunctionOnSet(c, 0..a) = SumFunctionOnSet(f, Under(a)) BY <1>3, <1>5
  <2> HIDE DEF Under, a
  <2>4. IsFiniteSet(Under(a)) /\ \A i \in Under(a) : f[i] \in Nat BY <1>1, <1>4, <2>2, FS_Subset
  <2>5. SumFunctionOnSet(f, Upto(V, x)) <= SumFunctionOnSet(f, Under(a))
        /\ SumFunctionOnSet(f, Under(a)) \in Nat
    BY <2>1, <2>4, SumGrows
  <2> QED BY <1>2, <2>3, <2>5
<1>7. ASSUME NEW b \in 0..(a - 1) PROVE SumFunctionOnSet(c, 0..b) < k
  <2>1. b \in 0..(n - 1) /\ b < a /\ b \in Nat BY <1>1, <1>3
  <2>2. Under(b) \in SUBSET Before(V, x)
    <3> SUFFICES ASSUME NEW v \in V, bin[v] <= b PROVE v < x BY DEF Before
    <3>1. ~(x <= v) BY <1>1, <1>2, <1>4, <2>1
    <3> QED BY <1>2, <1>4, <3>1
  <2>3. SumFunctionOnSet(c, 0..b) = SumFunctionOnSet(f, Under(b)) BY <1>5, <2>1
  <2> HIDE DEF Under, a
  <2>4. Before(V, x) \in SUBSET V BY DEF Before
  <2>5. IsFiniteSet(Before(V, x)) /\ \A i \in Before(V, x) : f[i] \in Nat
    BY <1>1, <1>4, <2>4, FS_Subset
  <2>6. SumFunctionOnSet(f, Under(b)) <= SumFunctionOnSet(f, Before(V, x))
        /\ SumFunctionOnSet(f, Under(b)) \in Nat
    BY <2>2, <2>5, SumGrows
  <2> QED BY <1>2, <2>3, <2>6
<1>8. c[a] > 0
  <2> DEFINE In == {v \in V : bin[v] = a}
  <2>1. In \in SUBSET V /\ x \in In BY <1>2
  <2>2. c[a] = SumFunctionOnSet(f, In) BY <1>1, <1>3
  <2> HIDE DEF In, a
  <2>3. IsFiniteSet(In) BY <1>1, <2>1, FS_Subset
  <2>4. \A i \in In : f[i] \in Nat BY <1>4, <2>1
  <2>5. SumFunctionOnSet(f, In) = f[x] + SumFunctionOnSet(f, In \ {x})
        /\ SumFunctionOnSet(f, In \ {x}) \in Nat
    BY <2>1, <2>3, <2>4, SumWith
  <2> QED BY <1>2, <1>4, <2>2, <2>5
<1> QED BY <1>2, <1>3, <1>6, <1>7, <1>8

\* The last of the values in a bin ends the bin.
LEMMA BinEnds ==
  ASSUME NEW V, NEW f, NEW n, NEW bin, NEW c, Tally(V, f, n, bin, c),
         NEW x \in V, f[x] > 0, NEW a, a = bin[x], NEW g \in Nat
  PROVE  (\A v \in V : f[v] > 0 /\ bin[v] = a => 100 * SumFunctionOnSet(f, Upto(V, v)) <= g)
           <=> 100 * SumFunctionOnSet(c, 0..a) <= g
<1>1. /\ V \in SUBSET Nat /\ IsFiniteSet(V) /\ n \in Nat
      /\ f \in [V -> Nat] /\ bin \in [V -> 0..(n - 1)]
      /\ \A u, v \in V : u <= v => bin[u] <= bin[v]
  BY DEF Tally
<1> DEFINE Under == {v \in V : bin[v] <= a}
           Held == {v \in V : f[v] > 0 /\ bin[v] = a}
<1>2. \A v \in V : v \in Nat /\ bin[v] \in Nat /\ f[v] \in Nat BY <1>1
<1>3. a \in 0..(n - 1) BY <1>1
<1>4. SumFunctionOnSet(c, 0..a) = SumFunctionOnSet(f, Under) BY <1>3, TallyUpTo
<1>5. Under \in SUBSET V /\ Held \in SUBSET V /\ x \in Held OBVIOUS
<1>6. IsFiniteSet(Under) /\ IsFiniteSet(Held) /\ \A i \in Under : f[i] \in Nat
  <2> HIDE DEF Under, Held
  <2> QED BY <1>1, <1>2, <1>5, FS_Subset
<1>7. ASSUME NEW v \in Held
      PROVE  /\ SumFunctionOnSet(f, Upto(V, v)) <= SumFunctionOnSet(f, Under)
             /\ SumFunctionOnSet(f, Upto(V, v)) \in Nat /\ SumFunctionOnSet(f, Under) \in Nat
  <2>1. Upto(V, v) \in SUBSET Under BY <1>1 DEF Upto
  <2> HIDE DEF Under, Held
  <2> QED BY <1>6, <2>1, SumGrows
<1>8. PICK m \in Held : \A v \in Held : v <= m
  <2>1. Held \in SUBSET Nat /\ Held # {} BY <1>1, <1>5
  <2> HIDE DEF Held
  <2> QED BY <1>6, <2>1, GreatestNumber
<1>9. SumFunctionOnSet(f, Under) = SumFunctionOnSet(f, Upto(V, m))
  <2> DEFINE A == Upto(V, m)
             D == {v \in V : bin[v] = a /\ v > m}
  <2>1. Under = A \cup D /\ A \cap D = {}
    <3>1. \A v \in V : bin[v] <= a <=> v <= m \/ (bin[v] = a /\ v > m)
      <4> TAKE v \in V
      <4>1. v \in Nat /\ m \in Nat /\ bin[v] \in Nat /\ bin[m] = a /\ a \in Nat BY <1>1, <1>2, <1>8
      <4>2. CASE v <= m
        <5>1. bin[v] <= bin[m] BY <1>1, <1>8, <4>2
        <5> QED BY <4>1, <4>2, <5>1
      <4>3. CASE ~(v <= m)
        <5>1. bin[m] <= bin[v] BY <1>1, <1>8, <4>1, <4>3
        <5> QED BY <4>1, <4>3, <5>1
      <4> QED BY <4>2, <4>3
    <3>2. \A v \in V : ~(v <= m /\ v > m) BY <1>2, <1>8
    <3> QED BY <3>1, <3>2 DEF Upto
  <2>2. ASSUME NEW v \in D PROVE f[v] = 0
    <3>1. v \in V /\ bin[v] = a /\ v > m BY <2>2
    <3>2. v \notin Held
      <4>1. ~(v <= m) BY <1>2, <1>8, <3>1
      <4> HIDE DEF Held
      <4> QED BY <1>8, <4>1
    <3> QED BY <1>2, <3>1, <3>2
  <2>3. A \in SUBSET V /\ D \in SUBSET V BY DEF Upto
  <2> HIDE DEF A, D, Under
  <2>4. IsFiniteSet(A) /\ IsFiniteSet(D) BY <1>1, <2>3, FS_Subset
  <2>5. SumFunctionOnSet(f, A \cup D) = SumFunctionOnSet(f, A) + SumFunctionOnSet(f, D)
    BY <1>6, <2>1, <2>4, SumOfUnion
  <2>6. SumFunctionOnSet(f, D) = 0 BY <2>2, <2>4, SumOfZeroes
  <2>7. SumFunctionOnSet(f, A) \in Nat BY <1>7, <1>8 DEF A
  <2>8. SumFunctionOnSet(f, Under) = SumFunctionOnSet(f, A) + 0 BY <2>1, <2>5, <2>6
  <2> QED BY <2>7, <2>8 DEF A
<1>10. \A v \in V : f[v] > 0 /\ bin[v] = a <=> v \in Held OBVIOUS
<1> HIDE DEF Held, Under
<1>11. ASSUME \A v \in V : f[v] > 0 /\ bin[v] = a => 100 * SumFunctionOnSet(f, Upto(V, v)) <= g
       PROVE  100 * SumFunctionOnSet(c, 0..a) <= g
  <2>1. m \in V BY <1>5, <1>8
  <2>2. 100 * SumFunctionOnSet(f, Upto(V, m)) <= g BY <1>8, <1>10, <1>11, <2>1
  <2> QED BY <1>4, <1>9, <2>2
<1>12. ASSUME 100 * SumFunctionOnSet(c, 0..a) <= g,
              NEW v \in V, f[v] > 0, bin[v] = a
       PROVE  100 * SumFunctionOnSet(f, Upto(V, v)) <= g
  <2>1. v \in Held BY <1>10, <1>12
  <2> QED BY <1>4, <1>7, <1>12, <2>1
<1> QED BY <1>11, <1>12

\* One more of a value.
LEMMA SumOfOneMore ==
  ASSUME NEW V, NEW f \in [V -> Nat], NEW v \in V, NEW S \in SUBSET V, IsFiniteSet(S),
         NEW g, g[v] = f[v] + 1, \A u \in V : u # v => g[u] = f[u]
  PROVE  /\ SumFunctionOnSet(f, S) \in Nat
         /\ SumFunctionOnSet(g, S) = SumFunctionOnSet(f, S) + (IF v \in S THEN 1 ELSE 0)
<1>1. g[v] = f[v] + 1 /\ (\A u \in V : u # v => g[u] = f[u]) /\ \A u \in V : g[u] \in Nat
  OBVIOUS
<1>2. SumFunctionOnSet(f, S) \in Nat BY SumIsNumber
<1>3. CASE v \in S
  <2> DEFINE D == S \ {v}
  <2>1. SumFunctionOnSet(f, S) = f[v] + SumFunctionOnSet(f, D) /\ SumFunctionOnSet(f, D) \in Nat
    BY <1>3, SumWith
  <2>2. SumFunctionOnSet(g, S) = g[v] + SumFunctionOnSet(g, D)
    <3>1. \A u \in S : g[u] \in Nat BY <1>1
    <3> HIDE DEF D
    <3>2. SumFunctionOnSet(g, S) = g[v] + SumFunctionOnSet(g, S \ {v})
      BY <1>3, <3>1, SumWith
    <3> QED BY <3>2 DEF D
  <2>3. IsFiniteSet(D) BY FS_Subset
  <2>4. SumFunctionOnSet(g, D) = SumFunctionOnSet(f, D)
    <3>1. \A u \in D : u \in V /\ u # v OBVIOUS
    <3>2. \A u \in V : f[u] \in Nat OBVIOUS
    <3> HIDE DEF D
    <3>3. \A u \in D : f[u] \in Nat /\ g[u] = f[u] BY <1>1, <3>1, <3>2
    <3> QED BY ONLY <2>3, <3>3, SumOfEquals
  <2> HIDE DEF D
  <2>5. f[v] \in Nat OBVIOUS
  <2>6. SumFunctionOnSet(g, S) = (f[v] + 1) + SumFunctionOnSet(f, D) BY <1>1, <2>2, <2>4
  <2>7. \A a, b \in Nat : (a + 1) + b = (a + b) + 1 OBVIOUS
  <2> QED BY <1>2, <1>3, <2>1, <2>5, <2>6, <2>7
<1>4. CASE v \notin S
  <2>1. \A u \in S : f[u] \in Nat /\ g[u] = f[u] BY <1>1, <1>4
  <2>2. SumFunctionOnSet(g, S) = SumFunctionOnSet(f, S) BY <2>1, SumOfEquals
  <2> QED BY <1>2, <1>4, <2>2
<1> QED BY <1>3, <1>4

LEMMA TallyRank ==
  ASSUME NEW V, NEW f, NEW n, NEW bin, NEW c, Tally(V, f, n, bin, c), NEW a \in 0..(n - 1)
  PROVE  /\ SumFunctionOnSet(c, 0..a) \in Nat /\ c[a] \in Nat
         /\ SumFunctionOnSet(c, 0..(a - 1)) \in Nat
         /\ SumFunctionOnSet(c, 0..a) = SumFunctionOnSet(c, 0..(a - 1)) + c[a]
<1>1. c \in [0..(n - 1) -> Nat] /\ n \in Nat BY DEF Tally
<1> DEFINE A == 0..a
           D == 0..(a - 1)
<1>2. a \in Nat /\ a \in A /\ 0 \in Int /\ a \in Int /\ A \in SUBSET 0..(n - 1) BY <1>1
<1>3. D = A \ {a} BY <1>2
<1>4. IsFiniteSet(A) BY <1>2, FS_Interval
<1>5. (\A i \in A : c[i] \in Nat) /\ c[a] \in Nat BY <1>1, <1>2
<1> HIDE DEF A, D
<1>6. /\ SumFunctionOnSet(c, A) = c[a] + SumFunctionOnSet(c, D)
      /\ SumFunctionOnSet(c, D) \in Nat
  <2>1. a \in A /\ \A i \in A : c[i] \in Nat BY <1>2, <1>5
  <2>2. /\ SumFunctionOnSet(c, A) = c[a] + SumFunctionOnSet(c, A \ {a})
        /\ SumFunctionOnSet(c, A \ {a}) \in Nat
    BY ONLY <1>4, <2>1, SumWith
  <2> QED BY <1>3, <2>2
<1>7. \A r, m \in Nat : m + r = r + m /\ m + r \in Nat OBVIOUS
<1>8. SumFunctionOnSet(c, A) \in Nat /\ SumFunctionOnSet(c, A) = SumFunctionOnSet(c, D) + c[a]
  BY <1>5, <1>6, <1>7
<1> QED BY <1>5, <1>6, <1>8 DEF A, D

\* No bin has more than there is.
LEMMA TallyCount ==
  ASSUME NEW V, NEW f, NEW n, NEW bin, NEW c, Tally(V, f, n, bin, c), NEW a \in 0..(n - 1)
  PROVE  c[a] \in Nat /\ c[a] <= SumFunctionOnSet(f, V)
<1> DEFINE A == 0..(n - 1)
<1>1. n \in Nat /\ c \in [A -> Nat] BY DEF Tally
<1>2. 0 \in Int /\ n - 1 \in Int BY <1>1
<1>3. IsFiniteSet(A) BY <1>2, FS_Interval
<1>4. SumFunctionOnSet(c, A) = SumFunctionOnSet(f, V) BY TallyTotal
<1>5. a \in A /\ \A i \in A : c[i] \in Nat BY <1>1
<1> HIDE DEF A
<1>6. /\ SumFunctionOnSet(c, A) = c[a] + SumFunctionOnSet(c, A \ {a})
      /\ SumFunctionOnSet(c, A \ {a}) \in Nat
  BY ONLY <1>3, <1>5, SumWith
<1>7. \A m, r \in Nat : m <= m + r OBVIOUS
<1> QED BY <1>4, <1>5, <1>6, <1>7

\* A value more is one more in its bin.
OneMore(V, f, v, g) ==
  g \in [V -> Nat] /\ g[v] = f[v] + 1 /\ \A u \in V : u # v => g[u] = f[u]

LEMMA TallyMore ==
  ASSUME NEW V, NEW f, NEW n, NEW bin, NEW c, Tally(V, f, n, bin, c), NEW v \in V,
         NEW g, OneMore(V, f, v, g), NEW e, OneMore(0..(n - 1), c, bin[v], e)
  PROVE  Tally(V, g, n, bin, e)
<1> USE DEF OneMore
<1>1. /\ V \in SUBSET Nat /\ IsFiniteSet(V) /\ n \in Nat
      /\ f \in [V -> Nat] /\ bin \in [V -> 0..(n - 1)]
      /\ \A u, w \in V : u <= w => bin[u] <= bin[w]
      /\ c \in [0..(n - 1) -> Nat]
      /\ \A b \in 0..(n - 1) : c[b] = SumFunctionOnSet(f, {u \in V : bin[u] = b})
  BY DEF Tally
<1>2. ASSUME NEW b \in 0..(n - 1)
      PROVE  e[b] = SumFunctionOnSet(g, {u \in V : bin[u] = b})
  <2> DEFINE In == {u \in V : bin[u] = b}
  <2>1. In \in SUBSET V /\ (v \in In <=> b = bin[v]) OBVIOUS
  <2>2. c[b] = SumFunctionOnSet(f, In) BY <1>1
  <2> HIDE DEF In
  <2>3. IsFiniteSet(In) BY <1>1, <2>1, FS_Subset
  <2>4. SumFunctionOnSet(g, In) = SumFunctionOnSet(f, In) + (IF v \in In THEN 1 ELSE 0)
    <3>1. f \in [V -> Nat] BY <1>1
    <3>2. In \in SUBSET V /\ v \in V BY <2>1
    <3>3. g[v] = f[v] + 1 /\ \A u \in V : u # v => g[u] = f[u] OBVIOUS
    <3> QED BY ONLY <2>3, <3>1, <3>2, <3>3, SumOfOneMore
  <2>5. c[b] \in Nat BY <1>1
  <2>6. e[b] = SumFunctionOnSet(g, In) BY <2>1, <2>2, <2>4, <2>5
  <2> QED BY <2>6 DEF In
<1> QED BY <1>1, <1>2 DEF Tally

\* What was cleared.
LEMMA TallyOfNone ==
  ASSUME NEW V \in SUBSET Nat, IsFiniteSet(V), NEW n \in Nat, NEW bin \in [V -> 0..(n - 1)],
         \A u, v \in V : u <= v => bin[u] <= bin[v],
         NEW f \in [V -> Nat], \A v \in V : f[v] = 0,
         NEW c \in [0..(n - 1) -> Nat], \A b \in 0..(n - 1) : c[b] = 0
  PROVE  Tally(V, f, n, bin, c) /\ SumFunctionOnSet(f, V) = 0
<1>1. ASSUME NEW b \in 0..(n - 1) PROVE c[b] = SumFunctionOnSet(f, {v \in V : bin[v] = b})
  <2> DEFINE In == {v \in V : bin[v] = b}
  <2>1. In \in SUBSET V OBVIOUS
  <2> HIDE DEF In
  <2>2. IsFiniteSet(In) /\ \A v \in In : f[v] = 0 BY <2>1, FS_Subset
  <2>3. SumFunctionOnSet(f, In) = 0 BY ONLY <2>2, SumOfZeroes
  <2> QED BY <2>3 DEF In
<1>2. Tally(V, f, n, bin, c) BY <1>1 DEF Tally
<1> QED BY <1>2, SumOfZeroes

(***************************************************************************)
(* A percentile other than 0 stops at the bin of its order statistic: the  *)
(* rank lies behind the bins before and not behind the bin.                *)
(***************************************************************************)
LEMMA TallyStop ==
  ASSUME NEW V, NEW f, NEW n, NEW bin, NEW c, Tally(V, f, n, bin, c),
         NEW goal \in Nat \ {0}, goal <= 100 * SumFunctionOnSet(f, V),
         NEW x, x = Min({v \in V : SumFunctionOnSet(f, Upto(V, v)) >= (goal + 99) \div 100}),
         NEW reached,
         \A b \in reached : b \in 0..(n - 1) /\ 100 * SumFunctionOnSet(c, 0..b) >= goal,
         \A b \in 0..(n - 1) :
           c[b] > 0 /\ 100 * SumFunctionOnSet(c, 0..b) >= goal => b \in reached
  PROVE  /\ x \in V /\ f[x] > 0 /\ bin[x] \in 0..(n - 1) /\ c[bin[x]] > 0
         /\ bin[x] \in reached /\ Min(reached) = bin[x]
         /\ 100 * SumFunctionOnSet(c, 0..(bin[x] - 1)) < goal
         /\ goal <= 100 * SumFunctionOnSet(c, 0..bin[x])
<1> DEFINE sumOfAll == SumFunctionOnSet(f, V)
           k == (goal + 99) \div 100
           a == bin[x]
           Rank(b) == SumFunctionOnSet(c, 0..b)
<1>1. n \in Nat BY DEF Tally
<1>2. sumOfAll \in Nat BY TallyTotal
<1>3. k \in Nat \ {0} /\ k <= sumOfAll /\ 100 * k >= goal /\ 100 * (k - 1) < goal
  <2> HIDE DEF sumOfAll
  <2>1. goal <= 100 * sumOfAll BY DEF sumOfAll
  <2> QED BY <1>2, <2>1
<1> HIDE DEF k
<1>4. x = Min({v \in V : SumFunctionOnSet(f, Upto(V, v)) >= k}) BY DEF k
<1>5. /\ x \in V /\ f[x] > 0 /\ a \in 0..(n - 1) /\ c[a] > 0 /\ Rank(a) >= k
      /\ \A b \in 0..(a - 1) : Rank(b) < k
  BY <1>3, <1>4, BinOfKth
<1>6. \A b \in 0..(n - 1) : b \in Nat /\ Rank(b) \in Nat BY <1>1, TallyRank
<1>7. Rank(a) = Rank(a - 1) + c[a] /\ Rank(a - 1) \in Nat /\ c[a] \in Nat BY <1>5, TallyRank
<1>8. (\A b \in reached : b \in 0..(n - 1) /\ 100 * Rank(b) >= goal)
      /\ (a \in 0..(n - 1) /\ c[a] > 0 /\ 100 * Rank(a) >= goal => a \in reached)
  OBVIOUS
<1>9. Rank(a - 1) < k
  <2>1. CASE a = 0
    <3>1. 0..(a - 1) = {} BY <2>1
    <3>2. Rank(a - 1) = 0 BY <3>1, SumOfNone
    <3> QED BY <1>3, <3>2
  <2>2. CASE a # 0
    <3>1. a - 1 \in 0..(a - 1) BY <1>5, <1>6, <2>2
    <3> QED BY <1>5, <3>1
  <2> QED BY <2>1, <2>2
<1>10. 100 * Rank(a - 1) < goal /\ goal <= 100 * Rank(a)
  <2> DEFINE before == Rank(a - 1)
             upto == Rank(a)
  <2>1. before \in Nat /\ upto \in Nat /\ before < k /\ upto >= k BY <1>5, <1>6, <1>7, <1>9
  <2> HIDE DEF before, upto
  <2>2. 100 * before < goal /\ goal <= 100 * upto BY <1>3, <2>1
  <2> QED BY <2>2 DEF before, upto
<1> HIDE DEF Rank, a
<1>11. a \in reached BY <1>5, <1>6, <1>8, <1>10
<1>12. ASSUME NEW b \in reached PROVE a <= b /\ b \in Int
  <2>1. b \in 0..(n - 1) /\ 100 * Rank(b) >= goal BY <1>8
  <2>2. b \in Nat /\ Rank(b) \in Nat /\ a \in Nat BY <1>5, <1>6, <2>1
  <2>3. ~(Rank(b) < k) BY <1>3, <2>1, <2>2
  <2>4. b \notin 0..(a - 1) BY <1>5, <2>3
  <2> QED BY <2>2, <2>4
<1>13. reached \in SUBSET Int /\ IsFiniteSet(reached) /\ reached # {}
  <2>1. 0 \in Int /\ n - 1 \in Int BY <1>1
  <2>2. IsFiniteSet(0..(n - 1)) BY <2>1, FS_Interval
  <2>3. reached \in SUBSET 0..(n - 1) BY <1>8
  <2> QED BY <1>11, <1>12, <2>2, <2>3, FS_Subset
<1>14. Min(reached) \in reached /\ \A b \in reached : Min(reached) <= b BY ONLY <1>13, LeastMember
<1>15. Min(reached) = a
  <2>1. Min(reached) <= a /\ a <= Min(reached) /\ a \in Int /\ Min(reached) \in Int
    BY <1>11, <1>12, <1>14
  <2> QED BY <2>1
<1> QED BY <1>5, <1>10, <1>11, <1>15 DEF Rank, a

-----------------------------------------------------------------------------
(***************************************************************************)
(* Histogram: the bins are a tally of the values added.                    *)
(***************************************************************************)
BinsOfSamples == [v \in Samples |-> BinOf(v)]

HistogramInv == Tally(Samples, kept, NumBins, BinsOfSamples, binned)

\* The bin of a value between the limits.
LEMMA BinBetween ==
  ASSUME NEW d \in Nat, NEW w \in Nat, d < w, NEW n \in Nat \ {0}
  PROVE  /\ (d * n) \div w \in 0..(n - 1)
         /\ \A e \in Nat : e <= d => (e * n) \div w <= (d * n) \div w
<1>1. d * n \in Nat /\ w > 0 OBVIOUS
<1> DEFINE q == (d * n) \div w
           r == (d * n) % w
<1>2. q \in Nat /\ r \in Nat /\ r < w /\ d * n = q * w + r
  <2> DEFINE m == d * n
  <2>1. m \in Nat BY <1>1
  <2> HIDE DEF m
  <2>2. m \div w \in Nat /\ m % w \in 0..(w - 1) /\ m = ((m \div w) * w) + (m % w)
    BY <1>1, <2>1, Division
  <2> QED BY <2>2 DEF m
<1> HIDE DEF q, r
<1>3. q < n
  <2>1. d * n + n <= w * n BY MonotoneProduct
  <2>2. q * w \in Nat /\ n * w \in Nat /\ w * n = n * w BY <1>2
  <2>3. q * w < n * w BY <1>1, <1>2, <2>1, <2>2
  <2> QED BY <1>2, <2>3, MonotoneProduct
<1>4. ASSUME NEW e \in Nat, e <= d PROVE (e * n) \div w <= q
  <2> DEFINE m == e * n
             p == m \div w
  <2>1. m \in Nat /\ m <= d * n BY <1>4, MonotoneProduct
  <2> HIDE DEF m
  <2>2. p \in Nat /\ m % w \in 0..(w - 1) /\ m = p * w + (m % w) BY <1>1, <2>1, Division
  <2> HIDE DEF p
  <2>3. ~(q < p)
    <3> SUFFICES ASSUME q < p PROVE FALSE OBVIOUS
    <3>1. q * w + w <= p * w BY <1>2, <2>2, MonotoneProduct
    <3>2. q * w \in Nat /\ p * w \in Nat BY <1>2, <2>2
    <3> QED BY <1>1, <1>2, <2>1, <2>2, <3>1, <3>2
  <2> QED BY <1>2, <2>2, <2>3 DEF p, m
<1> QED BY <1>2, <1>3, <1>4 DEF q

LEMMA BinsInOrder ==
  /\ BinsOfSamples \in [Samples -> HistogramBins]
  /\ \A u, v \in Samples : u <= v => BinsOfSamples[u] <= BinsOfSamples[v]
<1> DEFINE w == Greatest - Least
           Between(v) == ((v - Least) * NumBins) \div w
<1>1. /\ NumBins \in Nat \ {0} /\ Least \in Nat /\ Greatest \in Nat /\ Least < Greatest
      /\ Samples \subseteq Nat /\ w \in Nat
  BY RangeAssumption, SamplesAssumption
<1>2. ASSUME NEW v \in Samples, ~(v < Least), ~(v >= Greatest)
      PROVE  /\ Between(v) \in HistogramBins
             /\ \A u \in Samples : u <= v /\ ~(u < Least) => Between(u) <= Between(v)
  <2>1. v - Least \in Nat /\ v - Least < w BY <1>1, <1>2
  <2>2. \A u \in Samples : u <= v /\ ~(u < Least) => u - Least \in Nat /\ u - Least <= v - Least
    BY <1>1
  <2> DEFINE d == v - Least
  <2> HIDE DEF w, d
  <2>3. /\ (d * NumBins) \div w \in 0..(NumBins - 1)
        /\ \A e \in Nat : e <= d => (e * NumBins) \div w <= (d * NumBins) \div w
    BY <1>1, <2>1, BinBetween DEF d
  <2> QED BY <2>2, <2>3 DEF HistogramBins, d
<1>3. \A v \in Samples : BinOf(v) = IF v < Least THEN 0
                                    ELSE IF v >= Greatest THEN NumBins - 1 ELSE Between(v)
  BY <1>1 DEF BinOf
<1> HIDE DEF Between, w
<1>4. 0 \in HistogramBins /\ NumBins - 1 \in HistogramBins
      /\ \A b \in HistogramBins : b \in Nat /\ 0 <= b /\ b <= NumBins - 1
  BY <1>1 DEF HistogramBins
<1>5. \A v \in Samples : BinOf(v) \in HistogramBins BY <1>2, <1>3, <1>4
<1>6. ASSUME NEW u \in Samples, NEW v \in Samples, u <= v PROVE BinOf(u) <= BinOf(v)
  <2>1. u \in Nat /\ v \in Nat /\ BinOf(u) \in HistogramBins /\ BinOf(v) \in HistogramBins
    BY <1>1, <1>5
  <2>2. CASE u < Least BY <1>3, <1>4, <2>1, <2>2
  <2>3. CASE v >= Greatest
    <3>1. ~(v < Least) BY <1>1, <2>1, <2>3
    <3> QED BY <1>3, <1>4, <2>1, <2>3, <3>1
  <2>4. CASE ~(u < Least) /\ ~(v >= Greatest)
    <3>1. ~(v < Least) /\ ~(u >= Greatest) BY <1>1, <1>6, <2>1, <2>4
    <3>2. BinOf(u) = Between(u) /\ BinOf(v) = Between(v) BY <1>3, <2>4, <3>1
    <3> QED BY <1>2, <1>6, <2>4, <3>1, <3>2
  <2> QED BY <2>2, <2>3, <2>4
<1> QED BY <1>5, <1>6 DEF BinsOfSamples

LEMMA NoneTallied == Tally(Samples, NoneKept, NumBins, BinsOfSamples, NoneBinned)
<1>1. /\ NoneKept \in [Samples -> Nat] /\ \A v \in Samples : NoneKept[v] = 0
      /\ NoneBinned \in [HistogramBins -> Nat] /\ \A b \in HistogramBins : NoneBinned[b] = 0
  BY DEF NoneKept, NoneBinned
<1>2. Samples \in SUBSET Nat /\ IsFiniteSet(Samples) /\ NumBins \in Nat
      /\ HistogramBins = 0..(NumBins - 1)
  BY RangeAssumption, SamplesAssumption DEF HistogramBins
<1> QED BY <1>1, <1>2, BinsInOrder, TallyOfNone

LEMMA AddStep ==
  ASSUME HistogramInv, NEW value \in Samples, AddSample(value)
  PROVE  HistogramInv'
<1>1. PICK f, g, c, e : f = kept /\ g = kept' /\ c = binned /\ e = binned' OBVIOUS
<1>2. Tally(Samples, f, NumBins, BinsOfSamples, c) BY <1>1 DEF HistogramInv
<1>3. f \in [Samples -> Nat] /\ c \in [HistogramBins -> Nat]
      /\ HistogramBins = 0..(NumBins - 1)
  BY <1>2 DEF Tally, HistogramBins
<1>4. /\ e = [b \in HistogramBins |-> IF b = BinOf(value) THEN c[b] + 1 ELSE c[b]]
      /\ g = [f EXCEPT ![value] = @ + 1]
  BY <1>1 DEF AddSample
<1>5. BinsOfSamples[value] = BinOf(value) BY DEF BinsOfSamples
<1>6. OneMore(Samples, f, value, g) BY <1>3, <1>4 DEF OneMore
<1>7. OneMore(0..(NumBins - 1), c, BinsOfSamples[value], e)
  <2>1. BinOf(value) \in HistogramBins BY <1>5, BinsInOrder
  <2> QED BY <1>3, <1>4, <1>5, <2>1 DEF OneMore
<1>8. Tally(Samples, g, NumBins, BinsOfSamples, e)
  <2>1. value \in Samples OBVIOUS
  <2> QED BY ONLY <1>2, <1>6, <1>7, <2>1, TallyMore
<1>9. BinsOfSamples' = BinsOfSamples BY DEF BinsOfSamples, BinOf
<1> QED BY <1>1, <1>8, <1>9 DEF HistogramInv, Tally

LEMMA HistogramInvariant == HistogramSpec => []HistogramInv
<1>1. HistogramInit => HistogramInv BY NoneTallied DEF HistogramInit, HistogramInv
<1>2. HistogramInv /\ [HistogramNext]_histogramVars => HistogramInv'
  <2> SUFFICES ASSUME HistogramInv, [HistogramNext]_histogramVars PROVE HistogramInv' OBVIOUS
  <2>1. CASE ClearBins
    <3>1. kept' = NoneKept /\ binned' = NoneBinned BY <2>1 DEF ClearBins
    <3> QED BY <3>1, NoneTallied DEF HistogramInv, Tally, BinsOfSamples, BinOf,
                                     NoneKept, NoneBinned
  <2>2. CASE \E value \in Samples : AddSample(value) BY <2>2, AddStep
  <2>3. CASE UNCHANGED histogramVars
    BY <2>3 DEF histogramVars, HistogramInv, Tally, BinsOfSamples, BinOf
  <2> QED BY <2>1, <2>2, <2>3 DEF HistogramNext
<1> QED BY <1>1, <1>2, PTL DEF HistogramSpec

\* The rank a bin starts and ends with.
LEMMA RankUpTo ==
  ASSUME HistogramInv, NEW a \in HistogramBins
  PROVE  /\ UpTo(a) \in Nat /\ binned[a] \in Nat
         /\ UpTo(a) - binned[a] = SumFunctionOnSet(binned, 0..(a - 1))
         /\ UpTo(a) - binned[a] \in Nat
<1>1. Tally(Samples, kept, NumBins, BinsOfSamples, binned) BY DEF HistogramInv
<1>2. /\ SumFunctionOnSet(binned, 0..a) \in Nat /\ binned[a] \in Nat
      /\ SumFunctionOnSet(binned, 0..(a - 1)) \in Nat
      /\ SumFunctionOnSet(binned, 0..a) = SumFunctionOnSet(binned, 0..(a - 1)) + binned[a]
  BY <1>1, TallyRank DEF HistogramBins
<1> DEFINE before == SumFunctionOnSet(binned, 0..(a - 1))
<1>3. before \in Nat /\ binned[a] \in Nat /\ UpTo(a) = before + binned[a] BY <1>2 DEF UpTo
<1> HIDE DEF before
<1>4. UpTo(a) \in Nat /\ UpTo(a) - binned[a] = before BY <1>3
<1> QED BY <1>3, <1>4 DEF before

LEMMA RankFollows == HistogramInv => PercentileOfRank
<1> SUFFICES ASSUME HistogramInv, NEW percent \in AskedPercents
    PROVE  LET number == SumFunction(kept)
               goal == percent * number
               value == SmallestKept((goal + 99) \div 100)
               atEnd == goal % 100 = 0
                        /\ \A v \in Samples : kept[v] > 0 /\ BinOf(v) = BinOf(value) =>
                             100 * SumFunctionOnSet(kept, {u \in Samples : u <= v}) <= goal
               inBin == SumFunctionOnSet(kept, {v \in Samples : BinOf(v) = BinOf(value)})
           IN  Pct(percent) = IF goal = 0 \/ atEnd THEN {Missing}
                              ELSE IF inBin > 1 THEN {BinOf(value), Missing}
                              ELSE {BinOf(value)}
  BY DEF PercentileOfRank
<1> DEFINE number == SumFunction(kept)
           goal == percent * number
           value == SmallestKept((goal + 99) \div 100)
           atEnd == goal % 100 = 0
                    /\ \A v \in Samples : kept[v] > 0 /\ BinOf(v) = BinOf(value) =>
                         100 * SumFunctionOnSet(kept, {u \in Samples : u <= v}) <= goal
           inBin == SumFunctionOnSet(kept, {v \in Samples : BinOf(v) = BinOf(value)})
           reached == {b \in HistogramBins : binned[b] > 0 /\ 100 * UpTo(b) >= goal}
           bin == Min(reached)
           excess == goal - 100 * (UpTo(bin) - binned[bin])
<1>1. Tally(Samples, kept, NumBins, BinsOfSamples, binned) BY DEF HistogramInv
<1>2. DOMAIN kept = Samples /\ DOMAIN binned = 0..(NumBins - 1) BY <1>1 DEF Tally
<1>3. number = SumFunctionOnSet(kept, Samples) /\ Total = number /\ number \in Nat
  BY <1>1, <1>2, TallyTotal DEF SumFunction, Total
<1>4. Pct(percent) = IF reached = {} \/ excess \in {0, 100 * binned[bin]} THEN {Missing}
                     ELSE IF binned[bin] > 1 THEN {bin, Missing} ELSE {bin}
  BY <1>3 DEF Pct
<1>5. goal \in Nat /\ goal <= 100 * number
  <2>1. percent \in Nat /\ percent <= 100 BY AskedPercentsAssumption
  <2> HIDE DEF number
  <2> QED BY <1>3, <2>1, MonotoneProduct
<1>6. \A b \in HistogramBins : b \in Nat
  BY RangeAssumption DEF HistogramBins
<1> SUFFICES Pct(percent) = IF goal = 0 \/ atEnd THEN {Missing}
                            ELSE IF inBin > 1 THEN {BinOf(value), Missing}
                            ELSE {BinOf(value)}
  OBVIOUS
<1>7. reached \in SUBSET HistogramBins OBVIOUS
<1>8. CASE goal = 0
  <2>1. CASE reached = {}
    <3>1. Pct(percent) = {Missing} BY <1>4, <2>1
    <3> HIDE DEF goal, atEnd, inBin
    <3> QED BY <1>8, <3>1
  <2>2. CASE reached # {}
    <3>1. bin \in reached /\ \A b \in reached : bin <= b
      <4> HIDE DEF reached
      <4>1. reached \in SUBSET Int BY <1>6, <1>7
      <4>2. IsFiniteSet(reached)
        <5>1. 0 \in Int /\ NumBins - 1 \in Int BY RangeAssumption
        <5>2. IsFiniteSet(HistogramBins) BY <5>1, FS_Interval DEF HistogramBins
        <5> QED BY <1>7, <5>2, FS_Subset
      <4> QED BY <2>2, <4>1, <4>2, LeastMember
    <3>2. bin \in HistogramBins /\ bin \in Nat BY <1>6, <3>1
    <3> HIDE DEF bin
    <3>3. \A b \in 0..(bin - 1) : binned[b] = 0
      <4> TAKE b \in 0..(bin - 1)
      <4>1. b \in HistogramBins /\ b < bin /\ b \in Nat
        BY <3>2, RangeAssumption DEF HistogramBins
      <4>2. b \notin reached
        <5>1. ~(bin <= b) BY <3>2, <4>1
        <5> HIDE DEF reached
        <5> QED BY <3>1, <5>1
      <4>3. UpTo(b) \in Nat /\ binned[b] \in Nat BY <4>1, RankUpTo
      <4>4. 100 * UpTo(b) >= goal
        <5> HIDE DEF goal
        <5> QED BY <1>8, <4>3
      <4> QED BY <4>1, <4>2, <4>3, <4>4
    <3>4. UpTo(bin) = binned[bin] /\ UpTo(bin) \in Nat
      <4>1. IsFiniteSet(0..(bin - 1))
        <5>1. 0 \in Int /\ bin - 1 \in Int BY <3>2
        <5> QED BY <5>1, FS_Interval
      <4>2. SumFunctionOnSet(binned, 0..(bin - 1)) = 0 BY <3>3, <4>1, SumOfZeroes
      <4> DEFINE u == UpTo(bin)
      <4>3. u \in Nat /\ binned[bin] \in Nat /\ u - binned[bin] = 0 BY <3>2, <4>2, RankUpTo
      <4> HIDE DEF u
      <4>4. u = binned[bin] BY <4>3
      <4> QED BY <4>3, <4>4 DEF u
    <3>5. excess = 0
      <4> HIDE DEF goal
      <4> QED BY <1>8, <3>4
    <3> HIDE DEF excess, goal, reached, atEnd, inBin
    <3>6. Pct(percent) = {Missing} BY <1>4, <3>5
    <3> QED BY <1>8, <3>6
  <2> QED BY <2>1, <2>2
<1>9. CASE goal # 0
  <2> DEFINE a == BinOf(value)
  <2> HIDE DEF goal, number
  <2>1. goal \in Nat \ {0} /\ goal <= 100 * SumFunctionOnSet(kept, Samples)
    BY <1>3, <1>5, <1>9
  <2>2. /\ value \in Samples /\ kept[value] > 0 /\ a \in HistogramBins
        /\ a \in reached /\ bin = a
        /\ goal > 100 * (UpTo(a) - binned[a])
    <3>1. value = Min({v \in Samples :
                         SumFunctionOnSet(kept, Upto(Samples, v)) >= (goal + 99) \div 100})
      BY DEF SmallestKept, Upto
    <3> HIDE DEF value
    <3>2. /\ \A b \in reached :
               b \in 0..(NumBins - 1) /\ 100 * SumFunctionOnSet(binned, 0..b) >= goal
          /\ \A b \in 0..(NumBins - 1) :
               binned[b] > 0 /\ 100 * SumFunctionOnSet(binned, 0..b) >= goal => b \in reached
      BY DEF UpTo, HistogramBins
    <3> HIDE DEF reached
    <3>3. /\ value \in Samples /\ kept[value] > 0
          /\ BinsOfSamples[value] \in 0..(NumBins - 1)
          /\ BinsOfSamples[value] \in reached /\ bin = BinsOfSamples[value]
          /\ 100 * SumFunctionOnSet(binned, 0..(BinsOfSamples[value] - 1)) < goal
      BY ONLY <1>1, <2>1, <3>1, <3>2, TallyStop
    <3>4. BinsOfSamples[value] = a BY <3>3 DEF BinsOfSamples
    <3>5. a \in HistogramBins BY <3>3, <3>4 DEF HistogramBins
    <3> HIDE DEF a
    <3>6. UpTo(a) - binned[a] = SumFunctionOnSet(binned, 0..(a - 1)) BY <3>5, RankUpTo
    <3>7. 100 * (UpTo(a) - binned[a]) < goal /\ UpTo(a) - binned[a] \in Nat
      BY <3>3, <3>4, <3>5, <3>6, RankUpTo
    <3>8. goal > 100 * (UpTo(a) - binned[a]) BY <3>7
    <3> HIDE DEF bin
    <3> QED BY <3>3, <3>4, <3>5, <3>8
  <2> HIDE DEF value, reached
  <2>3. /\ UpTo(a) \in Nat /\ binned[a] \in Nat /\ UpTo(a) - binned[a] \in Nat
        /\ 100 * UpTo(a) >= goal
    BY <2>2, RankUpTo DEF reached
  <2>4. atEnd <=> goal % 100 = 0 /\ 100 * UpTo(a) <= goal
    <3>1. BinsOfSamples[value] = a /\ \A v \in Samples : BinsOfSamples[v] = BinOf(v)
      BY <2>2 DEF BinsOfSamples
    <3>2. (\A v \in Samples : kept[v] > 0 /\ BinsOfSamples[v] = a =>
             100 * SumFunctionOnSet(kept, Upto(Samples, v)) <= goal)
          <=> 100 * SumFunctionOnSet(binned, 0..a) <= goal
      <4> HIDE DEF a
      <4> QED BY <1>1, <2>1, <2>2, <3>1, BinEnds
    <3>3. (\A v \in Samples : kept[v] > 0 /\ BinOf(v) = a =>
             100 * SumFunctionOnSet(kept, {u \in Samples : u <= v}) <= goal)
          <=> 100 * UpTo(a) <= goal
      BY <3>1, <3>2 DEF UpTo, Upto
    <3> QED BY <3>3
  <2>11. inBin = binned[a]
    <3>1. \A v \in Samples : BinsOfSamples[v] = BinOf(v) BY DEF BinsOfSamples
    <3>2. a \in 0..(NumBins - 1) BY <2>2 DEF HistogramBins
    <3> HIDE DEF a
    <3>3. binned[a] = SumFunctionOnSet(kept, {v \in Samples : BinsOfSamples[v] = a})
      BY <1>1, <3>2 DEF Tally
    <3>4. {v \in Samples : BinsOfSamples[v] = a} = {v \in Samples : BinOf(v) = a} BY <3>1
    <3> QED BY <3>3, <3>4 DEF a
  <2> HIDE DEF atEnd, a, inBin
  <2>5. atEnd <=> excess = 100 * binned[a]
    <3> DEFINE u == UpTo(a)
               c == binned[a]
    <3>1. u \in Nat /\ c \in Nat /\ 100 * u >= goal /\ excess = goal - 100 * (u - c)
      BY <2>2, <2>3
    <3>2. atEnd <=> goal % 100 = 0 /\ 100 * u <= goal BY <2>4
    <3> HIDE DEF u, c, excess
    <3>3. excess = 100 * c <=> goal = 100 * u BY <2>1, <3>1
    <3>4. goal = 100 * u => goal % 100 = 0 BY <3>1
    <3> QED BY <2>1, <3>1, <3>2, <3>3, <3>4 DEF c
  <2>6. excess # 0
    <3> DEFINE e == UpTo(a) - binned[a]
    <3>1. e \in Nat /\ goal > 100 * e /\ excess = goal - 100 * e BY <2>2, <2>3
    <3> HIDE DEF e, excess
    <3> QED BY <2>1, <3>1
  <2> HIDE DEF excess, bin
  <2>7. reached # {} BY <2>2
  <2>9. CASE atEnd
    <3>1. Pct(percent) = {Missing} BY <1>4, <2>2, <2>5, <2>9
    <3> QED BY <2>9, <3>1
  <2>10. CASE ~atEnd
    <3>1. Pct(percent) = IF binned[a] > 1 THEN {a, Missing} ELSE {a}
      BY <1>4, <2>2, <2>5, <2>6, <2>7, <2>10
    <3> QED BY <1>9, <2>10, <2>11, <3>1 DEF a
  <2> QED BY <2>9, <2>10
<1> QED BY <1>8, <1>9

(***************************************************************************)
(* HistogramSpec => []PercentileOfRank                                     *)
(*                                                                         *)
(* Histogram::pct() (libs/Histogram.h): it returns a number in the bin of  *)
(* the order statistic, or NaN, and each of them when the property says.   *)
(* The first bin with the rank up to itself is the bin of the value, as    *)
(* the bins end with values; what is left over from the bins before is     *)
(* positive; and it is all of the bin if the rank is that of the last      *)
(* value in the bin.                                                       *)
(***************************************************************************)
THEOREM RankReported == HistogramSpec => []PercentileOfRank
BY HistogramInvariant, RankFollows, PTL

-----------------------------------------------------------------------------
(***************************************************************************)
(* MicroStats: the bins of the values that lie in the array and whose      *)
(* offset fits an int, for any of the shifts.  The values below 2^NDB have *)
(* bins of their own; otherwise the value is q times 2^d and a rest, with  *)
(* q of NDB + 1 bits.                                                      *)
(***************************************************************************)
FittingValues == {v \in Nat : v < 2^(IntBits + 1) /\ v < 2^(LongBits - 1)}

InPart(v, d, q) ==
  /\ d \in Nat /\ q \in Nat /\ q < 2 * 2^NDB /\ (2^NDB <= q \/ d = 0)
  /\ q * 2^d <= v /\ v < (q + 1) * 2^d
  /\ CalcBin(v) = q + d * 2^NDB
  /\ \A s \in Shifters :
       CalcRange(s, CalcBin(v)) = [from |-> q * 2^d, to |-> (q + 1) * 2^d - 1]

LEMMA StatsWidths ==
  /\ NDB \in Nat /\ IntBits \in Nat /\ LongBits \in Nat /\ NDB < IntBits /\ IntBits < LongBits
  /\ 2^NDB \in Nat /\ 2^NDB > 0
  /\ NUMBINS \in Nat /\ NUMBINS = (LongBits - NDB) * 2^NDB
  /\ 2^NDB <= NUMBINS
<1>1. NDB \in Nat /\ IntBits \in Nat /\ LongBits \in Nat /\ NDB < IntBits /\ IntBits < LongBits
  BY WidthsAssumption
<1> DEFINE P == 2^NDB
           w == LongBits - NDB
<1>2. P \in Nat /\ P > 0 BY <1>1, PowerIsSubsets
<1>3. w \in Nat /\ 1 <= w BY <1>1
<1>4. NUMBINS = w * P BY DEF NUMBINS
<1> HIDE DEF P, w
<1>5. 1 * P <= w * P /\ w * P \in Nat BY <1>2, <1>3, MonotoneProduct
<1> QED BY <1>1, <1>2, <1>4, <1>5 DEF P, w

\* The offset of a bin, shifted in an int.
LEMMA OffsetFits ==
  ASSUME NEW s \in Shifters, NEW r \in Nat, r < 2^NDB, NEW d \in Nat, NDB + d <= IntBits
  PROVE  ShiftInt(s, r, d) = r * 2^d
<1>1. NDB \in Nat /\ IntBits \in Nat /\ NDB < IntBits BY StatsWidths
<1> DEFINE P == 2^NDB
           D == 2^d
           M == 2^IntBits
<1>2. P \in Nat /\ D \in Nat /\ D > 0 /\ M \in Nat /\ M > 0 BY <1>1, PowerIsSubsets
<1>3. r * D < M
  <2>1. r * D + D <= P * D
    <3> HIDE DEF P, D
    <3> QED BY <1>2, MonotoneProduct DEF P
  <2>2. P * D = 2^(NDB + d) BY <1>1, PowerOfSum
  <2>3. 2^(NDB + d) <= M
    <3>1. NDB + d \in Nat BY <1>1
    <3> QED BY <1>1, <3>1, PowersGrow
  <2> DEFINE t == r * D
             u == P * D
  <2>4. t \in Nat /\ t + D <= u /\ u <= M
    <3>1. t \in Nat
      <4> HIDE DEF D
      <4> QED BY <1>2
    <3> QED BY <2>1, <2>2, <2>3, <3>1
  <2>5. u \in Nat
    <3> HIDE DEF P, D
    <3> QED BY <1>2
  <2> HIDE DEF t, u, D, M
  <2>6. t < M BY <1>2, <2>4, <2>5
  <2> QED BY <2>6 DEF t
<1>4. r * D \in Nat
  <2> HIDE DEF D
  <2> QED BY <1>2
<1>5. (r * D) % M = r * D
  <2> DEFINE t == r * D
  <2>1. t \in Nat /\ t < M BY <1>3, <1>4
  <2> HIDE DEF t, M
  <2>2. t % M = t BY <1>2, <2>1, SmallRemainder
  <2> QED BY <2>2 DEF t
<1>6. CASE d < IntBits
  <2>1. d % IntBits = d BY <1>1, <1>6, SmallRemainder
  <2>2. ~(d >= IntBits) BY <1>1, <1>6
  <2> QED BY <1>5, <2>1, <2>2 DEF ShiftInt
<1>7. CASE ~(d < IntBits)
  <2>1. NDB = 0 BY <1>1, <1>7
  <2>2. r = 0 BY <2>1, NoPower
  <2>3. r * D = 0
    <3> HIDE DEF D
    <3> QED BY <1>2, <2>2
  <2> DEFINE E == 2^(d % IntBits)
  <2>4. E \in Nat
    <3>1. d % IntBits \in Nat BY <1>1
    <3> QED BY <3>1, PowerIsSubsets
  <2>5. (r * E) % M = 0
    <3> HIDE DEF E, M
    <3>1. r * E = 0 BY <2>2, <2>4
    <3> QED BY <1>2, <3>1, SmallRemainder
  <2> QED BY <2>3, <2>5 DEF ShiftInt
<1> QED BY <1>6, <1>7

\* The bin of a value below the top octave, which lies in the array.
BinPart(v, d, q) ==
  /\ d \in Nat /\ q \in Nat /\ q < 2 * 2^NDB /\ (2^NDB <= q \/ d = 0)
  /\ q * 2^d <= v /\ v < (q + 1) * 2^d
  /\ CalcBin(v) = q + d * 2^NDB
  /\ \/ v < 2^NDB /\ d = 0 /\ q = v
     \/ 2^NDB <= v /\ InBin(NDB, d, q, v)

LEMMA BinInArray ==
  ASSUME NEW v \in Nat, v < 2^(LongBits - 1)
  PROVE  CalcBin(v) \in Bins /\ \E d, q \in Nat : BinPart(v, d, q)
<1> DEFINE P == 2^NDB
<1>1. /\ NDB \in Nat /\ LongBits \in Nat /\ NDB < LongBits
      /\ P \in Nat /\ P > 0
      /\ NUMBINS \in Nat /\ NUMBINS = (LongBits - NDB) * P /\ P <= NUMBINS
  BY StatsWidths
<1>3. CASE v < P
  <2>1. CalcBin(v) = v /\ 2^0 = 1 BY <1>3, NoPower DEF CalcBin
  <2>2. v < 2^NDB BY <1>3
  <2> HIDE DEF P
  <2>3. v = v + 0 * P /\ v * 1 = v /\ (v + 1) * 1 = v + 1 /\ v < v + 1 /\ v < 2 * P
    BY <1>1, <1>3
  <2>4. BinPart(v, 0, v) BY <2>1, <2>2, <2>3 DEF BinPart, P
  <2>5. v \in Bins BY <1>1, <1>3 DEF Bins
  <2> QED BY <2>1, <2>4, <2>5
<1>4. CASE ~(v < P)
  <2>1. PICK d, q \in Nat : InBin(NDB, d, q, v)
    <3>1. P <= v BY <1>1, <1>4
    <3> QED BY <1>1, <3>1, SomeBin
  <2> DEFINE D == 2^d
             b == NDB + d
             r == q - P
  <2>2. P <= q /\ q < 2 * P /\ q * D <= v /\ v < (q + 1) * D BY <2>1 DEF InBin
  <2>3. D \in Nat /\ D > 0 BY PowerIsSubsets
  <2>4. b \in Nat /\ 2^b <= v /\ v < 2^(b + 1) BY <1>1, <2>1, OctaveBounds
  <2>5. r \in Nat /\ r < P BY <1>1, <2>2
  <2>6. b < LongBits - 1 /\ b < LongBits
    <3>1. LongBits - 1 \in Nat BY <1>1
    <3> HIDE DEF b
    <3>2. b < LongBits - 1 BY <2>4, <3>1, OctaveBelowWidth
    <3> QED BY <1>1, <2>4, <3>2
  <2>7. Msb(v) = b + 1
    <3> HIDE DEF b
    <3> QED BY <1>1, <2>4, <2>6, BitsOfOctave DEF Msb
  <2>8. (v \div D) % P = r BY <1>1, <2>1, NextBits
  <2>9. CalcBin(v) = (d + 1) * P + r
    <3>1. (b + 1) - NDB = d + 1 /\ (b + 1) - (NDB + 1) = d BY <1>1
    <3> QED BY <1>4, <2>7, <2>8, <3>1 DEF CalcBin
  <2>10. (d + 1) * P + r = q + d * P /\ (d + 1) * P + r \in Nat
    <3> DEFINE dP == d * P
               dP1 == (d + 1) * P
    <3>1. dP1 = dP + P /\ dP \in Nat
      <4> HIDE DEF P
      <4> QED BY <1>1
    <3> HIDE DEF P, dP, dP1
    <3>2. dP1 + r = q + dP /\ dP1 + r \in Nat BY <1>1, <2>2, <3>1
    <3> QED BY <3>2 DEF dP, dP1
  <2>11. P <= v BY <1>1, <1>4
  <2>12. BinPart(v, d, q) BY <2>1, <2>2, <2>9, <2>10, <2>11 DEF BinPart
  <2>13. q + d * P < NUMBINS
    <3>1. q + d * P < (d + 2) * P
      <4> HIDE DEF P
      <4> QED BY <1>1, <2>2
    <3>2. (d + 2) * P <= NUMBINS
      <4> DEFINE w == LongBits - NDB
      <4>1. w \in Nat /\ d + 2 <= w /\ d + 2 \in Nat BY <1>1, <2>6
      <4>2. NUMBINS = w * P BY <1>1
      <4> HIDE DEF P, w
      <4> QED BY <1>1, <4>1, <4>2, MonotoneProduct
    <3>3. (d + 2) * P \in Nat /\ q + d * P \in Nat
      <4> HIDE DEF P
      <4> QED BY <1>1
    <3> QED BY <1>1, <3>1, <3>2, <3>3
  <2>14. CalcBin(v) \in Bins
    <3>1. CalcBin(v) = q + d * P /\ CalcBin(v) \in Nat BY <2>9, <2>10
    <3> QED BY <1>1, <2>13, <3>1 DEF Bins
  <2> QED BY <2>12, <2>14
<1> QED BY <1>3, <1>4

LEMMA PartOf ==
  ASSUME NEW v \in FittingValues
  PROVE  CalcBin(v) \in Bins /\ \E d, q \in Nat : InPart(v, d, q)
<1> DEFINE P == 2^NDB
<1>1. NDB \in Nat /\ IntBits \in Nat /\ P \in Nat /\ P > 0 BY StatsWidths
<1>2. v \in Nat /\ v < 2^(IntBits + 1) /\ v < 2^(LongBits - 1) BY DEF FittingValues
<1>3. CalcBin(v) \in Bins BY <1>2, BinInArray
<1>4. PICK d, q \in Nat : BinPart(v, d, q) BY <1>2, BinInArray
<1>5. CASE v < P /\ d = 0 /\ q = v
  <2>1. CalcBin(v) = v /\ 2^d = 1 BY <1>5, NoPower DEF CalcBin
  <2>2. \A s \in Shifters : CalcRange(s, v) = [from |-> v, to |-> v] BY <1>5 DEF CalcRange
  <2>3. q * 1 = v /\ (q + 1) * 1 - 1 = v BY <1>2, <1>5
  <2>4. \A s \in Shifters :
          CalcRange(s, CalcBin(v)) = [from |-> q * 2^d, to |-> (q + 1) * 2^d - 1]
    BY <2>1, <2>2, <2>3
  <2> QED BY <1>3, <1>4, <2>4 DEF BinPart, InPart
<1>6. CASE P <= v /\ InBin(NDB, d, q, v)
  <2> DEFINE D == 2^d
             b == NDB + d
             r == q - P
  <2>1. P <= q /\ q < 2 * P BY <1>6 DEF InBin
  <2>2. D \in Nat /\ D > 0 BY PowerIsSubsets
  <2>3. b \in Nat /\ 2^b <= v /\ v < 2^(b + 1) /\ 2^b = P * D
    BY <1>1, <1>2, <1>6, OctaveBounds
  <2>4. r \in Nat /\ r < P BY <1>1, <2>1
  <2>5. b < IntBits + 1
    <3>1. IntBits + 1 \in Nat BY <1>1
    <3> HIDE DEF b
    <3> QED BY <1>2, <2>3, <3>1, OctaveBelowWidth
  <2> DEFINE bin == (d + 1) * P + r
  <2>6. CalcBin(v) = bin /\ ~(bin < P)
    <3> DEFINE dP == d * P
               dP1 == (d + 1) * P
    <3>1. dP1 = dP + P /\ dP \in Nat
      <4> HIDE DEF P
      <4> QED BY <1>1
    <3>2. CalcBin(v) = q + dP BY <1>4 DEF BinPart
    <3> HIDE DEF P, dP, dP1
    <3>3. dP1 + r = q + dP /\ ~(dP1 + r < P) BY <1>1, <2>1, <3>1
    <3> QED BY <3>2, <3>3 DEF dP1
  <2>7. ASSUME NEW s \in Shifters
        PROVE  CalcRange(s, CalcBin(v)) = [from |-> q * D, to |-> (q + 1) * D - 1]
    <3>1. bin \div P = d + 1 /\ bin % P = r
      <4>1. d + 1 \in Nat OBVIOUS
      <4> HIDE DEF P, r
      <4> QED BY <1>1, <2>4, <4>1, Quotient
    <3>2. (d + 1) + NDB = b + 1 /\ (b + 1) - 1 = b /\ (b + 1) - (NDB + 1) = d BY <1>1
    <3>3. ShiftInt(s, r, d) = r * D
      <4>1. NDB + d <= IntBits BY <1>1, <2>5
      <4> HIDE DEF r
      <4> QED BY <2>4, <4>1, OffsetFits
    <3>4. (P * D) \div P = D
      <4> HIDE DEF P, D
      <4>1. (D * P + 0) \div P = D BY <1>1, <2>2, Quotient
      <4>2. D * P + 0 = P * D BY <1>1, <2>2
      <4> QED BY <4>1, <4>2
    <3>5. CalcRange(s, bin) = [from |-> P * D + r * D, to |-> P * D + D + r * D - 1]
      <4>1. ~(bin < P) BY <2>6
      <4> HIDE DEF bin, r
      <4> QED BY <2>3, <3>1, <3>2, <3>3, <3>4, <4>1 DEF CalcRange, P
    <3>6. P * D + r * D = q * D /\ P * D + D + r * D - 1 = (q + 1) * D - 1
      <4>1. q = P + r BY <1>1, <2>1
      <4> HIDE DEF P, D, r
      <4> QED BY <1>1, <2>2, <2>4, <4>1
    <3> QED BY <2>6, <3>5, <3>6
  <2>8. InPart(v, d, q) BY <1>4, <2>7 DEF BinPart, InPart
  <2> QED BY <1>3, <2>8
<1> QED BY <1>4, <1>5, <1>6 DEF BinPart

-----------------------------------------------------------------------------
\* A bin before another ends before it starts.
LEMMA PartsInOrder ==
  ASSUME NEW u \in FittingValues, NEW v \in FittingValues, NEW s \in Shifters,
         CalcBin(u) < CalcBin(v)
  PROVE  CalcRange(s, CalcBin(u)).to < CalcRange(s, CalcBin(v)).from
<1> DEFINE P == 2^NDB
<1>1. P \in Nat /\ P > 0 /\ NDB \in Nat BY StatsWidths
<1>2. PICK d, q \in Nat : InPart(u, d, q) BY PartOf
<1>3. PICK e, p \in Nat : InPart(v, e, p) BY PartOf
<1>4. /\ q < 2 * P /\ CalcBin(u) = q + d * P
      /\ P <= q \/ d = 0
      /\ CalcRange(s, CalcBin(u)) = [from |-> q * 2^d, to |-> (q + 1) * 2^d - 1]
  BY <1>2 DEF InPart
<1>5. /\ p < 2 * P /\ CalcBin(v) = p + e * P
      /\ P <= p \/ e = 0
      /\ CalcRange(s, CalcBin(v)) = [from |-> p * 2^e, to |-> (p + 1) * 2^e - 1]
  BY <1>3 DEF InPart
<1> DEFINE D == 2^d
           E == 2^e
<1>6. D \in Nat /\ E \in Nat BY PowerIsSubsets
<1>7. q + d * P < p + e * P BY <1>4, <1>5
<1> HIDE DEF P
<1>8. d * P \in Nat /\ e * P \in Nat BY <1>1
<1>9. ~(e < d)
  <2> SUFFICES ASSUME e < d PROVE FALSE OBVIOUS
  <2>1. e * P + P <= d * P BY <1>1, MonotoneProduct
  <2> DEFINE dP == d * P
             eP == e * P
  <2>2. dP \in Nat /\ eP \in Nat /\ eP + P <= dP /\ q + dP < p + eP BY <1>7, <1>8, <2>1
  <2>3. P <= q BY <1>4
  <2> HIDE DEF dP, eP
  <2> QED BY <1>1, <1>5, <2>2, <2>3
<1>10. (q + 1) * D <= p * E
  <2>1. CASE d = e
    <3>1. q < p
      <4> DEFINE dP == d * P
      <4>1. dP \in Nat /\ q + dP < p + dP BY <1>7, <1>8, <2>1
      <4> HIDE DEF dP
      <4> QED BY <4>1
    <3>2. q + 1 \in Nat /\ q + 1 <= p BY <3>1
    <3> HIDE DEF D, E
    <3>3. (q + 1) * D <= p * D BY <1>6, <3>2, MonotoneProduct
    <3> QED BY <2>1, <3>3 DEF D, E
  <2>2. CASE d # e
    <3>1. d + 1 \in Nat /\ d + 1 <= e /\ e # 0 BY <1>9, <2>2
    <3>2. 2^(d + 1) = 2 * D BY NextPower
    <3>3. 2^(d + 1) <= E BY <3>1, PowersGrow
    <3>4. P <= p BY <1>5, <3>1
    <3>5. q + 1 \in Nat /\ q + 1 <= 2 * P /\ 2 * P \in Nat BY <1>1, <1>4
    <3>6. 2 * D <= E BY <3>2, <3>3
    <3> HIDE DEF D, E
    <3>7. (q + 1) * D <= (2 * P) * D BY <1>6, <3>5, MonotoneProduct
    <3>8. (2 * P) * D = (2 * D) * P BY <1>1, <1>6
    <3>9. 2 * D \in Nat /\ (2 * D) * P <= E * P BY <1>1, <1>6, <3>6, MonotoneProduct
    <3>10. P * E <= p * E BY <1>1, <1>6, <3>4, MonotoneProduct
    <3>11. E * P = P * E /\ P * E \in Nat /\ (q + 1) * D \in Nat /\ p * E \in Nat
           /\ (2 * D) * P \in Nat
      BY <1>1, <1>6, <3>5
    <3> QED BY <3>7, <3>8, <3>9, <3>10, <3>11
  <2> QED BY <2>1, <2>2
<1>11. (q + 1) * D - 1 < p * E
  <2> DEFINE t == (q + 1) * D
             f == p * E
  <2>1. t \in Nat /\ f \in Nat /\ t <= f
    <3>1. t \in Nat /\ f \in Nat
      <4> HIDE DEF D, E
      <4> QED BY <1>6
    <3> QED BY <1>10, <3>1
  <2> HIDE DEF t, f
  <2>2. t - 1 < f BY <2>1
  <2> QED BY <2>2 DEF t, f
<1> QED BY <1>4, <1>5, <1>11

\* The value lies in the range of its bin, and the range is narrow.
LEMMA PartIsNarrow ==
  ASSUME NEW v \in FittingValues, NEW s \in Shifters
  PROVE  LET r == CalcRange(s, CalcBin(v))
         IN  /\ r.from \in Nat /\ r.to \in Nat
             /\ r.from <= v /\ v <= r.to
             /\ (r.to - r.from) * 2^NDB <= r.from
<1> DEFINE P == 2^NDB
<1>1. P \in Nat /\ P > 0 BY StatsWidths
<1>2. PICK d, q \in Nat : InPart(v, d, q) BY PartOf
<1> DEFINE D == 2^d
<1>3. /\ P <= q \/ d = 0
      /\ q * D <= v /\ v < (q + 1) * D
      /\ CalcRange(s, CalcBin(v)) = [from |-> q * D, to |-> (q + 1) * D - 1]
  BY <1>2 DEF InPart
<1>4. D \in Nat /\ D > 0 /\ (d = 0 => D = 1) BY PowerIsSubsets, NoPower
<1>5. v \in Nat BY DEF FittingValues
<1> HIDE DEF D, P
<1>6. q * D \in Nat /\ (q + 1) * D = q * D + D BY <1>4
<1> DEFINE f == q * D
           t == (q + 1) * D - 1
<1>7. f \in Nat /\ t = f + D - 1 /\ f <= v /\ v < f + D
  <2> DEFINE g == (q + 1) * D
  <2>1. f \in Nat /\ g = f + D /\ t = g - 1 /\ f <= v /\ v < g BY <1>3, <1>6
  <2> HIDE DEF f, g, t
  <2> QED BY <1>4, <2>1
<1>8. (D - 1) * P <= f
  <2>1. CASE d = 0
    <3>1. (D - 1) * P = 0 BY <1>1, <1>4, <2>1
    <3> HIDE DEF f
    <3> QED BY <1>7, <3>1
  <2>2. CASE P <= q
    <3>1. P * D <= q * D BY <1>1, <1>4, <2>2, MonotoneProduct
    <3>2. (D - 1) * P = P * D - P /\ P * D \in Nat BY <1>1, <1>4
    <3> QED BY <1>1, <1>6, <3>1, <3>2
  <2> QED BY <1>3, <2>1, <2>2
<1> HIDE DEF f, t
<1>9. t \in Nat /\ v <= t /\ t - f = D - 1 BY <1>4, <1>5, <1>7
<1>10. CalcRange(s, CalcBin(v)) = [from |-> f, to |-> t] BY <1>3 DEF f, t
<1> QED BY <1>7, <1>8, <1>9, <1>10 DEF P

-----------------------------------------------------------------------------
BinsOfValues == [v \in Values |-> CalcBin(v)]

Fits == Values \subseteq FittingValues

StatsInv ==
  /\ \E s \in Shifters : ranges = [b \in Bins |-> CalcRange(s, b)]
  /\ Tally(Values, added, NUMBINS, BinsOfValues, counts)
  /\ totalcount = SumFunctionOnSet(added, Values) /\ totalcount \in 0..MaxAdds

LEMMA ValuesFinite == Values \in SUBSET Nat /\ IsFiniteSet(Values)
<1> DEFINE M == 2^LongBits
<1>1. M \in Nat BY StatsWidths, PowerIsSubsets
<1>2. Values \in SUBSET (0..(M - 1)) BY ValuesAssumption
<1> HIDE DEF M
<1>3. 0 \in Int /\ M - 1 \in Int BY <1>1
<1>4. IsFiniteSet(0..(M - 1)) BY <1>3, FS_Interval
<1>5. IsFiniteSet(Values) BY <1>2, <1>4, FS_Subset
<1>6. Values \in SUBSET Nat BY <1>1, <1>2
<1> QED BY <1>5, <1>6

LEMMA ValuesInBins ==
  ASSUME Fits
  PROVE  /\ BinsOfValues \in [Values -> 0..(NUMBINS - 1)]
         /\ \A u, v \in Values : u <= v => BinsOfValues[u] <= BinsOfValues[v]
<1>1. \A v \in Values : v \in FittingValues /\ v \in Nat BY DEF Fits, FittingValues
<1>2. \A v \in Values : CalcBin(v) \in 0..(NUMBINS - 1) BY <1>1, PartOf DEF Bins
<1>3. ASSUME NEW u \in Values, NEW v \in Values, u <= v PROVE CalcBin(u) <= CalcBin(v)
  <2> SUFFICES ASSUME CalcBin(v) < CalcBin(u) PROVE FALSE
    <3>1. CalcBin(u) \in Int /\ CalcBin(v) \in Int BY <1>2, StatsWidths
    <3> QED BY <3>1
  <2>1. PICK s \in Shifters : TRUE BY ShiftersAssumption
  <2> DEFINE r == CalcRange(s, CalcBin(u))
             t == CalcRange(s, CalcBin(v))
  <2>2. t.to < r.from BY <1>1, PartsInOrder
  <2>3. r.from \in Nat /\ r.from <= u /\ t.to \in Nat /\ v <= t.to BY <1>1, PartIsNarrow
  <2> HIDE DEF r, t
  <2> QED BY <1>1, <1>3, <2>2, <2>3
<1> QED BY <1>2, <1>3 DEF BinsOfValues

LEMMA StatsNone ==
  ASSUME Fits
  PROVE  LET none == [v \in Values |-> 0]
         IN  /\ Tally(Values, none, NUMBINS, BinsOfValues, NoCounts)
             /\ SumFunctionOnSet(none, Values) = 0
<1> DEFINE none == [v \in Values |-> 0]
<1>1. none \in [Values -> Nat] /\ \A v \in Values : none[v] = 0 OBVIOUS
<1>2. NoCounts \in [0..(NUMBINS - 1) -> Nat]
      /\ \A b \in 0..(NUMBINS - 1) : NoCounts[b] = 0
  BY DEF NoCounts, Bins
<1>3. NUMBINS \in Nat BY StatsWidths
<1> HIDE DEF none
<1>4. /\ Tally(Values, none, NUMBINS, BinsOfValues, NoCounts)
      /\ SumFunctionOnSet(none, Values) = 0
  BY <1>1, <1>2, <1>3, ValuesFinite, ValuesInBins, TallyOfNone
<1> QED BY <1>4 DEF none

LEMMA StatsAdd ==
  ASSUME Fits, StatsInv, NEW value \in Values, Add(value)
  PROVE  StatsInv'
<1>1. PICK f, g, c, e, m : f = added /\ g = added' /\ c = counts /\ e = counts' /\ m = totalcount
  OBVIOUS
<1>2. Tally(Values, f, NUMBINS, BinsOfValues, c) BY <1>1 DEF StatsInv
<1>3. f \in [Values -> Nat] /\ c \in [0..(NUMBINS - 1) -> Nat] BY <1>2 DEF Tally
<1>4. /\ e = [b \in Bins |-> IF b = CalcBin(value) THEN (c[b] + 1) % 2^IntBits ELSE c[b]]
      /\ g = [f EXCEPT ![value] = @ + 1]
      /\ m < MaxAdds /\ totalcount' = m + 1 /\ UNCHANGED ranges
  BY <1>1 DEF Add
<1>5. m = SumFunctionOnSet(f, Values) /\ m \in 0..MaxAdds BY <1>1 DEF StatsInv
<1>6. BinsOfValues[value] = CalcBin(value) /\ CalcBin(value) \in Bins
  BY PartOf DEF BinsOfValues, Fits
<1>7. Bins = 0..(NUMBINS - 1) BY DEF Bins
<1>8. OneMore(Values, f, value, g) BY <1>3, <1>4 DEF OneMore
<1>9. (c[CalcBin(value)] + 1) % 2^IntBits = c[CalcBin(value)] + 1
  <2> DEFINE k == c[CalcBin(value)]
             M == 2^IntBits
  <2>1. k \in Nat /\ k <= m BY <1>2, <1>5, <1>6, <1>7, TallyCount
  <2>2. M \in Nat
    <3>1. IntBits \in Nat BY StatsWidths
    <3> QED BY <3>1, PowerIsSubsets
  <2>3. MaxAdds \in 1..(M - 1) BY MaxAddsAssumption
  <2> HIDE DEF k, M
  <2>4. k + 1 \in Nat /\ k + 1 < M BY <1>4, <1>5, <2>1, <2>2, <2>3
  <2>5. (k + 1) % M = k + 1 BY <2>2, <2>4, SmallRemainder
  <2> QED BY <2>5 DEF k, M
<1>10. OneMore(0..(NUMBINS - 1), c, BinsOfValues[value], e)
  <2>1. e = [b \in Bins |-> IF b = CalcBin(value) THEN c[b] + 1 ELSE c[b]] BY <1>4, <1>9
  <2> QED BY <1>3, <1>6, <1>7, <2>1 DEF OneMore
<1>11. Tally(Values, g, NUMBINS, BinsOfValues, e)
  <2>1. value \in Values OBVIOUS
  <2> QED BY ONLY <1>2, <1>8, <1>10, <2>1, TallyMore
<1>12. SumFunctionOnSet(g, Values) = m + 1
  <2>1. g[value] = f[value] + 1 /\ \A u \in Values : u # value => g[u] = f[u]
    BY <1>8 DEF OneMore
  <2>2. value \in Values /\ Values \in SUBSET Values OBVIOUS
  <2>3. f \in [Values -> Nat] BY <1>3
  <2>5. IsFiniteSet(Values) BY ValuesFinite
  <2>4. SumFunctionOnSet(g, Values) =
          SumFunctionOnSet(f, Values) + (IF value \in Values THEN 1 ELSE 0)
    BY ONLY <2>1, <2>2, <2>3, <2>5, SumOfOneMore
  <2> QED BY <1>5, <2>4
<1>13. MaxAdds \in Nat
  <2>1. IntBits \in Nat BY StatsWidths
  <2>2. 2^IntBits \in Nat BY <2>1, PowerIsSubsets
  <2> QED BY <2>2, MaxAddsAssumption
<1>14. totalcount' = SumFunctionOnSet(g, Values) /\ totalcount' \in 0..MaxAdds
  BY <1>4, <1>5, <1>12, <1>13
<1>15. PICK s \in Shifters : ranges = [b \in Bins |-> CalcRange(s, b)] BY DEF StatsInv
<1>16. ranges' = [b \in Bins |-> CalcRange(s, b)] BY <1>4, <1>15
<1>17. Tally(Values, added', NUMBINS, BinsOfValues, counts') BY <1>1, <1>11
<1> QED BY <1>1, <1>14, <1>16, <1>17 DEF StatsInv, Tally, BinsOfValues, CalcBin

-----------------------------------------------------------------------------
LEMMA StatsInvariant ==
  ASSUME Fits
  PROVE  Spec => []StatsInv
<1>1. MaxAdds \in Nat /\ 0 \in 0..MaxAdds
  <2>1. 2^IntBits \in Nat BY StatsWidths, PowerIsSubsets
  <2>2. MaxAdds \in Nat BY <2>1, MaxAddsAssumption
  <2> QED BY <2>2
<1>2. StatsInit => StatsInv
  BY <1>1, StatsNone DEF StatsInit, StatsInv
<1>3. StatsInv /\ [StatsNext]_statsVars => StatsInv'
  <2> SUFFICES ASSUME StatsInv, [StatsNext]_statsVars PROVE StatsInv' OBVIOUS
  <2>1. CASE \E v \in Values : Add(v) BY <2>1, StatsAdd
  <2>2. CASE Clear
    <3>1. PICK s \in Shifters : ranges = [b \in Bins |-> CalcRange(s, b)] BY DEF StatsInv
    <3>2. /\ counts' = NoCounts /\ totalcount' = 0 /\ added' = [v \in Values |-> 0]
          /\ ranges' = [b \in Bins |-> CalcRange(s, b)]
      BY <2>2, <3>1 DEF Clear
    <3>3. Tally(Values, added', NUMBINS, BinsOfValues, counts')
          /\ SumFunctionOnSet(added', Values) = 0
      BY <3>2, StatsNone
    <3> QED BY <1>1, <3>2, <3>3 DEF StatsInv, Tally, BinsOfValues, CalcBin
  <2>3. CASE UNCHANGED statsVars
    BY <2>3 DEF statsVars, StatsInv, Tally, BinsOfValues, CalcBin
  <2> QED BY <2>1, <2>2, <2>3 DEF StatsNext
<1> QED BY <1>2, <1>3, PTL DEF Spec

-----------------------------------------------------------------------------
(***************************************************************************)
(* percentile(): where it stops, and what it makes of the bin.             *)
(***************************************************************************)
\* A percentile as a point of a range: rank e of the h ranks of the bin.
LEMMA Interpolated ==
  ASSUME NEW from \in Nat, NEW to \in Nat, from <= to, NEW e \in Nat, NEW h \in Nat, e <= h
  PROVE  /\ to * e + from * (h - e) = from * h + (to - from) * e
         /\ from * h <= to * e + from * (h - e)
         /\ to * e + from * (h - e) <= to * h
<1> DEFINE w == to - from
           k == h - e
<1>1. w \in Nat /\ to = from + w /\ k \in Nat /\ h = e + k OBVIOUS
<1> HIDE DEF w, k
<1>2. to * e + from * k = from * h + w * e BY <1>1
<1>3. w * e \in Nat /\ from * h \in Nat /\ w * k \in Nat BY <1>1
<1>4. to * h = (from * h + w * e) + w * k BY <1>1
<1>5. from * h <= from * h + w * e /\ from * h + w * e <= to * h BY <1>3, <1>4
<1> QED BY <1>2, <1>5 DEF w, k

\* A number of the range is as close to every other as the range is narrow.
LEMMA CloseInRange ==
  ASSUME NEW from \in Nat, NEW to \in Nat, NEW x \in Nat, from <= x, x <= to,
         NEW P \in Nat, (to - from) * P <= from,
         NEW h \in Nat, NEW amount \in Nat, from * h <= amount, amount <= to * h
  PROVE  (amount - x * h) * P <= x * h /\ (x * h - amount) * P <= x * h
<1> DEFINE w == to - from
           u == w * h
<1>1. w \in Nat /\ to = from + w BY SMT
<1>2. w * P <= from OBVIOUS
<1> HIDE DEF w
<1>3. u \in Nat /\ w * P \in Nat BY <1>1
<1>4. from * h <= x * h /\ x * h <= to * h /\ from * h \in Nat /\ x * h \in Nat
  BY MonotoneProduct
<1>5. to * h = from * h + u BY <1>1
<1>6. u * P <= from * h
  <2>1. (w * P) * h <= from * h BY <1>2, <1>3, MonotoneProduct
  <2>2. u * P = (w * P) * h BY <1>1
  <2> QED BY <2>1, <2>2
<1> HIDE DEF u
<1>7. ASSUME NEW y \in Int, y <= u PROVE y * P <= x * h
  <2>1. y * P <= u * P
    <3> DEFINE z == u - y
    <3>1. z \in Nat /\ u = y + z BY <1>3, <1>7
    <3> HIDE DEF z
    <3>2. u * P = y * P + z * P /\ z * P \in Nat BY <3>1
    <3>3. y * P \in Int OBVIOUS
    <3> QED BY <3>2, <3>3
  <2>2. y * P \in Int /\ u * P \in Nat BY <1>3
  <2> QED BY <1>4, <1>6, <2>1, <2>2
<1> DEFINE xh == x * h
           fh == from * h
<1>8. xh \in Nat /\ fh \in Nat /\ fh <= xh /\ xh <= fh + u /\ fh <= amount /\ amount <= fh + u
  BY <1>4, <1>5
<1> HIDE DEF xh, fh
<1>9. amount - xh \in Int /\ amount - xh <= u /\ xh - amount \in Int /\ xh - amount <= u BY <1>3, <1>8
<1> QED BY <1>7, <1>9 DEF xh

LEMMA BelowIs ==
  ASSUME Fits, StatsInv, NEW b \in Bins
  PROVE  /\ Below(b) = SumFunctionOnSet(counts, 0..(b - 1)) /\ Below(b) \in Nat
         /\ counts[b] \in Nat
         /\ Below(b) + counts[b] = SumFunctionOnSet(counts, 0..b)
<1>1. Tally(Values, added, NUMBINS, BinsOfValues, counts) BY DEF StatsInv
<1>2. b \in 0..(NUMBINS - 1) BY DEF Bins
<1> QED BY <1>1, <1>2, TallyRank DEF Below

LEMMA ReachedIs ==
  ASSUME Fits, StatsInv, NEW goal \in Nat
  PROVE  /\ Reached(goal) = {b \in Bins : 100 * SumFunctionOnSet(counts, 0..b) >= goal}
         /\ IsFiniteSet(Reached(goal)) /\ Reached(goal) \in SUBSET Nat
<1>1. Reached(goal) = {b \in Bins : 100 * SumFunctionOnSet(counts, 0..b) >= goal}
  BY BelowIs DEF Reached
<1>2. Reached(goal) \in SUBSET Bins BY DEF Reached
<1>3. NUMBINS \in Nat BY StatsWidths
<1>4. 0 \in Int /\ NUMBINS - 1 \in Int BY <1>3
<1>5. IsFiniteSet(Bins) /\ Bins \in SUBSET Nat BY <1>3, <1>4, FS_Interval DEF Bins
<1> QED BY <1>1, <1>2, <1>5, FS_Subset

\* The bin of a percentile other than 0 is that of the order statistic.
LEMMA StopAtRanked ==
  ASSUME Fits, StatsInv, NEW goal \in Nat \ {0}, goal <= 100 * totalcount,
         NEW x, x = Ranked((goal + 99) \div 100)
  PROVE  /\ x \in Values /\ CalcBin(x) \in Reached(goal)
         /\ Min(Reached(goal)) = CalcBin(x)
         /\ counts[CalcBin(x)] > 0
         /\ 100 * Below(CalcBin(x)) < goal
         /\ goal <= 100 * (Below(CalcBin(x)) + counts[CalcBin(x)])
<1>1. Tally(Values, added, NUMBINS, BinsOfValues, counts) BY DEF StatsInv
<1> DEFINE reached == Reached(goal)
<1>2. goal \in Nat \ {0} /\ goal <= 100 * SumFunctionOnSet(added, Values) BY DEF StatsInv
<1>3. x = Min({v \in Values :
                 SumFunctionOnSet(added, Upto(Values, v)) >= (goal + 99) \div 100})
  BY DEF Ranked, Upto
<1>4. reached = {b \in Bins : 100 * SumFunctionOnSet(counts, 0..b) >= goal} BY ReachedIs
<1> HIDE DEF reached
<1>5. /\ \A b \in reached :
           b \in 0..(NUMBINS - 1) /\ 100 * SumFunctionOnSet(counts, 0..b) >= goal
      /\ \A b \in 0..(NUMBINS - 1) :
           counts[b] > 0 /\ 100 * SumFunctionOnSet(counts, 0..b) >= goal => b \in reached
  BY <1>4 DEF Bins
<1>6. /\ x \in Values /\ BinsOfValues[x] \in 0..(NUMBINS - 1) /\ counts[BinsOfValues[x]] > 0
      /\ BinsOfValues[x] \in reached /\ Min(reached) = BinsOfValues[x]
      /\ 100 * SumFunctionOnSet(counts, 0..(BinsOfValues[x] - 1)) < goal
      /\ goal <= 100 * SumFunctionOnSet(counts, 0..BinsOfValues[x])
  BY ONLY <1>1, <1>2, <1>3, <1>5, TallyStop
<1>7. BinsOfValues[x] = CalcBin(x) BY <1>6 DEF BinsOfValues
<1>8. CalcBin(x) \in Bins BY <1>6, <1>7 DEF Bins
<1> DEFINE a == CalcBin(x)
<1> HIDE DEF a
<1>9. /\ Below(a) = SumFunctionOnSet(counts, 0..(a - 1))
      /\ Below(a) + counts[a] = SumFunctionOnSet(counts, 0..a)
  BY <1>8, BelowIs DEF a
<1>10. a = CalcBin(x) BY DEF a
<1>11. x \in Values /\ a \in reached /\ Min(reached) = a /\ counts[a] > 0
  BY <1>6, <1>7, <1>10
<1>12. 100 * Below(a) < goal BY <1>6, <1>7, <1>9, <1>10
<1>13. goal <= 100 * (Below(a) + counts[a]) BY <1>6, <1>7, <1>9, <1>10
<1> QED BY <1>11, <1>12, <1>13 DEF reached, a

-----------------------------------------------------------------------------
\* What a bin with values makes of a rank in it.
LEMMA WithinBin ==
  ASSUME Fits, StatsInv, NEW goal \in Nat, NEW v \in FittingValues, NEW a, a = CalcBin(v),
         100 * Below(a) <= goal, goal <= 100 * (Below(a) + counts[a]), counts[a] > 0
  PROVE  LET r == ranges[a]
             h == 100 * counts[a]
             e == goal - 100 * Below(a)
             p == Within(a, goal)
         IN  /\ r.from \in Nat /\ r.to \in Nat /\ r.from <= v /\ v <= r.to
             /\ (r.to - r.from) * 2^NDB <= r.from
             /\ e \in Nat /\ h \in Nat \ {0} /\ e <= h
             /\ p = [num |-> r.from * h + (r.to - r.from) * e, den |-> h]
             /\ p.num \in Nat /\ r.from * h <= p.num /\ p.num <= r.to * h
<1> DEFINE r == ranges[a]
           h == 100 * counts[a]
           e == goal - 100 * Below(a)
           p == Within(a, goal)
<1>1. a \in Bins BY PartOf
<1>2. PICK s \in Shifters : ranges = [b \in Bins |-> CalcRange(s, b)] BY DEF StatsInv
<1>3. r = CalcRange(s, CalcBin(v)) BY <1>1, <1>2
<1>4. /\ r.from \in Nat /\ r.to \in Nat /\ r.from <= v /\ v <= r.to
      /\ (r.to - r.from) * 2^NDB <= r.from
  BY <1>3, PartIsNarrow
<1>5. v \in Nat BY DEF FittingValues
<1>6. e \in Nat /\ h \in Nat \ {0} /\ e <= h
  <2> DEFINE b == Below(a)
             c == counts[a]
  <2>1. b \in Nat /\ c \in Nat /\ c > 0 /\ 100 * b <= goal /\ goal <= 100 * (b + c)
    BY <1>1, BelowIs
  <2> HIDE DEF b, c
  <2>2. goal - 100 * b \in Nat /\ 100 * c \in Nat \ {0} /\ goal - 100 * b <= 100 * c BY <2>1
  <2> QED BY <2>2 DEF b, c
<1>7. p = [num |-> r.to * e + r.from * (h - e), den |-> h]
  <2>1. counts[a] # 0 BY <1>1, BelowIs
  <2> QED BY <2>1 DEF Within
<1>8. ~(counts[a] = 0) BY <1>1, BelowIs
<1> DEFINE from == r.from
           to == r.to
<1>9. from \in Nat /\ to \in Nat /\ from <= to BY <1>4, <1>5
<1>10. p = [num |-> to * e + from * (h - e), den |-> h] BY <1>7
<1> HIDE DEF r, h, e, p, from, to
<1>11. /\ to * e + from * (h - e) = from * h + (to - from) * e
       /\ from * h <= to * e + from * (h - e)
       /\ to * e + from * (h - e) <= to * h
  BY <1>6, <1>9, Interpolated
<1> DEFINE n == to * e + from * (h - e)
<1>12. n \in Nat
  <2>1. h - e \in Nat BY <1>6
  <2> QED BY <1>6, <1>9, <2>1
<1>13. p = [num |-> n, den |-> h] /\ p.num = n BY <1>10
<1> HIDE DEF n
<1>14. /\ p = [num |-> from * h + (to - from) * e, den |-> h]
       /\ p.num \in Nat /\ from * h <= p.num /\ p.num <= to * h
  BY <1>11, <1>12, <1>13 DEF n
<1> QED BY <1>4, <1>6, <1>14 DEF r, h, e, p, from, to

LEMMA GoalInReach ==
  ASSUME Fits, StatsInv, NEW pct \in Percents
  PROVE  pct * totalcount \in Nat /\ pct * totalcount <= 100 * totalcount
         /\ totalcount \in Nat
<1>1. pct \in Nat /\ pct <= 100 BY PercentsAssumption
<1>2. totalcount \in Nat
  <2>1. Tally(Values, added, NUMBINS, BinsOfValues, counts)
        /\ totalcount = SumFunctionOnSet(added, Values)
    BY DEF StatsInv
  <2> QED BY <2>1, TallyTotal
<1> QED BY <1>1, <1>2, MonotoneProduct

LEMMA AccurateFollows ==
  ASSUME Fits
  PROVE  StatsInv => PercentileAccurate
<1> SUFFICES ASSUME StatsInv, NEW pct \in Percents, pct * totalcount > 0
    PROVE  LET p == Percentile(pct)
               x == Ranked((pct * totalcount + 99) \div 100)
           IN  /\ (p.num - x * p.den) * 2^NDB <= x * p.den
               /\ (x * p.den - p.num) * 2^NDB <= x * p.den
  BY DEF PercentileAccurate
<1> DEFINE goal == pct * totalcount
           x == Ranked((goal + 99) \div 100)
           a == CalcBin(x)
           p == Percentile(pct)
<1>1. goal \in Nat \ {0} /\ goal <= 100 * totalcount BY GoalInReach
<1>2. p = IF Reached(goal) = {} THEN [num |-> -1, den |-> 1]
                                ELSE Within(Min(Reached(goal)), goal)
  BY DEF Percentile
<1> SUFFICES (p.num - x * p.den) * 2^NDB <= x * p.den
             /\ (x * p.den - p.num) * 2^NDB <= x * p.den
  OBVIOUS
<1> HIDE DEF goal, p
<1>3. x = Ranked((goal + 99) \div 100) OBVIOUS
<1> HIDE DEF x
<1>4. /\ x \in Values /\ a \in Reached(goal) /\ Min(Reached(goal)) = a /\ counts[a] > 0
      /\ 100 * Below(a) < goal
      /\ goal <= 100 * (Below(a) + counts[a])
  BY <1>1, <1>3, StopAtRanked
<1>5. x \in FittingValues /\ x \in Nat BY <1>4 DEF Fits, FittingValues
<1>6. p = Within(a, goal) BY <1>2, <1>4
<1>7. a = CalcBin(x) /\ 100 * Below(a) <= goal
  <2>1. a \in Bins BY <1>4 DEF Reached
  <2>2. Below(a) \in Nat BY <2>1, BelowIs
  <2> HIDE DEF a
  <2>3. 100 * Below(a) <= goal BY <1>1, <1>4, <2>2
  <2> QED BY <2>3 DEF a
<1> HIDE DEF a
<1> DEFINE r == ranges[a]
           h == 100 * counts[a]
<1>8. /\ r.from \in Nat /\ r.to \in Nat /\ r.from <= x /\ x <= r.to
      /\ (r.to - r.from) * 2^NDB <= r.from
      /\ h \in Nat
      /\ p.den = h /\ p.num \in Nat /\ r.from * h <= p.num /\ p.num <= r.to * h
  <2>1. goal \in Nat BY <1>1
  <2> QED BY <1>4, <1>5, <1>6, <1>7, <2>1, WithinBin
<1> HIDE DEF r, h
<1>9. 2^NDB \in Nat BY StatsWidths
<1>10. (p.num - x * h) * 2^NDB <= x * h /\ (x * h - p.num) * 2^NDB <= x * h
  BY <1>5, <1>8, <1>9, CloseInRange
<1> QED BY <1>8, <1>10

LEMMA ZeroFits == 0 \in FittingValues /\ CalcBin(0) = 0
                  /\ \A s \in Shifters : CalcRange(s, 0) = [from |-> 0, to |-> 0]
<1>1. 2^(IntBits + 1) \in Nat /\ 2^(IntBits + 1) > 0
  <2>1. IntBits + 1 \in Nat BY StatsWidths
  <2> QED BY <2>1, PowerIsSubsets
<1>2. 2^(LongBits - 1) \in Nat /\ 2^(LongBits - 1) > 0
  <2>1. LongBits - 1 \in Nat BY StatsWidths
  <2> QED BY <2>1, PowerIsSubsets
<1>3. 0 < 2^NDB BY StatsWidths
<1> QED BY <1>1, <1>2, <1>3 DEF FittingValues, CalcBin, CalcRange

\* Where percentile() stops: a bin of a value, or the first one, empty.
LEMMA PercentileStops ==
  ASSUME Fits, StatsInv, totalcount > 0, NEW goal \in Nat, goal <= 100 * totalcount
  PROVE  /\ Reached(goal) # {}
         /\ \E v \in FittingValues : Min(Reached(goal)) = CalcBin(v)
         /\ LET a == Min(Reached(goal))
            IN  /\ 100 * Below(a) <= goal /\ goal <= 100 * (Below(a) + counts[a])
                /\ counts[a] > 0 \/ (a = 0 /\ counts[a] = 0)
<1>1. CASE goal # 0
  <2>1. goal \in Nat \ {0} BY <1>1
  <2> DEFINE x == Ranked((goal + 99) \div 100)
  <2>2. /\ x \in Values /\ CalcBin(x) \in Reached(goal)
        /\ Min(Reached(goal)) = CalcBin(x)
        /\ counts[CalcBin(x)] > 0
        /\ 100 * Below(CalcBin(x)) < goal
        /\ goal <= 100 * (Below(CalcBin(x)) + counts[CalcBin(x)])
    BY <2>1, StopAtRanked
  <2>3. x \in FittingValues BY <2>2 DEF Fits
  <2> DEFINE a == CalcBin(x)
  <2>4. a \in Bins BY <2>2 DEF Reached
  <2>5. Below(a) \in Nat BY <2>4, BelowIs
  <2> HIDE DEF a
  <2>6. 100 * Below(a) < goal BY <2>2 DEF a
  <2>7. 100 * Below(a) <= goal BY <2>5, <2>6
  <2> QED BY <2>2, <2>3, <2>7 DEF a
<1>2. CASE goal = 0
  <2>1. 0 \in FittingValues /\ CalcBin(0) = 0 BY ZeroFits
  <2>2. 0 \in Bins BY <2>1, PartOf
  <2>3. Below(0) = 0 /\ counts[0] \in Nat
    <3>1. Below(0) = SumFunctionOnSet(counts, 0..(0 - 1)) /\ counts[0] \in Nat
      BY <2>2, BelowIs
    <3>2. 0..(0 - 1) = {} OBVIOUS
    <3> QED BY <3>1, <3>2, SumOfNone
  <2>4. 0 \in Reached(goal) BY <1>2, <2>2, <2>3 DEF Reached
  <2>5. Reached(goal) \in SUBSET Nat /\ IsFiniteSet(Reached(goal)) BY ReachedIs
  <2>6. Min(Reached(goal)) = 0
    <3> DEFINE Hit == Reached(goal)
    <3>1. Hit \in SUBSET Int /\ Hit # {} /\ IsFiniteSet(Hit) BY <2>4, <2>5
    <3> HIDE DEF Hit
    <3>2. Min(Hit) \in Hit /\ \A k \in Hit : Min(Hit) <= k BY <3>1, LeastMember
    <3>3. Min(Hit) <= 0 /\ Min(Hit) \in Nat BY <2>4, <2>5, <3>2 DEF Hit
    <3> QED BY <3>3 DEF Hit
  <2> QED BY <1>2, <2>1, <2>3, <2>4, <2>6
<1> QED BY <1>1, <1>2

\* A higher goal is reached no earlier.
LEMMA LaterStop ==
  ASSUME Fits, StatsInv, totalcount > 0, NEW g \in Nat, NEW k \in Nat, g <= k,
         k <= 100 * totalcount
  PROVE  Min(Reached(g)) <= Min(Reached(k))
<1>1. totalcount \in Nat BY DEF StatsInv
<1>2. g <= 100 * totalcount BY <1>1
<1> DEFINE Hit == Reached(g)
           T == Reached(k)
<1>3. Hit # {} /\ T # {} BY <1>2, PercentileStops
<1>4. Hit \in SUBSET Int /\ T \in SUBSET Int /\ IsFiniteSet(Hit) /\ IsFiniteSet(T) BY ReachedIs
<1>5. T \in SUBSET Hit
  <2> SUFFICES ASSUME NEW b \in T PROVE b \in Hit OBVIOUS
  <2>1. b \in Bins /\ 100 * (Below(b) + counts[b]) >= k BY DEF Reached
  <2>2. Below(b) \in Nat /\ counts[b] \in Nat BY <2>1, BelowIs
  <2>3. 100 * (Below(b) + counts[b]) >= g BY <2>1, <2>2
  <2> QED BY <2>1, <2>3 DEF Reached
<1> HIDE DEF Hit, T
<1>6. (\A i \in Hit : Min(Hit) <= i) /\ Min(T) \in T BY <1>3, <1>4, LeastMember
<1> QED BY <1>5, <1>6 DEF Hit, T

LEMMA MonotoneFollows ==
  ASSUME Fits
  PROVE  StatsInv => PercentileMonotone
<1> SUFFICES ASSUME StatsInv, totalcount > 0, NEW u \in Percents, NEW w \in Percents, u <= w
    PROVE  Percentile(u).num * Percentile(w).den <= Percentile(w).num * Percentile(u).den
  BY DEF PercentileMonotone
<1> DEFINE g == u * totalcount
           k == w * totalcount
<1>1. g \in Nat /\ k \in Nat /\ g <= k /\ g <= 100 * totalcount /\ k <= 100 * totalcount
  <2>1. u \in Nat /\ w \in Nat /\ totalcount \in Nat BY PercentsAssumption, GoalInReach
  <2> QED BY <2>1, GoalInReach, MonotoneProduct
<1>2. /\ Percentile(u) = IF Reached(g) = {} THEN [num |-> -1, den |-> 1]
                                            ELSE Within(Min(Reached(g)), g)
      /\ Percentile(w) = IF Reached(k) = {} THEN [num |-> -1, den |-> 1]
                                            ELSE Within(Min(Reached(k)), k)
  BY DEF Percentile
<1> HIDE DEF g, k
<1> DEFINE a == Min(Reached(g))
           b == Min(Reached(k))
<1>3. /\ Reached(g) # {}
      /\ \E v \in FittingValues : a = CalcBin(v)
      /\ 100 * Below(a) <= g /\ g <= 100 * (Below(a) + counts[a])
      /\ counts[a] > 0 \/ (a = 0 /\ counts[a] = 0)
  BY <1>1, PercentileStops
<1>4. /\ Reached(k) # {}
      /\ \E v \in FittingValues : b = CalcBin(v)
      /\ 100 * Below(b) <= k /\ k <= 100 * (Below(b) + counts[b])
      /\ counts[b] > 0 \/ (b = 0 /\ counts[b] = 0)
  BY <1>1, PercentileStops
<1>5. a <= b BY <1>1, LaterStop
<1>6. Percentile(u) = Within(a, g) /\ Percentile(w) = Within(b, k) BY <1>2, <1>3, <1>4
<1> HIDE DEF a, b
<1>7. PICK v \in FittingValues : a = CalcBin(v) BY <1>3
<1>8. PICK x \in FittingValues : b = CalcBin(x) BY <1>4
<1>9. a \in Bins /\ b \in Bins BY <1>7, <1>8, PartOf
<1>10. a \in Nat /\ b \in Nat BY <1>9, StatsWidths DEF Bins
<1>11. Below(a) \in Nat /\ counts[a] \in Nat /\ Below(b) \in Nat /\ counts[b] \in Nat
  BY <1>9, BelowIs
<1>12. CASE counts[a] = 0
  <2>1. a = 0 BY <1>3, <1>11, <1>12
  <2>2. PICK s \in Shifters : ranges = [i \in Bins |-> CalcRange(s, i)] BY DEF StatsInv
  <2>3. ranges[a] = [from |-> 0, to |-> 0] BY <1>9, <2>1, <2>2, ZeroFits
  <2>4. Within(a, g) = [num |-> 0, den |-> 1]
    <3>1. (0 + 0) \div 2 = 0 OBVIOUS
    <3> QED BY <1>12, <2>3, <3>1 DEF Within
  <2>5. Within(b, k).num \in Nat /\ Within(b, k).den \in Nat
    <3>1. CASE counts[b] > 0
      <4>1. /\ Within(b, k).num \in Nat /\ 100 * counts[b] \in Nat
            /\ Within(b, k) = [num |-> ranges[b].from * (100 * counts[b])
                                         + (ranges[b].to - ranges[b].from) * (k - 100 * Below(b)),
                               den |-> 100 * counts[b]]
        BY <1>1, <1>4, <1>8, <3>1, WithinBin
      <4> QED BY <4>1
    <3>2. CASE ~(counts[b] > 0)
      <4>1. b = 0 /\ counts[b] = 0 BY <1>4, <3>2
      <4>2. Within(b, k) = [num |-> 0, den |-> 1]
        <5>1. ranges[b] = [from |-> 0, to |-> 0] BY <1>9, <2>2, <4>1, ZeroFits
        <5>2. (0 + 0) \div 2 = 0 OBVIOUS
        <5> QED BY <4>1, <5>1, <5>2 DEF Within
      <4> QED BY <4>2
    <3> QED BY <3>1, <3>2
  <2> DEFINE n == Within(b, k).num
             d == Within(b, k).den
  <2>6. 0 * d <= n * 1
    <3>1. n \in Nat /\ d \in Nat BY <2>5
    <3> HIDE DEF n, d
    <3> QED BY <3>1
  <2> QED BY <1>6, <2>4, <2>6
<1>13. CASE counts[a] > 0
  <2>1. counts[b] > 0
    <3> SUFFICES ASSUME ~(counts[b] > 0) PROVE FALSE OBVIOUS
    <3>1. b = 0 /\ counts[b] = 0 BY <1>4
    <3>2. a = b BY <1>5, <1>10, <3>1
    <3> QED BY <1>13, <3>1, <3>2
  <2> DEFINE r == ranges[a]
             t == ranges[b]
             h == 100 * counts[a]
             j == 100 * counts[b]
             e == g - 100 * Below(a)
             i == k - 100 * Below(b)
             p == Within(a, g)
             q == Within(b, k)
  <2>2. /\ r.from \in Nat /\ r.to \in Nat /\ e \in Nat /\ h \in Nat /\ r.from <= r.to
        /\ p = [num |-> r.from * h + (r.to - r.from) * e, den |-> h]
        /\ p.num \in Nat /\ p.num <= r.to * h
    <3>1. /\ r.from \in Nat /\ r.to \in Nat /\ r.from <= v /\ v <= r.to
          /\ e \in Nat /\ h \in Nat
          /\ p = [num |-> r.from * h + (r.to - r.from) * e, den |-> h]
          /\ p.num \in Nat /\ p.num <= r.to * h
      BY <1>1, <1>3, <1>7, <1>13, WithinBin
    <3>2. v \in Nat BY DEF FittingValues
    <3> DEFINE from == r.from
               to == r.to
    <3>3. from <= to
      <4>1. from \in Nat /\ to \in Nat /\ from <= v /\ v <= to BY <3>1
      <4> HIDE DEF from, to
      <4> QED BY <3>2, <4>1
    <3> HIDE DEF r, e, h, p
    <3> QED BY <3>1, <3>3
  <2>3. /\ t.from \in Nat /\ t.to \in Nat /\ i \in Nat /\ j \in Nat
        /\ q = [num |-> t.from * j + (t.to - t.from) * i, den |-> j]
        /\ q.num \in Nat /\ t.from * j <= q.num
    BY <1>1, <1>4, <1>8, <2>1, WithinBin
  <2>4. CASE a = b
    <3>1. r = t /\ h = j /\ e <= i BY <1>1, <1>11, <2>4
    <3> HIDE DEF r, t, h, j, e, i, p, q
    <3> DEFINE d == r.to - r.from
               f == r.from * h
    <3>2. d \in Nat /\ f \in Nat BY <2>2
    <3>3. p.num = f + d * e /\ q.num = f + d * i /\ p.den = h /\ q.den = h
      BY <2>2, <2>3, <3>1
    <3> HIDE DEF d, f
    <3>4. d * e <= d * i /\ d * e \in Nat /\ d * i \in Nat
      <4>1. e * d <= i * d BY <2>2, <2>3, <3>1, <3>2, MonotoneProduct
      <4> QED BY <2>2, <2>3, <3>2, <4>1
    <3>5. p.num <= q.num BY <3>2, <3>3, <3>4
    <3>6. p.num * h <= q.num * h BY <2>2, <2>3, <3>5, MonotoneProduct
    <3> QED BY <1>6, <3>3, <3>6 DEF p, q
  <2>5. CASE a # b
    <3>1. a < b BY <1>5, <1>10, <2>5
    <3>2. r.to < t.from
      <4>1. PICK s \in Shifters : ranges = [m \in Bins |-> CalcRange(s, m)] BY DEF StatsInv
      <4>2. r = CalcRange(s, CalcBin(v)) /\ t = CalcRange(s, CalcBin(x))
        BY <1>7, <1>8, <1>9, <4>1
      <4>3. CalcBin(v) < CalcBin(x) BY <1>7, <1>8, <3>1
      <4>4. CalcRange(s, CalcBin(v)).to < CalcRange(s, CalcBin(x)).from
        BY <4>3, PartsInOrder
      <4> QED BY <4>2, <4>4
    <3>3. p.den = h /\ q.den = j BY <2>2, <2>3
    <3> DEFINE y == r.to
               z == t.from
               m == p.num
               n == q.num
    <3>4. /\ y \in Nat /\ z \in Nat /\ m \in Nat /\ n \in Nat /\ h \in Nat /\ j \in Nat
          /\ y < z /\ m <= y * h /\ z * j <= n
      BY <2>2, <2>3, <3>2
    <3> HIDE DEF y, z, m, n, h, j
    <3>5. m * j <= (y * h) * j
      <4>1. y * h \in Nat BY <3>4
      <4> QED BY <3>4, <4>1, MonotoneProduct
    <3>6. (y * h) * j = y * (h * j) /\ (z * j) * h = z * (h * j) BY <3>4
    <3>7. y * (h * j) <= z * (h * j)
      <4>1. h * j \in Nat /\ y <= z BY <3>4
      <4> QED BY <3>4, <4>1, MonotoneProduct
    <3>8. (z * j) * h <= n * h
      <4>1. z * j \in Nat BY <3>4
      <4> QED BY <3>4, <4>1, MonotoneProduct
    <3>9. m * j \in Nat /\ y * (h * j) \in Nat /\ z * (h * j) \in Nat /\ n * h \in Nat
      <4>1. h * j \in Nat BY <3>4
      <4> QED BY <3>4, <4>1
    <3> DEFINE A == m * j
               B == y * (h * j)
               C == z * (h * j)
               E == n * h
    <3>10. A \in Nat /\ B \in Nat /\ C \in Nat /\ E \in Nat /\ A <= B /\ B <= C /\ C <= E
      BY <3>5, <3>6, <3>7, <3>8, <3>9
    <3>11. A <= E
      <4> HIDE DEF A, B, C, E
      <4> QED BY <3>10
    <3> QED BY <1>6, <3>3, <3>11 DEF m, n
  <2> QED BY <2>4, <2>5
<1> QED BY <1>11, <1>12, <1>13

-----------------------------------------------------------------------------
(***************************************************************************)
(* MicroStats::percentile() (libs/MicroStats.h) is off from the order      *)
(* statistic by less than a 2^NDB-th of it, if the values lie in the array *)
(* and their offsets fit an int: beyond, the ranges are not those of the   *)
(* values and the property does not hold.                                  *)
(***************************************************************************)
THEOREM PercentilesClose ==
  ASSUME Fits
  PROVE  Spec => []PercentileAccurate
BY StatsInvariant, AccurateFollows, PTL

(***************************************************************************)
(* MicroStats::percentile() (libs/MicroStats.h) of more percent is never   *)
(* less, for such values: the bins end before the next ones start, and in  *)
(* a bin the ranks are points of its range in order.                       *)
(***************************************************************************)
THEOREM PercentilesRise ==
  ASSUME Fits
  PROVE  Spec => []PercentileMonotone
BY StatsInvariant, MonotoneFollows, PTL

\* The values below the top octave, whatever their offsets are shifted to.
BelowTop == \A v \in Values : v < 2^(LongBits - 1)

CountInv ==
  /\ counts \in [Bins -> Nat]
  /\ totalcount = SumFunctionOnSet(counts, Bins) /\ totalcount \in 0..MaxAdds

LEMMA BinsFinite == IsFiniteSet(Bins)
<1>1. 0 \in Int /\ NUMBINS - 1 \in Int BY StatsWidths
<1> QED BY <1>1, FS_Interval DEF Bins

LEMMA CountInit ==
  ASSUME NEW c, c = NoCounts
  PROVE  c \in [Bins -> Nat] /\ SumFunctionOnSet(c, Bins) = 0 /\ 0 \in 0..MaxAdds
<1>1. c = [b \in Bins |-> 0] BY DEF NoCounts
<1>2. 2^IntBits \in Nat BY StatsWidths, PowerIsSubsets
<1>3. 0 \in 0..MaxAdds BY <1>2, MaxAddsAssumption
<1> QED BY <1>1, <1>3, BinsFinite, SumOfZeroes

LEMMA CountAdd ==
  ASSUME BelowTop, CountInv, NEW value \in Values, Add(value)
  PROVE  CountInv'
<1>1. PICK c, e, m : c = counts /\ e = counts' /\ m = totalcount OBVIOUS
<1>2. c \in [Bins -> Nat] /\ m = SumFunctionOnSet(c, Bins) /\ m \in 0..MaxAdds
  BY <1>1 DEF CountInv
<1>3. /\ m < MaxAdds /\ totalcount' = m + 1
      /\ e = [b \in Bins |-> IF b = CalcBin(value) THEN (c[b] + 1) % 2^IntBits ELSE c[b]]
  BY <1>1 DEF Add
<1>4. PICK a : a = CalcBin(value) OBVIOUS
<1>5. a \in Bins
  <2>1. value \in Nat BY ValuesFinite
  <2> QED BY <1>4, <2>1, BinInArray DEF BelowTop
<1>6. (c[a] + 1) % 2^IntBits = c[a] + 1
  <2> DEFINE k == c[a]
             M == 2^IntBits
  <2>1. k \in Nat BY <1>2, <1>5
  <2>2. k <= m
    <3>1. \A b \in Bins : c[b] \in Nat BY <1>2
    <3>2. /\ SumFunctionOnSet(c, Bins) = c[a] + SumFunctionOnSet(c, Bins \ {a})
          /\ SumFunctionOnSet(c, Bins \ {a}) \in Nat
      BY <1>5, <3>1, BinsFinite, SumWith
    <3> QED BY <1>2, <2>1, <3>2
  <2>3. M \in Nat BY StatsWidths, PowerIsSubsets
  <2>4. MaxAdds \in 1..(M - 1) BY MaxAddsAssumption
  <2> HIDE DEF k, M
  <2>5. k + 1 \in Nat /\ k + 1 < M BY <1>2, <1>3, <2>1, <2>2, <2>3, <2>4
  <2>6. (k + 1) % M = k + 1 BY <2>3, <2>5, SmallRemainder
  <2> QED BY <2>6 DEF k, M
<1>7. e = [b \in Bins |-> IF b = a THEN c[b] + 1 ELSE c[b]] BY <1>3, <1>4, <1>6
<1>8. e \in [Bins -> Nat] /\ e[a] = c[a] + 1 /\ \A b \in Bins : b # a => e[b] = c[b]
  BY <1>2, <1>5, <1>7
<1>9. SumFunctionOnSet(e, Bins) = m + 1
  <2>1. Bins \in SUBSET Bins /\ IsFiniteSet(Bins) BY BinsFinite
  <2>2. SumFunctionOnSet(e, Bins) = SumFunctionOnSet(c, Bins) + (IF a \in Bins THEN 1 ELSE 0)
    BY ONLY <1>2, <1>5, <1>8, <2>1, SumOfOneMore
  <2> QED BY <1>2, <1>5, <2>2
<1>10. MaxAdds \in Nat
  <2>1. 2^IntBits \in Nat BY StatsWidths, PowerIsSubsets
  <2> QED BY <2>1, MaxAddsAssumption
<1>11. m + 1 \in 0..MaxAdds BY <1>2, <1>3, <1>10
<1> QED BY <1>1, <1>3, <1>8, <1>9, <1>11 DEF CountInv, Bins, NUMBINS

(***************************************************************************)
(* MicroStats::add() (libs/MicroStats.h) counts every value below the top  *)
(* octave in a bin, so that the bins add up to the total, across every     *)
(* clear(): what is missing in the bins is only what lies past the array.  *)
(* Where the ranges of the bins are wrong does not matter to the counts.   *)
(***************************************************************************)
THEOREM ValuesCounted ==
  ASSUME BelowTop
  PROVE  Spec => []AllCounted
<1>1. StatsInit => CountInv BY CountInit DEF StatsInit, CountInv
<1>2. CountInv /\ [StatsNext]_statsVars => CountInv'
  <2> SUFFICES ASSUME CountInv, [StatsNext]_statsVars PROVE CountInv' OBVIOUS
  <2>1. CASE \E v \in Values : Add(v) BY <2>1, CountAdd
  <2>2. CASE Clear
    <3>1. counts' = NoCounts /\ totalcount' = 0 BY <2>2 DEF Clear
    <3>2. PICK e : e = counts' OBVIOUS
    <3>3. e \in [Bins -> Nat] /\ SumFunctionOnSet(e, Bins) = 0 /\ 0 \in 0..MaxAdds
      BY <3>1, <3>2, CountInit
    <3> QED BY <3>1, <3>2, <3>3 DEF CountInv, Bins, NUMBINS
  <2>3. CASE UNCHANGED statsVars BY <2>3 DEF statsVars, CountInv, Bins, NUMBINS
  <2> QED BY <2>1, <2>2, <2>3 DEF StatsNext
<1>3. CountInv => AllCounted BY DEF CountInv, AllCounted, SumFunction
<1> QED BY <1>1, <1>2, <1>3, PTL DEF Spec

(***************************************************************************)
(* The range MicroStats::init() (libs/MicroStats.h) gives to a bin holds   *)
(* every value that add() counts in it, if the values lie in the array and *)
(* their offsets fit an int, whatever the build makes of the shifts that   *)
(* are too wide: those are beyond the bins of these values.                *)
(***************************************************************************)
THEOREM ValuesInRange ==
  ASSUME Fits
  PROVE  Spec => []RangeHoldsValues
<1>1. StatsInv => RangeHoldsValues
  <2> SUFFICES ASSUME StatsInv, NEW v \in Values
               PROVE  ranges[CalcBin(v)].from <= v /\ v <= ranges[CalcBin(v)].to
    BY DEF RangeHoldsValues
  <2>1. v \in FittingValues BY DEF Fits
  <2>2. PICK s \in Shifters : ranges = [b \in Bins |-> CalcRange(s, b)] BY DEF StatsInv
  <2>3. CalcBin(v) \in Bins BY <2>1, PartOf
  <2>4. ranges[CalcBin(v)] = CalcRange(s, CalcBin(v)) BY <2>2, <2>3
  <2> QED BY <2>1, <2>4, PartIsNarrow
<1> QED BY <1>1, StatsInvariant, PTL

-----------------------------------------------------------------------------
(***************************************************************************)
(* Calibration: while nothing but steps of one core's clock was seen since *)
(* the last reset, the quantum is the least of them, or it is the first    *)
(* reading, which is no step, and less than that.                          *)
(***************************************************************************)
Cores == DOMAIN CoreOffsets
FirstFinish == StartTime + CoreOffsets[1] + WaitTicks

\* As far as the clock of 64 bits gets in nineteen years at 3 GHz; and a wait, a step
\* before it and the offset of a clock are together no longer than ten times as long
\* as the machine is up.
ClockLasts ==
  /\ 10 * FirstFinish <= 2^ClockBits
  /\ \A gap \in Gaps, c \in Cores : gap + CoreOffsets[c] + WaitTicks <= 10 * StartTime

Reading(value, c) ==
  /\ c \in Cores
  /\ StartTime < value /\ value < FirstFinish /\ value <= Clock(time, c)

ClockTypes ==
  /\ time \in Nat /\ time >= StartTime /\ onCore \in Cores
  /\ now \in Nat /\ last \in Nat /\ finish \in Nat
  /\ quantum \in Nat /\ least \in Nat /\ samples \in Nat /\ pauses \in Nat
  /\ crossed \in BOOLEAN

QuantumIsLeast ==
  /\ quantum = ClockMax \/ quantum < FirstFinish
  /\ quantum = least \/ (StartTime < quantum /\ quantum < least)

Calibrating ==
  /\ finish = FirstFinish /\ samples = 0 /\ pauses = 0
  /\ IF lastCore = NoCore THEN last = 0 ELSE Reading(last, lastCore)
  /\ phase \in {"update", "getcpu"} =>
       Reading(now, nowCore) /\ (lastCore = nowCore => last < now)

Collecting ==
  /\ phase \in {"wait", "collect"} => lastCore \in Cores
  /\ phase = "wait" => last = Clock(time, lastCore)
  /\ phase = "collect" => last <= Clock(time, lastCore) /\ last >= CoreOffsets[lastCore]
  /\ phase = "collect" /\ ~crossed => finish <= last + 10 * StartTime
  /\ ~crossed => samples = pauses

CalibrationInv ==
  /\ ClockTypes
  /\ ~crossed => QuantumIsLeast
  /\ \/ phase \in {"reading", "update", "getcpu"} /\ Calibrating
     \/ phase \in {"begin", "wait", "collect", "done"} /\ Collecting

LEMMA ClockFacts ==
  /\ 2^ClockBits \in Nat /\ 2^ClockBits > 0
  /\ ClockMax \in Nat /\ FirstFinish \in Nat /\ StartTime \in Nat
  /\ WaitTicks \in Nat /\ WaitTicks > 0
  /\ \A c \in Cores : CoreOffsets[c] \in Nat /\ c # NoCore
  /\ 1 \in Cores
  /\ \A gap \in Gaps : gap \in Nat /\ gap > 0
<1>1. 2^ClockBits \in Nat /\ 2^ClockBits > 0 BY ClockAssumption, PowerIsSubsets
<1>2. ClockMax \in Nat BY <1>1 DEF ClockMax
<1> QED BY <1>1, <1>2, ClockAssumption DEF FirstFinish, Cores, NoCore

\* Later, a reading is one still.
LEMMA StillReading ==
  ASSUME ClockTypes, NEW gap \in Nat, time' = time + gap, NEW v \in Nat, NEW c, Reading(v, c)
  PROVE  Reading(v, c)'
<1>1. c \in Cores /\ v <= time + CoreOffsets[c] /\ StartTime < v /\ v < FirstFinish
  BY DEF Reading, Clock
<1>2. CoreOffsets[c] \in Nat /\ time \in Nat BY <1>1, ClockFacts DEF ClockTypes
<1>3. v <= (time + gap) + CoreOffsets[c] BY <1>1, <1>2
<1> QED BY <1>1, <1>3 DEF Reading, Clock

LEMMA CalibrationInitial == CalibrationInit => CalibrationInv
<1> SUFFICES ASSUME CalibrationInit PROVE CalibrationInv OBVIOUS
<1>1. /\ phase = "reading" /\ time = StartTime /\ onCore = 1 /\ now = 0 /\ last = 0
      /\ finish = (StartTime + CoreOffsets[1]) + WaitTicks
      /\ quantum = ClockMax /\ least = ClockMax /\ samples = 0 /\ pauses = 0
      /\ lastCore = NoCore /\ crossed = FALSE
  BY DEF CalibrationInit, Clock
<1>2. finish = FirstFinish BY <1>1 DEF FirstFinish
<1>3. ClockTypes
  <2>1. crossed \in BOOLEAN BY <1>1
  <2>2. StartTime >= StartTime BY ClockFacts
  <2> QED BY <1>1, <1>2, <2>1, <2>2, ClockFacts DEF ClockTypes
<1>4. QuantumIsLeast BY <1>1 DEF QuantumIsLeast
<1>5. Calibrating BY <1>1, <1>2 DEF Calibrating
<1> QED BY <1>1, <1>3, <1>4, <1>5 DEF CalibrationInv

LEMMA MigrateStep == CalibrationInv /\ Migrate => CalibrationInv'
<1> SUFFICES ASSUME CalibrationInv, Migrate PROVE CalibrationInv' OBVIOUS
<1>1. /\ phase # "done" /\ onCore' \in Cores
      /\ UNCHANGED <<phase, time, now, last, finish, quantum, samples, nowCore, lastCore,
                     least, crossed, pauses>>
  BY DEF Migrate, Cores, readings, computed, facts
<1>2. ClockTypes' BY <1>1 DEF CalibrationInv, ClockTypes
<1>3. QuantumIsLeast' = QuantumIsLeast BY <1>1 DEF QuantumIsLeast
<1>4. Calibrating' = Calibrating BY <1>1 DEF Calibrating, Reading
<1>5. Collecting' = Collecting BY <1>1 DEF Collecting, Clock
<1> QED BY <1>1, <1>2, <1>3, <1>4, <1>5 DEF CalibrationInv

LEMMA ReadClockStep ==
  ASSUME CalibrationInv, NEW gap \in Gaps, ReadClock(gap)
  PROVE  CalibrationInv'
<1>1. /\ phase = "reading" /\ time' = time + gap /\ now' = (time + gap) + CoreOffsets[onCore]
      /\ now' < finish /\ nowCore' = onCore /\ phase' = "update"
      /\ UNCHANGED <<onCore, last, finish, quantum, samples, lastCore, least, crossed, pauses>>
  BY DEF ReadClock, Clock, computed
<1>2. ClockTypes /\ Calibrating /\ (~crossed => QuantumIsLeast) BY <1>1 DEF CalibrationInv
<1>3. gap \in Nat /\ gap > 0 /\ onCore \in Cores /\ CoreOffsets[onCore] \in Nat /\ StartTime \in Nat
  BY <1>2, ClockFacts DEF ClockTypes
<1>4. time \in Nat /\ StartTime <= time /\ last \in Nat /\ finish \in Nat BY <1>2 DEF ClockTypes
<1>5. now' \in Nat /\ StartTime < now' /\ time' \in Nat /\ time' >= StartTime
  BY <1>1, <1>3, <1>4
<1>6. ClockTypes' BY <1>1, <1>2, <1>5 DEF ClockTypes
<1>7. QuantumIsLeast' = QuantumIsLeast BY <1>1 DEF QuantumIsLeast
<1>8. finish = FirstFinish /\ samples = 0 /\ pauses = 0
      /\ IF lastCore = NoCore THEN last = 0 ELSE Reading(last, lastCore)
  BY <1>2 DEF Calibrating
<1>9. Reading(now, nowCore)' BY <1>1, <1>3, <1>5, <1>8 DEF Reading, Clock, Cores, FirstFinish
<1>10. lastCore # NoCore => Reading(last, lastCore)'
  <2> SUFFICES ASSUME lastCore # NoCore PROVE Reading(last, lastCore)' OBVIOUS
  <2>1. PICK v \in Nat : v = last BY <1>4
  <2>2. PICK c : c = lastCore OBVIOUS
  <2>3. Reading(v, c) BY <1>8, <2>1, <2>2
  <2>4. Reading(v, c)' BY <1>1, <1>2, <1>3, <2>3, StillReading
  <2> QED BY <1>1, <2>1, <2>2, <2>4 DEF Reading
<1>11. lastCore = onCore => last < now'
  <2> SUFFICES ASSUME lastCore = onCore PROVE last < now' OBVIOUS
  <2>1. lastCore # NoCore BY <1>3, ClockFacts
  <2>2. last <= time + CoreOffsets[onCore] BY <1>8, <2>1 DEF Reading, Clock
  <2> QED BY <1>1, <1>3, <1>4, <2>2
<1>12. Calibrating' BY <1>1, <1>8, <1>9, <1>10, <1>11 DEF Calibrating, FirstFinish
<1> QED BY <1>1, <1>2, <1>6, <1>7, <1>12 DEF CalibrationInv

LEMMA UpdateQuantumStep == CalibrationInv /\ UpdateQuantum => CalibrationInv'
<1> SUFFICES ASSUME CalibrationInv, UpdateQuantum PROVE CalibrationInv' OBVIOUS
<1> DEFINE diff == ForwardDifference(now, last)
<1>1. /\ phase = "update"
      /\ quantum' = IF diff < quantum THEN diff ELSE quantum
      /\ least' = IF nowCore = lastCore /\ now - last < least THEN now - last ELSE least
      /\ crossed' = (crossed \/ lastCore \notin {NoCore, nowCore})
      /\ phase' = "getcpu"
      /\ UNCHANGED <<time, onCore, now, last, finish, samples, nowCore, lastCore, pauses>>
  BY DEF UpdateQuantum, readings
<1>2. ClockTypes /\ Calibrating /\ (~crossed => QuantumIsLeast) BY <1>1 DEF CalibrationInv
<1>3. /\ Reading(now, nowCore) /\ (lastCore = nowCore => last < now)
      /\ IF lastCore = NoCore THEN last = 0 ELSE Reading(last, lastCore)
  BY <1>1, <1>2 DEF Calibrating
<1>4. /\ now \in Nat /\ last \in Nat /\ quantum \in Nat /\ least \in Nat
      /\ FirstFinish \in Nat /\ StartTime \in Nat /\ ClockMax \in Nat
  BY <1>2, ClockFacts DEF ClockTypes
<1>5. /\ StartTime < now /\ now < FirstFinish /\ nowCore # NoCore
      /\ lastCore # NoCore => last < FirstFinish
  BY <1>3, ClockFacts DEF Reading
<1>6. diff \in Nat
  <2>1. CASE now >= last BY <1>4, <2>1 DEF ForwardDifference
  <2>2. CASE ~(now >= last)
    <3> DEFINE m == 2^ClockBits
    <3>1. diff = ((ClockMax - now) + last) % m BY <2>2 DEF ForwardDifference
    <3>2. m \in Nat /\ m > 0 BY ClockFacts
    <3> HIDE DEF diff, m
    <3>3. (ClockMax - now) + last \in Int BY <1>4
    <3> QED BY <3>1, <3>2, <3>3
  <2> QED BY <2>1, <2>2
<1>7. lastCore = nowCore => now - last \in Nat /\ now - last < FirstFinish /\ diff = now - last
  <2> SUFFICES ASSUME lastCore = nowCore
               PROVE  now - last \in Nat /\ now - last < FirstFinish /\ diff = now - last
    OBVIOUS
  <2>1. last < now BY <1>3
  <2>2. diff = now - last BY <1>4, <2>1 DEF ForwardDifference
  <2> QED BY <1>4, <1>5, <2>1, <2>2
<1>8. lastCore = NoCore => diff = now
  <2> SUFFICES ASSUME lastCore = NoCore PROVE diff = now OBVIOUS
  <2>1. last = 0 BY <1>3
  <2> QED BY <1>4, <2>1 DEF ForwardDifference
<1> HIDE DEF diff
<1>9. quantum' \in Nat /\ least' \in Nat BY <1>1, <1>4, <1>6, <1>7
<1>10. ClockTypes' BY <1>1, <1>2, <1>9 DEF ClockTypes
<1>11. ASSUME ~crossed' PROVE QuantumIsLeast'
  <2>1. ~crossed /\ lastCore \in {NoCore, nowCore} BY <1>1, <1>2, <1>11 DEF ClockTypes
  <2>2. /\ quantum = ClockMax \/ quantum < FirstFinish
        /\ quantum = least \/ (StartTime < quantum /\ quantum < least)
    BY <1>2, <2>1 DEF QuantumIsLeast
  <2>3. ClockMax' = ClockMax /\ FirstFinish' = FirstFinish BY DEF ClockMax, FirstFinish
  <2>4. CASE lastCore = NoCore
    <3>1. diff = now /\ least' = least BY <1>1, <1>5, <1>8, <2>4
    <3>2. /\ quantum' = ClockMax \/ quantum' < FirstFinish
          /\ quantum' = least' \/ (StartTime < quantum' /\ quantum' < least')
      BY <1>1, <1>4, <1>5, <2>2, <3>1
    <3> QED BY <2>3, <3>2 DEF QuantumIsLeast
  <2>5. CASE lastCore = nowCore
    <3>1. PICK k \in Nat : k = now - last BY <1>7, <2>5
    <3>2. /\ quantum' = IF k < quantum THEN k ELSE quantum
          /\ least' = IF k < least THEN k ELSE least
          /\ k < FirstFinish
      BY <1>1, <1>7, <2>5, <3>1
    <3>3. /\ quantum' = ClockMax \/ quantum' < FirstFinish
          /\ quantum' = least' \/ (StartTime < quantum' /\ quantum' < least')
      BY <1>4, <2>2, <3>2
    <3> QED BY <2>3, <3>3 DEF QuantumIsLeast
  <2> QED BY <2>1, <2>4, <2>5
<1>12. Calibrating' BY <1>1, <1>2, <1>3 DEF Calibrating, Reading
<1> QED BY <1>1, <1>10, <1>11, <1>12 DEF CalibrationInv

LEMMA CheckCpuStep == CalibrationInv /\ CheckCpu => CalibrationInv'
<1> SUFFICES ASSUME CalibrationInv, CheckCpu PROVE CalibrationInv' OBVIOUS
<1>1. /\ phase = "getcpu" /\ phase' = "reading"
      /\ \/ UNCHANGED <<quantum, least, crossed>>
         \/ quantum' = ClockMax /\ least' = ClockMax /\ crossed' = FALSE
      /\ last' = now /\ lastCore' = nowCore
      /\ UNCHANGED <<time, onCore, now, finish, samples, nowCore, pauses>>
  BY DEF CheckCpu
<1>2. ClockTypes /\ Calibrating /\ (~crossed => QuantumIsLeast) BY <1>1 DEF CalibrationInv
<1>3. ClockTypes' BY <1>1, <1>2, ClockFacts DEF ClockTypes
<1>4. ~crossed' => QuantumIsLeast'
  <2>1. CASE UNCHANGED <<quantum, least, crossed>> BY <1>2, <2>1 DEF QuantumIsLeast
  <2>2. CASE quantum' = ClockMax /\ least' = ClockMax BY <2>2 DEF QuantumIsLeast, ClockMax
  <2> QED BY <1>1, <2>1, <2>2
<1>5. Reading(now, nowCore) /\ nowCore # NoCore
  <2>1. Reading(now, nowCore) BY <1>1, <1>2 DEF Calibrating
  <2> QED BY <2>1, ClockFacts DEF Reading
<1>6. Reading(last, lastCore)' BY <1>1, <1>5 DEF Reading
<1>7. Calibrating' BY <1>1, <1>2, <1>5, <1>6 DEF Calibrating
<1> QED BY <1>1, <1>3, <1>4, <1>7 DEF CalibrationInv

LEMMA CalibrationEndsStep ==
  ASSUME CalibrationInv, NEW gap \in Gaps, CalibrationEnds(gap)
  PROVE  CalibrationInv'
<1>1. /\ phase = "reading" /\ phase' = "begin" /\ time' = time + gap /\ onCore' \in Cores
      /\ UNCHANGED <<now, last, finish, quantum, samples, least, crossed, pauses>>
  BY DEF CalibrationEnds, readings, computed, facts, Cores
<1>2. ClockTypes /\ Calibrating /\ (~crossed => QuantumIsLeast) BY <1>1 DEF CalibrationInv
<1>3. gap \in Nat /\ time \in Nat /\ StartTime \in Nat /\ time >= StartTime
  BY <1>2, ClockFacts DEF ClockTypes
<1>4. time' \in Nat /\ time' >= StartTime BY <1>1, <1>3
<1>5. ClockTypes' BY <1>1, <1>2, <1>4 DEF ClockTypes
<1>6. QuantumIsLeast' = QuantumIsLeast BY <1>1 DEF QuantumIsLeast
<1>7. Collecting' BY <1>1, <1>2 DEF Collecting, Calibrating
<1> QED BY <1>1, <1>2, <1>5, <1>6, <1>7 DEF CalibrationInv

LEMMA BeginCollectingStep ==
  ASSUME CalibrationInv, NEW gap \in Gaps, BeginCollecting(gap)
  PROVE  CalibrationInv'
<1>1. /\ phase = "begin" /\ phase' = "wait" /\ time' = time + gap
      /\ last' = (time + gap) + CoreOffsets[onCore] /\ lastCore' = onCore
      /\ UNCHANGED <<onCore, now, finish, quantum, samples, least, crossed, pauses>>
  BY DEF BeginCollecting, Clock, computed
<1>2. ClockTypes /\ Collecting /\ (~crossed => QuantumIsLeast) BY <1>1 DEF CalibrationInv
<1>3. /\ gap \in Nat /\ time \in Nat /\ CoreOffsets[onCore] \in Nat
      /\ StartTime \in Nat /\ time >= StartTime /\ onCore \in Cores
  BY <1>2, ClockFacts DEF ClockTypes
<1>4. time' \in Nat /\ time' >= StartTime /\ last' \in Nat BY <1>1, <1>3
<1>5. ClockTypes' BY <1>1, <1>2, <1>4 DEF ClockTypes
<1>6. QuantumIsLeast' = QuantumIsLeast BY <1>1 DEF QuantumIsLeast
<1>7. last' = Clock(time, lastCore)' BY <1>1 DEF Clock
<1>8. Collecting' BY <1>1, <1>2, <1>3, <1>7 DEF Collecting
<1> QED BY <1>1, <1>2, <1>5, <1>6, <1>8 DEF CalibrationInv

LEMMA BeginWaitingStep ==
  ASSUME ClockLasts, CalibrationInv, NEW gap \in Gaps, BeginWaiting(gap)
  PROVE  CalibrationInv'
<1>1. /\ phase = "wait" /\ phase' = "collect" /\ time' = time + gap
      /\ finish' = ((time + gap) + CoreOffsets[onCore]) + WaitTicks
      /\ UNCHANGED <<onCore, now, last, quantum, samples, lastCore, least, crossed, pauses>>
  BY DEF BeginWaiting, Clock, computed, facts
<1>2. ClockTypes /\ Collecting /\ (~crossed => QuantumIsLeast) BY <1>1 DEF CalibrationInv
<1>3. /\ gap \in Nat /\ time \in Nat /\ CoreOffsets[onCore] \in Nat /\ WaitTicks \in Nat
      /\ StartTime \in Nat /\ time >= StartTime /\ onCore \in Cores
  BY <1>2, ClockFacts DEF ClockTypes
<1>4. /\ lastCore \in Cores /\ CoreOffsets[lastCore] \in Nat
      /\ last = time + CoreOffsets[lastCore] /\ (~crossed => samples = pauses)
  BY <1>1, <1>2, ClockFacts DEF Collecting, Clock
<1>5. gap + CoreOffsets[onCore] + WaitTicks <= 10 * StartTime BY <1>3 DEF ClockLasts
<1>6. time' \in Nat /\ time' >= StartTime /\ finish' \in Nat BY <1>1, <1>3
<1>7. ClockTypes' BY <1>1, <1>2, <1>6 DEF ClockTypes
<1>8. QuantumIsLeast' = QuantumIsLeast BY <1>1 DEF QuantumIsLeast
<1>9. finish' <= last + 10 * StartTime
  <2> DEFINE o == CoreOffsets[onCore]
             l == CoreOffsets[lastCore]
  <2>1. o \in Nat /\ l \in Nat /\ gap + o + WaitTicks <= 10 * StartTime
        /\ finish' = ((time + gap) + o) + WaitTicks /\ last = time + l
    BY <1>1, <1>3, <1>4, <1>5
  <2> HIDE DEF o, l
  <2> QED BY <1>3, <2>1
<1>10. last <= (time + gap) + CoreOffsets[lastCore] /\ last >= CoreOffsets[lastCore]
  BY <1>3, <1>4
<1>11. Collecting' BY <1>1, <1>4, <1>9, <1>10 DEF Collecting, Clock
<1> QED BY <1>1, <1>2, <1>7, <1>8, <1>11 DEF CalibrationInv

\* What exceeds the threshold: a tenfold quantum that fits is not cut, and the
\* initial one's wraps to more than a wait.
LEMMA PauseIs ==
  ASSUME ClockLasts, ClockTypes, QuantumIsLeast, NEW gap \in Nat, gap < 10 * StartTime
  PROVE  gap > Threshold <=> gap > 10 * least
<1> DEFINE m == 2^ClockBits
<1>1. /\ m \in Nat /\ m > 0 /\ FirstFinish \in Nat /\ StartTime \in Nat
      /\ 10 * FirstFinish <= m
  BY ClockFacts DEF ClockLasts
<1>2. StartTime + 1 <= FirstFinish BY ClockFacts DEF FirstFinish
<1>3. quantum \in Nat /\ least \in Nat BY DEF ClockTypes
<1>4. Threshold = (10 * quantum) % m BY DEF Threshold
<1>5. quantum = ClockMax \/ quantum < FirstFinish BY DEF QuantumIsLeast
<1>6. quantum = least \/ (StartTime < quantum /\ quantum < least) BY DEF QuantumIsLeast
<1>7. ClockMax = m - 1 BY DEF ClockMax
<1> HIDE DEF m
<1>8. CASE quantum < FirstFinish
  <2>1. 10 * quantum \in 0..(m - 1) BY <1>1, <1>3, <1>8
  <2>2. PICK x \in Nat : x = 10 * quantum /\ x < m BY <2>1, <1>1
  <2>3. x % m = x BY <1>1, <2>2
  <2>4. Threshold = 10 * quantum BY <1>4, <2>2, <2>3
  <2> QED BY <1>1, <1>3, <1>6, <2>4
<1>9. CASE quantum = ClockMax
  <2>1. m >= 10 BY <1>1, <1>2
  <2>2. 10 * quantum = 9 * m + (m - 10) BY <1>1, <1>7, <1>9
  <2>3. PICK r \in Nat : r = m - 10 /\ r < m BY <1>1, <2>1
  <2>4. (9 * m + r) % m = r
    <3>1. 9 \in Nat OBVIOUS
    <3> QED BY <1>1, <2>3, <3>1, Quotient
  <2>5. Threshold = m - 10 BY <1>4, <2>2, <2>3, <2>4
  <2>6. ~(gap > m - 10) BY <1>1, <1>2
  <2>7. least >= m - 1 BY <1>1, <1>3, <1>6, <1>7, <1>9
  <2>8. ~(gap > 10 * least) BY <1>1, <1>2, <1>3, <2>1, <2>7
  <2> QED BY <2>5, <2>6, <2>8
<1> QED BY <1>5, <1>8, <1>9

LEMMA CollectReadingStep ==
  ASSUME ClockLasts, CalibrationInv, NEW gap \in Gaps, CollectReading(gap)
  PROVE  CalibrationInv'
<1> DEFINE reading == (time + gap) + CoreOffsets[onCore]
           elapsed == (time + gap) - (last - CoreOffsets[lastCore])
<1>1. /\ phase = "collect" /\ phase' = "collect" /\ time' = time + gap
      /\ reading < finish
      /\ samples' = IF ForwardDifference(reading, last) > Threshold
                    THEN samples + 1 ELSE samples
      /\ pauses' = IF elapsed > 10 * least THEN pauses + 1 ELSE pauses
      /\ crossed' = (crossed \/ lastCore # onCore)
      /\ last' = reading /\ lastCore' = onCore
      /\ UNCHANGED <<onCore, now, finish, quantum, least>>
  BY DEF CollectReading, Clock, computed
<1>2. ClockTypes /\ Collecting /\ (~crossed => QuantumIsLeast) BY <1>1 DEF CalibrationInv
<1>3. /\ gap \in Nat /\ gap > 0 /\ time \in Nat /\ onCore \in Cores /\ CoreOffsets[onCore] \in Nat
      /\ StartTime \in Nat /\ time >= StartTime /\ finish \in Nat /\ last \in Nat
      /\ samples \in Nat /\ pauses \in Nat /\ crossed \in BOOLEAN
  BY <1>2, ClockFacts DEF ClockTypes
<1>4. /\ lastCore \in Cores /\ CoreOffsets[lastCore] \in Nat
      /\ last <= time + CoreOffsets[lastCore] /\ last >= CoreOffsets[lastCore]
      /\ ~crossed => finish <= last + 10 * StartTime /\ samples = pauses
  BY <1>1, <1>2, ClockFacts DEF Collecting, Clock
<1>5. time' \in Nat /\ time' >= StartTime /\ reading \in Nat /\ reading >= CoreOffsets[onCore]
  BY <1>1, <1>3
<1>6. samples' \in Nat /\ pauses' \in Nat /\ crossed' \in BOOLEAN
  <2> HIDE DEF reading, elapsed
  <2> QED BY <1>1, <1>3
<1>7. ClockTypes' BY <1>1, <1>2, <1>5, <1>6 DEF ClockTypes
<1>8. QuantumIsLeast' = QuantumIsLeast BY <1>1 DEF QuantumIsLeast
<1>9. ~crossed' => ~crossed /\ lastCore = onCore BY <1>1, <1>3
<1>10. ASSUME ~crossed' PROVE samples' = pauses' /\ finish' <= last' + 10 * StartTime
  <2>1. ~crossed /\ lastCore = onCore BY <1>9, <1>10
  <2> DEFINE o == CoreOffsets[onCore]
  <2>2. /\ o \in Nat /\ last <= time + o /\ finish <= last + 10 * StartTime
        /\ reading = (time + gap) + o /\ elapsed = (time + gap) - (last - o)
    BY <1>3, <1>4, <2>1
  <2> HIDE DEF o, reading, elapsed
  <2>3. /\ reading \in Nat /\ reading >= last /\ elapsed = reading - last
        /\ elapsed \in Nat /\ elapsed < 10 * StartTime
    BY <1>1, <1>3, <2>2
  <2>4. ForwardDifference(reading, last) = elapsed BY <2>3 DEF ForwardDifference
  <2>5. elapsed > Threshold <=> elapsed > 10 * least
    BY <1>2, <2>1, <2>3, PauseIs
  <2>6. samples' = pauses' BY <1>1, <1>4, <2>1, <2>4, <2>5
  <2>7. finish' <= last' + 10 * StartTime BY <1>1, <1>3, <2>2, <2>3
  <2> QED BY <2>6, <2>7
<1>11. last' <= Clock(time, lastCore)' /\ last' >= CoreOffsets[lastCore']
  BY <1>1, <1>5 DEF Clock
<1>12. Collecting' BY <1>1, <1>3, <1>10, <1>11 DEF Collecting
<1> QED BY <1>1, <1>2, <1>7, <1>8, <1>9, <1>12 DEF CalibrationInv

LEMMA CollectingEndsStep ==
  ASSUME CalibrationInv, NEW gap \in Gaps, CollectingEnds(gap)
  PROVE  CalibrationInv'
<1>1. /\ phase = "collect" /\ phase' = "done" /\ time' = time + gap
      /\ UNCHANGED <<onCore, now, last, finish, quantum, samples, least, crossed, pauses>>
  BY DEF CollectingEnds, readings, computed, facts
<1>2. ClockTypes /\ Collecting /\ (~crossed => QuantumIsLeast) BY <1>1 DEF CalibrationInv
<1>3. gap \in Nat /\ time \in Nat /\ StartTime \in Nat /\ time >= StartTime
  BY <1>2, ClockFacts DEF ClockTypes
<1>4. time' \in Nat /\ time' >= StartTime BY <1>1, <1>3
<1>5. ClockTypes' BY <1>1, <1>2, <1>4 DEF ClockTypes
<1>6. QuantumIsLeast' = QuantumIsLeast BY <1>1 DEF QuantumIsLeast
<1>7. Collecting' BY <1>1, <1>2 DEF Collecting
<1> QED BY <1>1, <1>2, <1>5, <1>6, <1>7 DEF CalibrationInv

LEMMA CalibrationStep ==
  ASSUME ClockLasts, CalibrationInv, [CalibrationNext]_calibrationVars
  PROVE  CalibrationInv'
<1>1. CASE UNCHANGED calibrationVars
  <2>1. UNCHANGED <<phase, time, onCore, now, last, finish, quantum, samples, nowCore, lastCore,
                    least, crossed, pauses>>
    BY <1>1 DEF calibrationVars, readings, computed, facts
  <2> QED BY <2>1 DEF CalibrationInv, ClockTypes, QuantumIsLeast, Calibrating, Collecting, Reading,
                      Clock
<1> QED BY <1>1, MigrateStep, UpdateQuantumStep, CheckCpuStep, ReadClockStep,
           CalibrationEndsStep, BeginCollectingStep, BeginWaitingStep, CollectReadingStep,
           CollectingEndsStep DEF CalibrationNext

(***************************************************************************)
(* calcQuantum() and collectJitterSamples() of jitter.cpp count the pauses *)
(* there are, for any cores, clocks and migrations, bound to a core or     *)
(* not, unless a difference of two cores' clocks was taken after the last  *)
(* reset: if ten times what the clock shows fits a word, and a wait, a     *)
(* step and an offset are no longer than ten times the clock's time at the *)
(* start.                                                                  *)
(***************************************************************************)
THEOREM PausesCounted ==
  ASSUME ClockLasts
  PROVE  CalibrationSpec => []PausesAreReal
<1>1. CalibrationInv => PausesAreReal BY DEF CalibrationInv, Collecting, PausesAreReal
<1> QED BY <1>1, CalibrationInitial, CalibrationStep, PTL DEF CalibrationSpec

-----------------------------------------------------------------------------
(***************************************************************************)
(* Snapshot: the metrics by the names of their events.                     *)
(***************************************************************************)
\* The names for which translate() asks the kernel for what they say.
MeantNames ==
  {"cycles", "instructions", "branch-misses", "backend-stall-cycles", "frontend-stall-cycles",
   "pagefaults", "context-switches", "cpu-migrations", "pagefaults-minor", "pagefaults-major",
   "alignment-faults"}

\* An entry of the table and the event of the kernel it selects.
LEMMA NameMeant ==
  ASSUME NEW name \in MeantNames
  PROVE  Meaning(Translate(name)) = <<name>>
<1>0. /\ Meaning(Code(Hardware, 0)) = <<"cycles">>
      /\ Meaning(Code(Hardware, 1)) = <<"instructions">>
      /\ Meaning(Code(Hardware, 5)) = <<"branch-misses">>
      /\ Meaning(Code(Hardware, 8)) = <<"backend-stall-cycles">>
      /\ Meaning(Code(Hardware, 7)) = <<"frontend-stall-cycles">>
      /\ Meaning(Code(Software, 2)) = <<"pagefaults">>
      /\ Meaning(Code(Software, 3)) = <<"context-switches">>
      /\ Meaning(Code(Software, 4)) = <<"cpu-migrations">>
      /\ Meaning(Code(Software, 5)) = <<"pagefaults-minor">>
      /\ Meaning(Code(Software, 6)) = <<"pagefaults-major">>
      /\ Meaning(Code(Software, 7)) = <<"alignment-faults">>
  BY DEF Meaning, Code, Hardware, Software, HwCache, HardwareEvents, SoftwareEvents
<1>1. PICK entry \in ConfigMap : entry[1] = name /\ Meaning(entry[2]) = <<name>>
  BY <1>0 DEF ConfigMap, MeantNames
<1>2. \A e \in ConfigMap : e[1] = name => e = entry
  BY <1>1 DEF ConfigMap
<1>3. {e \in ConfigMap : e[1] = name} = {entry} BY <1>1, <1>2
<1> QED BY <1>1, <1>3 DEF Translate

\* The names the Snapshot is given.
NamesMeant == \A k \in DOMAIN EventNames : EventNames[k] \in MeantNames

Rows == Sections \X Iterations

\* What a metric of the k-th event has to say of rows.
ValuesOf(k, rows) ==
  [i \in DOMAIN rows |-> <<rows[i][1][<<EventNames[k]>>], rows[i][2]>>]

LabelMeasured(l) ==
  /\ measured[l] \in Seq(Rows)
  /\ DOMAIN events[l].metrics = DOMAIN EventNames
  /\ \A k \in DOMAIN EventNames :
       events[l].metrics[k] = [name |-> EventNames[k], values |-> ValuesOf(k, measured[l])]

SnapshotInv ==
  /\ DOMAIN events = DOMAIN measured
  /\ \A l \in DOMAIN events : LabelMeasured(l)

\* A row more.
LEMMA ValuesAppended ==
  ASSUME NEW k, NEW rows \in Seq(Rows), NEW section \in Sections, NEW it \in Iterations
  PROVE  ValuesOf(k, Append(rows, <<section, it>>))
           = Append(ValuesOf(k, rows), <<section[<<EventNames[k]>>], it>>)
<1> DEFINE x == <<section[<<EventNames[k]>>], it>>
           f == ValuesOf(k, rows)
           g == ValuesOf(k, Append(rows, <<section, it>>))
<1>1. <<section, it>> \in Rows BY DEF Rows
<1>2. /\ Append(rows, <<section, it>>) \in Seq(Rows)
      /\ Len(Append(rows, <<section, it>>)) = Len(rows) + 1
      /\ \A i \in 1..Len(rows) : Append(rows, <<section, it>>)[i] = rows[i]
      /\ Append(rows, <<section, it>>)[Len(rows) + 1] = <<section, it>>
      /\ Len(rows) \in Nat
  BY <1>1
<1>3. DOMAIN rows = 1..Len(rows) /\ DOMAIN Append(rows, <<section, it>>) = 1..(Len(rows) + 1)
  BY <1>2
<1>4. /\ \A i \in 1..Len(rows) : g[i] = f[i]
      /\ g[Len(rows) + 1] = x
  BY <1>2, <1>3 DEF ValuesOf
<1>5. /\ f = [i \in 1..Len(rows) |-> f[i]] /\ g = [i \in 1..(Len(rows) + 1) |-> g[i]]
  BY <1>3 DEF ValuesOf
<1> HIDE DEF f, g, x
<1>6. f \in Seq({f[i] : i \in 1..Len(rows)} \cup {x})
  <2>1. f \in [1..Len(rows) -> {f[i] : i \in 1..Len(rows)} \cup {x}]
    BY <1>5
  <2> QED BY <1>2, <2>1
<1>7. Len(f) = Len(rows) BY <1>2, <1>5, <1>6
<1>8. Append(f, x) = [i \in 1..(Len(rows) + 1) |-> IF i = Len(rows) + 1 THEN x ELSE f[i]]
  <2> DEFINE S == {f[i] : i \in 1..Len(rows)} \cup {x}
             h == Append(f, x)
  <2>1. f \in Seq(S) /\ x \in S BY <1>6
  <2> HIDE DEF S
  <2>2. /\ h \in Seq(S) /\ Len(h) = Len(rows) + 1
        /\ h[Len(rows) + 1] = x /\ \A i \in 1..Len(rows) : h[i] = f[i]
    BY <1>7, <2>1
  <2> HIDE DEF h
  <2>3. h = [i \in 1..(Len(rows) + 1) |-> h[i]] BY <2>2
  <2>4. \A i \in 1..(Len(rows) + 1) : h[i] = IF i = Len(rows) + 1 THEN x ELSE f[i]
    BY <1>2, <2>2
  <2> QED BY <2>3, <2>4 DEF h
<1>9. \A i \in 1..(Len(rows) + 1) : i # Len(rows) + 1 => i \in 1..Len(rows) BY <1>2
<1>10. g = [i \in 1..(Len(rows) + 1) |-> IF i = Len(rows) + 1 THEN x ELSE f[i]]
  BY <1>4, <1>5, <1>9
<1> QED BY <1>8, <1>10 DEF f, g, x

LEMMA SnapshotInitial == SnapshotInit => SnapshotInv
<1> SUFFICES ASSUME SnapshotInit PROVE SnapshotInv OBVIOUS
<1>1. DOMAIN events = {} /\ DOMAIN measured = {} BY DEF SnapshotInit
<1> QED BY <1>1 DEF SnapshotInv

LEMMA SnapshotKept ==
  ASSUME NamesMeant, SnapshotInv, [SnapshotNext]_snapshotVars
  PROVE  SnapshotInv'
<1>1. ASSUME UNCHANGED <<events, measured>> PROVE SnapshotInv'
  BY <1>1 DEF SnapshotInv, LabelMeasured, ValuesOf
<1>2. CASE UNCHANGED snapshotVars BY <1>1, <1>2 DEF snapshotVars
<1>3. ASSUME NEW lb \in Labels, NEW numitems, NEW it \in Iterations, NEW section \in Sections,
             SnapshotStop(lb, numitems, it, section)
      PROVE  SnapshotInv'
  <2>1. CASE it = 0 BY <1>1, <1>3, <2>1 DEF SnapshotStop
  <2>2. CASE it # 0
    <3> DEFINE e == EventOf(lb)
               counter(k) == section[Meaning(Translate(EventNames[k]))]
               ne == [N |-> Append(e.N, numitems),
                      metrics |-> [k \in DOMAIN EventNames |->
                        [e.metrics[k] EXCEPT !.values = Append(@, <<counter(k), it>>)]]]
               rows == MeasuredOf(lb)
               nrows == Append(rows, <<section, it>>)
    <3>1. events' = With(events, lb, ne) /\ measured' = With(measured, lb, nrows)
      BY <1>3, <2>2 DEF SnapshotStop
    <3>2. /\ DOMAIN events' = DOMAIN events \cup {lb}
          /\ DOMAIN measured' = DOMAIN measured \cup {lb}
          /\ events'[lb] = ne /\ measured'[lb] = nrows
          /\ \A l \in DOMAIN events : l # lb => events'[l] = events[l]
          /\ \A l \in DOMAIN measured : l # lb => measured'[l] = measured[l]
      BY <3>1 DEF With
    <3>3. /\ rows \in Seq(Rows)
          /\ \A k \in DOMAIN EventNames :
               e.metrics[k] = [name |-> EventNames[k], values |-> ValuesOf(k, rows)]
      <4>1. CASE lb \in DOMAIN events
        <5>1. lb \in DOMAIN measured /\ LabelMeasured(lb) BY <4>1 DEF SnapshotInv
        <5> QED BY <4>1, <5>1 DEF LabelMeasured, EventOf, MeasuredOf
      <4>2. CASE lb \notin DOMAIN events
        <5>1. lb \notin DOMAIN measured BY <4>2 DEF SnapshotInv
        <5>2. rows = <<>> /\ e = NewEvent BY <4>2, <5>1 DEF EventOf, MeasuredOf
        <5>3. \A k : ValuesOf(k, <<>>) = <<>> BY DEF ValuesOf
        <5> QED BY <5>2, <5>3 DEF NewEvent
      <4> QED BY <4>1, <4>2
    <3>4. \A k \in DOMAIN EventNames : counter(k) = section[<<EventNames[k]>>]
      BY NameMeant DEF NamesMeant
    <3> HIDE DEF e, rows
    <3>5. nrows \in Seq(Rows)
      <4>1. <<section, it>> \in Rows BY DEF Rows
      <4> QED BY <3>3, <4>1
    <3>6. ASSUME NEW k \in DOMAIN EventNames
          PROVE  ne.metrics[k] = [name |-> EventNames[k], values |-> ValuesOf(k, nrows)]
      <4> DEFINE x == <<section[<<EventNames[k]>>], it>>
                 f == ValuesOf(k, rows)
      <4>1. ValuesOf(k, nrows) = Append(f, x) BY <3>3, ValuesAppended
      <4>2. e.metrics[k] = [name |-> EventNames[k], values |-> f] BY <3>3
      <4>3. <<counter(k), it>> = x BY <3>4
      <4>4. ne.metrics[k] = [e.metrics[k] EXCEPT !.values = Append(@, x)] BY <4>3
      <4>5. PICK m : m = e.metrics[k] OBVIOUS
      <4>6. ne.metrics[k] = [m EXCEPT !.values = Append(@, x)] BY <4>4, <4>5
      <4>7. m = [name |-> EventNames[k], values |-> f] BY <4>2, <4>5
      <4> HIDE DEF x, f, ne
      <4>8. [m EXCEPT !.values = Append(@, x)]
              = [name |-> EventNames[k], values |-> Append(f, x)]
        BY ONLY <4>7
      <4> QED BY <4>1, <4>6, <4>8
    <3>7. DOMAIN ne.metrics = DOMAIN EventNames OBVIOUS
    <3> HIDE DEF ne, nrows
    <3>8. LabelMeasured(lb)' BY <3>2, <3>5, <3>6, <3>7 DEF LabelMeasured, ValuesOf
    <3>9. ASSUME NEW l \in DOMAIN events', l # lb PROVE LabelMeasured(l)'
      <4>1. l \in DOMAIN events /\ l \in DOMAIN measured BY <3>2, <3>9 DEF SnapshotInv
      <4>2. events'[l] = events[l] /\ measured'[l] = measured[l] BY <3>2, <3>9, <4>1
      <4>3. LabelMeasured(l) BY <4>1 DEF SnapshotInv
      <4> QED BY <4>2, <4>3 DEF LabelMeasured, ValuesOf
    <3>10. DOMAIN events' = DOMAIN measured' BY <3>2 DEF SnapshotInv
    <3> QED BY <3>8, <3>9, <3>10 DEF SnapshotInv
  <2> QED BY <2>1, <2>2
<1> QED BY <1>2, <1>3 DEF SnapshotNext

(***************************************************************************)
(* Snapshot (libs/Snapshot.cpp) files under a name what that event counted *)
(* in the sections of the label, in their order and in no other label's,*)
(* for every name in the table of translate() (libs/PerfUtils.cpp) but     *)
(* "cache-misses": that entry is all that is wrong with the table.         *)
(***************************************************************************)
THEOREM NamesFit ==
  ASSUME NamesMeant
  PROVE  SnapshotSpec => []MetricsAsNamed
<1>1. SnapshotInv => MetricsAsNamed
  <2> SUFFICES ASSUME SnapshotInv, NEW lb \in DOMAIN events, NEW k \in DOMAIN EventNames
               PROVE  events[lb].metrics[k].values = ValuesOf(k, measured[lb])
    BY DEF MetricsAsNamed, ValuesOf
  <2>1. events[lb].metrics[k] = [name |-> EventNames[k], values |-> ValuesOf(k, measured[lb])]
    BY DEF SnapshotInv, LabelMeasured
  <2> QED BY <2>1
<1>2. SnapshotInv /\ [SnapshotNext]_snapshotVars => SnapshotInv' BY SnapshotKept
<1> QED BY <1>1, <1>2, SnapshotInitial, PTL DEF SnapshotSpec

-----------------------------------------------------------------------------
(***************************************************************************)
(* KahanSum: three roundings of an addition, and what they leave behind.   *)
(***************************************************************************)
\* A number below is a double as it is.
Leads == 2^(Mantissa + 1)

LEMMA LeadsAre == Leads \in Nat /\ Leads > 0
<1>1. Mantissa + 1 \in Nat BY MantissaAssumption
<1> QED BY <1>1, PowerIsSubsets DEF Leads

\* A factor of both sides may go.
LEMMA Cancelled ==
  ASSUME NEW p \in Nat, p > 0, NEW x \in Nat, NEW y \in Nat, x * p <= y * p
  PROVE  x <= y
<1> SUFFICES ASSUME y < x PROVE FALSE OBVIOUS
<1>1. y * p + p <= x * p /\ y * p \in Nat /\ x * p \in Nat BY MonotoneProduct
<1> QED BY <1>1

\* A double is off by no more than the half of its last bit.
LEMMA NearestDouble ==
  ASSUME NEW n \in Words
  PROVE  /\ AsDouble(n) \in Nat
         /\ Magnitude(AsDouble(n) - n) * Leads <= n
         /\ n < Leads => AsDouble(n) = n
<1>0. n \in Nat BY DEF Words
<1>1. CASE BitWidth(n) - (Mantissa + 1) <= 0
  <2>1. AsDouble(n) = n BY <1>1 DEF AsDouble
  <2>2. Magnitude(n - n) = 0 BY <1>0 DEF Magnitude
  <2> QED BY <1>0, <2>1, <2>2, LeadsAre
<1>2. CASE ~(BitWidth(n) - (Mantissa + 1) <= 0)
  <2>1. n > 0
    <3> SUFFICES ASSUME n = 0 PROVE FALSE BY <1>0
    <3>1. {k \in 0..(Width - 1) : 2^k <= n} = {}
      <4>1. ASSUME NEW k \in 0..(Width - 1) PROVE ~(2^k <= n)
        <5>1. k \in Nat BY WidthAssumption
        <5>2. 2^k \in Nat /\ 2^k > 0 BY <5>1, PowerIsSubsets
        <5> QED BY <5>2
      <4> QED BY <4>1
    <3>2. BitWidth(n) = 0 BY <3>1, FS_EmptySet DEF BitWidth
    <3> QED BY <1>2, <3>2, MantissaAssumption
  <2>2. PICK b \in Nat : b < Width /\ 2^b <= n /\ n < 2^(b + 1) BY <2>1, OctaveOf
  <2>3. BitWidth(n) = b + 1 BY <1>0, <2>2, WidthOfOctave
  <2> DEFINE drop == (b + 1) - (Mantissa + 1)
             ulp == 2^drop
             rest == n % ulp
             half == 2^Mantissa
  <2>4. drop \in Nat /\ b = Mantissa + drop /\ Mantissa \in Nat BY <1>2, <2>3, MantissaAssumption
  <2> DEFINE up == 2 * rest > ulp \/ (2 * rest = ulp /\ ((n - rest) \div ulp) % 2 = 1)
  <2>5. AsDouble(n) = IF up THEN (n - rest) + ulp ELSE n - rest
    BY <1>2, <2>3 DEF AsDouble
  <2> HIDE DEF drop
  <2>6. ulp \in Nat /\ ulp > 0 /\ half \in Nat /\ half > 0 /\ 2^b = half * ulp
    BY <2>4, PowerIsSubsets, PowerOfSum
  <2>7. Leads = 2 * half BY <2>4, NextPower DEF Leads
  <2> HIDE DEF ulp, half
  <2>8. rest \in 0..(ulp - 1) /\ rest <= n
    <3>1. n = ((n \div ulp) * ulp) + rest /\ rest \in 0..(ulp - 1) /\ n \div ulp \in Nat
      BY <1>0, <2>6, Division
    <3>2. (n \div ulp) * ulp \in Nat BY <2>6, <3>1
    <3> QED BY <1>0, <3>1, <3>2
  <2>9. (up => 2 * rest >= ulp) /\ (~up => 2 * rest <= ulp)
    <3>1. up => 2 * rest >= ulp BY <2>6, <2>8
    <3>2. ~up => ~(2 * rest > ulp) OBVIOUS
    <3> QED BY <2>6, <2>8, <3>1, <3>2
  <2> HIDE DEF up, rest
  <2>10. AsDouble(n) \in Nat /\ 2 * Magnitude(AsDouble(n) - n) <= ulp
         /\ Magnitude(AsDouble(n) - n) \in Nat
    <3>1. CASE up BY <1>0, <2>5, <2>6, <2>8, <2>9, <3>1 DEF Magnitude
    <3>2. CASE ~up BY <1>0, <2>5, <2>6, <2>8, <2>9, <3>2 DEF Magnitude
    <3> QED BY <3>1, <3>2
  <2>11. Magnitude(AsDouble(n) - n) * Leads <= half * ulp
    <3> DEFINE error == Magnitude(AsDouble(n) - n)
    <3>1. error \in Nat /\ 2 * error <= ulp BY <2>10
    <3> HIDE DEF error
    <3>2. (2 * error) * half <= ulp * half BY <2>6, <3>1, MonotoneProduct
    <3>3. error * Leads = (2 * error) * half /\ ulp * half = half * ulp
      BY <2>6, <2>7, <3>1
    <3> QED BY <3>2, <3>3 DEF error
  <2>12. ~(n < Leads)
    <3>1. Leads <= 2^b
      <4>1. Mantissa + 1 <= b BY <1>2, <2>3, MantissaAssumption
      <4>2. Mantissa + 1 \in Nat BY <2>4
      <4> QED BY <4>1, <4>2, PowersGrow DEF Leads
    <3>2. 2^b \in Nat BY PowerIsSubsets
    <3> QED BY <1>0, <2>2, <3>1, <3>2, LeadsAre
  <2>13. Magnitude(AsDouble(n) - n) * Leads \in Nat /\ half * ulp \in Nat
    BY <2>6, <2>10, LeadsAre
  <2> QED BY <1>0, <2>2, <2>6, <2>10, <2>11, <2>12, <2>13
<1> QED BY <1>1, <1>2

LEMMA MagnitudeIs ==
  ASSUME NEW x \in Int
  PROVE  /\ Magnitude(x) \in Nat /\ Magnitude(-x) = Magnitude(x)
         /\ Magnitude(x) = x \/ Magnitude(x) = -x
BY DEF Magnitude

\* The same of an operation whose result may be negative.
LEMMA RoundedIs ==
  ASSUME NEW x \in Int, Magnitude(x) \in Words
  PROVE  /\ Rounded(x) \in Int
         /\ Magnitude(Rounded(x) - x) * Leads <= Magnitude(x)
         /\ Magnitude(x) < Leads => Rounded(x) = x
<1>1. CASE x < 0
  <2>1. Magnitude(x) = -x /\ Rounded(x) = -AsDouble(-x) BY <1>1 DEF Magnitude, Rounded
  <2>2. AsDouble(-x) \in Nat BY <2>1, NearestDouble
  <2>3. Rounded(x) - x = -(AsDouble(-x) - (-x)) /\ AsDouble(-x) - (-x) \in Int BY <2>1, <2>2
  <2>4. Magnitude(Rounded(x) - x) = Magnitude(AsDouble(-x) - (-x)) BY <2>3, MagnitudeIs
  <2>5. Magnitude(AsDouble(-x) - (-x)) * Leads <= -x BY <2>1, NearestDouble
  <2>6. -x < Leads => AsDouble(-x) = -x BY <2>1, NearestDouble
  <2> QED BY <2>1, <2>2, <2>4, <2>5, <2>6
<1>2. CASE ~(x < 0)
  <2>1. Magnitude(x) = x /\ Rounded(x) = AsDouble(x) BY <1>2 DEF Magnitude, Rounded
  <2> QED BY <2>1, NearestDouble
<1> QED BY <1>1, <1>2

\* For a double of 53 leading bits: the total stays below 2^102.
TotalsFit == 16 * MaxTotal <= Leads * Leads

\* What the sum and the residual together are off by.
Drift == sum - res - exact

(***************************************************************************)
(* The drift and the residual are bounded by the total and not by the      *)
(* number of additions: an addition adds to the drift only by its first    *)
(* and third rounding, and those are not exact only for a value that is    *)
(* large beside the residual, of which they are then a small part.         *)
(***************************************************************************)
SumInv ==
  /\ sum \in Int /\ res \in Int /\ exact \in Int
  /\ total \in 0..MaxTotal /\ Magnitude(exact) <= total
  /\ Magnitude(Drift) * Leads <= 3 * total
  /\ Magnitude(res) * Leads <= 3 * total
  /\ total < Leads => res = 0 /\ sum = exact

LEMMA SumInitial == SumInit => SumInv
<1> SUFFICES ASSUME SumInit PROVE SumInv OBVIOUS
<1>1. sum = 0 /\ res = 0 /\ exact = 0 /\ total = 0 BY DEF SumInit
<1>2. Magnitude(0) = 0 /\ Drift = 0 BY <1>1 DEF Magnitude, Drift
<1> QED BY <1>1, <1>2, LeadsAre, MaxTotalAssumption DEF SumInv

\* What one addition does to numbers of any size: r is the residual, E what is
\* missing, and a, b, c are what each of the three roundings is off by.
LEMMA ErrorsSmall ==
  ASSUME NEW C \in Nat, C > 0, NEW v \in Int, NEW T \in Nat, 16 * T <= C * C, C <= T,
         Magnitude(v) <= T,
         NEW r \in Int, Magnitude(r) * C <= 3 * (T - Magnitude(v)),
         NEW E \in Int, Magnitude(E) * C <= 3 * (T - Magnitude(v)),
         NEW x \in Int, Magnitude(x) <= T - Magnitude(v),
         NEW a \in Int, Magnitude(a) * C <= Magnitude(v - r), Magnitude(v - r) < C => a = 0,
         NEW b \in Int, Magnitude(b) * C <= Magnitude(x + E + v + a),
         NEW c \in Int, Magnitude(c) * C <= Magnitude(v - r + a + b),
         Magnitude(v - r + a + b) < C => c = 0
  PROVE  /\ Magnitude(b + c) < C
         /\ Magnitude(b + c) * C <= 3 * T
         /\ Magnitude(E + a - c) * C <= 3 * T
<1> DEFINE V == Magnitude(v)
           Q == Magnitude(r)
           E1 == Magnitude(E)
           A == Magnitude(a)
           B == Magnitude(b)
           D == Magnitude(c)
           Y == Magnitude(v - r)
           S == Magnitude(x + E + v + a)
           Z == Magnitude(v - r + a + b)
<1>1. /\ V \in Nat /\ Q \in Nat /\ E1 \in Nat /\ A \in Nat /\ B \in Nat /\ D \in Nat
      /\ Y \in Nat /\ S \in Nat /\ Z \in Nat /\ Magnitude(x) \in Nat
  BY MagnitudeIs
<1>2. Y <= V + Q /\ S <= T - V + E1 + V + A /\ Z <= V + Q + A + B
  BY DEF Magnitude
<1>3. Magnitude(b + c) <= B + D /\ Magnitude(E + a - c) <= E1 + A + D
      /\ Magnitude(b + c) \in Nat /\ Magnitude(E + a - c) \in Nat
  BY DEF Magnitude
<1>4. A = 0 \/ Y >= C BY <1>1 DEF Magnitude
<1>5. D = 0 \/ Z >= C BY <1>1 DEF Magnitude
<1>6. /\ V <= T /\ A * C <= Y /\ B * C <= S /\ D * C <= Z
      /\ Q * C <= 3 * (T - V) /\ E1 * C <= 3 * (T - V)
  OBVIOUS
<1> DEFINE br == Magnitude(b + c)
           dr == Magnitude(E + a - c)
<1> SUFFICES br < C /\ br * C <= 3 * T /\ dr * C <= 3 * T OBVIOUS
<1>7. br <= B + D /\ dr <= E1 + A + D /\ br \in Nat /\ dr \in Nat BY <1>3
<1> HIDE DEF V, Q, E1, A, B, D, Y, S, Z, br, dr
<1>8. C >= 16
  <2>1. 16 * C <= C * C
    <3>1. C * C \in Nat OBVIOUS
    <3> QED BY <3>1
  <2> QED BY <2>1, Cancelled
\* The residual and what is missing are a small part of what doubles are exact to.
<1>9. 16 * Q <= 3 * C
  <2>1. (16 * Q) * C <= (3 * C) * C
    <3>1. (16 * Q) * C = 16 * (Q * C) /\ (3 * C) * C = 3 * (C * C) /\ C * C \in Nat /\ Q * C \in Nat
      BY <1>1
    <3> QED BY <1>1, <1>6, <3>1
  <2>2. 16 * Q \in Nat /\ 3 * C \in Nat BY <1>1
  <2> QED BY <2>1, <2>2, Cancelled
<1>10. 16 * E1 <= E1 * C /\ 16 * A <= A * C /\ E1 * C \in Nat /\ A * C \in Nat
       /\ B * C \in Nat /\ D * C \in Nat
  BY <1>1, <1>8, MonotoneProduct
\* A first rounding comes with a value that is large beside the residual.
<1>11. 13 * (A * C) <= 16 * V /\ 13 * A <= V
  <2>1. CASE A = 0 BY <1>1, <2>1
  <2>2. CASE A # 0
    <3>1. Y >= C BY <1>4, <2>2
    <3>2. 13 * C <= 16 * V BY <1>1, <1>2, <1>9, <3>1
    <3>3. 13 * (A * C) <= 16 * V BY <1>1, <1>2, <1>6, <1>9, <1>10, <3>2
    <3> QED BY <1>1, <1>10, <3>3
  <2> QED BY <2>1, <2>2
\* The second is that of a number little above the total.
<1>12. 16 * (B * C) <= 19 * T
  <2>1. 16 * S <= 19 * T BY <1>1, <1>2, <1>6, <1>10, <1>11
  <2> QED BY <1>1, <1>6, <1>10, <2>1
<1>13. 256 * B <= 19 * C
  <2>1. (256 * B) * C <= (19 * C) * C
    <3>1. (256 * B) * C = 256 * (B * C) /\ (19 * C) * C = 19 * (C * C) /\ C * C \in Nat BY <1>1
    <3> QED BY <1>1, <1>10, <1>12, <3>1
  <2>2. 256 * B \in Nat /\ 19 * C \in Nat BY <1>1
  <2> QED BY <2>1, <2>2, Cancelled
\* The third is exact, or the value is more than half of what doubles are exact to.
<1>14. 2 * (D * C) <= 3 * V
  <2>1. CASE D = 0 BY <1>1, <2>1
  <2>2. CASE D # 0
    <3>1. Z >= C BY <1>5, <2>2
    <3>2. 13 * Z <= 14 * V + 13 * Q + 13 * B BY <1>1, <1>2, <1>11
    <3>3. 256 * Z <= 276 * V + 67 * C BY <1>1, <1>9, <1>13, <3>2
    <3>4. 189 * C <= 276 * V BY <1>1, <3>1, <3>3
    <3>5. 2 * Z <= 3 * V BY <1>1, <3>3, <3>4
    <3> QED BY <1>1, <1>6, <1>10, <3>5
  <2> QED BY <2>1, <2>2
<1>15. 8 * D <= C
  <2>1. (8 * D) * C <= C * C
    <3>1. (8 * D) * C = 8 * (D * C) /\ C * C \in Nat BY <1>1
    <3> QED BY <1>1, <1>6, <1>10, <1>14, <3>1
  <2>2. 8 * D \in Nat BY <1>1
  <2> QED BY <2>1, <2>2, Cancelled
<1>16. br < C BY <1>1, <1>7, <1>8, <1>13, <1>15
<1>17. br * C <= 3 * T
  <2>1. br * C <= (B + D) * C BY <1>1, <1>7, MonotoneProduct
  <2>2. (B + D) * C = B * C + D * C BY <1>1
  <2>3. br * C \in Nat BY <1>7
  <2> QED BY <1>1, <1>6, <1>10, <1>12, <1>14, <2>1, <2>2, <2>3
<1>18. dr * C <= 3 * T
  <2>1. dr * C <= (E1 + A + D) * C BY <1>1, <1>7, MonotoneProduct
  <2>2. (E1 + A + D) * C = E1 * C + A * C + D * C BY <1>1
  <2>3. dr * C \in Nat BY <1>7
  <2>4. A * C + D * C <= 3 * V BY <1>1, <1>10, <1>11, <1>14
  <2> QED BY <1>1, <1>6, <1>10, <2>1, <2>2, <2>3, <2>4
<1> QED BY <1>16, <1>17, <1>18

\* No intermediate result is beyond the range of the words.
LEMMA RoundedBelow ==
  ASSUME NEW x \in Int, Magnitude(x) <= 4 * MaxTotal
  PROVE  /\ Rounded(x) \in Int
         /\ Magnitude(Rounded(x) - x) * Leads <= Magnitude(x)
         /\ Magnitude(x) < Leads => Rounded(x) = x
<1>1. Magnitude(x) \in Words
  <2>1. 2^Width \in Nat BY WidthAssumption, PowerIsSubsets
  <2> QED BY <2>1, MaxTotalAssumption, MagnitudeIs DEF Words
<1> QED BY <1>1, RoundedIs

LEMMA SumAddStep ==
  ASSUME TotalsFit, SumInv, NEW value \in Addends, SumAdd(value)
  PROVE  SumInv'
<1> DEFINE V == Magnitude(value)
           T == total + V
           y == Rounded(value - res)
           t == Rounded(sum + y)
           u == Rounded(t - sum)
           w == Rounded(u - y)
<1>1. /\ value \in Int /\ V \in Nat /\ T \in Nat /\ T <= MaxTotal /\ V <= T
      /\ total = T - V /\ total \in Nat
  BY AddendsAssumption, MagnitudeIs DEF SumInv, SumAdd
<1>2. res' = w /\ sum' = t /\ exact' = exact + value /\ total' = T
  BY DEF SumAdd, Corrected
<1>3. /\ sum \in Int /\ res \in Int /\ exact \in Int /\ Drift \in Int /\ sum - res = exact + Drift
      /\ Magnitude(exact) <= T - V
      /\ Magnitude(Drift) * Leads <= 3 * (T - V)
      /\ Magnitude(res) * Leads <= 3 * (T - V)
      /\ T - V < Leads => res = 0 /\ sum = exact
  BY <1>1 DEF SumInv, Drift
<1>4. MaxTotal \in Nat /\ 16 * MaxTotal <= Leads * Leads /\ Leads \in Nat /\ Leads > 0
  BY LeadsAre, MaxTotalAssumption DEF TotalsFit
<1> SUFFICES /\ w \in Int /\ t \in Int
             /\ Magnitude(t - w - (exact + value)) * Leads <= 3 * T
             /\ Magnitude(w) * Leads <= 3 * T
             /\ T < Leads => w = 0 /\ t = exact + value
  <2>1. Magnitude(exact + value) <= T BY <1>1, <1>3 DEF Magnitude
  <2>2. Drift' = t - w - (exact + value) BY <1>2 DEF Drift
  <2>3. T \in 0..MaxTotal BY <1>1, <1>4
  <2> HIDE DEF w, t, T
  <2> QED BY <1>1, <1>2, <1>3, <2>1, <2>2, <2>3 DEF SumInv
<1> HIDE DEF V, T, y, t, u, w
\* As long as no number needs more than the leading bits nothing is rounded.
<1>5. CASE T < Leads
  <2>1. res = 0 /\ sum = exact /\ value - res = value /\ V < Leads /\ V <= 4 * MaxTotal
    BY <1>1, <1>3, <1>4, <1>5
  <2>2. y = value BY <1>1, <2>1, RoundedBelow DEF y, V
  <2>3. Magnitude(exact + value) <= T BY <1>1, <1>3 DEF Magnitude, V
  <2>4. t = exact + value
    <3>1. exact + value \in Int /\ Magnitude(exact + value) <= 4 * MaxTotal
          /\ Magnitude(exact + value) < Leads
      BY <1>1, <1>3, <1>4, <1>5, <2>3, MagnitudeIs
    <3> QED BY <2>1, <2>2, <3>1, RoundedBelow DEF t
  <2>5. t - sum = value BY <1>1, <1>3, <2>1, <2>4
  <2>6. u = value BY <1>1, <2>1, <2>5, RoundedBelow DEF u, V
  <2>7. Magnitude(0) = 0 /\ u - y = 0 BY <1>1, <2>2, <2>6 DEF Magnitude
  <2>8. w = 0 BY <1>4, <2>7, RoundedBelow DEF w
  <2>9. t - w - (exact + value) = 0 BY <1>1, <1>3, <2>4, <2>8
  <2> QED BY <1>1, <1>3, <1>4, <2>4, <2>7, <2>8, <2>9
<1>6. CASE Leads <= T
  <2> DEFINE a == y - (value - res)
             b == t - (sum + y)
             c == u - (t - sum)
  <2>1. 16 * T <= Leads * Leads
    <3>1. Leads * Leads \in Nat BY <1>4
    <3> QED BY <1>1, <1>4, <3>1
  <2>2. Leads >= 16
    <3>1. 16 * Leads <= Leads * Leads
      <4>1. Leads * Leads \in Nat BY <1>4
      <4> QED BY <1>1, <1>4, <1>6, <2>1
    <3> QED BY <1>4, <3>1, Cancelled
  <2>3. ASSUME NEW m \in Int, NEW k \in Nat, Magnitude(m) * Leads <= k
        PROVE  16 * Magnitude(m) <= k /\ Magnitude(m) \in Nat
    <3>1. Magnitude(m) \in Nat BY MagnitudeIs
    <3>2. 16 * Magnitude(m) <= Leads * Magnitude(m)
      BY <1>4, <2>2, <3>1, MonotoneProduct
    <3>3. Leads * Magnitude(m) = Magnitude(m) * Leads /\ Magnitude(m) * Leads \in Nat
      BY <1>4, <3>1
    <3> QED BY <2>3, <3>1, <3>2, <3>3
  <2>4. Magnitude(res) <= T /\ Magnitude(Drift) <= T
    <3>1. 3 * (T - V) \in Nat BY <1>1
    <3>2. 16 * Magnitude(res) <= 3 * (T - V) /\ Magnitude(res) \in Nat BY <1>3, <2>3, <3>1
    <3>3. 16 * Magnitude(Drift) <= 3 * (T - V) /\ Magnitude(Drift) \in Nat BY <1>3, <2>3, <3>1
    <3> QED BY <1>1, <3>2, <3>3
  <2>5. /\ y \in Int /\ a \in Int /\ Magnitude(a) * Leads <= Magnitude(value - res)
        /\ Magnitude(value - res) < Leads => a = 0
        /\ 8 * Magnitude(a) <= T /\ y = value - res + a
    <3>1. value - res \in Int /\ Magnitude(value - res) <= 2 * T
      BY <1>1, <1>3, <2>4 DEF Magnitude, V
    <3>2. Magnitude(value - res) <= 4 * MaxTotal /\ Magnitude(value - res) \in Nat
      BY <1>1, <1>4, <3>1, MagnitudeIs
    <3>3. /\ y \in Int /\ Magnitude(y - (value - res)) * Leads <= Magnitude(value - res)
          /\ Magnitude(value - res) < Leads => y = value - res
      BY <3>1, <3>2, RoundedBelow DEF y
    <3>4. a \in Int /\ y = value - res + a BY <1>1, <1>3, <3>3
    <3>5. 16 * Magnitude(a) <= Magnitude(value - res) /\ Magnitude(a) \in Nat
      BY <2>3, <3>2, <3>3, <3>4
    <3> QED BY <1>1, <1>3, <3>1, <3>2, <3>3, <3>4, <3>5
  <2> HIDE DEF a
  <2>6. /\ t \in Int /\ b \in Int /\ Magnitude(b) * Leads <= Magnitude(exact + Drift + value + a)
        /\ 4 * Magnitude(b) <= T /\ t = sum + y + b
    <3>1. sum + y = exact + Drift + value + a /\ sum + y \in Int BY <1>1, <1>3, <2>5
    <3>2. 8 * Magnitude(sum + y) <= 17 * T /\ Magnitude(sum + y) \in Nat
      <4>1. Magnitude(exact + Drift + value + a) <= (T - V) + T + V + Magnitude(a)
        BY <1>1, <1>3, <2>4, <2>5 DEF Magnitude, V
      <4> QED BY <1>1, <2>5, <3>1, <4>1, MagnitudeIs
    <3>3. Magnitude(sum + y) <= 4 * MaxTotal BY <1>1, <1>4, <3>2
    <3>4. t \in Int /\ Magnitude(t - (sum + y)) * Leads <= Magnitude(sum + y)
      BY <3>1, <3>3, RoundedBelow DEF t
    <3>5. b \in Int /\ t = sum + y + b BY <1>3, <2>5, <3>4
    <3>6. 16 * Magnitude(b) <= Magnitude(sum + y) /\ Magnitude(b) \in Nat
      BY <2>3, <3>2, <3>4, <3>5
    <3> QED BY <1>1, <3>1, <3>2, <3>4, <3>5, <3>6
  <2> HIDE DEF b
  <2>7. /\ u \in Int /\ c \in Int /\ Magnitude(c) * Leads <= Magnitude(value - res + a + b)
        /\ Magnitude(value - res + a + b) < Leads => c = 0
        /\ u - y = b + c
    <3>1. t - sum = value - res + a + b /\ t - sum \in Int BY <1>1, <1>3, <2>5, <2>6
    <3>2. Magnitude(t - sum) <= 4 * T
      <4>1. Magnitude(value - res + a + b) <= V + T + Magnitude(a) + Magnitude(b)
        BY <1>1, <1>3, <2>4, <2>5, <2>6 DEF Magnitude, V
      <4> QED BY <1>1, <2>5, <2>6, <3>1, <4>1, MagnitudeIs
    <3>3. Magnitude(t - sum) <= 4 * MaxTotal BY <1>1, <1>4, <3>1, <3>2, MagnitudeIs
    <3>4. /\ u \in Int /\ Magnitude(u - (t - sum)) * Leads <= Magnitude(t - sum)
          /\ Magnitude(t - sum) < Leads => u = t - sum
      BY <3>1, <3>3, RoundedBelow DEF u
    <3>5. c \in Int /\ u - y = b + c BY <1>1, <1>3, <2>5, <2>6, <3>1, <3>4
    <3> QED BY <3>1, <3>4, <3>5
  <2> HIDE DEF c
  <2>8. /\ Magnitude(b + c) < Leads
        /\ Magnitude(b + c) * Leads <= 3 * T
        /\ Magnitude(Drift + a - c) * Leads <= 3 * T
    <3> USE DEF V
    <3>1. total + Magnitude(value) = T /\ T \in Nat /\ Magnitude(value) <= T BY <1>1 DEF T
    <3> QED BY ONLY <1>1, <1>3, <1>4, <1>6, <2>1, <2>5, <2>6, <2>7, <3>1, ErrorsSmall
  <2>9. w = b + c
    <3>1. b + c \in Int /\ Magnitude(b + c) \in Nat BY <2>6, <2>7, MagnitudeIs
    <3>2. Magnitude(b + c) <= 4 * MaxTotal BY <1>1, <1>4, <1>6, <2>8, <3>1
    <3> QED BY <2>7, <2>8, <3>1, <3>2, RoundedBelow DEF w
  <2>10. t - w - (exact + value) = Drift + a - c
    BY <1>1, <1>3, <2>5, <2>6, <2>7, <2>9
  <2>11. w \in Int BY <2>6, <2>7, <2>9
  <2> QED BY <1>1, <1>4, <1>6, <2>6, <2>8, <2>9, <2>10, <2>11
<1> QED BY <1>1, <1>4, <1>5, <1>6

LEMMA SumStep ==
  ASSUME TotalsFit, SumInv, [SumNext]_sumVars
  PROVE  SumInv'
<1>1. CASE SumClear
  <2>1. (sum = 0 /\ res = 0 /\ exact = 0 /\ total = 0)' BY <1>1 DEF SumClear
  <2>2. Magnitude(0) = 0 /\ Drift' = 0 BY <2>1 DEF Magnitude, Drift
  <2> QED BY <2>1, <2>2, LeadsAre, MaxTotalAssumption DEF SumInv
<1>2. CASE \E value \in Addends : SumAdd(value) BY <1>2, SumAddStep
<1>3. CASE UNCHANGED sumVars BY <1>3 DEF SumInv, Drift, sumVars
<1> QED BY <1>1, <1>2, <1>3 DEF SumNext

(***************************************************************************)
(* SumAccurate with larger constants: of the 2^(Mantissa + 1)-th part of   *)
(* the total the sum may be off by six instead of two, and together with   *)
(* the residual by three instead of one.                                   *)
(***************************************************************************)
SumClose ==
  /\ Magnitude(sum - exact) * 2^(Mantissa + 1) <= 6 * total
  /\ Magnitude(sum - res - exact) * 2^(Mantissa + 1) <= 3 * total

LEMMA SumFollows == SumInv => SumClose
<1> SUFFICES ASSUME SumInv PROVE SumClose OBVIOUS
<1>1. /\ Magnitude(Drift) * Leads <= 3 * total /\ Magnitude(res) * Leads <= 3 * total
      /\ Drift \in Int /\ res \in Int /\ sum \in Int /\ exact \in Int /\ total \in Nat
  BY DEF SumInv, Drift
<1>2. Leads \in Nat /\ Magnitude(Drift) \in Nat /\ Magnitude(res) \in Nat
      /\ Magnitude(sum - exact) \in Nat
  BY <1>1, LeadsAre, MagnitudeIs
<1>3. Magnitude(sum - exact) <= Magnitude(Drift) + Magnitude(res)
  BY <1>1 DEF Magnitude, Drift
<1>4. Magnitude(sum - exact) * Leads <= (Magnitude(Drift) + Magnitude(res)) * Leads
  BY <1>2, <1>3, MonotoneProduct
<1>5. (Magnitude(Drift) + Magnitude(res)) * Leads
      = Magnitude(Drift) * Leads + Magnitude(res) * Leads
  BY <1>2
<1>6. Magnitude(sum - exact) * Leads <= 6 * total
  <2>1. Magnitude(sum - exact) * Leads \in Nat /\ Magnitude(Drift) * Leads \in Nat
        /\ Magnitude(res) * Leads \in Nat
    BY <1>2
  <2> QED BY <1>1, <1>4, <1>5, <2>1
<1> QED BY <1>1, <1>6 DEF SumClose, Leads, Drift

\* KahanSum's sum stays that close to what was added, for every number of
\* additions, every order of them and every cancellation between them.
THEOREM SumsClose ==
  ASSUME TotalsFit
  PROVE  SumSpec => []SumClose
<1>1. SumInv /\ [SumNext]_sumVars => SumInv' BY SumStep
<1> QED BY <1>1, SumInitial, SumFollows, PTL DEF SumSpec

-----------------------------------------------------------------------------
(***************************************************************************)
(* Library: what uses one of the parts at a time uses each as it may be.   *)
(***************************************************************************)
LEMMA LibraryParts ==
  LibrarySpec => BitsSpec /\ Spec /\ MapSpec /\ CounterSpec /\ RegressionSpec /\ ProductSpec
                 /\ SplitSpec /\ HistogramSpec /\ CalibrationSpec /\ SumSpec
<1>1. LibraryInit => /\ BitsInit /\ StatsInit /\ MapInit /\ CounterInit
                     /\ SnapshotInit /\ RegressionInit /\ ProductInit /\ SplitInit /\ HistogramInit
                     /\ CalibrationInit /\ SumInit
  BY DEF LibraryInit
<1>2. ASSUME [LibraryNext]_libraryVars
      PROVE  /\ [BitsNext]_bitsVars /\ [StatsNext]_statsVars
             /\ [MapNext]_mapVars /\ [CounterNext]_counterVars
             /\ [RegressionNext]_<<snapshotVars, regressionVars>>
             /\ [ProductNext]_productVars /\ [SplitNext]_splitVars
             /\ [HistogramNext]_histogramVars /\ [CalibrationNext]_calibrationVars
             /\ [SumNext]_sumVars
  <2>1. CASE UNCHANGED libraryVars BY <2>1 DEF libraryVars
  <2>2. CASE LibraryNext
    <3>1. /\ part # "bits" => UNCHANGED bitsVars
          /\ part # "micro_stats" => UNCHANGED statsVars
          /\ part # "map" => UNCHANGED mapVars
          /\ part # "counter" => UNCHANGED counterVars
          /\ part # "regression" => UNCHANGED <<snapshotVars, regressionVars>>
          /\ part # "product" => UNCHANGED productVars
          /\ part # "split" => UNCHANGED splitVars
          /\ part # "histogram" => UNCHANGED histogramVars
          /\ part # "calibration" => UNCHANGED calibrationVars
          /\ part # "sum" => UNCHANGED sumVars
      BY <2>2 DEF LibraryNext, OthersKept, Keeps
    <3>2. /\ part = "bits" => BitsNext
          /\ part = "micro_stats" => StatsNext
          /\ part = "map" => MapNext
          /\ part = "counter" => CounterNext
          /\ part = "regression" => RegressionNext
          /\ part = "product" => ProductNext
          /\ part = "split" => SplitNext
          /\ part = "histogram" => HistogramNext
          /\ part = "calibration" => CalibrationNext
          /\ part = "sum" => SumNext
      BY <2>2 DEF LibraryNext
    <3> QED BY <3>1, <3>2
  <2> QED BY <1>2, <2>1, <2>2
<1> QED BY <1>1, <1>2, PTL DEF LibrarySpec, BitsSpec, Spec, MapSpec, CounterSpec, RegressionSpec,
      ProductSpec, SplitSpec, HistogramSpec, CalibrationSpec, SumSpec

(***************************************************************************)
(* What holds of the parts holds of a program that uses them one at a      *)
(* time, which is what the run of Library checks.                          *)
(***************************************************************************)
THEOREM LibraryKeeps ==
  LibrarySpec => /\ []RangeHoldsNumber /\ BinsAreContiguous /\ []FloatAgrees
                 /\ []ValuesFollowKeys /\ StopInSection /\ []BestIsLeast
                 /\ []EveryCombinationOnce /\ []FieldsOfText /\ []PercentileOfRank
BY LibraryParts, RangesHold, BinsFollow, FloatsAgree, ValuesInOrder, SectionCounted,
   LeastReported, EachOnce, FieldsAreWords, RankReported

\* And what holds of the values whose bins and offsets fit.
THEOREM LibraryPercentiles ==
  ASSUME Fits
  PROVE  LibrarySpec => []PercentileAccurate /\ []PercentileMonotone
BY LibraryParts, PercentilesClose, PercentilesRise, PTL

\* And of the clocks that do not come to the end of their range.
THEOREM LibraryPauses ==
  ASSUME ClockLasts
  PROVE  LibrarySpec => []PausesAreReal
BY LibraryParts, PausesCounted

\* And of the sums whose totals fit.
THEOREM LibrarySums ==
  ASSUME TotalsFit
  PROVE  LibrarySpec => []SumClose
BY LibraryParts, SumsClose
=============================================================================
