--------------------------- MODULE SetStore_proofs ---------------------------
(***************************************************************************)
(* Theorems about SetStore, for sets of any number and size of any         *)
(* elements.                                                               *)
(***************************************************************************)
EXTENDS SetStore, FiniteSetTheorems, SequenceTheorems, TLAPS

LEMMA AtMost ==
  ASSUME NEW l \in Nat, NEW m \in Nat, NEW n \in Nat, l <= m, m <= n
  PROVE  l <= n
OBVIOUS

----------------------------------------------------------------------------
(* Ranks: how arrays are numbered and how a stable sort orders.            *)

LEMMA LeastNumber ==
  ASSUME NEW T \in SUBSET Nat, T # {}
  PROVE  \E n \in T : \A m \in T : n <= m
<1> DEFINE R == {p \in Nat \X Nat : p[1] < p[2]}
<1>1. R = OpToRel(<, Nat)
  BY DEF OpToRel
<1>2. IsWellFoundedOn(R, Nat)
  BY <1>1, NatLessThanWellFounded, Zenon
<1> HIDE DEF R
<1>3. PICK n \in T : \A m \in T : ~(<<m, n>> \in R)
  BY <1>2, WFMin
<1>4. ASSUME NEW m \in T
      PROVE  n <= m
  <2>1. <<m, n>> \notin R
    BY <1>3
  <2> QED BY <2>1 DEF R
<1> QED BY <1>4

(* The rank of a in S, whose strict order is R. *)
RankIn(S, R, a) == Cardinality({x \in S : <<x, a>> \in R})
IsOrder(S, R) ==
  /\ \A x \in S : <<x, x>> \notin R
  /\ \A x, y \in S : x # y => <<x, y>> \in R \/ <<y, x>> \in R
  /\ \A x, y, z \in S : <<x, y>> \in R /\ <<y, z>> \in R => <<x, z>> \in R

LEMMA RanksAreDistinct ==
  ASSUME NEW S, IsFiniteSet(S), NEW R, IsOrder(S, R)
  PROVE  /\ \A a \in S : RankIn(S, R, a) \in 0 .. Cardinality(S) - 1
         /\ \A a, b \in S : RankIn(S, R, a) = RankIn(S, R, b) => a = b
<1> DEFINE below(a) == {x \in S : <<x, a>> \in R}
<1>1. Cardinality(S) \in Nat
  BY FS_CardinalityType
<1>2. ASSUME NEW a \in S
      PROVE  /\ IsFiniteSet(below(a)) /\ Cardinality(below(a)) \in Nat
             /\ Cardinality(below(a)) < Cardinality(S)
  <2>1. below(a) \in SUBSET S /\ below(a) # S
    BY DEF IsOrder
  <2> HIDE DEF below
  <2>2. /\ IsFiniteSet(below(a)) /\ Cardinality(below(a)) <= Cardinality(S)
        /\ Cardinality(below(a)) # Cardinality(S)
    BY <2>1, FS_Subset
  <2> QED BY <1>1, <2>2, FS_CardinalityType
<1>3. ASSUME NEW a \in S, NEW b \in S, <<a, b>> \in R
      PROVE  Cardinality(below(a)) < Cardinality(below(b))
  <2>1. below(a) \in SUBSET below(b)
    BY <1>3 DEF IsOrder
  <2>2. a \in below(b) /\ a \notin below(a)
    BY <1>3 DEF IsOrder
  <2> HIDE DEF below
  <2>3. Cardinality(below(a)) <= Cardinality(below(b))
        /\ Cardinality(below(a)) # Cardinality(below(b))
    BY <1>2, <2>1, <2>2, FS_Subset
  <2> QED BY <1>2, <2>3
<1>4. ASSUME NEW a \in S, NEW b \in S, a # b
      PROVE  Cardinality(below(a)) # Cardinality(below(b))
  <2>1. <<a, b>> \in R \/ <<b, a>> \in R
    BY <1>4 DEF IsOrder
  <2> HIDE DEF below
  <2> QED BY <1>2, <1>3, <2>1
<1>5. \A a : RankIn(S, R, a) = Cardinality(below(a))
  BY DEF RankIn
<1> HIDE DEF below
<1> QED BY <1>1, <1>2, <1>4, <1>5

LEMMA EveryRankOccurs ==
  ASSUME NEW S, IsFiniteSet(S), NEW R, IsOrder(S, R), NEW k \in 0 .. Cardinality(S) - 1
  PROVE  \E a \in S : RankIn(S, R, a) = k
<1> SUFFICES ASSUME \A a \in S : RankIn(S, R, a) # k
             PROVE  FALSE
  OBVIOUS
<1> DEFINE n == Cardinality(S)
           T == (0 .. n - 1) \ {k}
           rank == [a \in S |-> RankIn(S, R, a)]
<1>1. n \in Nat /\ n >= 1
  BY FS_CardinalityType
<1>2. IsFiniteSet(T) /\ Cardinality(T) = n - 1
  <2>1. IsFiniteSet(0 .. n - 1) /\ Cardinality(0 .. n - 1) = n
    BY <1>1, FS_Interval
  <2> HIDE DEF n
  <2> QED BY <1>1, <2>1, FS_RemoveElement DEF n
<1>3. rank \in [S -> T]
  BY RanksAreDistinct
<1>4. \E x, y \in S : x # y /\ rank[x] = rank[y]
  <2> HIDE DEF T, rank
  <2> QED BY <1>1, <1>2, <1>3, FS_PigeonHole
<1> QED BY <1>4, RanksAreDistinct

LEMMA BucketsAreNumbers == Buckets \in SUBSET Nat /\ IsFiniteSet(Buckets)
<1> DEFINE f == [t \in DOMAIN Checksum |-> Checksum[t]]
<1>1. f \in Surjection(DOMAIN Checksum, Buckets)
  BY DEF Surjection, Buckets
<1>2. IsFiniteSet(Buckets)
  <2> HIDE DEF f
  <2> QED BY <1>1, FS_Surjection, ElementsAssumption
<1> QED BY <1>2, ElementsAssumption DEF Buckets

LEMMA PositionsAreDistinct ==
  /\ \A b \in Buckets : Position(b) \in 1 .. Cardinality(Buckets)
  /\ \A b, c \in Buckets : Position(b) = Position(c) => b = c
<1> DEFINE R == {p \in Nat \X Nat : p[1] < p[2]}
<1>1. IsOrder(Buckets, R)
  BY BucketsAreNumbers DEF IsOrder
<1>2. \A b \in Buckets : Position(b) = RankIn(Buckets, R, b) + 1
  <2>1. ASSUME NEW b \in Buckets
        PROVE  {x \in Buckets : x < b} = {x \in Buckets : <<x, b>> \in R}
    BY BucketsAreNumbers
  <2> QED BY <2>1 DEF Position, RankIn
<1>3. /\ \A b \in Buckets : RankIn(Buckets, R, b) \in 0 .. Cardinality(Buckets) - 1
      /\ \A b, c \in Buckets : RankIn(Buckets, R, b) = RankIn(Buckets, R, c) => b = c
  <2> HIDE DEF R
  <2> QED BY <1>1, BucketsAreNumbers, RanksAreDistinct
<1>4. Cardinality(Buckets) \in Nat
  BY BucketsAreNumbers, FS_CardinalityType
<1> HIDE DEF R
<1> QED BY <1>2, <1>3, <1>4

----------------------------------------------------------------------------
(* Sets and arrays that fit together.                                      *)

(* Slot b of set h in ss has a slice. *)
Filled(ss, h, b) == h \in Handles /\ b \in Buckets /\ ss[h] # Nothing /\ ss[h].vals[b] # Nothing

SetsOK(ss) == ss \in [Handles -> {Nothing} \cup Set]

FitsIn(s, array) ==
  array \in Array /\ Len(array.data) <= array.cap /\ s.len <= Len(array.data)
Fit(ss, arrays) ==
  \A h \in Handles, b \in Buckets :
    Filled(ss, h, b) => FitsIn(ss[h].vals[b], arrays[ss[h].vals[b].array])

LEMMA SetFields ==
  ASSUME NEW ss, SetsOK(ss), NEW h \in Handles, ss[h] # Nothing
  PROVE  /\ ss[h] \in Set /\ ss[h].sealed \in BOOLEAN
         /\ ss[h].vals \in [Buckets -> {Nothing} \cup Slice]
         /\ \A b \in Buckets : ss[h].vals[b] # Nothing =>
              /\ ss[h].vals[b] \in Slice /\ ss[h].vals[b].array \in Arrays
              /\ ss[h].vals[b].len \in 1 .. MaxLength
BY DEF SetsOK, Set, Slice

LEMMA SlicesInUse ==
  ASSUME NEW ss
  PROVE  \A s : s \in SlicesIn(ss) <=>
           \E h \in Handles, b \in Buckets : Filled(ss, h, b) /\ ss[h].vals[b] = s
<1>1. ASSUME NEW h \in Handles, NEW b \in Buckets, Filled(ss, h, b)
      PROVE  ss[h].vals[b] \in SlicesIn(ss)
  <2> DEFINE q == <<h, b>>
  <2>1. q \in Handles \X Buckets /\ q[1] = h /\ q[2] = b
    OBVIOUS
  <2> HIDE DEF q
  <2>2. ss[q[1]] # Nothing /\ ss[q[1]].vals[q[2]] # Nothing
    BY <1>1, <2>1 DEF Filled
  <2>3. ss[q[1]].vals[q[2]] \in SlicesIn(ss)
    BY <2>1, <2>2 DEF SlicesIn
  <2> QED BY <2>1, <2>3
<1>2. ASSUME NEW s \in SlicesIn(ss)
      PROVE  \E h \in Handles, b \in Buckets : Filled(ss, h, b) /\ ss[h].vals[b] = s
  <2>1. PICK q \in Handles \X Buckets :
          ss[q[1]] # Nothing /\ s = ss[q[1]].vals[q[2]] /\ s # Nothing
    BY DEF SlicesIn
  <2>2. q[1] \in Handles /\ q[2] \in Buckets
    OBVIOUS
  <2> QED BY <2>1, <2>2 DEF Filled
<1> QED BY <1>1, <1>2

LEMMA ArraysInUse ==
  ASSUME NEW ss, SetsOK(ss)
  PROVE  /\ ArraysIn(ss) \in SUBSET Arrays
         /\ \A a : a \in ArraysIn(ss) <=>
              \E h \in Handles, b \in Buckets : Filled(ss, h, b) /\ ss[h].vals[b].array = a
<1>1. \A s : s \in SlicesIn(ss) <=>
        \E h \in Handles, b \in Buckets : Filled(ss, h, b) /\ ss[h].vals[b] = s
  BY SlicesInUse
<1>2. \A a : a \in ArraysIn(ss) <=>
        \E h \in Handles, b \in Buckets : Filled(ss, h, b) /\ ss[h].vals[b].array = a
  BY <1>1 DEF ArraysIn
<1>3. \A h \in Handles, b \in Buckets : Filled(ss, h, b) => ss[h].vals[b].array \in Arrays
  BY SetFields DEF Filled
<1> QED BY <1>2, <1>3

(* What TypeOK says, slot by slot. *)
LEMMA TypeOKSaysFit ==
  ASSUME TypeOK
  PROVE  SetsOK(sets) /\ Fit(sets, heap)
<1>1. SetsOK(sets)
  BY DEF TypeOK, SetsOK
<1>2. ASSUME NEW h \in Handles, NEW b \in Buckets, Filled(sets, h, b)
      PROVE  FitsIn(sets[h].vals[b], heap[sets[h].vals[b].array])
  <2>1. sets[h].vals[b] \in SlicesIn(sets)
    BY <1>2, SlicesInUse
  <2>2. sets[h].vals[b].array \in ArraysIn(sets) /\ sets[h].vals[b].array \in Arrays
    BY <1>1, <1>2, <2>1, SetFields DEF ArraysIn, Filled
  <2>3. heap[sets[h].vals[b].array] \in Array
    BY <2>2 DEF TypeOK
  <2> QED BY <2>1, <2>2, <2>3 DEF TypeOK, FitsIn
<1> QED BY <1>1, <1>2 DEF Fit

LEMMA BecomingKeepsTypeOK ==
  ASSUME NEW ss, NEW arrays, Become(ss, arrays), SetsOK(ss), Fit(ss, arrays)
  PROVE  TypeOK'
<1>1. /\ sets' = ss /\ ArraysIn(ss) \in SUBSET Arrays
      /\ heap' = [a \in Arrays |-> IF a \in ArraysIn(ss) THEN arrays[a] ELSE Nothing]
  BY ArraysInUse DEF Become
<1>2. ASSUME NEW h \in Handles, NEW b \in Buckets, Filled(ss, h, b), NEW a \in ArraysIn(ss),
             ss[h].vals[b].array = a
      PROVE  FitsIn(ss[h].vals[b], heap'[a]) /\ heap'[a] # Nothing
  <2>1. heap'[a] = arrays[a]
    BY <1>1
  <2>2. FitsIn(ss[h].vals[b], arrays[a])
    BY <1>2 DEF Fit
  <2> QED BY <2>1, <2>2, NothingAssumption DEF FitsIn
<1>3. \A a \in ArraysIn(ss) : heap'[a] \in Array /\ Len(heap'[a].data) <= heap'[a].cap
                              /\ heap'[a] # Nothing
  BY <1>2, ArraysInUse DEF FitsIn
<1>4. ASSUME NEW s \in SlicesIn(ss)
      PROVE  s.len <= Len(heap'[s.array].data)
  <2>1. PICK h \in Handles, b \in Buckets : Filled(ss, h, b) /\ ss[h].vals[b] = s
    BY SlicesInUse
  <2>2. s.array \in ArraysIn(ss)
    BY DEF ArraysIn
  <2> QED BY <1>2, <2>1, <2>2 DEF FitsIn
<1>5. \A a \in Arrays : heap'[a] = Nothing <=> a \notin ArraysIn(ss)
  BY <1>1, <1>3
<1>6. sets' \in [Handles -> {Nothing} \cup Set] /\ heap' \in [Arrays -> {Nothing} \cup Array]
  <2>1. \A a \in ArraysIn(ss) : arrays[a] \in Array
    BY <1>1, <1>3
  <2> QED BY <1>1, <2>1 DEF SetsOK
<1>7. ArraysIn(sets)' = ArraysIn(ss) /\ SlicesIn(sets)' = SlicesIn(ss)
  BY <1>1 DEF ArraysIn, SlicesIn
<1> QED BY <1>3, <1>4, <1>5, <1>6, <1>7 DEF TypeOK

----------------------------------------------------------------------------
(* There is always an array for every bucket of one more set.              *)

LEMMA EnoughArrays ==
  ASSUME SetsOK(sets)
  PROVE  /\ IsFiniteSet(Arrays \ ArraysIn(sets))
         /\ Cardinality(Arrays \ ArraysIn(sets)) \in Nat
         /\ Cardinality(Arrays \ ArraysIn(sets)) >= Cardinality(Buckets)
<1> DEFINE P == {p \in Handles \X Buckets : Filled(sets, p[1], p[2])}
           f == [p \in P |-> sets[p[1]].vals[p[2]].array]
           m == Cardinality(Handles)
           n == Cardinality(Buckets)
<1>1. m \in Nat /\ n \in Nat
  BY ElementsAssumption, BucketsAreNumbers, FS_CardinalityType
<1>2. IsFiniteSet(Handles \X Buckets) /\ Cardinality(Handles \X Buckets) = m * n
  BY ElementsAssumption, BucketsAreNumbers, FS_Product
<1>3. P \in SUBSET (Handles \X Buckets)
  OBVIOUS
<1>4. IsFiniteSet(P) /\ Cardinality(P) <= m * n
  <2> HIDE DEF P
  <2> QED BY <1>2, <1>3, FS_Subset
<1>5. f \in Surjection(P, ArraysIn(sets))
  <2>1. \A p \in P : f[p] \in ArraysIn(sets)
    BY ArraysInUse
  <2>2. ASSUME NEW a \in ArraysIn(sets)
        PROVE  \E p \in P : f[p] = a
    <3>1. PICK h \in Handles, b \in Buckets : Filled(sets, h, b) /\ sets[h].vals[b].array = a
      BY ArraysInUse
    <3>2. <<h, b>> \in P /\ f[<<h, b>>] = a
      BY <3>1
    <3> QED BY <3>2
  <2> QED BY <2>1, <2>2 DEF Surjection
<1>6. IsFiniteSet(ArraysIn(sets)) /\ Cardinality(ArraysIn(sets)) <= Cardinality(P)
  <2> HIDE DEF P, f
  <2> QED BY <1>4, <1>5, FS_Surjection
<1>7. IsFiniteSet(Arrays) /\ Cardinality(Arrays) = (m + 1) * n
  <2>1. (m + 1) * n \in Nat
    BY <1>1
  <2>2. Arrays = 1 .. (m + 1) * n
    BY DEF Arrays
  <2> HIDE DEF m, n
  <2> QED BY <2>1, <2>2, FS_Interval
<1>8. ArraysIn(sets) \in SUBSET Arrays
  BY ArraysInUse
<1>9. /\ IsFiniteSet(Arrays \ ArraysIn(sets))
      /\ Cardinality(Arrays \ ArraysIn(sets)) = (m + 1) * n - Cardinality(ArraysIn(sets))
  <2>1. Arrays \cap ArraysIn(sets) = ArraysIn(sets)
    BY <1>8
  <2> QED BY <1>7, <2>1, FS_Difference, Zenon
<1>10. Cardinality(ArraysIn(sets)) \in Nat /\ Cardinality(P) \in Nat
       /\ Cardinality(Arrays \ ArraysIn(sets)) \in Nat
  BY <1>4, <1>6, <1>9, FS_CardinalityType
<1>11. (m + 1) * n = m * n + n /\ m * n \in Nat
  BY <1>1
<1> HIDE DEF P, m, f
<1> QED BY <1>1, <1>4, <1>6, <1>9, <1>10, <1>11

LEMMA UnusedArrays ==
  ASSUME SetsOK(sets)
  PROVE  /\ \A k \in 1 .. Cardinality(Buckets) : Unused(k) \in Arrays \ ArraysIn(sets)
         /\ \A k, l \in 1 .. Cardinality(Buckets) : Unused(k) = Unused(l) => k = l
<1> DEFINE free == Arrays \ ArraysIn(sets)
           R == {p \in Nat \X Nat : p[1] < p[2]}
           below(a) == {x \in free : x < a}
<1>1. /\ IsFiniteSet(free) /\ Cardinality(free) \in Nat
      /\ Cardinality(Buckets) \in Nat /\ Cardinality(Buckets) <= Cardinality(free)
  BY EnoughArrays, BucketsAreNumbers, FS_CardinalityType
<1>2. free \in SUBSET Nat
  BY DEF Arrays
<1>3. \A a \in free : RankIn(free, R, a) = Cardinality(below(a))
  <2>1. \A a \in free : below(a) = {x \in free : <<x, a>> \in R}
    BY <1>2
  <2> QED BY <2>1 DEF RankIn
<1>4. IsOrder(free, R)
  BY <1>2 DEF IsOrder
<1>5. ASSUME NEW k \in 1 .. Cardinality(Buckets)
      PROVE  Unused(k) \in free /\ Cardinality(below(Unused(k))) = k - 1
  <2>1. k - 1 \in 0 .. Cardinality(free) - 1
    BY <1>1
  <2>2. \E a \in free : RankIn(free, R, a) = k - 1
    <3> HIDE DEF free, R
    <3> QED BY <1>1, <1>4, <2>1, EveryRankOccurs
  <2>3. \E a \in free : Cardinality(below(a)) = k - 1
    BY <1>3, <2>2
  <2>4. Unused(k) = CHOOSE a \in free : Cardinality(below(a)) = k - 1
    BY DEF Unused
  <2> HIDE DEF free, below
  <2> QED BY <2>3, <2>4
<1>6. ASSUME NEW k \in 1 .. Cardinality(Buckets), NEW l \in 1 .. Cardinality(Buckets),
             Unused(k) = Unused(l)
      PROVE  k = l
  <2>1. k - 1 = l - 1
    <3> HIDE DEF below
    <3> QED BY <1>5, <1>6
  <2> QED BY <2>1
<1> QED BY <1>5, <1>6

(* For the buckets of a new set, and for one bucket. *)
LEMMA NewArrays ==
  ASSUME SetsOK(sets)
  PROVE  /\ \A b \in Buckets : /\ Unused(Position(b)) \in Arrays \ ArraysIn(sets)
                               /\ Unused(1) \in Arrays \ ArraysIn(sets)
         /\ \A b, c \in Buckets : Unused(Position(b)) = Unused(Position(c)) => b = c
<1>1. ASSUME NEW b \in Buckets PROVE 1 \in 1 .. Cardinality(Buckets)
  <2>1. Position(b) \in 1 .. Cardinality(Buckets) /\ Cardinality(Buckets) \in Nat
    BY PositionsAreDistinct, BucketsAreNumbers, FS_CardinalityType
  <2> QED BY <2>1
<1> QED BY <1>1, PositionsAreDistinct, UnusedArrays

----------------------------------------------------------------------------
(* Who shares arrays with whom.                                            *)

Apart(ss) ==
  \A g, h \in Handles : \A b, c \in Buckets :
    (/\ Filled(ss, g, b) /\ Filled(ss, h, c) /\ <<g, b>> # <<h, c>>
     /\ ss[g].vals[b].array = ss[h].vals[c].array /\ ~ss[g].sealed)
      => ss[h].sealed /\ ss[h].vals[c].len <= ss[g].vals[b].len

(* With these arrays, slot c of set g shows what it did. *)
Stays(g, c, arrays) ==
  Filled(sets, g, c) =>
    LET s == sets[g].vals[c] IN
    SubSeq(arrays[s.array].data, 1, s.len) = SubSeq(heap[s.array].data, 1, s.len)

(* A step to ss with these arrays that changes set h and no other. *)
Sound(h, ss, arrays) ==
  /\ Become(ss, arrays) /\ SetsOK(ss) /\ Fit(ss, arrays)
  /\ \A g \in Handles : g # h => ss[g] = sets[g]
  /\ ~Copying /\ Apart(sets) =>
       Apart(ss) /\ \A g \in Handles, c \in Buckets : g # h => Stays(g, c, arrays)

(* In ss with these arrays, slot b of set h shows seq. *)
Shows(h, b, ss, arrays, seq) ==
  LET s == ss[h].vals[b] IN
  IF s = Nothing THEN seq = << >> ELSE seq = SubSeq(arrays[s.array].data, 1, s.len)

(* Such a step leaves in h a set with these members. *)
Leaves(h, wrapped, buckets, ss, arrays) ==
  /\ ss[h] # Nothing /\ ss[h].sealed = wrapped
  /\ ~Copying /\ Apart(sets) => \A b \in Buckets : Shows(h, b, ss, arrays, buckets[b])
SoundStep(h, wrapped, buckets) ==
  \E ss, arrays : Sound(h, ss, arrays) /\ Leaves(h, wrapped, buckets, ss, arrays)

(* The members of h, those of bucket b replaced. *)
With(h, b, seq) == [c \in Buckets |-> IF c = b THEN seq ELSE Bucket(h, c)]

LEMMA SharersAreApart ==
  ASSUME NEW ss, Apart(ss), NEW g \in Handles, NEW h \in Handles,
         NEW b \in Buckets, NEW c \in Buckets, Filled(ss, g, b), Filled(ss, h, c),
         ss[g].vals[b].array = ss[h].vals[c].array, ~ss[g].sealed,
         g # h \/ b # c
  PROVE  ss[h].sealed /\ ss[h].vals[c].len <= ss[g].vals[b].len
<1>1. <<g, b>> # <<h, c>>
  OBVIOUS
<1> QED BY <1>1 DEF Apart

(* A set that is not sealed, or a new one, gets slices of new arrays, none *)
(* twice, besides slices that it has.                                      *)
FreshSlots(h, vals, arrays) ==
  /\ \A a \in ArraysIn(sets) : arrays[a] = heap[a]
  /\ \A b \in Buckets : vals[b] # Nothing =>
       \/ Filled(sets, h, b) /\ vals[b] = sets[h].vals[b]
       \/ vals[b].array \notin ArraysIn(sets) /\ FitsIn(vals[b], arrays[vals[b].array])
  /\ \A b, c \in Buckets :
       /\ vals[b] # Nothing /\ vals[c] # Nothing
       /\ vals[b].array \notin ArraysIn(sets) /\ vals[b].array = vals[c].array
       => b = c

LEMMA FreshSlotsAreSound ==
  ASSUME TypeOK, NEW h \in Handles, Live(h) => ~sets[h].sealed,
         NEW r \in Set, ~r.sealed, NEW vals, r.vals = vals, NEW arrays,
         FreshSlots(h, vals, arrays), NEW ss, ss = [sets EXCEPT ![h] = r], Become(ss, arrays)
  PROVE  Sound(h, ss, arrays)
<1> USE DEF FreshSlots
<1>1. SetsOK(sets) /\ Fit(sets, heap)
  BY TypeOKSaysFit
<1>2. ss[h] = r
  BY <1>1 DEF SetsOK
<1>3. SetsOK(ss) /\ \A g \in Handles : g # h => ss[g] = sets[g]
  BY <1>1, <1>2 DEF SetsOK
<1>4. ss[h] # Nothing /\ ss[h].vals = vals /\ ~ss[h].sealed
  BY <1>2, NothingAssumption
<1>5. ASSUME NEW g \in Handles, NEW b \in Buckets, Filled(ss, g, b)
      PROVE  \/ Filled(sets, g, b) /\ ss[g].vals[b] = sets[g].vals[b]
             \/ /\ g = h /\ ss[g].vals[b].array \notin ArraysIn(sets)
                /\ FitsIn(vals[b], arrays[vals[b].array])
  BY <1>3, <1>4, <1>5 DEF Filled
<1>6. Fit(ss, arrays)
  <2>1. ASSUME NEW g \in Handles, NEW b \in Buckets, Filled(sets, g, b)
        PROVE  arrays[sets[g].vals[b].array] = heap[sets[g].vals[b].array]
    <3>1. sets[g].vals[b].array \in ArraysIn(sets)
      BY <1>1, <2>1, ArraysInUse
    <3> QED BY <3>1
  <2>2. ASSUME NEW g \in Handles, NEW b \in Buckets, Filled(ss, g, b)
        PROVE  FitsIn(ss[g].vals[b], arrays[ss[g].vals[b].array])
    <3>1. CASE Filled(sets, g, b) /\ ss[g].vals[b] = sets[g].vals[b]
      <4>1. FitsIn(sets[g].vals[b], heap[sets[g].vals[b].array])
        BY <1>1, <3>1 DEF Fit
      <4> QED BY <2>1, <3>1, <4>1
    <3>2. CASE g = h /\ FitsIn(vals[b], arrays[vals[b].array])
      BY <1>4, <3>2
    <3> QED BY <1>5, <2>2, <3>1, <3>2
  <2> QED BY <2>2 DEF Fit
<1>7. ASSUME Apart(sets)
      PROVE  Apart(ss)
  <2> SUFFICES ASSUME NEW g \in Handles, NEW f \in Handles,
                      NEW b \in Buckets, NEW c \in Buckets,
                      Filled(ss, g, b), Filled(ss, f, c), <<g, b>> # <<f, c>>,
                      ss[g].vals[b].array = ss[f].vals[c].array, ~ss[g].sealed
               PROVE  ss[f].sealed /\ ss[f].vals[c].len <= ss[g].vals[b].len
    BY DEF Apart
  <2>1. CASE ss[g].vals[b].array \notin ArraysIn(sets)
    <3>1. g = h /\ f = h
      <4>1. \A e \in Handles, x \in Buckets : Filled(sets, e, x) =>
              sets[e].vals[x].array \in ArraysIn(sets)
        BY <1>1, ArraysInUse
      <4>2. ~(Filled(sets, g, b) /\ ss[g].vals[b] = sets[g].vals[b])
        BY <2>1, <4>1
      <4>3. ~(Filled(sets, f, c) /\ ss[f].vals[c] = sets[f].vals[c])
        BY <2>1, <4>1
      <4> QED BY <1>5, <4>2, <4>3
    <3>2. vals[b] # Nothing /\ vals[c] # Nothing /\ vals[b].array = vals[c].array
          /\ vals[b].array \notin ArraysIn(sets)
      BY <1>4, <2>1, <3>1 DEF Filled
    <3>3. b = c
      BY <3>2
    <3> QED BY <3>1, <3>3
  <2>2. CASE ss[g].vals[b].array \in ArraysIn(sets)
    <3>1. /\ Filled(sets, g, b) /\ ss[g].vals[b] = sets[g].vals[b]
          /\ Filled(sets, f, c) /\ ss[f].vals[c] = sets[f].vals[c]
      BY <1>5, <2>2
    <3>2. ~sets[g].sealed
      BY <1>3, <3>1 DEF Filled, Live
    <3>3. g # f \/ b # c
      OBVIOUS
    <3>4. sets[f].sealed /\ sets[f].vals[c].len <= sets[g].vals[b].len
      BY <1>7, <3>1, <3>2, <3>3, SharersAreApart
    <3>5. f # h
      BY <3>1, <3>4 DEF Filled, Live
    <3> QED BY <1>3, <3>1, <3>4, <3>5
  <2> QED BY <2>1, <2>2
<1>8. ASSUME NEW g \in Handles, NEW c \in Buckets
      PROVE  Stays(g, c, arrays)
  BY <1>1, ArraysInUse DEF Stays
<1> QED BY <1>3, <1>6, <1>7, <1>8 DEF Sound

LEMMA DiscardIsSound ==
  ASSUME TypeOK, NEW h \in Handles, Discard(h)
  PROVE  \E ss, arrays : Sound(h, ss, arrays) /\ ss[h] = Nothing
<1> DEFINE ss == [sets EXCEPT ![h] = Nothing]
<1>1. SetsOK(sets) /\ Fit(sets, heap)
  BY TypeOKSaysFit
<1>2. SetsOK(ss) /\ ss[h] = Nothing /\ \A g \in Handles : g # h => ss[g] = sets[g]
  BY <1>1 DEF SetsOK
<1>3. Become(ss, heap)
  BY DEF Discard
<1> HIDE DEF ss
<1>4. ASSUME NEW g \in Handles, NEW b \in Buckets, Filled(ss, g, b)
      PROVE  Filled(sets, g, b) /\ ss[g] = sets[g]
  BY <1>2, <1>4 DEF Filled
<1>5. Fit(ss, heap)
  BY <1>1, <1>4 DEF Fit
<1>6. Apart(sets) => Apart(ss)
  BY <1>4 DEF Apart
<1>7. \A g \in Handles, c \in Buckets : Stays(g, c, heap)
  BY DEF Stays
<1> QED BY <1>2, <1>3, <1>5, <1>6, <1>7 DEF Sound

(* A copy of a set that is not sealed: it gives the writer another sharer, *)
(* or, with Copying, a second writer.                                      *)
LEMMA CopyIsSound ==
  ASSUME TypeOK, NEW h \in Handles, NEW d \in Handles,
         NEW wrapped \in BOOLEAN, CopyTo(h, d, wrapped), wrapped \/ Copying, Writable(h)
  PROVE  SoundStep(d, wrapped, Members(h))
<1> DEFINE ss == [sets EXCEPT ![d] = [sealed |-> wrapped, vals |-> sets[h].vals]]
<1>1. SetsOK(sets) /\ Fit(sets, heap)
  BY TypeOKSaysFit
<1>2. Live(h) /\ ~sets[h].sealed /\ ~Live(d) /\ d # h /\ Become(ss, heap)
  BY DEF CopyTo, Writable
<1>3. [sealed |-> wrapped, vals |-> sets[h].vals] \in Set
  BY <1>1, <1>2, SetFields DEF Set, Live
<1>4. /\ SetsOK(ss) /\ \A g \in Handles : g # d => ss[g] = sets[g]
      /\ ss[d] = [sealed |-> wrapped, vals |-> sets[h].vals]
  BY <1>1, <1>3 DEF SetsOK
<1> HIDE DEF ss
<1>5. ss[d].vals = sets[h].vals /\ ss[d].sealed = wrapped
  BY <1>4
<1>6. ASSUME NEW g \in Handles, NEW b \in Buckets, Filled(ss, g, b)
      PROVE  IF g = d THEN Filled(sets, h, b) /\ ss[g].vals[b] = sets[h].vals[b]
                      ELSE Filled(sets, g, b) /\ ss[g] = sets[g]
  BY <1>2, <1>4, <1>5, <1>6 DEF Filled, Live
<1>7. Fit(ss, heap)
  BY <1>1, <1>6 DEF Fit
<1>8. ASSUME ~Copying, Apart(sets)
      PROVE  Apart(ss)
  <2> SUFFICES ASSUME NEW g \in Handles, NEW f \in Handles,
                      NEW b \in Buckets, NEW c \in Buckets,
                      Filled(ss, g, b), Filled(ss, f, c), <<g, b>> # <<f, c>>,
                      ss[g].vals[b].array = ss[f].vals[c].array, ~ss[g].sealed
               PROVE  ss[f].sealed /\ ss[f].vals[c].len <= ss[g].vals[b].len
    BY DEF Apart
  <2>1. wrapped /\ g # d /\ Filled(sets, g, b) /\ ss[g] = sets[g] /\ (g # f \/ b # c)
    BY <1>5, <1>6, <1>8
  <2>2. CASE f = d
    <3>1. Filled(sets, h, c) /\ ss[f].vals[c] = sets[h].vals[c]
      BY <1>6, <2>2
    <3>2. g = h /\ b = c
      BY <1>2, <1>8, <2>1, <3>1, SharersAreApart
    <3>3. ss[g].vals[b].len \in 1 .. MaxLength
      BY <1>1, <2>1, SetFields DEF Filled
    <3>4. ss[f].vals[c].len = ss[g].vals[b].len
      BY <2>1, <3>1, <3>2
    <3>5. MaxLength \in Nat
      BY ElementsAssumption
    <3>6. ss[f].sealed
      BY <1>5, <2>1, <2>2
    <3> QED BY <3>3, <3>4, <3>5, <3>6
  <2>3. CASE f # d
    <3>1. Filled(sets, f, c) /\ ss[f] = sets[f]
      BY <1>6, <2>3
    <3> QED BY <1>8, <2>1, <3>1, SharersAreApart
  <2> QED BY <2>2, <2>3
<1>9. \A g \in Handles, c \in Buckets : Stays(g, c, heap)
  BY DEF Stays
<1>10. \A b \in Buckets : Shows(d, b, ss, heap, Members(h)[b])
  BY <1>5 DEF Shows, Members, Bucket, Shown
<1>11. ss[d] # Nothing
  BY <1>3, <1>4, NothingAssumption
<1> QED BY <1>2, <1>4, <1>5, <1>7, <1>8, <1>9, <1>10, <1>11 DEF SoundStep, Sound, Leaves

----------------------------------------------------------------------------
(* The members of a set, and one more or less of them.                     *)

LEMMA SlotFacts ==
  ASSUME TypeOK, NEW h, NEW b, Filled(sets, h, b)
  PROVE  LET s == sets[h].vals[b] IN
         /\ s.array \in Arrays /\ s.len \in 1 .. MaxLength /\ s.array \in ArraysIn(sets)
         /\ heap[s.array].cap \in 1 .. 2 * MaxLength /\ heap[s.array].data \in Seq(Elements)
         /\ Len(heap[s.array].data) <= heap[s.array].cap
         /\ s.len <= Len(heap[s.array].data)
<1>1. SetsOK(sets) /\ Fit(sets, heap)
  BY TypeOKSaysFit
<1> DEFINE s == sets[h].vals[b]
<1>2. s.array \in Arrays /\ s.len \in 1 .. MaxLength /\ s.array \in ArraysIn(sets)
  BY <1>1, SetFields, ArraysInUse DEF Filled
<1>3. FitsIn(s, heap[s.array])
  BY <1>1 DEF Fit, Filled
<1>4. heap[s.array].cap \in 1 .. 2 * MaxLength /\ heap[s.array].data \in Seq(Elements)
  <2> DEFINE x == heap[s.array]
  <2>1. x \in Array
    BY <1>3 DEF FitsIn
  <2> HIDE DEF x
  <2>2. x.cap \in 1 .. 2 * MaxLength /\ x.data \in Seq(Elements)
    BY <2>1 DEF Array
  <2> QED BY <2>2 DEF x
<1> QED BY <1>2, <1>3, <1>4 DEF FitsIn

LEMMA BucketFacts ==
  ASSUME TypeOK, NEW h \in Handles, Live(h), NEW b \in Buckets
  PROVE  /\ Bucket(h, b) \in Seq(Elements)
         /\ Len(Bucket(h, b)) \in 0 .. MaxLength
         /\ sets[h].vals[b] = Nothing => Bucket(h, b) = << >>
         /\ sets[h].vals[b] # Nothing => Len(Bucket(h, b)) = sets[h].vals[b].len
<1>1. MaxLength \in Nat
  BY ElementsAssumption
<1>2. CASE sets[h].vals[b] = Nothing
  BY <1>1, <1>2 DEF Bucket, Shown
<1>3. CASE sets[h].vals[b] # Nothing
  <2> DEFINE s == sets[h].vals[b]
             data == heap[s.array].data
  <2>1. s.len \in 1 .. MaxLength /\ data \in Seq(Elements) /\ s.len <= Len(data)
    BY <1>3, SlotFacts DEF Filled, Live
  <2>2. Bucket(h, b) = SubSeq(data, 1, s.len)
    BY <1>3, Zenon DEF Bucket, Shown
  <2> HIDE DEF s, data
  <2>3. Bucket(h, b) \in Seq(Elements) /\ Len(Bucket(h, b)) = s.len
    BY <1>1, <2>1, <2>2
  <2> QED BY <1>3, <2>1, <2>3 DEF s
<1> QED BY <1>2, <1>3

LEMMA HashIsABucket ==
  ASSUME NEW e \in Elements
  PROVE  Hash(e) \in Buckets
BY ElementsAssumption DEF Hash, Buckets, IsElement

(* x is the array of slice s with e written behind the slice. *)
HasBehind(x, s, e) ==
  /\ x \in Array /\ Len(x.data) <= x.cap /\ s.len + 1 <= Len(x.data)
  /\ Len(heap[s.array].data) <= Len(x.data)
  /\ x.data \in Seq(Elements) /\ x.data[s.len + 1] = e
  /\ \A i \in 1 .. s.len : x.data[i] = heap[s.array].data[i]

LEMMA OverwrittenFits ==
  ASSUME TypeOK, NEW h, NEW b, Filled(sets, h, b), NEW e \in Elements, NEW s,
         s = sets[h].vals[b], s.len < heap[s.array].cap
  PROVE  HasBehind(Overwritten(s, e), s, e)
<1> DEFINE x == Overwritten(s, e)
           old == heap[s.array].data
           cap == heap[s.array].cap
           n == IF Len(old) > s.len THEN Len(old) ELSE s.len + 1
           new == [i \in 1 .. n |-> IF i = s.len + 1 THEN e ELSE old[i]]
<1>1. /\ MaxLength \in Nat /\ s.len \in 1 .. MaxLength /\ cap \in 1 .. 2 * MaxLength
      /\ old \in Seq(Elements) /\ Len(old) <= cap /\ s.len <= Len(old) /\ s.len < cap
  <2>1. MaxLength \in Nat
    BY ElementsAssumption
  <2>2. /\ s.len \in 1 .. MaxLength /\ cap \in 1 .. 2 * MaxLength
        /\ old \in Seq(Elements) /\ Len(old) <= cap /\ s.len <= Len(old)
    BY SlotFacts, Zenon
  <2> QED BY <2>1, <2>2
<1>2. heap[s.array] \in Array
  BY TypeOKSaysFit DEF Fit, FitsIn, Filled
<1>3. x = [heap[s.array] EXCEPT !.data = new]
  BY DEF Overwritten
<1> HIDE DEF x
<1> HIDE DEF old, cap
<1>4. n \in Nat /\ n >= s.len + 1 /\ n >= Len(old) /\ n <= cap
  BY <1>1
<1>5. new \in Seq(Elements) /\ Len(new) = n
  BY <1>1, <1>4
<1>6. new[s.len + 1] = e /\ \A i \in 1 .. s.len : new[i] = old[i]
  BY <1>1, <1>4
<1> HIDE DEF new, n
<1>7. x \in Array /\ x.data = new /\ x.cap = cap
  <2> DEFINE y == heap[s.array]
  <2>1. y \in Array /\ x = [y EXCEPT !.data = new] /\ cap = y.cap
    BY <1>2, <1>3 DEF cap
  <2> HIDE DEF y
  <2>2. y \in [cap : 1 .. 2 * MaxLength, data : Seq(Elements)]
    BY <2>1 DEF Array
  <2>3. x \in [cap : 1 .. 2 * MaxLength, data : Seq(Elements)] /\ x.data = new /\ x.cap = y.cap
    BY <1>5, <2>1, <2>2
  <2> QED BY <2>1, <2>3 DEF Array
<1> QED BY <1>1, <1>4, <1>5, <1>6, <1>7, Zenon DEF HasBehind, old, x

LEMMA OneLonger ==
  ASSUME NEW old \in Seq(Elements), NEW new \in Seq(Elements), NEW n \in Nat,
         n <= Len(old), n + 1 <= Len(new), \A i \in 1 .. n : new[i] = old[i]
  PROVE  SubSeq(new, 1, n + 1) = Append(SubSeq(old, 1, n), new[n + 1])
<1> DEFINE front == SubSeq(old, 1, n)
           s == Append(front, new[n + 1])
           t == SubSeq(new, 1, n + 1)
<1>1. front \in Seq(Elements) /\ Len(front) = n /\ \A i \in 1 .. n : front[i] = old[i]
  OBVIOUS
<1>2. new[n + 1] \in Elements
  OBVIOUS
<1>3. t \in Seq(Elements) /\ Len(t) = n + 1 /\ \A i \in 1 .. n + 1 : t[i] = new[i]
  OBVIOUS
<1> HIDE DEF front
<1>4. s \in Seq(Elements) /\ Len(s) = n + 1 /\ s[n + 1] = new[n + 1]
      /\ \A i \in 1 .. n : s[i] = front[i]
  BY <1>1, <1>2
<1>5. \A i \in 1 .. n + 1 : s[i] = t[i]
  BY <1>1, <1>3, <1>4
<1> HIDE DEF s, t
<1>6. s = t
  BY <1>3, <1>4, <1>5, SeqEqual
<1> QED BY <1>6 DEF s, t, front

(* An append in place writes where no other set looks. *)
SetsAfter(h, b) == [sets EXCEPT ![h].vals[b].len = @ + 1]
ArraysAfter(s, e) == [heap EXCEPT ![s.array] = Overwritten(s, e)]

LEMMA AppendInPlaceIsSound ==
  ASSUME TypeOK, NEW h \in Handles, Writable(h), NEW b \in Buckets, NEW e \in Elements,
         Filled(sets, h, b), NEW s, s = sets[h].vals[b],
         s.len < MaxLength, s.len < heap[s.array].cap,
         NEW ss, ss = SetsAfter(h, b), NEW arrays, arrays = ArraysAfter(s, e),
         Become(ss, arrays)
  PROVE  Sound(h, ss, arrays) /\ Leaves(h, FALSE, With(h, b, Append(Bucket(h, b), e)), ss, arrays)
<1> DEFINE x == Overwritten(s, e)
<1>1. /\ SetsOK(sets) /\ Fit(sets, heap) /\ MaxLength \in Nat
      /\ s.array \in Arrays /\ s.len \in 1 .. MaxLength /\ s \in Slice
      /\ Live(h) /\ ~sets[h].sealed /\ sets[h] \in Set
  <2>1. SetsOK(sets) /\ Fit(sets, heap) /\ MaxLength \in Nat
    BY TypeOKSaysFit, ElementsAssumption
  <2> QED BY <2>1, SetFields DEF Filled, Writable, Live
<1>2. /\ x \in Array /\ Len(x.data) <= x.cap /\ s.len + 1 <= Len(x.data)
      /\ Len(heap[s.array].data) <= Len(x.data)
      /\ x.data \in Seq(Elements) /\ x.data[s.len + 1] = e
      /\ \A i \in 1 .. s.len : x.data[i] = heap[s.array].data[i]
  <2>1. HasBehind(x, s, e)
    BY OverwrittenFits
  <2> HIDE DEF x
  <2> QED BY <2>1, Zenon DEF HasBehind
<1>3. arrays[s.array] = x /\ \A a \in Arrays : a # s.array => arrays[a] = heap[a]
  BY <1>1 DEF TypeOK, ArraysAfter
<1>12. /\ Len(heap[s.array].data) \in Nat /\ Len(x.data) \in Nat
       /\ Len(heap[s.array].data) <= Len(x.data)
  <2> HIDE DEF x
  <2>1. heap[s.array].data \in Seq(Elements) /\ x.data \in Seq(Elements)
    BY <1>2, SlotFacts, Zenon
  <2>2. ASSUME NEW seq \in Seq(Elements) PROVE Len(seq) \in Nat
    OBVIOUS
  <2> QED BY <1>2, <2>1, <2>2
<1> HIDE DEF x
<1> DEFINE t == [s EXCEPT !.len = @ + 1]
<1>4. t \in Slice /\ t.array = s.array /\ t.len = s.len + 1
  BY <1>1 DEF Slice
<1>5. ss = [sets EXCEPT ![h] = [sets[h] EXCEPT !.vals = [sets[h].vals EXCEPT ![b] = t]]]
  BY DEF SetsAfter
<1> HIDE DEF t
<1>6. /\ [sets[h].vals EXCEPT ![b] = t] \in [Buckets -> {Nothing} \cup Slice]
      /\ [sets[h].vals EXCEPT ![b] = t][b] = t
      /\ \A c \in Buckets : c # b => [sets[h].vals EXCEPT ![b] = t][c] = sets[h].vals[c]
  BY <1>1, <1>4 DEF Set
<1>7. /\ SetsOK(ss) /\ \A g \in Handles : g # h => ss[g] = sets[g]
      /\ ss[h].sealed = sets[h].sealed /\ ss[h].vals[b] = t
      /\ \A c \in Buckets : c # b => ss[h].vals[c] = sets[h].vals[c]
      /\ ss[h] \in Set
  <2> DEFINE vals == [sets[h].vals EXCEPT ![b] = t]
             new == [sets[h] EXCEPT !.vals = vals]
  <2>1. vals \in [Buckets -> {Nothing} \cup Slice] /\ vals[b] = t
        /\ \A c \in Buckets : c # b => vals[c] = sets[h].vals[c]
    BY <1>6
  <2> HIDE DEF vals
  <2>2. new \in Set /\ new.vals = vals /\ new.sealed = sets[h].sealed
    BY <1>1, <2>1 DEF Set
  <2>3. ss = [sets EXCEPT ![h] = new]
    BY <1>5 DEF vals
  <2> HIDE DEF new
  <2>4. SetsOK(ss) /\ ss[h] = new /\ \A g \in Handles : g # h => ss[g] = sets[g]
    BY <1>1, <2>2, <2>3 DEF SetsOK
  <2> QED BY <2>1, <2>2, <2>4
<1>8. ASSUME NEW g \in Handles, NEW c \in Buckets, Filled(ss, g, c), g # h \/ c # b
      PROVE  Filled(sets, g, c) /\ ss[g].vals[c] = sets[g].vals[c]
             /\ ss[g].sealed = sets[g].sealed
  BY <1>1, <1>7, <1>8 DEF Filled, Live
<1>9. Fit(ss, arrays)
  <2> SUFFICES ASSUME NEW g \in Handles, NEW c \in Buckets, Filled(ss, g, c)
               PROVE  FitsIn(ss[g].vals[c], arrays[ss[g].vals[c].array])
    BY DEF Fit
  <2>1. CASE g = h /\ c = b
    BY <1>2, <1>3, <1>4, <1>7, <2>1, Zenon DEF FitsIn
  <2>2. CASE g # h \/ c # b
    <3> DEFINE r == sets[g].vals[c]
    <3>1. Filled(sets, g, c) /\ ss[g].vals[c] = r
      BY <1>8, <2>2
    <3>2. /\ r.array \in Arrays /\ r.len \in 1 .. MaxLength
          /\ FitsIn(r, heap[r.array]) /\ heap[r.array].data \in Seq(Elements)
      BY <1>1, <3>1, SlotFacts, Zenon DEF Fit
    <3> HIDE DEF r
    <3>3. CASE r.array = s.array
      <4>1. r.len <= Len(heap[s.array].data)
        BY <3>2, <3>3 DEF FitsIn
      <4>2. r.len \in Nat
        BY <1>1, <3>2
      <4>3. r.len <= Len(x.data)
        BY <1>12, <4>1, <4>2, AtMost
      <4> QED BY <1>2, <1>3, <3>1, <3>3, <4>3, Zenon DEF FitsIn
    <3>4. CASE r.array # s.array
      BY <1>3, <3>1, <3>2, <3>4
    <3> QED BY <3>3, <3>4
  <2> QED BY <2>1, <2>2
<1>10. ASSUME Apart(sets)
       PROVE  Apart(ss)
  <2> SUFFICES ASSUME NEW g \in Handles, NEW f \in Handles,
                      NEW c \in Buckets, NEW d \in Buckets,
                      Filled(ss, g, c), Filled(ss, f, d), <<g, c>> # <<f, d>>,
                      ss[g].vals[c].array = ss[f].vals[d].array, ~ss[g].sealed
               PROVE  ss[f].sealed /\ ss[f].vals[d].len <= ss[g].vals[c].len
    BY DEF Apart
  <2>1. g # f \/ c # d
    OBVIOUS
  <2>2. CASE g = h /\ c = b
    <3>1. Filled(sets, f, d) /\ ss[f].vals[d] = sets[f].vals[d] /\ ss[f].sealed = sets[f].sealed
      BY <1>8, <2>1, <2>2
    <3>2. sets[f].sealed /\ sets[f].vals[d].len <= s.len
      <4>1. sets[h].vals[b].array = sets[f].vals[d].array /\ ~sets[h].sealed
            /\ (h # f \/ b # d)
        BY <1>1, <1>4, <1>7, <2>1, <2>2, <3>1
      <4> QED BY <1>10, <3>1, <4>1, SharersAreApart
    <3>3. sets[f].vals[d].len \in 1 .. MaxLength
      BY <3>1, SlotFacts, Zenon
    <3>4. ss[g].vals[c].len = s.len + 1
      BY <1>4, <1>7, <2>2
    <3>5. ss[f].vals[d].len <= ss[g].vals[c].len
      BY <1>1, <3>1, <3>2, <3>3, <3>4
    <3> QED BY <3>1, <3>2, <3>5
  <2>3. CASE ~(g = h /\ c = b)
    <3>1. Filled(sets, g, c) /\ ss[g].vals[c] = sets[g].vals[c] /\ ~sets[g].sealed
      BY <1>8, <2>3
    <3>2. CASE f = h /\ d = b
      <4>1. sets[g].vals[c].array = sets[h].vals[b].array /\ (g # h \/ c # b)
        BY <1>4, <1>7, <2>1, <3>1, <3>2
      <4>2. sets[h].sealed
        BY <1>10, <3>1, <4>1, SharersAreApart
      <4> QED BY <1>1, <4>2
    <3>3. CASE ~(f = h /\ d = b)
      <4>1. Filled(sets, f, d) /\ ss[f].vals[d] = sets[f].vals[d]
            /\ ss[f].sealed = sets[f].sealed
        BY <1>8, <3>3
      <4> QED BY <1>10, <2>1, <3>1, <4>1, SharersAreApart
    <3> QED BY <3>2, <3>3
  <2> QED BY <2>2, <2>3
<1>11. ASSUME Apart(sets), NEW g \in Handles, NEW c \in Buckets, g # h \/ c # b
       PROVE  Stays(g, c, arrays)
  <2>2. ASSUME Filled(sets, g, c), NEW r, r = sets[g].vals[c]
        PROVE  SubSeq(arrays[r.array].data, 1, r.len) = SubSeq(heap[r.array].data, 1, r.len)
    <3>1. /\ r.array \in Arrays /\ r.len \in 1 .. MaxLength
          /\ heap[r.array].data \in Seq(Elements) /\ r.len <= Len(heap[r.array].data)
      BY <2>2, SlotFacts, Zenon
    <3>2. CASE r.array = s.array
      <4>1. r.len <= s.len
        BY <1>1, <1>11, <2>2, <3>2, SharersAreApart
      <4>2. \A i \in 1 .. r.len : x.data[i] = heap[r.array].data[i]
        <5>1. \A i \in 1 .. r.len : i \in 1 .. s.len
          BY <1>1, <3>1, <4>1
        <5> QED BY <1>2, <3>2, <5>1
      <4>3. x.data \in Seq(Elements) /\ r.len <= Len(x.data)
        <5>1. r.len <= Len(heap[s.array].data)
          BY <3>1, <3>2
        <5>2. r.len \in Nat
          BY <1>1, <3>1
        <5>3. r.len <= Len(x.data)
          <6>1. \A l, m, n \in Nat : l <= m /\ m <= n => l <= n
            OBVIOUS
          <6> QED BY <1>12, <5>1, <5>2, <6>1, Zenon
        <5> QED BY <1>2, <5>3
      <4> DEFINE old == heap[r.array].data
                 new == x.data
      <4> HIDE DEF old, new
      <4>4. SubSeq(new, 1, r.len) = SubSeq(old, 1, r.len)
        BY <1>1, <3>1, <4>2, <4>3 DEF old, new
      <4> QED BY <1>3, <3>2, <4>4 DEF old, new
    <3>3. CASE r.array # s.array
      BY <1>3, <3>1, <3>3
    <3> QED BY <3>2, <3>3, Zenon
  <2> QED BY <2>2, Zenon DEF Stays
<1>13. ss[h] # Nothing /\ ss[h].sealed = FALSE
  BY <1>1, <1>7, NothingAssumption DEF Set
<1>14. Shows(h, b, ss, arrays, Append(Bucket(h, b), e))
  <2>1. ss[h].vals[b] # Nothing
    BY <1>4, <1>7, NothingAssumption
  <2> DEFINE old == heap[s.array].data
             new == x.data
  <2>2. /\ old \in Seq(Elements) /\ new \in Seq(Elements) /\ s.len <= Len(old)
        /\ s.len + 1 <= Len(new) /\ new[s.len + 1] = e /\ \A i \in 1 .. s.len : new[i] = old[i]
    BY <1>2, SlotFacts, Zenon
  <2>3. Bucket(h, b) = SubSeq(old, 1, s.len)
    BY DEF Bucket, Shown, Filled
  <2>4. arrays[ss[h].vals[b].array].data = new /\ ss[h].vals[b].len = s.len + 1
    BY <1>3, <1>4, <1>7
  <2> HIDE DEF old, new
  <2>5. SubSeq(new, 1, s.len + 1) = Append(SubSeq(old, 1, s.len), e)
    <3>1. s.len \in Nat
      BY <1>1
    <3> QED BY <2>2, <3>1, OneLonger
  <2> QED BY <2>1, <2>3, <2>4, <2>5, Zenon DEF Shows
<1>15. ASSUME Apart(sets), NEW c \in Buckets, c # b
       PROVE  Shows(h, c, ss, arrays, Bucket(h, c))
  <2>1. ss[h].vals[c] = sets[h].vals[c] /\ Stays(h, c, arrays)
    BY <1>7, <1>11, <1>15
  <2> QED BY <1>1, <2>1, Zenon DEF Shows, Stays, Filled, Live, Bucket, Shown
<1>16. Sound(h, ss, arrays)
  BY <1>7, <1>9, <1>10, <1>11 DEF Sound
<1>17. Leaves(h, FALSE, With(h, b, Append(Bucket(h, b), e)), ss, arrays)
  BY <1>13, <1>14, <1>15 DEF Leaves, With
<1> QED BY <1>16, <1>17

(* One bucket becomes a slice of a new array, or nothing. *)
LEMMA NewSlotIsSound ==
  ASSUME TypeOK, NEW h \in Handles, Writable(h), NEW b \in Buckets,
         NEW s \in {Nothing} \cup Slice, NEW arrays,
         \A a \in ArraysIn(sets) : arrays[a] = heap[a],
         s # Nothing => s.array \notin ArraysIn(sets) /\ FitsIn(s, arrays[s.array]),
         Become([sets EXCEPT ![h].vals[b] = s], arrays), NEW seq,
         IF s = Nothing THEN seq = << >> ELSE seq = SubSeq(arrays[s.array].data, 1, s.len)
  PROVE  SoundStep(h, FALSE, With(h, b, seq))
<1> DEFINE vals == [sets[h].vals EXCEPT ![b] = s]
           r == [sets[h] EXCEPT !.vals = vals]
           ss == [sets EXCEPT ![h] = r]
<1>1. /\ SetsOK(sets) /\ Live(h) /\ ~sets[h].sealed /\ sets[h] \in Set
      /\ sets[h].vals \in [Buckets -> {Nothing} \cup Slice]
  BY TypeOKSaysFit, SetFields DEF Writable, Live
<1>2. /\ vals \in [Buckets -> {Nothing} \cup Slice] /\ vals[b] = s
      /\ \A c \in Buckets : c # b => vals[c] = sets[h].vals[c]
  BY <1>1
<1>3. ss = [sets EXCEPT ![h] = r] /\ Become(ss, arrays)
  OBVIOUS
<1> HIDE DEF vals, ss
<1>4. r \in Set /\ r.vals = vals /\ r.sealed = FALSE
  BY <1>1, <1>2 DEF Set
<1> HIDE DEF r
<1>5. ASSUME NEW c \in Buckets, vals[c] # Nothing
      PROVE  \/ Filled(sets, h, c) /\ vals[c] = sets[h].vals[c]
             \/ /\ c = b /\ vals[c].array \notin ArraysIn(sets)
                /\ FitsIn(vals[c], arrays[vals[c].array])
  BY <1>1, <1>2, <1>5 DEF Filled, Live
<1>6. ASSUME NEW c \in Buckets, vals[c] # Nothing, vals[c].array \notin ArraysIn(sets)
      PROVE  c = b
  <2>1. Filled(sets, h, c) => sets[h].vals[c].array \in ArraysIn(sets)
    BY <1>1, ArraysInUse
  <2> QED BY <1>5, <1>6, <2>1
<1>7. \A c, d \in Buckets :
        /\ vals[c] # Nothing /\ vals[d] # Nothing
        /\ vals[c].array \notin ArraysIn(sets) /\ vals[c].array = vals[d].array
        => c = d
  BY <1>6
<1>8. FreshSlots(h, vals, arrays)
  BY <1>5, <1>7 DEF FreshSlots
<1>9. Sound(h, ss, arrays)
  BY <1>1, <1>3, <1>4, <1>8, FreshSlotsAreSound, ZenonT(60)
<1>10. ss[h] = r /\ r # Nothing
  BY <1>1, <1>3, <1>4, NothingAssumption DEF SetsOK
<1>11. Shows(h, b, ss, arrays, seq)
  BY <1>2, <1>4, <1>10 DEF Shows
<1>12. ASSUME NEW c \in Buckets, c # b
       PROVE  Shows(h, c, ss, arrays, Bucket(h, c))
  <2>1. ss[h].vals[c] = sets[h].vals[c]
    BY <1>2, <1>4, <1>10, <1>12
  <2>2. Filled(sets, h, c) => arrays[sets[h].vals[c].array] = heap[sets[h].vals[c].array]
    BY <1>1, ArraysInUse
  <2> QED BY <1>1, <2>1, <2>2 DEF Shows, Filled, Live, Bucket, Shown
<1>13. Leaves(h, FALSE, With(h, b, seq), ss, arrays)
  BY <1>4, <1>10, <1>11, <1>12 DEF Leaves, With
<1> QED BY <1>9, <1>13 DEF SoundStep

LEMMA NewSliceIsSound ==
  ASSUME TypeOK, NEW h \in Handles, Writable(h), NEW b \in Buckets,
         NEW data \in Seq(Elements), Len(data) \in 1 .. MaxLength,
         NEW cap \in 1 .. 2 * MaxLength, Len(data) <= cap,
         Become([sets EXCEPT ![h].vals[b] = [array |-> Unused(1), len |-> Len(data)]],
                [heap EXCEPT ![Unused(1)] = [cap |-> cap, data |-> data]])
  PROVE  SoundStep(h, FALSE, With(h, b, data))
<1> DEFINE new == Unused(1)
           s == [array |-> new, len |-> Len(data)]
           x == [cap |-> cap, data |-> data]
           arrays == [heap EXCEPT ![new] = x]
<1>1. new \in Arrays \ ArraysIn(sets)
  BY TypeOKSaysFit, NewArrays
<1> HIDE DEF new
<1>2. s \in Slice /\ s.array = new /\ s.len = Len(data)
  BY <1>1 DEF Slice
<1>3. x \in Array /\ x.cap = cap /\ x.data = data
  BY DEF Array
<1>4. Become([sets EXCEPT ![h].vals[b] = s], arrays)
  BY DEF new
<1> HIDE DEF x, s
<1>5. arrays[new] = x /\ \A a \in ArraysIn(sets) : arrays[a] = heap[a]
  <2>1. ArraysIn(sets) \in SUBSET Arrays
    BY TypeOKSaysFit, ArraysInUse
  <2> QED BY <1>1, <2>1 DEF TypeOK
<1> HIDE DEF arrays
<1>6. Len(data) \in Nat
  OBVIOUS
<1>7. FitsIn(s, arrays[s.array])
  BY <1>2, <1>3, <1>5, <1>6 DEF FitsIn
<1>8. s # Nothing /\ data = SubSeq(arrays[s.array].data, 1, s.len)
  <2>1. data = SubSeq(data, 1, Len(data))
    OBVIOUS
  <2> QED BY <1>2, <1>3, <1>5, <2>1, NothingAssumption
<1> QED BY <1>1, <1>2, <1>4, <1>5, <1>7, <1>8, NewSlotIsSound

LEMMA AddIsSound ==
  ASSUME TypeOK, NEW h \in Handles, NEW e \in Elements, Add(h, e)
  PROVE  IF Has(h, e) THEN UNCHANGED vars
                      ELSE SoundStep(h, FALSE, With(h, Hash(e), Append(Bucket(h, Hash(e)), e)))
<1> SUFFICES ASSUME ~Has(h, e), Len(Bucket(h, Hash(e))) < MaxLength, Append1(h, Hash(e), e)
             PROVE  SoundStep(h, FALSE, With(h, Hash(e), Append(Bucket(h, Hash(e)), e)))
  BY DEF Add
<1> DEFINE b == Hash(e)
           s == sets[h].vals[b]
           members == Bucket(h, b)
<1>1. /\ b \in Buckets /\ Writable(h) /\ Live(h) /\ MaxLength \in Nat
  BY HashIsABucket, ElementsAssumption DEF Add, Writable
<1>2. /\ members \in Seq(Elements) /\ Len(members) \in 0 .. MaxLength
      /\ s # Nothing => Len(members) = s.len /\ Filled(sets, h, b)
      /\ s = Nothing => Len(members) = 0
  BY <1>1, BucketFacts DEF Filled, Live
<1>3. CASE s # Nothing /\ s.len < heap[s.array].cap
  <2>1. Become(SetsAfter(h, b), ArraysAfter(s, e))
    BY <1>3 DEF Append1, SetsAfter, ArraysAfter
  <2>2. s.len < MaxLength
    BY <1>2, <1>3
  <2> HIDE DEF b
  <2>3. SoundStep(h, FALSE, With(h, b, Append(Bucket(h, b), e)))
    BY <1>1, <1>2, <1>3, <2>1, <2>2, AppendInPlaceIsSound DEF SoundStep
  <2> QED BY <2>3 DEF b
<1>4. CASE ~(s # Nothing /\ s.len < heap[s.array].cap)
  <2> DEFINE cap == IF s = Nothing THEN 1 ELSE 2 * heap[s.array].cap
             data == Append(members, e)
  <2>1. data \in Seq(Elements) /\ Len(data) = Len(members) + 1
    BY <1>2
  <2>2. Become([sets EXCEPT ![h].vals[b] = [array |-> Unused(1), len |-> Len(data)]],
               [heap EXCEPT ![Unused(1)] = [cap |-> cap, data |-> data]])
    BY <1>4, <2>1 DEF Append1
  <2>3. Len(data) \in 1 .. MaxLength
    BY <1>1, <1>2, <2>1
  <2>4. cap \in 1 .. 2 * MaxLength /\ Len(data) <= cap
    <3>1. CASE s = Nothing
      BY <1>1, <1>2, <2>1, <3>1
    <3>2. CASE s # Nothing
      <4>1. /\ s.len \in 1 .. MaxLength /\ heap[s.array].cap \in 1 .. 2 * MaxLength
            /\ heap[s.array].data \in Seq(Elements)
            /\ Len(heap[s.array].data) <= heap[s.array].cap
            /\ s.len <= Len(heap[s.array].data)
        BY <1>2, <3>2, SlotFacts
      <4>2. s.len <= heap[s.array].cap
        <5>1. s.len \in Nat /\ heap[s.array].cap \in Nat
          BY <1>1, <4>1
        <5>2. Len(heap[s.array].data) \in Nat
          <6>1. \A seq \in Seq(Elements) : Len(seq) \in Nat
            OBVIOUS
          <6> QED BY <4>1, <6>1, Zenon
        <5> QED BY <4>1, <5>1, <5>2, AtMost
      <4>3. s.len = heap[s.array].cap /\ s.len = Len(members)
        BY <1>1, <1>2, <1>4, <3>2, <4>1, <4>2
      <4> QED BY <1>1, <2>1, <3>2, <4>1, <4>3
    <3> QED BY <3>1, <3>2
  <2> HIDE DEF cap, data, b
  <2>5. SoundStep(h, FALSE, With(h, b, data))
    BY <1>1, <2>1, <2>2, <2>3, <2>4, NewSliceIsSound
  <2> QED BY <2>5 DEF b, data
<1> QED BY <1>3, <1>4

LEMMA FirstMatchExists ==
  ASSUME NEW seq \in Seq(Elements), NEW e, Matches(seq, e)
  PROVE  /\ FirstMatch(seq, e) \in DOMAIN seq /\ Equivalent(e, seq[FirstMatch(seq, e)])
         /\ \A j \in 1 .. FirstMatch(seq, e) - 1 : ~Equivalent(e, seq[j])
<1> DEFINE T == {i \in DOMAIN seq : Equivalent(e, seq[i])}
<1>1. T \in SUBSET Nat /\ T # {}
  BY DEF Matches
<1>2. \E i \in T : \A j \in T : i <= j
  <2> HIDE DEF T
  <2> QED BY <1>1, LeastNumber
<1>3. \E i \in DOMAIN seq : Equivalent(e, seq[i]) /\ \A j \in 1 .. i - 1 : ~Equivalent(e, seq[j])
  <2>1. PICK i \in T : \A j \in T : i <= j
    BY <1>2
  <2>2. \A j \in 1 .. i - 1 : j \in DOMAIN seq /\ ~(i <= j)
    BY <2>1
  <2> QED BY <2>1, <2>2
<1> QED BY <1>3 DEF FirstMatch

LEMMA WithoutIsShorter ==
  ASSUME NEW S, NEW seq \in Seq(S), NEW i \in DOMAIN seq
  PROVE  /\ Without(seq, i) \in Seq(S) /\ Len(Without(seq, i)) = Len(seq) - 1
         /\ \A j \in 1 .. Len(seq) - 1 :
              Without(seq, i)[j] = IF j < i THEN seq[j] ELSE seq[j + 1]
<1> DEFINE n == Len(seq)
           before == SubSeq(seq, 1, i - 1)
           after == SubSeq(seq, i + 1, n)
<1>1. n \in Nat /\ i \in 1 .. n
  OBVIOUS
<1>2. /\ before \in Seq(S) /\ Len(before) = i - 1
      /\ \A j \in 1 .. i - 1 : before[j] = seq[j]
  BY <1>1
<1>3. /\ after \in Seq(S) /\ Len(after) = n - i
      /\ \A j \in 1 .. n - i : after[j] = seq[i + j]
  BY <1>1
<1> HIDE DEF before, after, n
<1>4. before \o after \in Seq(S) /\ Len(before \o after) = n - 1
  <2>1. before \o after \in Seq(S)
    BY <1>2, <1>3
  <2>2. \A r, s \in Seq(S) : Len(r \o s) = Len(r) + Len(s)
    OBVIOUS
  <2>3. Len(before \o after) = (i - 1) + (n - i)
    BY <1>2, <1>3, <2>2, Zenon
  <2> QED BY <1>1, <2>1, <2>3
<1>5. ASSUME NEW j \in 1 .. n - 1
      PROVE  (before \o after)[j] = IF j < i THEN seq[j] ELSE seq[j + 1]
  <2>1. CASE j < i
    BY <1>1, <1>2, <1>3, <2>1
  <2>2. CASE ~(j < i)
    <3>1. j - (i - 1) \in 1 .. n - i /\ i + (j - (i - 1)) = j + 1
          /\ j \in 1 .. (i - 1) + (n - i) /\ ~(j <= i - 1)
      BY <1>1, <2>2
    <3>2. (before \o after)[j] = after[j - (i - 1)]
      BY <1>2, <1>3, <3>1, ConcatProperties
    <3> QED BY <1>3, <2>2, <3>1, <3>2
  <2> QED BY <2>1, <2>2
<1> QED BY <1>4, <1>5 DEF Without, before, after, n

LEMMA RemoveIsSound ==
  ASSUME TypeOK, NEW h \in Handles, NEW e \in Elements, Remove(h, e)
  PROVE  LET rest == Without(Bucket(h, Hash(e)), FirstMatch(Bucket(h, Hash(e)), e)) IN
         IF Has(h, e) THEN SoundStep(h, FALSE, With(h, Hash(e), rest)) ELSE UNCHANGED vars
<1> SUFFICES ASSUME Has(h, e), RemoveIndex(h, Hash(e), FirstMatch(Bucket(h, Hash(e)), e))
             PROVE  LET rest == Without(Bucket(h, Hash(e)), FirstMatch(Bucket(h, Hash(e)), e)) IN
                    SoundStep(h, FALSE, With(h, Hash(e), rest))
  BY DEF Remove
<1> DEFINE b == Hash(e)
           members == Bucket(h, b)
           rest == Without(members, FirstMatch(members, e))
<1>1. b \in Buckets /\ Writable(h) /\ Live(h) /\ MaxLength \in Nat
  BY HashIsABucket, ElementsAssumption DEF Remove, Writable
<1>2. members \in Seq(Elements) /\ Len(members) \in 0 .. MaxLength
  BY <1>1, BucketFacts
<1>3. rest \in Seq(Elements) /\ Len(rest) = Len(members) - 1
  <2>1. FirstMatch(members, e) \in DOMAIN members
    BY <1>2, FirstMatchExists DEF Has
  <2> HIDE DEF members
  <2> QED BY <1>2, <2>1, WithoutIsShorter
<1>4. CASE rest = << >>
  <2>1. Become([sets EXCEPT ![h].vals[b] = Nothing], heap)
    BY <1>4 DEF RemoveIndex
  <2> HIDE DEF b
  <2>2. SoundStep(h, FALSE, With(h, b, << >>))
    BY <1>1, <2>1, NewSlotIsSound
  <2> QED BY <1>4, <2>2 DEF b
<1>5. CASE rest # << >>
  <2>1. Become([sets EXCEPT ![h].vals[b] = [array |-> Unused(1), len |-> Len(rest)]],
               [heap EXCEPT ![Unused(1)] = [cap |-> Len(rest), data |-> rest]])
    BY <1>5 DEF RemoveIndex
  <2>2. Len(rest) \in 1 .. MaxLength /\ Len(rest) \in 1 .. 2 * MaxLength
    <3> HIDE DEF rest
    <3> QED BY <1>1, <1>2, <1>3, <1>5
  <2>3. Len(rest) <= Len(rest)
    <3> HIDE DEF rest
    <3> QED BY <2>2
  <2> HIDE DEF b, rest
  <2>4. SoundStep(h, FALSE, With(h, b, rest))
    BY <1>1, <1>3, <2>1, <2>2, <2>3, NewSliceIsSound
  <2> QED BY <2>4 DEF b, rest
<1> QED BY <1>4, <1>5

----------------------------------------------------------------------------
(* New sets.                                                               *)

LEMMA GrownFits ==
  ASSUME NEW n \in 1 .. MaxLength
  PROVE  Grown(n) \in 1 .. 2 * MaxLength /\ n <= Grown(n)
<1>1. MaxLength \in 1 .. 16 /\ n \in 1 .. 16 /\ n <= MaxLength
  BY ElementsAssumption
<1>2. \E k \in {1, 2, 4, 8, 16} : n <= k /\ (k = 1 \/ k < 2 * n)
  <2>1. n = 1 \/ n = 2 \/ n \in 3 .. 4 \/ n \in 5 .. 8 \/ n \in 9 .. 16
    BY <1>1
  <2> QED BY <2>1
<1>3. Grown(n) \in {1, 2, 4, 8, 16} /\ n <= Grown(n) /\ (Grown(n) = 1 \/ Grown(n) < 2 * n)
  BY <1>2 DEF Grown
<1> QED BY <1>1, <1>3

(* What the buckets of a set may hold. *)
BucketsFit(buckets) ==
  /\ buckets \in [Buckets -> Seq(Elements)]
  /\ \A b \in Buckets : Len(buckets[b]) <= MaxLength

LEMMA BuildIsSound ==
  ASSUME TypeOK, NEW d \in Handles, ~Live(d), NEW buckets, BucketsFit(buckets),
         Build(d, buckets)
  PROVE  SoundStep(d, FALSE, buckets)
<1> DEFINE new(b) == Unused(Position(b))
           used == {b \in Buckets : buckets[b] # << >>}
           vals == [b \in Buckets |->
                      IF b \in used THEN [array |-> new(b), len |-> Len(buckets[b])]
                                    ELSE Nothing]
           r == [sealed |-> FALSE, vals |-> vals]
           ss == [sets EXCEPT ![d] = r]
           arrays == [a \in Arrays |->
                        IF \E b \in used : new(b) = a
                          THEN LET b == CHOOSE b \in used : new(b) = a
                               IN [cap |-> Grown(Len(buckets[b])), data |-> buckets[b]]
                          ELSE heap[a]]
<1>1. Become(ss, arrays)
  BY DEF Build
<1>2. /\ \A b \in Buckets : new(b) \in Arrays /\ new(b) \notin ArraysIn(sets)
      /\ \A b, c \in Buckets : new(b) = new(c) => b = c
  BY TypeOKSaysFit, NewArrays
<1>3. \A b \in used : Len(buckets[b]) \in 1 .. MaxLength /\ buckets[b] \in Seq(Elements)
  <2>1. MaxLength \in Nat
    BY ElementsAssumption
  <2>2. \A seq \in Seq(Elements) : Len(seq) \in Nat /\ (Len(seq) = 0 => seq = << >>)
    OBVIOUS
  <2>3. ASSUME NEW b \in used, NEW n, n = Len(buckets[b])
        PROVE  n \in 1 .. MaxLength
    <3>1. n \in Nat /\ n # 0 /\ n <= MaxLength
      BY <2>2, <2>3 DEF BucketsFit
    <3> QED BY <2>1, <3>1
  <2> QED BY <2>3 DEF BucketsFit
<1> HIDE DEF new
<1>4. ASSUME NEW a \in ArraysIn(sets)
      PROVE  arrays[a] = heap[a]
  <2>1. a \in Arrays
    BY TypeOKSaysFit, ArraysInUse
  <2> QED BY <1>2, <2>1
<1>5. ASSUME NEW b \in used
      PROVE  arrays[new(b)] = [cap |-> Grown(Len(buckets[b])), data |-> buckets[b]]
  <2>1. (CHOOSE c \in used : new(c) = new(b)) = b
    BY <1>2
  <2> QED BY <1>2, <2>1
<1> HIDE DEF arrays
<1>6. \A b \in Buckets : vals[b] = IF b \in used THEN [array |-> new(b), len |-> Len(buckets[b])]
                                                  ELSE Nothing
  OBVIOUS
<1>7. \A b \in used : [array |-> new(b), len |-> Len(buckets[b])] \in Slice
  BY <1>2, <1>3 DEF Slice
<1>8. r \in Set /\ r.sealed = FALSE /\ r.vals = vals
  BY <1>7 DEF Set
<1>9. \A b \in Buckets : vals[b] # Nothing =>
        /\ b \in used /\ vals[b].array = new(b) /\ vals[b].len = Len(buckets[b])
  BY <1>6
<1> HIDE DEF vals
<1>10. ASSUME NEW b \in used
       PROVE  /\ arrays[new(b)] \in Array /\ arrays[new(b)].data = buckets[b]
              /\ Len(buckets[b]) <= arrays[new(b)].cap
  <2>1. Grown(Len(buckets[b])) \in 1 .. 2 * MaxLength /\ Len(buckets[b]) <= Grown(Len(buckets[b]))
    BY <1>3, GrownFits
  <2> DEFINE cap == Grown(Len(buckets[b]))
             data == buckets[b]
  <2>2. data \in Seq(Elements) /\ cap \in 1 .. 2 * MaxLength /\ Len(data) <= cap
    BY <1>3, <2>1
  <2>3. arrays[new(b)] = [cap |-> cap, data |-> data]
    BY <1>5
  <2> HIDE DEF cap
  <2>4. [cap |-> cap, data |-> data] \in Array
    BY <2>2 DEF Array
  <2> QED BY <2>2, <2>3, <2>4
<1>11. ASSUME NEW b \in Buckets, vals[b] # Nothing
       PROVE  vals[b].array \notin ArraysIn(sets) /\ FitsIn(vals[b], arrays[vals[b].array])
  <2>1. Len(buckets[b]) <= Len(buckets[b])
    BY <1>3, <1>9, <1>11
  <2> QED BY <1>2, <1>9, <1>10, <1>11, <2>1 DEF FitsIn
<1>12. FreshSlots(d, vals, arrays)
  BY <1>2, <1>4, <1>9, <1>11 DEF FreshSlots
<1>13. ss = [sets EXCEPT ![d] = r]
  OBVIOUS
<1> HIDE DEF r, ss
<1>14. Sound(d, ss, arrays)
  BY <1>1, <1>8, <1>12, <1>13, FreshSlotsAreSound
<1>15. ss[d] = r /\ r # Nothing
  BY <1>8, <1>13, TypeOKSaysFit, NothingAssumption DEF SetsOK
<1>16. ASSUME NEW b \in Buckets
       PROVE  Shows(d, b, ss, arrays, buckets[b])
  <2>1. CASE b \in used
    <3>1. vals[b] # Nothing
      BY <1>6, <1>7, <2>1, NothingAssumption
    <3>2. buckets[b] = SubSeq(buckets[b], 1, Len(buckets[b]))
      BY <1>3, <2>1
    <3> QED BY <1>8, <1>9, <1>10, <1>15, <2>1, <3>1, <3>2 DEF Shows
  <2>2. CASE b \notin used
    BY <1>6, <1>8, <1>15, <2>2 DEF Shows
  <2> QED BY <2>1, <2>2
<1>17. Leaves(d, FALSE, buckets, ss, arrays)
  BY <1>8, <1>15, <1>16 DEF Leaves
<1> QED BY <1>14, <1>17 DEF SoundStep

----------------------------------------------------------------------------
(* The order of the iterator.                                              *)

LEMMA LessIsWeakOrder ==
  /\ \A x, y \in Elements : Less(x, y) => ~Less(y, x)
  /\ \A x, y, z \in Elements : Less(x, y) /\ Less(y, z) => Less(x, z)
  /\ \A x, y, z \in Elements : ~Less(x, y) /\ ~Less(y, z) => ~Less(x, z)
<1> DEFINE class(x) == IF x.kind = "known" THEN 0 ELSE IF x.kind = "unknown" THEN 1 ELSE 2
<1>1. \A x \in Elements : x.kind \in {"known", "unknown", "null"} /\ x.c \in Int
  BY ElementsAssumption DEF IsElement, Kinds
<1>2. ASSUME NEW x \in Elements, NEW y \in Elements
      PROVE  Less(x, y) <=> class(x) < class(y) \/ (class(x) = 0 /\ class(y) = 0 /\ x.c < y.c)
  BY <1>1 DEF Less
<1>3. \A x \in Elements : class(x) \in 0 .. 2
  BY <1>1
<1> HIDE DEF class
<1>4. \A x, y \in Elements : Less(x, y) => ~Less(y, x)
  BY <1>1, <1>2, <1>3
<1>5. \A x, y, z \in Elements : Less(x, y) /\ Less(y, z) => Less(x, z)
  BY <1>1, <1>2, <1>3
<1>6. \A x, y, z \in Elements : ~Less(x, y) /\ ~Less(y, z) => ~Less(x, z)
  BY <1>1, <1>2, <1>3
<1> QED BY <1>4, <1>5, <1>6

OrderOf(seq) == {p \in (DOMAIN seq) \X (DOMAIN seq) : Before(seq, p[1], p[2])}

LEMMA InOrderOf ==
  ASSUME NEW seq \in Seq(Elements), NEW i \in DOMAIN seq, NEW j \in DOMAIN seq
  PROVE  <<i, j>> \in OrderOf(seq) <=> Before(seq, i, j)
<1> DEFINE q == <<i, j>>
<1>1. q \in (DOMAIN seq) \X (DOMAIN seq) /\ q[1] = i /\ q[2] = j
  OBVIOUS
<1> HIDE DEF q
<1>2. q \in OrderOf(seq) <=> Before(seq, q[1], q[2])
  BY <1>1 DEF OrderOf
<1> QED BY <1>1, <1>2 DEF q

LEMMA BeforeIsOrder ==
  ASSUME NEW seq \in Seq(Elements)
  PROVE  IsOrder(DOMAIN seq, OrderOf(seq))
<1> DEFINE D == DOMAIN seq
           less(i, j) == Less(seq[i], seq[j])
           R == OrderOf(seq)
<1>1. D \in SUBSET Nat /\ \A i \in D : seq[i] \in Elements
  OBVIOUS
<1>2. /\ \A i, j \in D : less(i, j) => ~less(j, i)
      /\ \A i, j, k \in D : less(i, j) /\ less(j, k) => less(i, k)
      /\ \A i, j, k \in D : ~less(i, j) /\ ~less(j, k) => ~less(i, k)
  BY <1>1, LessIsWeakOrder
<1>3. \A i, j \in D : <<i, j>> \in R <=> less(i, j) \/ (~less(j, i) /\ i < j)
  BY InOrderOf, Zenon DEF Before
<1> HIDE DEF less, R, D
<1>4. \A i \in D : <<i, i>> \notin R
  BY <1>1, <1>2, <1>3
<1>5. \A i, j \in D : i # j => <<i, j>> \in R \/ <<j, i>> \in R
  BY <1>1, <1>2, <1>3
<1>6. \A i, j, k \in D : <<i, j>> \in R /\ <<j, k>> \in R => <<i, k>> \in R
  BY <1>1, <1>2, <1>3
<1>7. IsOrder(D, R)
  BY <1>4, <1>5, <1>6 DEF IsOrder
<1> QED BY <1>7 DEF R, D

(* A sequence in the iterator's order has the same members. *)
LEMMA InOrderPermutes ==
  ASSUME NEW seq \in Seq(Elements)
  PROVE  /\ InOrder(seq) \in Seq(Elements) /\ Len(InOrder(seq)) = Len(seq)
         /\ \E p \in [DOMAIN seq -> DOMAIN seq] :
              /\ \A n \in DOMAIN seq : InOrder(seq)[n] = seq[p[n]]
              /\ \A i \in DOMAIN seq : \E n \in DOMAIN seq : p[n] = i
              /\ \A m, n \in DOMAIN seq : p[m] = p[n] => m = n
<1> DEFINE D == DOMAIN seq
           R == OrderOf(seq)
           rank == [i \in D |-> Cardinality({j \in D : Before(seq, j, i)})]
           at(n) == CHOOSE i \in D : rank[i] = n - 1
<1>1. Len(seq) \in Nat /\ D = 1 .. Len(seq) /\ \A i \in D : seq[i] \in Elements
  OBVIOUS
<1>2. IsFiniteSet(D) /\ Cardinality(D) = Len(seq)
  BY <1>1, FS_Interval
<1>3. IsOrder(D, R)
  BY BeforeIsOrder
<1>4. ASSUME NEW i \in D PROVE rank[i] = RankIn(D, R, i)
  <2>1. {j \in D : Before(seq, j, i)} = {j \in D : <<j, i>> \in R}
    BY InOrderOf
  <2> QED BY <2>1 DEF RankIn
<1>5. InOrder(seq) = [n \in D |-> seq[at(n)]]
  BY DEF InOrder
<1> HIDE DEF D, R, rank
<1>6. ASSUME NEW n \in D
      PROVE  at(n) \in D /\ rank[at(n)] = n - 1
  <2>1. n - 1 \in 0 .. Cardinality(D) - 1
    BY <1>1, <1>2
  <2>2. \E i \in D : RankIn(D, R, i) = n - 1
    BY <1>2, <1>3, <2>1, EveryRankOccurs
  <2>3. \E i \in D : rank[i] = n - 1
    BY <1>4, <2>2
  <2> QED BY <2>3
<1>7. ASSUME NEW i \in D
      PROVE  rank[i] + 1 \in D /\ at(rank[i] + 1) = i
  <2>1. rank[i] \in 0 .. Cardinality(D) - 1
    BY <1>2, <1>3, <1>4, RanksAreDistinct
  <2>2. rank[i] + 1 \in D /\ (rank[i] + 1) - 1 = rank[i]
    BY <1>1, <1>2, <2>1
  <2>3. at(rank[i] + 1) \in D /\ rank[at(rank[i] + 1)] = rank[i]
    BY <1>6, <2>2
  <2> HIDE DEF at
  <2> QED BY <1>2, <1>3, <1>4, <2>2, <2>3, RanksAreDistinct
<1> HIDE DEF at
<1>8. InOrder(seq) \in Seq(Elements) /\ Len(InOrder(seq)) = Len(seq)
  BY <1>1, <1>5, <1>6
<1>9. \A n \in D : InOrder(seq)[n] = seq[at(n)]
  BY <1>5
<1> DEFINE p == [n \in D |-> at(n)]
<1>10. p \in [D -> D] /\ \A n \in D : p[n] = at(n) /\ InOrder(seq)[n] = seq[p[n]]
  BY <1>6, <1>9
<1> HIDE DEF p
<1>11. \A i \in D : \E n \in D : p[n] = i
  BY <1>7, <1>10
<1>12. ASSUME NEW m \in D, NEW n \in D, p[m] = p[n]
       PROVE  m = n
  <2>1. m - 1 = n - 1
    BY <1>6, <1>10, <1>12
  <2> QED BY <1>1, <2>1
<1> QED BY <1>8, <1>10, <1>11, <1>12 DEF D

----------------------------------------------------------------------------
(* Adding the members of one bucket to another.                            *)

OneMore(old, e, those) == IF e \in those /\ ~Matches(old, e) THEN Append(old, e) ELSE old

(* f[i] is the bucket after the first i members of seq, for i up to n.     *)
Runs(f, n, bucket, seq, those) ==
  f = [i \in 0 .. n |-> IF i = 0 THEN bucket ELSE OneMore(f[i - 1], seq[i], those)]

LEMMA RunsExist ==
  ASSUME NEW bucket, NEW seq \in Seq(Elements), NEW those, NEW n \in Nat
  PROVE  \E f : Runs(f, n, bucket, seq, those)
<1> DEFINE T == {m \in Nat : ~\E f : Runs(f, m, bucket, seq, those)}
<1> SUFFICES ASSUME n \in T PROVE FALSE
  OBVIOUS
<1>1. PICK m \in T : \A k \in T : m <= k
  <2>1. T \in SUBSET Nat /\ T # {}
    OBVIOUS
  <2> HIDE DEF T
  <2> QED BY <2>1, LeastNumber
<1>2. CASE m = 0
  <2> DEFINE f == [i \in 0 .. 0 |-> bucket]
  <2>1. Runs(f, 0, bucket, seq, those)
    BY DEF Runs
  <2> QED BY <1>2, <2>1
<1>3. CASE m # 0
  <2>1. m - 1 \in Nat /\ ~(m <= m - 1)
    BY <1>3
  <2>2. PICK g : Runs(g, m - 1, bucket, seq, those)
    BY <1>1, <2>1
  <2> DEFINE f == [i \in 0 .. m |-> IF i = m THEN OneMore(g[m - 1], seq[m], those) ELSE g[i]]
  <2>3. \A i \in 0 .. m - 1 :
          g[i] = IF i = 0 THEN bucket ELSE OneMore(g[i - 1], seq[i], those)
    BY <2>2 DEF Runs
  <2>4. ASSUME NEW i \in 0 .. m
        PROVE  f[i] = IF i = 0 THEN bucket ELSE OneMore(f[i - 1], seq[i], those)
    <3>1. CASE i = m
      <4>1. i - 1 \in 0 .. m /\ i - 1 # m /\ i # 0
        BY <1>3, <3>1
      <4>2. f[i - 1] = g[m - 1]
        BY <3>1, <4>1
      <4> QED BY <3>1, <4>1, <4>2
    <3>2. CASE i # m /\ i # 0
      <4>1. i - 1 \in 0 .. m /\ i - 1 # m /\ i \in 0 .. m - 1
        BY <3>2
      <4> QED BY <2>3, <3>2, <4>1
    <3>3. CASE i # m /\ i = 0
      <4>1. i \in 0 .. m - 1
        BY <2>1, <3>3
      <4> QED BY <2>3, <3>3, <4>1
    <3> QED BY <3>1, <3>2, <3>3
  <2>5. f = [i \in 0 .. m |-> f[i]]
    OBVIOUS
  <2> HIDE DEF f
  <2>6. Runs(f, m, bucket, seq, those)
    BY <2>4, <2>5 DEF Runs
  <2> QED BY <2>6
<1> QED BY <1>2, <1>3

AddsUp(f, bucket, seq, those) ==
  /\ AddThose(bucket, seq, those) = f[Len(seq)] /\ f[0] = bucket
  /\ \A i \in 1 .. Len(seq) : f[i] = OneMore(f[i - 1], seq[i], those)

LEMMA AddThoseRuns ==
  ASSUME NEW bucket, NEW seq \in Seq(Elements), NEW those
  PROVE  \E f : AddsUp(f, bucket, seq, those)
<1> DEFINE f == CHOOSE f : Runs(f, Len(seq), bucket, seq, those)
<1>1. Len(seq) \in Nat
  OBVIOUS
<1>2. Runs(f, Len(seq), bucket, seq, those)
  BY <1>1, RunsExist
<1>3. AddThose(bucket, seq, those) = f[Len(seq)]
  BY DEF AddThose, Runs, OneMore
<1> HIDE DEF f
<1>4. \A i \in 0 .. Len(seq) :
        f[i] = IF i = 0 THEN bucket ELSE OneMore(f[i - 1], seq[i], those)
  BY <1>2 DEF Runs
<1>5. f[0] = bucket /\ \A i \in 1 .. Len(seq) : f[i] = OneMore(f[i - 1], seq[i], those)
  BY <1>1, <1>4
<1> QED BY <1>3, <1>5 DEF AddsUp

(* No member occurs twice. *)
Distinct(seq) == \A i, j \in DOMAIN seq : Equivalent(seq[i], seq[j]) => i = j

LEMMA OneMoreFits ==
  ASSUME NEW S \in SUBSET Elements, NEW old \in Seq(S), NEW e \in S, NEW those
  PROVE  /\ OneMore(old, e, those) \in Seq(S)
         /\ Len(OneMore(old, e, those)) <= Len(old) + 1
         /\ Distinct(old) => Distinct(OneMore(old, e, those))
<1>1. Len(old) \in Nat
  OBVIOUS
<1>2. CASE OneMore(old, e, those) = old
  BY <1>1, <1>2
<1>3. CASE OneMore(old, e, those) = Append(old, e) /\ ~Matches(old, e)
  <2> DEFINE new == Append(old, e)
  <2>1. /\ new \in Seq(S) /\ Len(new) = Len(old) + 1 /\ new[Len(old) + 1] = e
        /\ \A i \in 1 .. Len(old) : new[i] = old[i]
    OBVIOUS
  <2>2. DOMAIN old = 1 .. Len(old) /\ DOMAIN new = 1 .. Len(old) + 1
    BY <1>1, <2>1
  <2> HIDE DEF new
  <2>3. ASSUME NEW i \in DOMAIN old PROVE ~Equivalent(e, old[i]) /\ ~Equivalent(old[i], e)
    BY <1>3, <2>3 DEF Matches, Equivalent
  <2>4. ASSUME Distinct(old), NEW i \in DOMAIN new, NEW j \in DOMAIN new,
               Equivalent(new[i], new[j])
        PROVE  i = j
    <3>1. ASSUME NEW k \in DOMAIN new
          PROVE  \/ k \in DOMAIN old /\ new[k] = old[k]
                 \/ k = Len(old) + 1 /\ new[k] = e
      <4>1. k \in 1 .. Len(old) \/ k = Len(old) + 1
        BY <1>1, <2>2
      <4> QED BY <2>1, <2>2, <4>1
    <3> QED BY <2>3, <2>4, <3>1 DEF Distinct
  <2>5. Distinct(old) => Distinct(new)
    BY <2>4 DEF Distinct
  <2> QED BY <1>1, <1>3, <2>1, <2>5 DEF new
<1> QED BY <1>2, <1>3 DEF OneMore

LEMMA AddThoseFits ==
  ASSUME NEW S \in SUBSET Elements, NEW bucket \in Seq(S), NEW seq \in Seq(S), NEW those
  PROVE  /\ AddThose(bucket, seq, those) \in Seq(S)
         /\ Len(AddThose(bucket, seq, those)) <= Len(bucket) + Len(seq)
         /\ Distinct(bucket) => Distinct(AddThose(bucket, seq, those))
<1>1. seq \in Seq(Elements) /\ Len(seq) \in Nat /\ Len(bucket) \in Nat
  OBVIOUS
<1>2. PICK f : /\ AddThose(bucket, seq, those) = f[Len(seq)] /\ f[0] = bucket
               /\ \A i \in 1 .. Len(seq) : f[i] = OneMore(f[i - 1], seq[i], those)
  BY <1>1, AddThoseRuns DEF AddsUp
<1> DEFINE Good(i) == /\ f[i] \in Seq(S) /\ Len(f[i]) <= Len(bucket) + i
                      /\ Distinct(bucket) => Distinct(f[i])
           T == {i \in 0 .. Len(seq) : ~Good(i)}
<1>3. Good(0)
  BY <1>1, <1>2
<1>4. ASSUME NEW i \in 1 .. Len(seq), Good(i - 1)
      PROVE  Good(i)
  <2>1. seq[i] \in S
    BY <1>1
  <2>2. f[i] = OneMore(f[i - 1], seq[i], those)
    BY <1>2
  <2>3. f[i - 1] \in Seq(S) /\ Len(f[i - 1]) <= Len(bucket) + (i - 1)
    BY <1>4
  <2>4. f[i] \in Seq(S) /\ Len(f[i]) <= Len(f[i - 1]) + 1
        /\ (Distinct(f[i - 1]) => Distinct(f[i]))
    BY <2>1, <2>2, <2>3, OneMoreFits
  <2>5. Len(f[i - 1]) \in Nat /\ Len(f[i]) \in Nat
    BY <2>3, <2>4
  <2>6. Len(f[i]) <= Len(bucket) + i
    BY <1>1, <2>3, <2>4, <2>5
  <2> QED BY <1>4, <2>4, <2>6
<1> HIDE DEF Good
<1>5. T = {}
  <2> SUFFICES ASSUME T # {} PROVE FALSE
    OBVIOUS
  <2>1. PICK i \in T : \A j \in T : i <= j
    <3>1. T \in SUBSET Nat
      BY <1>1
    <3> HIDE DEF T
    <3> QED BY <3>1, LeastNumber
  <2>2. i \in 1 .. Len(seq) /\ i - 1 \in 0 .. Len(seq) /\ ~(i <= i - 1)
    BY <1>1, <1>3, <2>1
  <2>3. Good(i - 1)
    BY <2>1, <2>2
  <2> QED BY <1>4, <2>1, <2>2, <2>3
<1>6. Good(Len(seq))
  BY <1>1, <1>5
<1> QED BY <1>2, <1>6 DEF Good

LEMMA AddFromFits ==
  ASSUME TypeOK, NEW h \in Handles, Live(h), NEW those,
         NEW buckets \in [Buckets -> Seq(Elements)]
  PROVE  /\ AddFrom(h, those, buckets) \in [Buckets -> Seq(Elements)]
         /\ \A b \in Buckets :
              Len(AddFrom(h, those, buckets)[b]) <= Len(buckets[b]) + Len(Bucket(h, b))
<1> SUFFICES ASSUME NEW b \in Buckets
             PROVE  /\ AddFrom(h, those, buckets)[b] \in Seq(Elements)
                    /\ Len(AddFrom(h, those, buckets)[b]) <= Len(buckets[b]) + Len(Bucket(h, b))
  BY DEF AddFrom
<1>1. Bucket(h, b) \in Seq(Elements)
  BY BucketFacts
<1>2. InOrder(Bucket(h, b)) \in Seq(Elements) /\ Len(InOrder(Bucket(h, b))) = Len(Bucket(h, b))
  BY <1>1, InOrderPermutes
<1>3. AddFrom(h, those, buckets)[b] = AddThose(buckets[b], InOrder(Bucket(h, b)), those)
  BY DEF AddFrom
<1>4. buckets[b] \in Seq(Elements)
  OBVIOUS
<1> QED BY <1>2, <1>3, <1>4, AddThoseFits

----------------------------------------------------------------------------
(* Every step.                                                             *)

LEMMA EmptyFits ==
  Empty \in [Buckets -> Seq(Elements)] /\ \A b \in Buckets : Len(Empty[b]) = 0
BY DEF Empty

LEMMA CombiningIsSound ==
  ASSUME TypeOK, NEW g \in Handles, NEW h \in Handles, NEW d \in Handles,
         \/ Union(g, h, d) \/ Intersection(g, h, d)
         \/ Subtract(g, h, d) \/ SymmetricDifference(g, h, d)
  PROVE  ~Live(d) /\ \E buckets : SoundStep(d, FALSE, buckets)
<1> DEFINE first == AddFrom(g, Elements, Empty)
           only == AddFrom(g, Elements \ Held(h), Empty)
<1>1. Live(g) /\ Live(h) /\ ~Live(d)
  BY DEF Union, Intersection, Subtract, SymmetricDifference, Combine
<1>2. \A those : AddFrom(g, those, Empty) \in [Buckets -> Seq(Elements)]
  BY <1>1, EmptyFits, AddFromFits
<1>3. ASSUME NEW buckets, buckets \in [Buckets -> Seq(Elements)], Combine(g, h, d, buckets)
      PROVE  SoundStep(d, FALSE, buckets)
  BY <1>1, <1>3, BuildIsSound DEF Combine, BucketsFit
<1>4. CASE Union(g, h, d)
  <2>1. AddFrom(h, Elements, first) \in [Buckets -> Seq(Elements)]
    BY <1>1, <1>2, AddFromFits
  <2> QED BY <1>1, <1>3, <1>4, <2>1 DEF Union
<1>5. CASE Intersection(g, h, d)
  BY <1>1, <1>2, <1>3, <1>5 DEF Intersection
<1>6. CASE Subtract(g, h, d)
  BY <1>1, <1>2, <1>3, <1>6 DEF Subtract
<1>7. CASE SymmetricDifference(g, h, d)
  <2>1. AddFrom(h, Elements \ Held(g), only) \in [Buckets -> Seq(Elements)]
    BY <1>1, <1>2, AddFromFits
  <2> QED BY <1>1, <1>3, <1>7, <2>1 DEF SymmetricDifference
<1> QED BY <1>4, <1>5, <1>6, <1>7

LEMMA AsValueSetIsSound ==
  ASSUME TypeOK, NEW h \in Handles, NEW d \in Handles, AsValueSet(h, d)
  PROVE  ~Live(d) /\ SoundStep(d, FALSE, AddFrom(h, Elements, Empty))
<1> DEFINE new == AddFrom(h, Elements, Empty)
<1>1. Live(h) /\ ~Live(d) /\ Build(d, new)
  BY DEF AsValueSet
<1>2. new \in [Buckets -> Seq(Elements)]
      /\ \A b \in Buckets : Len(new[b]) <= Len(Empty[b]) + Len(Bucket(h, b))
  BY <1>1, EmptyFits, AddFromFits
<1> HIDE DEF new
<1>3. \A b \in Buckets : Len(new[b]) <= MaxLength
  <2>1. MaxLength \in Nat
    BY ElementsAssumption
  <2>2. ASSUME NEW b \in Buckets PROVE Len(new[b]) <= MaxLength
    <3>1. new[b] \in Seq(Elements) /\ Len(Bucket(h, b)) \in 0 .. MaxLength
          /\ Len(new[b]) <= 0 + Len(Bucket(h, b))
      BY <1>1, <1>2, BucketFacts, EmptyFits
    <3>2. Len(new[b]) \in Nat
      BY <3>1
    <3> QED BY <2>1, <3>1, <3>2
  <2> QED BY <2>2
<1>4. SoundStep(d, FALSE, new)
  BY <1>1, <1>2, <1>3, BuildIsSound DEF BucketsFit
<1> QED BY <1>1, <1>4 DEF new

(* A step changes one set, which is not wrapped, if it changes any. *)
Step ==
  \/ UNCHANGED vars
  \/ \E h \in Handles :
       \/ \E ss, arrays : Sound(h, ss, arrays) /\ ss[h] = Nothing
       \/ /\ Live(h) => ~sets[h].sealed
          /\ \E wrapped \in BOOLEAN : \E buckets : SoundStep(h, wrapped, buckets)

LEMMA EveryStepIsSound ==
  ASSUME TypeOK, [Next]_vars
  PROVE  Step
<1>1. ASSUME NEW d \in Handles, NewSet(d)
      PROVE  Step
  <2>1. MaxLength \in Nat
    BY ElementsAssumption
  <2>2. BucketsFit(Empty)
    BY <2>1, EmptyFits DEF BucketsFit
  <2> QED BY <1>1, <2>2, BuildIsSound DEF NewSet, Step
<1>2. ASSUME NEW h \in Handles, Discard(h)
      PROVE  Step
  BY <1>2, DiscardIsSound DEF Step
<1>3. ASSUME NEW h \in Handles, NEW e \in Elements, Add(h, e)
      PROVE  Step
  BY <1>3, AddIsSound DEF Step, Add, Writable
<1>4. ASSUME NEW h \in Handles, NEW e \in Elements, Remove(h, e)
      PROVE  Step
  BY <1>4, RemoveIsSound DEF Step, Remove, Writable
<1>5. ASSUME NEW h \in Handles, NEW d \in Handles, Copy(h, d) \/ SetValFromValueSet(h, d)
      PROVE  Step
  BY <1>5, CopyIsSound DEF Copy, SetValFromValueSet, CopyTo, Step
<1>6. ASSUME NEW h \in Handles, NEW d \in Handles, AsValueSet(h, d)
      PROVE  Step
  BY <1>6, AsValueSetIsSound DEF Step
<1>7. ASSUME NEW g \in Handles, NEW h \in Handles, NEW d \in Handles,
             \/ Union(g, h, d) \/ Intersection(g, h, d)
             \/ Subtract(g, h, d) \/ SymmetricDifference(g, h, d)
      PROVE  Step
  BY <1>7, CombiningIsSound DEF Step
<1>8. CASE UNCHANGED vars
  BY <1>8 DEF Step
<1> QED BY <1>1, <1>2, <1>3, <1>4, <1>5, <1>6, <1>7, <1>8 DEF Next

----------------------------------------------------------------------------
(* Sets keep their types, and do not meet in memory.                       *)

IInv == TypeOK /\ (~Copying => Apart(sets))

LEMMA InitiallyApart == Init => IInv
<1> SUFFICES ASSUME Init PROVE IInv
  OBVIOUS
<1>1. \A h \in Handles, b \in Buckets : ~Filled(sets, h, b)
  BY DEF Init, Filled
<1>2. SetsOK(sets) /\ sets \in [Handles -> {Nothing} \cup Set]
  BY DEF Init, SetsOK
<1>3. SlicesIn(sets) = {} /\ ArraysIn(sets) = {}
  BY <1>1, SlicesInUse DEF ArraysIn
<1>4. TypeOK
  BY <1>2, <1>3 DEF Init, TypeOK
<1> QED BY <1>1, <1>4 DEF IInv, Apart

LEMMA StepsKeepApart == IInv /\ [Next]_vars => IInv'
<1> SUFFICES ASSUME IInv, [Next]_vars PROVE IInv'
  OBVIOUS
<1>1. Step
  BY EveryStepIsSound DEF IInv
<1>2. CASE UNCHANGED vars
  BY <1>2 DEF vars, IInv, TypeOK, Apart, ArraysIn, SlicesIn, Filled
<1>3. ASSUME NEW h, NEW ss, NEW arrays, Sound(h, ss, arrays)
      PROVE  IInv'
  <2>1. Become(ss, arrays) /\ SetsOK(ss) /\ Fit(ss, arrays) /\ sets' = ss
    BY <1>3 DEF Sound, Become
  <2>2. TypeOK'
    BY <2>1, BecomingKeepsTypeOK
  <2>3. ~Copying => Apart(ss)
    BY <1>3 DEF Sound, IInv
  <2>4. Apart(sets)' = Apart(ss)
    BY <2>1 DEF Apart, Filled
  <2> QED BY <2>2, <2>3, <2>4 DEF IInv
<1> QED BY <1>1, <1>2, <1>3 DEF Step, SoundStep

(* Sets, slices and arrays keep their types whatever the program calls:    *)
(* slices lie in what is written of their arrays, and there is an array    *)
(* for every bucket (Set.Add, Set.Remove, append).                         *)
THEOREM MemoryIsSafe == Spec => []TypeOK
<1>1. IInv => TypeOK
  BY DEF IInv
<1> QED BY InitiallyApart, StepsKeepApart, <1>1, PTL DEF Spec

(* In programs that do not call ValueSet.Copy, the room behind a slice     *)
(* belongs to one writer only, however many sets wrap it (Set.Copy and     *)
(* SetValFromValueSet; Copying is what the run set_copy shows to break).   *)
THEOREM WritersStayApart == ASSUME ~Copying PROVE Spec => []WritersDoNotShare
<1>1. IInv => WritersDoNotShare
  <2> SUFFICES ASSUME IInv, NEW g \in Handles, NEW h \in Handles,
                      NEW b \in Buckets, NEW c \in Buckets,
                      Live(g), Live(h), <<g, b>> # <<h, c>>,
                      sets[g].vals[b] # Nothing, sets[h].vals[c] # Nothing,
                      sets[g].vals[b].array = sets[h].vals[c].array, Writable(g)
               PROVE  ~Writable(h) /\ sets[h].vals[c].len <= sets[g].vals[b].len
    BY DEF WritersDoNotShare
  <2> QED BY DEF IInv, Apart, Filled, Live, Writable
<1> QED BY InitiallyApart, StepsKeepApart, <1>1, PTL DEF Spec

(* What a step does to the sets, in a program that does not call Copy.     *)
LEMMA OthersShowTheSame ==
  ASSUME IInv, ~Copying, NEW h, NEW ss, NEW arrays, Sound(h, ss, arrays),
         NEW g \in Handles, g # h, NEW b \in Buckets
  PROVE  sets'[g] = sets[g] /\ (Live(g) => Bucket(g, b)' = Bucket(g, b))
<1>1. /\ sets' = ss /\ ss[g] = sets[g] /\ SetsOK(ss) /\ Stays(g, b, arrays)
      /\ heap' = [a \in Arrays |-> IF a \in ArraysIn(ss) THEN arrays[a] ELSE Nothing]
  BY DEF Sound, Become, IInv
<1>2. ASSUME Live(g), sets[g].vals[b] # Nothing
      PROVE  Bucket(g, b)' = Bucket(g, b)
  <2> DEFINE s == sets[g].vals[b]
  <2>1. Filled(sets, g, b) /\ Filled(ss, g, b) /\ ss[g].vals[b] = s
    BY <1>1, <1>2 DEF Filled, Live
  <2>2. s.array \in ArraysIn(ss) /\ s.array \in Arrays
    BY <1>1, <2>1, ArraysInUse
  <2>3. heap'[s.array] = arrays[s.array]
    BY <1>1, <2>2
  <2>4. SubSeq(arrays[s.array].data, 1, s.len) = SubSeq(heap[s.array].data, 1, s.len)
    BY <1>1, <2>1 DEF Stays
  <2>5. Bucket(g, b) = SubSeq(heap[s.array].data, 1, s.len)
    BY <1>2 DEF Bucket, Shown
  <2>6. Bucket(g, b)' = SubSeq(heap'[s.array].data, 1, s.len)
    BY <1>1, <1>2 DEF Bucket, Shown
  <2> QED BY <2>3, <2>4, <2>5, <2>6, Zenon
<1>3. ASSUME sets[g].vals[b] = Nothing
      PROVE  Bucket(g, b)' = Bucket(g, b)
  BY <1>1, <1>3 DEF Bucket, Shown
<1> QED BY <1>1, <1>2, <1>3

LEMMA ChangedShowsAsLeft ==
  ASSUME IInv, ~Copying, NEW h \in Handles, NEW wrapped, NEW buckets, NEW ss, NEW arrays,
         Sound(h, ss, arrays), Leaves(h, wrapped, buckets, ss, arrays), NEW b \in Buckets
  PROVE  sets'[h] # Nothing /\ sets'[h].sealed = wrapped /\ Bucket(h, b)' = buckets[b]
<1>1. /\ sets' = ss /\ ss[h] # Nothing /\ ss[h].sealed = wrapped /\ SetsOK(ss)
      /\ Shows(h, b, ss, arrays, buckets[b])
      /\ heap' = [a \in Arrays |-> IF a \in ArraysIn(ss) THEN arrays[a] ELSE Nothing]
  BY DEF Sound, Become, Leaves, IInv
<1>2. CASE ss[h].vals[b] = Nothing
  BY <1>1, <1>2 DEF Bucket, Shown, Shows
<1>3. CASE ss[h].vals[b] # Nothing
  <2> DEFINE s == ss[h].vals[b]
  <2>1. Filled(ss, h, b)
    BY <1>1, <1>3 DEF Filled
  <2>2. s.array \in ArraysIn(ss) /\ s.array \in Arrays
    BY <1>1, <2>1, ArraysInUse
  <2>3. heap'[s.array] = arrays[s.array]
    BY <1>1, <2>2
  <2>4. buckets[b] = SubSeq(arrays[s.array].data, 1, s.len)
    BY <1>1, <1>3 DEF Shows
  <2>5. Bucket(h, b)' = SubSeq(heap'[s.array].data, 1, s.len)
    BY <1>1, <1>3 DEF Bucket, Shown
  <2> QED BY <1>1, <2>3, <2>4, <2>5, Zenon
<1> QED BY <1>1, <1>2, <1>3

(* "copy so caller can't mutate what we wrap": in programs that do not     *)
(* call ValueSet.Copy, what a wrapped set holds stays the same for as long *)
(* as it is kept (SetValFromValueSet).                                     *)
THEOREM WrappedSetsStay == ASSUME ~Copying PROVE Spec => SealedSetsNeverChange
<1>1. IInv /\ [Next]_vars =>
        [\A h \in Handles :
           Live(h) /\ sets[h].sealed /\ sets'[h] # Nothing => Members(h)' = Members(h)]_vars
  <2> SUFFICES ASSUME IInv, [Next]_vars, NEW g \in Handles,
                      Live(g), sets[g].sealed, sets'[g] # Nothing
               PROVE  Members(g)' = Members(g)
    OBVIOUS
  <2>1. CASE UNCHANGED vars
    BY <2>1 DEF vars, Members, Bucket, Shown
  <2>2. ASSUME NEW h, NEW ss, NEW arrays, Sound(h, ss, arrays), g # h
        PROVE  Members(g)' = Members(g)
    <3>1. \A b \in Buckets : Bucket(g, b)' = Bucket(g, b)
      BY <2>2, OthersShowTheSame
    <3> QED BY <3>1 DEF Members
  <2>3. Step
    BY EveryStepIsSound DEF IInv
  <2>4. ASSUME NEW ss, NEW arrays, Sound(g, ss, arrays)
        PROVE  ss[g] # Nothing
    BY <2>4 DEF Sound, Become
  <2> QED BY <2>1, <2>2, <2>3, <2>4 DEF Step, SoundStep
<1> QED BY InitiallyApart, StepsKeepApart, <1>1, PTL DEF Spec, SealedSetsNeverChange
=============================================================================
