----------------------- MODULE SetMembership_proofs -----------------------
(***************************************************************************)
(* Theorems about what the sets of SetStore hold, in programs that do not  *)
(* call ValueSet.Copy (the run set_copy shows why), of elements on which   *)
(* the hash agrees with equality, as the rules of a set must.              *)
(***************************************************************************)
EXTENDS SetStore_proofs

----------------------------------------------------------------------------
(* Buckets without duplicates, each in its place.                          *)

HashedTo(b) == {e \in Elements : Hash(e) = b}
Proper(b, seq) == seq \in Seq(HashedTo(b)) /\ Distinct(seq)
AllProper(buckets) ==
  /\ buckets \in [Buckets -> Seq(Elements)]
  /\ \A b \in Buckets : Proper(b, buckets[b])

Tidy == \A h \in Handles : Live(h) => AllProper(Members(h))

LEMMA EmptyIsProper == AllProper(Empty)
BY DEF AllProper, Proper, Empty, Distinct

LEMMA AppendIsProper ==
  ASSUME NEW e \in Elements, NEW seq, Proper(Hash(e), seq), ~Matches(seq, e)
  PROVE  Proper(Hash(e), Append(seq, e)) /\ Append(seq, e) \in Seq(Elements)
<1> DEFINE S == HashedTo(Hash(e))
<1>1. S \in SUBSET Elements /\ e \in S
  BY DEF HashedTo
<1>2. OneMore(seq, e, Elements) = Append(seq, e)
  BY DEF OneMore
<1>3. seq \in Seq(S) /\ Distinct(seq)
  BY DEF Proper
<1> HIDE DEF S
<1>4. Append(seq, e) \in Seq(S) /\ Distinct(Append(seq, e))
  BY <1>1, <1>2, <1>3, OneMoreFits
<1>5. Append(seq, e) \in Seq(Elements)
  BY <1>1, <1>4
<1> QED BY <1>4, <1>5 DEF Proper, S

LEMMA WithoutIsProper ==
  ASSUME NEW b, NEW seq, Proper(b, seq), NEW i \in DOMAIN seq
  PROVE  Proper(b, Without(seq, i)) /\ Without(seq, i) \in Seq(Elements)
<1> DEFINE S == HashedTo(b)
           rest == Without(seq, i)
           from(j) == IF j < i THEN j ELSE j + 1
<1>1. seq \in Seq(S) /\ Len(seq) \in Nat /\ DOMAIN seq = 1 .. Len(seq) /\ Distinct(seq)
  BY DEF Proper
<1>2. /\ rest \in Seq(S) /\ Len(rest) = Len(seq) - 1
      /\ \A j \in 1 .. Len(seq) - 1 : rest[j] = IF j < i THEN seq[j] ELSE seq[j + 1]
  BY <1>1, WithoutIsShorter
<1> HIDE DEF rest
<1>3. DOMAIN rest = 1 .. Len(seq) - 1
  BY <1>2
<1>4. \A j \in DOMAIN rest : from(j) \in DOMAIN seq /\ rest[j] = seq[from(j)]
  BY <1>1, <1>2, <1>3
<1>5. \A j, k \in DOMAIN rest : from(j) = from(k) => j = k
  BY <1>1, <1>3
<1> HIDE DEF from
<1>6. Distinct(rest)
  BY <1>1, <1>4, <1>5 DEF Distinct
<1>7. S \in SUBSET Elements
  BY DEF HashedTo
<1> HIDE DEF S
<1>8. rest \in Seq(Elements)
  BY <1>2, <1>7
<1> QED BY <1>2, <1>6, <1>8 DEF Proper, S, rest

LEMMA InOrderIsProper ==
  ASSUME NEW b, NEW seq, Proper(b, seq)
  PROVE  Proper(b, InOrder(seq))
<1> DEFINE S == HashedTo(b)
           new == InOrder(seq)
<1>1. seq \in Seq(S) /\ Distinct(seq) /\ S \in SUBSET Elements
  BY DEF Proper, HashedTo
<1> HIDE DEF S
<1>2. seq \in Seq(Elements) /\ DOMAIN seq = 1 .. Len(seq) /\ Len(seq) \in Nat
  BY <1>1
<1>3. new \in Seq(Elements) /\ Len(new) = Len(seq)
  BY <1>2, InOrderPermutes
<1>4. PICK p \in [DOMAIN seq -> DOMAIN seq] :
        /\ \A n \in DOMAIN seq : new[n] = seq[p[n]]
        /\ \A m, n \in DOMAIN seq : p[m] = p[n] => m = n
  BY <1>2, InOrderPermutes
<1> HIDE DEF new
<1>5. DOMAIN new = DOMAIN seq
  BY <1>2, <1>3
<1>6. Distinct(new)
  BY <1>1, <1>4, <1>5 DEF Distinct
<1>7. \A n \in 1 .. Len(seq) : new[n] \in S
  <2>1. \A i \in DOMAIN seq : seq[i] \in S
    BY <1>1
  <2> QED BY <1>2, <1>4, <2>1
<1>8. new \in Seq(S)
  BY <1>2, <1>3, <1>7
<1> QED BY <1>6, <1>8 DEF Proper, S, new

LEMMA AddFromIsProper ==
  ASSUME Tidy, NEW h \in Handles, Live(h), NEW those, NEW buckets, AllProper(buckets)
  PROVE  AllProper(AddFrom(h, those, buckets))
<1> DEFINE new == AddFrom(h, those, buckets)
<1>1. ASSUME NEW b \in Buckets
      PROVE  Proper(b, new[b]) /\ new[b] \in Seq(Elements)
  <2> DEFINE seq == InOrder(Bucket(h, b))
             S == HashedTo(b)
  <2>1. Proper(b, Bucket(h, b)) /\ Proper(b, buckets[b])
    BY DEF Tidy, AllProper, Members
  <2>2. seq \in Seq(S) /\ buckets[b] \in Seq(S) /\ Distinct(buckets[b])
    BY <2>1, InOrderIsProper DEF Proper
  <2>3. new[b] = AddThose(buckets[b], seq, those)
    BY DEF AddFrom
  <2>4. S \in SUBSET Elements
    BY DEF HashedTo
  <2> HIDE DEF S, seq, new
  <2>5. new[b] \in Seq(S) /\ Distinct(new[b])
    BY <2>2, <2>3, <2>4, AddThoseFits
  <2>6. new[b] \in Seq(Elements)
    BY <2>4, <2>5
  <2> QED BY <2>5, <2>6 DEF Proper, S
<1> QED BY <1>1 DEF AllProper, AddFrom

----------------------------------------------------------------------------
(* How often an element occurs.                                            *)

LEMMA SameCardinality ==
  ASSUME NEW S, IsFiniteSet(S), NEW T, NEW f \in [S -> T],
         \A x, y \in S : f[x] = f[y] => x = y, \A z \in T : \E x \in S : f[x] = z
  PROVE  IsFiniteSet(T) /\ Cardinality(T) = Cardinality(S)
<1>1. f \in Bijection(S, T)
  BY DEF Bijection, Injection, Surjection, IsInjective
<1> QED BY <1>1, FS_Bijection DEF ExistsBijection

Places(seq, n, e) == {i \in 1 .. n : seq[i] = e}
Count(seq, e) == Cardinality(Places(seq, Len(seq), e))

LEMMA CountIsNat ==
  ASSUME NEW seq, NEW n \in Nat, NEW e
  PROVE  /\ IsFiniteSet(Places(seq, n, e)) /\ Cardinality(Places(seq, n, e)) \in Nat
         /\ Cardinality(Places(seq, n, e)) > 0 <=> \E i \in 1 .. n : seq[i] = e
<1>1. IsFiniteSet(1 .. n)
  BY FS_Interval
<1>2. Places(seq, n, e) \in SUBSET (1 .. n)
  BY DEF Places
<1>3. IsFiniteSet(Places(seq, n, e)) /\ Cardinality(Places(seq, n, e)) \in Nat
  BY <1>1, <1>2, FS_Subset, FS_CardinalityType
<1>4. Cardinality(Places(seq, n, e)) = 0 <=> Places(seq, n, e) = {}
  BY <1>3, FS_EmptySet
<1>5. Places(seq, n, e) # {} <=> \E i \in 1 .. n : seq[i] = e
  BY DEF Places
<1> QED BY <1>3, <1>4, <1>5

LEMMA OnePlaceMore ==
  ASSUME NEW seq, NEW n \in Nat, NEW e
  PROVE  Cardinality(Places(seq, n + 1, e))
           = Cardinality(Places(seq, n, e)) + (IF seq[n + 1] = e THEN 1 ELSE 0)
<1>1. IsFiniteSet(Places(seq, n, e)) /\ Cardinality(Places(seq, n, e)) \in Nat
  BY CountIsNat
<1>2. n + 1 \notin Places(seq, n, e)
  BY DEF Places
<1>3. CASE seq[n + 1] = e
  <2>1. Places(seq, n + 1, e) = Places(seq, n, e) \cup {n + 1}
    BY <1>3 DEF Places
  <2> QED BY <1>1, <1>2, <1>3, <2>1, FS_AddElement
<1>4. CASE seq[n + 1] # e
  <2>1. Places(seq, n + 1, e) = Places(seq, n, e)
    BY <1>4 DEF Places
  <2> QED BY <1>1, <1>4, <2>1
<1> QED BY <1>3, <1>4

LEMMA CountAppend ==
  ASSUME NEW seq \in Seq(Elements), NEW x \in Elements, NEW e
  PROVE  Count(Append(seq, x), e) = Count(seq, e) + (IF x = e THEN 1 ELSE 0)
<1> DEFINE new == Append(seq, x)
           n == Len(seq)
<1>1. n \in Nat /\ Len(new) = n + 1 /\ new[n + 1] = x /\ \A i \in 1 .. n : new[i] = seq[i]
  OBVIOUS
<1> HIDE DEF new, n
<1>2. Places(new, n, e) = Places(seq, n, e)
  BY <1>1 DEF Places
<1>3. Count(new, e) = Cardinality(Places(new, n + 1, e))
      /\ Count(seq, e) = Cardinality(Places(seq, n, e))
  BY <1>1 DEF Count, n
<1>4. Cardinality(Places(new, n + 1, e))
        = Cardinality(Places(new, n, e)) + (IF new[n + 1] = e THEN 1 ELSE 0)
  BY <1>1, OnePlaceMore
<1> QED BY <1>1, <1>2, <1>3, <1>4 DEF new

LEMMA CountWithout ==
  ASSUME NEW seq \in Seq(Elements), NEW i \in DOMAIN seq, NEW e
  PROVE  Count(Without(seq, i), e) = Count(seq, e) - (IF seq[i] = e THEN 1 ELSE 0)
<1> DEFINE n == Len(seq)
           rest == Without(seq, i)
           S == Places(rest, n - 1, e)
           T == Places(seq, n, e) \ {i}
           f == [j \in S |-> IF j < i THEN j ELSE j + 1]
<1>1. /\ n \in Nat /\ i \in 1 .. n /\ n - 1 \in Nat /\ Len(rest) = n - 1
      /\ \A j \in 1 .. n - 1 : rest[j] = IF j < i THEN seq[j] ELSE seq[j + 1]
  <2>1. n \in Nat /\ i \in 1 .. n
    OBVIOUS
  <2>2. /\ Len(Without(seq, i)) = Len(seq) - 1
        /\ \A j \in 1 .. Len(seq) - 1 :
             Without(seq, i)[j] = IF j < i THEN seq[j] ELSE seq[j + 1]
    BY WithoutIsShorter
  <2> QED BY <2>1, <2>2
<1> HIDE DEF n, rest
<1>2. f \in [S -> T]
  BY <1>1 DEF Places
<1>3. \A x, y \in S : f[x] = f[y] => x = y
  BY <1>1 DEF Places
<1>4. ASSUME NEW z \in T
      PROVE  \E x \in S : f[x] = z
  <2>1. z \in 1 .. n /\ z # i /\ seq[z] = e
    BY DEF Places
  <2>2. CASE z < i
    <3>1. z \in S /\ f[z] = z
      BY <1>1, <2>1, <2>2 DEF Places
    <3> QED BY <3>1
  <2>3. CASE ~(z < i)
    <3>1. z - 1 \in 1 .. n - 1 /\ ~(z - 1 < i) /\ (z - 1) + 1 = z
      BY <1>1, <2>1, <2>3
    <3>2. z - 1 \in S /\ f[z - 1] = z
      BY <1>1, <2>1, <3>1 DEF Places
    <3> QED BY <3>2
  <2> QED BY <2>2, <2>3
<1>5. IsFiniteSet(S) /\ IsFiniteSet(Places(seq, n, e)) /\ Cardinality(Places(seq, n, e)) \in Nat
  BY <1>1, CountIsNat
<1>6. Cardinality(T) = Cardinality(S)
  <2> HIDE DEF S, T, f
  <2> QED BY <1>2, <1>3, <1>4, <1>5, SameCardinality
<1>7. Cardinality(T) = Cardinality(Places(seq, n, e)) - (IF seq[i] = e THEN 1 ELSE 0)
  <2>1. i \in Places(seq, n, e) <=> seq[i] = e
    BY <1>1 DEF Places
  <2>2. Cardinality(Places(seq, n, e) \ {i}) =
          IF i \in Places(seq, n, e) THEN Cardinality(Places(seq, n, e)) - 1
                                     ELSE Cardinality(Places(seq, n, e))
    BY <1>5, FS_RemoveElement
  <2> QED BY <1>5, <2>1, <2>2
<1>8. Count(rest, e) = Cardinality(S) /\ Count(seq, e) = Cardinality(Places(seq, n, e))
  BY <1>1 DEF Count, n
<1> QED BY <1>6, <1>7, <1>8 DEF rest

LEMMA CountInOrder ==
  ASSUME NEW seq \in Seq(Elements), NEW e
  PROVE  Count(InOrder(seq), e) = Count(seq, e)
<1> DEFINE n == Len(seq)
           new == InOrder(seq)
           S == Places(new, n, e)
           T == Places(seq, n, e)
<1>1. n \in Nat /\ DOMAIN seq = 1 .. n /\ Len(new) = n
  BY InOrderPermutes
<1>2. PICK p \in [DOMAIN seq -> DOMAIN seq] :
        /\ \A m \in DOMAIN seq : new[m] = seq[p[m]]
        /\ \A i \in DOMAIN seq : \E m \in DOMAIN seq : p[m] = i
        /\ \A l, m \in DOMAIN seq : p[l] = p[m] => l = m
  BY InOrderPermutes
<1> DEFINE f == [j \in S |-> p[j]]
<1> HIDE DEF n, new
<1>3. f \in [S -> T] /\ \A x, y \in S : f[x] = f[y] => x = y
  <2>1. \A x \in S : x \in DOMAIN seq /\ new[x] = e
    BY <1>1 DEF Places
  <2>2. \A x \in S : p[x] \in T
    BY <1>1, <1>2, <2>1 DEF Places
  <2> HIDE DEF S, T
  <2> QED BY <1>2, <2>1, <2>2
<1>4. ASSUME NEW z \in T
      PROVE  \E x \in S : f[x] = z
  <2>1. z \in DOMAIN seq /\ seq[z] = e
    BY <1>1 DEF Places
  <2>2. PICK x \in DOMAIN seq : p[x] = z
    BY <1>2, <2>1
  <2>3. x \in S
    BY <1>1, <1>2, <2>1, <2>2 DEF Places
  <2> QED BY <2>2, <2>3
<1>5. IsFiniteSet(S)
  BY <1>1, CountIsNat
<1>6. Cardinality(T) = Cardinality(S)
  <2> HIDE DEF S, T, f
  <2> QED BY <1>3, <1>4, <1>5, SameCardinality
<1> QED BY <1>1, <1>6 DEF Count, n, new

LEMMA MatchesAppend ==
  ASSUME NEW seq \in Seq(Elements), NEW x \in Elements, NEW e
  PROVE  Matches(Append(seq, x), e) <=> Matches(seq, e) \/ Equivalent(e, x)
<1> DEFINE new == Append(seq, x)
           n == Len(seq)
<1>1. n \in Nat /\ DOMAIN new = 1 .. n + 1 /\ DOMAIN seq = 1 .. n
      /\ new[n + 1] = x /\ \A i \in 1 .. n : new[i] = seq[i]
  OBVIOUS
<1> HIDE DEF new, n
<1>2. \A i \in 1 .. n + 1 : i \in 1 .. n \/ i = n + 1
  BY <1>1
<1>3. n + 1 \in 1 .. n + 1 /\ \A i \in 1 .. n : i \in 1 .. n + 1
  BY <1>1
<1>4. Matches(new, e) <=> Matches(seq, e) \/ Equivalent(e, x)
  BY <1>1, <1>2, <1>3, Zenon DEF Matches
<1> QED BY <1>4 DEF new

(* Adding a bucket to another: of those members that the other has no      *)
(* equivalent of, it gets as many.                                         *)
LEMMA CountAddThose ==
  ASSUME NEW bucket \in Seq(Elements), NEW seq \in Seq(Elements), Distinct(seq),
         NEW those, NEW e
  PROVE  Count(AddThose(bucket, seq, those), e) =
           Count(bucket, e) + (IF e \in those /\ ~Matches(bucket, e) THEN Count(seq, e) ELSE 0)
<1> DEFINE n == Len(seq)
           more(i) == IF e \in those /\ ~Matches(bucket, e)
                        THEN Cardinality(Places(seq, i, e)) ELSE 0
<1>1. n \in Nat /\ DOMAIN seq = 1 .. n /\ \A i \in 1 .. n : seq[i] \in Elements
  OBVIOUS
<1>2. PICK f : /\ AddThose(bucket, seq, those) = f[n] /\ f[0] = bucket
               /\ \A i \in 1 .. n : f[i] = OneMore(f[i - 1], seq[i], those)
  <2>1. PICK f : AddsUp(f, bucket, seq, those)
    BY AddThoseRuns
  <2> QED BY <2>1 DEF AddsUp
<1> HIDE DEF n
<1> DEFINE Good(i) ==
             /\ f[i] \in Seq(Elements)
             /\ \A x : Matches(bucket, x) => Matches(f[i], x)
             /\ \A x : Matches(f[i], x) =>
                  Matches(bucket, x) \/ \E k \in 1 .. i : Equivalent(x, seq[k])
             /\ Count(f[i], e) = Count(bucket, e) + more(i)
           T == {i \in 0 .. n : ~Good(i)}
<1>3. Good(0)
  <2>1. Cardinality(Places(seq, 0, e)) = 0
    <3>1. Places(seq, 0, e) = {}
      BY DEF Places
    <3> QED BY <3>1, FS_EmptySet
  <2>2. Count(bucket, e) \in Nat
    <3>1. Len(bucket) \in Nat
      OBVIOUS
    <3> QED BY <3>1, CountIsNat DEF Count
  <2> QED BY <1>2, <2>1, <2>2
<1>4. ASSUME NEW i \in 1 .. n, Good(i - 1)
      PROVE  Good(i)
  <2> DEFINE old == f[i - 1]
             x == seq[i]
  <2>1. /\ f[i] = OneMore(old, x, those) /\ old \in Seq(Elements) /\ x \in Elements
        /\ i - 1 \in Nat /\ (i - 1) + 1 = i
    BY <1>1, <1>2, <1>4
  <2>2. ASSUME NEW k \in 1 .. i - 1 PROVE ~Equivalent(x, seq[k])
    <3>1. k \in DOMAIN seq /\ i \in DOMAIN seq /\ k # i
      BY <1>1
    <3> QED BY <3>1 DEF Distinct
  <2>3. Matches(old, x) <=> Matches(bucket, x)
    BY <1>4, <2>2
  <2>4. /\ \A y : Matches(bucket, y) => Matches(old, y)
        /\ \A y : Matches(old, y) =>
             Matches(bucket, y) \/ \E k \in 1 .. i - 1 : Equivalent(y, seq[k])
    BY <1>4
  <2>5. Count(old, e) = Count(bucket, e) + more(i - 1)
    BY <1>4
  <2>6. /\ Count(bucket, e) \in Nat /\ Count(old, e) \in Nat
        /\ Cardinality(Places(seq, i - 1, e)) \in Nat
    <3>1. \A s \in Seq(Elements) : Len(s) \in Nat
      OBVIOUS
    <3>2. \A s \in Seq(Elements) : Count(s, e) \in Nat
      BY <3>1, CountIsNat DEF Count
    <3> QED BY <2>1, <3>2, CountIsNat
  <2>7. Cardinality(Places(seq, i, e))
          = Cardinality(Places(seq, i - 1, e)) + (IF x = e THEN 1 ELSE 0)
    BY <2>1, OnePlaceMore
  <2>8. i \in 1 .. i /\ \A k \in 1 .. i - 1 : k \in 1 .. i
    BY <1>1
  <2> HIDE DEF old, x, Good
  <2>9. CASE x \in those /\ ~Matches(old, x)
    <3>1. f[i] = Append(old, x) /\ f[i] \in Seq(Elements)
      BY <2>1, <2>9 DEF OneMore
    <3>2. \A y : Matches(f[i], y) <=> Matches(old, y) \/ Equivalent(y, x)
      BY <2>1, <3>1, MatchesAppend
    <3>3. \A y : Matches(f[i], y) =>
             Matches(bucket, y) \/ \E k \in 1 .. i : Equivalent(y, seq[k])
      BY <2>4, <2>8, <3>2 DEF x
    <3>4. Count(f[i], e) = Count(old, e) + (IF x = e THEN 1 ELSE 0)
      BY <2>1, <3>1, CountAppend
    <3>5. Count(f[i], e) = Count(bucket, e) + more(i)
      BY <2>3, <2>5, <2>6, <2>7, <2>9, <3>4
    <3> QED BY <2>4, <3>1, <3>2, <3>3, <3>5 DEF Good
  <2>10. CASE ~(x \in those /\ ~Matches(old, x))
    <3>1. f[i] = old
      BY <2>1, <2>10 DEF OneMore
    <3>2. more(i) = more(i - 1)
      BY <2>3, <2>6, <2>7, <2>10
    <3> QED BY <2>1, <2>4, <2>5, <2>8, <3>1, <3>2 DEF Good
  <2> QED BY <2>9, <2>10
<1> HIDE DEF Good
<1>5. T = {}
  <2> SUFFICES ASSUME T # {} PROVE FALSE
    OBVIOUS
  <2>1. PICK i \in T : \A j \in T : i <= j
    <3>1. T \in SUBSET Nat
      BY <1>1
    <3> HIDE DEF T
    <3> QED BY <3>1, LeastNumber
  <2>2. i \in 1 .. n /\ i - 1 \in 0 .. n /\ ~(i <= i - 1)
    BY <1>1, <1>3, <2>1
  <2>3. Good(i - 1)
    BY <2>1, <2>2
  <2> QED BY <1>4, <2>1, <2>2, <2>3
<1>6. Good(n)
  BY <1>1, <1>5
<1> QED BY <1>2, <1>6 DEF Good, Count, n

----------------------------------------------------------------------------
(* The bag of what a set holds.                                            *)

Bag(buckets) == [e \in Elements |-> Count(buckets[Hash(e)], e)]
Short == \A h \in Handles, b \in Buckets : Live(h) => Len(Bucket(h, b)) \in 0 .. MaxLength

LEMMA BucketsAreShort == TypeOK => Short
BY BucketFacts DEF Short

LEMMA BucketsStayShort == TypeOK' => Short'
BY BucketsAreShort, PTL

LEMMA BagIsBag ==
  ASSUME NEW buckets, AllProper(buckets)
  PROVE  Bag(buckets) \in [Elements -> Nat]
<1> SUFFICES ASSUME NEW e \in Elements
             PROVE  Count(buckets[Hash(e)], e) \in Nat
  BY DEF Bag
<1>1. buckets[Hash(e)] \in Seq(Elements)
  BY HashIsABucket DEF AllProper
<1>2. Len(buckets[Hash(e)]) \in Nat
  BY <1>1
<1> QED BY <1>2, CountIsNat DEF Count

(* Counted over all buckets it is the same, as e can only be in its own.   *)
LEMMA OnlyItsOwnBucket ==
  ASSUME NEW m, \A b \in Buckets : Proper(b, m[b]) /\ Len(m[b]) <= MaxLength,
         NEW e \in Elements
  PROVE  Cardinality({p \in Buckets \X (1 .. MaxLength) :
                        p[2] <= Len(m[p[1]]) /\ m[p[1]][p[2]] = e}) = Count(m[Hash(e)], e)
<1> DEFINE b == Hash(e)
           n == Len(m[b])
           S == Places(m[b], n, e)
           T == {p \in Buckets \X (1 .. MaxLength) : p[2] <= Len(m[p[1]]) /\ m[p[1]][p[2]] = e}
           f == [i \in S |-> <<b, i>>]
<1>1. b \in Buckets /\ MaxLength \in Nat
  BY HashIsABucket, ElementsAssumption
<1>2. ASSUME NEW c \in Buckets
      PROVE  Len(m[c]) \in Nat /\ \A i \in 1 .. Len(m[c]) : m[c][i] \in Elements /\ Hash(m[c][i]) = c
  <2>1. m[c] \in Seq(HashedTo(c))
    BY DEF Proper
  <2>2. Len(m[c]) \in Nat /\ \A i \in 1 .. Len(m[c]) : m[c][i] \in HashedTo(c)
    BY <2>1
  <2> QED BY <2>2 DEF HashedTo
<1>3. n \in Nat /\ n <= MaxLength
  BY <1>1, <1>2
<1> HIDE DEF b
<1>4. ASSUME NEW i \in S
      PROVE  f[i] \in T
  <2>1. i \in 1 .. n /\ m[b][i] = e
    BY DEF Places
  <2>2. i \in 1 .. MaxLength /\ i <= n
    BY <1>1, <1>3, <2>1
  <2> DEFINE q == f[i]
  <2>3. q \in Buckets \X (1 .. MaxLength) /\ q[1] = b /\ q[2] = i
    BY <1>1, <2>2
  <2> HIDE DEF q, f
  <2>4. q \in T
    BY <2>1, <2>2, <2>3
  <2> QED BY <2>4 DEF q
<1>5. \A x, y \in S : f[x] = f[y] => x = y
  OBVIOUS
<1>6. ASSUME NEW z \in T
      PROVE  \E x \in S : f[x] = z
  <2>1. z = <<z[1], z[2]>> /\ z[1] \in Buckets /\ z[2] \in 1 .. MaxLength
    OBVIOUS
  <2>2. z[2] <= Len(m[z[1]]) /\ m[z[1]][z[2]] = e
    OBVIOUS
  <2>3. z[2] \in 1 .. Len(m[z[1]])
    BY <1>1, <1>2, <2>1, <2>2
  <2>4. z[1] = b
    BY <1>2, <2>1, <2>2, <2>3 DEF b
  <2>5. z[2] \in S
    BY <2>2, <2>3, <2>4 DEF Places
  <2> QED BY <2>1, <2>4, <2>5
<1>7. IsFiniteSet(S)
  BY <1>3, CountIsNat
<1>8. f \in [S -> T]
  BY <1>4
<1>9. Cardinality(T) = Cardinality(S)
  <2> HIDE DEF S, T, f
  <2> QED BY <1>5, <1>6, <1>7, <1>8, SameCardinality
<1> QED BY <1>9 DEF Count, b

LEMMA BagHolds ==
  ASSUME HashAgrees, NEW buckets, AllProper(buckets), NEW e \in Elements
  PROVE  Contents!Holds(Bag(buckets), e) <=> Matches(buckets[Hash(e)], e)
<1> DEFINE seq == buckets[Hash(e)]
<1>1. ASSUME NEW m \in Elements
      PROVE  Bag(buckets)[m] > 0 <=> \E i \in 1 .. Len(buckets[Hash(m)]) : buckets[Hash(m)][i] = m
  <2>1. buckets[Hash(m)] \in Seq(Elements)
    BY HashIsABucket DEF AllProper
  <2>2. Len(buckets[Hash(m)]) \in Nat
    BY <2>1
  <2>3. Count(buckets[Hash(m)], m) > 0
          <=> \E i \in 1 .. Len(buckets[Hash(m)]) : buckets[Hash(m)][i] = m
    BY <2>2, CountIsNat DEF Count
  <2> QED BY <2>3 DEF Bag
<1>2. seq \in Seq(HashedTo(Hash(e)))
  BY HashIsABucket DEF AllProper, Proper
<1>3. DOMAIN seq = 1 .. Len(seq)
      /\ \A i \in 1 .. Len(seq) : seq[i] \in Elements /\ Hash(seq[i]) = Hash(e)
  <2>1. DOMAIN seq = 1 .. Len(seq) /\ \A i \in 1 .. Len(seq) : seq[i] \in HashedTo(Hash(e))
    <3> HIDE DEF seq
    <3> QED BY <1>2
  <2> QED BY <2>1 DEF HashedTo
<1>4. ASSUME NEW m \in Elements, Bag(buckets)[m] > 0, Equivalent(e, m)
      PROVE  Matches(seq, e)
  <2>1. Hash(m) = Hash(e)
    BY <1>4 DEF HashAgrees
  <2>2. PICK i \in 1 .. Len(seq) : seq[i] = m
    BY <1>1, <1>4, <2>1
  <2> QED BY <1>3, <1>4, <2>2 DEF Matches
<1>5. ASSUME Matches(seq, e)
      PROVE  \E m \in Elements : Bag(buckets)[m] > 0 /\ Equivalent(e, m)
  <2>1. PICK i \in 1 .. Len(seq) : Equivalent(e, seq[i])
    BY <1>3, <1>5 DEF Matches
  <2>2. seq[i] \in Elements /\ Hash(seq[i]) = Hash(e)
    BY <1>3
  <2>3. Bag(buckets)[seq[i]] > 0
    BY <1>1, <2>2
  <2> QED BY <2>1, <2>2, <2>3
<1> QED BY <1>4, <1>5 DEF Contents!Holds

LEMMA BagAddFrom ==
  ASSUME TypeOK, Tidy, HashAgrees, NEW h \in Handles, Live(h), NEW those,
         NEW buckets, AllProper(buckets)
  PROVE  Bag(AddFrom(h, those, buckets)) =
           [e \in Elements |->
              Bag(buckets)[e] + (IF e \in those /\ ~Contents!Holds(Bag(buckets), e)
                                   THEN Bag(Members(h))[e] ELSE 0)]
<1> SUFFICES ASSUME NEW e \in Elements
             PROVE  Count(AddFrom(h, those, buckets)[Hash(e)], e) =
                      Count(buckets[Hash(e)], e)
                        + (IF e \in those /\ ~Matches(buckets[Hash(e)], e)
                             THEN Count(Bucket(h, Hash(e)), e) ELSE 0)
  <2>1. \A e \in Elements : Members(h)[Hash(e)] = Bucket(h, Hash(e))
    BY HashIsABucket DEF Members
  <2> QED BY <2>1, BagHolds DEF Bag
<1> DEFINE b == Hash(e)
           seq == InOrder(Bucket(h, b))
<1>1. b \in Buckets
  BY HashIsABucket
<1>2. buckets[b] \in Seq(Elements) /\ Bucket(h, b) \in Seq(Elements) /\ Proper(b, Bucket(h, b))
  BY <1>1, BucketFacts DEF Tidy, AllProper, Members
<1>3. seq \in Seq(Elements) /\ Count(seq, e) = Count(Bucket(h, b), e)
  BY <1>2, InOrderPermutes, CountInOrder
<1>4. Distinct(seq)
  BY <1>2, InOrderIsProper DEF Proper
<1>5. AddFrom(h, those, buckets)[b] = AddThose(buckets[b], seq, those)
  BY <1>1 DEF AddFrom
<1> HIDE DEF seq, b
<1>6. Count(AddThose(buckets[b], seq, those), e) =
        Count(buckets[b], e)
          + (IF e \in those /\ ~Matches(buckets[b], e) THEN Count(seq, e) ELSE 0)
  BY <1>2, <1>3, <1>4, CountAddThose
<1> QED BY <1>3, <1>5, <1>6 DEF b

----------------------------------------------------------------------------
(* What a step does to the bags.                                           *)

Content == [h \in Handles |-> IF Live(h) THEN BagOf(h) ELSE Nothing]
Wrapped == {h \in Handles : Live(h) /\ sets[h].sealed}
MInv == IInv /\ Tidy
ContentIsBags ==
  \A h \in Handles : Content[h] = IF Live(h) THEN Bag(Members(h)) ELSE Nothing

LEMMA BagsOfMembers == MInv => ContentIsBags
<1> SUFFICES ASSUME MInv, NEW h \in Handles, Live(h)
             PROVE  BagOf(h) = Bag(Members(h))
  BY DEF Content, ContentIsBags
<1> DEFINE m == Members(h)
<1>1. TypeOK /\ AllProper(m)
  BY DEF MInv, IInv, Tidy
<1>2. \A b \in Buckets : m[b] = Bucket(h, b)
  BY DEF Members
<1> HIDE DEF m
<1>3. ASSUME NEW b \in Buckets PROVE Proper(b, m[b]) /\ Len(m[b]) <= MaxLength
  <2>1. MaxLength \in Nat
    BY ElementsAssumption
  <2> QED BY <1>1, <1>2, <2>1, BucketFacts DEF AllProper
<1>4. ASSUME NEW e \in Elements
      PROVE  Cardinality({p \in Buckets \X (1 .. MaxLength) :
               p[2] <= Len(Bucket(h, p[1])) /\ Bucket(h, p[1])[p[2]] = e}) = Count(m[Hash(e)], e)
  <2>1. {p \in Buckets \X (1 .. MaxLength) :
           p[2] <= Len(Bucket(h, p[1])) /\ Bucket(h, p[1])[p[2]] = e}
        = {p \in Buckets \X (1 .. MaxLength) : p[2] <= Len(m[p[1]]) /\ m[p[1]][p[2]] = e}
    BY <1>2
  <2> QED BY <1>3, <2>1, OnlyItsOwnBucket
<1>5. BagOf(h) = Bag(m)
  BY <1>4 DEF BagOf, Bag
<1> QED BY <1>5 DEF m

LEMMA BagsOfMembersNext == MInv' => ContentIsBags'
BY BagsOfMembers, PTL

LEMMA LiveHasContent ==
  ASSUME MInv, NEW h \in Handles
  PROVE  /\ Live(h) <=> Content[h] # Nothing
         /\ Live(h) => AllProper(Members(h)) /\ Content[h] = Bag(Members(h))
                       /\ Content[h] \in [Elements -> Nat]
<1>1. Live(h) => AllProper(Members(h))
  BY DEF MInv, Tidy
<1>2. Live(h) => Content[h] = Bag(Members(h))
  BY BagsOfMembers DEF ContentIsBags
<1>3. Live(h) => Content[h] \in [Elements -> Nat]
  BY <1>1, <1>2, BagIsBag
<1>4. ~Live(h) => Content[h] = Nothing
  BY DEF Content
<1> QED BY <1>1, <1>2, <1>3, <1>4, NothingAssumption

(* A step leaves in h a set with these members. *)
Puts(h, wrapped, buckets) == SoundStep(h, wrapped, buckets) /\ AllProper(buckets)

LEMMA PutsBag ==
  ASSUME MInv, ~Copying, NEW h \in Handles, NEW wrapped \in BOOLEAN, NEW buckets,
         Puts(h, wrapped, buckets), [Next]_vars
  PROVE  /\ Tidy'
         /\ Content' = [Content EXCEPT ![h] = Bag(buckets)]
         /\ Wrapped' = IF wrapped THEN Wrapped \cup {h} ELSE Wrapped \ {h}
<1> PICK ss, arrays : Sound(h, ss, arrays) /\ Leaves(h, wrapped, buckets, ss, arrays)
  BY DEF Puts, SoundStep
<1>1. IInv /\ AllProper(buckets)
  BY DEF MInv, Puts
<1>2. sets'[h] # Nothing /\ sets'[h].sealed = wrapped
      /\ \A b \in Buckets : Bucket(h, b)' = buckets[b]
  <2>1. ASSUME NEW b \in Buckets
        PROVE  sets'[h] # Nothing /\ sets'[h].sealed = wrapped /\ Bucket(h, b)' = buckets[b]
    BY <1>1, ChangedShowsAsLeft
  <2>2. sets'[h] # Nothing /\ sets'[h].sealed = wrapped
    BY DEF Sound, Become, Leaves
  <2> QED BY <2>1, <2>2
<1>3. ASSUME NEW g \in Handles, g # h
      PROVE  sets'[g] = sets[g] /\ (Live(g) => Members(g)' = Members(g))
  <2>1. sets'[g] = sets[g]
    BY <1>3 DEF Sound, Become
  <2>2. ASSUME NEW b \in Buckets PROVE Live(g) => Bucket(g, b)' = Bucket(g, b)
    BY <1>1, <1>3, OthersShowTheSame
  <2> QED BY <2>1, <2>2 DEF Members
<1>4. Members(h)' = buckets
  BY <1>1, <1>2 DEF Members, AllProper
<1>5. \A g \in Handles : Live(g)' <=> g = h \/ Live(g)
  BY <1>2, <1>3 DEF Live
<1>6. Tidy'
  <2>1. ASSUME NEW g \in Handles, Live(g)'
        PROVE  AllProper(Members(g)')
    BY <1>1, <1>3, <1>4, <1>5, <2>1 DEF MInv, Tidy
  <2>2. ASSUME NEW g \in Handles PROVE AllProper(Members(g))' <=> AllProper(Members(g)')
    BY DEF AllProper, Proper, HashedTo, Hash, Buckets
  <2> QED BY <2>1, <2>2 DEF Tidy
<1>7. MInv'
  BY <1>1, <1>6, StepsKeepApart DEF MInv
<1>8. ASSUME NEW g \in Handles
      PROVE  Content'[g] = IF g = h THEN Bag(buckets) ELSE Content[g]
  <2>1. Content'[g] = IF Live(g)' THEN Bag(Members(g))' ELSE Nothing
    BY <1>7, BagsOfMembersNext DEF ContentIsBags
  <2>2. Content[g] = IF Live(g) THEN Bag(Members(g)) ELSE Nothing
    BY BagsOfMembers DEF ContentIsBags
  <2>3. Bag(Members(g))' = Bag(Members(g)')
    BY DEF Bag, Hash
  <2> QED BY <1>3, <1>4, <1>5, <2>1, <2>2, <2>3
<1>9. Content' = [g \in Handles |-> Content'[g]] /\ Content = [g \in Handles |-> Content[g]]
  BY DEF Content
<1>10. Content' = [Content EXCEPT ![h] = Bag(buckets)]
  BY <1>8, <1>9
<1>11. Wrapped' = IF wrapped THEN Wrapped \cup {h} ELSE Wrapped \ {h}
  BY <1>2, <1>3 DEF Wrapped, Live
<1> QED BY <1>6, <1>10, <1>11

LEMMA DiscardDropsBag ==
  ASSUME MInv, ~Copying, NEW h \in Handles, Discard(h)
  PROVE  Tidy' /\ Contents!Discard(h)
<1> PICK ss, arrays : Sound(h, ss, arrays) /\ ss[h] = Nothing
  BY DiscardIsSound DEF MInv, IInv
<1>1. Live(h) /\ sets'[h] = Nothing
  BY DEF Sound, Become, Discard
<1>2. ASSUME NEW g \in Handles, g # h
      PROVE  sets'[g] = sets[g] /\ (Live(g) => Members(g)' = Members(g))
  <2>1. sets'[g] = sets[g]
    BY <1>2 DEF Sound, Become
  <2>2. ASSUME NEW b \in Buckets PROVE Live(g) => Bucket(g, b)' = Bucket(g, b)
    BY <1>2, OthersShowTheSame DEF MInv
  <2> QED BY <2>1, <2>2 DEF Members
<1>3. \A g \in Handles : Live(g)' <=> g # h /\ Live(g)
  BY <1>1, <1>2 DEF Live
<1>4. Tidy'
  <2>1. ASSUME NEW g \in Handles, Live(g)'
        PROVE  AllProper(Members(g)')
    BY <1>2, <1>3, <2>1 DEF MInv, Tidy
  <2>2. ASSUME NEW g \in Handles PROVE AllProper(Members(g))' <=> AllProper(Members(g)')
    BY DEF AllProper, Proper, HashedTo, Hash, Buckets
  <2> QED BY <2>1, <2>2 DEF Tidy
<1>5. MInv'
  <2>1. [Next]_vars
    BY DEF Next
  <2> QED BY <1>4, <2>1, StepsKeepApart DEF MInv
<1>6. ASSUME NEW g \in Handles
      PROVE  Content'[g] = IF g = h THEN Nothing ELSE Content[g]
  <2>1. Content'[g] = IF Live(g)' THEN Bag(Members(g))' ELSE Nothing
    BY <1>5, BagsOfMembersNext DEF ContentIsBags
  <2>2. Content[g] = IF Live(g) THEN Bag(Members(g)) ELSE Nothing
    BY BagsOfMembers DEF ContentIsBags
  <2>3. Bag(Members(g))' = Bag(Members(g)')
    BY DEF Bag, Hash
  <2> QED BY <1>2, <1>3, <2>1, <2>2, <2>3
<1>7. Content' = [g \in Handles |-> Content'[g]] /\ Content = [g \in Handles |-> Content[g]]
  BY DEF Content
<1>8. Content' = [Content EXCEPT ![h] = Nothing]
  BY <1>6, <1>7
<1>9. Wrapped' = Wrapped \ {h}
  BY <1>1, <1>2 DEF Wrapped, Live
<1>10. Content[h] # Nothing
  BY <1>1, LiveHasContent
<1> QED BY <1>4, <1>8, <1>9, <1>10
       DEF Contents!Discard, Contents!Put, Contents!Live, Content, Wrapped

----------------------------------------------------------------------------
(* Each operation does to the bag what it promises.                        *)

LEMMA BagWith ==
  ASSUME NEW h \in Handles, NEW b, NEW seq
  PROVE  Bag(With(h, b, seq)) =
           [e \in Elements |-> IF Hash(e) = b THEN Count(seq, e) ELSE Bag(Members(h))[e]]
<1> SUFFICES ASSUME NEW e \in Elements
             PROVE  Count(With(h, b, seq)[Hash(e)], e) =
                      IF Hash(e) = b THEN Count(seq, e) ELSE Count(Members(h)[Hash(e)], e)
  BY DEF Bag
<1> QED BY HashIsABucket DEF With, Members

LEMMA WithIsProper ==
  ASSUME TypeOK, Tidy, NEW h \in Handles, Live(h), NEW b \in Buckets,
         NEW seq \in Seq(Elements), Proper(b, seq)
  PROVE  AllProper(With(h, b, seq))
BY DEF Tidy, AllProper, Members, With

LEMMA EmptyBag == Bag(Empty) = Contents!Empty
<1> SUFFICES ASSUME NEW e \in Elements
             PROVE  Count(<< >>, e) = 0
  BY HashIsABucket DEF Bag, Empty, Contents!Empty
<1>1. Places(<< >>, 0, e) = {}
  BY DEF Places
<1> QED BY <1>1, FS_EmptySet DEF Count

LEMMA NewSetCreates ==
  ASSUME MInv, ~Copying, NEW d \in Handles, NewSet(d), [Next]_vars
  PROVE  Tidy' /\ Contents!Create(d)
<1>1. TypeOK /\ ~Live(d) /\ Build(d, Empty)
  BY DEF MInv, IInv, NewSet
<1>2. Puts(d, FALSE, Empty)
  <2>1. MaxLength \in Nat
    BY ElementsAssumption
  <2>2. BucketsFit(Empty)
    BY <2>1, EmptyFits DEF BucketsFit
  <2> QED BY <1>1, <2>2, BuildIsSound, EmptyIsProper DEF Puts
<1>3. Tidy' /\ Content' = [Content EXCEPT ![d] = Contents!Empty] /\ Wrapped' = Wrapped \ {d}
  BY <1>2, PutsBag, EmptyBag
<1>4. Content[d] = Nothing /\ d \notin Wrapped
  BY <1>1, LiveHasContent DEF Wrapped
<1>5. Wrapped' = Wrapped
  BY <1>3, <1>4
<1> QED BY <1>3, <1>4, <1>5
       DEF Contents!Create, Contents!Put, Contents!Live, Content, Wrapped

LEMMA AddAdds ==
  ASSUME MInv, HashAgrees, ~Copying, NEW h \in Handles, NEW e \in Elements, Add(h, e),
         [Next]_vars
  PROVE  (Tidy' \/ UNCHANGED vars) /\ Contents!Add(h, e)
<1> DEFINE b == Hash(e)
           seq == Bucket(h, b)
           more == Append(seq, e)
<1>1. TypeOK /\ Tidy /\ Live(h) /\ ~sets[h].sealed /\ b \in Buckets
  BY HashIsABucket DEF MInv, IInv, Add, Writable
<1>2. /\ Content[h] # Nothing /\ h \notin Wrapped /\ AllProper(Members(h))
      /\ Content[h] = Bag(Members(h)) /\ Content[h] \in [Elements -> Nat]
  BY <1>1, LiveHasContent DEF Wrapped
<1>3. Has(h, e) <=> Contents!Holds(Content[h], e)
  BY <1>1, <1>2, BagHolds DEF Has, Members
<1>4. CASE Has(h, e)
  <2>1. UNCHANGED vars
    BY <1>4, <1>1, AddIsSound
  <2>2. Content' = Content /\ Wrapped' = Wrapped
    BY <2>1 DEF vars, Content, Wrapped, Live, BagOf, Bucket, Shown
  <2>3. Content' = [Content EXCEPT ![h] = Content[h]]
    BY <2>2 DEF Content
  <2> QED BY <1>2, <1>3, <1>4, <2>1, <2>2, <2>3
         DEF Contents!Add, Contents!Put, Contents!Live, Content, Wrapped
<1>5. CASE ~Has(h, e)
  <2>1. SoundStep(h, FALSE, With(h, b, more))
    BY <1>1, <1>5, AddIsSound
  <2>2. seq \in Seq(Elements) /\ Proper(b, seq)
    BY <1>1, <1>2 DEF AllProper, Members
  <2>3. Proper(b, more) /\ more \in Seq(Elements)
    BY <1>5, <2>2, AppendIsProper DEF Has
  <2>4. Puts(h, FALSE, With(h, b, more))
    BY <1>1, <2>1, <2>3, WithIsProper DEF Puts
  <2>5. Tidy' /\ Content' = [Content EXCEPT ![h] = Bag(With(h, b, more))]
        /\ Wrapped' = Wrapped \ {h}
    BY <2>4, PutsBag
  <2> DEFINE plus == [Content[h] EXCEPT ![e] = @ + 1]
  <2>6. Bag(With(h, b, more)) = plus
    <3>1. ASSUME NEW x \in Elements
          PROVE  (IF Hash(x) = b THEN Count(more, x) ELSE Content[h][x])
                   = IF x = e THEN Content[h][e] + 1 ELSE Content[h][x]
      <4>1. Count(more, x) = Count(seq, x) + (IF e = x THEN 1 ELSE 0)
        BY <2>2, CountAppend
      <4>2. Hash(x) = b => Content[h][x] = Count(seq, x)
        BY <1>1, <1>2 DEF Bag, Members
      <4>3. Content[h][x] \in Nat
        BY <1>2
      <4> QED BY <4>1, <4>2, <4>3
    <3>2. Bag(With(h, b, more)) =
            [x \in Elements |-> IF Hash(x) = b THEN Count(more, x) ELSE Content[h][x]]
      BY <1>2, BagWith
    <3> HIDE DEF more, seq, b
    <3> QED BY <1>2, <3>1, <3>2
  <2>7. Wrapped' = Wrapped
    BY <1>2, <2>5
  <2>8. Content' = [Content EXCEPT ![h] = plus]
    BY <2>5, <2>6
  <2> QED BY <1>2, <1>3, <1>5, <2>5, <2>7, <2>8
         DEF Contents!Add, Contents!Put, Contents!Live, Content, Wrapped
<1> QED BY <1>4, <1>5

LEMMA RemoveRemoves ==
  ASSUME MInv, HashAgrees, ~Copying, NEW h \in Handles, NEW e \in Elements, Remove(h, e),
         [Next]_vars
  PROVE  (Tidy' \/ UNCHANGED vars) /\ Contents!Remove(h, e)
<1> DEFINE b == Hash(e)
           seq == Bucket(h, b)
           at == FirstMatch(seq, e)
           m == seq[at]
           rest == Without(seq, at)
<1>1. TypeOK /\ Tidy /\ Live(h) /\ ~sets[h].sealed /\ b \in Buckets
  BY HashIsABucket DEF MInv, IInv, Remove, Writable
<1>2. /\ Content[h] # Nothing /\ h \notin Wrapped /\ AllProper(Members(h))
      /\ Content[h] = Bag(Members(h)) /\ Content[h] \in [Elements -> Nat]
  BY <1>1, LiveHasContent DEF Wrapped
<1>3. Has(h, e) <=> Contents!Holds(Content[h], e)
  BY <1>1, <1>2, BagHolds DEF Has, Members
<1>4. CASE ~Has(h, e)
  <2>1. UNCHANGED vars
    BY <1>4, <1>1, RemoveIsSound
  <2>2. Content' = Content /\ Wrapped' = Wrapped
    BY <2>1 DEF vars, Content, Wrapped, Live, BagOf, Bucket, Shown
  <2> QED BY <1>2, <1>3, <1>4, <2>1, <2>2
         DEF Contents!Remove, Contents!Live, Content, Wrapped
<1>5. CASE Has(h, e)
  <2>1. SoundStep(h, FALSE, With(h, b, rest))
    BY <1>1, <1>5, RemoveIsSound
  <2>2. seq \in Seq(Elements) /\ Proper(b, seq)
    BY <1>1, <1>2 DEF AllProper, Members
  <2>3. at \in DOMAIN seq /\ Equivalent(e, m)
    BY <1>5, <2>2, FirstMatchExists DEF Has
  <2> HIDE DEF at
  <2>4. Proper(b, rest) /\ rest \in Seq(Elements)
    BY <2>2, <2>3, WithoutIsProper
  <2>5. Puts(h, FALSE, With(h, b, rest))
    BY <1>1, <2>1, <2>4, WithIsProper DEF Puts
  <2>6. Tidy' /\ Content' = [Content EXCEPT ![h] = Bag(With(h, b, rest))]
        /\ Wrapped' = Wrapped \ {h}
    BY <2>5, PutsBag
  <2>7. m \in Elements /\ Hash(m) = b
    <3>1. seq \in Seq(HashedTo(b))
      BY <2>2 DEF Proper
    <3>2. m \in HashedTo(b)
      BY <2>3, <3>1
    <3> QED BY <3>2 DEF HashedTo
  <2>8. Content[h][m] > 0
    <3>1. Content[h][m] = Count(seq, m)
      BY <1>1, <1>2, <2>7 DEF Bag, Members
    <3>2. Len(seq) \in Nat /\ at \in 1 .. Len(seq)
      BY <2>2, <2>3
    <3>3. Count(seq, m) > 0
      BY <3>2, CountIsNat DEF Count
    <3> QED BY <3>1, <3>3
  <2> DEFINE less == [Content[h] EXCEPT ![m] = @ - 1]
  <2>9. Bag(With(h, b, rest)) = less
    <3>1. ASSUME NEW x \in Elements
          PROVE  (IF Hash(x) = b THEN Count(rest, x) ELSE Content[h][x])
                   = IF x = m THEN Content[h][m] - 1 ELSE Content[h][x]
      <4>1. Count(rest, x) = Count(seq, x) - (IF m = x THEN 1 ELSE 0)
        BY <2>2, <2>3, CountWithout
      <4>2. Hash(x) = b => Content[h][x] = Count(seq, x)
        BY <1>1, <1>2 DEF Bag, Members
      <4>3. Content[h][x] \in Nat
        BY <1>2
      <4> HIDE DEF rest, m
      <4> QED BY <2>7, <4>1, <4>2, <4>3
    <3>2. Bag(With(h, b, rest)) =
            [x \in Elements |-> IF Hash(x) = b THEN Count(rest, x) ELSE Content[h][x]]
      BY <1>2, BagWith
    <3> HIDE DEF rest, m, b
    <3> QED BY <1>2, <3>1, <3>2
  <2>10. Wrapped' = Wrapped
    BY <1>2, <2>6
  <2>11. Content' = [Content EXCEPT ![h] = less]
    BY <2>6, <2>9
  <2> HIDE DEF m, rest
  <2> QED BY <1>2, <2>3, <2>6, <2>7, <2>8, <2>10, <2>11
         DEF Contents!Remove, Contents!Put, Contents!Live, Content, Wrapped
<1> QED BY <1>4, <1>5

LEMMA SealSeals ==
  ASSUME MInv, ~Copying, NEW h \in Handles, NEW d \in Handles, SetValFromValueSet(h, d),
         [Next]_vars
  PROVE  Tidy' /\ Contents!Seal(h, d)
<1>1. TypeOK /\ Tidy /\ Live(h) /\ ~Live(d) /\ Writable(h) /\ CopyTo(h, d, TRUE)
  BY DEF MInv, IInv, SetValFromValueSet, CopyTo
<1>2. SoundStep(d, TRUE, Members(h))
  BY <1>1, CopyIsSound
<1>3. AllProper(Members(h)) /\ Content[h] = Bag(Members(h)) /\ Content[h] # Nothing
      /\ Content[d] = Nothing
  BY <1>1, LiveHasContent
<1>4. Puts(d, TRUE, Members(h))
  BY <1>2, <1>3 DEF Puts
<1>5. Tidy' /\ Content' = [Content EXCEPT ![d] = Content[h]] /\ Wrapped' = Wrapped \cup {d}
  BY <1>3, <1>4, PutsBag
<1> QED BY <1>3, <1>5
       DEF Contents!Seal, Contents!Put, Contents!Live, Content, Wrapped

LEMMA HeldIsHolds ==
  ASSUME MInv, HashAgrees, NEW h \in Handles, Live(h), NEW e \in Elements
  PROVE  e \in Held(h) <=> Contents!Holds(Content[h], e)
<1>1. AllProper(Members(h)) /\ Content[h] = Bag(Members(h))
  BY LiveHasContent
<1>2. Contents!Holds(Bag(Members(h)), e) <=> Matches(Bucket(h, Hash(e)), e)
  BY <1>1, BagHolds, HashIsABucket DEF Members
<1> QED BY <1>1, <1>2 DEF Held, Has

(* Those members of g, added to an empty set. *)
LEMMA BagOfThose ==
  ASSUME MInv, HashAgrees, NEW g \in Handles, Live(g), NEW those
  PROVE  /\ AllProper(AddFrom(g, those, Empty))
         /\ Bag(AddFrom(g, those, Empty)) =
              [e \in Elements |-> IF e \in those THEN Content[g][e] ELSE 0]
<1>1. TypeOK /\ Tidy /\ Content[g] = Bag(Members(g)) /\ Content[g] \in [Elements -> Nat]
  BY LiveHasContent DEF MInv, IInv
<1>2. AllProper(AddFrom(g, those, Empty))
  BY <1>1, EmptyIsProper, AddFromIsProper
<1>3. ASSUME NEW e \in Elements
      PROVE  ~Contents!Holds(Bag(Empty), e) /\ Bag(Empty)[e] = 0
  BY EmptyBag DEF Contents!Holds, Contents!Empty
<1>4. Bag(AddFrom(g, those, Empty)) =
        [e \in Elements |->
           Bag(Empty)[e] + (IF e \in those /\ ~Contents!Holds(Bag(Empty), e)
                              THEN Bag(Members(g))[e] ELSE 0)]
  BY <1>1, EmptyIsProper, BagAddFrom
<1>5. ASSUME NEW e \in Elements
      PROVE  Bag(Empty)[e] + (IF e \in those /\ ~Contents!Holds(Bag(Empty), e)
                                THEN Bag(Members(g))[e] ELSE 0)
               = IF e \in those THEN Content[g][e] ELSE 0
  <2>1. Content[g][e] \in Nat /\ Content[g][e] = Bag(Members(g))[e]
    BY <1>1
  <2> QED BY <1>3, <2>1
<1> QED BY <1>2, <1>4, <1>5

(* And then those members of h. *)
LEMMA BagOfBoth ==
  ASSUME MInv, HashAgrees, NEW g \in Handles, Live(g), NEW h \in Handles, Live(h),
         NEW those, NEW more
  PROVE  LET a == [e \in Elements |-> IF e \in those THEN Content[g][e] ELSE 0]
             buckets == AddFrom(h, more, AddFrom(g, those, Empty))
         IN  /\ AllProper(buckets)
             /\ Bag(buckets) =
                  [e \in Elements |->
                     a[e] + (IF e \in more /\ ~Contents!Holds(a, e)
                               THEN Content[h][e] ELSE 0)]
<1> DEFINE first == AddFrom(g, those, Empty)
<1>1. TypeOK /\ Tidy /\ Content[h] = Bag(Members(h))
  BY LiveHasContent DEF MInv, IInv
<1>2. /\ AllProper(first)
      /\ Bag(first) = [e \in Elements |-> IF e \in those THEN Content[g][e] ELSE 0]
  BY BagOfThose
<1> HIDE DEF first
<1>3. AllProper(AddFrom(h, more, first))
  BY <1>1, <1>2, AddFromIsProper
<1>4. Bag(AddFrom(h, more, first)) =
        [e \in Elements |->
           Bag(first)[e] + (IF e \in more /\ ~Contents!Holds(Bag(first), e)
                              THEN Bag(Members(h))[e] ELSE 0)]
  BY <1>1, <1>2, BagAddFrom
<1> QED BY <1>1, <1>2, <1>3, <1>4 DEF first

LEMMA DuplicateDuplicates ==
  ASSUME MInv, HashAgrees, ~Copying, NEW h \in Handles, NEW d \in Handles, AsValueSet(h, d),
         [Next]_vars
  PROVE  Tidy' /\ Contents!Duplicate(h, d)
<1> DEFINE new == AddFrom(h, Elements, Empty)
<1>1. TypeOK /\ Tidy /\ Live(h) /\ ~Live(d)
  BY DEF MInv, IInv, AsValueSet
<1>2. Content[h] \in [Elements -> Nat] /\ Content[h] # Nothing /\ Content[d] = Nothing
      /\ d \notin Wrapped
  BY <1>1, LiveHasContent DEF Wrapped
<1>3. AllProper(new) /\ Bag(new) = [e \in Elements |-> Content[h][e]]
  BY <1>1, BagOfThose
<1>4. Puts(d, FALSE, new)
  BY <1>1, <1>3, AsValueSetIsSound DEF Puts
<1> HIDE DEF new
<1>5. Bag(new) = Content[h]
  BY <1>2, <1>3
<1>6. Tidy' /\ Content' = [Content EXCEPT ![d] = Content[h]] /\ Wrapped' = Wrapped \ {d}
  BY <1>4, <1>5, PutsBag
<1>7. Wrapped' = Wrapped
  BY <1>2, <1>6
<1> QED BY <1>2, <1>6, <1>7
       DEF Contents!Duplicate, Contents!Put, Contents!Live, Content, Wrapped

(* A combination leaves in d the bag of its buckets, and g and h alone. *)
LEMMA CombinePuts ==
  ASSUME MInv, ~Copying, NEW g \in Handles, NEW h \in Handles, NEW d \in Handles,
         NEW buckets, AllProper(buckets), Combine(g, h, d, buckets), [Next]_vars
  PROVE  /\ Tidy' /\ Wrapped' = Wrapped
         /\ Content' = [Content EXCEPT ![d] = Bag(buckets)]
         /\ Content[g] # Nothing /\ Content[h] # Nothing /\ Content[d] = Nothing
<1>1. TypeOK /\ Live(g) /\ Live(h) /\ ~Live(d) /\ Build(d, buckets) /\ BucketsFit(buckets)
  BY DEF MInv, IInv, Combine, BucketsFit, AllProper
<1>2. Puts(d, FALSE, buckets)
  BY <1>1, BuildIsSound DEF Puts
<1>3. Tidy' /\ Content' = [Content EXCEPT ![d] = Bag(buckets)] /\ Wrapped' = Wrapped \ {d}
  BY <1>2, PutsBag
<1>4. Content[g] # Nothing /\ Content[h] # Nothing /\ Content[d] = Nothing /\ d \notin Wrapped
  BY <1>1, LiveHasContent DEF Wrapped
<1> QED BY <1>3, <1>4

LEMMA UnionUnites ==
  ASSUME MInv, HashAgrees, ~Copying, NEW g \in Handles, NEW h \in Handles,
         NEW d \in Handles, Union(g, h, d), [Next]_vars
  PROVE  Tidy' /\ Contents!Combine(g, h, d, Contents!UnionOf)
<1> DEFINE buckets == AddFrom(h, Elements, AddFrom(g, Elements, Empty))
           a == [e \in Elements |-> IF e \in Elements THEN Content[g][e] ELSE 0]
<1>1. Live(g) /\ Live(h) /\ Combine(g, h, d, buckets)
  BY DEF Union, Combine
<1>2. Content[g] \in [Elements -> Nat] /\ Content[h] \in [Elements -> Nat]
  BY <1>1, LiveHasContent
<1>3. /\ AllProper(buckets)
      /\ Bag(buckets) =
           [e \in Elements |->
              a[e] + (IF e \in Elements /\ ~Contents!Holds(a, e) THEN Content[h][e] ELSE 0)]
  BY <1>1, BagOfBoth
<1>4. a = Content[g]
  BY <1>2
<1> HIDE DEF buckets, a
<1>5. Bag(buckets) = Contents!UnionOf(Content[g], Content[h])
  BY <1>3, <1>4 DEF Contents!UnionOf, Contents!Joined
<1>6. /\ Tidy' /\ Wrapped' = Wrapped
      /\ Content' = [Content EXCEPT ![d] = Contents!UnionOf(Content[g], Content[h])]
      /\ Content[g] # Nothing /\ Content[h] # Nothing /\ Content[d] = Nothing
  BY <1>1, <1>3, <1>5, CombinePuts
<1> QED BY <1>6 DEF Contents!Combine, Contents!Put, Contents!Live, Content, Wrapped

LEMMA IntersectionKeepsHeld ==
  ASSUME MInv, HashAgrees, ~Copying, NEW g \in Handles, NEW h \in Handles,
         NEW d \in Handles, Intersection(g, h, d), [Next]_vars
  PROVE  Tidy' /\ Contents!Combine(g, h, d, Contents!IntersectionOf)
<1> DEFINE buckets == AddFrom(g, Held(h), Empty)
<1>1. Live(g) /\ Live(h) /\ Combine(g, h, d, buckets)
  BY DEF Intersection, Combine
<1>2. /\ AllProper(buckets)
      /\ Bag(buckets) = [e \in Elements |-> IF e \in Held(h) THEN Content[g][e] ELSE 0]
  BY <1>1, BagOfThose
<1> HIDE DEF buckets
<1>3. Bag(buckets) = Contents!IntersectionOf(Content[g], Content[h])
  BY <1>1, <1>2, HeldIsHolds DEF Contents!IntersectionOf, Contents!Kept
<1>4. /\ Tidy' /\ Wrapped' = Wrapped
      /\ Content' = [Content EXCEPT ![d] = Contents!IntersectionOf(Content[g], Content[h])]
      /\ Content[g] # Nothing /\ Content[h] # Nothing /\ Content[d] = Nothing
  BY <1>1, <1>2, <1>3, CombinePuts
<1> QED BY <1>4 DEF Contents!Combine, Contents!Put, Contents!Live, Content, Wrapped

LEMMA SubtractKeepsOthers ==
  ASSUME MInv, HashAgrees, ~Copying, NEW g \in Handles, NEW h \in Handles,
         NEW d \in Handles, Subtract(g, h, d), [Next]_vars
  PROVE  Tidy' /\ Contents!Combine(g, h, d, Contents!DifferenceOf)
<1> DEFINE buckets == AddFrom(g, Elements \ Held(h), Empty)
<1>1. Live(g) /\ Live(h) /\ Combine(g, h, d, buckets)
  BY DEF Subtract, Combine
<1>2. /\ AllProper(buckets)
      /\ Bag(buckets) =
           [e \in Elements |-> IF e \in Elements \ Held(h) THEN Content[g][e] ELSE 0]
  BY <1>1, BagOfThose
<1> HIDE DEF buckets
<1>3. Bag(buckets) = Contents!DifferenceOf(Content[g], Content[h])
  BY <1>1, <1>2, HeldIsHolds DEF Contents!DifferenceOf, Contents!Kept
<1>4. /\ Tidy' /\ Wrapped' = Wrapped
      /\ Content' = [Content EXCEPT ![d] = Contents!DifferenceOf(Content[g], Content[h])]
      /\ Content[g] # Nothing /\ Content[h] # Nothing /\ Content[d] = Nothing
  BY <1>1, <1>2, <1>3, CombinePuts
<1> QED BY <1>4 DEF Contents!Combine, Contents!Put, Contents!Live, Content, Wrapped

LEMMA SymmetricDifferenceKeepsBoth ==
  ASSUME MInv, HashAgrees, ~Copying, NEW g \in Handles, NEW h \in Handles,
         NEW d \in Handles, SymmetricDifference(g, h, d), [Next]_vars
  PROVE  Tidy' /\ Contents!Combine(g, h, d, Contents!SymmetricOf)
<1> DEFINE those == Elements \ Held(h)
           more == Elements \ Held(g)
           buckets == AddFrom(h, more, AddFrom(g, those, Empty))
           a == [e \in Elements |-> IF e \in those THEN Content[g][e] ELSE 0]
           b == Contents!DifferenceOf(Content[h], Content[g])
<1>1. Live(g) /\ Live(h) /\ Combine(g, h, d, buckets)
  BY DEF SymmetricDifference, Combine
<1>2. Content[h] \in [Elements -> Nat] /\ Content[g] \in [Elements -> Nat]
  BY <1>1, LiveHasContent
<1>3. /\ AllProper(buckets)
      /\ Bag(buckets) =
           [e \in Elements |->
              a[e] + (IF e \in more /\ ~Contents!Holds(a, e) THEN Content[h][e] ELSE 0)]
  <2> HIDE DEF those, more
  <2> QED BY <1>1, BagOfBoth
<1>4. a = Contents!DifferenceOf(Content[g], Content[h])
  BY <1>1, HeldIsHolds DEF Contents!DifferenceOf, Contents!Kept
<1>5. \A e \in Elements : b[e] = IF e \in more THEN Content[h][e] ELSE 0
  BY <1>1, HeldIsHolds DEF Contents!DifferenceOf, Contents!Kept
<1> HIDE DEF buckets, a, b, more, those
<1>6. Bag(buckets) = Contents!Joined(a, b)
  BY <1>3, <1>5 DEF Contents!Joined
<1>7. Bag(buckets) = Contents!SymmetricOf(Content[g], Content[h])
  BY <1>4, <1>6 DEF Contents!SymmetricOf, b
<1>8. /\ Tidy' /\ Wrapped' = Wrapped
      /\ Content' = [Content EXCEPT ![d] = Contents!SymmetricOf(Content[g], Content[h])]
      /\ Content[g] # Nothing /\ Content[h] # Nothing /\ Content[d] = Nothing
  BY <1>1, <1>3, <1>7, CombinePuts
<1> QED BY <1>8 DEF Contents!Combine, Contents!Put, Contents!Live, Content, Wrapped

----------------------------------------------------------------------------
(* The theorems.                                                           *)

(* Every step keeps the buckets tidy, and is a step of SetContents.        *)
LEMMA StepsAreContents ==
  ASSUME MInv, HashAgrees, ~Copying, [Next]_vars
  PROVE  MInv' /\ [Contents!Next]_(Contents!vars)
<1>1. ASSUME NEW d \in Handles, NewSet(d)
      PROVE  Tidy' /\ Contents!Next
  BY <1>1, NewSetCreates DEF Contents!Next
<1>2. ASSUME NEW d \in Handles, Discard(d)
      PROVE  Tidy' /\ Contents!Next
  BY <1>2, DiscardDropsBag DEF Contents!Next
<1>3. ASSUME NEW h \in Handles, NEW e \in Elements, Add(h, e)
      PROVE  (Tidy' \/ UNCHANGED vars) /\ Contents!Next
  BY <1>3, AddAdds DEF Contents!Next
<1>4. ASSUME NEW h \in Handles, NEW e \in Elements, Remove(h, e)
      PROVE  (Tidy' \/ UNCHANGED vars) /\ Contents!Next
  BY <1>4, RemoveRemoves DEF Contents!Next
<1>5. ASSUME NEW h \in Handles, NEW d \in Handles, SetValFromValueSet(h, d)
      PROVE  Tidy' /\ Contents!Next
  BY <1>5, SealSeals DEF Contents!Next
<1>6. ASSUME NEW h \in Handles, NEW d \in Handles, AsValueSet(h, d)
      PROVE  Tidy' /\ Contents!Next
  BY <1>6, DuplicateDuplicates DEF Contents!Next
<1>7. ASSUME NEW g \in Handles, NEW h \in Handles, NEW d \in Handles, Union(g, h, d)
      PROVE  Tidy' /\ Contents!Next
  BY <1>7, UnionUnites DEF Contents!Next
<1>8. ASSUME NEW g \in Handles, NEW h \in Handles, NEW d \in Handles, Intersection(g, h, d)
      PROVE  Tidy' /\ Contents!Next
  BY <1>8, IntersectionKeepsHeld DEF Contents!Next
<1>9. ASSUME NEW g \in Handles, NEW h \in Handles, NEW d \in Handles, Subtract(g, h, d)
      PROVE  Tidy' /\ Contents!Next
  BY <1>9, SubtractKeepsOthers DEF Contents!Next
<1>10. ASSUME NEW g \in Handles, NEW h \in Handles, NEW d \in Handles,
              SymmetricDifference(g, h, d)
       PROVE  Tidy' /\ Contents!Next
  BY <1>10, SymmetricDifferenceKeepsBoth DEF Contents!Next
<1>11. UNCHANGED vars \/ (Tidy' /\ Contents!Next) \/ (UNCHANGED vars /\ Contents!Next)
  BY <1>1, <1>2, <1>3, <1>4, <1>5, <1>6, <1>7, <1>8, <1>9, <1>10 DEF Next, Copy
<1>12. ASSUME UNCHANGED vars
       PROVE  Tidy' /\ UNCHANGED Contents!vars
  <2>1. Tidy'
    BY <1>12 DEF MInv, Tidy, vars, Live, Members, Bucket, Shown, AllProper, Proper, HashedTo,
       Hash, Buckets
  <2>2. UNCHANGED Contents!vars
    BY <1>12 DEF Contents!vars, vars, Live, BagOf, Bucket, Shown
  <2> QED BY <2>1, <2>2
<1>13. Tidy' /\ [Contents!Next]_(Contents!vars)
  BY <1>11, <1>12
<1>14. IInv'
  BY StepsKeepApart DEF MInv
<1> QED BY <1>13, <1>14 DEF MInv

LEMMA InitiallyTidy == Init => MInv
BY InitiallyApart DEF MInv, Tidy, Init, Live

LEMMA AlwaysTidy == ASSUME HashAgrees, ~Copying PROVE Spec => []MInv
<1>1. Init => MInv
  BY InitiallyTidy
<1>2. MInv /\ [Next]_vars => MInv'
  BY StepsAreContents
<1> QED BY <1>1, <1>2, PTL DEF Spec

(* Of two tidy buckets only one can hold a given member, and only once.    *)
LEMMA TidySetsHaveNoEquals == ASSUME HashAgrees PROVE MInv => NoEquivalentMembers
<1> SUFFICES ASSUME MInv, NEW h \in Handles, Live(h), NEW b \in Buckets, NEW c \in Buckets,
                    NEW i \in DOMAIN Bucket(h, b), NEW j \in DOMAIN Bucket(h, c),
                    Equivalent(Bucket(h, b)[i], Bucket(h, c)[j])
             PROVE  b = c /\ i = j
  BY DEF NoEquivalentMembers
<1>1. Proper(b, Bucket(h, b)) /\ Proper(c, Bucket(h, c))
  BY DEF MInv, Tidy, AllProper, Members
<1>2. ASSUME NEW a, NEW seq \in Seq(HashedTo(a)), NEW k \in DOMAIN seq
      PROVE  seq[k] \in Elements /\ Hash(seq[k]) = a
  <2>1. seq[k] \in HashedTo(a)
    OBVIOUS
  <2> QED BY <2>1 DEF HashedTo
<1>3. /\ Bucket(h, b)[i] \in Elements /\ Hash(Bucket(h, b)[i]) = b
      /\ Bucket(h, c)[j] \in Elements /\ Hash(Bucket(h, c)[j]) = c
  BY <1>1, <1>2 DEF Proper
<1>4. b = c
  BY <1>3 DEF HashAgrees
<1> QED BY <1>1, <1>4 DEF Proper, Distinct

(* No set holds two equal members, if equal members have equal hashes:     *)
(* set.Set.Add looks for an equal member in one bucket only.               *)
THEOREM MembersAreDistinct ==
  ASSUME HashAgrees, ~Copying PROVE Spec => []NoEquivalentMembers
<1>1. MInv => NoEquivalentMembers
  BY TidySetsHaveNoEquals
<1>2. Spec => []MInv
  BY AlwaysTidy
<1> QED BY <1>1, <1>2, PTL

(* A set of set.Set behaves as a bag of its own, whatever it shares with   *)
(* others in memory.                                                       *)
THEOREM SetsAreBags ==
  ASSUME HashAgrees, ~Copying PROVE Spec => ImplementsSetContents
<1>1. Init => Contents!Init
  BY DEF Init, Contents!Init, Live
<1>2. MInv /\ [Next]_vars => [Contents!Next]_(Contents!vars)
  BY StepsAreContents
<1>3. Spec => []MInv
  BY AlwaysTidy
<1> QED BY <1>1, <1>2, <1>3, PTL DEF Spec, ImplementsSetContents, Contents!Spec

(* Union, Intersection, Subtract and SymmetricDifference make the          *)
(* combinations they are named for.                                        *)
THEOREM CombinationsAreRight ==
  ASSUME HashAgrees, ~Copying PROVE Spec => CombinationsMeetContract
<1> DEFINE Right ==
      \A g, h, d \in Handles :
        /\ Union(g, h, d) => Contents!Combine(g, h, d, Contents!UnionOf)
        /\ Intersection(g, h, d) => Contents!Combine(g, h, d, Contents!IntersectionOf)
        /\ Subtract(g, h, d) => Contents!Combine(g, h, d, Contents!DifferenceOf)
        /\ SymmetricDifference(g, h, d) => Contents!Combine(g, h, d, Contents!SymmetricOf)
<1>1. MInv /\ [Next]_vars => Right
  BY UnionUnites, IntersectionKeepsHeld, SubtractKeepsOthers, SymmetricDifferenceKeepsBoth
<1>2. Spec => []MInv
  BY AlwaysTidy
<1>3. Spec => [][Right]_vars
  BY <1>1, <1>2, PTL DEF Spec
<1>4. Right => \A d \in Handles : (~Live(d) /\ sets'[d] # Nothing) =>
       \A g, h \in Handles :
         /\ Union(g, h, d) => Contents!Combine(g, h, d, Contents!UnionOf)
         /\ Intersection(g, h, d) =>
              Contents!Combine(g, h, d, Contents!IntersectionOf)
         /\ Subtract(g, h, d) =>
              Contents!Combine(g, h, d, Contents!DifferenceOf)
         /\ SymmetricDifference(g, h, d) =>
              Contents!Combine(g, h, d, Contents!SymmetricOf)
  OBVIOUS
<1> QED BY <1>3, <1>4, PTL DEF CombinationsMeetContract
=============================================================================
