----------------------------- MODULE SetStore -----------------------------
(***************************************************************************)
(* The implementation of sets: set.Set (cty/set), the membership rules     *)
(* that cty gives it (cty/set_internals.go), and the ValueSets and set     *)
(* values made from it (cty/set_helper.go, cty/value_init.go).             *)
(*                                                                         *)
(* A set is a map from hash values to Go slices.  A slice is a view of an  *)
(* array, which other slices may share: append writes in place while the   *)
(* array has room.  An array that no slice refers to is collected.         *)
(***************************************************************************)
EXTENDS Integers, Sequences, FiniteSets

CONSTANTS
  Handles,     \* names for the sets of the program
  Elements,    \* what a set may hold: records as in IsElement below
  Checksum,    \* the hash value of each hash text (crc32.ChecksumIEEE)
  MaxLength,   \* bound: the members of one bucket
  Copying,     \* does the program call ValueSet.Copy?
  Nothing      \* no set, no slice, no array, an empty slot

VARIABLES
  sets,  \* Handles -> the set of that name
  heap   \* Arrays -> the array of that number

vars == <<sets, heap>>

(* An element, a number: c is its value if it is known, text what          *)
(* makeSetHashBytes writes for it ("?" for any unknown), form what else    *)
(* tells it apart, such as the refinements of an unknown.                  *)
Kinds == {"known", "unknown", "null"}
IsElement(e) ==
  /\ e.kind \in Kinds /\ e.c \in Int /\ e.text \in DOMAIN Checksum
  /\ e.kind = "unknown" => e.text = "?"

ASSUME ElementsAssumption ==
  /\ \A e \in Elements : IsElement(e)
  /\ Nothing \notin Elements /\ MaxLength \in 1 .. 16 /\ Copying \in BOOLEAN
  /\ IsFiniteSet(Handles) /\ IsFiniteSet(DOMAIN Checksum)
  /\ \A t \in DOMAIN Checksum : Checksum[t] \in Nat

Hash(e) == Checksum[e.text]
Buckets == {Checksum[t] : t \in DOMAIN Checksum}

(* setRules.Equivalent: Equals is known and true. *)
Equivalent(x, y) == x.kind = y.kind /\ x.kind # "unknown" /\ x.c = y.c

(* "Two values that are equivalent *must* result in the same hash value"   *)
(* (Rules.Hash): true of the numbers that the hash text does not tell      *)
(* apart, so not an assumption here but a hypothesis where it is needed.   *)
HashAgrees == \A x, y \in Elements : Equivalent(x, y) => Hash(x) = Hash(y)

(* setRules.Less: known numbers in their order, then unknowns, then null. *)
Less(x, y) ==
  \/ x.kind = "known" /\ (y.kind # "known" \/ x.c < y.c)
  \/ x.kind = "unknown" /\ y.kind = "null"

Arrays == 1 .. (Cardinality(Handles) + 1) * Cardinality(Buckets)

Slice == [array : Arrays, len : 1 .. MaxLength]
Array == [cap : 1 .. 2 * MaxLength, data : Seq(Elements)]
Set == [sealed : BOOLEAN, vals : [Buckets -> {Nothing} \cup Slice]]

ASSUME NothingAssumption ==
  Nothing \notin Slice \cup Array \cup Set \cup [Elements -> Nat]

Live(h) == sets[h] # Nothing
Writable(h) == Live(h) /\ ~sets[h].sealed

(* The members that slice s shows of its array. *)
Shown(s) == IF s = Nothing THEN << >> ELSE SubSeq(heap[s.array].data, 1, s.len)
Bucket(h, b) == Shown(sets[h].vals[b])
Members(h) == [b \in Buckets |-> Bucket(h, b)]

Matches(seq, e) == \E i \in DOMAIN seq : Equivalent(e, seq[i])
Has(h, e) == Matches(Bucket(h, Hash(e)), e)

Init ==
  /\ sets = [h \in Handles |-> Nothing]
  /\ heap = [a \in Arrays |-> Nothing]

----------------------------------------------------------------------------
(* Memory.                                                                 *)

SlicesIn(ss) ==
  {ss[p[1]].vals[p[2]] : p \in {q \in Handles \X Buckets : ss[q[1]] # Nothing}} \ {Nothing}
ArraysIn(ss) == {s.array : s \in SlicesIn(ss)}

(* The new sets and arrays, less the arrays no longer referred to. *)
Become(ss, arrays) ==
  /\ sets' = ss
  /\ heap' = [a \in Arrays |-> IF a \in ArraysIn(ss) THEN arrays[a] ELSE Nothing]

(* The k-th array not in use. *)
Unused(k) ==
  LET free == Arrays \ ArraysIn(sets) IN
  CHOOSE a \in free : Cardinality({x \in free : x < a}) = k - 1
Position(b) == Cardinality({c \in Buckets : c < b}) + 1

(* The capacity that n appends to a slice made with capacity 1 leave.      *)
Grown(n) == CHOOSE k \in {1, 2, 4, 8, 16} : n <= k /\ (k = 1 \/ k < 2 * n)

(* A new set in handle d whose buckets hold these sequences. *)
Build(d, buckets) ==
  LET new(b) == Unused(Position(b))
      used == {b \in Buckets : buckets[b] # << >>}
      slice(b) == IF b \in used THEN [array |-> new(b), len |-> Len(buckets[b])]
                                ELSE Nothing
  IN Become([sets EXCEPT ![d] =
               [sealed |-> FALSE, vals |-> [b \in Buckets |-> slice(b)]]],
            [a \in Arrays |->
               IF \E b \in used : new(b) = a
                 THEN LET b == CHOOSE b \in used : new(b) = a
                      IN [cap |-> Grown(Len(buckets[b])), data |-> buckets[b]]
                 ELSE heap[a]])

----------------------------------------------------------------------------
(* Operations.                                                             *)

Empty == [b \in Buckets |-> << >>]
NewSet(d) == ~Live(d) /\ Build(d, Empty)

(* The array after slice s of it gets one more member, e, in place. *)
Overwritten(s, e) ==
  LET old == heap[s.array].data IN
  [heap[s.array] EXCEPT !.data =
     [i \in 1 .. (IF Len(old) > s.len THEN Len(old) ELSE s.len + 1) |->
        IF i = s.len + 1 THEN e ELSE old[i]]]

(* append(bucket, e): in place if the array has room, else in a new array  *)
(* of twice the capacity.                                                  *)
Append1(h, b, e) ==
  LET s == sets[h].vals[b] IN
  IF s # Nothing /\ s.len < heap[s.array].cap
    THEN Become([sets EXCEPT ![h].vals[b].len = @ + 1],
                [heap EXCEPT ![s.array] = Overwritten(s, e)])
    ELSE Become([sets EXCEPT ![h].vals[b] =
                   [array |-> Unused(1), len |-> Len(Bucket(h, b)) + 1]],
                [heap EXCEPT ![Unused(1)] =
                   [cap  |-> IF s = Nothing THEN 1 ELSE 2 * heap[s.array].cap,
                    data |-> Append(Bucket(h, b), e)]])

Add(h, e) ==
  /\ Writable(h)
  /\ \/ Has(h, e) /\ UNCHANGED vars
     \/ /\ ~Has(h, e) /\ Len(Bucket(h, Hash(e))) < MaxLength
        /\ Append1(h, Hash(e), e)

(* The index of the first member of seq equivalent to e, which it has. *)
FirstMatch(seq, e) ==
  CHOOSE i \in DOMAIN seq :
    Equivalent(e, seq[i]) /\ \A j \in 1 .. i - 1 : ~Equivalent(e, seq[j])

Without(seq, i) == SubSeq(seq, 1, i - 1) \o SubSeq(seq, i + 1, Len(seq))

(* The members but the i-th, in an array of their own.  The first three    *)
(* definitions are faulty variants: one moves them within the old array,   *)
(* one drops the last member, and one keeps a bucket that is empty.        *)
RemoveInPlace(h, b, i) ==
  LET s == sets[h].vals[b] IN
  Become([sets EXCEPT ![h].vals[b] =
            IF s.len = 1 THEN Nothing ELSE [s EXCEPT !.len = @ - 1]],
         [heap EXCEPT ![s.array].data =
            Without(Bucket(h, b), i) \o SubSeq(@, s.len, Len(@))])

RemoveLast(h, b, i) ==
  Become([sets EXCEPT ![h].vals[b] =
            IF @.len = 1 THEN Nothing ELSE [@ EXCEPT !.len = @ - 1]], heap)

RemoveKeepsEmpty(h, b, i) ==
  LET rest == Without(Bucket(h, b), i) IN
  Become([sets EXCEPT ![h].vals[b] = [array |-> Unused(1), len |-> Len(rest)]],
         [heap EXCEPT ![Unused(1)] = [cap |-> 1, data |-> rest]])

RemoveIndex(h, b, i) ==
  LET rest == Without(Bucket(h, b), i) IN
  IF rest = << >>
    THEN Become([sets EXCEPT ![h].vals[b] = Nothing], heap)
    ELSE Become([sets EXCEPT ![h].vals[b] =
                   [array |-> Unused(1), len |-> Len(rest)]],
                [heap EXCEPT ![Unused(1)] =
                   [cap |-> Len(rest), data |-> rest]])

Remove(h, e) ==
  /\ Writable(h)
  /\ \/ ~Has(h, e) /\ UNCHANGED vars
     \/ Has(h, e) /\ RemoveIndex(h, Hash(e), FirstMatch(Bucket(h, Hash(e)), e))

(* set.Set.Copy: a new map, with the same slices in it. *)
CopyTo(h, d, wrapped) ==
  /\ Live(h) /\ ~Live(d)
  /\ Become([sets EXCEPT ![d] = [sealed |-> wrapped, vals |-> sets[h].vals]], heap)

(* ValueSet.Copy, and SetValFromValueSet. *)
Copy(h, d) == Copying /\ Writable(h) /\ CopyTo(h, d, FALSE)
SetValFromValueSet(h, d) == Writable(h) /\ CopyTo(h, d, TRUE)

(* One bucket after Add of each member of seq in turn that is one of       *)
(* those.  The first definition, which looks for no equal member, is a     *)
(* faulty variant.                                                         *)
AppendThose(bucket, seq, those) == bucket \o SelectSeq(seq, LAMBDA e : e \in those)
AddThose(bucket, seq, those) ==
  LET after[i \in 0 .. Len(seq)] ==
        IF i = 0 THEN bucket
        ELSE LET old == after[i - 1] IN
             IF seq[i] \in those /\ ~Matches(old, seq[i]) THEN Append(old, seq[i]) ELSE old
  IN after[Len(seq)]

(* The members of one bucket in the order of the set's iterator, which is  *)
(* a stable sort.                                                          *)
Before(seq, i, j) == Less(seq[i], seq[j]) \/ (~Less(seq[j], seq[i]) /\ i < j)
InOrder(seq) ==
  LET rank == [i \in DOMAIN seq |-> Cardinality({j \in DOMAIN seq : Before(seq, j, i)})]
  IN [n \in DOMAIN seq |-> seq[CHOOSE i \in DOMAIN seq : rank[i] = n - 1]]

(* The buckets after EachValue of set h added the members that are those.  *)
AddFrom(h, those, buckets) ==
  [b \in Buckets |-> AddThose(buckets[b], InOrder(Bucket(h, b)), those)]

Held(h) == {e \in Elements : Has(h, e)}

Combine(g, h, d, buckets) ==
  /\ Live(g) /\ Live(h) /\ ~Live(d)
  /\ \A b \in Buckets : Len(buckets[b]) <= MaxLength
  /\ Build(d, buckets)

Union(g, h, d) ==
  Combine(g, h, d, AddFrom(h, Elements, AddFrom(g, Elements, Empty)))
(* The first definition, which asks g itself, is a faulty variant. *)
IntersectionWithItself(g, h, d) == Combine(g, h, d, AddFrom(g, Held(g), Empty))
Intersection(g, h, d) == Combine(g, h, d, AddFrom(g, Held(h), Empty))
Subtract(g, h, d) == Combine(g, h, d, AddFrom(g, Elements \ Held(h), Empty))
SymmetricDifference(g, h, d) ==
  Combine(g, h, d,
          AddFrom(h, Elements \ Held(g), AddFrom(g, Elements \ Held(h), Empty)))

(* Value.AsValueSet: a set value's members, added to a new ValueSet. *)
AsValueSet(h, d) ==
  /\ Live(h) /\ sets[h].sealed /\ ~Live(d)
  /\ Build(d, AddFrom(h, Elements, Empty))

(* The program lets go of a set. *)
Discard(h) == Live(h) /\ Become([sets EXCEPT ![h] = Nothing], heap)

Next ==
  \/ \E d \in Handles : NewSet(d) \/ Discard(d)
  \/ \E h \in Handles, e \in Elements : Add(h, e) \/ Remove(h, e)
  \/ \E h, d \in Handles :
       Copy(h, d) \/ SetValFromValueSet(h, d) \/ AsValueSet(h, d)
  \/ \E g, h, d \in Handles :
       \/ Union(g, h, d) \/ Intersection(g, h, d)
       \/ Subtract(g, h, d) \/ SymmetricDifference(g, h, d)

Spec == Init /\ [][Next]_vars

----------------------------------------------------------------------------
(* Properties.                                                             *)

(* Sets, slices and arrays have their types, a slice lies within the part  *)
(* of its array that has been written, and only arrays in use are kept.    *)
TypeOK ==
  /\ sets \in [Handles -> {Nothing} \cup Set]
  /\ heap \in [Arrays -> {Nothing} \cup Array]
  /\ \A a \in Arrays : heap[a] = Nothing <=> a \notin ArraysIn(sets)
  /\ \A a \in ArraysIn(sets) : Len(heap[a].data) <= heap[a].cap
  /\ \A s \in SlicesIn(sets) : s.len <= Len(heap[s.array].data)

(* An array is written to by one set at most, and every other set that     *)
(* shares it shows no more of it than the writer does: an append never     *)
(* reaches what a wrapped set shows.                                       *)
WritersDoNotShare ==
  \A g, h \in Handles : \A b, c \in Buckets :
    (/\ Live(g) /\ Live(h) /\ <<g, b>> # <<h, c>>
     /\ sets[g].vals[b] # Nothing /\ sets[h].vals[c] # Nothing
     /\ sets[g].vals[b].array = sets[h].vals[c].array
     /\ Writable(g))
      => ~Writable(h) /\ sets[h].vals[c].len <= sets[g].vals[b].len

(* No set holds two members that are the same, whichever operations made   *)
(* it and in whatever order.                                               *)
NoEquivalentMembers ==
  \A h \in Handles : Live(h) =>
    \A b, c \in Buckets :
      \A i \in DOMAIN Bucket(h, b), j \in DOMAIN Bucket(h, c) :
        Equivalent(Bucket(h, b)[i], Bucket(h, c)[j]) => b = c /\ i = j

(* "copy so caller can't mutate what we wrap" (SetValFromValueSet): what a *)
(* set value holds stays the same for as long as the program keeps it.     *)
SealedSetsNeverChange ==
  [][\A h \in Handles :
       Live(h) /\ sets[h].sealed /\ sets'[h] # Nothing => Members(h)' = Members(h)]_vars

(* Each set as the bag of its members. *)
BagOf(h) ==
  [e \in Elements |->
     Cardinality({p \in Buckets \X (1 .. MaxLength) :
                    p[2] <= Len(Bucket(h, p[1])) /\ Bucket(h, p[1])[p[2]] = e})]

Contents == INSTANCE SetContents WITH
  content <- [h \in Handles |-> IF Live(h) THEN BagOf(h) ELSE Nothing],
  sealed  <- {h \in Handles : Live(h) /\ sets[h].sealed}

(* Buckets, hashing, sharing and growth of arrays do not show: each set    *)
(* behaves as a bag of its own that only its own operations change.        *)
ImplementsSetContents == Contents!Spec

(* Each operation on two sets makes the combination it is named for, also  *)
(* of members that are unknown or are the same in different forms.         *)
CombinationsMeetContract ==
  [][\A d \in Handles : (~Live(d) /\ sets'[d] # Nothing) =>
       \A g, h \in Handles :
         /\ Union(g, h, d) => Contents!Combine(g, h, d, Contents!UnionOf)
         /\ Intersection(g, h, d) =>
              Contents!Combine(g, h, d, Contents!IntersectionOf)
         /\ Subtract(g, h, d) =>
              Contents!Combine(g, h, d, Contents!DifferenceOf)
         /\ SymmetricDifference(g, h, d) =>
              Contents!Combine(g, h, d, Contents!SymmetricOf)]_vars
=============================================================================
