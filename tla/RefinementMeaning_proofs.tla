---------------------- MODULE RefinementMeaning_proofs ----------------------
(***************************************************************************)
(* Theorems about what refined values mean, in programs that end a call    *)
(* chain with NewValue: calls narrow exactly, nothing contradictory gets   *)
(* through, and the builders implement RangeNarrowing.                     *)
(***************************************************************************)
EXTENDS RefinementBuilder_proofs

(* Every bound and prefix that is recorded has been asked for. *)
Asked(r) ==
  /\ r.kind = "number" =>
       /\ r.min # NilVal => <<r.min, r.minInc>> \in NumberArgs
       /\ r.max # NilVal => <<r.max, r.maxInc>> \in NumberArgs
  /\ r.kind = "string" => r.prefix \in PrefixArgs \cup {<< >>}

----------------------------------------------------------------------------
(* What each call does to the candidates.                                  *)

(* The bound asked for is exactly what is cut off. *)
LEMMA MinIsExact ==
  ASSUME NEW r \in RefinementNumber, NEW n \in Numbers, NEW inc \in BOOLEAN,
         n \in {NegInf, PosInf} => inc
  PROVE  /\ KeepsMin(r, n, inc) => {c \in Numbers : Allows(r, c)} \subseteq AtLeast(n, inc)
         /\ ~KeepsMin(r, n, inc) =>
              {c \in Numbers : Allows(WithMin(r, n, inc), c)}
                = {c \in Numbers : Allows(r, c)} \cap AtLeast(n, inc)
<1>1. /\ \A c \in Numbers : c \in Int /\ NegInf <= c
      /\ r.min # NilVal => r.min \in Int
      /\ r.kind = "number" /\ r.minInc \in BOOLEAN /\ n \in Int
  BY NumbersAssumption DEF NumbersAssumption, RefinementNumber
<1>2. ASSUME KeepsMin(r, n, inc), NEW c \in Numbers, Allows(r, c)
      PROVE  c \in AtLeast(n, inc)
  BY <1>1, <1>2 DEF KeepsMin, Allows, AboveMin, AtLeast
<1>3. ASSUME ~KeepsMin(r, n, inc), NEW c \in Numbers
      PROVE  Allows(WithMin(r, n, inc), c) <=> Allows(r, c) /\ c \in AtLeast(n, inc)
  <2>1. CASE n = NegInf
    <3>1. WithMin(r, n, inc) = r /\ inc
      BY <2>1 DEF WithMin
    <3> QED BY <1>1, <2>1, <3>1 DEF AtLeast
  <2>2. CASE n # NegInf
    <3> DEFINE w == [r EXCEPT !.min = n, !.minInc = inc]
    <3>1. /\ WithMin(r, n, inc) = w /\ w.kind = "number" /\ w.min = n /\ w.minInc = inc
          /\ w.max = r.max /\ w.maxInc = r.maxInc
      BY <1>3, <2>2 DEF WithMin, RefinementNumber
    <3> HIDE DEF w
    <3>2. Allows(w, c) => Allows(r, c)
      BY <1>3, <3>1, WithMinNarrows
    <3>3. Allows(w, c) <=> c \in AtLeast(n, inc) /\ BelowMax(r, c)
      BY <1>1, <3>1, NumbersAssumption DEF NumbersAssumption, Allows, AboveMin, BelowMax, AtLeast
    <3>4. Allows(r, c) => BelowMax(r, c)
      BY <1>1 DEF Allows
    <3> QED BY <3>1, <3>2, <3>3, <3>4
  <2> QED BY <2>1, <2>2
<1> QED BY <1>2, <1>3 DEF AtLeast

LEMMA MaxIsExact ==
  ASSUME NEW r \in RefinementNumber, NEW n \in Numbers, NEW inc \in BOOLEAN,
         n \in {NegInf, PosInf} => inc
  PROVE  /\ KeepsMax(r, n, inc) => {c \in Numbers : Allows(r, c)} \subseteq AtMost(n, inc)
         /\ ~KeepsMax(r, n, inc) =>
              {c \in Numbers : Allows(WithMax(r, n, inc), c)}
                = {c \in Numbers : Allows(r, c)} \cap AtMost(n, inc)
<1>1. /\ \A c \in Numbers : c \in Int /\ c <= PosInf
      /\ r.max # NilVal => r.max \in Int
      /\ r.kind = "number" /\ r.maxInc \in BOOLEAN /\ n \in Int
  BY NumbersAssumption DEF NumbersAssumption, RefinementNumber
<1>2. ASSUME KeepsMax(r, n, inc), NEW c \in Numbers, Allows(r, c)
      PROVE  c \in AtMost(n, inc)
  BY <1>1, <1>2 DEF KeepsMax, Allows, BelowMax, AtMost
<1>3. ASSUME ~KeepsMax(r, n, inc), NEW c \in Numbers
      PROVE  Allows(WithMax(r, n, inc), c) <=> Allows(r, c) /\ c \in AtMost(n, inc)
  <2>1. CASE n = PosInf
    <3>1. WithMax(r, n, inc) = r /\ inc
      BY <2>1 DEF WithMax
    <3> QED BY <1>1, <2>1, <3>1 DEF AtMost
  <2>2. CASE n # PosInf
    <3> DEFINE w == [r EXCEPT !.max = n, !.maxInc = inc]
    <3>1. /\ WithMax(r, n, inc) = w /\ w.kind = "number" /\ w.max = n /\ w.maxInc = inc
          /\ w.min = r.min /\ w.minInc = r.minInc
      BY <1>3, <2>2 DEF WithMax, RefinementNumber
    <3> HIDE DEF w
    <3>2. Allows(w, c) => Allows(r, c)
      BY <1>3, <3>1, WithMaxNarrows
    <3>3. Allows(w, c) <=> c \in AtMost(n, inc) /\ AboveMin(r, c)
      BY <1>1, <3>1, NumbersAssumption DEF NumbersAssumption, Allows, AboveMin, BelowMax, AtMost
    <3>4. Allows(r, c) => AboveMin(r, c)
      BY <1>1 DEF Allows
    <3> QED BY <3>1, <3>2, <3>3, <3>4
  <2> QED BY <2>1, <2>2
<1> QED BY <1>2, <1>3 DEF AtMost

(* assertConsistentBounds panics when, and only when, no number is left.   *)
LEMMA ConsistentMeansInhabited ==
  ASSUME UniverseIsRich, NEW r \in RefinementNumber, Asked(r)
  PROVE  ConsistentBounds(r) <=> \E c \in Numbers : Allows(r, c)
<1>1. /\ \A c \in Numbers : c \in Int /\ NegInf <= c /\ c <= PosInf
      /\ NegInf \in Numbers /\ PosInf \in Numbers /\ NilVal \notin Int
      /\ r.kind = "number" /\ r.minInc \in BOOLEAN /\ r.maxInc \in BOOLEAN
      /\ r.min # NilVal => r.min \in Numbers
      /\ r.max # NilVal => r.max \in Numbers
  BY NumbersAssumption DEF NumbersAssumption, RefinementNumber
<1>2. /\ r.min # NilVal => <<r.min, r.minInc>> \in NumberArgs
      /\ r.max # NilVal => <<r.max, r.maxInc>> \in NumberArgs
  BY <1>1 DEF Asked
<1>3. /\ r.min # NilVal /\ r.min \in {NegInf, PosInf} => r.minInc
      /\ r.max # NilVal /\ r.max \in {NegInf, PosInf} => r.maxInc
  BY <1>2 DEF UniverseIsRich
<1>4. ASSUME NEW c \in Numbers
      PROVE  Allows(r, c) <=> AboveMin(r, c) /\ BelowMax(r, c)
  BY <1>1 DEF Allows
<1>5. CASE r.min = NilVal /\ r.max = NilVal
  BY <1>1, <1>4, <1>5 DEF ConsistentBounds, AboveMin, BelowMax
<1>6. CASE r.min # NilVal /\ r.max = NilVal
  <2>1. AboveMin(r, PosInf) /\ BelowMax(r, PosInf)
    BY <1>1, <1>3, <1>6 DEF AboveMin, BelowMax
  <2> QED BY <1>1, <1>4, <1>6, <2>1 DEF ConsistentBounds
<1>7. CASE r.min = NilVal /\ r.max # NilVal
  <2>1. AboveMin(r, NegInf) /\ BelowMax(r, NegInf)
    BY <1>1, <1>3, <1>7 DEF AboveMin, BelowMax
  <2> QED BY <1>1, <1>4, <1>7, <2>1 DEF ConsistentBounds
<1>8. CASE r.min # NilVal /\ r.max # NilVal
  <2>1. ASSUME NEW c \in Numbers, AboveMin(r, c), BelowMax(r, c)
        PROVE  ConsistentBounds(r)
    BY <1>1, <1>8, <2>1 DEF AboveMin, BelowMax, ConsistentBounds
  <2>2. CASE r.minInc /\ r.maxInc
    <3>1. ConsistentBounds(r) => AboveMin(r, r.min) /\ BelowMax(r, r.min)
      BY <1>1, <1>8, <2>2 DEF AboveMin, BelowMax, ConsistentBounds
    <3> QED BY <1>1, <1>4, <1>8, <2>1, <3>1
  <2>3. CASE ~(r.minInc /\ r.maxInc)
    <3>1. ASSUME ConsistentBounds(r)
          PROVE  \E c \in Numbers : r.min < c /\ c < r.max
      <4>1. r.min < r.max
        BY <1>8, <2>3, <3>1 DEF ConsistentBounds
      <4>2. \A a, d \in NumberArgs : {a[1], d[1]} \subseteq Numbers =>
              (a[1] < d[1] => \E c \in Numbers : a[1] < c /\ c < d[1])
        BY DEF UniverseIsRich
      <4> DEFINE a == <<r.min, r.minInc>>
                 d == <<r.max, r.maxInc>>
      <4>3. a \in NumberArgs /\ d \in NumberArgs /\ a[1] = r.min /\ d[1] = r.max
        BY <1>2, <1>8
      <4> HIDE DEF a, d
      <4> QED BY <1>1, <1>8, <4>1, <4>2, <4>3
    <3>2. ASSUME NEW c \in Numbers, r.min < c, c < r.max
          PROVE  AboveMin(r, c) /\ BelowMax(r, c)
      BY <1>1, <1>8, <3>2 DEF AboveMin, BelowMax
    <3> QED BY <1>4, <2>1, <3>1, <3>2
  <2> QED BY <2>2, <2>3
<1> QED BY <1>5, <1>6, <1>7, <1>8

LEMMA MinLenIsExact ==
  ASSUME NEW r \in RefinementCollection, NEW n \in Int, NEW c \in 0 .. MaxInt
  PROVE  /\ KeepsMinLen(r, n) /\ Allows(r, c) => c >= n
         /\ ~KeepsMinLen(r, n) => (Allows(WithMinLen(r, n), c) <=> Allows(r, c) /\ c >= n)
<1> DEFINE w == [r EXCEPT !.minLen = n]
<1>1. /\ w.minLen = n /\ w.maxLen = r.maxLen /\ w.kind = "collection"
      /\ r.kind = "collection" /\ r.minLen \in Int /\ r.maxLen \in Int /\ c \in Int
  BY LengthsAssumption DEF RefinementCollection, LengthsAssumption
<1> HIDE DEF w
<1>2. Allows(w, c) <=> n <= c /\ c <= r.maxLen
  BY <1>1 DEF Allows
<1>3. Allows(r, c) <=> r.minLen <= c /\ c <= r.maxLen
  BY <1>1 DEF Allows
<1> QED BY <1>1, <1>2, <1>3 DEF WithMinLen, KeepsMinLen, w

LEMMA MaxLenIsExact ==
  ASSUME NEW r \in RefinementCollection, NEW n \in Int, NEW c \in 0 .. MaxInt
  PROVE  /\ KeepsMaxLen(r, n) /\ Allows(r, c) => c <= n
         /\ ~KeepsMaxLen(r, n) => (Allows(WithMaxLen(r, n), c) <=> Allows(r, c) /\ c <= n)
<1> DEFINE w == [r EXCEPT !.maxLen = n]
<1>1. /\ w.minLen = r.minLen /\ w.maxLen = n /\ w.kind = "collection"
      /\ r.kind = "collection" /\ r.minLen \in Int /\ r.maxLen \in Int /\ c \in Int
  BY LengthsAssumption DEF RefinementCollection, LengthsAssumption
<1> HIDE DEF w
<1>2. Allows(w, c) <=> r.minLen <= c /\ c <= n
  BY <1>1 DEF Allows
<1>3. Allows(r, c) <=> r.minLen <= c /\ c <= r.maxLen
  BY <1>1 DEF Allows
<1> QED BY <1>1, <1>2, <1>3 DEF WithMaxLen, KeepsMaxLen, w

LEMMA ConsistentLengthsMeansInhabited ==
  ASSUME NEW r \in RefinementCollection
  PROVE  ConsistentLengths(r) <=> \E c \in 0 .. MaxInt : Allows(r, c)
<1>1. r.kind = "collection" /\ r.minLen \in Nat /\ r.maxLen \in Int /\ r.maxLen <= MaxInt
      /\ MaxInt \in Nat
  BY LengthsAssumption DEF RefinementCollection, LengthsAssumption
<1>2. \A c \in 0 .. MaxInt : Allows(r, c) <=> r.minLen <= c /\ c <= r.maxLen
  BY <1>1 DEF Allows
<1> QED BY <1>1, <1>2 DEF ConsistentLengths

(* The overlap decides whether both prefixes can hold at once. *)
LEMMA PrefixIsExact ==
  ASSUME NEW r \in RefinementString, NEW p \in Seq(Int), NEW c \in Seq(Int)
  PROVE  /\ ~OverlapMatches(r.prefix, p) => ~(Allows(r, c) /\ HasPrefix(c, p))
         /\ OverlapMatches(r.prefix, p) =>
              (Allows(WithPrefix(r, p), c) <=> Allows(r, c) /\ HasPrefix(c, p))
<1> DEFINE q == r.prefix
           w == WithPrefix(r, p)
<1>1. r.kind = "string" /\ q \in Seq(Int) /\ (Allows(r, c) <=> HasPrefix(c, q))
  BY DEF RefinementString, Allows
<1>2. Len(q) \in Nat /\ Len(p) \in Nat /\ Len(c) \in Nat
  BY <1>1
<1>3. w.kind = "string" /\ w.prefix = IF Len(p) > Len(q) THEN p ELSE q
  BY <1>1 DEF WithPrefix, RefinementString
<1>4. Allows(w, c) <=> HasPrefix(c, IF Len(p) > Len(q) THEN p ELSE q)
  BY <1>3 DEF Allows
<1> HIDE DEF q, w
<1>5. HasPrefix(c, q) /\ HasPrefix(c, p) => OverlapMatches(q, p)
  <2> SUFFICES ASSUME HasPrefix(c, q), HasPrefix(c, p), NEW i \in 1 .. Len(q), i <= Len(p)
               PROVE  q[i] = p[i]
    BY DEF OverlapMatches
  <2>1. i \in 1 .. Len(p)
    BY <1>2
  <2> QED BY <2>1 DEF HasPrefix
<1>6. ASSUME OverlapMatches(q, p), Len(p) > Len(q), HasPrefix(c, p)
      PROVE  HasPrefix(c, q)
  <2>1. ASSUME NEW i \in 1 .. Len(q)
        PROVE  q[i] = c[i]
    <3>1. i \in 1 .. Len(p) /\ i <= Len(p)
      BY <1>2, <1>6
    <3> QED BY <1>6, <3>1 DEF OverlapMatches, HasPrefix
  <2>2. Len(q) <= Len(c)
    BY <1>2, <1>6 DEF HasPrefix
  <2> QED BY <2>1, <2>2 DEF HasPrefix
<1>7. ASSUME OverlapMatches(q, p), ~(Len(p) > Len(q)), HasPrefix(c, q)
      PROVE  HasPrefix(c, p)
  <2>1. ASSUME NEW i \in 1 .. Len(p)
        PROVE  p[i] = c[i]
    <3>1. i \in 1 .. Len(q) /\ i <= Len(p)
      BY <1>2, <1>7
    <3> QED BY <1>7, <3>1 DEF OverlapMatches, HasPrefix
  <2>2. Len(p) <= Len(c)
    BY <1>2, <1>7 DEF HasPrefix
  <2> QED BY <2>1, <2>2 DEF HasPrefix
<1> QED BY <1>1, <1>4, <1>5, <1>6, <1>7 DEF q, w

LEMMA AskedPrefixIsInhabited ==
  ASSUME NEW r \in RefinementString, Asked(r), PrefixArgs \subseteq Strings, Strings # {}
  PROVE  \E c \in Strings : Allows(r, c)
<1>1. r.kind = "string" /\ r.prefix \in Seq(Int) /\ r.prefix \in PrefixArgs \cup {<< >>}
  BY DEF RefinementString, Asked
<1>2. CASE r.prefix = << >>
  <2>1. PICK s \in Strings : TRUE
    OBVIOUS
  <2>2. Len(s) \in Nat
    BY StringsAssumption DEF StringsAssumption
  <2>3. HasPrefix(s, << >>)
    BY <2>2 DEF HasPrefix
  <2> QED BY <1>1, <1>2, <2>3 DEF Allows
<1>3. CASE r.prefix \in PrefixArgs
  <2>1. HasPrefix(r.prefix, r.prefix)
    BY <1>1 DEF HasPrefix
  <2> QED BY <1>1, <1>3, <2>1 DEF Allows
<1> QED BY <1>1, <1>2, <1>3

----------------------------------------------------------------------------
(* The inductive invariant.  A returned value keeps the object of a        *)
(* builder that is done, so what a new builder copies from it, or compares *)
(* a bound with, stays as it was.                                          *)

HasRef(x) == ~x.known /\ x.ref # NoRef

Settled(x, owner, object) ==
  HasRef(x) =>
    /\ owner[x.ref].status = "done" /\ ~owner[x.ref].orig.known
    /\ object[x.ref].null # "T"

AllSettled ==
  /\ \A v \in Values : value[v] # Free => Settled(value[v], builder, heap)
  /\ \A b \in Builders : builder[b] # Free => Settled(builder[b].orig, builder, heap)

HeapAsked == \A b \in Builders : heap[b] # Free => Asked(heap[b])

(* A builder that has not panicked leaves its unknown value something to   *)
(* be, and nothing but what the value it refines may be.                   *)
Refining(b) == InUse(b) /\ ~builder[b].orig.known
Inhabited ==
  \A b \in Builders :
    (Refining(b) /\ builder[b].status # "panicked") => CandidatesOf(b) # {}
Inherits ==
  \A b \in Builders :
    (Refining(b) /\ HasRef(builder[b].orig)) =>
      CandidatesOf(b) \subseteq Candidates(TypeOf(b), heap[builder[b].orig.ref])

JInv == IInv /\ AllSettled /\ HeapAsked /\ Inhabited /\ Inherits

(* What a call that asks for C may do: w replaces the object r. *)
Fits(w, r, ty, C) ==
  /\ w \in Refinements /\ w.kind = r.kind /\ Asked(w)
  /\ Candidates(ty, w) = Candidates(ty, r) \cap C
  /\ w.null # r.null => r.null = "U" /\ Candidates(ty, w) = Candidates(ty, r)

Outcome(b, C) ==
  /\ Callable(b)
  /\ \/ UNCHANGED vars /\ (Refining(b) => CandidatesOf(b) \subseteq C)
     \/ Panic(b) /\ (Refining(b) => CandidatesOf(b) \cap C = {})
     \/ /\ builder[b].ref # NoRef
        /\ \E w, ok : /\ Store(b, w, ok) /\ Fits(w, Wip(b), TypeOf(b), C)
                      /\ Refining(b) => (ok <=> Candidates(TypeOf(b), w) # {})

(* The bounds of the value being refined hold of every candidate. *)
LEMMA OriginalBounds ==
  ASSUME JInv, NEW b \in Builders, Refining(b), Wip(b).kind = "number",
         NEW c \in CandidatesOf(b)
  PROVE  /\ c \in Numbers
         /\ LowerBoundOf(builder[b].orig) \in Int /\ LowerBoundOf(builder[b].orig) <= c
         /\ UpperBoundOf(builder[b].orig) \in Int /\ c <= UpperBoundOf(builder[b].orig)
<1> DEFINE o == builder[b].orig
           r == heap[o.ref]
<1>1. /\ builder[b] # Free /\ builder[b].ref # NoRef /\ ~o.known /\ IInv
      /\ TypeOf(b) \in Types /\ Wip(b).kind = KindOf(TypeOf(b))
  BY WipFacts DEF JInv, Refining, InUse
<1>2. /\ NonNull(TypeOf(b)) = Numbers /\ TypeOf(b) = o.ty /\ c \in Numbers
  BY <1>1, KindGivesUniverse DEF TypeOf, CandidatesOf, Candidates
<1>3. /\ \A n \in Numbers : n \in Int /\ NegInf <= n /\ n <= PosInf
      /\ NegInf \in Numbers /\ PosInf \in Numbers /\ NilVal \notin Int
  BY NumbersAssumption DEF NumbersAssumption
<1>4. CASE o.ref = NoRef
  BY <1>2, <1>3, <1>4 DEF RangeOf, UpperBoundOf, LowerBoundOf
<1>5. CASE o.ref # NoRef
  <2>1. o.ref \in Builders /\ builder[o.ref] # Free /\ builder[o.ref].ref = o.ref
        /\ TypeOf(o.ref) = o.ty
    BY <1>1, <1>5 DEF IInv, TypeOK, RefsOK, BuilderOK, Shares, IsBuilder, IsValue, KnownValue,
       UnknownValue, TypeOf
  <2>2. r \in Refinements /\ r.kind = "number"
    BY <1>1, <1>2, <2>1, <1>5, WipFacts
  <2>3. r \in RefinementNumber
    BY <2>2, KindDecides
  <2>4. Allows(r, c)
    BY <1>1, <1>2, <1>5 DEF JInv, Inherits, HasRef, Refining, Candidates
  <2>5. AboveMin(r, c) /\ BelowMax(r, c)
    BY <2>2, <2>4 DEF Allows
  <2>6. RangeOf(o) = r
    BY <1>5 DEF RangeOf
  <2>7. /\ r.min # NilVal => r.min \in Numbers
        /\ r.max # NilVal => r.max \in Numbers
        /\ r.minInc \in BOOLEAN /\ r.maxInc \in BOOLEAN
    BY <2>3 DEF RefinementNumber
  <2> HIDE DEF o, r
  <2>8. /\ UpperBoundOf(o) = IF r.max # NilVal THEN r.max ELSE PosInf
        /\ LowerBoundOf(o) = IF r.min # NilVal THEN r.min ELSE NegInf
    BY <2>2, <2>6 DEF UpperBoundOf, LowerBoundOf
  <2>9. r.max # NilVal => c <= r.max
    BY <1>2, <1>3, <2>5, <2>7 DEF BelowMax
  <2>10. r.min # NilVal => r.min <= c
    BY <1>2, <1>3, <2>5, <2>7 DEF AboveMin
  <2> QED BY <1>2, <1>3, <2>7, <2>8, <2>9, <2>10 DEF o
<1> QED BY <1>4, <1>5

(* An object of a kind, and what it is asked. *)
LEMMA ObjectFacts ==
  ASSUME JInv, NEW b \in Builders, Callable(b), NEW k, Refineable(b, k)
  PROVE  /\ InUse(b) /\ builder[b].ref # NoRef /\ TypeOf(b) \in Types
         /\ Wip(b) \in Refinements /\ Wip(b).kind = k /\ KindOf(TypeOf(b)) = k
         /\ Asked(Wip(b))
<1>1. builder[b] # Free /\ builder[b].ref # NoRef /\ IInv /\ Wip(b).kind = k
  BY DEF Callable, Refineable, JInv
<1>2. heap[b] = Wip(b) /\ heap[b] # Free
  BY <1>1, WipFacts DEF IInv, RefsOK, BuilderOK
<1> QED BY <1>1, <1>2, WipFacts DEF JInv, HeapAsked, InUse

LEMMA NumberArgFacts ==
  ASSUME UniverseIsRich, NEW a \in NumberArgs, a[1] \in Numbers
  PROVE  /\ a = <<a[1], a[2]>> /\ a[2] \in BOOLEAN
         /\ a[1] \in {NegInf, PosInf} => a[2]
BY ProgramAssumption DEF ProgramAssumption, UniverseIsRich

LEMMA SetMinOutcome ==
  ASSUME UniverseIsRich, JInv, NEW b \in Builders, NEW a \in NumberArgs,
         Callable(b), Refineable(b, "number"), SetMin(b, a[1], a[2])
  PROVE  Outcome(b, AtLeast(a[1], a[2]))
<1> DEFINE n == a[1]
           inc == a[2]
           C == AtLeast(n, inc)
           r == Wip(b)
           w == WithMin(r, n, inc)
<1>1. /\ n \in Numbers /\ n \in Int /\ a = <<n, inc>> /\ inc \in BOOLEAN
      /\ n \in {NegInf, PosInf} => inc
  BY NumberArgFacts, NumbersAssumption DEF SetMin, NumbersAssumption
<1>2. /\ r \in RefinementNumber /\ Asked(r) /\ NonNull(TypeOf(b)) = Numbers
      /\ builder[b].ref # NoRef /\ InUse(b) /\ r.kind = "number"
  BY ObjectFacts, KindDecides, KindGivesUniverse
<1> SUFFICES Outcome(b, C)
  OBVIOUS
<1> HIDE DEF n, inc
<1>3. CASE MinContradicts(builder[b].orig, n, inc) /\ Panic(b)
  <2>1. ASSUME Refining(b), NEW c \in CandidatesOf(b)
        PROVE  c \notin C
    <3>1. n > UpperBoundOf(builder[b].orig)
      BY <1>3, <2>1 DEF MinContradicts, Refining
    <3>2. c \in Int /\ UpperBoundOf(builder[b].orig) \in Int
          /\ c <= UpperBoundOf(builder[b].orig)
      BY <1>2, <2>1, OriginalBounds, NumbersAssumption DEF NumbersAssumption
    <3> QED BY <1>1, <3>1, <3>2 DEF AtLeast
  <2> HIDE DEF C
  <2> QED BY <1>3, <2>1 DEF Outcome
<1>4. CASE KeepsMin(r, n, inc) /\ UNCHANGED vars
  <2>1. CandidatesOf(b) \subseteq C
    BY <1>1, <1>2, <1>4, MinIsExact DEF CandidatesOf, Candidates
  <2> HIDE DEF C
  <2> QED BY <1>4, <2>1 DEF Outcome
<1>5. CASE ~KeepsMin(r, n, inc) /\ Store(b, w, ConsistentBounds(w))
  <2>1. /\ w \in RefinementNumber /\ w.null = r.null
        /\ {c \in Numbers : Allows(w, c)} = {c \in Numbers : Allows(r, c)} \cap C
    BY <1>1, <1>2, <1>5, MinIsExact, WithMinNarrows
  <2>2. Asked(w)
    <3>1. CASE w = r
      BY <1>2, <3>1
    <3>2. CASE w = [r EXCEPT !.min = n, !.minInc = inc]
      BY <1>1, <1>2, <3>2 DEF Asked, RefinementNumber
    <3> QED BY <3>1, <3>2 DEF WithMin
  <2> HIDE DEF w, C
  <2>3. w \in Refinements /\ w.kind = r.kind
    BY <1>2, <2>1 DEF Refinements, RefinementNumber
  <2>4. Fits(w, r, TypeOf(b), C)
    BY <1>2, <2>1, <2>2, <2>3 DEF Fits, Candidates
  <2>5. ConsistentBounds(w) <=> Candidates(TypeOf(b), w) # {}
    BY <1>2, <2>1, <2>2, ConsistentMeansInhabited DEF Candidates
  <2> QED BY <1>2, <1>5, <2>4, <2>5 DEF Outcome
<1>6. \/ MinContradicts(builder[b].orig, n, inc) /\ Panic(b)
      \/ KeepsMin(r, n, inc) /\ UNCHANGED vars
      \/ ~KeepsMin(r, n, inc) /\ Store(b, w, ConsistentBounds(w))
  BY DEF SetMin, n, inc
<1> HIDE DEF w, C
<1> QED BY <1>3, <1>4, <1>5, <1>6

LEMMA SetMaxOutcome ==
  ASSUME UniverseIsRich, JInv, NEW b \in Builders, NEW a \in NumberArgs,
         Callable(b), Refineable(b, "number"), SetMax(b, a[1], a[2])
  PROVE  Outcome(b, AtMost(a[1], a[2]))
<1> DEFINE n == a[1]
           inc == a[2]
           C == AtMost(n, inc)
           r == Wip(b)
           w == WithMax(r, n, inc)
<1>1. /\ n \in Numbers /\ n \in Int /\ a = <<n, inc>> /\ inc \in BOOLEAN
      /\ n \in {NegInf, PosInf} => inc
  BY NumberArgFacts, NumbersAssumption DEF SetMax, NumbersAssumption
<1>2. /\ r \in RefinementNumber /\ Asked(r) /\ NonNull(TypeOf(b)) = Numbers
      /\ builder[b].ref # NoRef /\ InUse(b) /\ r.kind = "number"
  BY ObjectFacts, KindDecides, KindGivesUniverse
<1> SUFFICES Outcome(b, C)
  OBVIOUS
<1> HIDE DEF n, inc
<1>3. CASE MaxContradicts(builder[b].orig, n, inc) /\ Panic(b)
  <2>1. ASSUME Refining(b), NEW c \in CandidatesOf(b)
        PROVE  c \notin C
    <3>1. n < LowerBoundOf(builder[b].orig)
      BY <1>3, <2>1 DEF MaxContradicts, Refining
    <3>2. c \in Int /\ LowerBoundOf(builder[b].orig) \in Int
          /\ LowerBoundOf(builder[b].orig) <= c
      BY <1>2, <2>1, OriginalBounds, NumbersAssumption DEF NumbersAssumption
    <3> QED BY <1>1, <3>1, <3>2 DEF AtMost
  <2> HIDE DEF C
  <2> QED BY <1>3, <2>1 DEF Outcome
<1>4. CASE KeepsMax(r, n, inc) /\ UNCHANGED vars
  <2>1. CandidatesOf(b) \subseteq C
    BY <1>1, <1>2, <1>4, MaxIsExact DEF CandidatesOf, Candidates
  <2> HIDE DEF C
  <2> QED BY <1>4, <2>1 DEF Outcome
<1>5. CASE ~KeepsMax(r, n, inc) /\ Store(b, w, ConsistentBounds(w))
  <2>1. /\ w \in RefinementNumber /\ w.null = r.null
        /\ {c \in Numbers : Allows(w, c)} = {c \in Numbers : Allows(r, c)} \cap C
    BY <1>1, <1>2, <1>5, MaxIsExact, WithMaxNarrows
  <2>2. Asked(w)
    <3>1. CASE w = r
      BY <1>2, <3>1
    <3>2. CASE w = [r EXCEPT !.max = n, !.maxInc = inc]
      BY <1>1, <1>2, <3>2 DEF Asked, RefinementNumber
    <3> QED BY <3>1, <3>2 DEF WithMax
  <2> HIDE DEF w, C
  <2>3. w \in Refinements /\ w.kind = r.kind
    BY <1>2, <2>1 DEF Refinements, RefinementNumber
  <2>4. Fits(w, r, TypeOf(b), C)
    BY <1>2, <2>1, <2>2, <2>3 DEF Fits, Candidates
  <2>5. ConsistentBounds(w) <=> Candidates(TypeOf(b), w) # {}
    BY <1>2, <2>1, <2>2, ConsistentMeansInhabited DEF Candidates
  <2> QED BY <1>2, <1>5, <2>4, <2>5 DEF Outcome
<1>6. \/ MaxContradicts(builder[b].orig, n, inc) /\ Panic(b)
      \/ KeepsMax(r, n, inc) /\ UNCHANGED vars
      \/ ~KeepsMax(r, n, inc) /\ Store(b, w, ConsistentBounds(w))
  BY DEF SetMax, n, inc
<1> HIDE DEF w, C
<1> QED BY <1>3, <1>4, <1>5, <1>6

LEMMA SetMinLenOutcome ==
  ASSUME JInv, NEW b \in Builders, NEW n \in Int,
         Callable(b), Refineable(b, "collection"), SetMinLen(b, n)
  PROVE  Outcome(b, {c \in 0 .. MaxInt : c >= n})
<1> DEFINE C == {c \in 0 .. MaxInt : c >= n}
           r == Wip(b)
           w == WithMinLen(r, n)
<1>1. /\ r \in RefinementCollection /\ Asked(r) /\ NonNull(TypeOf(b)) = 0 .. MaxInt
      /\ builder[b].ref # NoRef /\ InUse(b) /\ r.kind = "collection"
  <2>1. /\ builder[b].ref # NoRef /\ InUse(b) /\ r.kind = "collection" /\ Asked(r)
        /\ r \in RefinementCollection /\ TypeOf(b) \in Types
        /\ KindOf(TypeOf(b)) = "collection"
    BY ObjectFacts, KindDecides
  <2>2. NonNull(TypeOf(b)) = 0 .. MaxInt
    BY <2>1 DEF KindOf, NonNull, Types, CollectionTypes
  <2> QED BY <2>1, <2>2
<1> SUFFICES Outcome(b, C)
  OBVIOUS
<1>2. CASE builder[b].orig.known /\ Panic(b)
  BY <1>2 DEF Outcome, Refining
<1>3. CASE KeepsMinLen(r, n) /\ UNCHANGED vars
  <2>1. CandidatesOf(b) \subseteq C
    BY <1>1, <1>3, MinLenIsExact DEF CandidatesOf, Candidates
  <2> HIDE DEF C
  <2> QED BY <1>3, <2>1 DEF Outcome
<1>4. CASE ~KeepsMinLen(r, n) /\ Store(b, w, ConsistentLengths(w))
  <2>1. /\ w \in RefinementCollection /\ w.null = r.null
        /\ \A c \in 0 .. MaxInt : Allows(w, c) <=> Allows(r, c) /\ c >= n
    BY <1>1, <1>4, MinLenIsExact, WithMinLenNarrows
  <2> HIDE DEF w
  <2>2. w \in Refinements /\ w.kind = r.kind /\ Asked(w)
    BY <1>1, <2>1 DEF Refinements, RefinementCollection, Asked
  <2>3. Candidates(TypeOf(b), w) = Candidates(TypeOf(b), r) \cap C
    BY <1>1, <2>1 DEF Candidates
  <2> HIDE DEF C
  <2>4. Fits(w, r, TypeOf(b), C)
    BY <2>1, <2>2, <2>3 DEF Fits
  <2>5. ConsistentLengths(w) <=> Candidates(TypeOf(b), w) # {}
    BY <1>1, <2>1, ConsistentLengthsMeansInhabited DEF Candidates
  <2> QED BY <1>1, <1>4, <2>4, <2>5 DEF Outcome
<1>5. \/ builder[b].orig.known /\ Panic(b)
      \/ KeepsMinLen(r, n) /\ UNCHANGED vars
      \/ ~KeepsMinLen(r, n) /\ Store(b, w, ConsistentLengths(w))
  BY DEF SetMinLen
<1> QED BY <1>2, <1>3, <1>4, <1>5

LEMMA SetMaxLenOutcome ==
  ASSUME JInv, NEW b \in Builders, NEW n \in Int,
         Callable(b), Refineable(b, "collection"), SetMaxLen(b, n)
  PROVE  Outcome(b, {c \in 0 .. MaxInt : c <= n})
<1> DEFINE C == {c \in 0 .. MaxInt : c <= n}
           r == Wip(b)
           w == WithMaxLen(r, n)
<1>1. /\ r \in RefinementCollection /\ Asked(r) /\ NonNull(TypeOf(b)) = 0 .. MaxInt
      /\ builder[b].ref # NoRef /\ InUse(b) /\ r.kind = "collection"
  <2>1. /\ builder[b].ref # NoRef /\ InUse(b) /\ r.kind = "collection" /\ Asked(r)
        /\ r \in RefinementCollection /\ TypeOf(b) \in Types
        /\ KindOf(TypeOf(b)) = "collection"
    BY ObjectFacts, KindDecides
  <2>2. NonNull(TypeOf(b)) = 0 .. MaxInt
    BY <2>1 DEF KindOf, NonNull, Types, CollectionTypes
  <2> QED BY <2>1, <2>2
<1> SUFFICES Outcome(b, C)
  OBVIOUS
<1>2. CASE builder[b].orig.known /\ Panic(b)
  BY <1>2 DEF Outcome, Refining
<1>3. CASE KeepsMaxLen(r, n) /\ UNCHANGED vars
  <2>1. CandidatesOf(b) \subseteq C
    BY <1>1, <1>3, MaxLenIsExact DEF CandidatesOf, Candidates
  <2> HIDE DEF C
  <2> QED BY <1>3, <2>1 DEF Outcome
<1>4. CASE ~KeepsMaxLen(r, n) /\ Store(b, w, ConsistentLengths(w))
  <2>1. /\ w \in RefinementCollection /\ w.null = r.null
        /\ \A c \in 0 .. MaxInt : Allows(w, c) <=> Allows(r, c) /\ c <= n
    BY <1>1, <1>4, MaxLenIsExact, WithMaxLenNarrows
  <2> HIDE DEF w
  <2>2. w \in Refinements /\ w.kind = r.kind /\ Asked(w)
    BY <1>1, <2>1 DEF Refinements, RefinementCollection, Asked
  <2>3. Candidates(TypeOf(b), w) = Candidates(TypeOf(b), r) \cap C
    BY <1>1, <2>1 DEF Candidates
  <2> HIDE DEF C
  <2>4. Fits(w, r, TypeOf(b), C)
    BY <2>1, <2>2, <2>3 DEF Fits
  <2>5. ConsistentLengths(w) <=> Candidates(TypeOf(b), w) # {}
    BY <1>1, <2>1, ConsistentLengthsMeansInhabited DEF Candidates
  <2> QED BY <1>1, <1>4, <2>4, <2>5 DEF Outcome
<1>5. \/ builder[b].orig.known /\ Panic(b)
      \/ KeepsMaxLen(r, n) /\ UNCHANGED vars
      \/ ~KeepsMaxLen(r, n) /\ Store(b, w, ConsistentLengths(w))
  BY DEF SetMaxLen
<1> QED BY <1>2, <1>3, <1>4, <1>5

LEMMA SetPrefixOutcome ==
  ASSUME JInv, NEW b \in Builders, NEW p \in PrefixArgs,
         Callable(b), Refineable(b, "string"), SetPrefix(b, p),
         PrefixArgs \subseteq Strings, Strings # {}
  PROVE  Outcome(b, {c \in Strings : HasPrefix(c, p)})
<1> DEFINE C == {c \in Strings : HasPrefix(c, p)}
           r == Wip(b)
           w == WithPrefix(r, p)
<1>1. /\ r \in RefinementString /\ Asked(r) /\ NonNull(TypeOf(b)) = Strings
      /\ builder[b].ref # NoRef /\ InUse(b) /\ r.kind = "string" /\ p \in Seq(Int)
      /\ \A s \in Strings : s \in Seq(Int)
  BY ObjectFacts, KindDecides, KindGivesUniverse, ProgramAssumption, StringsAssumption
  DEF ProgramAssumption, StringsAssumption
<1> SUFFICES Outcome(b, C)
  OBVIOUS
<1>2. CASE Panic(b) /\ builder[b].orig.known
  BY <1>2 DEF Outcome, Refining
<1>3. CASE Panic(b) /\ ~OverlapMatches(r.prefix, p)
  <2>1. CandidatesOf(b) \cap C = {}
    BY <1>1, <1>3, PrefixIsExact DEF CandidatesOf, Candidates
  <2> HIDE DEF C
  <2> QED BY <1>3, <2>1 DEF Outcome
<1>4. CASE OverlapMatches(r.prefix, p) /\ Store(b, w, TRUE)
  <2>1. /\ w \in RefinementString /\ w.null = r.null
        /\ \A c \in Strings : Allows(w, c) <=> Allows(r, c) /\ HasPrefix(c, p)
    BY <1>1, <1>4, PrefixIsExact, WithPrefixNarrows
  <2>2. Asked(w)
    BY <1>1 DEF Asked, WithPrefix, RefinementString
  <2> HIDE DEF w
  <2>3. w \in Refinements /\ w.kind = r.kind
    BY <1>1, <2>1 DEF Refinements, RefinementString
  <2>4. Candidates(TypeOf(b), w) = Candidates(TypeOf(b), r) \cap C
    BY <1>1, <2>1 DEF Candidates
  <2> HIDE DEF C
  <2>5. Fits(w, r, TypeOf(b), C)
    BY <2>1, <2>2, <2>3, <2>4 DEF Fits
  <2>6. Refining(b) => Candidates(TypeOf(b), w) # {}
    BY <1>1, <2>1, <2>2, AskedPrefixIsInhabited DEF Candidates
  <2> QED BY <1>1, <1>4, <2>5, <2>6 DEF Outcome
<1>5. \/ Panic(b) /\ builder[b].orig.known
      \/ Panic(b) /\ ~OverlapMatches(r.prefix, p)
      \/ OverlapMatches(r.prefix, p) /\ Store(b, w, TRUE)
  BY DEF SetPrefix
<1> QED BY <1>2, <1>3, <1>4, <1>5

(* NotNull and Null leave the candidates alone, and panic when a null or   *)
(* a value would have to be both.                                          *)
LEMMA SetNullOutcome ==
  ASSUME JInv, NEW b \in Builders, NEW t \in {"T", "F"},
         Callable(b), builder[b].status # "panicked", SetNull(b, t)
  PROVE  \E C : Outcome(b, C)
<1> DEFINE r == Wip(b)
           w == [r EXCEPT !.null = t]
           ty == TypeOf(b)
<1>1. r \in Refinements /\ builder[b] # Free /\ builder[b].ref # NoRef /\ InUse(b)
      /\ heap[b] = r /\ r # Free /\ Asked(r)
  <2>1. builder[b] # Free /\ builder[b].ref # NoRef /\ IInv
    BY DEF Callable, SetNull, JInv
  <2>2. r \in Refinements /\ heap[b] = r /\ heap[b] # Free
    BY <2>1, WipFacts DEF IInv, RefsOK, BuilderOK
  <2> QED BY <2>1, <2>2 DEF JInv, HeapAsked, InUse
<1>2. CASE Panic(b)
  <2>1. Outcome(b, {})
    BY <1>2 DEF Outcome
  <2> QED BY <2>1
<1>3. CASE r.null # (IF t = "T" THEN "F" ELSE "T") /\ Store(b, w, TRUE)
  <2>1. /\ w \in Refinements /\ w.kind = r.kind /\ w.null = t
        /\ \A c : Allows(w, c) <=> Allows(r, c)
    BY <1>1, SetNullKeepsBounds DEF Tristate
  <2>2. r.null \in Tristate
    BY <1>1 DEF Refinements, RefinementNullable, RefinementNumber, RefinementCollection,
       RefinementString
  <2>3. Asked(w)
    BY <1>1 DEF Asked, Refinements, RefinementNullable, RefinementNumber, RefinementCollection,
       RefinementString
  <2> HIDE DEF w
  <2>4. Candidates(ty, w) = Candidates(ty, r)
    BY <2>1 DEF Candidates
  <2>5. Candidates(ty, w) = Candidates(ty, r) \cap Candidates(ty, r)
    BY <2>4
  <2>6. w.null # r.null => r.null = "U"
    BY <1>3, <2>1, <2>2 DEF Tristate
  <2>7. Fits(w, r, ty, Candidates(ty, r))
    BY <2>1, <2>3, <2>4, <2>5, <2>6 DEF Fits
  <2>8. Refining(b) => Candidates(ty, w) # {}
    BY <2>4 DEF JInv, Inhabited, CandidatesOf
  <2>9. Outcome(b, Candidates(ty, r))
    BY <1>1, <1>3, <2>7, <2>8 DEF Outcome
  <2> QED BY <2>9
<1> QED BY <1>2, <1>3 DEF SetNull

----------------------------------------------------------------------------
(* What a step changes.                                                    *)

(* A call changes its own builder and object only. *)
Changed(b, C) ==
  /\ builder[b] # Free /\ builder[b].status = "open"
  /\ value' = value
  /\ \A d \in Builders : d # b => builder'[d] = builder[d] /\ heap'[d] = heap[d]
  /\ builder'[b] # Free /\ builder'[b].orig = builder[b].orig
  /\ builder'[b].marks = builder[b].marks /\ builder'[b].ref = builder[b].ref
  /\ \/ /\ heap'[b] = heap[b] /\ builder'[b].status = "open"
        /\ Refining(b) => CandidatesOf(b) \subseteq C
     \/ /\ heap'[b] = heap[b] /\ builder'[b].status = "panicked"
        /\ Refining(b) => CandidatesOf(b) \cap C = {}
     \/ /\ builder[b].ref = b /\ b # NoRef /\ Fits(heap'[b], heap[b], TypeOf(b), C)
        /\ builder'[b].status \in {"open", "panicked"}
        /\ Refining(b) =>
             (builder'[b].status = "open" <=> Candidates(TypeOf(b), heap'[b]) # {})

LEMMA OutcomeChanges ==
  ASSUME JInv, ReuseBuilder = FALSE, NEW b \in Builders, NEW C, Outcome(b, C)
  PROVE  Changed(b, C)
<1>1. /\ builder[b] # Free /\ builder[b].status = "open" /\ IInv
      /\ IsBuilder(builder[b]) /\ builder \in [Builders -> {builder[d] : d \in Builders}]
      /\ heap \in [Builders -> Refinements \cup {Free}]
  BY DEF Outcome, Callable, JInv, IInv, TypeOK
<1>2. CASE UNCHANGED vars /\ (Refining(b) => CandidatesOf(b) \subseteq C)
  BY <1>1, <1>2 DEF vars, Changed
<1> DEFINE y == [builder[b] EXCEPT !.status = "panicked"]
<1>3. y.orig = builder[b].orig /\ y.marks = builder[b].marks /\ y.ref = builder[b].ref
      /\ y.status = "panicked" /\ y # Free
  <2>1. IsBuilder(y)
    BY <1>1 DEF IsBuilder, Status
  <2>2. y # Free
    BY <2>1, BuilderNotFree
  <2> QED BY <1>1, <2>2 DEF IsBuilder
<1>4. ASSUME builder' = [builder EXCEPT ![b].status = "panicked"]
      PROVE  builder'[b] = y /\ \A d \in Builders : d # b => builder'[d] = builder[d]
  BY <1>1, <1>4
<1> HIDE DEF y
<1>5. CASE Panic(b) /\ (Refining(b) => CandidatesOf(b) \cap C = {})
  <2>1. value' = value /\ heap' = heap /\ builder' = [builder EXCEPT ![b].status = "panicked"]
    BY <1>5 DEF Panic
  <2> QED BY <1>1, <1>3, <1>4, <1>5, <2>1 DEF Changed
<1>6. ASSUME builder[b].ref # NoRef, NEW w, NEW ok, Store(b, w, ok),
             Fits(w, Wip(b), TypeOf(b), C),
             Refining(b) => (ok <=> Candidates(TypeOf(b), w) # {})
      PROVE  Changed(b, C)
  <2>1. builder[b].ref = b /\ Wip(b) = heap[b] /\ b # NoRef
    BY <1>1, <1>6, WipFacts
  <2>2. value' = value /\ heap' = [heap EXCEPT ![b] = w]
    BY <1>6, <2>1 DEF Store
  <2>3. heap'[b] = w /\ \A d \in Builders : d # b => heap'[d] = heap[d]
    BY <1>1, <2>2
  <2>4. CASE ok
    <3>1. builder' = builder
      BY <1>6, <2>4 DEF Store
    <3>2. Refining(b) => Candidates(TypeOf(b), w) # {}
      BY <1>6, <2>4
    <3> QED BY <1>1, <1>6, <2>1, <2>2, <2>3, <3>1, <3>2 DEF Changed
  <2>5. CASE ~ok
    <3>1. builder' = [builder EXCEPT ![b].status = "panicked"]
      BY <1>6, <2>5 DEF Store
    <3>2. Refining(b) => Candidates(TypeOf(b), w) = {}
      BY <1>6, <2>5
    <3> QED BY <1>1, <1>3, <1>4, <1>6, <2>1, <2>2, <2>3, <3>1, <3>2 DEF Changed
  <2> QED BY <2>4, <2>5
<1>7. \/ UNCHANGED vars /\ (Refining(b) => CandidatesOf(b) \subseteq C)
      \/ Panic(b) /\ (Refining(b) => CandidatesOf(b) \cap C = {})
      \/ /\ builder[b].ref # NoRef
         /\ \E w, ok : /\ Store(b, w, ok) /\ Fits(w, Wip(b), TypeOf(b), C)
                       /\ Refining(b) => (ok <=> Candidates(TypeOf(b), w) # {})
  BY DEF Outcome
<1> QED BY <1>2, <1>5, <1>6, <1>7

LEMMA IgnoredOrPanicked ==
  ASSUME NEW b \in Builders, Callable(b), UNCHANGED vars \/ Panic(b)
  PROVE  \E C : Outcome(b, C)
<1>1. CASE UNCHANGED vars
  <2>1. Outcome(b, CandidatesOf(b))
    BY <1>1 DEF Outcome
  <2> QED BY <2>1
<1>2. CASE Panic(b)
  <2>1. Outcome(b, {})
    BY <1>2 DEF Outcome
  <2> QED BY <2>1
<1> QED BY <1>1, <1>2

LEMMA StepOutcomes ==
  ASSUME UniverseIsRich, JInv, ReuseBuilder = FALSE, Next
  PROVE  \E b \in Builders :
           \/ \E v \in Values : Refine(b, v) \/ NewValue(b, v)
           \/ \E C : Outcome(b, C)
<1>1. PICK b \in Builders :
        \/ \E v \in Values : Refine(b, v) \/ NewValue(b, v)
        \/ NotNull(b) \/ NullMethod(b)
        \/ NumberMethod(b) \/ LengthMethod(b) \/ PrefixMethod(b)
  BY DEF Next
<1>2. CASE NotNull(b) \/ NullMethod(b)
  <2>1. Callable(b) /\ builder[b].status # "panicked"
    BY <1>2 DEF NotNull, NullMethod, Callable
  <2>2. Ignored(b) \/ \E t \in {"T", "F"} : SetNull(b, t)
    BY <1>2 DEF NotNull, NullMethod
  <2>3. CASE Ignored(b)
    BY <2>1, <2>3, IgnoredOrPanicked DEF Ignored
  <2> QED BY <2>1, <2>2, <2>3, SetNullOutcome
<1>3. CASE NumberMethod(b)
  <2>1. PICK a \in NumberArgs :
          \/ NumberRangeLowerBound(b, a[1], a[2])
          \/ NumberRangeUpperBound(b, a[1], a[2])
    BY <1>3 DEF NumberMethod
  <2>2. /\ Callable(b)
        /\ \/ Ignored(b) \/ WrongKind(b, "number") \/ BadNumberArg(b, a[1])
           \/ Refineable(b, "number") /\ (SetMin(b, a[1], a[2]) \/ SetMax(b, a[1], a[2]))
    BY <2>1 DEF NumberRangeLowerBound, NumberRangeUpperBound
  <2>3. CASE Ignored(b) \/ WrongKind(b, "number") \/ BadNumberArg(b, a[1])
    BY <2>2, <2>3, IgnoredOrPanicked DEF Ignored, WrongKind, BadNumberArg
  <2> QED BY <2>2, <2>3, SetMinOutcome, SetMaxOutcome
<1>4. CASE LengthMethod(b)
  <2>1. PICK n \in LengthArgs :
          CollectionLengthLowerBound(b, n) \/ CollectionLengthUpperBound(b, n)
    BY <1>4 DEF LengthMethod
  <2>2. /\ Callable(b) /\ n \in Int
        /\ \/ Ignored(b) \/ WrongKind(b, "collection")
           \/ Refineable(b, "collection") /\ (SetMinLen(b, n) \/ SetMaxLen(b, n))
    BY <2>1, ProgramAssumption
    DEF CollectionLengthLowerBound, CollectionLengthUpperBound, ProgramAssumption
  <2>3. CASE Ignored(b) \/ WrongKind(b, "collection")
    BY <2>2, <2>3, IgnoredOrPanicked DEF Ignored, WrongKind
  <2> QED BY <2>2, <2>3, SetMinLenOutcome, SetMaxLenOutcome
<1>5. CASE PrefixMethod(b)
  <2>1. PICK p \in PrefixArgs : StringPrefixFull(b, p)
    BY <1>5 DEF PrefixMethod
  <2>2. /\ Callable(b)
        /\ \/ Ignored(b) \/ WrongKind(b, "string")
           \/ Refineable(b, "string") /\ SetPrefix(b, p)
    BY <2>1 DEF StringPrefixFull
  <2>3. CASE Ignored(b) \/ WrongKind(b, "string")
    BY <2>2, <2>3, IgnoredOrPanicked DEF Ignored, WrongKind
  <2> QED BY <2>2, <2>3, SetPrefixOutcome DEF UniverseIsRich
<1> QED BY <1>1, <1>2, <1>3, <1>4, <1>5

----------------------------------------------------------------------------
(* The invariant is inductive.                                             *)

(* The owner of what a value points to is a builder in use, of the value's *)
(* type.                                                                   *)
LEMMA OwnerFacts ==
  ASSUME IInv, NEW x, IsValue(x), Shares(x, builder), HasRef(x)
  PROVE  /\ x.ref \in Builders /\ builder[x.ref] # Free /\ builder[x.ref].ref = x.ref
         /\ InUse(x.ref) /\ TypeOf(x.ref) = x.ty /\ Wip(x.ref) = heap[x.ref]
         /\ heap[x.ref] \in Refinements
<1>1. x.ref \in Builders /\ builder[x.ref] # Free /\ builder[x.ref].ref = x.ref
      /\ builder[x.ref].orig.ty = x.ty /\ x.ref # NoRef
  BY DEF Shares, HasRef, IsValue, KnownValue, UnknownValue
<1> QED BY <1>1, WipFacts DEF InUse, TypeOf

LEMMA ValuesShare ==
  ASSUME IInv
  PROVE  /\ \A v \in Values : value[v] # Free => IsValue(value[v]) /\ Shares(value[v], builder)
         /\ \A b \in Builders : builder[b] # Free =>
              IsValue(builder[b].orig) /\ Shares(builder[b].orig, builder)
BY DEF IInv, TypeOK, RefsOK, BuilderOK, IsBuilder

LEMMA SettledStays ==
  ASSUME IInv, NEW b \in Builders, builder[b] = Free \/ builder[b].status = "open",
         \A d \in Builders : d # b => builder'[d] = builder[d] /\ heap'[d] = heap[d],
         NEW x, IsValue(x), Shares(x, builder), Settled(x, builder, heap)
  PROVE  Settled(x, builder', heap')
<1> SUFFICES ASSUME HasRef(x)
             PROVE  Settled(x, builder', heap')
  BY DEF Settled
<1>1. x.ref \in Builders /\ builder[x.ref] # Free
  BY OwnerFacts
<1>2. x.ref # b
  BY <1>1 DEF Settled
<1> QED BY <1>1, <1>2 DEF Settled

LEMMA OutcomeKeepsJInv ==
  ASSUME JInv, IInv', NEW b \in Builders, NEW C, Changed(b, C)
  PROVE  JInv'
<1>1. /\ IInv /\ builder[b].status = "open" /\ value' = value
      /\ \A d \in Builders : d # b => builder'[d] = builder[d] /\ heap'[d] = heap[d]
      /\ \A d \in Builders : builder'[d].orig = builder[d].orig
                             /\ builder'[d].ref = builder[d].ref
                             /\ (builder'[d] # Free <=> builder[d] # Free)
  BY DEF JInv, Changed
<1>2. AllSettled'
  <2>1. ASSUME NEW v \in Values, value[v] # Free
        PROVE  Settled(value[v], builder', heap')
    BY <1>1, <2>1, ValuesShare, SettledStays DEF JInv, AllSettled
  <2>2. ASSUME NEW d \in Builders, builder[d] # Free
        PROVE  Settled(builder[d].orig, builder', heap')
    BY <1>1, <2>2, ValuesShare, SettledStays DEF JInv, AllSettled
  <2> QED BY <1>1, <2>1, <2>2 DEF AllSettled
<1>3. HeapAsked'
  BY <1>1 DEF HeapAsked, JInv, Changed, Fits
<1>4. ASSUME NEW d \in Builders, builder'[d] # Free, builder'[d].ref # NoRef
      PROVE  /\ builder[d].ref = d /\ Wip(d) = heap[d] /\ Wip(d)' = heap'[d]
             /\ Refining(d)' <=> Refining(d)
             /\ TypeOf(d)' = TypeOf(d)
             /\ CandidatesOf(d)' = Candidates(TypeOf(d), heap'[d])
             /\ CandidatesOf(d) = Candidates(TypeOf(d), heap[d])
             /\ CandidatesOf(d)' \subseteq CandidatesOf(d)
  <2>1. builder[d] # Free /\ builder[d].ref # NoRef
    BY <1>1, <1>4
  <2>2. builder[d].ref = d /\ Wip(d) = heap[d]
    BY <1>1, <2>1, WipFacts
  <2>3. Wip(d)' = heap'[d]
    BY <1>1, <2>2 DEF Wip
  <2>4. (Refining(d)' <=> Refining(d)) /\ TypeOf(d)' = TypeOf(d)
    BY <1>1, <1>4, <2>1 DEF Refining, InUse, TypeOf
  <2>5. /\ CandidatesOf(d)' = Candidates(TypeOf(d), heap'[d])
        /\ CandidatesOf(d) = Candidates(TypeOf(d), heap[d])
    BY <2>2, <2>3, <2>4 DEF CandidatesOf
  <2>6. Candidates(TypeOf(d), heap'[d]) \subseteq Candidates(TypeOf(d), heap[d])
    BY <1>1 DEF Changed, Fits
  <2> QED BY <2>2, <2>3, <2>4, <2>5, <2>6
<1>5. Inhabited'
  <2> SUFFICES ASSUME NEW d \in Builders, Refining(d)', builder'[d].status # "panicked"
               PROVE  CandidatesOf(d)' # {}
    BY DEF Inhabited
  <2>1. builder'[d] # Free /\ builder'[d].ref # NoRef
    BY DEF Refining, InUse
  <2>2. Refining(d)
    BY <1>4, <2>1
  <2>3. CASE d # b
    BY <1>1, <1>4, <2>1, <2>2, <2>3 DEF JInv, Inhabited
  <2>4. CASE d = b
    <3>1. CandidatesOf(b) # {}
      BY <1>1, <2>2, <2>4 DEF JInv, Inhabited
    <3> QED BY <1>4, <2>1, <2>2, <2>4, <3>1 DEF Changed
  <2> QED BY <2>3, <2>4
<1>6. Inherits'
  <2> SUFFICES ASSUME NEW d \in Builders, Refining(d)', HasRef(builder'[d].orig)
               PROVE  CandidatesOf(d)' \subseteq
                        Candidates(TypeOf(d)', heap'[builder'[d].orig.ref])
    BY DEF Inherits, HasRef
  <2>1. builder'[d] # Free /\ builder'[d].ref # NoRef
    BY DEF Refining, InUse
  <2>2. Refining(d) /\ builder[d] # Free /\ HasRef(builder[d].orig)
    BY <1>1, <1>4, <2>1
  <2> DEFINE at == builder[d].orig.ref
  <2>3. at \in Builders /\ builder[at].status = "done"
    BY <1>1, <2>2, ValuesShare, OwnerFacts DEF JInv, AllSettled, Settled
  <2>4. heap'[at] = heap[at] /\ builder'[d].orig.ref = at
    BY <1>1, <2>3
  <2>5. CandidatesOf(d) \subseteq Candidates(TypeOf(d), heap[at])
    BY <2>2 DEF JInv, Inherits
  <2> QED BY <1>4, <2>1, <2>4, <2>5
<1> QED BY <1>2, <1>3, <1>5, <1>6 DEF JInv

LEMMA FreshAllowsAll ==
  ASSUME NEW ty \in Types, UniverseIsRich
  PROVE  /\ Asked(Fresh(ty)) /\ \A c \in NonNull(ty) : Allows(Fresh(ty), c)
         /\ NonNull(ty) # {}
<1>1. CASE KindOf(ty) = "number"
  <2>1. /\ Fresh(ty).kind = "number" /\ Fresh(ty).min = NilVal /\ Fresh(ty).max = NilVal
        /\ NonNull(ty) = Numbers
    BY <1>1, KindGivesUniverse DEF Fresh
  <2> QED BY <2>1, NumbersAssumption
         DEF NumbersAssumption, Asked, Allows, AboveMin, BelowMax
<1>2. CASE KindOf(ty) = "string"
  <2>1. /\ Fresh(ty).kind = "string" /\ Fresh(ty).prefix = << >> /\ NonNull(ty) = Strings
    BY <1>2, KindGivesUniverse DEF Fresh
  <2>2. ASSUME NEW s \in Strings PROVE HasPrefix(s, << >>)
    <3>1. Len(s) \in Nat
      BY StringsAssumption DEF StringsAssumption
    <3> QED BY <3>1 DEF HasPrefix
  <2> QED BY <2>1, <2>2 DEF UniverseIsRich, Asked, Allows
<1>3. CASE KindOf(ty) = "collection"
  <2>1. /\ Fresh(ty).kind = "collection" /\ Fresh(ty).minLen = 0
        /\ Fresh(ty).maxLen = MaxInt
    BY <1>3 DEF Fresh
  <2>2. NonNull(ty) = 0 .. MaxInt
    BY <1>3 DEF KindOf, Types, CollectionTypes, NonNull
  <2> QED BY <2>1, <2>2, LengthsAssumption DEF LengthsAssumption, Asked, Allows
<1>4. CASE KindOf(ty) = "nullable"
  <2>1. Fresh(ty).kind = "nullable"
    BY <1>4 DEF Fresh
  <2>2. NonNull(ty) = {Some}
    BY <1>4 DEF KindOf, Types, CollectionTypes, NonNull
  <2> QED BY <2>1, <2>2 DEF Asked, Allows
<1> QED BY <1>1, <1>2, <1>3, <1>4 DEF Types, KindOf, CollectionTypes

(* What Refine does, the representation of its builder aside.              *)
Refined(b, x) ==
  /\ builder[b] = Free /\ value' = value
  /\ \A d \in Builders : d # b => builder'[d] = builder[d] /\ heap'[d] = heap[d]
  /\ builder'[b] # Free /\ builder'[b].status = "open" /\ builder'[b].marks = x.marks
  /\ builder'[b].orig.ty = x.ty /\ builder'[b].orig.known = x.known
  /\ IF x.known THEN builder'[b].orig.c = x.c ELSE builder'[b].orig.ref = x.ref
  /\ builder'[b].ref = IF IsDynamicVal(x) THEN NoRef ELSE b
  /\ IF IsDynamicVal(x) THEN heap'[b] = heap[b]
     ELSE heap'[b] = IF HasRef(x) THEN heap[x.ref] ELSE Fresh(x.ty)

LEMMA RefineRefines ==
  ASSUME IInv, NEW b \in Builders, NEW v \in Values, Refine(b, v)
  PROVE  /\ value[v] # Free /\ IsValue(value[v]) /\ Shares(value[v], builder)
         /\ Refined(b, value[v])
<1> DEFINE x == value[v]
           o == [x EXCEPT !.marks = {}]
           y == [orig |-> o, marks |-> x.marks, ref |-> RefineRef(b, x), status |-> "open"]
           h == IF ~x.known /\ x.ref # NoRef THEN heap[x.ref] ELSE Fresh(x.ty)
<1>1. x # Free /\ IsValue(x) /\ Shares(x, builder) /\ builder[b] = Free /\ value' = value
  BY DEF Refine, IInv, TypeOK, RefsOK
<1>2. /\ IsValue(o) /\ o.ty = x.ty /\ o.known = x.known
      /\ IF x.known THEN o.c = x.c ELSE o.ref = x.ref
  BY <1>1 DEF IsValue, KnownValue, UnknownValue
<1>3. \A d \in Builders : builder'[d] = IF d = b THEN y ELSE builder[d]
  BY DEF Refine, IInv, TypeOK
<1>4. builder'[b] = y /\ \A d \in Builders : d # b => builder'[d] = builder[d]
  BY <1>3
<1>5. IsBuilder(builder'[b])
  <2>1. IInv'
    BY RefineKeepsIInv
  <2>2. builder'[b] = Free => FALSE
    <3>1. RefineRef(b, x) \in Builders \cup {NoRef} /\ x.marks \in SUBSET Marks
      BY <1>1 DEF RefineRef, IsValue, KnownValue, UnknownValue
    <3> HIDE DEF o
    <3>2. IsBuilder(y)
      BY <1>2, <3>1 DEF IsBuilder, Status
    <3> QED BY <1>4, <3>2, BuilderNotFree
  <2> QED BY <2>1, <2>2 DEF IInv, TypeOK
<1>6. builder'[b] # Free
  BY <1>5, BuilderNotFree
<1>7. IF IsDynamicVal(x) THEN heap' = heap ELSE heap' = [heap EXCEPT ![b] = h]
  BY DEF Refine, RefineRef
<1> HIDE DEF h, o
<1>8. /\ \A d \in Builders : d # b => heap'[d] = heap[d]
      /\ IF IsDynamicVal(x) THEN heap'[b] = heap[b] ELSE heap'[b] = h
  BY <1>7 DEF IInv, TypeOK
<1>9. y.ref = (IF IsDynamicVal(x) THEN NoRef ELSE b) /\ y.orig = o
      /\ y.marks = x.marks /\ y.status = "open"
  BY DEF RefineRef
<1> HIDE DEF y
<1>10. h = IF HasRef(x) THEN heap[x.ref] ELSE Fresh(x.ty)
  BY DEF h, HasRef
<1> HIDE DEF x
<1>11. Refined(b, x)
  BY <1>1, <1>2, <1>4, <1>6, <1>8, <1>9, <1>10 DEF Refined
<1> QED BY <1>1, <1>11 DEF x

(* A builder of which nothing changes keeps its candidates.                *)
LEMMA OthersStay ==
  ASSUME IInv, NEW d \in Builders, builder'[d] = builder[d], heap'[d] = heap[d],
         builder'[d] # Free
  PROVE  /\ Refining(d)' <=> Refining(d)
         /\ TypeOf(d)' = TypeOf(d)
         /\ Refining(d) => CandidatesOf(d)' = CandidatesOf(d)
<1>1. (Refining(d)' <=> Refining(d)) /\ TypeOf(d)' = TypeOf(d) /\ builder[d] # Free
  BY DEF Refining, InUse, TypeOf
<1>2. ASSUME Refining(d)
      PROVE  CandidatesOf(d)' = CandidatesOf(d)
  <2>1. builder[d].ref = d
    BY <1>2, WipFacts DEF Refining, InUse
  <2>2. Wip(d)' = Wip(d)
    BY <2>1 DEF Wip
  <2> QED BY <1>1, <2>2 DEF CandidatesOf, Candidates
<1> QED BY <1>1, <1>2

LEMMA RefineKeepsJInv ==
  ASSUME UniverseIsRich, JInv, IInv', NEW b \in Builders, NEW v \in Values, Refine(b, v)
  PROVE  JInv'
<1> DEFINE x == value[v]
<1>1. /\ IInv /\ x # Free /\ IsValue(x) /\ Shares(x, builder) /\ Refined(b, x)
      /\ Settled(x, builder, heap) /\ x.ty \in Types
  BY RefineRefines DEF JInv, AllSettled, IsValue
<1> HIDE DEF x
<1>2. /\ builder[b] = Free /\ value' = value
      /\ \A d \in Builders : d # b => builder'[d] = builder[d] /\ heap'[d] = heap[d]
  BY <1>1 DEF Refined
<1>3. HasRef(x) =>
        /\ x.ref \in Builders /\ x.ref # b /\ Refining(x.ref) /\ TypeOf(x.ref) = x.ty
        /\ builder[x.ref].status = "done" /\ Wip(x.ref) = heap[x.ref]
        /\ heap[x.ref] # Free /\ heap'[x.ref] = heap[x.ref]
        /\ CandidatesOf(x.ref) = Candidates(x.ty, heap[x.ref])
  <2> SUFFICES ASSUME HasRef(x)
               PROVE  /\ x.ref \in Builders /\ x.ref # b /\ Refining(x.ref)
                      /\ TypeOf(x.ref) = x.ty
                      /\ builder[x.ref].status = "done" /\ Wip(x.ref) = heap[x.ref]
                      /\ heap[x.ref] # Free /\ heap'[x.ref] = heap[x.ref]
                      /\ CandidatesOf(x.ref) = Candidates(x.ty, heap[x.ref])
    OBVIOUS
  <2>1. /\ x.ref \in Builders /\ builder[x.ref] # Free /\ InUse(x.ref)
        /\ TypeOf(x.ref) = x.ty /\ Wip(x.ref) = heap[x.ref]
    BY <1>1, OwnerFacts
  <2>2. builder[x.ref].status = "done" /\ Refining(x.ref) /\ x.ref # b
    BY <1>1, <1>2, <2>1 DEF Settled, Refining
  <2>3. heap[x.ref] # Free
    BY <1>1, <2>1 DEF IInv, RefsOK, BuilderOK, InUse, Wip
  <2> QED BY <1>2, <2>1, <2>2, <2>3 DEF CandidatesOf
<1>4. AllSettled'
  <2>1. ASSUME NEW z, IsValue(z), Shares(z, builder), Settled(z, builder, heap)
        PROVE  Settled(z, builder', heap')
    BY <1>1, <1>2, <2>1, SettledStays
  <2>2. \A u \in Values : value[u] # Free => Settled(value[u], builder', heap')
    BY <1>1, <2>1, ValuesShare DEF JInv, AllSettled
  <2>3. ASSUME NEW d \in Builders, builder'[d] # Free
        PROVE  Settled(builder'[d].orig, builder', heap')
    <3>1. CASE d = b
      BY <1>1, <2>1, <3>1 DEF Refined, Settled, HasRef
    <3>2. CASE d # b
      BY <1>1, <1>2, <2>1, <2>3, <3>2, ValuesShare DEF JInv, AllSettled
    <3> QED BY <3>1, <3>2
  <2> QED BY <1>2, <2>2, <2>3 DEF AllSettled
<1>5. HeapAsked'
  BY <1>1, <1>2, <1>3, FreshAllowsAll DEF HeapAsked, JInv, Refined
<1>6. ASSUME NEW d \in Builders, d # b, Refining(d)'
      PROVE  /\ Refining(d) /\ builder'[d] = builder[d] /\ TypeOf(d)' = TypeOf(d)
             /\ CandidatesOf(d)' = CandidatesOf(d)
  BY <1>1, <1>2, <1>6, OthersStay DEF Refining, InUse
<1>7. ASSUME Refining(b)'
      PROVE  /\ ~x.known /\ TypeOf(b)' = x.ty
             /\ CandidatesOf(b)' = Candidates(x.ty, heap'[b])
             /\ heap'[b] = IF HasRef(x) THEN heap[x.ref] ELSE Fresh(x.ty)
             /\ builder'[b].orig.ref = x.ref
  <2>1. builder'[b].ref = b /\ ~x.known /\ ~IsDynamicVal(x)
    BY <1>1, <1>7 DEF Refined, Refining, InUse
  <2>2. TypeOf(b)' = x.ty /\ Wip(b)' = heap'[b]
    BY <1>1, <2>1 DEF Refined, TypeOf, Wip
  <2> QED BY <1>1, <2>1, <2>2 DEF Refined, CandidatesOf, Candidates
<1>8. Inhabited'
  <2> SUFFICES ASSUME NEW d \in Builders, Refining(d)', builder'[d].status # "panicked"
               PROVE  CandidatesOf(d)' # {}
    BY DEF Inhabited
  <2>1. CASE d # b
    BY <1>6, <2>1 DEF JInv, Inhabited
  <2>2. CASE d = b /\ HasRef(x)
    BY <1>3, <1>7, <2>2 DEF JInv, Inhabited
  <2>3. CASE d = b /\ ~HasRef(x)
    <3>1. CandidatesOf(b)' = Candidates(x.ty, Fresh(x.ty))
      BY <1>7, <2>3
    <3> QED BY <1>1, <2>3, <3>1, FreshAllowsAll DEF Candidates
  <2> QED BY <2>1, <2>2, <2>3
<1>9. Inherits'
  <2> SUFFICES ASSUME NEW d \in Builders, Refining(d)', HasRef(builder'[d].orig)
               PROVE  CandidatesOf(d)' \subseteq
                        Candidates(TypeOf(d)', heap'[builder'[d].orig.ref])
    BY DEF Inherits, HasRef
  <2>1. CASE d # b
    <3> DEFINE at == builder[d].orig.ref
    <3>1. /\ Refining(d) /\ builder'[d] = builder[d] /\ TypeOf(d)' = TypeOf(d)
          /\ CandidatesOf(d)' = CandidatesOf(d) /\ builder[d] # Free
      BY <1>6, <2>1 DEF Refining, InUse
    <3>2. at \in Builders /\ builder[at] # Free
      BY <1>1, <3>1, ValuesShare, OwnerFacts
    <3>3. heap'[at] = heap[at]
      BY <1>2, <3>2
    <3>4. CandidatesOf(d) \subseteq Candidates(TypeOf(d), heap[at])
      BY <3>1 DEF JInv, Inherits
    <3> QED BY <3>1, <3>3, <3>4
  <2>2. CASE d = b
    <3>1. ~x.known /\ builder'[b].orig.ref = x.ref /\ TypeOf(b)' = x.ty
          /\ CandidatesOf(b)' = Candidates(x.ty, heap'[b])
      BY <1>7, <2>2
    <3>2. HasRef(x)
      BY <2>2, <3>1 DEF HasRef
    <3>3. heap'[b] = heap'[x.ref]
      BY <1>3, <1>7, <2>2, <3>2
    <3> QED BY <2>2, <3>1, <3>3
  <2> QED BY <2>1, <2>2
<1> QED BY <1>4, <1>5, <1>8, <1>9 DEF JInv

(* A returned value with an object has its builder's, not down to null.    *)
LEMMA ResultObject ==
  ASSUME IInv, NEW b \in Builders, builder[b] # Free, HasRef(Result(b))
  PROVE  /\ Result(b).ref = b /\ ~builder[b].orig.known /\ heap[b].null # "T"
         /\ builder[b].ref = b /\ b # NoRef
<1> DEFINE o == builder[b].orig
<1>1. ~Result(b).known /\ Result(b).ref # NoRef /\ Result(b).ref = builder[b].ref
  BY ResultIsValue DEF HasRef
<1>2. builder[b].ref = b /\ Wip(b) = heap[b] /\ builder[b].ref = RefineRef(b, o)
  BY <1>1, WipFacts DEF IInv, RefsOK, BuilderOK
<1>3. ~IsDynamicVal(o)
  BY <1>1, <1>2 DEF RefineRef
<1>4. ~o.known
  <2>1. CASE o.known
    <3>1. Result(b) = [o EXCEPT !.marks = builder[b].marks] /\ IsValue(o)
      BY <2>1, ValuesShare DEF Result
    <3>2. Result(b).known = o.known
      BY <3>1 DEF IsValue, KnownValue, UnknownValue
    <3> QED BY <1>1, <2>1, <3>2
  <2> QED BY <2>1
<1>5. CASE Wip(b).null = "T"
  BY <1>1, <1>3, <1>4, <1>5 DEF Result, Known
<1> QED BY <1>1, <1>2, <1>4, <1>5

LEMMA NewValueKeepsJInv ==
  ASSUME JInv, IInv', ReuseBuilder = FALSE, NEW b \in Builders, NEW v \in Values,
         NewValue(b, v)
  PROVE  JInv'
<1>1. /\ IInv /\ builder[b] # Free /\ builder[b].status = "open" /\ heap' = heap
      /\ builder' = [builder EXCEPT ![b].status = "done"]
      /\ value' = [value EXCEPT ![v] = Result(b)]
  BY DEF NewValue, Callable, JInv
<1> DEFINE y == [builder[b] EXCEPT !.status = "done"]
<1>2. /\ y # Free /\ y.status = "done" /\ y.orig = builder[b].orig /\ y.ref = builder[b].ref
  <2>1. IsBuilder(builder[b])
    BY <1>1 DEF IInv, TypeOK
  <2>2. IsBuilder(y) /\ y.orig = builder[b].orig /\ y.ref = builder[b].ref /\ y.status = "done"
    BY <2>1 DEF IsBuilder, Status
  <2> QED BY <2>2, BuilderNotFree
<1>3. builder'[b] = y /\ \A d \in Builders : d # b => builder'[d] = builder[d]
  BY <1>1 DEF IInv, TypeOK
<1> HIDE DEF y
<1>4. \A d \in Builders :
        /\ builder'[d] # Free <=> builder[d] # Free
        /\ builder'[d].orig = builder[d].orig /\ builder'[d].ref = builder[d].ref
        /\ builder[d].status = "done" => builder'[d].status = "done"
        /\ builder'[d].status # "panicked" => builder[d].status # "panicked"
  BY <1>1, <1>2, <1>3
<1>5. \A d \in Builders : builder[d] # Free =>
        /\ Refining(d)' <=> Refining(d)
        /\ TypeOf(d)' = TypeOf(d)
        /\ CandidatesOf(d)' = CandidatesOf(d)
  BY <1>1, <1>4 DEF Refining, InUse, TypeOf, CandidatesOf, Wip
<1>6. AllSettled'
  <2>1. ASSUME NEW z, IsValue(z), Shares(z, builder), Settled(z, builder, heap)
        PROVE  Settled(z, builder', heap')
    <3>1. HasRef(z) => z.ref \in Builders
      BY <1>1, <2>1, OwnerFacts
    <3> QED BY <1>1, <1>4, <2>1, <3>1 DEF Settled
  <2>2. Settled(Result(b), builder', heap')
    BY <1>1, <1>2, <1>3, ResultObject DEF Settled
  <2>3. \A u \in Values : value'[u] = IF u = v THEN Result(b) ELSE value[u]
    BY <1>1 DEF IInv, TypeOK
  <2>4. ASSUME NEW u \in Values, value'[u] # Free
        PROVE  Settled(value'[u], builder', heap')
    <3>1. CASE u = v
      BY <2>2, <2>3, <3>1
    <3>2. CASE u # v
      BY <1>1, <2>1, <2>3, <2>4, <3>2, ValuesShare DEF JInv, AllSettled
    <3> QED BY <3>1, <3>2
  <2>5. ASSUME NEW d \in Builders, builder'[d] # Free
        PROVE  Settled(builder'[d].orig, builder', heap')
    BY <1>1, <1>4, <2>1, <2>5, ValuesShare DEF JInv, AllSettled
  <2> QED BY <2>4, <2>5 DEF AllSettled
<1>7. HeapAsked'
  BY <1>1 DEF HeapAsked, JInv
<1>8. Inhabited'
  BY <1>4, <1>5 DEF JInv, Inhabited, Refining, InUse
<1>9. Inherits'
  BY <1>1, <1>4, <1>5 DEF JInv, Inherits, Refining, InUse
<1> QED BY <1>6, <1>7, <1>8, <1>9 DEF JInv

LEMMA InitJInv == Init => JInv
<1> SUFFICES ASSUME Init PROVE JInv
  OBVIOUS
<1>1. PICK x \in InitialValues :
        value = [v \in Values |-> IF v = Root THEN x ELSE Free]
  BY DEF Init
<1>2. ~x.known => x.ref = NoRef
  BY ProgramAssumption DEF ProgramAssumption
<1>3. \A b \in Builders : builder[b] = Free /\ heap[b] = Free
  BY DEF Init
<1>4. IInv
  BY InitIInv
<1> QED BY <1>1, <1>2, <1>3, <1>4
       DEF JInv, AllSettled, Settled, HasRef, HeapAsked, Inhabited, Inherits, Refining, InUse

LEMMA NextKeepsJInv ==
  ASSUME UniverseIsRich, ReuseBuilder = FALSE, JInv, [Next]_vars
  PROVE  JInv'
<1>1. IInv'
  BY NextKeepsIInv DEF JInv
<1>2. CASE UNCHANGED vars
  <2>1. value' = value /\ builder' = builder /\ heap' = heap
    BY <1>2 DEF vars
  <2> QED BY <1>1, <2>1 DEF JInv, AllSettled, HeapAsked, Inhabited, Inherits, Refining, InUse,
             CandidatesOf, TypeOf, Wip
<1>3. CASE Next
  <2>1. PICK b \in Builders :
          \/ \E v \in Values : Refine(b, v) \/ NewValue(b, v)
          \/ \E C : Outcome(b, C)
    BY <1>3, StepOutcomes
  <2>2. CASE \E v \in Values : Refine(b, v)
    BY <1>1, <2>2, RefineKeepsJInv
  <2>3. CASE \E v \in Values : NewValue(b, v)
    BY <1>1, <2>3, NewValueKeepsJInv
  <2>4. CASE \E C : Outcome(b, C)
    BY <1>1, <2>4, OutcomeChanges, OutcomeKeepsJInv
  <2> QED BY <2>1, <2>2, <2>3, <2>4
<1> QED BY <1>2, <1>3

LEMMA SpecJInv ==
  ASSUME UniverseIsRich, ReuseBuilder = FALSE
  PROVE  Spec => []JInv
<1>1. JInv /\ [Next]_vars => JInv'
  BY NextKeepsJInv
<1> QED BY <1>1, InitJInv, PTL DEF Spec

----------------------------------------------------------------------------
(* CallsNarrowExactly.                                                     *)

LEMMA ChangedNarrows ==
  ASSUME JInv, NEW b \in Builders, NEW C, Changed(b, C), Refining(b)
  PROVE  NarrowsBy(b, C)
<1>1. /\ builder[b] # Free /\ builder[b].ref = b /\ b # NoRef
      /\ builder[b].status = "open" /\ builder'[b].ref = b
  BY WipFacts DEF JInv, Refining, InUse, Changed
<1>2. Wip(b) = heap[b] /\ Wip(b)' = heap'[b]
  BY <1>1 DEF Wip
<1>3. CandidatesOf(b) = Candidates(TypeOf(b), heap[b]) /\ CandidatesOf(b) # {}
  BY <1>1, <1>2 DEF CandidatesOf, JInv, Inhabited
<1>4. CASE heap'[b] = heap[b] /\ builder'[b].status = "open" /\ CandidatesOf(b) \subseteq C
  <2>1. Candidates(TypeOf(b), Wip(b)') = CandidatesOf(b)
    BY <1>2, <1>3, <1>4
  <2> QED BY <1>3, <1>4, <2>1 DEF NarrowsBy
<1>5. CASE builder'[b].status = "panicked" /\ CandidatesOf(b) \cap C = {}
  BY <1>5 DEF NarrowsBy
<1>6. CASE /\ Candidates(TypeOf(b), heap'[b]) = CandidatesOf(b) \cap C
           /\ builder'[b].status \in {"open", "panicked"}
           /\ builder'[b].status = "open" <=> Candidates(TypeOf(b), heap'[b]) # {}
  BY <1>2, <1>6 DEF NarrowsBy
<1> QED BY <1>3, <1>4, <1>5, <1>6 DEF Changed, Fits

(* The constraint that a program asks for is the one it gets, for every    *)
(* unknown value, every set of bounds, lengths and prefixes, and calls in  *)
(* every order.                                                            *)
THEOREM CallsAreExact ==
  ASSUME UniverseIsRich, ReuseBuilder = FALSE
  PROVE  Spec => CallsNarrowExactly
<1> DEFINE Exact ==
      \A b \in Builders : NumberCallNarrows(b) /\ LengthCallNarrows(b) /\ PrefixCallNarrows(b)
<1>1. ASSUME JInv, NEW b \in Builders, NEW a \in NumberArgs,
             Narrowable(b, "number"), a[1] \in Numbers
      PROVE  /\ NumberRangeLowerBound(b, a[1], a[2]) => NarrowsBy(b, AtLeast(a[1], a[2]))
             /\ NumberRangeUpperBound(b, a[1], a[2]) => NarrowsBy(b, AtMost(a[1], a[2]))
  <2>1. Refining(b) /\ builder[b].ref # NoRef /\ Wip(b).kind = "number"
    BY <1>1 DEF Narrowable, Refining, InUse
  <2>2. a[1] # UnknownArg /\ a[1] # Null
    BY <1>1, ProgramAssumption, NumbersAssumption, NullAssumption
    DEF ProgramAssumption, NumbersAssumption, NullAssumption
  <2>3. ASSUME NumberRangeLowerBound(b, a[1], a[2])
        PROVE  NarrowsBy(b, AtLeast(a[1], a[2]))
    <3>1. Callable(b) /\ Refineable(b, "number") /\ SetMin(b, a[1], a[2])
      BY <2>1, <2>2, <2>3 DEF NumberRangeLowerBound, Ignored, WrongKind, BadNumberArg
    <3> QED BY <1>1, <2>1, <3>1, SetMinOutcome, OutcomeChanges, ChangedNarrows
  <2>4. ASSUME NumberRangeUpperBound(b, a[1], a[2])
        PROVE  NarrowsBy(b, AtMost(a[1], a[2]))
    <3>1. Callable(b) /\ Refineable(b, "number") /\ SetMax(b, a[1], a[2])
      BY <2>1, <2>2, <2>4 DEF NumberRangeUpperBound, Ignored, WrongKind, BadNumberArg
    <3> QED BY <1>1, <2>1, <3>1, SetMaxOutcome, OutcomeChanges, ChangedNarrows
  <2> QED BY <2>3, <2>4
<1>2. ASSUME JInv, NEW b \in Builders, NEW n \in LengthArgs, Narrowable(b, "collection")
      PROVE  /\ CollectionLengthLowerBound(b, n) =>
                  NarrowsBy(b, {c \in 0 .. MaxInt : c >= n})
             /\ CollectionLengthUpperBound(b, n) =>
                  NarrowsBy(b, {c \in 0 .. MaxInt : c <= n})
  <2>1. Refining(b) /\ builder[b].ref # NoRef /\ Wip(b).kind = "collection" /\ n \in Int
    BY <1>2, ProgramAssumption DEF Narrowable, Refining, InUse, ProgramAssumption
  <2>2. ASSUME CollectionLengthLowerBound(b, n)
        PROVE  NarrowsBy(b, {c \in 0 .. MaxInt : c >= n})
    <3>1. Callable(b) /\ Refineable(b, "collection") /\ SetMinLen(b, n)
      BY <2>1, <2>2 DEF CollectionLengthLowerBound, Ignored, WrongKind
    <3>2. Outcome(b, {c \in 0 .. MaxInt : c >= n})
      BY <1>2, <2>1, <3>1, SetMinLenOutcome
    <3> QED BY <1>2, <2>1, <3>2, OutcomeChanges, ChangedNarrows
  <2>3. ASSUME CollectionLengthUpperBound(b, n)
        PROVE  NarrowsBy(b, {c \in 0 .. MaxInt : c <= n})
    <3>1. Callable(b) /\ Refineable(b, "collection") /\ SetMaxLen(b, n)
      BY <2>1, <2>3 DEF CollectionLengthUpperBound, Ignored, WrongKind
    <3>2. Outcome(b, {c \in 0 .. MaxInt : c <= n})
      BY <1>2, <2>1, <3>1, SetMaxLenOutcome
    <3> QED BY <1>2, <2>1, <3>2, OutcomeChanges, ChangedNarrows
  <2> QED BY <2>2, <2>3
<1>3. ASSUME JInv, NEW b \in Builders, NEW p \in PrefixArgs, Narrowable(b, "string"),
             StringPrefixFull(b, p)
      PROVE  NarrowsBy(b, {c \in Strings : HasPrefix(c, p)})
  <2>1. Refining(b) /\ builder[b].ref # NoRef /\ Wip(b).kind = "string"
    BY <1>3 DEF Narrowable, Refining, InUse
  <2>2. Callable(b) /\ Refineable(b, "string") /\ SetPrefix(b, p)
    BY <1>3, <2>1 DEF StringPrefixFull, Ignored, WrongKind
  <2>3. Outcome(b, {c \in Strings : HasPrefix(c, p)})
    BY <1>3, <2>2, SetPrefixOutcome DEF UniverseIsRich
  <2> QED BY <1>3, <2>1, <2>3, OutcomeChanges, ChangedNarrows
<1>4. JInv => Exact
  BY <1>1, <1>2, <1>3 DEF NumberCallNarrows, LengthCallNarrows, PrefixCallNarrows
<1> QED BY <1>4, SpecJInv, PTL DEF CallsNarrowExactly

----------------------------------------------------------------------------
(* ValuesMeetAssertions.                                                   *)

(* A known value that is compared with what its builders assert.           *)
Asserted(b) == InUse(b) /\ builder[b].orig.known /\ builder[b].orig.c # Null

Meets(b, w) == Agrees(w, builder[b].orig.c) /\ w.null # "T"

(* What a call on such a builder may do. *)
Asserts(b) ==
  /\ Callable(b)
  /\ \/ UNCHANGED vars
     \/ Panic(b)
     \/ /\ builder[b].ref # NoRef
        /\ \E w, ok : /\ Store(b, w, ok)
                      /\ Asserted(b) /\ Meets(b, Wip(b)) => Meets(b, w)

(* The concrete value of a known original is in the universe of its type.  *)
LEMMA AssertedFacts ==
  ASSUME IInv, NEW b \in Builders, Asserted(b)
  PROVE  builder[b].orig.c \in NonNull(TypeOf(b)) /\ TypeOf(b) # "dynamic"
BY DEF Asserted, InUse, IInv, TypeOK, IsBuilder, IsValue, KnownValue, UnknownValue, TypeOf

(* The non-null values of a type agree with a refinement object of another *)
(* kind than a string's when it allows them.                               *)
LEMMA AgreesAllows ==
  ASSUME NEW r, NEW c, r.kind # "string"
  PROVE  Agrees(r, c) <=> Allows(r, c)
BY DEF Agrees

LEMMA NumberAssertions ==
  ASSUME UniverseIsRich, JInv, NEW b \in Builders, NEW a \in NumberArgs,
         Callable(b), Refineable(b, "number"),
         SetMin(b, a[1], a[2]) \/ SetMax(b, a[1], a[2])
  PROVE  Asserts(b)
<1> DEFINE n == a[1]
           inc == a[2]
           r == Wip(b)
           o == builder[b].orig
           min == WithMin(r, n, inc)
           max == WithMax(r, n, inc)
<1>1. /\ n \in Numbers /\ n \in Int /\ inc \in BOOLEAN
      /\ n \in {NegInf, PosInf} => inc
  BY NumberArgFacts, NumbersAssumption DEF SetMin, SetMax, NumbersAssumption
<1>2. /\ r \in RefinementNumber /\ NonNull(TypeOf(b)) = Numbers /\ builder[b].ref # NoRef /\ IInv
  BY ObjectFacts, KindDecides, KindGivesUniverse DEF JInv
<1>3. Asserted(b) => o.c \in Numbers /\ o.c \in Int /\ o.known /\ o.c # Null
  BY <1>2, AssertedFacts, NumbersAssumption DEF NumbersAssumption, Asserted
<1> HIDE DEF n, inc
<1>4. CASE UNCHANGED vars \/ Panic(b)
  BY <1>4 DEF Asserts
<1>5. CASE /\ ~MinContradicts(o, n, inc) /\ ~KeepsMin(r, n, inc)
           /\ Store(b, min, ConsistentBounds(min))
  <2>1. Asserted(b) => o.c \in AtLeast(n, inc)
    BY <1>1, <1>3, <1>5 DEF MinContradicts, AtLeast
  <2>2. /\ min.null = r.null
        /\ {c \in Numbers : Allows(min, c)} = {c \in Numbers : Allows(r, c)} \cap AtLeast(n, inc)
    BY <1>1, <1>2, <1>5, MinIsExact, WithMinNarrows
  <2>3. r.kind # "string" /\ min.kind = r.kind
    BY <1>1, <1>2 DEF WithMin, RefinementNumber
  <2> HIDE DEF min
  <2>4. Asserted(b) /\ Meets(b, r) => Meets(b, min)
    BY <1>3, <2>1, <2>2, <2>3, AgreesAllows DEF Meets
  <2> QED BY <1>2, <1>5, <2>4 DEF Asserts
<1>6. CASE /\ ~MaxContradicts(o, n, inc) /\ ~KeepsMax(r, n, inc)
           /\ Store(b, max, ConsistentBounds(max))
  <2>1. Asserted(b) => o.c \in AtMost(n, inc)
    BY <1>1, <1>3, <1>6 DEF MaxContradicts, AtMost
  <2>2. /\ max.null = r.null
        /\ {c \in Numbers : Allows(max, c)} = {c \in Numbers : Allows(r, c)} \cap AtMost(n, inc)
    BY <1>1, <1>2, <1>6, MaxIsExact, WithMaxNarrows
  <2>3. r.kind # "string" /\ max.kind = r.kind
    BY <1>1, <1>2 DEF WithMax, RefinementNumber
  <2> HIDE DEF max
  <2>4. Asserted(b) /\ Meets(b, r) => Meets(b, max)
    BY <1>3, <2>1, <2>2, <2>3, AgreesAllows DEF Meets
  <2> QED BY <1>2, <1>6, <2>4 DEF Asserts
<1>7. \/ UNCHANGED vars \/ Panic(b)
      \/ /\ ~MinContradicts(o, n, inc) /\ ~KeepsMin(r, n, inc)
         /\ Store(b, min, ConsistentBounds(min))
      \/ /\ ~MaxContradicts(o, n, inc) /\ ~KeepsMax(r, n, inc)
         /\ Store(b, max, ConsistentBounds(max))
  BY DEF SetMin, SetMax, n, inc
<1> HIDE DEF min, max
<1> QED BY <1>4, <1>5, <1>6, <1>7

LEMMA LengthAssertions ==
  ASSUME JInv, NEW b \in Builders, NEW n \in Int,
         Callable(b), Refineable(b, "collection"), SetMinLen(b, n) \/ SetMaxLen(b, n)
  PROVE  Asserts(b)
<1> DEFINE r == Wip(b)
           o == builder[b].orig
           min == WithMinLen(r, n)
           max == WithMaxLen(r, n)
<1>1. /\ r \in RefinementCollection /\ builder[b].ref # NoRef /\ IInv
      /\ TypeOf(b) \in Types /\ KindOf(TypeOf(b)) = "collection"
  BY ObjectFacts, KindDecides DEF JInv
<1>2. NonNull(TypeOf(b)) = 0 .. MaxInt
  BY <1>1 DEF KindOf, NonNull, Types, CollectionTypes
<1>3. Asserted(b) => o.c \in 0 .. MaxInt /\ o.c \in Int /\ o.known /\ o.c # Null
  BY <1>1, <1>2, AssertedFacts, LengthsAssumption DEF LengthsAssumption, Asserted
<1>4. CASE UNCHANGED vars \/ Panic(b)
  BY <1>4 DEF Asserts
<1>5. CASE /\ ~(o.known /\ (o.c = Null \/ n > o.c)) /\ ~KeepsMinLen(r, n)
           /\ Store(b, min, ConsistentLengths(min))
  <2>1. Asserted(b) => o.c >= n
    BY <1>3, <1>5
  <2>2. /\ min.null = r.null
        /\ \A c \in 0 .. MaxInt : Allows(min, c) <=> Allows(r, c) /\ c >= n
    BY <1>1, <1>5, MinLenIsExact, WithMinLenNarrows
  <2>3. r.kind # "string" /\ min.kind = r.kind
    BY <1>1 DEF WithMinLen, RefinementCollection
  <2> HIDE DEF min
  <2>4. Asserted(b) /\ Meets(b, r) => Meets(b, min)
    BY <1>3, <2>1, <2>2, <2>3, AgreesAllows DEF Meets
  <2> QED BY <1>1, <1>5, <2>4 DEF Asserts
<1>6. CASE /\ ~(o.known /\ (o.c = Null \/ n < o.c)) /\ ~KeepsMaxLen(r, n)
           /\ Store(b, max, ConsistentLengths(max))
  <2>1. Asserted(b) => o.c <= n
    BY <1>3, <1>6
  <2>2. /\ max.null = r.null
        /\ \A c \in 0 .. MaxInt : Allows(max, c) <=> Allows(r, c) /\ c <= n
    BY <1>1, <1>6, MaxLenIsExact, WithMaxLenNarrows
  <2>3. r.kind # "string" /\ max.kind = r.kind
    BY <1>1 DEF WithMaxLen, RefinementCollection
  <2> HIDE DEF max
  <2>4. Asserted(b) /\ Meets(b, r) => Meets(b, max)
    BY <1>3, <2>1, <2>2, <2>3, AgreesAllows DEF Meets
  <2> QED BY <1>1, <1>6, <2>4 DEF Asserts
<1>7. \/ UNCHANGED vars \/ Panic(b)
      \/ /\ ~(o.known /\ (o.c = Null \/ n > o.c)) /\ ~KeepsMinLen(r, n)
         /\ Store(b, min, ConsistentLengths(min))
      \/ /\ ~(o.known /\ (o.c = Null \/ n < o.c)) /\ ~KeepsMaxLen(r, n)
         /\ Store(b, max, ConsistentLengths(max))
  BY DEF SetMinLen, SetMaxLen
<1> HIDE DEF min, max
<1> QED BY <1>4, <1>5, <1>6, <1>7

(* Strings that match as far as both go: one begins with the other.        *)
LEMMA OverlapIsPrefix ==
  ASSUME NEW s \in Seq(Int), NEW t \in Seq(Int), OverlapMatches(s, t)
  PROVE  HasPrefix(s, t) \/ HasPrefix(t, s)
<1>1. Len(s) \in Nat /\ Len(t) \in Nat
  OBVIOUS
<1>2. CASE Len(t) <= Len(s)
  <2>1. ASSUME NEW i \in 1 .. Len(t) PROVE t[i] = s[i]
    <3>1. i \in 1 .. Len(s) /\ i <= Len(t)
      BY <1>1, <1>2
    <3> QED BY <3>1 DEF OverlapMatches
  <2> QED BY <1>2, <2>1 DEF HasPrefix
<1>3. CASE Len(s) <= Len(t)
  <2>1. ASSUME NEW i \in 1 .. Len(s) PROVE s[i] = t[i]
    <3>1. i <= Len(t)
      BY <1>1, <1>3
    <3> QED BY <3>1 DEF OverlapMatches
  <2> QED BY <1>3, <2>1 DEF HasPrefix
<1> QED BY <1>1, <1>2, <1>3

LEMMA PrefixAssertions ==
  ASSUME JInv, NEW b \in Builders, NEW p \in PrefixArgs,
         Callable(b), Refineable(b, "string"), SetPrefix(b, p)
  PROVE  Asserts(b)
<1> DEFINE r == Wip(b)
           o == builder[b].orig
           w == WithPrefix(r, p)
<1>1. /\ r \in RefinementString /\ builder[b].ref # NoRef /\ IInv /\ builder[b] # Free
      /\ TypeOf(b) \in Types /\ KindOf(TypeOf(b)) = "string" /\ p \in Seq(Int)
  BY ObjectFacts, KindDecides, ProgramAssumption DEF JInv, ProgramAssumption, Callable
<1>2. TypeOf(b) = "string" /\ NonNull(TypeOf(b)) = Strings
  BY <1>1, KindGivesUniverse DEF KindOf, Types, CollectionTypes
<1>3. Asserted(b) => o.c \in Seq(Int) /\ o.known /\ o.c # Null
  BY <1>1, <1>2, AssertedFacts, StringsAssumption DEF StringsAssumption, Asserted
<1>4. CASE Panic(b)
  BY <1>4 DEF Asserts
<1>5. CASE /\ ~(o.known /\ o.c # Null /\ ~OverlapMatches(o.c, p))
           /\ OverlapMatches(r.prefix, p) /\ Store(b, w, TRUE)
  <2>1. Asserted(b) => HasPrefix(o.c, p) \/ HasPrefix(p, o.c)
    BY <1>1, <1>3, <1>5, OverlapIsPrefix
  <2>2. w.null = r.null /\ w.kind = "string" /\ w.prefix \in {r.prefix, p}
    BY <1>1 DEF WithPrefix, RefinementString
  <2> HIDE DEF w
  <2>3. Asserted(b) /\ Meets(b, r) => Meets(b, w)
    BY <1>1, <2>1, <2>2 DEF Meets, Agrees, RefinementString
  <2> QED BY <1>1, <1>5, <2>3 DEF Asserts
<1>6. \/ Panic(b)
      \/ /\ ~(o.known /\ o.c # Null /\ ~OverlapMatches(o.c, p))
         /\ OverlapMatches(r.prefix, p) /\ Store(b, w, TRUE)
  BY DEF SetPrefix
<1> HIDE DEF w
<1> QED BY <1>4, <1>5, <1>6

LEMMA NullAssertions ==
  ASSUME JInv, NEW b \in Builders, NEW t \in {"T", "F"}, Callable(b), SetNull(b, t)
  PROVE  Asserts(b)
<1> DEFINE r == Wip(b)
           o == builder[b].orig
           w == [r EXCEPT !.null = t]
<1>1. builder[b].ref # NoRef /\ IInv /\ r \in Refinements
  BY WipFacts DEF SetNull, JInv, Callable
<1>2. CASE Panic(b)
  BY <1>2 DEF Asserts
<1>3. CASE ~(o.known /\ (o.c = Null) # (t = "T")) /\ Store(b, w, TRUE)
  <2>1. w.null = t /\ \A c : Allows(w, c) <=> Allows(r, c)
    BY <1>1, SetNullKeepsBounds DEF Tristate
  <2>2. Asserted(b) => t # "T"
    BY <1>3 DEF Asserted
  <2>3. w.kind = r.kind /\ (r.kind = "string" => w.prefix = r.prefix)
    BY <1>1 DEF Refinements, RefinementNullable, RefinementNumber, RefinementCollection,
         RefinementString
  <2> HIDE DEF w
  <2>4. Agrees(w, o.c) <=> Agrees(r, o.c)
    BY <2>1, <2>3 DEF Agrees
  <2>5. Asserted(b) /\ Meets(b, r) => Meets(b, w)
    BY <2>1, <2>2, <2>4 DEF Meets
  <2> QED BY <1>1, <1>3, <2>5 DEF Asserts
<1>4. Panic(b) \/ (~(o.known /\ (o.c = Null) # (t = "T")) /\ Store(b, w, TRUE))
  BY DEF SetNull
<1> HIDE DEF w
<1> QED BY <1>2, <1>3, <1>4

LEMMA StepAssertions ==
  ASSUME UniverseIsRich, JInv, Next
  PROVE  \E b \in Builders :
           \/ \E v \in Values : Refine(b, v) \/ NewValue(b, v)
           \/ Asserts(b)
<1>1. PICK b \in Builders :
        \/ \E v \in Values : Refine(b, v) \/ NewValue(b, v)
        \/ NotNull(b) \/ NullMethod(b)
        \/ NumberMethod(b) \/ LengthMethod(b) \/ PrefixMethod(b)
  BY DEF Next
<1>2. ASSUME Callable(b), UNCHANGED vars \/ Panic(b)
      PROVE  Asserts(b)
  BY <1>2 DEF Asserts
<1>3. CASE NotNull(b) \/ NullMethod(b)
  BY <1>2, <1>3, NullAssertions DEF NotNull, NullMethod, Ignored
<1>4. CASE NumberMethod(b)
  <2>1. PICK a \in NumberArgs :
          \/ NumberRangeLowerBound(b, a[1], a[2])
          \/ NumberRangeUpperBound(b, a[1], a[2])
    BY <1>4 DEF NumberMethod
  <2>2. /\ Callable(b)
        /\ \/ UNCHANGED vars \/ Panic(b)
           \/ Refineable(b, "number") /\ (SetMin(b, a[1], a[2]) \/ SetMax(b, a[1], a[2]))
    BY <2>1 DEF NumberRangeLowerBound, NumberRangeUpperBound, Ignored, WrongKind, BadNumberArg
  <2> QED BY <1>2, <2>2, NumberAssertions
<1>5. CASE LengthMethod(b)
  <2>1. PICK n \in LengthArgs :
          CollectionLengthLowerBound(b, n) \/ CollectionLengthUpperBound(b, n)
    BY <1>5 DEF LengthMethod
  <2>2. /\ Callable(b) /\ n \in Int
        /\ \/ UNCHANGED vars \/ Panic(b)
           \/ Refineable(b, "collection") /\ (SetMinLen(b, n) \/ SetMaxLen(b, n))
    BY <2>1, ProgramAssumption
    DEF CollectionLengthLowerBound, CollectionLengthUpperBound, Ignored, WrongKind,
        ProgramAssumption
  <2> QED BY <1>2, <2>2, LengthAssertions
<1>6. CASE PrefixMethod(b)
  <2>1. PICK p \in PrefixArgs : StringPrefixFull(b, p)
    BY <1>6 DEF PrefixMethod
  <2>2. /\ Callable(b)
        /\ \/ UNCHANGED vars \/ Panic(b)
           \/ Refineable(b, "string") /\ SetPrefix(b, p)
    BY <2>1 DEF StringPrefixFull, Ignored, WrongKind
  <2> QED BY <1>2, <2>2, PrefixAssertions
<1> QED BY <1>1, <1>3, <1>4, <1>5, <1>6

(* Only the status of a builder that is called changes, and its object.    *)
LEMMA AssertsKeepsAssertions ==
  ASSUME JInv, KnownValueMeetsAssertions, NEW b \in Builders, Asserts(b)
  PROVE  KnownValueMeetsAssertions'
<1>1. /\ IInv /\ builder[b] # Free /\ builder[b].status # "panicked"
      /\ IsBuilder(builder[b]) /\ builder \in [Builders -> {builder[d] : d \in Builders}]
      /\ heap \in [Builders -> Refinements \cup {Free}]
  BY DEF Asserts, Callable, JInv, IInv, TypeOK
<1> DEFINE y == [builder[b] EXCEPT !.status = "panicked"]
<1>2. y.orig = builder[b].orig /\ y.ref = builder[b].ref /\ y.status = "panicked" /\ y # Free
  <2>1. IsBuilder(y)
    BY <1>1 DEF IsBuilder, Status
  <2> QED BY <1>1, <2>1, BuilderNotFree DEF IsBuilder
<1>3. builder' = [builder EXCEPT ![b].status = "panicked"] =>
        builder'[b] = y /\ \A d \in Builders : d # b => builder'[d] = builder[d]
  BY <1>1
<1> HIDE DEF y
<1>4. value' = value /\ (builder' = builder \/ builder' = [builder EXCEPT ![b].status = "panicked"])
  BY DEF Asserts, vars, Panic, Store
<1>5. \A d \in Builders :
        /\ builder'[d] # Free <=> builder[d] # Free
        /\ builder'[d].orig = builder[d].orig /\ builder'[d].ref = builder[d].ref
        /\ builder'[d].status # "panicked" => builder[d].status # "panicked"
  BY <1>1, <1>2, <1>3, <1>4
<1>6. \A d \in Builders :
        \/ heap'[d] = heap[d]
        \/ d = b /\ builder[b].ref = b /\ (Asserted(b) /\ Meets(b, heap[b]) => Meets(b, heap'[b]))
  <2>1. CASE heap' = heap
    BY <2>1
  <2>2. ASSUME NEW w, builder[b].ref # NoRef, heap' = [heap EXCEPT ![builder[b].ref] = w],
               Asserted(b) /\ Meets(b, Wip(b)) => Meets(b, w)
        PROVE  \A d \in Builders :
                 \/ heap'[d] = heap[d]
                 \/ d = b /\ builder[b].ref = b
                      /\ (Asserted(b) /\ Meets(b, heap[b]) => Meets(b, heap'[b]))
    <3>1. builder[b].ref = b /\ Wip(b) = heap[b]
      BY <1>1, <2>2, WipFacts
    <3>2. heap'[b] = w /\ \A d \in Builders : d # b => heap'[d] = heap[d]
      BY <1>1, <2>2, <3>1
    <3>3. Meets(b, heap'[b]) <=> Meets(b, w)
      BY <3>2
    <3> QED BY <2>2, <3>1, <3>2, <3>3
  <2> QED BY <2>1, <2>2 DEF Asserts, vars, Panic, Store
<1>7. KnownValueMeetsAssertions'
  <2> SUFFICES ASSUME NEW d \in Builders, InUse(d)', builder'[d].status # "panicked",
                      builder'[d].orig.known, builder'[d].orig.c # Null
               PROVE  Agrees(Wip(d)', builder'[d].orig.c) /\ Wip(d)'.null # "T"
    BY DEF KnownValueMeetsAssertions, Agrees, Allows, AboveMin, BelowMax
  <2>1. Asserted(d) /\ builder[d].status # "panicked" /\ builder[d].ref # NoRef
        /\ builder[d] # Free
    BY <1>5 DEF InUse, Asserted
  <2>2. builder[d].ref = d /\ Wip(d) = heap[d]
    BY <1>1, <2>1, WipFacts
  <2>3. Wip(d)' = heap'[d] /\ builder'[d].orig.c = builder[d].orig.c
    BY <1>5, <2>2 DEF Wip
  <2>4. Meets(d, heap[d])
    BY <2>1, <2>2 DEF KnownValueMeetsAssertions, Asserted, Meets
  <2>5. Meets(d, heap'[d])
    BY <1>6, <2>1, <2>4
  <2> QED BY <2>3, <2>5 DEF Meets
<1> QED BY <1>7

LEMMA RefineKeepsAssertions ==
  ASSUME UniverseIsRich, JInv, KnownValueMeetsAssertions, NEW b \in Builders, NEW v \in Values, Refine(b, v)
  PROVE  KnownValueMeetsAssertions'
<1> DEFINE x == value[v]
<1>1. /\ IInv /\ x # Free /\ IsValue(x) /\ Refined(b, x) /\ x.ty \in Types
  BY RefineRefines DEF JInv, IsValue
<1> HIDE DEF x
<1>2. value' = value /\ \A d \in Builders : d # b => builder'[d] = builder[d] /\ heap'[d] = heap[d]
  BY <1>1 DEF Refined
<1>3. ASSUME InUse(b)', builder'[b].orig.known, builder'[b].orig.c # Null
      PROVE  Agrees(Wip(b)', builder'[b].orig.c) /\ Wip(b)'.null # "T"
  <2>1. x.known /\ x.c # Null /\ builder'[b].orig.c = x.c /\ builder'[b].ref = b
        /\ heap'[b] = Fresh(x.ty)
    BY <1>1, <1>3 DEF Refined, IsDynamicVal, HasRef
  <2>2. x.c \in NonNull(x.ty) /\ x.ty # "dynamic"
    BY <1>1, <2>1 DEF IsValue, KnownValue, UnknownValue
  <2>3. Wip(b)' = Fresh(x.ty)
    BY <2>1 DEF Wip
  <2>4. Fresh(x.ty).null = "U"
    <3>1. KindOf(x.ty) \in {"number", "string", "collection", "nullable"}
      BY <1>1 DEF KindOf, Types, CollectionTypes
    <3> QED BY <2>2, <3>1 DEF Fresh
  <2>5. Allows(Fresh(x.ty), x.c)
    BY <1>1, <2>2, FreshAllowsAll
  <2>6. Agrees(Fresh(x.ty), x.c)
    BY <2>5 DEF Agrees, Allows
  <2> QED BY <2>1, <2>3, <2>4, <2>6
<1> SUFFICES ASSUME NEW d \in Builders, InUse(d)', builder'[d].status # "panicked",
                    builder'[d].orig.known, builder'[d].orig.c # Null
             PROVE  Agrees(Wip(d)', builder'[d].orig.c) /\ Wip(d)'.null # "T"
  BY DEF KnownValueMeetsAssertions, Agrees, Allows, AboveMin, BelowMax
<1>4. CASE d = b
  BY <1>3, <1>4
<1>5. CASE d # b
  <2>1. /\ builder'[d] = builder[d] /\ heap'[d] = heap[d]
        /\ builder[d] # Free /\ builder[d].ref # NoRef
    BY <1>2, <1>5 DEF InUse
  <2>2. builder[d].ref = d /\ Wip(d) = heap[d]
    BY <1>1, <2>1, WipFacts
  <2>3. Wip(d)' = Wip(d)
    BY <2>1, <2>2 DEF Wip
  <2> QED BY <2>1, <2>3 DEF KnownValueMeetsAssertions, InUse
<1> QED BY <1>4, <1>5

LEMMA NewValueKeepsAssertions ==
  ASSUME JInv, KnownValueMeetsAssertions, NEW b \in Builders, NEW v \in Values, NewValue(b, v)
  PROVE  KnownValueMeetsAssertions'
<1>1. /\ IInv /\ builder[b] # Free /\ builder[b].status # "panicked" /\ heap' = heap
      /\ builder' = [builder EXCEPT ![b].status = "done"]
      /\ value' = [value EXCEPT ![v] = Result(b)]
  BY DEF NewValue, Callable, JInv
<1> DEFINE y == [builder[b] EXCEPT !.status = "done"]
<1>2. y # Free /\ y.orig = builder[b].orig /\ y.ref = builder[b].ref
  <2>1. IsBuilder(builder[b])
    BY <1>1 DEF IInv, TypeOK
  <2>2. IsBuilder(y) /\ y.orig = builder[b].orig /\ y.ref = builder[b].ref
    BY <2>1 DEF IsBuilder, Status
  <2> QED BY <2>2, BuilderNotFree
<1>3. builder'[b] = y /\ \A d \in Builders : d # b => builder'[d] = builder[d]
  BY <1>1 DEF IInv, TypeOK
<1> HIDE DEF y
<1>4. \A d \in Builders :
        /\ builder'[d] # Free <=> builder[d] # Free
        /\ builder'[d].orig = builder[d].orig /\ builder'[d].ref = builder[d].ref
        /\ builder'[d].status # "panicked" => builder[d].status # "panicked"
  BY <1>1, <1>2, <1>3
<1> QED
  BY <1>1, <1>4 DEF KnownValueMeetsAssertions, InUse, Wip, Agrees, Allows, AboveMin, BelowMax

LEMMA InitMeetsAssertions ==
  Init => KnownValueMeetsAssertions
BY DEF Init, KnownValueMeetsAssertions, InUse

(* A value that is returned unknown may still be something, and not only   *)
(* null.                                                                   *)
LEMMA JInvInhabits ==
  ASSUME UniverseIsRich, JInv
  PROVE  UnknownValuesAreInhabited
<1> SUFFICES ASSUME NEW v \in Values, value[v] # Free, ~value[v].known
             PROVE  Meaning(v) # {} /\ Meaning(v) # {Null}
  BY DEF UnknownValuesAreInhabited
<1> DEFINE x == value[v]
<1>1. /\ IInv /\ IsValue(x) /\ Shares(x, builder) /\ Settled(x, builder, heap) /\ x.ty \in Types
  BY ValuesShare DEF JInv, AllSettled, IsValue
<1>2. Null \notin NonNull(x.ty)
  BY <1>1, NullAssumption DEF NullAssumption, NonNull, Types, CollectionTypes
<1>3. CASE x.ref = NoRef
  BY <1>1, <1>2, <1>3, FreshAllowsAll DEF Meaning
<1>4. CASE x.ref # NoRef
  <2>1. /\ HasRef(x) /\ x.ref \in Builders /\ Refining(x.ref) /\ TypeOf(x.ref) = x.ty
        /\ builder[x.ref].status = "done" /\ Wip(x.ref) = heap[x.ref]
        /\ heap[x.ref].null # "T"
    BY <1>1, <1>4, OwnerFacts DEF HasRef, Settled, Refining
  <2>2. Candidates(x.ty, heap[x.ref]) # {}
    BY <2>1 DEF JInv, Inhabited, CandidatesOf
  <2>3. Candidates(x.ty, heap[x.ref]) \subseteq NonNull(x.ty)
    BY DEF Candidates
  <2>4. Candidates(x.ty, heap[x.ref]) \subseteq Meaning(v)
    BY <1>4, <2>1 DEF Meaning, Range
  <2> QED BY <1>2, <2>2, <2>3, <2>4
<1> QED BY <1>3, <1>4

(* No contradiction gets through: a builder never goes on with an          *)
(* assertion that a known value does not agree with (a string is compared  *)
(* with a prefix as far as both go, whichever is longer), and an unknown   *)
(* value is left something to be other than null, in whatever order the    *)
(* assertions come.                                                        *)
THEOREM AssertionsHold ==
  ASSUME UniverseIsRich, ReuseBuilder = FALSE
  PROVE  Spec => []ValuesMeetAssertions
<1>1. ASSUME JInv, KnownValueMeetsAssertions, [Next]_vars
      PROVE  KnownValueMeetsAssertions'
  <2>1. CASE UNCHANGED vars
    <3>1. value' = value /\ builder' = builder /\ heap' = heap
      BY <2>1 DEF vars
    <3> QED BY <1>1, <3>1 DEF KnownValueMeetsAssertions, InUse, Wip, Agrees, Allows, AboveMin,
               BelowMax
  <2>2. CASE Next
    <3>1. PICK b \in Builders :
            (\E v \in Values : Refine(b, v) \/ NewValue(b, v)) \/ Asserts(b)
      BY <1>1, <2>2, StepAssertions
    <3> QED BY <1>1, <3>1, AssertsKeepsAssertions, RefineKeepsAssertions, NewValueKeepsAssertions
  <2> QED BY <1>1, <2>1, <2>2
<1>2. JInv /\ KnownValueMeetsAssertions /\ [Next]_vars => KnownValueMeetsAssertions'
  BY <1>1
<1>3. JInv /\ KnownValueMeetsAssertions => ValuesMeetAssertions
  BY JInvInhabits DEF ValuesMeetAssertions
<1> QED BY <1>2, <1>3, InitMeetsAssertions, SpecJInv, PTL DEF Spec

----------------------------------------------------------------------------
(* ImplementsRangeNarrowing.                                               *)

(* AbstractRange at b, and what Denotes and Starts are of.                 *)
RangeAt(b) ==
  IF builder[b] = Free THEN Free
  ELSE IF builder[b].status # "open" THEN NoRef ELSE OpenRange(b)

MeaningAt(v) ==
  IF value[v] = Free THEN Free ELSE [vals |-> Meaning(v), marks |-> value[v].marks]

LEMMA NullIsNoCandidate ==
  ASSUME NEW ty \in Types
  PROVE  Null \notin NonNull(ty)
BY NullAssumption DEF NullAssumption, NonNull, Types, CollectionTypes

LEMMA TristateOf ==
  ASSUME NEW r \in Refinements
  PROVE  r.null \in Tristate
BY DEF Refinements, RefinementNullable, RefinementNumber, RefinementCollection, RefinementString

LEMMA OpenRangeIsRange ==
  ASSUME IInv, NEW b \in Builders, builder[b] # Free
  PROVE  OpenRange(b) \in Ranges(TypeOf(b)) /\ OpenRange(b) \notin {Free, NoRef}
<1> DEFINE o == builder[b].orig
<1>1. /\ IsValue(o) /\ o.ty \in Types /\ TypeOf(b) = o.ty /\ builder[b].marks \in SUBSET Marks
  BY DEF IInv, TypeOK, IsBuilder, IsValue, TypeOf
<1>2. OpenRange(b).null \in Tristate
  <2>1. CASE o.known
    BY <2>1 DEF OpenRange, Tristate
  <2>2. CASE ~o.known /\ builder[b].ref = NoRef
    BY <2>2 DEF OpenRange, Tristate
  <2>3. CASE ~o.known /\ builder[b].ref # NoRef
    BY <2>3, WipFacts, TristateOf DEF OpenRange
  <2> QED BY <2>1, <2>2, <2>3
<1>3. OpenRange(b).vals \subseteq NonNull(o.ty)
  <2>1. CASE o.known
    <3>1. o.c \in {Null} \cup NonNull(o.ty)
      BY <1>1, <2>1 DEF IsValue, KnownValue, UnknownValue
    <3> QED BY <2>1, <3>1 DEF OpenRange
  <2>2. CASE ~o.known
    BY <1>1, <2>2 DEF OpenRange, CandidatesOf, Candidates
  <2> QED BY <2>1, <2>2
<1>4. OpenRange(b) = [null |-> OpenRange(b).null, vals |-> OpenRange(b).vals,
                      marks |-> builder[b].marks]
  BY DEF OpenRange
<1>5. OpenRange(b) \in Ranges(TypeOf(b))
  <2> DEFINE n == OpenRange(b).null
             s == OpenRange(b).vals
  <2>1. n \in Tristate /\ s \in SUBSET NonNull(TypeOf(b))
    BY <1>1, <1>2, <1>3
  <2>2. OpenRange(b) = [null |-> n, vals |-> s, marks |-> builder[b].marks]
    BY <1>4
  <2> HIDE DEF n, s
  <2> QED BY <1>1, <2>1, <2>2 DEF Ranges
<1> QED BY <1>1, <1>5, ProgramAssumption DEF ProgramAssumption

LEMMA OpenRangesAreOpen ==
  IInv => \A d \in Builders : builder[d] # Free => OpenRange(d) \notin {Free, NoRef}
BY OpenRangeIsRange

LEMMA MeaningIsMeaning ==
  ASSUME IInv, NEW v \in Values, value[v] # Free
  PROVE  MeaningAt(v) # Free
<1> DEFINE x == value[v]
<1>1. /\ IsValue(x) /\ x.ty \in Types /\ x.marks \in SUBSET Marks
  BY DEF IInv, TypeOK, IsValue, KnownValue, UnknownValue
<1>2. Meaning(v) \subseteq NonNull(x.ty) \cup {Null}
  <2>1. CASE x.known
    BY <1>1, <2>1 DEF Meaning, IsValue, KnownValue, UnknownValue
  <2>2. CASE ~x.known
    BY <2>2 DEF Meaning, Range, Candidates
  <2> QED BY <2>1, <2>2
<1>3. [vals |-> Meaning(v), marks |-> x.marks] \in Meanings(x.ty)
  BY <1>1, <1>2 DEF Meanings
<1> QED BY <1>1, <1>3, ProgramAssumption DEF ProgramAssumption, MeaningAt

(* A builder of which nothing changes keeps its range.                     *)
LEMMA RangeStays ==
  ASSUME IInv, NEW d \in Builders, builder'[d] = builder[d], heap'[d] = heap[d]
  PROVE  RangeAt(d)' = RangeAt(d)
<1>1. CASE builder[d] = Free \/ builder[d].status # "open"
  BY <1>1 DEF RangeAt
<1>2. CASE builder[d] # Free /\ builder[d].status = "open"
  <2>1. OpenRange(d)' = OpenRange(d)
    <3>1. CASE builder[d].ref = NoRef
      BY <1>2, <3>1 DEF OpenRange
    <3>2. CASE builder[d].ref # NoRef
      <4>1. builder[d].ref = d
        BY <1>2, <3>2, WipFacts
      <4>2. Wip(d)' = Wip(d)
        BY <4>1 DEF Wip
      <4> QED BY <4>2 DEF OpenRange, CandidatesOf, Candidates, TypeOf
    <3> QED BY <3>1, <3>2
  <2> QED BY <1>2, <2>1 DEF RangeAt
<1> QED BY <1>1, <1>2

LEMMA MeaningStays ==
  ASSUME JInv, ReuseBuilder = FALSE, [Next]_vars, NEW v \in Values, value[v] # Free
  PROVE  Meaning(v)' = Meaning(v)
<1>1. IInv /\ OwnersAreDone
  BY DEF JInv, AllSettled, Settled, HasRef, OwnersAreDone
<1> QED BY <1>1, NextKeepsOwners

(* A step that changes b's range only. *)
LEMMA OnlyRangeChanges ==
  ASSUME JInv, ReuseBuilder = FALSE, [Next]_vars, NEW b \in Builders, value' = value,
         \A d \in Builders : d # b => builder'[d] = builder[d] /\ heap'[d] = heap[d]
  PROVE  /\ AbstractMeaning' = AbstractMeaning
         /\ AbstractRange' = [AbstractRange EXCEPT ![b] = RangeAt(b)']
<1>1. IInv /\ \A v \in Values : value[v] # Free => Meaning(v)' = Meaning(v)
  BY MeaningStays DEF JInv
<1>2. AbstractMeaning' = AbstractMeaning
  BY <1>1 DEF AbstractMeaning
<1>3. \A d \in Builders : d # b => RangeAt(d)' = RangeAt(d)
  BY <1>1, RangeStays
<1>4. /\ AbstractRange = [d \in Builders |-> RangeAt(d)]
      /\ AbstractRange' = [d \in Builders |-> RangeAt(d)']
  BY DEF AbstractRange, RangeAt
<1> QED BY <1>2, <1>3, <1>4

(* Refine begins at what the value denotes. *)
LEMMA RefineBegins ==
  ASSUME UniverseIsRich, JInv, IInv', ReuseBuilder = FALSE, [Next]_vars,
         NEW b \in Builders, NEW v \in Values, Refine(b, v)
  PROVE  Abstract!Begin(b, v)
<1> DEFINE x == value[v]
           y == builder'[b]
<1>1. /\ IInv /\ x # Free /\ IsValue(x) /\ Shares(x, builder) /\ Refined(b, x)
      /\ Settled(x, builder, heap) /\ x.ty \in Types
  BY RefineRefines DEF JInv, AllSettled, IsValue
<1>2. /\ NonNull(x.ty) # {} /\ Null \notin NonNull(x.ty)
  BY <1>1, FreshAllowsAll, NullIsNoCandidate
<1>3. /\ y # Free /\ y.status = "open" /\ y.marks = x.marks
      /\ y.orig.ty = x.ty /\ y.orig.known = x.known
      /\ IF x.known THEN y.orig.c = x.c ELSE y.orig.ref = x.ref
      /\ y.ref = IF IsDynamicVal(x) THEN NoRef ELSE b
  BY <1>1 DEF Refined
<1>4. OpenRange(b)' = Abstract!Starts([vals |-> Meaning(v), marks |-> x.marks])
  <2> DEFINE n == OpenRange(b)'.null
             s == OpenRange(b)'.vals
             m == [vals |-> Meaning(v), marks |-> x.marks]
  <2> SUFFICES /\ s = Meaning(v) \ {Null}
               /\ n = IF Null \notin Meaning(v) THEN "F"
                      ELSE IF Meaning(v) = {Null} THEN "T" ELSE "U"
    BY <1>3 DEF OpenRange, Abstract!Starts
  <2>1. CASE x.known
    <3>1. /\ s = {x.c} \ {Null} /\ n = (IF x.c = Null THEN "T" ELSE "F")
          /\ Meaning(v) = {x.c}
      BY <1>3, <2>1 DEF OpenRange, Meaning
    <3> QED BY <3>1
  <2>2. CASE IsDynamicVal(x)
    <3>1. x.ref = NoRef /\ ~x.known
      BY <1>1, <2>2 DEF IsDynamicVal, IsValue, KnownValue, UnknownValue
    <3>2. s = NonNull(x.ty) /\ n = "U" /\ Meaning(v) = NonNull(x.ty) \cup {Null}
      BY <1>3, <2>2, <3>1 DEF OpenRange, Meaning
    <3> QED BY <1>2, <3>2
  <2>3. CASE ~x.known /\ ~IsDynamicVal(x)
    <3>1. /\ y.ref = b /\ b # NoRef /\ Wip(b)' = heap'[b]
          /\ heap'[b] = IF HasRef(x) THEN heap[x.ref] ELSE Fresh(x.ty)
      BY <1>1, <1>3, <2>3, ProgramAssumption DEF Refined, Wip, ProgramAssumption
    <3>2. n = heap'[b].null /\ s = Candidates(x.ty, heap'[b])
      BY <1>3, <2>3, <3>1 DEF OpenRange, CandidatesOf, TypeOf, Candidates
    <3>3. CASE ~HasRef(x)
      <4>1. Meaning(v) = NonNull(x.ty) \cup {Null}
        BY <2>3, <3>3 DEF Meaning, HasRef
      <4>2. s = NonNull(x.ty)
        BY <1>1, <3>1, <3>2, <3>3, FreshAllowsAll DEF Candidates
      <4>3. n = "U"
        <5>1. KindOf(x.ty) \in {"number", "string", "collection", "nullable"}
          BY <1>1 DEF KindOf, Types, CollectionTypes
        <5>2. x.ty # "dynamic"
          BY <2>3 DEF IsDynamicVal
        <5> QED BY <3>1, <3>2, <3>3, <5>1, <5>2 DEF Fresh
      <4> QED BY <1>2, <4>1, <4>2, <4>3
    <3>4. CASE HasRef(x)
      <4>1. /\ x.ref \in Builders /\ Refining(x.ref) /\ TypeOf(x.ref) = x.ty
            /\ builder[x.ref].status = "done" /\ Wip(x.ref) = heap[x.ref]
            /\ heap[x.ref].null # "T" /\ heap[x.ref].null \in Tristate
        BY <1>1, <3>4, OwnerFacts, TristateOf DEF Settled, Refining
      <4>2. Candidates(x.ty, heap[x.ref]) # {}
        BY <4>1 DEF JInv, Inhabited, CandidatesOf
      <4>3. Candidates(x.ty, heap[x.ref]) \subseteq NonNull(x.ty)
        BY DEF Candidates
      <4>4. Meaning(v) = Range(x.ty, heap[x.ref])
        BY <2>3, <3>4 DEF Meaning, HasRef
      <4>5. n = heap[x.ref].null /\ s = Candidates(x.ty, heap[x.ref])
        BY <3>1, <3>2, <3>4
      <4>6. CASE heap[x.ref].null = "F"
        BY <1>2, <4>2, <4>3, <4>4, <4>5, <4>6 DEF Range
      <4>7. CASE heap[x.ref].null = "U"
        BY <1>2, <4>2, <4>3, <4>4, <4>5, <4>7 DEF Range
      <4> QED BY <4>1, <4>6, <4>7 DEF Tristate
    <3> QED BY <3>3, <3>4
  <2> QED BY <2>1, <2>2, <2>3
<1>5. AbstractMeaning[v] = [vals |-> Meaning(v), marks |-> x.marks] /\ AbstractMeaning[v] # Free
  <2>1. AbstractMeaning[v] = MeaningAt(v)
    BY DEF AbstractMeaning, MeaningAt
  <2> QED BY <1>1, <2>1, MeaningIsMeaning DEF MeaningAt
<1>6. AbstractRange[b] = Free /\ RangeAt(b)' = OpenRange(b)'
  BY <1>1, <1>3 DEF AbstractRange, Refined, RangeAt
<1>7. /\ AbstractMeaning' = AbstractMeaning
      /\ AbstractRange' = [AbstractRange EXCEPT ![b] = RangeAt(b)']
  BY <1>1, OnlyRangeChanges DEF Refined
<1> QED BY <1>4, <1>5, <1>6, <1>7 DEF Abstract!Begin

(* A collapsed range has one value left. *)
LEMMA CollapsedIsOne ==
  ASSUME NEW ty \in Types, NEW r \in Refinements, r.kind = KindOf(ty), Collapses(ty, r)
  PROVE  Candidates(ty, r) = {CollapsedTo(r)} /\ r.null = "F"
<1>1. CASE CollapsesNumber(r)
  <2>1. /\ r.kind = "number" /\ r.minInc /\ r.maxInc /\ r.min = r.max /\ r.min # NilVal
        /\ r \in RefinementNumber /\ NonNull(ty) = Numbers
    BY <1>1, KindDecides, KindGivesUniverse DEF CollapsesNumber
  <2>2. r.min \in Numbers /\ \A c \in Numbers : c \in Int
    BY <2>1, NumbersAssumption DEF RefinementNumber, NumbersAssumption
  <2>3. ASSUME NEW c \in Numbers
        PROVE  Allows(r, c) <=> c = r.min
    <3>1. AboveMin(r, c) <=> c >= r.min
      BY <2>1 DEF AboveMin
    <3>2. BelowMax(r, c) <=> c <= r.min
      BY <2>1 DEF BelowMax
    <3>3. Allows(r, c) <=> c >= r.min /\ c <= r.min
      BY <2>1, <3>1, <3>2 DEF Allows
    <3>4. c \in Int /\ r.min \in Int
      BY <2>2
    <3> QED BY <3>3, <3>4
  <2> QED BY <2>1, <2>2, <2>3 DEF Candidates, CollapsedTo, Collapses
<1>2. CASE CollapsesCollection(ty, r)
  <2>1. /\ r.kind = "collection" /\ r.minLen = r.maxLen /\ r \in RefinementCollection
    BY <1>2, KindDecides DEF CollapsesCollection
  <2>2. NonNull(ty) = 0 .. MaxInt
    BY <2>1 DEF KindOf, NonNull, Types, CollectionTypes
  <2>3. r.minLen \in 0 .. MaxInt
    BY <2>1, LengthsAssumption DEF RefinementCollection, LengthsAssumption
  <2>4. \A c \in 0 .. MaxInt : Allows(r, c) <=> c = r.minLen
    BY <2>1, <2>3, LengthsAssumption DEF Allows, LengthsAssumption
  <2> QED BY <2>1, <2>2, <2>3, <2>4 DEF Candidates, CollapsedTo, Collapses
<1> QED BY <1>1, <1>2 DEF Collapses

(* What NewValue returns denotes what its builder has reached. *)
LEMMA NewValueReturns ==
  ASSUME JInv, IInv', ReuseBuilder = FALSE, [Next]_vars,
         NEW b \in Builders, NEW v \in Values, NewValue(b, v)
  PROVE  Abstract!Return(b, v)
<1> DEFINE o == builder[b].orig
           m == builder[b].marks
           z == Result(b)
<1>1. /\ IInv /\ builder[b] # Free /\ builder[b].status = "open" /\ heap' = heap
      /\ builder' = [builder EXCEPT ![b].status = "done"]
      /\ value' = [value EXCEPT ![v] = z] /\ value[v] = Free
      /\ IsValue(o) /\ o.ty \in Types
  <2>1. /\ IInv /\ builder[b] # Free /\ builder[b].status = "open" /\ heap' = heap
        /\ builder' = [builder EXCEPT ![b].status = "done"]
        /\ value' = [value EXCEPT ![v] = z] /\ value[v] = Free
    BY DEF NewValue, Callable, JInv
  <2> QED BY <2>1, ValuesShare DEF IsValue
<1>2. /\ value'[v] = z /\ \A u \in Values : u # v => value'[u] = value[u]
      /\ \A d \in Builders : d # b => builder'[d] = builder[d]
  BY <1>1 DEF IInv, TypeOK
<1>3. builder'[b] # Free /\ builder'[b].status = "done"
  <2> DEFINE y == [builder[b] EXCEPT !.status = "done"]
  <2>1. IsBuilder(builder[b])
    BY <1>1 DEF IInv, TypeOK
  <2>2. IsBuilder(y) /\ y.status = "done"
    BY <2>1 DEF IsBuilder, Status
  <2>3. y # Free
    BY <2>2, BuilderNotFree
  <2>4. builder'[b] = y
    BY <1>1 DEF IInv, TypeOK
  <2> QED BY <2>2, <2>3, <2>4
<1>4. z # Free
  <2>1. z \in Value
    BY <1>1, ResultIsValue DEF IsValue, Value
  <2> QED BY <2>1, ProgramAssumption DEF ProgramAssumption
<1>5. Meaning(v)' = Abstract!Denotes(OpenRange(b)) /\ z.marks = m
  <2>1. CASE o.known
    <3>1. z = [o EXCEPT !.marks = m]
      BY <2>1 DEF Result
    <3>2. z.known /\ z.c = o.c /\ z.marks = m
      BY <1>1, <2>1, <3>1 DEF IsValue, KnownValue, UnknownValue
    <3>3. Meaning(v)' = {o.c}
      BY <1>2, <3>2 DEF Meaning
    <3> QED BY <2>1, <3>2, <3>3 DEF OpenRange, Abstract!Denotes
  <2>2. CASE IsDynamicVal(o)
    <3>1. z = [o EXCEPT !.marks = m] /\ ~o.known /\ o.ref = NoRef /\ builder[b].ref = NoRef
      BY <1>1, <2>2 DEF Result, IsDynamicVal, IsValue, KnownValue, UnknownValue, IInv, RefsOK,
         BuilderOK, RefineRef
    <3>2. ~z.known /\ z.ref = NoRef /\ z.marks = m /\ z.ty = o.ty
      BY <1>1, <3>1 DEF IsValue, KnownValue, UnknownValue
    <3>3. Meaning(v)' = NonNull(o.ty) \cup {Null}
      BY <1>2, <3>2 DEF Meaning
    <3> QED BY <3>1, <3>2, <3>3 DEF OpenRange, Abstract!Denotes
  <2>3. CASE ~o.known /\ ~IsDynamicVal(o)
    <3> DEFINE w == heap[b]
    <3>1. builder[b].ref = b /\ b # NoRef /\ Wip(b) = w /\ w \in Refinements
          /\ w.kind = KindOf(o.ty)
      <4>1. builder[b].ref # NoRef
        BY <1>1, <2>3, ProgramAssumption DEF IInv, RefsOK, BuilderOK, RefineRef, ProgramAssumption
      <4> QED BY <1>1, <4>1, WipFacts DEF TypeOf
    <3>2. /\ OpenRange(b).null = w.null /\ OpenRange(b).vals = Candidates(o.ty, w)
      BY <2>3, <3>1 DEF OpenRange, CandidatesOf, TypeOf
    <3>3. Abstract!Denotes(OpenRange(b)) = Range(o.ty, w)
      BY <3>2 DEF Abstract!Denotes, Range
    <3>4. CASE w.null = "T"
      <4>1. z = Known(o.ty, Null, m)
        BY <2>3, <3>1, <3>4 DEF Result
      <4>2. z.known /\ z.c = Null /\ z.marks = m
        BY <4>1 DEF Known
      <4>3. Meaning(v)' = {Null}
        BY <1>2, <4>2 DEF Meaning
      <4> QED BY <3>3, <3>4, <4>2, <4>3 DEF Range
    <3>5. CASE w.null # "T" /\ Collapses(o.ty, w)
      <4>1. z = Known(o.ty, CollapsedTo(w), m)
        BY <2>3, <3>1, <3>5 DEF Result
      <4>2. z.known /\ z.c = CollapsedTo(w) /\ z.marks = m
        BY <4>1 DEF Known
      <4>3. Meaning(v)' = {CollapsedTo(w)}
        BY <1>2, <4>2 DEF Meaning
      <4>4. Candidates(o.ty, w) = {CollapsedTo(w)} /\ w.null = "F"
        BY <1>1, <3>1, <3>5, CollapsedIsOne
      <4> QED BY <3>3, <4>2, <4>3, <4>4 DEF Range
    <3>6. CASE w.null # "T" /\ ~Collapses(o.ty, w)
      <4>1. z = Unknown(o.ty, b, m)
        BY <2>3, <3>1, <3>6 DEF Result
      <4>2. ~z.known /\ z.ref = b /\ z.marks = m /\ z.ty = o.ty
        BY <4>1 DEF Unknown
      <4>3. Meaning(v)' = Range(o.ty, w)
        BY <1>1, <1>2, <3>1, <4>2 DEF Meaning, Range, Candidates
      <4> QED BY <3>3, <4>2, <4>3
    <3> QED BY <3>4, <3>5, <3>6
  <2> QED BY <2>1, <2>2, <2>3
<1>6. /\ AbstractRange[b] = OpenRange(b) /\ AbstractRange[b] \notin {Free, NoRef}
      /\ AbstractMeaning[v] = Free
  BY <1>1, OpenRangeIsRange DEF AbstractRange, AbstractMeaning
<1>7. AbstractMeaning' = [AbstractMeaning EXCEPT ![v] =
        [vals |-> Abstract!Denotes(AbstractRange[b]), marks |-> AbstractRange[b].marks]]
  <2>1. /\ AbstractMeaning = [u \in Values |-> MeaningAt(u)]
        /\ AbstractMeaning' = [u \in Values |-> MeaningAt(u)']
    BY DEF AbstractMeaning, MeaningAt
  <2>2. MeaningAt(v)' =
          [vals |-> Abstract!Denotes(AbstractRange[b]), marks |-> AbstractRange[b].marks]
    <3>1. AbstractRange[b].marks = m
      BY <1>6 DEF OpenRange
    <3> QED BY <1>2, <1>4, <1>5, <1>6, <3>1 DEF MeaningAt
  <2>3. \A u \in Values : u # v => MeaningAt(u)' = MeaningAt(u)
    <3> SUFFICES ASSUME NEW u \in Values, u # v PROVE MeaningAt(u)' = MeaningAt(u)
      OBVIOUS
    <3>1. value[u] # Free => Meaning(u)' = Meaning(u)
      BY MeaningStays
    <3> QED BY <1>2, <3>1 DEF MeaningAt
  <2> QED BY <2>1, <2>2, <2>3
<1>8. AbstractRange' = [AbstractRange EXCEPT ![b] = NoRef]
  <2>1. /\ AbstractRange = [d \in Builders |-> RangeAt(d)]
        /\ AbstractRange' = [d \in Builders |-> RangeAt(d)']
    BY DEF AbstractRange, RangeAt
  <2>2. RangeAt(b)' = NoRef
    BY <1>3 DEF RangeAt
  <2>3. \A d \in Builders : d # b => RangeAt(d)' = RangeAt(d)
    BY <1>1, <1>2, RangeStays
  <2> QED BY <2>1, <2>2, <2>3
<1> QED BY <1>6, <1>7, <1>8 DEF Abstract!Return, Abstract!Open

(* A call narrows, decides, refuses or changes nothing. *)
LEMMA CallNarrows ==
  ASSUME JInv, IInv', ReuseBuilder = FALSE, [Next]_vars,
         NEW b \in Builders, NEW C, Changed(b, C)
  PROVE  \/ Abstract!Narrow(b) \/ Abstract!Decide(b, "T") \/ Abstract!Decide(b, "F")
         \/ Abstract!Refuse(b)
         \/ AbstractMeaning' = AbstractMeaning /\ AbstractRange' = AbstractRange
<1> DEFINE o == builder[b].orig
<1>1. /\ IInv /\ builder[b] # Free /\ builder[b].status = "open"
      /\ builder'[b] # Free /\ builder'[b].orig = o /\ builder'[b].marks = builder[b].marks
      /\ builder'[b].ref = builder[b].ref
  BY DEF Changed, JInv
<1>2. /\ AbstractMeaning' = AbstractMeaning
      /\ AbstractRange' = [AbstractRange EXCEPT ![b] = RangeAt(b)']
  BY OnlyRangeChanges DEF Changed
<1>3. /\ AbstractRange[b] = OpenRange(b) /\ AbstractRange[b] \notin {Free, NoRef}
      /\ AbstractRange = [d \in Builders |-> AbstractRange[d]]
  BY <1>1, OpenRangeIsRange DEF AbstractRange
<1>4. CASE builder'[b].status = "panicked"
  <2>1. RangeAt(b)' = NoRef
    BY <1>1, <1>4 DEF RangeAt
  <2> QED BY <1>2, <1>3, <2>1 DEF Abstract!Refuse, Abstract!Open
<1>5. CASE builder'[b].status = "open"
  <2>1. /\ RangeAt(b)' = OpenRange(b)' /\ AbstractRange'[b] = OpenRange(b)'
        /\ OpenRange(b)' \notin {Free, NoRef}
    <3>1. RangeAt(b)' = OpenRange(b)'
      BY <1>1, <1>5 DEF RangeAt
    <3>2. AbstractRange'[b] = RangeAt(b)'
      BY <1>2, <1>3
    <3>3. OpenRange(b)' \notin {Free, NoRef}
      <4>1. (IInv => \A d \in Builders : builder[d] # Free => OpenRange(d) \notin {Free, NoRef})'
        BY OpenRangesAreOpen, PTL
      <4> QED BY <1>1, <4>1
    <3> QED BY <3>1, <3>2, <3>3
  <2>2. CASE OpenRange(b)' = OpenRange(b)
    BY <1>2, <1>3, <2>1, <2>2
  <2>3. CASE Refining(b) /\ Fits(heap'[b], heap[b], TypeOf(b), C) /\ builder[b].ref = b
    <3>1. /\ ~o.known /\ b # NoRef /\ Wip(b) = heap[b] /\ Wip(b)' = heap'[b]
          /\ TypeOf(b)' = TypeOf(b)
      BY <1>1, <2>3 DEF Refining, InUse, Wip, TypeOf
    <3> DEFINE old == Candidates(TypeOf(b), heap[b])
               new == Candidates(TypeOf(b), heap'[b])
    <3>2. /\ OpenRange(b) = [null |-> heap[b].null, vals |-> old, marks |-> builder[b].marks]
          /\ OpenRange(b)' = [null |-> heap'[b].null, vals |-> new, marks |-> builder[b].marks]
      BY <1>1, <2>3, <3>1 DEF OpenRange, CandidatesOf, Candidates
    <3>3. /\ new \subseteq old /\ new # {}
          /\ heap'[b].null # heap[b].null => heap[b].null = "U" /\ new = old
      <4>1. new \subseteq old /\ (heap'[b].null # heap[b].null => heap[b].null = "U" /\ new = old)
        BY <2>3 DEF Fits
      <4>2. new # {}
        <5>1. CASE heap'[b] = heap[b]
          BY <1>1, <2>3, <3>1, <5>1 DEF JInv, Inhabited, CandidatesOf
        <5>2. CASE heap'[b] # heap[b]
          BY <1>5, <2>3, <5>2 DEF Changed
        <5> QED BY <5>1, <5>2
      <4> QED BY <4>1, <4>2
    <3>4. heap'[b].null \in Tristate
      BY <2>3, TristateOf DEF Fits
    <3> HIDE DEF old, new
    <3>5. CASE heap'[b].null = heap[b].null
      <4>1. /\ AbstractRange'[b].vals = new /\ AbstractRange[b].vals = old
            /\ OpenRange(b)' = [OpenRange(b) EXCEPT !.vals = new]
        BY <1>3, <2>1, <3>2, <3>5
      <4>2. AbstractRange' = [AbstractRange EXCEPT ![b].vals = AbstractRange'[b].vals]
        BY <1>2, <1>3, <2>1, <4>1
      <4> QED BY <1>2, <1>3, <2>1, <3>3, <4>1, <4>2 DEF Abstract!Narrow, Abstract!Open
    <3>6. CASE heap'[b].null # heap[b].null
      <4> DEFINE t == heap'[b].null
      <4>1. t \in {"T", "F"} /\ heap[b].null = "U" /\ new = old
        BY <3>3, <3>4, <3>6 DEF Tristate
      <4>2. /\ AbstractRange[b].null = "U"
            /\ OpenRange(b)' = [OpenRange(b) EXCEPT !.null = t]
        BY <1>3, <3>2, <4>1
      <4> HIDE DEF t
      <4>3. AbstractRange' = [AbstractRange EXCEPT ![b].null = t]
        BY <1>2, <1>3, <2>1, <4>2
      <4> QED BY <1>2, <1>3, <4>1, <4>2, <4>3 DEF Abstract!Decide, Abstract!Open
    <3> QED BY <3>5, <3>6
  <2>4. CASE ~(Refining(b) /\ Fits(heap'[b], heap[b], TypeOf(b), C) /\ builder[b].ref = b)
    <3>1. heap'[b] = heap[b] \/ ~Refining(b)
      BY <2>4 DEF Changed
    <3>2. CASE o.known
      BY <1>1, <2>2, <3>2 DEF OpenRange
    <3>3. CASE ~o.known /\ builder[b].ref = NoRef
      BY <1>1, <2>2, <3>3 DEF OpenRange
    <3>4. CASE ~o.known /\ builder[b].ref # NoRef
      <4>1. Refining(b) /\ builder[b].ref = b
        BY <1>1, <3>4, WipFacts DEF Refining, InUse
      <4>2. Wip(b)' = Wip(b)
        BY <1>1, <3>1, <4>1 DEF Wip
      <4> QED BY <1>1, <2>2, <3>4, <4>2 DEF OpenRange, CandidatesOf, Candidates, TypeOf
    <3> QED BY <3>2, <3>3, <3>4
  <2> QED BY <2>3, <2>4
<1> QED BY <1>4, <1>5 DEF Changed

(* Builders, values and the objects they share implement immutable values  *)
(* whose meaning is a set, refined by shrinking it, with nothing said of   *)
(* how a range is represented.                                             *)
THEOREM ImplementsNarrowing ==
  ASSUME UniverseIsRich, ReuseBuilder = FALSE
  PROVE  Spec => ImplementsRangeNarrowing
<1>1. Init => Abstract!Init
  <2> SUFFICES ASSUME Init PROVE Abstract!Init
    OBVIOUS
  <2>1. PICK x \in InitialValues :
          value = [v \in Values |-> IF v = Root THEN x ELSE Free]
    BY DEF Init
  <2>2. \A v \in Values : v # Root => AbstractMeaning[v] = Free
    BY <2>1 DEF AbstractMeaning
  <2>3. \A b \in Builders : AbstractRange[b] = Free
    BY DEF Init, AbstractRange
  <2> QED BY <2>2, <2>3, ProgramAssumption DEF Abstract!Init, ProgramAssumption
<1>2. ASSUME JInv, [Next]_vars
      PROVE  [Abstract!Next]_(Abstract!avars)
  <2>1. IInv'
    BY <1>2, NextKeepsIInv DEF JInv
  <2>2. CASE AbstractMeaning' = AbstractMeaning /\ AbstractRange' = AbstractRange
    BY <2>2 DEF Abstract!avars
  <2>3. CASE UNCHANGED vars
    <3>1. value' = value /\ builder' = builder /\ heap' = heap
      BY <2>3 DEF vars
    <3>2. AbstractMeaning' = AbstractMeaning /\ AbstractRange' = AbstractRange
      BY <3>1 DEF AbstractMeaning, Meaning, Range, Candidates, AbstractRange, OpenRange, Wip,
         CandidatesOf, TypeOf
    <3> QED BY <2>2, <3>2
  <2>4. CASE Next
    <3>1. PICK b \in Builders :
            \/ \E v \in Values : Refine(b, v) \/ NewValue(b, v)
            \/ \E C : Outcome(b, C)
      BY <1>2, <2>4, StepOutcomes
    <3>2. CASE \E v \in Values : Refine(b, v)
      <4>1. \E v \in Values : Abstract!Begin(b, v)
        BY <1>2, <2>1, <3>2, RefineBegins
      <4> QED BY <4>1 DEF Abstract!Next
    <3>3. CASE \E v \in Values : NewValue(b, v)
      <4>1. \E v \in Values : Abstract!Return(b, v)
        BY <1>2, <2>1, <3>3, NewValueReturns
      <4> QED BY <4>1 DEF Abstract!Next
    <3>4. CASE \E C : Outcome(b, C)
      <4>1. \/ Abstract!Narrow(b) \/ Abstract!Decide(b, "T") \/ Abstract!Decide(b, "F")
            \/ Abstract!Refuse(b)
            \/ AbstractMeaning' = AbstractMeaning /\ AbstractRange' = AbstractRange
        BY <1>2, <2>1, <3>4, OutcomeChanges, CallNarrows
      <4> QED BY <2>2, <4>1 DEF Abstract!Next
    <3> QED BY <3>1, <3>2, <3>3, <3>4
  <2> QED BY <1>2, <2>3, <2>4
<1>3. JInv /\ [Next]_vars => [Abstract!Next]_(Abstract!avars)
  BY <1>2
<1>4. Spec => []JInv
  BY SpecJInv
<1> QED BY <1>1, <1>3, <1>4, PTL DEF Spec, ImplementsRangeNarrowing, Abstract!Spec
=============================================================================
