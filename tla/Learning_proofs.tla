--------------------------- MODULE Learning_proofs ---------------------------
(***************************************************************************)
(* Theorems about evaluating a program of value operations twice, the      *)
(* second time with more known of its inputs: what was said of its results *)
(* the first time stays true.                                              *)
(***************************************************************************)
EXTENDS PartialEvaluation_proofs

----------------------------------------------------------------------------
(* What is known of a value, and of a later value within it.               *)

LEMMA UnknownIs ==
  ASSUME NEW x, IsValue(x), ~x.known
  PROVE  /\ RangeOf(x) = x.rfn
         /\ x.rfn.null \in {"U", "F"}
         /\ x.rfn.kind \in {"nullable", "number", "collection"}
         /\ x.rfn.kind = "number" =>
              /\ x.ty = "number"
              /\ x.rfn.min \in Numbers \cup {NilVal} /\ x.rfn.max \in Numbers \cup {NilVal}
              /\ x.rfn.minInc \in BOOLEAN /\ x.rfn.maxInc \in BOOLEAN
              /\ ConsistentBounds(x.rfn)
         /\ x.rfn.kind = "collection" =>
              /\ x.ty \in {"list", "set"}
              /\ x.rfn.minLen \in Nat /\ x.rfn.maxLen \in Int
              /\ x.rfn.minLen <= x.rfn.maxLen /\ x.rfn.maxLen <= MaxInt
<1>1. RangeOf(x) = x.rfn
  BY DEF RangeOf, IsNull
<1>2. /\ x.rfn \in Refinements /\ x.rfn.null # "T"
      /\ x.rfn.kind \in {"nullable", KindOf(RefinedAs(x.ty))} /\ x.ty \in OperandTypes
      /\ Consistent(x.rfn)
  BY DEF IsValue
<1> DEFINE r == x.rfn
<1> HIDE DEF r
<1>3. /\ KindOf(RefinedAs("number")) = "number"
      /\ KindOf(RefinedAs("bool")) = "nullable" /\ KindOf(RefinedAs("dynamic")) = "nullable"
      /\ KindOf(RefinedAs("list")) = "collection" /\ KindOf(RefinedAs("set")) = "collection"
  BY DEF KindOf, RefinedAs, CollectionTypes
<1>4. /\ r.kind = "number" => x.ty = "number"
      /\ r.kind = "collection" => x.ty \in {"list", "set"}
      /\ r.kind \in {"nullable", "number", "collection"}
  BY <1>2, <1>3 DEF OperandTypes, r
<1>5. r.null \in {"U", "F"}
  BY <1>2 DEF r, Refinements, RefinementNullable, RefinementNumber, RefinementCollection,
     RefinementString, Tristate
<1>6. r.kind = "number" => r \in RefinementNumber
  BY <1>2 DEF r, Refinements, RefinementNullable, RefinementCollection, RefinementString
<1>7. r.kind = "collection" => r \in RefinementCollection
  BY <1>2 DEF r, Refinements, RefinementNullable, RefinementNumber, RefinementString
<1>8. r.kind = "number" => ConsistentBounds(r)
  BY <1>2 DEF r, Consistent
<1>9. r.kind = "collection" => r.minLen <= r.maxLen
  BY <1>2 DEF r, Consistent, ConsistentLengths
<1>10. r.kind = "number" =>
         /\ r.min \in Numbers \cup {NilVal} /\ r.max \in Numbers \cup {NilVal}
         /\ r.minInc \in BOOLEAN /\ r.maxInc \in BOOLEAN
  BY <1>6 DEF RefinementNumber
<1>11. r.kind = "collection" => r.minLen \in Nat /\ r.maxLen \in Int /\ r.maxLen <= MaxInt
  BY <1>7 DEF RefinementCollection
<1> QED BY <1>1, <1>4, <1>5, <1>8, <1>9, <1>10, <1>11 DEF r

(* The range of a known number. *)
LEMMA KnownNumberRange ==
  ASSUME NEW x, x.known, ~IsNull(x), x.ty = "number"
  PROVE  RangeOf(x) = [kind |-> "number", null |-> "F", min |-> x.c, minInc |-> TRUE,
                       max |-> x.c, maxInc |-> TRUE]
BY DEF RangeOf, CollectionTypes

LEMMA KnownNumberParts ==
  ASSUME NEW x, x.known, ~IsNull(x), x.ty = "number"
  PROVE  /\ RangeOf(x).kind = "number" /\ RangeOf(x).null = "F"
         /\ RangeOf(x).min = x.c /\ RangeOf(x).max = x.c
         /\ RangeOf(x).minInc /\ RangeOf(x).maxInc
BY KnownNumberRange

LEMMA KnownBounds ==
  ASSUME NEW x, IsValue(x), Ready("number", x)
  PROVE  /\ LowerBound(RangeOf(x)) = x.c /\ UpperBound(RangeOf(x)) = x.c
         /\ x.c \in Int /\ NegInf <= x.c /\ x.c <= PosInf
<1>1. x.c \in Numbers /\ x.c # NilVal
  BY ReadyNumber, NumberFacts
<1> QED BY <1>1, KnownNumberParts, NumberFacts DEF LowerBound, UpperBound, Ready, IsNull

LEMMA BoundsInOrder ==
  ASSUME NEW x, IsValue(x), x.ty = "number"
  PROVE  LowerBound(RangeOf(x)) <= UpperBound(RangeOf(x))
<1>1. CASE ~x.known
  <2> DEFINE r == x.rfn
  <2>1. /\ RangeOf(x) = r
        /\ r.kind = "number" =>
             /\ r.min \in Numbers \cup {NilVal} /\ r.max \in Numbers \cup {NilVal}
             /\ r.minInc \in BOOLEAN /\ r.maxInc \in BOOLEAN
             /\ ConsistentBounds(r)
    BY <1>1, UnknownIs
  <2> HIDE DEF r
  <2>2. r.kind = "number" /\ r.min # NilVal /\ r.max # NilVal => r.min <= r.max
    <3>1. ASSUME r.kind = "number", r.min # NilVal, r.max # NilVal
          PROVE  r.min \in Int /\ r.max \in Int /\ (r.min < r.max \/ r.min <= r.max)
      BY <2>1, <3>1, NumberFacts DEF ConsistentBounds
    <3> QED BY <3>1
  <2> QED BY <2>1, <2>2, NumberFacts DEF LowerBound, UpperBound
<1>2. CASE IsNull(x)
  <2>1. RangeOf(x) = [kind |-> "nullable", null |-> "T"]
    BY <1>2 DEF RangeOf, IsNull
  <2> QED BY <2>1, NumberFacts DEF LowerBound, UpperBound
<1>3. CASE x.known /\ ~IsNull(x)
  BY <1>3, KnownBounds DEF Ready, IsNull
<1> QED BY <1>1, <1>2, <1>3 DEF IsNull

(* The refinement of an unknown holds of a later value that is not null. *)
LEMMA NotNullWithin ==
  ASSUME NEW v, NEW e, IsValue(v), Within(v, e), ~e.known, ~IsNull(v)
  PROVE  BoundsWithin(RangeOf(v), e.rfn)
<1>1. RangeOf(v).null # "T"
  <2>1. CASE ~v.known
    BY <2>1, UnknownIs
  <2>2. CASE v.known
    <3> DEFINE f == NotNull(Fresh(v.ty))
               g == [f EXCEPT !.minLen = v.c, !.maxLen = v.c]
    <3>1. v.ty \in CollectionTypes => f.null = "F" /\ g.null = "F"
      <4>1. v.ty \in CollectionTypes =>
              Fresh(v.ty) = [kind |-> "collection", null |-> "U", minLen |-> 0, maxLen |-> MaxInt]
        BY DEF Fresh, KindOf, CollectionTypes
      <4>2. v.ty \in CollectionTypes =>
              f = [kind |-> "collection", null |-> "F", minLen |-> 0, maxLen |-> MaxInt]
        BY <4>1 DEF NotNull
      <4> HIDE DEF f
      <4> QED BY <4>2
    <3> HIDE DEF f
    <3>2. RangeOf(v) = CASE v.ty = "number" ->
                [kind |-> "number", null |-> "F",
                 min |-> v.c, minInc |-> TRUE, max |-> v.c, maxInc |-> TRUE]
              [] v.ty \in CollectionTypes -> IF Length(v).known THEN g ELSE f
              [] OTHER -> [kind |-> "nullable", null |-> "F"]
      BY <2>2 DEF RangeOf, f, CollectionTypes
    <3> HIDE DEF g
    <3> QED BY <3>1, <3>2
  <2> QED BY <2>1, <2>2
<1> QED BY <1>1 DEF Within, RangeWithin

(* Bounds only come closer. *)
LEMMA BoundsNarrow ==
  ASSUME NEW v, NEW e, IsValue(v), IsValue(e), Within(v, e), ~IsNull(v),
         v.ty = "number", e.ty = "number"
  PROVE  /\ LowerBound(RangeOf(e)) <= LowerBound(RangeOf(v))
         /\ UpperBound(RangeOf(v)) <= UpperBound(RangeOf(e))
<1> DEFINE r == RangeOf(v)
<1>1. CASE e.known
  <2>1. v.known /\ v.c = e.c /\ ~IsNull(e)
    BY <1>1 DEF Within, IsNull, IsValue
  <2>2. Ready("number", v) /\ Ready("number", e)
    BY <1>1, <2>1 DEF Ready, IsNull
  <2> QED BY <2>1, <2>2, KnownBounds
<1>2. CASE ~e.known
  <2>1. BoundsWithin(r, e.rfn)
    BY <1>2, NotNullWithin
  <2>2. LowerBound(r) \in Numbers /\ UpperBound(r) \in Numbers
    BY BoundsAreNumbers
  <2>3. RangeOf(e) = e.rfn /\ e.rfn.kind \in {"nullable", "number"}
    BY <1>2, UnknownIs
  <2>4. e.rfn.kind = "number" =>
          e.rfn.min \in Numbers \cup {NilVal} /\ e.rfn.max \in Numbers \cup {NilVal}
    BY <1>2, UnknownIs
  <2>5. /\ r.kind = "number" /\ r.min # NilVal => LowerBound(r) = r.min
        /\ r.kind = "number" /\ r.max # NilVal => UpperBound(r) = r.max
    BY DEF LowerBound, UpperBound
  <2> HIDE DEF r
  <2>6. CASE e.rfn.kind = "nullable"
    BY <2>2, <2>3, <2>6, NumberFacts DEF LowerBound, UpperBound, r
  <2>7. CASE e.rfn.kind = "number"
    BY <2>1, <2>2, <2>3, <2>4, <2>5, <2>7, NumberFacts
       DEF BoundsWithin, LowerWithin, UpperWithin, LowerBound, UpperBound, r
  <2> QED BY <2>3, <2>6, <2>7
<1> QED BY <1>1, <1>2

----------------------------------------------------------------------------
(* The values that operations make are no panics.                          *)

LEMMA KnownIsNoPanic ==
  ASSUME NEW ty \in OperandTypes, NEW c \in Int \cup BOOLEAN \cup {Null}
  PROVE  Known(ty, c) # Panicked
<1>1. Known(ty, c) \in KnownShape
  BY DEF Known, KnownShape
<1> QED BY <1>1, MarkersAssumption DEF MarkersAssumption

LEMMA UnknownNumberIsNoPanic ==
  ASSUME NEW a \in Int \cup {NilVal}, NEW b \in Int \cup {NilVal},
         NEW aInc \in BOOLEAN, NEW bInc \in BOOLEAN
  PROVE  Unknown("number", [kind |-> "number", null |-> "F", min |-> a, minInc |-> aInc,
                            max |-> b, maxInc |-> bInc]) # Panicked
<1> DEFINE r == [kind |-> "number", null |-> "F", min |-> a, minInc |-> aInc,
                 max |-> b, maxInc |-> bInc]
<1>1. r \in [kind : {"number"}, null : Tristate, min : Int \cup {NilVal}, minInc : BOOLEAN,
             max : Int \cup {NilVal}, maxInc : BOOLEAN]
  BY DEF Tristate
<1> HIDE DEF r
<1>2. Unknown("number", r) \in UnknownShape
  BY <1>1 DEF Unknown, UnknownShape, OperandTypes
<1>3. Unknown("number", r) # Panicked
  BY <1>2, MarkersAssumption DEF MarkersAssumption
<1> QED BY <1>3 DEF r

LEMMA NoPanics ==
  /\ \A n \in Int : Known("number", n) # Panicked
  /\ \A lo, hi \in Int : NumberBetween(lo, hi) # Panicked
  /\ UnknownNotNull("number") # Panicked /\ Literal(0) # Panicked
  /\ True # Panicked /\ False # Panicked /\ UnknownNotNull("bool") # Panicked
<1>1. \A n \in Int : Known("number", n) # Panicked
  BY KnownIsNoPanic DEF OperandTypes
<1>2. True # Panicked /\ False # Panicked
  BY KnownIsNoPanic DEF OperandTypes, True, False
<1>3. UnknownNotNull("number") # Panicked
  <2> DEFINE no == FALSE
  <2>1. no \in BOOLEAN
    OBVIOUS
  <2>2. UnknownNotNull("number") =
          Unknown("number", [kind |-> "number", null |-> "F", min |-> NilVal, minInc |-> no,
                             max |-> NilVal, maxInc |-> no])
    BY UnknownNumberNotNull DEF Unknown
  <2> HIDE DEF no
  <2> QED BY <2>1, <2>2, UnknownNumberIsNoPanic
<1>4. UnknownNotNull("bool") # Panicked
  <2> DEFINE r == [kind |-> "nullable", null |-> "F"]
             w == [ty |-> "bool", known |-> FALSE, rfn |-> r]
  <2>1. r \in RefinementNullable
    BY DEF RefinementNullable, Tristate
  <2> HIDE DEF r
  <2>2. w \in UnknownShape
    BY <2>1 DEF UnknownShape, OperandTypes
  <2> QED BY <2>2, UnknownBoolNotNull, MarkersAssumption DEF MarkersAssumption, r
<1>5. Literal(0) # Panicked
  <2> DEFINE k == Known("number", 0)
  <2>1. k \in KnownShape
    BY DEF Known, KnownShape, OperandTypes
  <2>2. Literal(0) = [k EXCEPT !.lit = TRUE]
    BY DEF Literal
  <2> HIDE DEF k
  <2>3. Literal(0) \in KnownShape
    BY <2>1, <2>2 DEF KnownShape
  <2> QED BY <2>3, MarkersAssumption DEF MarkersAssumption
<1>6. ASSUME NEW lo \in Int, NEW hi \in Int PROVE NumberBetween(lo, hi) # Panicked
  <2> DEFINE a == IF lo = NegInf THEN NilVal ELSE lo
             b == IF hi = PosInf THEN NilVal ELSE hi
             aInc == lo # NegInf
             bInc == hi # PosInf
  <2>1. a \in Int \cup {NilVal} /\ b \in Int \cup {NilVal} /\ aInc \in BOOLEAN /\ bInc \in BOOLEAN
    OBVIOUS
  <2>2. Bounded(lo, hi) = [kind |-> "number", null |-> "F", min |-> a, minInc |-> aInc,
                           max |-> b, maxInc |-> bInc]
    BY DEF Bounded
  <2> HIDE DEF a, b, aInc, bInc
  <2>3. Unknown("number", Bounded(lo, hi)) # Panicked
    BY <2>1, <2>2, UnknownNumberIsNoPanic
  <2> QED BY <1>1, <2>3, NumberBetweenIs
<1> QED BY <1>1, <1>2, <1>3, <1>4, <1>5, <1>6

----------------------------------------------------------------------------
(* What a late result l has to be for an early result e, when the program  *)
(* goes on with both.                                                      *)
Follows(l, e) ==
  (e # Panicked /\ l # Panicked /\ InUniverse(e) /\ InUniverse(l)) => Within(l, e)

(* A number, or a panic. *)
Numeric(z) == Good(z) /\ (z # Panicked => z.ty = "number")

LEMMA NumericRange ==
  ASSUME NEW z, Numeric(z), z # Panicked, InUniverse(z)
  PROVE  /\ IsValue(z) /\ z.ty = "number" /\ ~IsNull(z)
         /\ RangeOf(z).null = "F" /\ RangeOf(z).kind \in {"nullable", "number"}
<1>1. IsValue(z) /\ z.ty = "number" /\ DefinitelyNotNull(z)
  BY DEF Numeric, Good
<1>2. CASE z.known
  BY <1>1, <1>2, KnownNumberParts DEF DefinitelyNotNull
<1>3. CASE ~z.known
  BY <1>1, <1>3, UnknownIs DEF DefinitelyNotNull, IsNull
<1> QED BY <1>2, <1>3

(* Any number follows the unknown number that is only not null. *)
LEMMA FollowsAnyNumber ==
  ASSUME NEW z, Numeric(z)
  PROVE  Follows(z, UnknownNotNull("number"))
<1> DEFINE w == UnknownNotNull("number")
<1>1. /\ ~w.known /\ w.ty = "number" /\ w.rfn.null = "F" /\ w.rfn.kind = "number"
      /\ w.rfn.min = NilVal /\ w.rfn.max = NilVal
  BY UnknownNumberNotNull
<1> HIDE DEF w
<1>2. ASSUME z # Panicked, InUniverse(z) PROVE Within(z, w)
  <2>1. z.ty = "number" /\ RangeOf(z).null = "F"
    BY <1>2, NumericRange
  <2>2. BoundsWithin(RangeOf(z), w.rfn)
    BY <1>1 DEF BoundsWithin, LowerWithin, UpperWithin
  <2> QED BY <1>1, <2>1, <2>2 DEF Within, RangeWithin
<1> QED BY <1>2 DEF Follows, w

(* A known number between the bounds of an unknown one. *)
LEMMA FollowsBetween ==
  ASSUME NEW z, Numeric(z), z # Panicked => z.known,
         NEW lo \in Int, NEW hi \in Int,
         z # Panicked /\ InUniverse(z) => lo <= z.c /\ z.c <= hi
  PROVE  Follows(z, NumberBetween(lo, hi))
<1> SUFFICES ASSUME z # Panicked, InUniverse(z)
             PROVE  Within(z, NumberBetween(lo, hi))
  BY DEF Follows
<1>1. /\ z.known /\ z.ty = "number" /\ ~IsNull(z) /\ z.whole
      /\ z.c \in Int /\ lo <= z.c /\ z.c <= hi /\ z.c # NilVal
  <2>1. IsValue(z) /\ z.known /\ ~IsNull(z) /\ z.ty = "number"
    BY NumericRange
  <2>2. Ready("number", z)
    BY <2>1 DEF Ready, IsNull
  <2>3. z.c \in Int
    BY <2>1, <2>2, ReadyNumber
  <2> QED BY <2>1, <2>3, NumberFacts DEF Numeric, Good, Plain
<1>2. CASE lo = hi /\ lo # NegInf /\ hi # PosInf
  <2>1. NumberBetween(lo, hi) = Known("number", lo)
    BY <1>2, NumberBetweenIs
  <2>2. z.c = lo
    BY <1>1, <1>2
  <2> QED BY <1>1, <2>1, <2>2 DEF Within, Known
<1>3. CASE ~(lo = hi /\ lo # NegInf /\ hi # PosInf)
  <2> DEFINE s == Bounded(lo, hi)
             r == RangeOf(z)
  <2>1. NumberBetween(lo, hi) = Unknown("number", s)
    BY <1>3, NumberBetweenIs
  <2>2. /\ s.kind = "number" /\ s.null = "F"
        /\ s.min = NilVal \/ (s.min = lo /\ s.minInc)
        /\ s.max = NilVal \/ (s.max = hi /\ s.maxInc)
    BY DEF Bounded
  <2>3. r.kind = "number" /\ r.null = "F" /\ r.min = z.c /\ r.max = z.c
    BY <1>1, KnownNumberParts
  <2> HIDE DEF s, r
  <2>4. LowerWithin(r, s) /\ UpperWithin(r, s)
    BY <1>1, <2>2, <2>3 DEF LowerWithin, UpperWithin
  <2>5. RangeWithin(r, s)
    BY <2>2, <2>3, <2>4 DEF RangeWithin, BoundsWithin
  <2> QED BY <1>1, <2>1, <2>5 DEF Within, Unknown, r
<1> QED BY <1>2, <1>3

(* Narrower bounds. *)
LEMMA BetweenNarrows ==
  ASSUME NEW lo \in Int, NEW hi \in Int, NEW m \in Int, NEW n \in Int,
         m <= n,
         InUniverse(NumberBetween(lo, hi)) /\ InUniverse(NumberBetween(m, n)) =>
           lo <= m /\ n <= hi
  PROVE  Follows(NumberBetween(m, n), NumberBetween(lo, hi))
<1> SUFFICES ASSUME InUniverse(NumberBetween(lo, hi)), InUniverse(NumberBetween(m, n))
             PROVE  Within(NumberBetween(m, n), NumberBetween(lo, hi))
  BY DEF Follows
<1>1. lo <= m /\ n <= hi
  OBVIOUS
<1>2. CASE m = n /\ m # NegInf /\ n # PosInf
  <2>1. NumberBetween(m, n) = Known("number", m)
    BY <1>2, NumberBetweenIs
  <2>2. Numeric(Known("number", m)) /\ Known("number", m).known /\ Known("number", m).c = m
    BY KnownNumberIsGood DEF Numeric, Known
  <2>3. Follows(NumberBetween(m, n), NumberBetween(lo, hi))
    BY <1>1, <1>2, <2>1, <2>2, FollowsBetween
  <2> QED BY <2>3, NoPanics DEF Follows
<1>3. CASE ~(m = n /\ m # NegInf /\ n # PosInf)
  <2> DEFINE s == Bounded(lo, hi)
             r == Bounded(m, n)
  <2>1. NumberBetween(m, n) = Unknown("number", r)
    BY <1>3, NumberBetweenIs
  <2>2. CASE lo = hi /\ lo # NegInf /\ hi # PosInf
    BY <1>1, <1>3, <2>2
  <2>3. CASE ~(lo = hi /\ lo # NegInf /\ hi # PosInf)
    <3>1. NumberBetween(lo, hi) = Unknown("number", s)
      BY <2>3, NumberBetweenIs
    <3>2. /\ s.kind = "number" /\ s.null = "F"
          /\ s.min = (IF lo = NegInf THEN NilVal ELSE lo) /\ (lo # NegInf => s.minInc)
          /\ s.max = (IF hi = PosInf THEN NilVal ELSE hi) /\ (hi # PosInf => s.maxInc)
      BY DEF Bounded
    <3>3. /\ r.kind = "number" /\ r.null = "F"
          /\ r.min = (IF m = NegInf THEN NilVal ELSE m)
          /\ r.max = (IF n = PosInf THEN NilVal ELSE n)
      BY DEF Bounded
    <3>4. RangeOf(Unknown("number", r)) = r
      BY DEF RangeOf, Unknown, IsNull
    <3> HIDE DEF s, r
    <3>5. s.min \in Numbers \cup {NilVal} /\ s.max \in Numbers \cup {NilVal}
      BY <3>1, <3>2 DEF InUniverse, Unknown
    <3>6. LowerWithin(r, s) /\ UpperWithin(r, s)
      BY <1>1, <3>2, <3>3, <3>5, NumberFacts DEF LowerWithin, UpperWithin
    <3>7. RangeWithin(r, s)
      BY <3>2, <3>3, <3>6 DEF RangeWithin, BoundsWithin
    <3> QED BY <2>1, <3>1, <3>4, <3>7 DEF Within, Unknown
  <2> QED BY <2>2, <2>3
<1> QED BY <1>2, <1>3

----------------------------------------------------------------------------
(* The shape of an operation, evaluated early on x and y, late on u and v. *)

Pending(u, v) == (IsNull(u) /\ ~v.known) \/ (IsNull(v) /\ ~u.known)

Sound(l, e, pending) ==
  /\ e = Panicked => l = Panicked
  /\ ~pending => Follows(l, e)

LEMMA SoundFollows ==
  ASSUME NEW l, NEW e, NEW pending, e # Panicked, ~pending => Follows(l, e)
  PROVE  Sound(l, e, pending)
BY DEF Sound

LEMMA SoundPanic == ASSUME NEW e, NEW pending PROVE Sound(Panicked, e, pending)
BY DEF Sound, Follows

(* A later value has the same type, and what was known is still there. *)
LEMMA SameType ==
  ASSUME NEW u, NEW x, IsValue(u), IsValue(x), Within(u, x)
  PROVE  /\ u.ty = x.ty \/ (~x.known /\ x.ty = "dynamic")
         /\ x.known => /\ u.known /\ u.ty = x.ty
                       /\ IsNull(x) <=> IsNull(u)
                       /\ x.ty # "set" => u.c = x.c
         /\ DefinitelyNotNull(x) => ~IsNull(u)
<1>1. CASE x.known
  <2>1. u.known /\ u.ty = x.ty
    BY <1>1 DEF Within
  <2>2. CASE x.whole
    BY <1>1, <2>1, <2>2 DEF Within, IsNull, DefinitelyNotNull
  <2>3. CASE ~x.whole
    <3>1. x.ty = "set" /\ x.c \in 1 .. MaxInt
      BY <1>1, <2>3 DEF IsValue
    <3>2. ~IsNull(x)
      BY <3>1, NullAssumption, LengthsAssumption DEF NullAssumption, LengthsAssumption, IsNull
    <3>3. ~IsNull(u)
      BY <1>1, <2>3 DEF Within
    <3> QED BY <1>1, <2>1, <3>1, <3>2, <3>3
  <2> QED BY <2>2, <2>3
<1>2. CASE ~x.known
  <2>1. u.ty = x.ty \/ x.ty = "dynamic"
    BY <1>2 DEF Within
  <2>2. ASSUME x.rfn.null = "F", IsNull(u) PROVE FALSE
    <3>1. RangeOf(u).null = "T"
      BY <2>2 DEF RangeOf, IsNull
    <3>2. RangeOf(u).null = "F"
      BY <1>2, <2>2 DEF Within, RangeWithin
    <3> QED BY <3>1, <3>2
  <2> QED BY <1>2, <2>1, <2>2 DEF DefinitelyNotNull
<1> QED BY <1>1, <1>2

(* What it takes: of results computed late where the early ones were short *)
(* of an operand, of results short both times, and of results computed     *)
(* both times.                                                             *)
Resolves(required, x, y, u, v, e, r, e2, r2) ==
  /\ /\ Ready(required, u) /\ Ready(required, v) /\ Typed(required, x) /\ Typed(required, y)
     /\ ~(Ready(required, x) /\ Ready(required, y))
     => Follows(r2, e)
  /\ /\ u.ty = required /\ v.ty = required /\ Typed(required, x) /\ Typed(required, y)
     /\ ~IsNull(u) /\ ~IsNull(v) /\ ~(u.known /\ v.known)
     => Follows(e2, e)
  /\ /\ Typed(required, x) /\ Typed(required, y) /\ Typed(required, u) /\ Typed(required, v)
     /\ x.ty = "dynamic" \/ y.ty = "dynamic"
     => Follows(e2, e)
  /\ /\ Ready(required, x) /\ Ready(required, y) /\ Ready(required, u) /\ Ready(required, v)
     /\ u.c = x.c /\ v.c = y.c
     => Sound(r2, r, FALSE)

LEMMA LearnTwo ==
  ASSUME NEW required \in {"number", "bool"},
         NEW x, NEW y, NEW u, NEW v, NEW e, NEW r, NEW e2, NEW r2,
         IsValue(x), IsValue(y), IsValue(u), IsValue(v), Within(u, x), Within(v, y),
         e # Panicked, Resolves(required, x, y, u, v, e, r, e2, r2)
  PROVE  Sound(TypeChecked(required, <<u, v>>, e2, r2),
               TypeChecked(required, <<x, y>>, e, r), Pending(u, v))
<1> DEFINE xs == <<x, y>>
           us == <<u, v>>
<1>1. /\ DOMAIN xs = {1, 2} /\ xs[1] = x /\ xs[2] = y
      /\ DOMAIN us = {1, 2} /\ us[1] = u /\ us[2] = v
  OBVIOUS
<1>2. required # "dynamic" /\ required # "set"
  OBVIOUS
<1>3. /\ u.ty = x.ty \/ (~x.known /\ x.ty = "dynamic")
      /\ v.ty = y.ty \/ (~y.known /\ y.ty = "dynamic")
      /\ x.known => /\ u.known /\ u.ty = x.ty /\ (IsNull(x) <=> IsNull(u))
                    /\ x.ty # "set" => u.c = x.c
      /\ y.known => /\ v.known /\ v.ty = y.ty /\ (IsNull(y) <=> IsNull(v))
                    /\ y.ty # "set" => v.c = y.c
  BY SameType
<1> HIDE DEF xs, us
<1> DEFINE E == TypeChecked(required, xs, e, r)
           L == TypeChecked(required, us, e2, r2)
<1>4. /\ Mismatch(required, xs) <=> ~(Typed(required, x) /\ Typed(required, y))
      /\ Mismatch(required, us) <=> ~(Typed(required, u) /\ Typed(required, v))
  BY <1>1 DEF Mismatch, Typed
<1>5. /\ ShortCircuit(xs) <=> x.ty = "dynamic" \/ ~x.known \/ y.ty = "dynamic" \/ ~y.known
      /\ ShortCircuit(us) <=> u.ty = "dynamic" \/ ~u.known \/ v.ty = "dynamic" \/ ~v.known
  BY <1>1 DEF ShortCircuit
<1>6. /\ AnyNull(xs) <=> IsNull(x) \/ IsNull(y)
      /\ AnyNull(us) <=> IsNull(u) \/ IsNull(v)
  BY <1>1 DEF AnyNull
<1>7. /\ ~Mismatch(required, us) /\ ~ShortCircuit(us) /\ ~AnyNull(us)
           => Ready(required, u) /\ Ready(required, v)
      /\ ~Mismatch(required, xs) /\ ~ShortCircuit(xs) /\ ~AnyNull(xs)
           => Ready(required, x) /\ Ready(required, y)
      /\ Ready(required, x) /\ Ready(required, y) => ~ShortCircuit(xs)
  BY <1>2, <1>4, <1>5, <1>6 DEF Ready, Typed, IsNull
<1>8. Sound(L, E, Pending(u, v))
  <2>1. CASE Mismatch(required, xs)
    <3>1. Mismatch(required, us)
      BY <2>1, <1>3, <1>4 DEF Typed
    <3> QED BY <3>1, SoundPanic DEF TypeChecked
  <2>2. CASE Mismatch(required, us) \/ (~ShortCircuit(us) /\ AnyNull(us) /\ ~Mismatch(required, us))
    BY <2>2, SoundPanic DEF TypeChecked
  <2>3. CASE /\ ~Mismatch(required, xs) /\ ShortCircuit(xs)
             /\ ~Mismatch(required, us) /\ ShortCircuit(us)
    <3>1. E = e /\ L = e2
      BY <2>3 DEF TypeChecked
    <3>2. CASE x.ty = "dynamic" \/ y.ty = "dynamic"
      BY <2>3, <3>1, <3>2, <1>4, SoundFollows DEF Resolves
    <3>3. CASE ~(x.ty = "dynamic" \/ y.ty = "dynamic")
      <4>1. u.ty = required /\ v.ty = required /\ ~(u.known /\ v.known)
        BY <2>3, <3>3, <1>2, <1>3, <1>4, <1>5 DEF Typed
      <4>2. ~Pending(u, v) => ~IsNull(u) /\ ~IsNull(v)
        BY <4>1 DEF Pending, IsNull
      <4>3. ~Pending(u, v) => Follows(e2, e)
        BY <2>3, <4>1, <4>2, <1>4 DEF Resolves
      <4> QED BY <3>1, <4>3, SoundFollows
    <3> QED BY <3>2, <3>3
  <2>4. CASE /\ ~Mismatch(required, xs) /\ ShortCircuit(xs)
             /\ ~Mismatch(required, us) /\ ~ShortCircuit(us) /\ ~AnyNull(us)
    <3>1. E = e /\ L = r2
      BY <2>4 DEF TypeChecked
    <3>2. Follows(r2, e)
      BY <2>4, <1>4, <1>7 DEF Resolves
    <3> QED BY <3>1, <3>2, SoundFollows
  <2>5. CASE ~Mismatch(required, xs) /\ ~ShortCircuit(xs) /\ ~Mismatch(required, us)
    <3>1. x.known /\ y.known /\ u.known /\ v.known /\ x.ty = required /\ y.ty = required
      BY <2>5, <1>3, <1>4, <1>5 DEF Typed
    <3>2. ~ShortCircuit(us) /\ (AnyNull(us) <=> AnyNull(xs))
      BY <3>1, <1>2, <1>3, <1>5, <1>6
    <3>3. CASE AnyNull(us)
      BY <2>5, <3>2, <3>3, SoundPanic DEF TypeChecked
    <3>4. CASE ~AnyNull(us)
      <4>1. E = r /\ L = r2
        BY <2>5, <3>2, <3>4 DEF TypeChecked
      <4>2. Sound(r2, r, FALSE)
        BY <2>5, <3>1, <3>2, <3>4, <1>2, <1>3, <1>7 DEF Resolves
      <4> QED BY <4>1, <4>2 DEF Sound
    <3> QED BY <3>3, <3>4
  <2> QED BY <2>1, <2>2, <2>3, <2>4, <2>5
<1> QED BY <1>8 DEF xs, us

LEMMA LearnOne ==
  ASSUME NEW required \in {"number", "bool"},
         NEW x, NEW u, NEW e, NEW r, NEW r2,
         IsValue(x), IsValue(u), Within(u, x), e # Panicked, Follows(e, e),
         Ready(required, u) => Follows(r2, e),
         Ready(required, x) /\ Ready(required, u) /\ u.c = x.c => Sound(r2, r, FALSE)
  PROVE  Sound(TypeChecked(required, <<u>>, e, r2), TypeChecked(required, <<x>>, e, r), FALSE)
<1> DEFINE xs == <<x>>
           us == <<u>>
<1>1. /\ DOMAIN xs = {1} /\ xs[1] = x /\ DOMAIN us = {1} /\ us[1] = u
  OBVIOUS
<1>2. required # "dynamic" /\ required # "set"
  OBVIOUS
<1>3. /\ u.ty = x.ty \/ (~x.known /\ x.ty = "dynamic")
      /\ x.known => /\ u.known /\ u.ty = x.ty /\ (IsNull(x) <=> IsNull(u))
                    /\ x.ty # "set" => u.c = x.c
  BY SameType
<1> HIDE DEF xs, us
<1> DEFINE E == TypeChecked(required, xs, e, r)
           L == TypeChecked(required, us, e, r2)
<1>4. /\ Mismatch(required, xs) <=> ~Typed(required, x)
      /\ Mismatch(required, us) <=> ~Typed(required, u)
      /\ ShortCircuit(xs) <=> x.ty = "dynamic" \/ ~x.known
      /\ ShortCircuit(us) <=> u.ty = "dynamic" \/ ~u.known
      /\ AnyNull(xs) <=> IsNull(x)
      /\ AnyNull(us) <=> IsNull(u)
  BY <1>1 DEF Mismatch, Typed, ShortCircuit, AnyNull
<1>5. /\ Typed(required, u) /\ ~ShortCircuit(us) /\ ~IsNull(u) => Ready(required, u)
      /\ Typed(required, x) /\ ~ShortCircuit(xs) /\ ~IsNull(x) => Ready(required, x)
  BY <1>2, <1>4 DEF Ready, Typed, IsNull
<1>6. Sound(L, E, FALSE)
  <2>1. CASE Mismatch(required, xs) \/ Mismatch(required, us)
    <3>1. Mismatch(required, us)
      BY <2>1, <1>3, <1>4 DEF Typed
    <3> QED BY <3>1, SoundPanic DEF TypeChecked
  <2>2. CASE ~Mismatch(required, us) /\ ~ShortCircuit(us) /\ AnyNull(us)
    BY <2>2, SoundPanic DEF TypeChecked
  <2>3. CASE ~Mismatch(required, xs) /\ ~Mismatch(required, us) /\ ShortCircuit(xs) /\ ShortCircuit(us)
    <3>1. E = e /\ L = e
      BY <2>3 DEF TypeChecked
    <3> QED BY <3>1, SoundFollows
  <2>4. CASE /\ ~Mismatch(required, xs) /\ ~Mismatch(required, us) /\ ShortCircuit(xs)
             /\ ~ShortCircuit(us) /\ ~AnyNull(us)
    <3>1. E = e /\ L = r2
      BY <2>4 DEF TypeChecked
    <3>2. Follows(r2, e)
      BY <2>4, <1>4, <1>5
    <3> QED BY <3>1, <3>2, SoundFollows
  <2>5. CASE /\ ~Mismatch(required, xs) /\ ~Mismatch(required, us) /\ ~ShortCircuit(xs)
             /\ ~AnyNull(us)
    <3>1. x.known /\ u.known /\ x.ty = required /\ ~ShortCircuit(us) /\ ~AnyNull(xs)
      BY <2>5, <1>2, <1>3, <1>4 DEF Typed
    <3>2. E = r /\ L = r2
      BY <2>5, <3>1 DEF TypeChecked
    <3>3. Sound(r2, r, FALSE)
      BY <2>5, <3>1, <1>2, <1>3, <1>4, <1>5
    <3> QED BY <3>2, <3>3
  <2>6. ~ShortCircuit(xs) => ~ShortCircuit(us)
    BY <1>3, <1>4
  <2> QED BY <2>1, <2>2, <2>3, <2>4, <2>5, <2>6
<1> QED BY <1>6 DEF xs, us

----------------------------------------------------------------------------
(* Boolean operations.                                                     *)

LEMMA FollowsItself == ASSUME NEW z, Good(z) PROVE Follows(z, z)
BY WithinItself DEF Follows, Good

LEMMA FollowsAnyAnswer ==
  ASSUME NEW z, Answer(z)
  PROVE  Follows(z, UnknownNotNull("bool"))
<1> DEFINE w == UnknownNotNull("bool")
<1>1. ~w.known /\ w.ty = "bool" /\ w.rfn.null = "F" /\ w.rfn.kind = "nullable"
  BY UnknownBoolNotNull
<1>2. ASSUME z # Panicked PROVE Within(z, w)
  <2>1. IsValue(z) /\ DefinitelyNotNull(z) /\ z.ty = "bool"
    BY <1>2, AnswerIsValue DEF Answer
  <2>2. RangeOf(z).null = "F"
    <3>1. CASE z.known
      <4>1. RangeOf(z) = [kind |-> "nullable", null |-> "F"]
        BY <2>1, <3>1 DEF RangeOf, DefinitelyNotNull, CollectionTypes
      <4> QED BY <4>1
    <3>2. CASE ~z.known
      BY <2>1, <3>2, UnknownIs DEF DefinitelyNotNull
    <3> QED BY <3>1, <3>2
  <2> HIDE DEF w
  <2> QED BY <1>1, <2>1, <2>2 DEF Within, RangeWithin, BoundsWithin
<1> QED BY <1>2 DEF Follows

LEMMA AnswersFollowThemselves ==
  /\ Follows(True, True) /\ Follows(False, False)
  /\ Follows(UnknownNotNull("bool"), UnknownNotNull("bool"))
BY AnswerIsGood, FollowsItself DEF Answer

(* An operand that decides And or Or still does. *)
LEMMA KnownStays ==
  ASSUME NEW u, NEW x, IsValue(u), IsValue(x), Within(u, x)
  PROVE  /\ IsFalse(x) /\ Typed("bool", x) => IsFalse(u)
         /\ IsTrue(x) /\ Typed("bool", x) => IsTrue(u)
BY SameType DEF IsFalse, IsTrue, Typed

LEMMA NotIsSound ==
  ASSUME NEW x, NEW u, IsValue(x), IsValue(u), Within(u, x)
  PROVE  Sound(Not(u), Not(x), FALSE)
<1> DEFINE e == UnknownNotNull("bool")
           r == Known("bool", ~x.c)
           r2 == Known("bool", ~u.c)
<1>1. (~x.c) \in BOOLEAN /\ (~u.c) \in BOOLEAN
  OBVIOUS
<1>2. Answer(r) /\ Answer(r2) /\ r # Panicked
  BY <1>1, KnownAnswer, KnownIsNoPanic DEF OperandTypes
<1>3. e # Panicked /\ Follows(e, e) /\ Follows(r2, e)
  BY <1>2, NoPanics, AnswersFollowThemselves, FollowsAnyAnswer
<1>4. u.c = x.c => Sound(r2, r, FALSE)
  <2> SUFFICES ASSUME u.c = x.c PROVE Sound(r2, r, FALSE)
    OBVIOUS
  <2>1. r2 = r
    OBVIOUS
  <2> HIDE DEF r, r2
  <2>2. Follows(r, r)
    BY <1>2, AnswerIsGood, FollowsItself
  <2> QED BY <1>2, <2>1, <2>2, SoundFollows
<1> HIDE DEF e, r, r2
<1>5. Sound(TypeChecked("bool", <<u>>, e, r2), TypeChecked("bool", <<x>>, e, r), FALSE)
  BY <1>3, <1>4, LearnOne
<1> QED BY <1>5 DEF Not, e, r, r2

LEMMA AndIsSound ==
  ASSUME NEW x, NEW y, NEW u, NEW v, IsValue(x), IsValue(y), IsValue(u), IsValue(v),
         Within(u, x), Within(v, y)
  PROVE  Sound(And(u, v), And(x, y), Pending(u, v))
<1> DEFINE e == IF IsFalse(x) \/ IsFalse(y) THEN False ELSE UnknownNotNull("bool")
           e2 == IF IsFalse(u) \/ IsFalse(v) THEN False ELSE UnknownNotNull("bool")
           r == Known("bool", x.c /\ y.c)
           r2 == Known("bool", u.c /\ v.c)
<1>1. (x.c /\ y.c) \in BOOLEAN /\ (u.c /\ v.c) \in BOOLEAN
  OBVIOUS
<1>2. Answer(r) /\ Answer(r2) /\ r # Panicked /\ r2 # Panicked
  BY <1>1, KnownAnswer, KnownIsNoPanic DEF OperandTypes
<1>3. e # Panicked /\ Answer(e) /\ Answer(e2)
  BY NoPanics DEF Answer
<1>4. ASSUME Typed("bool", x), Typed("bool", y) PROVE Follows(e2, e)
  <2>1. CASE IsFalse(x) \/ IsFalse(y)
    BY <1>4, <2>1, KnownStays, AnswersFollowThemselves
  <2>2. CASE ~(IsFalse(x) \/ IsFalse(y))
    BY <1>3, <2>2, FollowsAnyAnswer
  <2> QED BY <2>1, <2>2
<1>5. ASSUME Typed("bool", x), Typed("bool", y), Ready("bool", u), Ready("bool", v)
      PROVE  Follows(r2, e)
  <2>1. CASE IsFalse(x) \/ IsFalse(y)
    <3>1. u.c = FALSE \/ v.c = FALSE
      BY <1>5, <2>1, KnownStays DEF IsFalse
    <3>2. (u.c /\ v.c) = FALSE
      BY <3>1
    <3>3. r2 = False
      BY <3>2 DEF False
    <3> QED BY <2>1, <3>3, AnswersFollowThemselves
  <2>2. CASE ~(IsFalse(x) \/ IsFalse(y))
    BY <1>2, <2>2, FollowsAnyAnswer
  <2> QED BY <2>1, <2>2
<1>6. u.c = x.c /\ v.c = y.c => Sound(r2, r, FALSE)
  <2> SUFFICES ASSUME u.c = x.c, v.c = y.c PROVE Sound(r2, r, FALSE)
    OBVIOUS
  <2>1. r2 = r
    OBVIOUS
  <2> HIDE DEF r, r2
  <2>2. Follows(r, r)
    BY <1>2, AnswerIsGood, FollowsItself
  <2> QED BY <1>2, <2>1, <2>2, SoundFollows
<1> HIDE DEF e, r, e2, r2
<1>7. Resolves("bool", x, y, u, v, e, r, e2, r2)
  BY <1>4, <1>5, <1>6 DEF Resolves
<1>8. Sound(TypeChecked("bool", <<u, v>>, e2, r2), TypeChecked("bool", <<x, y>>, e, r),
            Pending(u, v))
  BY <1>3, <1>7, LearnTwo
<1> QED BY <1>8 DEF And, e, r, e2, r2

LEMMA OrIsSound ==
  ASSUME NEW x, NEW y, NEW u, NEW v, IsValue(x), IsValue(y), IsValue(u), IsValue(v),
         Within(u, x), Within(v, y)
  PROVE  Sound(Or(u, v), Or(x, y), Pending(u, v))
<1> DEFINE e == IF IsTrue(x) \/ IsTrue(y) THEN True ELSE UnknownNotNull("bool")
           e2 == IF IsTrue(u) \/ IsTrue(v) THEN True ELSE UnknownNotNull("bool")
           r == Known("bool", x.c \/ y.c)
           r2 == Known("bool", u.c \/ v.c)
<1>1. (x.c \/ y.c) \in BOOLEAN /\ (u.c \/ v.c) \in BOOLEAN
  OBVIOUS
<1>2. Answer(r) /\ Answer(r2) /\ r # Panicked /\ r2 # Panicked
  BY <1>1, KnownAnswer, KnownIsNoPanic DEF OperandTypes
<1>3. e # Panicked /\ Answer(e) /\ Answer(e2)
  BY NoPanics DEF Answer
<1>4. ASSUME Typed("bool", x), Typed("bool", y) PROVE Follows(e2, e)
  <2>1. CASE IsTrue(x) \/ IsTrue(y)
    BY <1>4, <2>1, KnownStays, AnswersFollowThemselves
  <2>2. CASE ~(IsTrue(x) \/ IsTrue(y))
    BY <1>3, <2>2, FollowsAnyAnswer
  <2> QED BY <2>1, <2>2
<1>5. ASSUME Typed("bool", x), Typed("bool", y), Ready("bool", u), Ready("bool", v)
      PROVE  Follows(r2, e)
  <2>1. CASE IsTrue(x) \/ IsTrue(y)
    <3>1. u.c = TRUE \/ v.c = TRUE
      BY <1>5, <2>1, KnownStays DEF IsTrue
    <3>2. (u.c \/ v.c) = TRUE
      BY <3>1
    <3>3. r2 = True
      BY <3>2 DEF True
    <3> QED BY <2>1, <3>3, AnswersFollowThemselves
  <2>2. CASE ~(IsTrue(x) \/ IsTrue(y))
    BY <1>2, <2>2, FollowsAnyAnswer
  <2> QED BY <2>1, <2>2
<1>6. u.c = x.c /\ v.c = y.c => Sound(r2, r, FALSE)
  <2> SUFFICES ASSUME u.c = x.c, v.c = y.c PROVE Sound(r2, r, FALSE)
    OBVIOUS
  <2>1. r2 = r
    OBVIOUS
  <2> HIDE DEF r, r2
  <2>2. Follows(r, r)
    BY <1>2, AnswerIsGood, FollowsItself
  <2> QED BY <1>2, <2>1, <2>2, SoundFollows
<1> HIDE DEF e, r, e2, r2
<1>7. Resolves("bool", x, y, u, v, e, r, e2, r2)
  BY <1>4, <1>5, <1>6 DEF Resolves
<1>8. Sound(TypeChecked("bool", <<u, v>>, e2, r2), TypeChecked("bool", <<x, y>>, e, r),
            Pending(u, v))
  BY <1>3, <1>7, LearnTwo
<1> QED BY <1>8 DEF Or, e, r, e2, r2

----------------------------------------------------------------------------
(* Arithmetic whose early result has no bounds, or always the same.        *)

LEMMA SameIsSound ==
  ASSUME NEW r, NEW r2, Good(r), r2 = r
  PROVE  Sound(r2, r, FALSE)
BY FollowsItself DEF Sound

LEMMA KnownIsNumeric ==
  ASSUME NEW n \in Int
  PROVE  Numeric(Known("number", n)) /\ Known("number", n).known /\ Known("number", n).c = n
BY KnownNumberIsGood DEF Numeric, Known

LEMMA NumberResultIsNumeric ==
  ASSUME NEW n \in Int \cup {Panicked}
  PROVE  Numeric(NumberResult(n))
BY KnownIsNumeric, NumberResultIsGood, NumberFacts DEF NumberResult, Numeric

LEMMA AnyNumberFollowsItself ==
  UnknownNotNull("number") # Panicked /\ Follows(UnknownNotNull("number"), UnknownNotNull("number"))
BY NoPanics, UnknownNotNullIsGood, FollowsItself

LEMMA NegateIsSound ==
  ASSUME NEW x, NEW u, IsValue(x), IsValue(u), Within(u, x)
  PROVE  Sound(Negate(u), Negate(x), FALSE)
<1> DEFINE e == UnknownNotNull("number")
           r == Known("number", -x.c)
           r2 == Known("number", -u.c)
<1>1. Ready("number", u) => Follows(r2, e)
  <2> SUFFICES ASSUME Ready("number", u) PROVE Follows(r2, e)
    OBVIOUS
  <2>1. -u.c \in Int
    BY ReadyNumber
  <2> QED BY <2>1, KnownIsNumeric, FollowsAnyNumber
<1>2. Ready("number", x) /\ Ready("number", u) /\ u.c = x.c => Sound(r2, r, FALSE)
  <2> SUFFICES ASSUME Ready("number", x), u.c = x.c PROVE Sound(r2, r, FALSE)
    OBVIOUS
  <2>1. -x.c \in Int /\ r2 = r
    BY ReadyNumber
  <2>2. Good(r)
    BY <2>1, KnownNumberIsGood
  <2> HIDE DEF r, r2
  <2> QED BY <2>1, <2>2, SameIsSound
<1>3. e # Panicked /\ Follows(e, e)
  BY AnyNumberFollowsItself
<1> HIDE DEF e, r, r2
<1>4. Sound(TypeChecked("number", <<u>>, e, r2), TypeChecked("number", <<x>>, e, r), FALSE)
  BY <1>1, <1>2, <1>3, LearnOne
<1> QED BY <1>4 DEF Negate, e, r, r2

LEMMA AbsoluteIsSound ==
  ASSUME NEW x, NEW u, IsValue(x), IsValue(u), Within(u, x)
  PROVE  Sound(Absolute(u), Absolute(x), FALSE)
<1> DEFINE e == NumberBetween(0, PosInf)
           r == Known("number", Sign(x.c) * x.c)
           r2 == Known("number", Sign(u.c) * u.c)
<1>1. PosInf \in Int /\ 0 <= PosInf /\ 0 \in Int
  BY NumberFacts
<1>2. Ready("number", u) => Follows(r2, e)
  <2> SUFFICES ASSUME Ready("number", u) PROVE Follows(r2, e)
    OBVIOUS
  <2> DEFINE n == Sign(u.c) * u.c
  <2>1. u.c \in Int /\ NegInf <= u.c /\ u.c <= PosInf
    BY KnownBounds
  <2>2. n \in Int /\ 0 <= n /\ n <= PosInf
    BY <2>1, NumberFacts DEF Sign
  <2> HIDE DEF n
  <2>3. Numeric(Known("number", n)) /\ Known("number", n).known /\ Known("number", n).c = n
    BY <2>2, KnownIsNumeric
  <2>4. Follows(Known("number", n), NumberBetween(0, PosInf))
    BY <1>1, <2>2, <2>3, FollowsBetween
  <2> QED BY <2>4 DEF n
<1>3. Ready("number", x) /\ Ready("number", u) /\ u.c = x.c => Sound(r2, r, FALSE)
  <2> SUFFICES ASSUME Ready("number", x), u.c = x.c PROVE Sound(r2, r, FALSE)
    OBVIOUS
  <2>1. x.c \in Int
    BY ReadyNumber
  <2>2. Sign(x.c) * x.c \in Int /\ r2 = r
    BY <2>1, SignIs
  <2>3. Good(r)
    BY <2>2, KnownNumberIsGood
  <2> HIDE DEF r, r2
  <2> QED BY <2>2, <2>3, SameIsSound
<1>4. e # Panicked /\ Follows(e, e)
  BY <1>1, NoPanics, NumberBetweenIsGood, NumberFacts, FollowsItself
<1> HIDE DEF e, r, r2
<1>5. Sound(TypeChecked("number", <<u>>, e, r2), TypeChecked("number", <<x>>, e, r), FALSE)
  BY <1>2, <1>3, <1>4, LearnOne
<1> QED BY <1>5 DEF Absolute, e, r, r2

LEMMA DivideIsSound ==
  ASSUME NEW x, NEW y, NEW u, NEW v, IsValue(x), IsValue(y), IsValue(u), IsValue(v),
         Within(u, x), Within(v, y), Divides(x, y), Divides(u, v)
  PROVE  Sound(Divide(u, v), Divide(x, y), Pending(u, v))
<1> DEFINE e == UnknownNotNull("number")
           r == NumberResult(Quotient(x.c, y.c))
           r2 == NumberResult(Quotient(u.c, v.c))
<1>1. Ready("number", u) /\ Ready("number", v) => Follows(r2, e)
  <2> SUFFICES ASSUME Ready("number", u), Ready("number", v) PROVE Follows(r2, e)
    OBVIOUS
  <2>1. u.c \in Int /\ v.c \in Int /\ v.c # 0
    BY ReadyNumber DEF Divides, Ready
  <2> QED BY <2>1, QuotientType, NumberResultIsNumeric, FollowsAnyNumber
<1>2. Ready("number", x) /\ Ready("number", y) /\ u.c = x.c /\ v.c = y.c => Sound(r2, r, FALSE)
  <2> SUFFICES ASSUME Ready("number", x), Ready("number", y), u.c = x.c, v.c = y.c
               PROVE  Sound(r2, r, FALSE)
    OBVIOUS
  <2>1. x.c \in Int /\ y.c \in Int /\ y.c # 0
    BY ReadyNumber DEF Divides, Ready
  <2>2. Good(r) /\ r2 = r
    BY <2>1, QuotientType, NumberResultIsGood
  <2> HIDE DEF r, r2
  <2> QED BY <2>2, SameIsSound
<1>3. e # Panicked /\ Follows(e, e)
  BY AnyNumberFollowsItself
<1> HIDE DEF e, r, r2
<1>4. Resolves("number", x, y, u, v, e, r, e, r2)
  BY <1>1, <1>2, <1>3 DEF Resolves
<1>5. Sound(TypeChecked("number", <<u, v>>, e, r2), TypeChecked("number", <<x, y>>, e, r),
            Pending(u, v))
  BY <1>3, <1>4, LearnTwo
<1> QED BY <1>5 DEF Divide, e, r, r2

(* A known value keeps its identity: one of the package variables is still *)
(* it.  (A zero may be learned to be the variable: nothing depends on it.) *)
SameIdentity(v, e) ==
  e.known => (e.lit => v.lit) /\ (v.lit => e.lit \/ v.c = 0)

LEMMA ReadyMultiply ==
  ASSUME NEW x, NEW y, Ready("number", x), Ready("number", y)
  PROVE  Multiply(x, y) = NumberResult(Times(x.c, y.c))
<1> DEFINE xs == <<x, y>>
<1>1. DOMAIN xs = {1, 2} /\ xs[1] = x /\ xs[2] = y
  OBVIOUS
<1> HIDE DEF xs
<1>2. ~Mismatch("number", xs) /\ ~ShortCircuit(xs) /\ ~AnyNull(xs)
  BY <1>1 DEF Mismatch, ShortCircuit, AnyNull, Ready, IsNull
<1>3. ~ShortCircuit(<<x, y>>)
  BY <1>2 DEF xs
<1>4. Multiply(x, y) = Arithmetic(Times, x, y)
  BY <1>3 DEF Multiply
<1>5. \A e, r : TypeChecked("number", xs, e, r) = r
  BY <1>2 DEF TypeChecked
<1> QED BY <1>4, <1>5 DEF Arithmetic, xs

LEMMA KnownModuloIsNumeric ==
  ASSUME NEW x, NEW y, IsValue(x), IsValue(y), Ready("number", x), Ready("number", y)
  PROVE  Numeric(KnownModulo(x, y))
<1>1. x.c \in Int /\ y.c \in Int
  BY ReadyNumber
<1>2. Numeric(Multiply(x, y))
  BY <1>1, ReadyMultiply, TimesType, NumberResultIsNumeric
<1>3. Numeric(x)
  BY DEF Numeric, Good, Plain, IsValue, Ready, DefinitelyNotNull, IsNull
<1>4. ASSUME y.c # 0
      PROVE  Numeric(Known("number", x.c - y.c * Truncate(x.c, y.c)))
  <2>1. Truncate(x.c, y.c) \in Int
    BY <1>1, <1>4, TruncateType
  <2>2. x.c - y.c * Truncate(x.c, y.c) \in Int
    BY <1>1, <2>1
  <2> QED BY <2>2, KnownIsNumeric
<1>5. Numeric(Panicked)
  BY PanickedIsGood DEF Numeric
<1> QED BY <1>2, <1>3, <1>4, <1>5 DEF KnownModulo

LEMMA ModuloIsSound ==
  ASSUME NEW x, NEW y, NEW u, NEW v, IsValue(x), IsValue(y), IsValue(u), IsValue(v),
         Within(u, x), Within(v, y), SameIdentity(u, x), SameIdentity(v, y)
  PROVE  Sound(Modulo(u, v), Modulo(x, y), Pending(u, v))
<1> DEFINE e == UnknownNotNull("number")
           r == KnownModulo(x, y)
           r2 == KnownModulo(u, v)
<1>1. Ready("number", u) /\ Ready("number", v) => Follows(r2, e)
  BY KnownModuloIsNumeric, FollowsAnyNumber
<1>2. ASSUME Ready("number", x), Ready("number", y), Ready("number", u), Ready("number", v),
             u.c = x.c, v.c = y.c
      PROVE  Sound(r2, r, FALSE)
  <2>1. Good(r)
    BY <1>2, KnownModuloIsNumeric DEF Numeric
  <2>2. Multiply(x, y) = NumberResult(Times(x.c, y.c)) /\ Multiply(u, v) = Multiply(x, y)
    BY <1>2, ReadyMultiply
  <2> DEFINE inf(a, b) == (a.lit /\ Infinite(a.c)) \/ (b.lit /\ Infinite(b.c))
  <2>3. /\ r = IF inf(x, y) THEN Multiply(x, y)
               ELSE IF y.c = 0 THEN x
               ELSE IF Infinite(x.c) \/ Infinite(y.c) THEN Panicked
               ELSE Known("number", x.c - y.c * Truncate(x.c, y.c))
        /\ r2 = IF inf(u, v) THEN Multiply(x, y)
                ELSE IF y.c = 0 THEN u
                ELSE IF Infinite(x.c) \/ Infinite(y.c) THEN Panicked
                ELSE Known("number", x.c - y.c * Truncate(x.c, y.c))
    BY <1>2, <2>2 DEF KnownModulo
  <2>4. inf(x, y) => inf(u, v)
    BY <1>2 DEF SameIdentity, Ready
  <2> HIDE DEF r, r2
  <2>5. CASE inf(x, y) <=> inf(u, v)
    <3>1. CASE ~inf(x, y) /\ y.c = 0
      <4>1. r = x /\ r2 = u
        BY <2>3, <2>5, <3>1
      <4>2. x # Panicked
        <5>1. x \in KnownShape
          <6>1. x \in [ty : {x.ty}, known : {TRUE}, c : {x.c}, whole : BOOLEAN, lit : BOOLEAN]
            BY <1>2 DEF IsValue, Ready
          <6>2. x.c \in Int /\ x.ty \in OperandTypes
            BY <1>2, ReadyNumber DEF IsValue
          <6> QED BY <6>1, <6>2 DEF KnownShape
        <5> QED BY <5>1, MarkersAssumption DEF MarkersAssumption
      <4> QED BY <4>1, <4>2, SoundFollows DEF Follows
    <3>2. CASE inf(x, y) \/ y.c # 0
      <4>1. r2 = r
        BY <2>3, <2>5, <3>2
      <4> QED BY <2>1, <4>1, SameIsSound
    <3> QED BY <3>1, <3>2
  <2>6. CASE inf(u, v) /\ ~inf(x, y)
    <3>1. Infinite(0) /\ (u.c = 0 \/ v.c = 0)
      BY <1>2, <2>6 DEF SameIdentity, Ready
    <3>2. PosInf = 0 /\ NegInf = 0
      BY <3>1, NumberFacts DEF Infinite
    <3>3. u.c = 0 /\ v.c = 0
      BY <1>2, <3>2, KnownBounds
    <3>4. Times(u.c, v.c) = Panicked
      BY <3>1, <3>3 DEF Times
    <3>5. r2 = Panicked
      BY <1>2, <2>2, <2>3, <2>6, <3>4 DEF NumberResult
    <3> QED BY <3>5, SoundPanic
  <2> QED BY <2>4, <2>5, <2>6
<1>3. e # Panicked /\ Follows(e, e)
  BY AnyNumberFollowsItself
<1> HIDE DEF e, r, r2
<1>4. Resolves("number", x, y, u, v, e, r, e, r2)
  BY <1>1, <1>2, <1>3 DEF Resolves
<1>5. Sound(TypeChecked("number", <<u, v>>, e, r2), TypeChecked("number", <<x, y>>, e, r),
            Pending(u, v))
  BY <1>3, <1>4, LearnTwo
<1> QED BY <1>5 DEF Modulo, e, r, r2

----------------------------------------------------------------------------
(* Order.                                                                  *)

LEMMA DynamicTwo ==
  ASSUME NEW x, NEW y
  PROVE  Dynamic(<<x, y>>) <=> x.ty = "dynamic" \/ y.ty = "dynamic"
<1> DEFINE xs == <<x, y>>
<1>1. DOMAIN xs = {1, 2} /\ xs[1] = x /\ xs[2] = y
  OBVIOUS
<1> HIDE DEF xs
<1>2. Dynamic(xs) <=> x.ty = "dynamic" \/ y.ty = "dynamic"
  BY <1>1 DEF Dynamic
<1> QED BY <1>2 DEF xs

(* What is certainly less stays so, and excludes the contrary. *)
LEMMA CertainlyLessStays ==
  ASSUME NEW x, NEW y, NEW u, NEW v, IsValue(x), IsValue(y), IsValue(u), IsValue(v),
         Within(u, x), Within(v, y), Typed("number", x), Typed("number", y),
         u.ty = "number", v.ty = "number", ~IsNull(u), ~IsNull(v),
         CertainlyLess(x, y)
  PROVE  CertainlyLess(u, v) /\ ~CertainlyLess(v, u)
<1>1. x.ty = "number" /\ y.ty = "number"
  BY DynamicTwo DEF CertainlyLess, Typed
<1> DEFINE a == UpperBound(RangeOf(x))
           b == LowerBound(RangeOf(y))
           lu == LowerBound(RangeOf(u))
           uu == UpperBound(RangeOf(u))
           lv == LowerBound(RangeOf(v))
           uv == UpperBound(RangeOf(v))
<1>2. a < b /\ uu <= a /\ b <= lv /\ lu <= uu /\ lv <= uv
  BY <1>1, BoundsNarrow, BoundsInOrder DEF CertainlyLess
<1>3. a \in Int /\ b \in Int /\ lu \in Int /\ uu \in Int /\ lv \in Int /\ uv \in Int
  BY <1>1, BoundsAreNumbers, NumberFacts
<1>4. ~Dynamic(<<u, v>>)
  BY DynamicTwo
<1> HIDE DEF a, b, lu, uu, lv, uv
<1>5. uu < lv /\ ~(uv < lu)
  BY <1>2, <1>3
<1> QED BY <1>4, <1>5 DEF CertainlyLess, lu, uu, lv, uv

LEMMA LessThanIsSound ==
  ASSUME NEW x, NEW y, NEW u, NEW v, IsValue(x), IsValue(y), IsValue(u), IsValue(v),
         Within(u, x), Within(v, y)
  PROVE  Sound(LessThan(u, v), LessThan(x, y), Pending(u, v))
<1> DEFINE e == IF CertainlyLess(x, y) THEN True
                ELSE IF CertainlyLess(y, x) THEN False ELSE UnknownNotNull("bool")
           e2 == IF CertainlyLess(u, v) THEN True
                 ELSE IF CertainlyLess(v, u) THEN False ELSE UnknownNotNull("bool")
           r == Known("bool", x.c < y.c)
           r2 == Known("bool", u.c < v.c)
<1>1. (x.c < y.c) \in BOOLEAN /\ (u.c < v.c) \in BOOLEAN
  OBVIOUS
<1>2. Answer(r) /\ Answer(r2)
  BY <1>1, KnownAnswer
<1>3. e # Panicked /\ Answer(e) /\ Answer(e2)
  BY NoPanics DEF Answer
<1>4. ASSUME u.ty = "number", v.ty = "number", Typed("number", x), Typed("number", y),
             ~IsNull(u), ~IsNull(v)
      PROVE  Follows(e2, e)
  <2>1. CASE CertainlyLess(x, y)
    BY <1>4, <2>1, CertainlyLessStays, AnswersFollowThemselves
  <2>2. CASE ~CertainlyLess(x, y) /\ CertainlyLess(y, x)
    BY <1>4, <2>2, CertainlyLessStays, AnswersFollowThemselves
  <2>3. CASE ~CertainlyLess(x, y) /\ ~CertainlyLess(y, x)
    BY <1>3, <2>3, FollowsAnyAnswer
  <2> QED BY <2>1, <2>2, <2>3
<1>5. ASSUME Ready("number", u), Ready("number", v), Typed("number", x), Typed("number", y)
      PROVE  Follows(r2, e)
  <2>1. /\ u.ty = "number" /\ v.ty = "number" /\ ~IsNull(u) /\ ~IsNull(v)
        /\ u.c \in Int /\ v.c \in Int
        /\ CertainlyLess(u, v) => u.c < v.c
        /\ CertainlyLess(v, u) => v.c < u.c
    BY <1>5, KnownBounds DEF Ready, IsNull, CertainlyLess
  <2>2. CASE CertainlyLess(x, y)
    <3>1. u.c < v.c
      BY <1>5, <2>1, <2>2, CertainlyLessStays
    <3>2. r2 = True
      BY <3>1 DEF True
    <3> QED BY <2>2, <3>2, AnswersFollowThemselves
  <2>3. CASE ~CertainlyLess(x, y) /\ CertainlyLess(y, x)
    <3>1. (u.c < v.c) = FALSE
      BY <1>5, <2>1, <2>3, CertainlyLessStays
    <3>2. r2 = False
      BY <3>1 DEF False
    <3> QED BY <2>3, <3>2, AnswersFollowThemselves
  <2>4. CASE ~CertainlyLess(x, y) /\ ~CertainlyLess(y, x)
    BY <1>2, <2>4, FollowsAnyAnswer
  <2> QED BY <2>2, <2>3, <2>4
<1>6. x.ty = "dynamic" \/ y.ty = "dynamic" => Follows(e2, e)
  <2> SUFFICES ASSUME x.ty = "dynamic" \/ y.ty = "dynamic" PROVE Follows(e2, e)
    OBVIOUS
  <2>1. ~CertainlyLess(x, y) /\ ~CertainlyLess(y, x)
    BY DynamicTwo DEF CertainlyLess
  <2> QED BY <1>3, <2>1, FollowsAnyAnswer
<1>7. u.c = x.c /\ v.c = y.c => Sound(r2, r, FALSE)
  BY <1>2, AnswerIsGood, SameIsSound
<1> HIDE DEF e, r, e2, r2
<1>8. Resolves("number", x, y, u, v, e, r, e2, r2)
  BY <1>4, <1>5, <1>6, <1>7 DEF Resolves
<1>9. Sound(TypeChecked("number", <<u, v>>, e2, r2), TypeChecked("number", <<x, y>>, e, r),
            Pending(u, v))
  BY <1>3, <1>8, LearnTwo
<1> QED BY <1>9 DEF LessThan, e, r, e2, r2

LEMMA GreaterThanIsSound ==
  ASSUME NEW x, NEW y, NEW u, NEW v, IsValue(x), IsValue(y), IsValue(u), IsValue(v),
         Within(u, x), Within(v, y)
  PROVE  Sound(GreaterThan(u, v), GreaterThan(x, y), Pending(u, v))
<1>1. GreaterThan(u, v) = LessThan(v, u) /\ GreaterThan(x, y) = LessThan(y, x)
  BY LessMirrorsGreater
<1>2. Pending(u, v) <=> Pending(v, u)
  BY DEF Pending
<1>3. Sound(LessThan(v, u), LessThan(y, x), Pending(v, u))
  BY LessThanIsSound
<1> QED BY <1>1, <1>2, <1>3 DEF Sound

----------------------------------------------------------------------------
(* Interval arithmetic.                                                    *)

(* What interval arithmetic makes of corners that include C: the value w   *)
(* lies among them, if they are numbers of the universe; and a panic does  *)
(* too, if they reach from one infinity to the other.                      *)
Covers(C, w) ==
  (\A k \in C : k # Panicked /\ NegInf <= k /\ k <= PosInf) =>
    /\ w = Panicked => NegInf \in C /\ PosInf \in C
    /\ w # Panicked /\ NegInf <= w /\ w <= PosInf => \E k, n \in C : k <= w /\ w <= n

FromCorners(dynamic, C) ==
  IF dynamic \/ Panicked \in C THEN UnknownNotNull("number")
                               ELSE NumberBetween(FSE!Min(C), FSE!Max(C))

IsCorners(C) ==
  \E a, b, c, d \in Int \cup {Panicked} : C = {a, b, c, d}

LEMMA CornersAre ==
  ASSUME NEW C, IsCorners(C), Panicked \notin C
  PROVE  /\ C \subseteq Int
         /\ FSE!Min(C) \in C /\ \A n \in C : FSE!Min(C) <= n
         /\ FSE!Max(C) \in C /\ \A n \in C : n <= FSE!Max(C)
<1>1. PICK a \in Int, b \in Int, c \in Int, d \in Int : C = {a, b, c, d}
  BY DEF IsCorners
<1> QED BY <1>1, LeastAndGreatest

LEMMA FromCornersIs ==
  ASSUME NEW C, IsCorners(C), NEW dynamic \in BOOLEAN
  PROVE  Good(FromCorners(dynamic, C)) /\ FromCorners(dynamic, C) # Panicked
<1>1. CASE dynamic \/ Panicked \in C
  BY <1>1, UnknownNotNullIsGood, NoPanics DEF FromCorners
<1>2. CASE ~(dynamic \/ Panicked \in C)
  BY <1>2, CornersAre, NumberBetweenIsGood, NoPanics DEF FromCorners
<1> QED BY <1>1, <1>2

(* A range of numbers of the universe has corners in the universe. *)
LEMMA UniverseBounds ==
  ASSUME NEW lo \in Int, NEW hi \in Int, lo <= hi, InUniverse(NumberBetween(lo, hi))
  PROVE  NegInf <= lo /\ hi <= PosInf
<1>1. CASE lo = hi /\ lo # NegInf /\ hi # PosInf
  <2>1. NumberBetween(lo, hi) = Known("number", lo)
    BY <1>1, NumberBetweenIs
  <2>2. lo \in Numbers
    BY <2>1, NumberFacts DEF InUniverse, Known
  <2> QED BY <1>1, <2>2, NumberFacts
<1>2. CASE ~(lo = hi /\ lo # NegInf /\ hi # PosInf)
  <2> DEFINE s == Bounded(lo, hi)
  <2>1. NumberBetween(lo, hi) = Unknown("number", s)
    BY <1>2, NumberBetweenIs
  <2>2. /\ s.kind = "number"
        /\ s.min = (IF lo = NegInf THEN NilVal ELSE lo)
        /\ s.max = (IF hi = PosInf THEN NilVal ELSE hi)
    BY DEF Bounded
  <2> HIDE DEF s
  <2>3. s.min \in Numbers \cup {NilVal} /\ s.max \in Numbers \cup {NilVal}
    BY <2>1, <2>2 DEF InUniverse, Unknown
  <2> QED BY <2>2, <2>3, NumberFacts
<1> QED BY <1>1, <1>2

LEMMA NumberInCorners ==
  ASSUME NEW C, IsCorners(C), NEW dynamic \in BOOLEAN, NEW z, Numeric(z),
         z # Panicked => z.known, ~dynamic /\ z # Panicked => Covers(C, z.c)
  PROVE  Follows(z, FromCorners(dynamic, C))
<1>1. Numeric(z)
  OBVIOUS
<1>2. CASE dynamic \/ Panicked \in C
  BY <1>1, <1>2, FollowsAnyNumber DEF FromCorners
<1>3. CASE ~(dynamic \/ Panicked \in C)
  <2> DEFINE lo == FSE!Min(C)
             hi == FSE!Max(C)
  <2>1. /\ FromCorners(dynamic, C) = NumberBetween(lo, hi)
        /\ lo \in Int /\ hi \in Int /\ lo <= hi /\ C \subseteq Int
        /\ \A n \in C : lo <= n /\ n <= hi
    BY <1>3, CornersAre DEF FromCorners
  <2> HIDE DEF lo, hi
  <2> SUFFICES ASSUME InUniverse(NumberBetween(lo, hi)) PROVE Follows(z, NumberBetween(lo, hi))
    BY <2>1 DEF Follows
  <2>2. NegInf <= lo /\ hi <= PosInf
    BY <2>1, UniverseBounds
  <2>3. \A k \in C : k # Panicked /\ NegInf <= k /\ k <= PosInf
    <3> TAKE k \in C
    <3>1. k \in Int /\ lo <= k /\ k <= hi
      BY <2>1
    <3> QED BY <3>1, <2>1, <2>2, NumberFacts
  <2>4. ASSUME z # Panicked, InUniverse(z) PROVE lo <= z.c /\ z.c <= hi
    <3>1. z.ty = "number" /\ IsValue(z) /\ ~IsNull(z) /\ z.known
      BY <1>1, <2>4, NumericRange
    <3>2. z.c \in Int /\ NegInf <= z.c /\ z.c <= PosInf
      BY <3>1, KnownBounds DEF Ready, IsNull
    <3>3. z.c # Panicked
      BY <3>2, NumberFacts
    <3>4. PICK k \in C, n \in C : k <= z.c /\ z.c <= n
      BY <1>3, <2>3, <2>4, <3>2, <3>3 DEF Covers
    <3>5. lo <= k /\ n <= hi /\ k \in Int /\ n \in Int
      BY <2>1
    <3> QED BY <2>1, <3>2, <3>4, <3>5
  <2> QED BY <1>1, <2>1, <2>4, FollowsBetween
<1> QED BY <1>2, <1>3

(* No bounds at all. *)
LEMMA BetweenInfinities == NumberBetween(NegInf, PosInf) = UnknownNotNull("number")
<1> DEFINE no == FALSE
           aInc == NegInf # NegInf
           bInc == PosInf # PosInf
<1>1. NumberBetween(NegInf, PosInf) = Unknown("number", Bounded(NegInf, PosInf))
  BY NumberBetweenIs, NumberFacts
<1>2. aInc = no /\ bInc = no
  OBVIOUS
<1>3. Bounded(NegInf, PosInf) = [kind |-> "number", null |-> "F", min |-> NilVal, minInc |-> aInc,
                                 max |-> NilVal, maxInc |-> bInc]
  BY DEF Bounded
<1>4. UnknownNotNull("number") =
        Unknown("number", [kind |-> "number", null |-> "F", min |-> NilVal, minInc |-> no,
                           max |-> NilVal, maxInc |-> no])
  BY UnknownNumberNotNull DEF Unknown
<1> HIDE DEF no, aInc, bInc
<1> QED BY <1>1, <1>2, <1>3, <1>4

LEMMA CornersInCorners ==
  ASSUME NEW C, IsCorners(C), NEW dynamic \in BOOLEAN,
         NEW D, IsCorners(D), NEW lateDynamic \in BOOLEAN, lateDynamic => dynamic,
         ~dynamic => \A w \in D : Covers(C, w)
  PROVE  Follows(FromCorners(lateDynamic, D), FromCorners(dynamic, C))
<1> DEFINE z == FromCorners(lateDynamic, D)
<1>1. Good(z) /\ Good(UnknownNotNull("number"))
  BY FromCornersIs, UnknownNotNullIsGood
<1>2. CASE dynamic \/ Panicked \in C
  <2>1. Numeric(z)
    <3>1. Numeric(UnknownNotNull("number"))
      BY <1>1, UnknownNumberNotNull DEF Numeric
    <3>2. ASSUME Panicked \notin D PROVE NumberBetween(FSE!Min(D), FSE!Max(D)).ty = "number"
      <4>1. FSE!Min(D) \in Int /\ FSE!Max(D) \in Int
        BY <3>2, CornersAre
      <4> QED BY <4>1, NumberBetweenIs DEF Known, Unknown
    <3> QED BY <1>1, <3>1, <3>2 DEF Numeric, FromCorners
  <2> QED BY <1>2, <2>1, FollowsAnyNumber DEF FromCorners
<1>3. CASE ~(dynamic \/ Panicked \in C)
  <2> DEFINE lo == FSE!Min(C)
             hi == FSE!Max(C)
  <2>1. /\ FromCorners(dynamic, C) = NumberBetween(lo, hi)
        /\ lo \in C /\ hi \in C /\ C \subseteq Int
        /\ \A n \in C : lo <= n /\ n <= hi
    BY <1>3, CornersAre DEF FromCorners
  <2> HIDE DEF lo, hi
  <2> SUFFICES ASSUME InUniverse(NumberBetween(lo, hi)) PROVE Follows(z, NumberBetween(lo, hi))
    BY <2>1 DEF Follows
  <2>2. lo \in Int /\ hi \in Int /\ lo <= hi
    BY <2>1
  <2>3. NegInf <= lo /\ hi <= PosInf
    BY <2>2, UniverseBounds
  <2>4. \A k \in C : k # Panicked /\ NegInf <= k /\ k <= PosInf
    <3> TAKE k \in C
    <3>1. k \in Int /\ lo <= k /\ k <= hi
      BY <2>1
    <3> QED BY <3>1, <2>2, <2>3, NumberFacts
  <2>5. CASE Panicked \in D
    <3>1. NegInf \in C /\ PosInf \in C
      BY <1>3, <2>4, <2>5 DEF Covers
    <3>2. lo = NegInf /\ hi = PosInf
      BY <2>1, <2>2, <2>3, <3>1, NumberFacts
    <3>3. z = UnknownNotNull("number")
      BY <2>5 DEF FromCorners
    <3> QED BY <3>2, <3>3, BetweenInfinities, AnyNumberFollowsItself
  <2>6. CASE Panicked \notin D
    <3> DEFINE m == FSE!Min(D)
               n == FSE!Max(D)
    <3>1. z = NumberBetween(m, n) /\ m \in D /\ n \in D /\ m \in Int /\ n \in Int /\ m <= n
      BY <1>3, <2>6, CornersAre DEF FromCorners
    <3> HIDE DEF m, n
    <3>2. ASSUME InUniverse(NumberBetween(m, n)) PROVE lo <= m /\ n <= hi
      <4>1. NegInf <= m /\ n <= PosInf
        BY <3>1, <3>2, UniverseBounds
      <4>2. NegInf <= n /\ m <= PosInf /\ m # Panicked /\ n # Panicked
        BY <3>1, <4>1, NumberFacts
      <4>3. PICK k \in C : k <= m
        BY <1>3, <2>4, <3>1, <4>1, <4>2 DEF Covers
      <4>4. PICK h \in C : n <= h
        BY <1>3, <2>4, <3>1, <4>1, <4>2 DEF Covers
      <4>5. lo <= k /\ h <= hi /\ k \in Int /\ h \in Int
        BY <2>1
      <4> QED BY <2>2, <3>1, <4>3, <4>4, <4>5
    <3>3. Follows(NumberBetween(m, n), NumberBetween(lo, hi))
      BY <2>2, <3>1, <3>2, BetweenNarrows
    <3> QED BY <3>1, <3>3
  <2> QED BY <2>5, <2>6
<1> QED BY <1>2, <1>3

(* Where the corners lie: between the infinities, around two operands. *)
Around(a, p, b) == NegInf <= a /\ a <= p /\ p <= b /\ b <= PosInf

LEMMA PlusCovers ==
  ASSUME NEW a \in Int, NEW b \in Int, NEW c \in Int, NEW d \in Int,
         NEW p \in Int, NEW q \in Int, Around(a, p, b), Around(c, q, d)
  PROVE  Covers({Plus(a, c), Plus(a, d), Plus(b, c), Plus(b, d)}, Plus(p, q))
<1> DEFINE k1 == Plus(a, c)
           k2 == Plus(a, d)
           k3 == Plus(b, c)
           k4 == Plus(b, d)
           w == Plus(p, q)
<1> SUFFICES ASSUME /\ k1 # Panicked /\ k2 # Panicked /\ k3 # Panicked /\ k4 # Panicked
                    /\ NegInf <= k1 /\ k1 <= PosInf /\ NegInf <= k4 /\ k4 <= PosInf
             PROVE  /\ w # Panicked
                    /\ NegInf <= w /\ w <= PosInf => k1 <= w /\ w <= k4
  BY DEF Covers
<1>1. NegInf \in Int /\ PosInf \in Int /\ NegInf = -PosInf /\ Panicked \notin Int
  BY NumberFacts
<1>2. w # Panicked
  BY <1>1 DEF Plus, Infinite, Around
<1>3. k1 \in Int /\ k4 \in Int /\ w \in Int
  BY <1>2, PlusType
<1>4. NegInf <= w /\ w <= PosInf => k1 <= w
  BY <1>1, <1>2 DEF Plus, Infinite, Around
<1>5. NegInf <= w /\ w <= PosInf => w <= k4
  BY <1>1, <1>2 DEF Plus, Infinite, Around
<1> QED BY <1>2, <1>4, <1>5

LEMMA MinusCovers ==
  ASSUME NEW a \in Int, NEW b \in Int, NEW c \in Int, NEW d \in Int,
         NEW p \in Int, NEW q \in Int, Around(a, p, b), Around(c, q, d)
  PROVE  Covers({Minus(a, c), Minus(a, d), Minus(b, c), Minus(b, d)}, Minus(p, q))
<1>1. -c \in Int /\ -d \in Int /\ -q \in Int
  OBVIOUS
<1>2. Around(-d, -q, -c)
  BY NumberFacts DEF Around
<1>3. Covers({Plus(a, -d), Plus(a, -c), Plus(b, -d), Plus(b, -c)}, Plus(p, -q))
  BY <1>1, <1>2, PlusCovers
<1>4. {Plus(a, -d), Plus(a, -c), Plus(b, -d), Plus(b, -c)}
        = {Minus(a, c), Minus(a, d), Minus(b, c), Minus(b, d)}
  BY DEF Minus
<1> QED BY <1>3, <1>4 DEF Minus

(* The sign of a product. *)
LEMMA TimesSigns ==
  ASSUME NEW a \in Int, NEW b \in Int, PosInf > 0, Times(a, b) # Panicked
  PROVE  /\ (a >= 0 /\ b >= 0) \/ (a <= 0 /\ b <= 0) => Times(a, b) >= 0
         /\ (a >= 0 /\ b <= 0) \/ (a <= 0 /\ b >= 0) => Times(a, b) <= 0
<1>1. CASE ~Infinite(a) /\ ~Infinite(b)
  <2>1. Times(a, b) = a * b
    BY <1>1 DEF Times
  <2>2. /\ (a >= 0 /\ b >= 0) \/ (a <= 0 /\ b <= 0) => a * b >= 0
        /\ (a >= 0 /\ b <= 0) \/ (a <= 0 /\ b >= 0) => a * b <= 0
    OBVIOUS
  <2> QED BY <2>1, <2>2
<1>2. CASE Infinite(a) \/ Infinite(b)
  <2>1. Times(a, b) = Sign(a) * Sign(b) * PosInf /\ a # 0 /\ b # 0
    BY <1>2 DEF Times
  <2>2. PosInf \in Int
    BY NumberFacts
  <2>3. /\ (a > 0 /\ b > 0) \/ (a < 0 /\ b < 0) => Times(a, b) = PosInf
        /\ (a > 0 /\ b < 0) \/ (a < 0 /\ b > 0) => Times(a, b) = -PosInf
    BY <2>1, <2>2 DEF Sign
  <2> QED BY <2>1, <2>2, <2>3
<1> QED BY <1>1, <1>2

LEMMA TimesGrows ==
  ASSUME NEW p \in Int, NEW q \in Int, NEW b \in Int, NEW d \in Int, PosInf > 0,
         0 <= p, p <= b, b <= PosInf, 0 <= q, q <= d, d <= PosInf,
         Times(b, d) # Panicked, Times(p, q) # Panicked, Times(p, q) <= PosInf
  PROVE  Times(p, q) <= Times(b, d)
<1>1. PosInf \in Int /\ NegInf = -PosInf
  BY NumberFacts
<1>2. CASE Infinite(b) \/ Infinite(d)
  <2>1. Times(b, d) = Sign(b) * Sign(d) * PosInf /\ b # 0 /\ d # 0
    BY <1>2 DEF Times
  <2>2. Times(b, d) = PosInf
    BY <1>1, <2>1 DEF Sign
  <2> QED BY <2>2
<1>3. CASE ~Infinite(b) /\ ~Infinite(d)
  <2>1. ~Infinite(p) /\ ~Infinite(q)
    BY <1>1, <1>3 DEF Infinite
  <2>2. Times(p, q) = p * q /\ Times(b, d) = b * d
    BY <1>3, <2>1 DEF Times
  <2>3. p * q <= b * q
    OBVIOUS
  <2>4. b * q <= b * d
    OBVIOUS
  <2>5. p * q \in Int /\ b * q \in Int /\ b * d \in Int
    OBVIOUS
  <2> QED BY <2>2, <2>3, <2>4, <2>5
<1> QED BY <1>2, <1>3

LEMMA TimesNegates ==
  ASSUME NEW a \in Int, NEW b \in Int
  PROVE  /\ -b \in Int
         /\ Times(a, -b) = Panicked <=> Times(a, b) = Panicked
         /\ Times(a, b) # Panicked => /\ Times(a, b) \in Int
                                      /\ Times(a, -b) = -Times(a, b)
<1>1. PosInf \in Int /\ NegInf = -PosInf /\ Panicked \notin Int /\ -b \in Int
  BY NumberFacts
<1>2. Infinite(-b) <=> Infinite(b)
  BY <1>1 DEF Infinite
<1>3. Sign(-b) = -Sign(b) /\ Sign(a) \in Int /\ Sign(b) \in Int
  BY SignIs DEF Sign
<1>4. a * (-b) = -(a * b) /\ a * b \in Int
  OBVIOUS
<1>5. /\ Sign(a) * Sign(-b) * PosInf = -(Sign(a) * Sign(b) * PosInf)
      /\ Sign(a) * Sign(b) * PosInf \in Int
  <2>1. Sign(a) \in {-1, 0, 1} /\ Sign(b) \in {-1, 0, 1}
    BY SignIs
  <2> QED BY <1>1, <1>3, <2>1
<1>6. 0 \in {a, -b} <=> 0 \in {a, b}
  OBVIOUS
<1>7. CASE ~Infinite(a) /\ ~Infinite(b)
  <2>1. Times(a, b) = a * b /\ Times(a, -b) = a * (-b)
    BY <1>2, <1>7 DEF Times
  <2>2. a * (-b) \in Int
    BY <1>1
  <2> QED BY <1>1, <1>4, <2>1, <2>2
<1>8. CASE Infinite(a) \/ Infinite(b)
  <2>1. 0 \in {a, b} => Times(a, b) = Panicked /\ Times(a, -b) = Panicked
    BY <1>2, <1>6, <1>8 DEF Times
  <2>2. 0 \notin {a, b} => /\ Times(a, b) = Sign(a) * Sign(b) * PosInf
                           /\ Times(a, -b) = Sign(a) * Sign(-b) * PosInf
    BY <1>2, <1>6, <1>8 DEF Times
  <2>3. Sign(a) * Sign(-b) * PosInf \in Int
    BY <1>5
  <2> QED BY <1>1, <1>5, <2>1, <2>2, <2>3
<1> QED BY <1>1, <1>7, <1>8

LEMMA TimesNegatesTwice ==
  ASSUME NEW a \in Int, NEW b \in Int
  PROVE  Times(-a, -b) = Times(a, b)
<1>1. -a \in Int /\ -b \in Int
  OBVIOUS
<1>2. /\ Times(-a, -b) = Panicked <=> Times(-a, b) = Panicked
      /\ Times(-a, b) # Panicked => Times(-a, b) \in Int /\ Times(-a, -b) = -Times(-a, b)
  BY <1>1, TimesNegates
<1>3. Times(-a, b) = Times(b, -a) /\ Times(b, a) = Times(a, b)
  BY <1>1, TimesCommutes
<1>4. /\ Times(b, -a) = Panicked <=> Times(b, a) = Panicked
      /\ Times(b, a) # Panicked => Times(b, a) \in Int /\ Times(b, -a) = -Times(b, a)
  BY TimesNegates
<1>5. CASE Times(b, a) = Panicked
  BY <1>2, <1>3, <1>4, <1>5
<1>6. CASE Times(b, a) # Panicked
  <2> DEFINE n == Times(b, a)
  <2>1. n \in Int /\ Times(-a, b) = -n /\ Times(-a, -b) = -(-n)
    BY <1>2, <1>3, <1>4, <1>6
  <2> HIDE DEF n
  <2>2. -(-n) = n
    BY <2>1
  <2> QED BY <1>3, <2>1, <2>2 DEF n
<1> QED BY <1>5, <1>6

(* The greatest corner is no less than any product: for operands of        *)
(* different signs, and then of any.                                       *)
LEMMA TimesMixed ==
  ASSUME NEW a \in Int, NEW b \in Int, NEW c \in Int, NEW d \in Int,
         NEW p \in Int, NEW q \in Int, Around(a, p, b), Around(c, q, d), PosInf > 0,
         p >= 0, q <= 0,
         Times(a, c) # Panicked, Times(a, d) # Panicked, Times(b, d) # Panicked,
         NegInf <= Times(a, d), Times(p, q) # Panicked
  PROVE  Times(p, q) <= Times(a, c) \/ Times(p, q) <= Times(b, d) \/ Times(p, q) <= Times(a, d)
<1>1. PosInf \in Int /\ NegInf = -PosInf
  BY NumberFacts
<1>2. /\ Times(p, q) \in Int /\ Times(a, c) \in Int /\ Times(b, d) \in Int /\ Times(a, d) \in Int
  BY TimesType
<1>3. Times(p, q) <= 0
  BY TimesSigns
<1>4. CASE a <= 0
  <2>1. c <= 0
    BY DEF Around
  <2>2. Times(a, c) >= 0
    BY <1>4, <2>1, TimesSigns
  <2> QED BY <1>2, <1>3, <2>2
<1>5. CASE a > 0 /\ d >= 0
  <2>1. b >= 0
    BY <1>5 DEF Around
  <2>2. Times(b, d) >= 0
    BY <1>5, <2>1, TimesSigns
  <2> QED BY <1>2, <1>3, <2>2
<1>6. CASE a > 0 /\ d < 0
  <2>1. /\ Times(p, -q) # Panicked /\ Times(p, -q) = -Times(p, q) /\ -q \in Int
        /\ Times(a, -d) # Panicked /\ Times(a, -d) = -Times(a, d) /\ -d \in Int
    BY TimesNegates
  <2>2. /\ 0 <= a /\ a <= p /\ p <= PosInf
        /\ 0 <= -d /\ -d <= -q /\ -q <= PosInf
    BY <1>1, <1>6 DEF Around
  <2>3. Times(a, -d) <= PosInf
    BY <1>1, <1>2, <2>1
  <2>4. Times(a, -d) <= Times(p, -q)
    BY <2>1, <2>2, <2>3, TimesGrows
  <2> QED BY <1>2, <2>1, <2>4
<1> QED BY <1>4, <1>5, <1>6

LEMMA TimesUpper ==
  ASSUME NEW a \in Int, NEW b \in Int, NEW c \in Int, NEW d \in Int,
         NEW p \in Int, NEW q \in Int, Around(a, p, b), Around(c, q, d), PosInf > 0,
         NEW C, C = {Times(a, c), Times(a, d), Times(b, c), Times(b, d)},
         \A k \in C : k # Panicked /\ NegInf <= k,
         Times(p, q) # Panicked, Times(p, q) <= PosInf
  PROVE  \E k \in C : Times(p, q) <= k
<1>1. PosInf \in Int /\ NegInf = -PosInf
  BY NumberFacts
<1>2. /\ Times(a, c) # Panicked /\ Times(a, d) # Panicked /\ Times(b, c) # Panicked
      /\ Times(b, d) # Panicked
      /\ NegInf <= Times(a, d) /\ NegInf <= Times(b, c)
  OBVIOUS
<1>3. CASE p >= 0 /\ q >= 0
  <2>1. p <= b /\ b <= PosInf /\ q <= d /\ d <= PosInf
    BY DEF Around
  <2>2. Times(p, q) <= Times(b, d)
    BY <1>2, <1>3, <2>1, TimesGrows
  <2> QED BY <2>2
<1>4. CASE p <= 0 /\ q <= 0
  <2>1. /\ -p \in Int /\ -q \in Int /\ -a \in Int /\ -c \in Int
        /\ 0 <= -p /\ -p <= -a /\ -a <= PosInf /\ 0 <= -q /\ -q <= -c /\ -c <= PosInf
    BY <1>1, <1>4 DEF Around
  <2>2. Times(-p, -q) = Times(p, q) /\ Times(-a, -c) = Times(a, c)
    BY TimesNegatesTwice
  <2>3. Times(-p, -q) <= Times(-a, -c)
    BY <1>2, <2>1, <2>2, TimesGrows
  <2> QED BY <2>2, <2>3
<1>5. CASE p >= 0 /\ q <= 0
  <2>1. Times(p, q) <= Times(a, c) \/ Times(p, q) <= Times(b, d) \/ Times(p, q) <= Times(a, d)
    BY <1>2, <1>5, TimesMixed
  <2> QED BY <2>1
<1>6. CASE p <= 0 /\ q >= 0
  <2>1. /\ Times(q, p) = Times(p, q) /\ Times(c, a) = Times(a, c) /\ Times(d, b) = Times(b, d)
        /\ Times(c, b) = Times(b, c)
    BY TimesCommutes
  <2>2. Times(q, p) <= Times(c, a) \/ Times(q, p) <= Times(d, b) \/ Times(q, p) <= Times(c, b)
    BY <1>2, <1>6, <2>1, TimesMixed
  <2> QED BY <2>1, <2>2
<1> QED BY <1>3, <1>4, <1>5, <1>6

(* A product that panics lies between corners that are both infinities. *)
LEMMA TimesPanics ==
  ASSUME NEW a \in Int, NEW b \in Int, NEW c \in Int, NEW d \in Int,
         NEW p \in Int, NEW q \in Int, Around(a, p, b), Around(c, q, d), PosInf > 0,
         Times(a, c) # Panicked, Times(a, d) # Panicked, Times(b, c) # Panicked,
         Times(b, d) # Panicked,
         p = 0, Infinite(q)
  PROVE  {NegInf, PosInf} \subseteq {Times(a, c), Times(a, d), Times(b, c), Times(b, d)}
<1>1. PosInf \in Int /\ NegInf = -PosInf
  BY NumberFacts
<1>2. CASE q = PosInf
  <2>1. d = PosInf
    BY <1>1, <1>2 DEF Around
  <2>2. a # 0 /\ b # 0
    BY <2>1 DEF Times, Infinite
  <2>3. a < 0 /\ b > 0
    BY <2>2 DEF Around
  <2>4. Times(a, d) = Sign(a) * Sign(d) * PosInf /\ Times(b, d) = Sign(b) * Sign(d) * PosInf
    BY <2>1, <2>2 DEF Times, Infinite
  <2>5. Sign(a) = -1 /\ Sign(b) = 1 /\ Sign(d) = 1
    BY <1>1, <2>1, <2>3 DEF Sign
  <2>6. Times(a, d) = NegInf /\ Times(b, d) = PosInf
    BY <1>1, <2>4, <2>5
  <2> QED BY <2>6
<1>3. CASE q = NegInf
  <2>1. c = NegInf
    BY <1>1, <1>3 DEF Around
  <2>2. a # 0 /\ b # 0
    BY <2>1 DEF Times, Infinite
  <2>3. a < 0 /\ b > 0
    BY <2>2 DEF Around
  <2>4. Times(a, c) = Sign(a) * Sign(c) * PosInf /\ Times(b, c) = Sign(b) * Sign(c) * PosInf
    BY <2>1, <2>2 DEF Times, Infinite
  <2>5. Sign(a) = -1 /\ Sign(b) = 1 /\ Sign(c) = -1
    BY <1>1, <2>1, <2>3 DEF Sign
  <2>6. Times(a, c) = PosInf /\ Times(b, c) = NegInf
    BY <1>1, <2>4, <2>5
  <2> QED BY <2>6
<1> QED BY <1>2, <1>3 DEF Infinite

LEMMA TimesCovers ==
  ASSUME NEW a \in Int, NEW b \in Int, NEW c \in Int, NEW d \in Int,
         NEW p \in Int, NEW q \in Int, Around(a, p, b), Around(c, q, d)
  PROVE  Covers({Times(a, c), Times(a, d), Times(b, c), Times(b, d)}, Times(p, q))
<1> DEFINE C == {Times(a, c), Times(a, d), Times(b, c), Times(b, d)}
           w == Times(p, q)
<1> SUFFICES ASSUME \A k \in C : k # Panicked /\ NegInf <= k /\ k <= PosInf
             PROVE  /\ w = Panicked => NegInf \in C /\ PosInf \in C
                    /\ w # Panicked /\ NegInf <= w /\ w <= PosInf =>
                         \E k, n \in C : k <= w /\ w <= n
  BY DEF Covers
<1>1. PosInf \in Int /\ NegInf = -PosInf
  BY NumberFacts
<1>2. /\ Times(a, c) # Panicked /\ Times(a, d) # Panicked /\ Times(b, c) # Panicked
      /\ Times(b, d) # Panicked
  OBVIOUS
<1>3. PosInf > 0
  <2>1. NegInf <= PosInf
    BY <1>1 DEF Around
  <2>2. ASSUME PosInf = 0 PROVE FALSE
    <3>1. a = 0 /\ Infinite(a)
      BY <1>1, <2>2 DEF Around, Infinite
    <3>2. Times(a, c) = Panicked
      BY <3>1 DEF Times
    <3> QED BY <1>2, <3>2
  <2> QED BY <1>1, <2>1, <2>2
<1>4. w = Panicked => NegInf \in C /\ PosInf \in C
  <2> SUFFICES ASSUME w = Panicked PROVE NegInf \in C /\ PosInf \in C
    OBVIOUS
  <2>1. (p = 0 /\ Infinite(q)) \/ (q = 0 /\ Infinite(p))
    <3>1. (Infinite(p) \/ Infinite(q)) => (p = 0 \/ q = 0)
      <4> SUFFICES ASSUME Infinite(p) \/ Infinite(q), ~(p = 0 \/ q = 0) PROVE FALSE
        OBVIOUS
      <4>1. w = Sign(p) * Sign(q) * PosInf
        BY DEF Times
      <4>2. Sign(p) * Sign(q) * PosInf \in Int
        <5>1. Sign(p) * Sign(q) \in Int
          BY SignIs
        <5> QED BY <5>1, <1>1
      <4> QED BY <4>1, <4>2, NumberFacts
    <3>2. Infinite(p) \/ Infinite(q)
      <4> SUFFICES ASSUME ~(Infinite(p) \/ Infinite(q)) PROVE FALSE
        OBVIOUS
      <4>1. w = p * q
        BY DEF Times
      <4>2. p * q \in Int
        OBVIOUS
      <4> QED BY <4>1, <4>2, NumberFacts
    <3>3. ~Infinite(0)
      BY <1>1, <1>3 DEF Infinite
    <3> QED BY <3>1, <3>2, <3>3
  <2>2. CASE p = 0 /\ Infinite(q)
    <3>1. {NegInf, PosInf} \subseteq {Times(a, c), Times(a, d), Times(b, c), Times(b, d)}
      BY <1>2, <1>3, <2>2, TimesPanics
    <3> QED BY <3>1
  <2>3. CASE q = 0 /\ Infinite(p)
    <3>1. /\ Times(c, a) = Times(a, c) /\ Times(c, b) = Times(b, c)
          /\ Times(d, a) = Times(a, d) /\ Times(d, b) = Times(b, d)
      BY TimesCommutes
    <3>2. {NegInf, PosInf} \subseteq {Times(c, a), Times(c, b), Times(d, a), Times(d, b)}
      BY <1>2, <1>3, <2>3, <3>1, TimesPanics
    <3> QED BY <3>1, <3>2
  <2> QED BY <2>1, <2>2, <2>3
<1>5. ASSUME w # Panicked, NegInf <= w, w <= PosInf PROVE \E n \in C : w <= n
  <2>1. \A k \in C : k # Panicked /\ NegInf <= k
    OBVIOUS
  <2>2. C = {Times(a, c), Times(a, d), Times(b, c), Times(b, d)}
    OBVIOUS
  <2> HIDE DEF C
  <2> QED BY <1>3, <1>5, <2>1, <2>2, TimesUpper
<1>6. ASSUME w # Panicked, NegInf <= w, w <= PosInf PROVE \E k \in C : k <= w
  <2> DEFINE N == {Times(a, -d), Times(a, -c), Times(b, -d), Times(b, -c)}
  <2>1. /\ -c \in Int /\ -d \in Int /\ -q \in Int /\ Around(-d, -q, -c)
    BY <1>1 DEF Around
  <2>2. /\ Times(a, -d) # Panicked /\ Times(a, -d) = -Times(a, d) /\ Times(a, d) \in Int
        /\ Times(a, -c) # Panicked /\ Times(a, -c) = -Times(a, c) /\ Times(a, c) \in Int
        /\ Times(b, -d) # Panicked /\ Times(b, -d) = -Times(b, d) /\ Times(b, d) \in Int
        /\ Times(b, -c) # Panicked /\ Times(b, -c) = -Times(b, c) /\ Times(b, c) \in Int
        /\ Times(p, -q) # Panicked /\ Times(p, -q) = -w /\ w \in Int
    BY <1>2, <1>6, TimesNegates
  <2>3. /\ Times(a, d) <= PosInf /\ Times(a, c) <= PosInf /\ Times(b, d) <= PosInf
        /\ Times(b, c) <= PosInf
    OBVIOUS
  <2>4. \A k \in N : k # Panicked /\ NegInf <= k
    BY <1>1, <2>2, <2>3
  <2>5. Times(p, -q) <= PosInf
    BY <1>1, <1>6, <2>2
  <2>6. N = {Times(a, -d), Times(a, -c), Times(b, -d), Times(b, -c)}
    OBVIOUS
  <2> HIDE DEF N
  <2>7. \E k \in N : Times(p, -q) <= k
    BY <1>3, <2>1, <2>2, <2>4, <2>5, <2>6, TimesUpper
  <2>8. \/ Times(p, -q) <= Times(a, -d) \/ Times(p, -q) <= Times(a, -c)
        \/ Times(p, -q) <= Times(b, -d) \/ Times(p, -q) <= Times(b, -c)
    BY <2>6, <2>7
  <2> HIDE DEF w
  <2>9. Times(a, d) <= w \/ Times(a, c) <= w \/ Times(b, d) <= w \/ Times(b, c) <= w
    BY <2>2, <2>8
  <2> QED BY <2>9
<1> QED BY <1>4, <1>5, <1>6

----------------------------------------------------------------------------
(* Add, Subtract and Multiply.                                             *)

LEMMA BoundsAreIntegers ==
  ASSUME NEW x, IsValue(x), Typed("number", x)
  PROVE  LowerBound(RangeOf(x)) \in Int /\ UpperBound(RangeOf(x)) \in Int
<1>1. CASE x.ty = "number"
  BY <1>1, BoundsAreNumbers, NumberFacts
<1>2. CASE x.ty = "dynamic"
  <2>1. RangeOf(x).kind = "nullable"
    <3>1. CASE x.known
      <4>1. IsNull(x)
        BY <1>2, <3>1 DEF IsValue, IsNull, IsConcrete
      <4>2. RangeOf(x) = [kind |-> "nullable", null |-> "T"]
        BY <4>1 DEF RangeOf, IsNull
      <4> QED BY <4>2
    <3>2. CASE ~x.known
      BY <1>2, <3>2, UnknownIs
    <3> QED BY <3>1, <3>2
  <2> QED BY <2>1, NumberFacts DEF LowerBound, UpperBound
<1> QED BY <1>1, <1>2 DEF Typed

(* The bounds of an operand lie around what it is later. *)
LEMMA AroundKnown ==
  ASSUME NEW u, NEW x, IsValue(u), IsValue(x), Within(u, x), Ready("number", u), x.ty = "number"
  PROVE  Around(LowerBound(RangeOf(x)), u.c, UpperBound(RangeOf(x)))
<1>1. /\ LowerBound(RangeOf(x)) \in Numbers /\ UpperBound(RangeOf(x)) \in Numbers
      /\ LowerBound(RangeOf(u)) = u.c /\ UpperBound(RangeOf(u)) = u.c
  BY BoundsAreNumbers, KnownBounds
<1>2. LowerBound(RangeOf(x)) <= u.c /\ u.c <= UpperBound(RangeOf(x))
  BY <1>1, BoundsNarrow DEF Ready, IsNull
<1> QED BY <1>1, <1>2, NumberFacts DEF Around

LEMMA AroundBounds ==
  ASSUME NEW u, NEW x, IsValue(u), IsValue(x), Within(u, x), u.ty = "number", ~IsNull(u),
         x.ty = "number"
  PROVE  /\ Around(LowerBound(RangeOf(x)), LowerBound(RangeOf(u)), UpperBound(RangeOf(x)))
         /\ Around(LowerBound(RangeOf(x)), UpperBound(RangeOf(u)), UpperBound(RangeOf(x)))
<1> DEFINE a == LowerBound(RangeOf(x))
           b == UpperBound(RangeOf(x))
           p == LowerBound(RangeOf(u))
           q == UpperBound(RangeOf(u))
<1>1. a \in Numbers /\ b \in Numbers /\ p \in Numbers /\ q \in Numbers
  BY BoundsAreNumbers
<1>2. a <= p /\ q <= b /\ p <= q
  BY BoundsNarrow, BoundsInOrder
<1> HIDE DEF a, b, p, q
<1>3. Around(a, p, b) /\ Around(a, q, b)
  BY <1>1, <1>2, NumberFacts DEF Around
<1> QED BY <1>3 DEF a, b, p, q

(* An operand of another type: now, and when more is known of it. *)
LEMMA UntypedPanics ==
  ASSUME NEW x, NEW y, NEW u, NEW v, IsValue(x), IsValue(y), IsValue(u), IsValue(v),
         Within(u, x), Within(v, y), NEW required, ~(Typed(required, x) /\ Typed(required, y))
  PROVE  /\ Mismatch(required, <<x, y>>) /\ Mismatch(required, <<u, v>>)
         /\ \A e, r : TypeChecked(required, <<u, v>>, e, r) = Panicked
<1> DEFINE xs == <<x, y>>
           us == <<u, v>>
<1>1. /\ DOMAIN xs = {1, 2} /\ xs[1] = x /\ xs[2] = y
      /\ DOMAIN us = {1, 2} /\ us[1] = u /\ us[2] = v
  OBVIOUS
<1>2. ~(Typed(required, u) /\ Typed(required, v))
  BY SameType DEF Typed
<1> HIDE DEF xs, us
<1>3. Mismatch(required, xs) /\ Mismatch(required, us)
  BY <1>1, <1>2 DEF Mismatch, Typed
<1>4. \A e, r : TypeChecked(required, us, e, r) = Panicked
  BY <1>3 DEF TypeChecked
<1> QED BY <1>3, <1>4 DEF xs, us

PlusCorners(x, y) == {Plus(p[1], p[2]) : p \in BoundPairs(RangeOf(x), RangeOf(y))}

LEMMA PlusCornersAre ==
  ASSUME NEW x, NEW y, IsValue(x), IsValue(y), Typed("number", x), Typed("number", y)
  PROVE  /\ RangeArithmetic(Plus, x, y) = FromCorners(Dynamic(<<x, y>>), PlusCorners(x, y))
         /\ PlusCorners(x, y) =
              {Plus(LowerBound(RangeOf(x)), LowerBound(RangeOf(y))),
               Plus(LowerBound(RangeOf(x)), UpperBound(RangeOf(y))),
               Plus(UpperBound(RangeOf(x)), LowerBound(RangeOf(y))),
               Plus(UpperBound(RangeOf(x)), UpperBound(RangeOf(y)))}
         /\ IsCorners(PlusCorners(x, y))
<1> DEFINE r == RangeOf(x)
           s == RangeOf(y)
           a == LowerBound(r)
           b == UpperBound(r)
           c == LowerBound(s)
           d == UpperBound(s)
<1>1. RangeArithmetic(Plus, x, y) = FromCorners(Dynamic(<<x, y>>), PlusCorners(x, y))
  BY DEF RangeArithmetic, FromCorners, PlusCorners
<1>2. BoundPairs(r, s) = {<<a, c>>, <<a, d>>, <<b, c>>, <<b, d>>}
  BY FourPairs
<1>3. a \in Int /\ b \in Int /\ c \in Int /\ d \in Int
  BY BoundsAreIntegers
<1>4. PlusCorners(x, y) = {Plus(p[1], p[2]) : p \in BoundPairs(r, s)}
  BY DEF PlusCorners
<1> HIDE DEF a, b, c, d, r, s
<1>5. PlusCorners(x, y) = {Plus(a, c), Plus(a, d), Plus(b, c), Plus(b, d)}
  <2>1. {Plus(p[1], p[2]) : p \in BoundPairs(r, s)} = {Plus(a, c), Plus(a, d), Plus(b, c), Plus(b, d)}
    BY <1>2
  <2> QED BY <1>4, <2>1
<1>6. IsCorners(PlusCorners(x, y))
  <2>1. /\ Plus(a, c) \in Int \cup {Panicked} /\ Plus(a, d) \in Int \cup {Panicked}
        /\ Plus(b, c) \in Int \cup {Panicked} /\ Plus(b, d) \in Int \cup {Panicked}
    BY <1>3, PlusType
  <2> HIDE DEF PlusCorners
  <2> QED BY <1>5, <2>1 DEF IsCorners
<1> QED BY <1>1, <1>5, <1>6 DEF a, b, c, d, r, s

(* Corners of narrower bounds. *)
LEMMA PlusCornersNarrow ==
  ASSUME NEW x, NEW y, NEW u, NEW v, IsValue(x), IsValue(y), IsValue(u), IsValue(v),
         Within(u, x), Within(v, y), x.ty = "number", y.ty = "number",
         u.ty = "number", v.ty = "number", ~IsNull(u), ~IsNull(v),
         NEW w \in PlusCorners(u, v)
  PROVE  Covers(PlusCorners(x, y), w)
<1> DEFINE a == LowerBound(RangeOf(x))
           b == UpperBound(RangeOf(x))
           c == LowerBound(RangeOf(y))
           d == UpperBound(RangeOf(y))
           a2 == LowerBound(RangeOf(u))
           b2 == UpperBound(RangeOf(u))
           c2 == LowerBound(RangeOf(v))
           d2 == UpperBound(RangeOf(v))
<1>1. /\ a \in Int /\ b \in Int /\ c \in Int /\ d \in Int
      /\ a2 \in Int /\ b2 \in Int /\ c2 \in Int /\ d2 \in Int
  BY BoundsAreIntegers DEF Typed
<1>2. /\ PlusCorners(x, y) = {Plus(a, c), Plus(a, d), Plus(b, c), Plus(b, d)}
      /\ PlusCorners(u, v) = {Plus(a2, c2), Plus(a2, d2), Plus(b2, c2), Plus(b2, d2)}
  BY PlusCornersAre DEF Typed
<1>3. Around(a, a2, b) /\ Around(a, b2, b) /\ Around(c, c2, d) /\ Around(c, d2, d)
  BY AroundBounds
<1> HIDE DEF a, b, c, d, a2, b2, c2, d2
<1>4. PICK p \in {a2, b2}, q \in {c2, d2} : w = Plus(p, q)
  BY <1>2
<1>5. p \in Int /\ q \in Int /\ Around(a, p, b) /\ Around(c, q, d)
  BY <1>1, <1>3
<1>6. Covers({Plus(a, c), Plus(a, d), Plus(b, c), Plus(b, d)}, Plus(p, q))
  BY <1>1, <1>5, PlusCovers
<1> QED BY <1>2, <1>4, <1>6

LEMMA PlusCornersHold ==
  ASSUME NEW x, NEW y, NEW u, NEW v, IsValue(x), IsValue(y), IsValue(u), IsValue(v),
         Within(u, x), Within(v, y), x.ty = "number", y.ty = "number",
         Ready("number", u), Ready("number", v)
  PROVE  Covers(PlusCorners(x, y), Plus(u.c, v.c))
<1> DEFINE a == LowerBound(RangeOf(x))
           b == UpperBound(RangeOf(x))
           c == LowerBound(RangeOf(y))
           d == UpperBound(RangeOf(y))
<1>1. a \in Int /\ b \in Int /\ c \in Int /\ d \in Int /\ u.c \in Int /\ v.c \in Int
  BY BoundsAreIntegers, ReadyNumber DEF Typed
<1>2. PlusCorners(x, y) = {Plus(a, c), Plus(a, d), Plus(b, c), Plus(b, d)}
  BY PlusCornersAre DEF Typed
<1>3. Around(a, u.c, b) /\ Around(c, v.c, d)
  BY AroundKnown
<1> HIDE DEF a, b, c, d
<1>4. Covers({Plus(a, c), Plus(a, d), Plus(b, c), Plus(b, d)}, Plus(u.c, v.c))
  BY <1>1, <1>3, PlusCovers
<1> QED BY <1>2, <1>4

LEMMA PlusIsSound ==
  ASSUME NEW x, NEW y, NEW u, NEW v, IsValue(x), IsValue(y), IsValue(u), IsValue(v),
         Within(u, x), Within(v, y)
  PROVE  Sound(Arithmetic(Plus, u, v), Arithmetic(Plus, x, y), Pending(u, v))
<1> DEFINE e == RangeArithmetic(Plus, x, y)
           e2 == RangeArithmetic(Plus, u, v)
           r == NumberResult(Plus(x.c, y.c))
           r2 == NumberResult(Plus(u.c, v.c))
           C == PlusCorners(x, y)
           D == PlusCorners(u, v)
           dyn == Dynamic(<<x, y>>)
           dyn2 == Dynamic(<<u, v>>)
<1>1. /\ dyn <=> x.ty = "dynamic" \/ y.ty = "dynamic"
      /\ dyn2 <=> u.ty = "dynamic" \/ v.ty = "dynamic"
      /\ dyn \in BOOLEAN /\ dyn2 \in BOOLEAN
  <2>1. dyn \in BOOLEAN /\ dyn2 \in BOOLEAN
    BY DEF Dynamic
  <2> QED BY <2>1, DynamicTwo
<1>2. /\ Typed("number", x) /\ Typed("number", y) => e = FromCorners(dyn, C) /\ IsCorners(C)
      /\ Typed("number", u) /\ Typed("number", v) => e2 = FromCorners(dyn2, D) /\ IsCorners(D)
  BY PlusCornersAre
<1>3. ASSUME Ready("number", u), Ready("number", v)
      PROVE  /\ Numeric(r2)
             /\ r2 # Panicked => r2.known /\ r2.c = Plus(u.c, v.c)
  <2>1. Plus(u.c, v.c) \in Int \cup {Panicked}
    BY <1>3, ReadyNumber, PlusType
  <2>2. r2 # Panicked => r2.known /\ r2.c = Plus(u.c, v.c)
    BY DEF NumberResult, Known
  <2> QED BY <2>1, <2>2, NumberResultIsNumeric
<1>4. ASSUME ~dyn, Typed("number", x), Typed("number", y)
      PROVE  x.ty = "number" /\ y.ty = "number"
  BY <1>1, <1>4 DEF Typed
<1>5. ASSUME Ready("number", u), Ready("number", v), Typed("number", x), Typed("number", y)
      PROVE  Follows(r2, e)
  <2>1. ~dyn => Covers(C, Plus(u.c, v.c))
    BY <1>4, <1>5, PlusCornersHold
  <2>2. ~dyn /\ r2 # Panicked => Covers(C, r2.c)
    BY <1>3, <1>5, <2>1
  <2> HIDE DEF C, D, dyn, dyn2, e, e2, r, r2
  <2>3. Follows(r2, FromCorners(dyn, C))
    BY <1>1, <1>2, <1>3, <1>5, <2>2, NumberInCorners
  <2> QED BY <1>2, <1>5, <2>3
<1>6. ASSUME Typed("number", x), Typed("number", y), Typed("number", u), Typed("number", v),
             ~dyn => u.ty = "number" /\ v.ty = "number" /\ ~IsNull(u) /\ ~IsNull(v)
      PROVE  Follows(e2, e)
  <2>1. ~dyn => \A w \in D : Covers(C, w)
    BY <1>4, <1>6, PlusCornersNarrow
  <2>2. dyn2 => dyn
    BY <1>1, <1>6
  <2> HIDE DEF C, D, dyn, dyn2, e, e2, r, r2
  <2>3. Follows(FromCorners(dyn2, D), FromCorners(dyn, C))
    BY <1>1, <1>2, <1>6, <2>1, <2>2, CornersInCorners
  <2> QED BY <1>2, <1>6, <2>3
<1>7. ASSUME Ready("number", x), Ready("number", y), u.c = x.c, v.c = y.c
      PROVE  Sound(r2, r, FALSE)
  <2>1. Plus(x.c, y.c) \in Int \cup {Panicked}
    BY <1>7, ReadyNumber, PlusType
  <2>2. Good(r) /\ r2 = r
    BY <1>7, <2>1, NumberResultIsGood
  <2> HIDE DEF r, r2
  <2> QED BY <2>2, SameIsSound
<1>8. Resolves("number", x, y, u, v, e, r, e2, r2)
  <2> HIDE DEF C, D, dyn, dyn2, e, e2, r, r2
  <2> QED BY <1>1, <1>5, <1>6, <1>7 DEF Resolves, Typed
<1>9. CASE Typed("number", x) /\ Typed("number", y)
  <2> HIDE DEF C, D, dyn, dyn2, e, e2, r, r2
  <2>1. e # Panicked
    BY <1>1, <1>2, <1>9, FromCornersIs
  <2>2. Sound(TypeChecked("number", <<u, v>>, e2, r2), TypeChecked("number", <<x, y>>, e, r),
              Pending(u, v))
    BY <1>8, <2>1, LearnTwo
  <2> QED BY <2>2 DEF Arithmetic, e, e2, r, r2
<1>10. CASE ~(Typed("number", x) /\ Typed("number", y))
  BY <1>10, UntypedPanics, SoundPanic DEF Arithmetic
<1> QED BY <1>9, <1>10

MinusCorners(x, y) == {Minus(p[1], p[2]) : p \in BoundPairs(RangeOf(x), RangeOf(y))}

LEMMA MinusCornersAre ==
  ASSUME NEW x, NEW y, IsValue(x), IsValue(y), Typed("number", x), Typed("number", y)
  PROVE  /\ RangeArithmetic(Minus, x, y) = FromCorners(Dynamic(<<x, y>>), MinusCorners(x, y))
         /\ MinusCorners(x, y) =
              {Minus(LowerBound(RangeOf(x)), LowerBound(RangeOf(y))),
               Minus(LowerBound(RangeOf(x)), UpperBound(RangeOf(y))),
               Minus(UpperBound(RangeOf(x)), LowerBound(RangeOf(y))),
               Minus(UpperBound(RangeOf(x)), UpperBound(RangeOf(y)))}
         /\ IsCorners(MinusCorners(x, y))
<1> DEFINE r == RangeOf(x)
           s == RangeOf(y)
           a == LowerBound(r)
           b == UpperBound(r)
           c == LowerBound(s)
           d == UpperBound(s)
<1>1. RangeArithmetic(Minus, x, y) = FromCorners(Dynamic(<<x, y>>), MinusCorners(x, y))
  BY DEF RangeArithmetic, FromCorners, MinusCorners
<1>2. BoundPairs(r, s) = {<<a, c>>, <<a, d>>, <<b, c>>, <<b, d>>}
  BY FourPairs
<1>3. a \in Int /\ b \in Int /\ c \in Int /\ d \in Int
  BY BoundsAreIntegers
<1>4. MinusCorners(x, y) = {Minus(p[1], p[2]) : p \in BoundPairs(r, s)}
  BY DEF MinusCorners
<1> HIDE DEF a, b, c, d, r, s
<1>5. MinusCorners(x, y) = {Minus(a, c), Minus(a, d), Minus(b, c), Minus(b, d)}
  <2>1. {Minus(p[1], p[2]) : p \in BoundPairs(r, s)} = {Minus(a, c), Minus(a, d), Minus(b, c), Minus(b, d)}
    BY <1>2
  <2> QED BY <1>4, <2>1
<1>6. IsCorners(MinusCorners(x, y))
  <2>1. /\ Minus(a, c) \in Int \cup {Panicked} /\ Minus(a, d) \in Int \cup {Panicked}
        /\ Minus(b, c) \in Int \cup {Panicked} /\ Minus(b, d) \in Int \cup {Panicked}
    BY <1>3, MinusType
  <2> HIDE DEF MinusCorners
  <2> QED BY <1>5, <2>1 DEF IsCorners
<1> QED BY <1>1, <1>5, <1>6 DEF a, b, c, d, r, s

(* Corners of narrower bounds. *)
LEMMA MinusCornersNarrow ==
  ASSUME NEW x, NEW y, NEW u, NEW v, IsValue(x), IsValue(y), IsValue(u), IsValue(v),
         Within(u, x), Within(v, y), x.ty = "number", y.ty = "number",
         u.ty = "number", v.ty = "number", ~IsNull(u), ~IsNull(v),
         NEW w \in MinusCorners(u, v)
  PROVE  Covers(MinusCorners(x, y), w)
<1> DEFINE a == LowerBound(RangeOf(x))
           b == UpperBound(RangeOf(x))
           c == LowerBound(RangeOf(y))
           d == UpperBound(RangeOf(y))
           a2 == LowerBound(RangeOf(u))
           b2 == UpperBound(RangeOf(u))
           c2 == LowerBound(RangeOf(v))
           d2 == UpperBound(RangeOf(v))
<1>1. /\ a \in Int /\ b \in Int /\ c \in Int /\ d \in Int
      /\ a2 \in Int /\ b2 \in Int /\ c2 \in Int /\ d2 \in Int
  BY BoundsAreIntegers DEF Typed
<1>2. /\ MinusCorners(x, y) = {Minus(a, c), Minus(a, d), Minus(b, c), Minus(b, d)}
      /\ MinusCorners(u, v) = {Minus(a2, c2), Minus(a2, d2), Minus(b2, c2), Minus(b2, d2)}
  BY MinusCornersAre DEF Typed
<1>3. Around(a, a2, b) /\ Around(a, b2, b) /\ Around(c, c2, d) /\ Around(c, d2, d)
  BY AroundBounds
<1> HIDE DEF a, b, c, d, a2, b2, c2, d2
<1>4. PICK p \in {a2, b2}, q \in {c2, d2} : w = Minus(p, q)
  BY <1>2
<1>5. p \in Int /\ q \in Int /\ Around(a, p, b) /\ Around(c, q, d)
  BY <1>1, <1>3
<1>6. Covers({Minus(a, c), Minus(a, d), Minus(b, c), Minus(b, d)}, Minus(p, q))
  BY <1>1, <1>5, MinusCovers
<1> QED BY <1>2, <1>4, <1>6

LEMMA MinusCornersHold ==
  ASSUME NEW x, NEW y, NEW u, NEW v, IsValue(x), IsValue(y), IsValue(u), IsValue(v),
         Within(u, x), Within(v, y), x.ty = "number", y.ty = "number",
         Ready("number", u), Ready("number", v)
  PROVE  Covers(MinusCorners(x, y), Minus(u.c, v.c))
<1> DEFINE a == LowerBound(RangeOf(x))
           b == UpperBound(RangeOf(x))
           c == LowerBound(RangeOf(y))
           d == UpperBound(RangeOf(y))
<1>1. a \in Int /\ b \in Int /\ c \in Int /\ d \in Int /\ u.c \in Int /\ v.c \in Int
  BY BoundsAreIntegers, ReadyNumber DEF Typed
<1>2. MinusCorners(x, y) = {Minus(a, c), Minus(a, d), Minus(b, c), Minus(b, d)}
  BY MinusCornersAre DEF Typed
<1>3. Around(a, u.c, b) /\ Around(c, v.c, d)
  BY AroundKnown
<1> HIDE DEF a, b, c, d
<1>4. Covers({Minus(a, c), Minus(a, d), Minus(b, c), Minus(b, d)}, Minus(u.c, v.c))
  BY <1>1, <1>3, MinusCovers
<1> QED BY <1>2, <1>4

LEMMA MinusIsSound ==
  ASSUME NEW x, NEW y, NEW u, NEW v, IsValue(x), IsValue(y), IsValue(u), IsValue(v),
         Within(u, x), Within(v, y)
  PROVE  Sound(Arithmetic(Minus, u, v), Arithmetic(Minus, x, y), Pending(u, v))
<1> DEFINE e == RangeArithmetic(Minus, x, y)
           e2 == RangeArithmetic(Minus, u, v)
           r == NumberResult(Minus(x.c, y.c))
           r2 == NumberResult(Minus(u.c, v.c))
           C == MinusCorners(x, y)
           D == MinusCorners(u, v)
           dyn == Dynamic(<<x, y>>)
           dyn2 == Dynamic(<<u, v>>)
<1>1. /\ dyn <=> x.ty = "dynamic" \/ y.ty = "dynamic"
      /\ dyn2 <=> u.ty = "dynamic" \/ v.ty = "dynamic"
      /\ dyn \in BOOLEAN /\ dyn2 \in BOOLEAN
  <2>1. dyn \in BOOLEAN /\ dyn2 \in BOOLEAN
    BY DEF Dynamic
  <2> QED BY <2>1, DynamicTwo
<1>2. /\ Typed("number", x) /\ Typed("number", y) => e = FromCorners(dyn, C) /\ IsCorners(C)
      /\ Typed("number", u) /\ Typed("number", v) => e2 = FromCorners(dyn2, D) /\ IsCorners(D)
  BY MinusCornersAre
<1>3. ASSUME Ready("number", u), Ready("number", v)
      PROVE  /\ Numeric(r2)
             /\ r2 # Panicked => r2.known /\ r2.c = Minus(u.c, v.c)
  <2>1. Minus(u.c, v.c) \in Int \cup {Panicked}
    BY <1>3, ReadyNumber, MinusType
  <2>2. r2 # Panicked => r2.known /\ r2.c = Minus(u.c, v.c)
    BY DEF NumberResult, Known
  <2> QED BY <2>1, <2>2, NumberResultIsNumeric
<1>4. ASSUME ~dyn, Typed("number", x), Typed("number", y)
      PROVE  x.ty = "number" /\ y.ty = "number"
  BY <1>1, <1>4 DEF Typed
<1>5. ASSUME Ready("number", u), Ready("number", v), Typed("number", x), Typed("number", y)
      PROVE  Follows(r2, e)
  <2>1. ~dyn => Covers(C, Minus(u.c, v.c))
    BY <1>4, <1>5, MinusCornersHold
  <2>2. ~dyn /\ r2 # Panicked => Covers(C, r2.c)
    BY <1>3, <1>5, <2>1
  <2> HIDE DEF C, D, dyn, dyn2, e, e2, r, r2
  <2>3. Follows(r2, FromCorners(dyn, C))
    BY <1>1, <1>2, <1>3, <1>5, <2>2, NumberInCorners
  <2> QED BY <1>2, <1>5, <2>3
<1>6. ASSUME Typed("number", x), Typed("number", y), Typed("number", u), Typed("number", v),
             ~dyn => u.ty = "number" /\ v.ty = "number" /\ ~IsNull(u) /\ ~IsNull(v)
      PROVE  Follows(e2, e)
  <2>1. ~dyn => \A w \in D : Covers(C, w)
    BY <1>4, <1>6, MinusCornersNarrow
  <2>2. dyn2 => dyn
    BY <1>1, <1>6
  <2> HIDE DEF C, D, dyn, dyn2, e, e2, r, r2
  <2>3. Follows(FromCorners(dyn2, D), FromCorners(dyn, C))
    BY <1>1, <1>2, <1>6, <2>1, <2>2, CornersInCorners
  <2> QED BY <1>2, <1>6, <2>3
<1>7. ASSUME Ready("number", x), Ready("number", y), u.c = x.c, v.c = y.c
      PROVE  Sound(r2, r, FALSE)
  <2>1. Minus(x.c, y.c) \in Int \cup {Panicked}
    BY <1>7, ReadyNumber, MinusType
  <2>2. Good(r) /\ r2 = r
    BY <1>7, <2>1, NumberResultIsGood
  <2> HIDE DEF r, r2
  <2> QED BY <2>2, SameIsSound
<1>8. Resolves("number", x, y, u, v, e, r, e2, r2)
  <2> HIDE DEF C, D, dyn, dyn2, e, e2, r, r2
  <2> QED BY <1>1, <1>5, <1>6, <1>7 DEF Resolves, Typed
<1>9. CASE Typed("number", x) /\ Typed("number", y)
  <2> HIDE DEF C, D, dyn, dyn2, e, e2, r, r2
  <2>1. e # Panicked
    BY <1>1, <1>2, <1>9, FromCornersIs
  <2>2. Sound(TypeChecked("number", <<u, v>>, e2, r2), TypeChecked("number", <<x, y>>, e, r),
              Pending(u, v))
    BY <1>8, <2>1, LearnTwo
  <2> QED BY <2>2 DEF Arithmetic, e, e2, r, r2
<1>10. CASE ~(Typed("number", x) /\ Typed("number", y))
  BY <1>10, UntypedPanics, SoundPanic DEF Arithmetic
<1> QED BY <1>9, <1>10

TimesCorners(x, y) == {Times(p[1], p[2]) : p \in BoundPairs(RangeOf(x), RangeOf(y))}

LEMMA TimesCornersAre ==
  ASSUME NEW x, NEW y, IsValue(x), IsValue(y), Typed("number", x), Typed("number", y)
  PROVE  /\ RangeArithmetic(Times, x, y) = FromCorners(Dynamic(<<x, y>>), TimesCorners(x, y))
         /\ TimesCorners(x, y) =
              {Times(LowerBound(RangeOf(x)), LowerBound(RangeOf(y))),
               Times(LowerBound(RangeOf(x)), UpperBound(RangeOf(y))),
               Times(UpperBound(RangeOf(x)), LowerBound(RangeOf(y))),
               Times(UpperBound(RangeOf(x)), UpperBound(RangeOf(y)))}
         /\ IsCorners(TimesCorners(x, y))
<1> DEFINE r == RangeOf(x)
           s == RangeOf(y)
           a == LowerBound(r)
           b == UpperBound(r)
           c == LowerBound(s)
           d == UpperBound(s)
<1>1. RangeArithmetic(Times, x, y) = FromCorners(Dynamic(<<x, y>>), TimesCorners(x, y))
  BY DEF RangeArithmetic, FromCorners, TimesCorners
<1>2. BoundPairs(r, s) = {<<a, c>>, <<a, d>>, <<b, c>>, <<b, d>>}
  BY FourPairs
<1>3. a \in Int /\ b \in Int /\ c \in Int /\ d \in Int
  BY BoundsAreIntegers
<1>4. TimesCorners(x, y) = {Times(p[1], p[2]) : p \in BoundPairs(r, s)}
  BY DEF TimesCorners
<1> HIDE DEF a, b, c, d, r, s
<1>5. TimesCorners(x, y) = {Times(a, c), Times(a, d), Times(b, c), Times(b, d)}
  <2>1. {Times(p[1], p[2]) : p \in BoundPairs(r, s)} = {Times(a, c), Times(a, d), Times(b, c), Times(b, d)}
    BY <1>2
  <2> QED BY <1>4, <2>1
<1>6. IsCorners(TimesCorners(x, y))
  <2>1. /\ Times(a, c) \in Int \cup {Panicked} /\ Times(a, d) \in Int \cup {Panicked}
        /\ Times(b, c) \in Int \cup {Panicked} /\ Times(b, d) \in Int \cup {Panicked}
    BY <1>3, TimesType
  <2> HIDE DEF TimesCorners
  <2> QED BY <1>5, <2>1 DEF IsCorners
<1> QED BY <1>1, <1>5, <1>6 DEF a, b, c, d, r, s

(* Corners of narrower bounds. *)
LEMMA TimesCornersNarrow ==
  ASSUME NEW x, NEW y, NEW u, NEW v, IsValue(x), IsValue(y), IsValue(u), IsValue(v),
         Within(u, x), Within(v, y), x.ty = "number", y.ty = "number",
         u.ty = "number", v.ty = "number", ~IsNull(u), ~IsNull(v),
         NEW w \in TimesCorners(u, v)
  PROVE  Covers(TimesCorners(x, y), w)
<1> DEFINE a == LowerBound(RangeOf(x))
           b == UpperBound(RangeOf(x))
           c == LowerBound(RangeOf(y))
           d == UpperBound(RangeOf(y))
           a2 == LowerBound(RangeOf(u))
           b2 == UpperBound(RangeOf(u))
           c2 == LowerBound(RangeOf(v))
           d2 == UpperBound(RangeOf(v))
<1>1. /\ a \in Int /\ b \in Int /\ c \in Int /\ d \in Int
      /\ a2 \in Int /\ b2 \in Int /\ c2 \in Int /\ d2 \in Int
  BY BoundsAreIntegers DEF Typed
<1>2. /\ TimesCorners(x, y) = {Times(a, c), Times(a, d), Times(b, c), Times(b, d)}
      /\ TimesCorners(u, v) = {Times(a2, c2), Times(a2, d2), Times(b2, c2), Times(b2, d2)}
  BY TimesCornersAre DEF Typed
<1>3. Around(a, a2, b) /\ Around(a, b2, b) /\ Around(c, c2, d) /\ Around(c, d2, d)
  BY AroundBounds
<1> HIDE DEF a, b, c, d, a2, b2, c2, d2
<1>4. PICK p \in {a2, b2}, q \in {c2, d2} : w = Times(p, q)
  BY <1>2
<1>5. p \in Int /\ q \in Int /\ Around(a, p, b) /\ Around(c, q, d)
  BY <1>1, <1>3
<1>6. Covers({Times(a, c), Times(a, d), Times(b, c), Times(b, d)}, Times(p, q))
  BY <1>1, <1>5, TimesCovers
<1> QED BY <1>2, <1>4, <1>6

LEMMA TimesCornersHold ==
  ASSUME NEW x, NEW y, NEW u, NEW v, IsValue(x), IsValue(y), IsValue(u), IsValue(v),
         Within(u, x), Within(v, y), x.ty = "number", y.ty = "number",
         Ready("number", u), Ready("number", v)
  PROVE  Covers(TimesCorners(x, y), Times(u.c, v.c))
<1> DEFINE a == LowerBound(RangeOf(x))
           b == UpperBound(RangeOf(x))
           c == LowerBound(RangeOf(y))
           d == UpperBound(RangeOf(y))
<1>1. a \in Int /\ b \in Int /\ c \in Int /\ d \in Int /\ u.c \in Int /\ v.c \in Int
  BY BoundsAreIntegers, ReadyNumber DEF Typed
<1>2. TimesCorners(x, y) = {Times(a, c), Times(a, d), Times(b, c), Times(b, d)}
  BY TimesCornersAre DEF Typed
<1>3. Around(a, u.c, b) /\ Around(c, v.c, d)
  BY AroundKnown
<1> HIDE DEF a, b, c, d
<1>4. Covers({Times(a, c), Times(a, d), Times(b, c), Times(b, d)}, Times(u.c, v.c))
  BY <1>1, <1>3, TimesCovers
<1> QED BY <1>2, <1>4

LEMMA TimesIsSound ==
  ASSUME NEW x, NEW y, NEW u, NEW v, IsValue(x), IsValue(y), IsValue(u), IsValue(v),
         Within(u, x), Within(v, y)
  PROVE  Sound(Arithmetic(Times, u, v), Arithmetic(Times, x, y), Pending(u, v))
<1> DEFINE e == RangeArithmetic(Times, x, y)
           e2 == RangeArithmetic(Times, u, v)
           r == NumberResult(Times(x.c, y.c))
           r2 == NumberResult(Times(u.c, v.c))
           C == TimesCorners(x, y)
           D == TimesCorners(u, v)
           dyn == Dynamic(<<x, y>>)
           dyn2 == Dynamic(<<u, v>>)
<1>1. /\ dyn <=> x.ty = "dynamic" \/ y.ty = "dynamic"
      /\ dyn2 <=> u.ty = "dynamic" \/ v.ty = "dynamic"
      /\ dyn \in BOOLEAN /\ dyn2 \in BOOLEAN
  <2>1. dyn \in BOOLEAN /\ dyn2 \in BOOLEAN
    BY DEF Dynamic
  <2> QED BY <2>1, DynamicTwo
<1>2. /\ Typed("number", x) /\ Typed("number", y) => e = FromCorners(dyn, C) /\ IsCorners(C)
      /\ Typed("number", u) /\ Typed("number", v) => e2 = FromCorners(dyn2, D) /\ IsCorners(D)
  BY TimesCornersAre
<1>3. ASSUME Ready("number", u), Ready("number", v)
      PROVE  /\ Numeric(r2)
             /\ r2 # Panicked => r2.known /\ r2.c = Times(u.c, v.c)
  <2>1. Times(u.c, v.c) \in Int \cup {Panicked}
    BY <1>3, ReadyNumber, TimesType
  <2>2. r2 # Panicked => r2.known /\ r2.c = Times(u.c, v.c)
    BY DEF NumberResult, Known
  <2> QED BY <2>1, <2>2, NumberResultIsNumeric
<1>4. ASSUME ~dyn, Typed("number", x), Typed("number", y)
      PROVE  x.ty = "number" /\ y.ty = "number"
  BY <1>1, <1>4 DEF Typed
<1>5. ASSUME Ready("number", u), Ready("number", v), Typed("number", x), Typed("number", y)
      PROVE  Follows(r2, e)
  <2>1. ~dyn => Covers(C, Times(u.c, v.c))
    BY <1>4, <1>5, TimesCornersHold
  <2>2. ~dyn /\ r2 # Panicked => Covers(C, r2.c)
    BY <1>3, <1>5, <2>1
  <2> HIDE DEF C, D, dyn, dyn2, e, e2, r, r2
  <2>3. Follows(r2, FromCorners(dyn, C))
    BY <1>1, <1>2, <1>3, <1>5, <2>2, NumberInCorners
  <2> QED BY <1>2, <1>5, <2>3
<1>6. ASSUME Typed("number", x), Typed("number", y), Typed("number", u), Typed("number", v),
             ~dyn => u.ty = "number" /\ v.ty = "number" /\ ~IsNull(u) /\ ~IsNull(v)
      PROVE  Follows(e2, e)
  <2>1. ~dyn => \A w \in D : Covers(C, w)
    BY <1>4, <1>6, TimesCornersNarrow
  <2>2. dyn2 => dyn
    BY <1>1, <1>6
  <2> HIDE DEF C, D, dyn, dyn2, e, e2, r, r2
  <2>3. Follows(FromCorners(dyn2, D), FromCorners(dyn, C))
    BY <1>1, <1>2, <1>6, <2>1, <2>2, CornersInCorners
  <2> QED BY <1>2, <1>6, <2>3
<1>7. ASSUME Ready("number", x), Ready("number", y), u.c = x.c, v.c = y.c
      PROVE  Sound(r2, r, FALSE)
  <2>1. Times(x.c, y.c) \in Int \cup {Panicked}
    BY <1>7, ReadyNumber, TimesType
  <2>2. Good(r) /\ r2 = r
    BY <1>7, <2>1, NumberResultIsGood
  <2> HIDE DEF r, r2
  <2> QED BY <2>2, SameIsSound
<1>8. Resolves("number", x, y, u, v, e, r, e2, r2)
  <2> HIDE DEF C, D, dyn, dyn2, e, e2, r, r2
  <2> QED BY <1>1, <1>5, <1>6, <1>7 DEF Resolves, Typed
<1>9. CASE Typed("number", x) /\ Typed("number", y)
  <2> HIDE DEF C, D, dyn, dyn2, e, e2, r, r2
  <2>1. e # Panicked
    BY <1>1, <1>2, <1>9, FromCornersIs
  <2>2. Sound(TypeChecked("number", <<u, v>>, e2, r2), TypeChecked("number", <<x, y>>, e, r),
              Pending(u, v))
    BY <1>8, <2>1, LearnTwo
  <2> QED BY <2>2 DEF Arithmetic, e, e2, r, r2
<1>10. CASE ~(Typed("number", x) /\ Typed("number", y))
  BY <1>10, UntypedPanics, SoundPanic DEF Arithmetic
<1> QED BY <1>9, <1>10

(* Zero, learned of one factor, is among the corners that the other has. *)
LEMMA ZeroInCorners ==
  ASSUME NEW x, NEW y, NEW u, IsValue(x), IsValue(y), IsValue(u), Within(u, x),
         x.ty = "number", y.ty = "number", Ready("number", u), u.c = 0
  PROVE  Covers(TimesCorners(x, y), 0)
<1> DEFINE a == LowerBound(RangeOf(x))
           b == UpperBound(RangeOf(x))
           c == LowerBound(RangeOf(y))
           d == UpperBound(RangeOf(y))
           C == TimesCorners(x, y)
<1>1. a \in Int /\ b \in Int /\ c \in Numbers /\ d \in Numbers /\ c <= d
  BY BoundsAreIntegers, BoundsAreNumbers, BoundsInOrder DEF Typed
<1>2. C = {Times(a, c), Times(a, d), Times(b, c), Times(b, d)}
  BY TimesCornersAre DEF Typed
<1>3. Around(a, 0, b)
  BY AroundKnown
<1> HIDE DEF a, b, c, d, C
<1>4. Around(c, c, d) /\ c \in Int /\ d \in Int
  BY <1>1, NumberFacts DEF Around
<1>5. Covers(C, Times(0, c))
  BY <1>1, <1>2, <1>3, <1>4, TimesCovers
<1>6. Covers(C, 0)
  <2>1. CASE Infinite(c) \/ Infinite(0)
    <3>1. Times(0, c) = Panicked
      BY <2>1 DEF Times
    <3> QED BY <1>5, <3>1, NumberFacts DEF Covers
  <2>2. CASE ~Infinite(c) /\ ~Infinite(0)
    <3>1. Times(0, c) = 0
      BY <1>4, <2>2 DEF Times
    <3> QED BY <1>5, <3>1
  <2> QED BY <2>1, <2>2
<1> QED BY <1>6 DEF C

(* Multiply recognises cty.Zero among its operands. *)
ByZero(x, y) ==
  /\ ~Mismatch("number", <<x, y>>) /\ ShortCircuit(<<x, y>>)
  /\ IsZeroItself(x) \/ IsZeroItself(y)

LEMMA ShapeOfTwo ==
  ASSUME NEW x, NEW y
  PROVE  /\ ~Mismatch("number", <<x, y>>) <=> Typed("number", x) /\ Typed("number", y)
         /\ ShortCircuit(<<x, y>>) <=>
              x.ty = "dynamic" \/ ~x.known \/ y.ty = "dynamic" \/ ~y.known
         /\ AnyNull(<<x, y>>) <=> IsNull(x) \/ IsNull(y)
<1> DEFINE xs == <<x, y>>
<1>1. DOMAIN xs = {1, 2} /\ xs[1] = x /\ xs[2] = y
  OBVIOUS
<1> HIDE DEF xs
<1>2. /\ ~Mismatch("number", xs) <=> Typed("number", x) /\ Typed("number", y)
      /\ ShortCircuit(xs) <=> x.ty = "dynamic" \/ ~x.known \/ y.ty = "dynamic" \/ ~y.known
      /\ AnyNull(xs) <=> IsNull(x) \/ IsNull(y)
  BY <1>1 DEF Mismatch, Typed, ShortCircuit, AnyNull
<1> QED BY <1>2 DEF xs

LEMMA LiteralZeroIs ==
  /\ Numeric(Literal(0)) /\ Literal(0) # Panicked /\ Literal(0).known /\ Literal(0).c = 0
  /\ Literal(0).ty = "number" /\ Literal(0).lit /\ Literal(0).whole
<1> DEFINE k == Known("number", 0)
<1>1. k = [ty |-> "number", known |-> TRUE, c |-> 0, whole |-> TRUE, lit |-> FALSE]
  BY DEF Known
<1>2. Literal(0) = [k EXCEPT !.lit = TRUE]
  BY DEF Literal
<1> HIDE DEF k
<1>3. /\ Literal(0).known /\ Literal(0).c = 0
      /\ Literal(0).ty = "number" /\ Literal(0).lit /\ Literal(0).whole
  BY <1>1, <1>2
<1>4. 0 \in Int
  OBVIOUS
<1>5. Good(Literal(0))
  BY <1>4, LiteralIsGood
<1> QED BY <1>3, <1>5, NoPanics DEF Numeric

LEMMA MultiplyIsSound ==
  ASSUME NEW x, NEW y, NEW u, NEW v, IsValue(x), IsValue(y), IsValue(u), IsValue(v),
         Within(u, x), Within(v, y), SameIdentity(u, x), SameIdentity(v, y)
  PROVE  Sound(Multiply(u, v), Multiply(x, y), Pending(u, v))
<1>1. /\ Multiply(x, y) = IF ByZero(x, y) THEN Literal(0) ELSE Arithmetic(Times, x, y)
      /\ Multiply(u, v) = IF ByZero(u, v) THEN Literal(0) ELSE Arithmetic(Times, u, v)
  BY DEF Multiply, ByZero
<1> DEFINE e == RangeArithmetic(Times, x, y)
           e2 == RangeArithmetic(Times, u, v)
           r == NumberResult(Times(x.c, y.c))
           r2 == NumberResult(Times(u.c, v.c))
<1>2. /\ Arithmetic(Times, x, y) = TypeChecked("number", <<x, y>>, e, r)
      /\ Arithmetic(Times, u, v) = TypeChecked("number", <<u, v>>, e2, r2)
  BY DEF Arithmetic
<1> HIDE DEF e, e2, r
<1>3. CASE ByZero(x, y)
  <2>1. /\ IsZeroItself(x) => IsZeroItself(u)
        /\ IsZeroItself(y) => IsZeroItself(v)
    BY SameType DEF IsZeroItself, SameIdentity
  <2>2. CASE ByZero(u, v)
    BY <1>1, <1>3, <2>2, LiteralZeroIs, FollowsItself DEF Sound, Numeric
  <2>3. CASE ~ByZero(u, v)
    <3>1. Multiply(x, y) = Literal(0) /\ Multiply(u, v) = TypeChecked("number", <<u, v>>, e2, r2)
      BY <1>1, <1>2, <1>3, <2>3
    <3>2. Mismatch("number", <<u, v>>) \/ ~ShortCircuit(<<u, v>>)
      BY <1>3, <2>1, <2>3 DEF ByZero
    <3>3. CASE Mismatch("number", <<u, v>>) \/ AnyNull(<<u, v>>)
      BY <3>1, <3>2, <3>3, SoundPanic DEF TypeChecked
    <3>4. CASE ~Mismatch("number", <<u, v>>) /\ ~AnyNull(<<u, v>>)
      <4>1. Multiply(u, v) = r2 /\ Ready("number", u) /\ Ready("number", v)
        <5>1. ~ShortCircuit(<<u, v>>)
          BY <3>2, <3>4
        <5>2. Ready("number", u) /\ Ready("number", v)
          BY <3>4, <5>1, ShapeOfTwo DEF Ready, Typed, IsNull
        <5> QED BY <3>1, <3>4, <5>1, <5>2 DEF TypeChecked
      <4>2. u.c \in Int /\ v.c \in Int /\ (u.c = 0 \/ v.c = 0)
        BY <1>3, <2>1, <4>1, ReadyNumber DEF ByZero, IsZeroItself
      <4>3. Times(u.c, v.c) \in {0, Panicked}
        BY <4>2 DEF Times
      <4>4. CASE Times(u.c, v.c) = Panicked
        BY <4>1, <4>4, SoundPanic DEF NumberResult
      <4>5. CASE Times(u.c, v.c) = 0 /\ Times(u.c, v.c) # Panicked
        <5>1. Multiply(u, v) = Known("number", 0)
          BY <4>1, <4>5 DEF NumberResult
        <5>2. Within(Known("number", 0), Literal(0))
          BY LiteralZeroIs DEF Within, Known
        <5> QED BY <3>1, <5>1, <5>2, LiteralZeroIs DEF Sound, Follows
      <4> QED BY <4>3, <4>4, <4>5
    <3> QED BY <3>3, <3>4
  <2> QED BY <2>2, <2>3
<1>4. CASE ~ByZero(x, y) /\ ByZero(u, v)
  <2>1. Multiply(u, v) = Literal(0) /\ Multiply(x, y) = TypeChecked("number", <<x, y>>, e, r)
    BY <1>1, <1>2, <1>4
  <2>2. Typed("number", x) /\ Typed("number", y)
    BY <1>4, UntypedPanics DEF ByZero
  <2>3. ShortCircuit(<<x, y>>)
    BY <1>4, SameType, ShapeOfTwo DEF ByZero
  <2>4. Multiply(x, y) = e
    BY <2>1, <2>2, <2>3, ShapeOfTwo DEF TypeChecked
  <2> DEFINE dyn == Dynamic(<<x, y>>)
             C == TimesCorners(x, y)
  <2>5. /\ e = FromCorners(dyn, C) /\ IsCorners(C) /\ dyn \in BOOLEAN
    BY <2>2, TimesCornersAre DEF e, Dynamic
  <2>6. ~dyn => Covers(C, 0)
    <3> SUFFICES ASSUME ~dyn PROVE Covers(C, 0)
      OBVIOUS
    <3>1. x.ty = "number" /\ y.ty = "number"
      BY <2>2, DynamicTwo DEF Typed
    <3>2. CASE IsZeroItself(u)
      BY <3>1, <3>2, ZeroInCorners, NumberFacts DEF IsZeroItself, Ready
    <3>3. CASE IsZeroItself(v)
      <4>1. Covers(TimesCorners(y, x), 0)
        BY <3>1, <3>3, ZeroInCorners, NumberFacts DEF IsZeroItself, Ready
      <4>2. TimesCorners(y, x) = TimesCorners(x, y)
        <5> DEFINE a == LowerBound(RangeOf(x))
                   b == UpperBound(RangeOf(x))
                   c == LowerBound(RangeOf(y))
                   d == UpperBound(RangeOf(y))
        <5>1. /\ TimesCorners(x, y) = {Times(a, c), Times(a, d), Times(b, c), Times(b, d)}
              /\ TimesCorners(y, x) = {Times(c, a), Times(c, b), Times(d, a), Times(d, b)}
          BY <2>2, TimesCornersAre
        <5>2. a \in Int /\ b \in Int /\ c \in Int /\ d \in Int
          BY <2>2, BoundsAreIntegers
        <5> HIDE DEF a, b, c, d
        <5>3. /\ Times(a, c) = Times(c, a) /\ Times(a, d) = Times(d, a)
              /\ Times(b, c) = Times(c, b) /\ Times(b, d) = Times(d, b)
          BY <5>2, TimesCommutes
        <5> QED BY <5>1, <5>3
      <4> QED BY <4>1, <4>2
    <3> QED BY <1>4, <3>2, <3>3 DEF ByZero
  <2> HIDE DEF dyn, C
  <2>7. Follows(Literal(0), FromCorners(dyn, C)) /\ FromCorners(dyn, C) # Panicked
    BY <2>5, <2>6, LiteralZeroIs, NumberInCorners, FromCornersIs
  <2> QED BY <2>1, <2>4, <2>5, <2>7, SoundFollows
<1>5. CASE ~ByZero(x, y) /\ ~ByZero(u, v)
  BY <1>1, <1>5, TimesIsSound
<1> QED BY <1>3, <1>4, <1>5

----------------------------------------------------------------------------
(* Lengths.                                                                *)

HasLength(x) ==
  x.ty \notin {"number", "bool"} /\ ~(x.known /\ (IsNull(x) \/ x.ty = "dynamic"))
LengthKnown(x) == x.known /\ (x.whole \/ x.c = 1)
MinLength(x) ==
  IF x.known THEN IF x.whole THEN x.c ELSE 1 ELSE LengthBounds(x.rfn)[1]
MaxLength(x) == IF x.known THEN x.c ELSE LengthBounds(x.rfn)[2]

LEMMA KnownLengthIs ==
  ASSUME NEW x, IsValue(x), HasLength(x), x.known
  PROVE  /\ x.ty \in {"list", "set"} /\ x.c \in 0 .. MaxInt /\ x.c \in Int /\ x.c <= MaxInt
         /\ ~x.whole => x.c >= 1
<1>1. x.ty \in {"list", "set"} /\ IsConcrete(x.ty, x.c)
  BY DEF IsValue, IsNull, OperandTypes, HasLength
<1>2. x.c \in 0 .. MaxInt
  BY <1>1 DEF IsConcrete
<1>3. ~x.whole => x.c \in 1 .. MaxInt
  BY DEF IsValue
<1> QED BY <1>1, <1>2, <1>3, LengthsAssumption DEF LengthsAssumption

LEMMA UnknownLengthIs ==
  ASSUME NEW x, IsValue(x), ~x.known
  PROVE  /\ LengthBounds(x.rfn)[1] \in Int /\ LengthBounds(x.rfn)[2] \in Int
         /\ 0 <= LengthBounds(x.rfn)[1] /\ LengthBounds(x.rfn)[1] <= LengthBounds(x.rfn)[2]
         /\ LengthBounds(x.rfn)[2] <= MaxInt
BY UnknownIs, LengthsAssumption DEF LengthBounds, LengthsAssumption

LEMMA LengthIs ==
  ASSUME NEW x, IsValue(x), HasLength(x)
  PROVE  /\ MinLength(x) \in Int /\ MaxLength(x) \in Int
         /\ 0 <= MinLength(x) /\ MinLength(x) <= MaxLength(x) /\ MaxLength(x) <= MaxInt
         /\ LengthKnown(x) => MinLength(x) = MaxLength(x)
         /\ Length(x) = IF LengthKnown(x) THEN Known("number", MinLength(x))
                        ELSE NumberBetween(MinLength(x), MaxLength(x))
         /\ Length(x) # Panicked
<1>1. CASE x.known
  <2>1. x.c \in Int /\ 0 <= x.c /\ x.c <= MaxInt /\ (~x.whole => x.c >= 1)
    BY <1>1, KnownLengthIs, LengthsAssumption DEF LengthsAssumption
  <2>2. /\ MinLength(x) = (IF x.whole THEN x.c ELSE 1) /\ MaxLength(x) = x.c
        /\ LengthKnown(x) <=> x.whole \/ x.c = 1
    BY <1>1 DEF MinLength, MaxLength, LengthKnown
  <2>3. Length(x) = IF LengthKnown(x) THEN Known("number", x.c) ELSE NumberBetween(1, x.c)
    BY <1>1, <2>2 DEF Length, HasLength
  <2> QED BY <2>1, <2>2, <2>3, NoPanics
<1>2. CASE ~x.known
  <2>1. /\ MinLength(x) = LengthBounds(x.rfn)[1] /\ MaxLength(x) = LengthBounds(x.rfn)[2]
        /\ ~LengthKnown(x)
    BY <1>2 DEF MinLength, MaxLength, LengthKnown
  <2>2. Length(x) = NumberBetween(LengthBounds(x.rfn)[1], LengthBounds(x.rfn)[2])
    BY <1>2 DEF Length, HasLength
  <2> QED BY <1>2, <2>1, <2>2, UnknownLengthIs, NoPanics
<1> QED BY <1>1, <1>2

(* The range of a collection reaches no further than its length may. *)
LEMMA RangeLengths ==
  ASSUME NEW x, IsValue(x), HasLength(x)
  PROVE  /\ LengthBounds(RangeOf(x))[1] \in Int /\ LengthBounds(RangeOf(x))[2] \in Int
         /\ LengthBounds(RangeOf(x))[1] <= MinLength(x)
         /\ MaxLength(x) <= LengthBounds(RangeOf(x))[2]
<1>1. CASE x.known
  <2> DEFINE f == NotNull(Fresh(x.ty))
             g == [f EXCEPT !.minLen = x.c, !.maxLen = x.c]
  <2>1. x.ty \in {"list", "set"} /\ ~IsNull(x)
    BY <1>1, KnownLengthIs DEF HasLength
  <2>2. f = [kind |-> "collection", null |-> "F", minLen |-> 0, maxLen |-> MaxInt]
    <3>1. Fresh(x.ty) = [kind |-> "collection", null |-> "U", minLen |-> 0, maxLen |-> MaxInt]
      BY <2>1 DEF Fresh, KindOf, CollectionTypes
    <3> QED BY <3>1 DEF NotNull
  <2>3. RangeOf(x) = IF Length(x).known THEN g ELSE f
    BY <1>1, <2>1 DEF RangeOf, CollectionTypes
  <2> HIDE DEF f
  <2>4. /\ g.kind = "collection" /\ g.minLen = x.c /\ g.maxLen = x.c
        /\ f.kind = "collection" /\ f.minLen = 0 /\ f.maxLen = MaxInt
    BY <2>2
  <2>5. Length(x).known => LengthKnown(x)
    <3> SUFFICES ASSUME ~LengthKnown(x) PROVE ~Length(x).known
      OBVIOUS
    <3>1. MinLength(x) = 1 /\ MaxLength(x) = x.c /\ x.c # 1 /\ x.c \in Int
      BY <1>1, KnownLengthIs DEF LengthKnown, MinLength, MaxLength
    <3>2. Length(x) = NumberBetween(1, x.c)
      BY <3>1, LengthIs
    <3>3. Length(x) = Unknown("number", Bounded(1, x.c))
      BY <3>1, <3>2, NumberBetweenIs
    <3> QED BY <3>3 DEF Unknown
  <2> HIDE DEF g
  <2>6. LengthKnown(x) => MinLength(x) = x.c
    BY <1>1 DEF LengthKnown, MinLength
  <2>7. MaxLength(x) = x.c /\ x.c \in Int
    BY <1>1, KnownLengthIs DEF MaxLength
  <2> QED BY <2>3, <2>4, <2>5, <2>6, <2>7, LengthIs, LengthsAssumption
          DEF LengthBounds, LengthsAssumption
<1>2. CASE ~x.known
  BY <1>2, UnknownIs, UnknownLengthIs DEF MinLength, MaxLength
<1> QED BY <1>1, <1>2

LEMMA LengthsNarrow ==
  ASSUME NEW u, NEW x, IsValue(u), IsValue(x), Within(u, x), HasLength(u), HasLength(x)
  PROVE  /\ MinLength(x) <= MinLength(u) /\ MaxLength(u) <= MaxLength(x)
         /\ LengthKnown(x) => LengthKnown(u)
<1>1. CASE x.known
  <2>1. u.known
    BY <1>1 DEF Within
  <2>2. u.c \in Int /\ x.c \in Int
    BY <1>1, <2>1, KnownLengthIs
  <2>3. CASE x.whole
    BY <1>1, <2>1, <2>2, <2>3 DEF Within, MinLength, MaxLength, LengthKnown
  <2>4. CASE ~x.whole
    BY <1>1, <2>1, <2>2, <2>4 DEF Within, MinLength, MaxLength, LengthKnown
  <2> QED BY <2>3, <2>4
<1>2. CASE ~x.known
  <2>1. BoundsWithin(RangeOf(u), x.rfn)
    BY <1>2, NotNullWithin DEF HasLength, IsNull
  <2> DEFINE r == RangeOf(u)
             s == x.rfn
  <2>2. MinLength(x) = LengthBounds(s)[1] /\ MaxLength(x) = LengthBounds(s)[2] /\ ~LengthKnown(x)
    BY <1>2 DEF MinLength, MaxLength, LengthKnown
  <2>3. /\ LengthBounds(r)[1] \in Int /\ LengthBounds(r)[2] \in Int
        /\ LengthBounds(r)[1] <= MinLength(u) /\ MaxLength(u) <= LengthBounds(r)[2]
    BY RangeLengths
  <2>4. s.kind = "nullable" \/ s.kind = "collection" \/ s.kind = "number"
    BY <1>2, UnknownIs
  <2>5. s.kind # "number"
    BY <1>2, UnknownIs DEF HasLength
  <2>6. /\ MinLength(u) \in Int /\ MaxLength(u) \in Int
        /\ 0 <= MinLength(u) /\ MaxLength(u) <= MaxInt
        /\ LengthBounds(s)[1] \in Int /\ LengthBounds(s)[2] \in Int
    BY <1>2, LengthIs, UnknownLengthIs
  <2> HIDE DEF r, s
  <2>7. CASE s.kind = "nullable"
    <3>1. LengthBounds(s)[1] = 0 /\ LengthBounds(s)[2] = MaxInt
      BY <2>7 DEF LengthBounds
    <3> QED BY <2>2, <2>6, <3>1
  <2>8. CASE s.kind = "collection"
    <3>1. LengthBounds(s)[1] <= LengthBounds(r)[1] /\ LengthBounds(r)[2] <= LengthBounds(s)[2]
      BY <2>1, <2>8 DEF BoundsWithin, r, s
    <3> QED BY <2>2, <2>3, <2>6, <3>1
  <2> QED BY <2>4, <2>5, <2>7, <2>8
<1> QED BY <1>1, <1>2

LEMMA LengthIsSound ==
  ASSUME NEW x, NEW u, IsValue(x), IsValue(u), Within(u, x)
  PROVE  Sound(Length(u), Length(x), FALSE)
<1>1. ~HasLength(u) => Length(u) = Panicked
  BY DEF HasLength, Length
<1>2. ~HasLength(x) => ~HasLength(u)
  BY SameType DEF HasLength
<1>3. CASE ~HasLength(u)
  BY <1>1, <1>3, SoundPanic
<1>4. CASE HasLength(u)
  <2> DEFINE m == MinLength(x)
             n == MaxLength(x)
             m2 == MinLength(u)
             n2 == MaxLength(u)
  <2>1. /\ m \in Int /\ n \in Int /\ m <= n
        /\ LengthKnown(x) => m = n
        /\ Length(x) = IF LengthKnown(x) THEN Known("number", m) ELSE NumberBetween(m, n)
        /\ Length(x) # Panicked
    BY <1>2, <1>4, LengthIs
  <2>2. /\ m2 \in Int /\ n2 \in Int /\ m2 <= n2
        /\ LengthKnown(u) => m2 = n2
        /\ Length(u) = IF LengthKnown(u) THEN Known("number", m2) ELSE NumberBetween(m2, n2)
    BY <1>4, LengthIs
  <2>3. m <= m2 /\ n2 <= n /\ (LengthKnown(x) => LengthKnown(u))
    BY <1>2, <1>4, LengthsNarrow
  <2> HIDE DEF m, n, m2, n2
  <2>4. CASE LengthKnown(x)
    <3>1. Length(u) = Length(x) /\ Length(x) = Known("number", m)
      BY <2>1, <2>2, <2>3, <2>4
    <3> QED BY <2>1, <3>1, KnownNumberIsGood, SameIsSound
  <2>5. CASE ~LengthKnown(x) /\ LengthKnown(u)
    <3>1. Follows(Known("number", m2), NumberBetween(m, n))
      BY <2>1, <2>2, <2>3, <2>5, KnownIsNumeric, FollowsBetween
    <3> QED BY <2>1, <2>2, <2>5, <3>1, SoundFollows
  <2>6. CASE ~LengthKnown(x) /\ ~LengthKnown(u)
    <3>1. Follows(NumberBetween(m2, n2), NumberBetween(m, n))
      BY <2>1, <2>2, <2>3, BetweenNarrows
    <3> QED BY <2>1, <2>2, <2>6, <3>1, SoundFollows
  <2> QED BY <2>4, <2>5, <2>6
<1> QED BY <1>3, <1>4

----------------------------------------------------------------------------
(* Comparing a number with a bound.                                        *)

(* z is a number that is known, or lies between lo and hi. *)
NumberWithin(z, lo, hi) ==
  /\ z.ty = "number" /\ ~IsNull(z) /\ lo \in Int /\ hi \in Int /\ lo <= hi
  /\ LowerBound(RangeOf(z)) = lo /\ UpperBound(RangeOf(z)) = hi
  /\ z.known => z.c = lo /\ z.c = hi

LEMMA KnownNumberWithin ==
  ASSUME NEW n \in Int
  PROVE  NumberWithin(Known("number", n), n, n)
<1> DEFINE z == Known("number", n)
<1>1. z.ty = "number" /\ z.known /\ z.c = n /\ ~IsNull(z)
  BY NumberFacts DEF Known, IsNull
<1> HIDE DEF z
<1>2. /\ RangeOf(z).kind = "number" /\ RangeOf(z).min = n /\ RangeOf(z).max = n
  BY <1>1, KnownNumberParts
<1>3. LowerBound(RangeOf(z)) = n /\ UpperBound(RangeOf(z)) = n
  BY <1>2, NumberFacts DEF LowerBound, UpperBound
<1> QED BY <1>1, <1>3 DEF NumberWithin, z

LEMMA BetweenWithin ==
  ASSUME NEW lo \in Int, NEW hi \in Int, lo <= hi
  PROVE  NumberWithin(NumberBetween(lo, hi), lo, hi)
<1>1. CASE lo = hi /\ lo # NegInf /\ hi # PosInf
  BY <1>1, NumberBetweenIs, KnownNumberWithin
<1>2. CASE ~(lo = hi /\ lo # NegInf /\ hi # PosInf)
  <2> DEFINE r == Bounded(lo, hi)
             z == Unknown("number", r)
  <2>1. NumberBetween(lo, hi) = z
    BY <1>2, NumberBetweenIs
  <2>2. /\ r.kind = "number"
        /\ r.min = IF lo = NegInf THEN NilVal ELSE lo
        /\ r.max = IF hi = PosInf THEN NilVal ELSE hi
    BY DEF Bounded
  <2> HIDE DEF r
  <2>3. z.ty = "number" /\ ~z.known /\ z.rfn = r
    BY DEF Unknown
  <2> HIDE DEF z
  <2>4. RangeOf(z) = r
    BY <2>3 DEF RangeOf, IsNull
  <2>5. LowerBound(r) = lo /\ UpperBound(r) = hi
    BY <2>2, NumberFacts DEF LowerBound, UpperBound
  <2> QED BY <2>1, <2>3, <2>4, <2>5 DEF NumberWithin, IsNull
<1> QED BY <1>1, <1>2

LEMMA ValueWithinBounds ==
  ASSUME NEW v, IsValue(v), v.ty = "number", ~IsNull(v)
  PROVE  NumberWithin(v, LowerBound(RangeOf(v)), UpperBound(RangeOf(v)))
<1>1. v.known => Ready("number", v)
  BY DEF IsNull, Ready
<1> QED BY <1>1, KnownBounds, BoundsInOrder, BoundsAreIntegers DEF NumberWithin, Typed

Answers == {True, False, UnknownNotNull("bool")}

LEMMA AnswersDiffer ==
  /\ True # False /\ UnknownNotNull("bool") \notin {True, False}
  /\ \A z \in Answers : /\ IsFalse(z) <=> z = False
                        /\ IsTrue(z) <=> z = True
                        /\ ~IsNull(z)
                        /\ z # Panicked
<1>1. /\ True.known /\ True.c = TRUE /\ False.known /\ False.c = FALSE
  BY DEF True, False, Known
<1>2. ~UnknownNotNull("bool").known
  BY UnknownBoolNotNull
<1>3. Null # TRUE /\ Null # FALSE
  BY MarkersAssumption DEF MarkersAssumption
<1>4. True # False /\ UnknownNotNull("bool") \notin {True, False}
  BY <1>1, <1>2
<1> QED BY <1>1, <1>2, <1>3, <1>4, NoPanics DEF Answers, IsFalse, IsTrue, IsNull

(* The alternative of two answers is false only if both are. *)
LEMMA OrIsFalse ==
  ASSUME NEW a \in Answers, NEW b \in Answers
  PROVE  /\ OrEqual(a, b) \in Answers
         /\ IsFalse(OrEqual(a, b)) <=> a = False /\ b = False
<1>1. a # Panicked /\ b # Panicked
  BY AnswersDiffer
<1>2. OrEqual(a, b) = Or(a, b)
  BY <1>1 DEF OrEqual
<1>3. /\ True.ty = "bool" /\ False.ty = "bool" /\ True.known /\ False.known
      /\ True.c = TRUE /\ False.c = FALSE
  BY DEF True, False, Known
<1>4. UnknownNotNull("bool").ty = "bool" /\ ~UnknownNotNull("bool").known
  BY UnknownBoolNotNull
<1>5. ~IsNull(a) /\ ~IsNull(b)
  BY AnswersDiffer
<1>6. a.ty = "bool" /\ b.ty = "bool"
  BY <1>3, <1>4 DEF Answers
<1>7. Or(a, b) = IF ~a.known \/ ~b.known
                   THEN IF IsTrue(a) \/ IsTrue(b) THEN True ELSE UnknownNotNull("bool")
                   ELSE Known("bool", a.c \/ b.c)
  <2>1. /\ ~Mismatch("bool", <<a, b>>)
        /\ ShortCircuit(<<a, b>>) <=> ~a.known \/ ~b.known
        /\ ~AnyNull(<<a, b>>)
    <3>1. DOMAIN <<a, b>> = {1, 2} /\ <<a, b>>[1] = a /\ <<a, b>>[2] = b
      OBVIOUS
    <3> QED BY <3>1, <1>5, <1>6 DEF Mismatch, ShortCircuit, AnyNull
  <2> QED BY <2>1 DEF Or, TypeChecked
<1>8. /\ Known("bool", TRUE) = True /\ Known("bool", FALSE) = False
  BY DEF True, False
<1>9. CASE ~a.known \/ ~b.known
  BY <1>2, <1>4, <1>7, <1>9, AnswersDiffer, <1>3 DEF Answers
<1>10. CASE a.known /\ b.known
  <2>1. a \in {True, False} /\ b \in {True, False}
    BY <1>10, <1>4 DEF Answers
  <2>2. Or(a, b) = IF a = True \/ b = True THEN True ELSE False
    <3>1. CASE a = True
      BY <3>1, <1>3, <1>7, <1>8, <1>10
    <3>2. CASE b = True
      BY <3>2, <1>3, <1>7, <1>8, <1>10
    <3>3. CASE a = False /\ b = False
      BY <3>3, <1>3, <1>7, <1>8, <1>10, AnswersDiffer
    <3> QED BY <2>1, <3>1, <3>2, <3>3
  <2> QED BY <1>2, <2>1, <2>2, AnswersDiffer DEF Answers
<1> QED BY <1>9, <1>10

(* Is z greater than the bound k: not, only if its bounds say so. *)
LEMMA GreaterThanBound ==
  ASSUME NEW z, NEW lo, NEW hi, NumberWithin(z, lo, hi), NEW k \in Int
  PROVE  /\ GreaterThan(z, Known("number", k)) \in Answers
         /\ GreaterThan(z, Known("number", k)) = False => hi <= k /\ (~z.known => hi < k)
         /\ z.known => (GreaterThan(z, Known("number", k)) = False <=> z.c <= k)
<1> DEFINE y == Known("number", k)
<1>1. NumberWithin(y, k, k) /\ y.known /\ y.c = k
  BY KnownNumberWithin DEF Known
<1> HIDE DEF y
<1>2. /\ z.ty = "number" /\ y.ty = "number" /\ ~IsNull(z) /\ ~IsNull(y)
      /\ LowerBound(RangeOf(z)) = lo /\ UpperBound(RangeOf(z)) = hi
      /\ LowerBound(RangeOf(y)) = k /\ UpperBound(RangeOf(y)) = k
      /\ lo \in Int /\ hi \in Int /\ lo <= hi
      /\ z.known => z.c = lo /\ z.c = hi
  BY <1>1 DEF NumberWithin
<1>3. /\ ~Mismatch("number", <<z, y>>) /\ ~AnyNull(<<z, y>>)
      /\ ShortCircuit(<<z, y>>) <=> ~z.known
  BY <1>1, <1>2, ShapeOfTwo DEF Typed
<1>4. /\ CertainlyLess(z, y) <=> hi < k
      /\ CertainlyLess(y, z) <=> k < lo
  BY <1>2, DynamicTwo DEF CertainlyLess
<1>5. CASE ~z.known
  <2>1. GreaterThan(z, y) = IF k < lo THEN True ELSE IF hi < k THEN False ELSE UnknownNotNull("bool")
    BY <1>3, <1>4, <1>5 DEF GreaterThan, TypeChecked
  <2> QED BY <1>2, <1>5, <2>1, AnswersDiffer DEF Answers, y
<1>6. CASE z.known
  <2>1. GreaterThan(z, y) = Known("bool", z.c > k)
    BY <1>1, <1>3, <1>6 DEF GreaterThan, TypeChecked
  <2>2. (z.c > k) \in BOOLEAN
    OBVIOUS
  <2>3. GreaterThan(z, y) = IF z.c > k THEN True ELSE False
    BY <2>1, <2>2 DEF True, False
  <2> QED BY <1>2, <1>6, <2>3, AnswersDiffer DEF Answers, y
<1> QED BY <1>5, <1>6

(* Is z less than the bound k: not, only if its bounds say so. *)
LEMMA LessThanBound ==
  ASSUME NEW z, NEW lo, NEW hi, NumberWithin(z, lo, hi), NEW k \in Int
  PROVE  /\ LessThan(z, Known("number", k)) \in Answers
         /\ LessThan(z, Known("number", k)) = False => k <= lo /\ (~z.known => k < lo)
         /\ z.known => (LessThan(z, Known("number", k)) = False <=> k <= z.c)
<1> DEFINE y == Known("number", k)
<1>1. NumberWithin(y, k, k) /\ y.known /\ y.c = k
  BY KnownNumberWithin DEF Known
<1> HIDE DEF y
<1>2. /\ z.ty = "number" /\ y.ty = "number" /\ ~IsNull(z) /\ ~IsNull(y)
      /\ LowerBound(RangeOf(z)) = lo /\ UpperBound(RangeOf(z)) = hi
      /\ LowerBound(RangeOf(y)) = k /\ UpperBound(RangeOf(y)) = k
      /\ lo \in Int /\ hi \in Int /\ lo <= hi
      /\ z.known => z.c = lo /\ z.c = hi
  BY <1>1 DEF NumberWithin
<1>3. /\ ~Mismatch("number", <<z, y>>) /\ ~AnyNull(<<z, y>>)
      /\ ShortCircuit(<<z, y>>) <=> ~z.known
  BY <1>1, <1>2, ShapeOfTwo DEF Typed
<1>4. /\ CertainlyLess(z, y) <=> hi < k
      /\ CertainlyLess(y, z) <=> k < lo
  BY <1>2, DynamicTwo DEF CertainlyLess
<1>5. CASE ~z.known
  <2>1. LessThan(z, y) = IF hi < k THEN True ELSE IF k < lo THEN False ELSE UnknownNotNull("bool")
    BY <1>3, <1>4, <1>5 DEF LessThan, TypeChecked
  <2> QED BY <1>2, <1>5, <2>1, AnswersDiffer DEF Answers, y
<1>6. CASE z.known
  <2>1. LessThan(z, y) = Known("bool", z.c < k)
    BY <1>1, <1>3, <1>6 DEF LessThan, TypeChecked
  <2>2. (z.c < k) \in BOOLEAN
    OBVIOUS
  <2>3. LessThan(z, y) = IF z.c < k THEN True ELSE False
    BY <2>1, <2>2 DEF True, False
  <2> QED BY <1>2, <1>6, <2>3, AnswersDiffer DEF Answers, y
<1> QED BY <1>5, <1>6

(* Is z within the bound k: not, only if its bounds say so. *)
LEMMA GreaterThanIsFalse ==
  ASSUME NEW z, NEW lo, NEW hi, NumberWithin(z, lo, hi), NEW k \in Int,
         NEW equal \in Answers, z.known => (equal = False <=> z.c # k)
  PROVE  /\ IsFalse(GreaterThan(z, Known("number", k))) => hi <= k
         /\ IsFalse(OrEqual(GreaterThan(z, Known("number", k)), equal)) => hi < k
         /\ z.known =>
              /\ IsFalse(GreaterThan(z, Known("number", k))) <=> z.c <= k
              /\ IsFalse(OrEqual(GreaterThan(z, Known("number", k)), equal)) <=> z.c < k
<1> DEFINE g == GreaterThan(z, Known("number", k))
<1>1. /\ g \in Answers
      /\ g = False => hi <= k /\ (~z.known => hi < k)
      /\ z.known => (g = False <=> z.c <= k)
  BY GreaterThanBound
<1>2. lo \in Int /\ hi \in Int /\ (z.known => z.c = lo /\ z.c = hi)
  BY DEF NumberWithin
<1> HIDE DEF g
<1>3. /\ IsFalse(g) <=> g = False
      /\ IsFalse(OrEqual(g, equal)) <=> g = False /\ equal = False
  BY <1>1, AnswersDiffer, OrIsFalse
<1> QED BY <1>1, <1>2, <1>3 DEF g

(* Is z within the bound k: not, only if its bounds say so. *)
LEMMA LessThanIsFalse ==
  ASSUME NEW z, NEW lo, NEW hi, NumberWithin(z, lo, hi), NEW k \in Int,
         NEW equal \in Answers, z.known => (equal = False <=> z.c # k)
  PROVE  /\ IsFalse(LessThan(z, Known("number", k))) => k <= lo
         /\ IsFalse(OrEqual(LessThan(z, Known("number", k)), equal)) => k < lo
         /\ z.known =>
              /\ IsFalse(LessThan(z, Known("number", k))) <=> k <= z.c
              /\ IsFalse(OrEqual(LessThan(z, Known("number", k)), equal)) <=> k < z.c
<1> DEFINE g == LessThan(z, Known("number", k))
<1>1. /\ g \in Answers
      /\ g = False => k <= lo /\ (~z.known => k < lo)
      /\ z.known => (g = False <=> k <= z.c)
  BY LessThanBound
<1>2. lo \in Int /\ hi \in Int /\ (z.known => z.c = lo /\ z.c = hi)
  BY DEF NumberWithin
<1> HIDE DEF g
<1>3. /\ IsFalse(g) <=> g = False
      /\ IsFalse(OrEqual(g, equal)) <=> g = False /\ equal = False
  BY <1>1, AnswersDiffer, OrIsFalse
<1> QED BY <1>1, <1>2, <1>3 DEF g

(* Equality with a bound. *)
LEMMA EqualsBound ==
  ASSUME NEW z, NEW lo, NEW hi, NumberWithin(z, lo, hi), NEW k \in Int
  PROVE  /\ Equals(z, Known("number", k)) \in Answers
         /\ z.known => /\ EqualsKnown(z, Known("number", k)) \in Answers
                       /\ EqualsKnown(z, Known("number", k)) = False <=> z.c # k
                       /\ Equals(z, Known("number", k)) = EqualsKnown(z, Known("number", k))
<1>1. Equals(z, Known("number", k)) \in Answers
  BY EqualsReturns DEF Answers
<1>2. ASSUME z.known
      PROVE  /\ EqualsKnown(z, Known("number", k)) \in Answers
             /\ EqualsKnown(z, Known("number", k)) = False <=> z.c # k
             /\ Equals(z, Known("number", k)) = EqualsKnown(z, Known("number", k))
  <2> DEFINE y == Known("number", k)
  <2>1. NumberWithin(y, k, k) /\ y.known /\ y.c = k
    BY KnownNumberWithin DEF Known
  <2> HIDE DEF y
  <2>2. z.ty = "number" /\ y.ty = "number" /\ ~IsNull(z) /\ ~IsNull(y)
    BY <2>1 DEF NumberWithin
  <2>3. EqualsKnown(z, y) = Known("bool", z.ty = y.ty /\ z.c = y.c)
    BY <2>2 DEF EqualsKnown
  <2>4. (z.ty = y.ty /\ z.c = y.c) = (z.c = k)
    BY <2>1, <2>2
  <2>5. EqualsKnown(z, y) = IF z.c = k THEN True ELSE False
    BY <2>3, <2>4 DEF True, False
  <2>6. Equals(z, y) = EqualsKnown(z, y)
    BY <1>2, <2>1 DEF Equals
  <2> QED BY <2>5, <2>6, AnswersDiffer DEF Answers, y
<1> QED BY <1>1, <1>2

----------------------------------------------------------------------------
(* What Includes disproves.                                                *)

NumberBounds(r) ==
  /\ r.kind = "number" /\ r.minInc \in BOOLEAN /\ r.maxInc \in BOOLEAN
  /\ r.min \in Numbers \cup {NilVal} /\ r.max \in Numbers \cup {NilVal}

(* The lower bound denies the number z, for what equality with it may say. *)
LEMMA MinDenies ==
  ASSUME NEW r, NumberBounds(r), NEW z, NEW lo, NEW hi, NumberWithin(z, lo, hi),
         NegInf <= lo, ~Unbounded(r, z),
         NEW equal \in Answers, z.known => (equal = False <=> z.c # LowerBound(r)),
         NEW above, above = GreaterThan(z, Known("number", LowerBound(r)))
  PROVE  /\ ~z.known => (IsFalse(IF LowerInclusive(r) THEN OrEqual(above, equal) ELSE above)
                           => hi < LowerBound(r))
         /\ z.known => (IsFalse(IF LowerInclusive(r) THEN OrEqual(above, equal) ELSE above)
                          <=> ~AboveMin(r, z.c))
<1> DEFINE k == LowerBound(r)
<1>1. k \in Int
  BY NumberFacts DEF LowerBound, NumberBounds
<1>2. /\ lo \in Int /\ hi \in Int /\ lo <= hi
      /\ z.known => z.c = lo /\ z.c = hi
  BY DEF NumberWithin
<1>3. /\ IsFalse(above) /\ ~z.known => hi < k
      /\ IsFalse(OrEqual(above, equal)) => hi < k
      /\ z.known =>
           /\ IsFalse(above) <=> z.c <= k
           /\ IsFalse(OrEqual(above, equal)) <=> z.c < k
  BY <1>1, GreaterThanIsFalse, GreaterThanBound, AnswersDiffer
<1> HIDE DEF k
<1>4. CASE r.min = NilVal
  <2>1. k = NegInf /\ ~LowerInclusive(r) /\ AboveMin(r, z.c)
    BY <1>4, NumberFacts DEF k, LowerBound, LowerInclusive, AboveMin
  <2>2. z.known => z.c # NegInf
    BY <1>4 DEF Unbounded, NumberBounds, NumberWithin
  <2> QED BY <1>2, <1>3, <2>1, <2>2, NumberFacts DEF k
<1>5. CASE r.min # NilVal
  <2>1. k = r.min /\ (LowerInclusive(r) <=> r.minInc) /\ k \in Int
    BY <1>1, <1>5 DEF k, LowerBound, LowerInclusive, NumberBounds
  <2>3. AboveMin(r, z.c) <=> IF r.minInc THEN z.c >= k ELSE z.c > k
    BY <1>5, <2>1 DEF AboveMin
  <2>4. CASE r.minInc
    BY <1>2, <1>3, <2>1, <2>3, <2>4 DEF k
  <2>5. CASE ~r.minInc
    BY <1>2, <1>3, <2>1, <2>3, <2>5 DEF k
  <2> QED BY <2>4, <2>5
<1> QED BY <1>4, <1>5

(* The upper bound, likewise. *)
LEMMA MaxDenies ==
  ASSUME NEW r, NumberBounds(r), NEW z, NEW lo, NEW hi, NumberWithin(z, lo, hi),
         hi <= PosInf, ~Unbounded(r, z),
         NEW equal \in Answers, z.known => (equal = False <=> z.c # UpperBound(r)),
         NEW below, below = LessThan(z, Known("number", UpperBound(r)))
  PROVE  /\ ~z.known => (IsFalse(IF UpperInclusive(r) THEN OrEqual(below, equal) ELSE below)
                           => UpperBound(r) < lo)
         /\ z.known => (IsFalse(IF UpperInclusive(r) THEN OrEqual(below, equal) ELSE below)
                          <=> ~BelowMax(r, z.c))
<1> DEFINE k == UpperBound(r)
<1>1. k \in Int
  BY NumberFacts DEF UpperBound, NumberBounds
<1>2. /\ lo \in Int /\ hi \in Int /\ lo <= hi
      /\ z.known => z.c = lo /\ z.c = hi
  BY DEF NumberWithin
<1>3. /\ IsFalse(below) /\ ~z.known => k < lo
      /\ IsFalse(OrEqual(below, equal)) => k < lo
      /\ z.known =>
           /\ IsFalse(below) <=> k <= z.c
           /\ IsFalse(OrEqual(below, equal)) <=> k < z.c
  BY <1>1, LessThanIsFalse, LessThanBound, AnswersDiffer
<1> HIDE DEF k
<1>4. CASE r.max = NilVal
  <2>1. k = PosInf /\ ~UpperInclusive(r) /\ BelowMax(r, z.c)
    BY <1>4, NumberFacts DEF k, UpperBound, UpperInclusive, BelowMax
  <2>2. z.known => z.c # PosInf
    BY <1>4 DEF Unbounded, NumberBounds, NumberWithin
  <2> QED BY <1>2, <1>3, <2>1, <2>2, NumberFacts DEF k
<1>5. CASE r.max # NilVal
  <2>1. k = r.max /\ (UpperInclusive(r) <=> r.maxInc) /\ k \in Int
    BY <1>1, <1>5 DEF k, UpperBound, UpperInclusive, NumberBounds
  <2>3. BelowMax(r, z.c) <=> IF r.maxInc THEN z.c <= k ELSE z.c < k
    BY <1>5, <2>1 DEF BelowMax
  <2>4. CASE r.maxInc
    BY <1>2, <1>3, <2>1, <2>3, <2>4 DEF k
  <2>5. CASE ~r.maxInc
    BY <1>2, <1>3, <2>1, <2>3, <2>5 DEF k
  <2> QED BY <2>4, <2>5
<1> QED BY <1>4, <1>5

(* So a number refinement denies the known numbers outside its bounds, and *)
(* an unknown one only if their bounds are apart.                          *)
LEMMA NumberDenied ==
  ASSUME NEW ty, NEW r, NumberBounds(r), NEW v, IsValue(v), v.ty = "number", ~IsNull(v),
         ~Unbounded(r, v)
  PROVE  /\ v.known => /\ OutsideRefinement(ty, r, v, EqualsKnown) <=> ~Allows(r, v.c)
                       /\ OutsideRefinement(ty, r, v, Equals) <=> ~Allows(r, v.c)
         /\ ~v.known =>
              (OutsideRefinement(ty, r, v, Equals) =>
                 \/ UpperBound(RangeOf(v)) < LowerBound(r)
                 \/ UpperBound(r) < LowerBound(RangeOf(v)))
<1> DEFINE lo == LowerBound(RangeOf(v))
           hi == UpperBound(RangeOf(v))
           min == Known("number", LowerBound(r))
           max == Known("number", UpperBound(r))
<1>1. NumberWithin(v, lo, hi)
  BY ValueWithinBounds
<1>2. NegInf <= lo /\ hi <= PosInf
  BY BoundsAreNumbers, NumberFacts
<1>3. ~Unbounded(r, v)
  OBVIOUS
<1>4. LowerBound(r) \in Int /\ UpperBound(r) \in Int
  BY NumberFacts DEF LowerBound, UpperBound, NumberBounds
<1>5. /\ Equals(v, min) \in Answers /\ Equals(v, max) \in Answers
      /\ v.known =>
           /\ EqualsKnown(v, min) \in Answers /\ EqualsKnown(v, max) \in Answers
           /\ EqualsKnown(v, min) = False <=> v.c # LowerBound(r)
           /\ EqualsKnown(v, max) = False <=> v.c # UpperBound(r)
           /\ Equals(v, min) = EqualsKnown(v, min) /\ Equals(v, max) = EqualsKnown(v, max)
  BY <1>1, <1>4, EqualsBound
<1> DEFINE low(e) == IsFalse(IF LowerInclusive(r) THEN OrEqual(GreaterThan(v, min), e)
                                                  ELSE GreaterThan(v, min))
           high(e) == IsFalse(IF UpperInclusive(r) THEN OrEqual(LessThan(v, max), e)
                                                   ELSE LessThan(v, max))
<1>6. /\ OutsideRefinement(ty, r, v, Equals) <=> low(Equals(v, min)) \/ high(Equals(v, max))
      /\ OutsideRefinement(ty, r, v, EqualsKnown)
           <=> low(EqualsKnown(v, min)) \/ high(EqualsKnown(v, max))
  BY DEF OutsideRefinement, NumberBounds
<1>7. /\ ~v.known => (low(Equals(v, min)) => hi < LowerBound(r))
      /\ v.known => /\ low(EqualsKnown(v, min)) <=> ~AboveMin(r, v.c)
                    /\ low(Equals(v, min)) <=> ~AboveMin(r, v.c)
  <2> DEFINE e == Equals(v, min)
             k == EqualsKnown(v, min)
  <2>1. e \in Answers /\ (v.known => e = k /\ (e = False <=> v.c # LowerBound(r)))
    BY <1>5
  <2> HIDE DEF e, k
  <2>2. ~v.known => (low(e) => hi < LowerBound(r))
    BY <1>1, <1>2, <1>3, <2>1, MinDenies
  <2>3. v.known => (low(e) <=> ~AboveMin(r, v.c))
    BY <1>1, <1>2, <1>3, <2>1, MinDenies
  <2> QED BY <2>1, <2>2, <2>3 DEF e, k
<1>8. /\ ~v.known => (high(Equals(v, max)) => UpperBound(r) < lo)
      /\ v.known => /\ high(EqualsKnown(v, max)) <=> ~BelowMax(r, v.c)
                    /\ high(Equals(v, max)) <=> ~BelowMax(r, v.c)
  <2> DEFINE e == Equals(v, max)
             k == EqualsKnown(v, max)
  <2>1. e \in Answers /\ (v.known => e = k /\ (e = False <=> v.c # UpperBound(r)))
    BY <1>5
  <2> HIDE DEF e, k
  <2>2. ~v.known => (high(e) => UpperBound(r) < lo)
    BY <1>1, <1>2, <1>3, <2>1, MaxDenies
  <2>3. v.known => (high(e) <=> ~BelowMax(r, v.c))
    BY <1>1, <1>2, <1>3, <2>1, MaxDenies
  <2> QED BY <2>1, <2>2, <2>3 DEF e, k
<1>9. Allows(r, v.c) <=> AboveMin(r, v.c) /\ BelowMax(r, v.c)
  BY DEF Allows, NumberBounds
<1> HIDE DEF low, high, lo, hi, min, max
<1> QED BY <1>6, <1>7, <1>8, <1>9 DEF lo, hi

(* A collection refinement denies only the lengths outside its bounds, and, *)
(* of known lengths, all of them.                                           *)
LEMMA CollectionDenied ==
  ASSUME NEW ty, NEW r, r.kind = "collection", r.minLen \in Int, r.maxLen \in Int,
         NEW v, IsValue(v), HasLength(v)
  PROVE  /\ OutsideRefinement(ty, r, v, Equals) =>
              MaxLength(v) < r.minLen \/ r.maxLen < MinLength(v)
         /\ LengthKnown(v) =>
              (OutsideRefinement(ty, r, v, EqualsKnown)
                 <=> MinLength(v) < r.minLen \/ r.maxLen < MinLength(v))
<1> DEFINE n == Length(v)
           lo == MinLength(v)
           hi == MaxLength(v)
           min == Known("number", r.minLen)
           max == Known("number", r.maxLen)
<1>1. /\ lo \in Int /\ hi \in Int /\ lo <= hi
      /\ LengthKnown(v) => lo = hi
      /\ n = IF LengthKnown(v) THEN Known("number", lo) ELSE NumberBetween(lo, hi)
  BY LengthIs
<1> HIDE DEF n, lo, hi
<1>2. NumberWithin(n, lo, hi)
  BY <1>1, KnownNumberWithin, BetweenWithin
<1>3. LengthKnown(v) => n.known /\ n.c = lo
  BY <1>1 DEF Known
<1>4. /\ Equals(n, min) \in Answers /\ Equals(n, max) \in Answers
      /\ n.known =>
           /\ EqualsKnown(n, min) \in Answers /\ EqualsKnown(n, max) \in Answers
           /\ EqualsKnown(n, min) = False <=> n.c # r.minLen
           /\ EqualsKnown(n, max) = False <=> n.c # r.maxLen
           /\ Equals(n, min) = EqualsKnown(n, min) /\ Equals(n, max) = EqualsKnown(n, max)
  BY <1>2, EqualsBound
<1> DEFINE low(e) == IsFalse(OrEqual(GreaterThan(n, min), e))
           high(e) == IsFalse(OrEqual(LessThan(n, max), e))
<1>5. /\ OutsideRefinement(ty, r, v, Equals) <=> low(Equals(n, min)) \/ high(Equals(n, max))
      /\ OutsideRefinement(ty, r, v, EqualsKnown)
           <=> low(EqualsKnown(n, min)) \/ high(EqualsKnown(n, max))
  BY DEF OutsideRefinement, n
<1>6. /\ low(Equals(n, min)) => hi < r.minLen
      /\ n.known => (low(EqualsKnown(n, min)) <=> n.c < r.minLen)
  BY <1>2, <1>4, GreaterThanIsFalse
<1>7. /\ high(Equals(n, max)) => r.maxLen < lo
      /\ n.known => (high(EqualsKnown(n, max)) <=> r.maxLen < n.c)
  BY <1>2, <1>4, LessThanIsFalse
<1> HIDE DEF low, high, min, max
<1> QED BY <1>3, <1>5, <1>6, <1>7 DEF lo, hi

(* A known list has its length. *)
LEMMA KnownListLength ==
  ASSUME NEW y, IsValue(y), y.known, y.ty = "list", ~IsNull(y)
  PROVE  /\ HasLength(y) /\ LengthKnown(y) /\ MinLength(y) = y.c /\ MaxLength(y) = y.c
         /\ y.c \in 0 .. MaxInt
<1>1. y.whole
  BY DEF IsValue
<1>2. HasLength(y)
  BY DEF HasLength
<1> QED BY <1>1, <1>2, KnownLengthIs DEF LengthKnown, MinLength, MaxLength

(* The unknown x cannot become the known y. *)
Contradicts(x, y) ==
  IF IsNull(y) THEN x.rfn.null = "F"
               ELSE x.ty \notin {"dynamic", y.ty} \/ ~Allows(x.rfn, y.c)

LEMMA IncludesFalse ==
  ASSUME NEW x, NEW y, IsValue(x), IsValue(y), ~x.known, y.known, Comparable(y)
  PROVE  Excludes(x, y) <=> Contradicts(x, y)
<1> DEFINE r == x.rfn
           answer == Includes(x.ty, r, y, EqualsKnown)
<1>1. /\ r.null \in {"U", "F"} /\ r.kind \in {"nullable", "number", "collection"}
      /\ r.kind = "number" => NumberBounds(r) /\ x.ty = "number"
      /\ r.kind = "collection" =>
           r.minLen \in Int /\ r.maxLen \in Int /\ x.ty \in {"list", "set"}
  BY UnknownIs DEF NumberBounds
<1>2. Excludes(x, y) <=> IsFalse(answer)
  BY DEF Excludes
<1>3. CASE IsNull(y)
  <2>1. answer = Known("bool", r.null = "U")
    BY <1>1, <1>3 DEF Includes
  <2>2. answer = IF r.null = "U" THEN True ELSE False
    BY <2>1 DEF True, False
  <2>3. IsFalse(answer) <=> r.null = "F"
    BY <1>1, <2>2, AnswersDiffer DEF Answers
  <2> QED BY <1>2, <1>3, <2>3 DEF Contradicts
<1>4. CASE ~IsNull(y)
  <2>1. answer = IF x.ty # "dynamic" /\ y.ty # x.ty THEN False
                 ELSE IF y.ty # "dynamic" /\ OutsideRefinement(x.ty, r, y, EqualsKnown)
                   THEN False
                 ELSE UnknownNotNull("bool")
    BY <1>1, <1>4 DEF Includes
  <2>2. y.ty \in {"number", "bool", "list"}
    BY <1>4 DEF IsValue, IsNull, IsConcrete, Comparable, OperandTypes
  <2>3. IsFalse(answer) <=>
          x.ty \notin {"dynamic", y.ty} \/ OutsideRefinement(x.ty, r, y, EqualsKnown)
    BY <2>1, <2>2, AnswersDiffer DEF Answers
  <2>4. CASE x.ty \notin {"dynamic", y.ty}
    BY <1>2, <1>4, <2>3, <2>4 DEF Contradicts
  <2>5. CASE x.ty \in {"dynamic", y.ty}
    <3>1. CASE r.kind = "nullable"
      <4>1. Allows(r, y.c) /\ ~OutsideRefinement(x.ty, r, y, EqualsKnown)
        BY <3>1 DEF Allows, OutsideRefinement
      <4> QED BY <1>2, <1>4, <2>3, <2>5, <4>1 DEF Contradicts
    <3>2. CASE r.kind = "number"
      <4>1. y.ty = "number" /\ NumberBounds(r) /\ ~Unbounded(r, y)
        BY <1>1, <1>4, <2>5, <3>2 DEF Comparable, Finite, IsNull, Infinite, Unbounded
      <4>2. OutsideRefinement(x.ty, r, y, EqualsKnown) <=> ~Allows(r, y.c)
        BY <1>4, <4>1, NumberDenied
      <4> QED BY <1>2, <1>4, <2>3, <2>5, <4>2 DEF Contradicts
    <3>3. CASE r.kind = "collection"
      <4>1. y.ty = "list"
        BY <1>1, <2>2, <2>5, <3>3
      <4>2. /\ HasLength(y) /\ LengthKnown(y) /\ MinLength(y) = y.c /\ y.c \in Int
        BY <1>4, <4>1, KnownListLength
      <4>3. OutsideRefinement(x.ty, r, y, EqualsKnown) <=> y.c < r.minLen \/ r.maxLen < y.c
        BY <1>1, <3>3, <4>2, CollectionDenied
      <4>4. Allows(r, y.c) <=> r.minLen <= y.c /\ y.c <= r.maxLen
        BY <3>3 DEF Allows
      <4>5. OutsideRefinement(x.ty, r, y, EqualsKnown) <=> ~Allows(r, y.c)
        BY <1>1, <3>3, <4>2, <4>3, <4>4
      <4> QED BY <1>2, <1>4, <2>3, <2>5, <4>5 DEF Contradicts
    <3> QED BY <1>1, <3>1, <3>2, <3>3
  <2> QED BY <2>4, <2>5
<1> QED BY <1>3, <1>4

(* What Equals returns when one operand is known, and when none is. *)
LEMMA EqualsOneKnown ==
  ASSUME NEW x, NEW y, IsValue(x), IsValue(y), ~x.known, y.known, Comparable(y)
  PROVE  LET z == IF Contradicts(x, y) THEN False ELSE UnknownNotNull("bool")
         IN  Equals(x, y) = z /\ Equals(y, x) = z
<1>1. /\ ~Excludes(y, x) /\ ~TypesDiffer(y, x) /\ ~IsNull(x)
      /\ DefinitelyNotNull(x) <=> x.rfn.null = "F"
  BY DEF Excludes, TypesDiffer, IsNull, DefinitelyNotNull
<1>2. Excludes(x, y) <=> Contradicts(x, y)
  BY IncludesFalse
<1>3. IsNull(y) /\ DefinitelyNotNull(x) => Contradicts(x, y)
  BY <1>1 DEF Contradicts
<1>4. TypesDiffer(x, y) => Contradicts(x, y)
  BY DEF TypesDiffer, Contradicts
<1> QED BY <1>1, <1>2, <1>3, <1>4 DEF Equals

LEMMA EqualsNoneKnown ==
  ASSUME NEW x, NEW y, ~x.known, ~y.known
  PROVE  Equals(x, y) = UnknownNotNull("bool")
BY DEF Equals, Excludes, TypesDiffer, IsNull

(* A value that the bounds of an unknown deny, narrower bounds deny too; a *)
(* known value within the bounds is not that one.                          *)
LEMMA DeniedStays ==
  ASSUME NEW x, NEW u, NEW y, IsValue(x), IsValue(u), IsValue(y), Within(u, x), ~x.known,
         y.known, ~IsNull(y), y.ty # "set", x.ty \in {"dynamic", y.ty}, ~Allows(x.rfn, y.c),
         ~IsNull(u)
  PROVE  /\ x.ty = u.ty /\ u.ty = y.ty
         /\ ~u.known => ~Allows(u.rfn, y.c)
         /\ u.known => u.c # y.c
<1> DEFINE s == x.rfn
           r == RangeOf(u)
<1>1. /\ s.kind \in {"number", "collection"}
      /\ s.kind = "number" => NumberBounds(s) /\ x.ty = "number"
      /\ s.kind = "collection" =>
           s.minLen \in Int /\ s.maxLen \in Int /\ x.ty \in {"list", "set"}
  <2>1. s.kind # "nullable"
    BY DEF Allows
  <2> QED BY <2>1, UnknownIs DEF NumberBounds
<1>2. x.ty = y.ty /\ x.ty = u.ty
  BY <1>1, SameType
<1>3. BoundsWithin(r, s)
  BY NotNullWithin
<1>4. ~u.known => r = u.rfn
  BY UnknownIs
<1>5. CASE s.kind = "number"
  <2>1. u.ty = "number" /\ y.c \in Int /\ NegInf <= y.c /\ y.c <= PosInf
    BY <1>1, <1>2, <1>5, NumberFacts DEF IsValue, IsNull, IsConcrete
  <2>2. r.kind = "number" => NumberBounds(r)
    <3>1. CASE ~u.known
      BY <3>1, <1>4, UnknownIs DEF NumberBounds
    <3>2. CASE u.known
      <4>1. Ready("number", u)
        BY <3>2, <2>1 DEF Ready, IsNull
      <4>2. u.c \in Numbers
        BY <4>1, ReadyNumber
      <4>3. RangeOf(u) = [kind |-> "number", null |-> "F", min |-> u.c, minInc |-> TRUE,
                          max |-> u.c, maxInc |-> TRUE]
        BY <3>2, <2>1, KnownNumberRange
      <4>4. RangeOf(u).minInc = TRUE /\ RangeOf(u).maxInc = TRUE
        BY <4>3
      <4>5. RangeOf(u).min = u.c /\ RangeOf(u).max = u.c
        BY <4>3
      <4> QED BY <4>2, <4>4, <4>5 DEF NumberBounds
    <3> QED BY <3>1, <3>2
  <2>3. r.kind \in {"nullable", "number"}
    BY <2>1, <1>4, UnknownIs, KnownNumberParts
  <2> HIDE DEF r, s
  <2>4. ~Allows(r, y.c)
    <3>1. CASE r.kind = "number"
      <4>1. LowerWithin(r, s) /\ UpperWithin(r, s)
        BY <1>3, <1>5, <3>1 DEF BoundsWithin
      <4>2. NumberBounds(r) /\ NumberBounds(s)
        BY <1>1, <1>5, <2>2, <3>1
      <4>3. AboveMin(r, y.c) => AboveMin(s, y.c)
        <5> SUFFICES ASSUME s.min # NilVal, AboveMin(r, y.c) PROVE AboveMin(s, y.c)
          BY DEF AboveMin
        <5>1. /\ r.min # NilVal
              /\ r.min > s.min \/ (r.min = s.min /\ (s.minInc \/ ~r.minInc))
          BY <4>1 DEF LowerWithin
        <5>2. r.min \in Int /\ s.min \in Int
          BY <4>2, <5>1, NumberFacts DEF NumberBounds
        <5>3. IF r.minInc THEN y.c >= r.min ELSE y.c > r.min
          BY <5>1 DEF AboveMin
        <5>4. CASE s.minInc
          <6>1. y.c >= s.min
            BY <2>1, <5>1, <5>2, <5>3
          <6> QED BY <5>4, <6>1 DEF AboveMin
        <5>5. CASE ~s.minInc
          <6>1. y.c > s.min
            BY <2>1, <5>1, <5>2, <5>3, <5>5
          <6> QED BY <5>5, <6>1 DEF AboveMin
        <5> QED BY <5>4, <5>5
      <4>4. BelowMax(r, y.c) => BelowMax(s, y.c)
        <5> SUFFICES ASSUME s.max # NilVal, BelowMax(r, y.c) PROVE BelowMax(s, y.c)
          BY DEF BelowMax
        <5>1. /\ r.max # NilVal
              /\ r.max < s.max \/ (r.max = s.max /\ (s.maxInc \/ ~r.maxInc))
          BY <4>1 DEF UpperWithin
        <5>2. r.max \in Int /\ s.max \in Int
          BY <4>2, <5>1, NumberFacts DEF NumberBounds
        <5>3. IF r.maxInc THEN y.c <= r.max ELSE y.c < r.max
          BY <5>1 DEF BelowMax
        <5>4. CASE s.maxInc
          <6>1. y.c <= s.max
            BY <2>1, <5>1, <5>2, <5>3
          <6> QED BY <5>4, <6>1 DEF BelowMax
        <5>5. CASE ~s.maxInc
          <6>1. y.c < s.max
            BY <2>1, <5>1, <5>2, <5>3, <5>5
          <6> QED BY <5>5, <6>1 DEF BelowMax
        <5> QED BY <5>4, <5>5
      <4> QED BY <1>5, <3>1, <4>3, <4>4 DEF Allows, s
    <3>2. CASE r.kind # "number"
      <4>1. s.min = NilVal /\ s.max = NilVal
        BY <1>3, <1>5, <3>2 DEF BoundsWithin
      <4>2. Allows(s, y.c)
        BY <1>5, <4>1 DEF Allows, AboveMin, BelowMax
      <4> QED BY <4>2 DEF s
    <3> QED BY <3>1, <3>2
  <2>5. u.known => u.c # y.c
    <3> SUFFICES ASSUME u.known PROVE Allows(r, u.c)
      BY <2>4
    <3>1. Ready("number", u)
      BY <2>1 DEF Ready, IsNull
    <3>2. /\ r.kind = "number" /\ r.min = u.c /\ r.max = u.c /\ r.minInc /\ r.maxInc
      BY <2>1, KnownNumberParts DEF r
    <3>3. u.c \in Int
      BY <3>1, ReadyNumber
    <3> QED BY <3>2, <3>3 DEF Allows, AboveMin, BelowMax
  <2> QED BY <1>2, <1>4, <2>4, <2>5
<1>6. CASE s.kind = "collection"
  <2>1. y.ty = "list" /\ u.ty = "list"
    BY <1>1, <1>2, <1>6
  <2>2. y.c \in 0 .. MaxInt /\ y.c \in Int /\ 0 <= y.c /\ y.c <= MaxInt
    BY <2>1, KnownListLength, LengthsAssumption DEF LengthsAssumption
  <2>3. s.minLen <= LengthBounds(r)[1] /\ LengthBounds(r)[2] <= s.maxLen
    BY <1>3, <1>6 DEF BoundsWithin, LengthBounds
  <2>4. ~(s.minLen <= y.c /\ y.c <= s.maxLen)
    BY <1>6 DEF Allows
  <2>5. HasLength(u)
    BY <2>1 DEF HasLength
  <2>6. /\ LengthBounds(r)[1] \in Int /\ LengthBounds(r)[2] \in Int
        /\ LengthBounds(r)[1] <= MinLength(u) /\ MaxLength(u) <= LengthBounds(r)[2]
        /\ MinLength(u) \in Int /\ MaxLength(u) \in Int
    BY <2>5, RangeLengths, LengthIs
  <2>7. u.known => u.c # y.c
    <3> SUFFICES ASSUME u.known, u.c = y.c PROVE FALSE
      OBVIOUS
    <3>1. MinLength(u) = y.c /\ MaxLength(u) = y.c
      BY <2>1, KnownListLength
    <3> HIDE DEF r, s
    <3> QED BY <1>1, <1>6, <2>2, <2>3, <2>4, <2>6, <3>1
  <2>8. ASSUME ~u.known PROVE ~Allows(u.rfn, y.c)
    <3>1. u.rfn.kind \in {"nullable", "collection"} /\ r = u.rfn
      BY <2>1, <2>8, UnknownIs
    <3>2. CASE u.rfn.kind = "nullable"
      <4>1. LengthBounds(r)[1] = 0 /\ LengthBounds(r)[2] = MaxInt
        BY <3>1, <3>2 DEF LengthBounds
      <4> HIDE DEF r, s
      <4> QED BY <1>1, <1>6, <2>2, <2>3, <2>4, <4>1, LengthsAssumption DEF LengthsAssumption
    <3>3. CASE u.rfn.kind = "collection"
      <4>1. LengthBounds(r)[1] = u.rfn.minLen /\ LengthBounds(r)[2] = u.rfn.maxLen
        BY <3>1, <3>3 DEF LengthBounds
      <4>2. Allows(u.rfn, y.c) <=> u.rfn.minLen <= y.c /\ y.c <= u.rfn.maxLen
        BY <3>3 DEF Allows
      <4> HIDE DEF r, s
      <4> QED BY <1>1, <1>6, <2>2, <2>3, <2>4, <2>6, <4>1, <4>2
    <3> QED BY <3>1, <3>2, <3>3
  <2> QED BY <1>2, <2>7, <2>8
<1> QED BY <1>1, <1>5, <1>6

(* A disproof of equality stands when more is known of the operands. *)
LEMMA ContradictsStays ==
  ASSUME NEW x, NEW y, NEW u, NEW v, IsValue(x), IsValue(y), IsValue(u), IsValue(v),
         Within(u, x), Within(v, y), ~x.known, y.known, Comparable(y), Contradicts(x, y)
  PROVE  /\ v.known /\ v.ty = y.ty /\ v.c = y.c
         /\ ~u.known => Contradicts(u, v)
         /\ u.known => EqualsKnown(u, v) = False
<1>1. v.known /\ v.ty = y.ty /\ v.c = y.c /\ (IsNull(v) <=> IsNull(y))
  BY SameType DEF Comparable
<1>2. u.ty = x.ty \/ x.ty = "dynamic"
  BY SameType
<1>3. CASE IsNull(y)
  <2>1. x.rfn.null = "F" /\ DefinitelyNotNull(x)
    BY <1>3 DEF Contradicts, DefinitelyNotNull
  <2>2. ~IsNull(u)
    BY <2>1, SameType
  <2>3. RangeWithin(RangeOf(u), x.rfn)
    BY DEF Within
  <2>4. ~u.known => u.rfn.null = "F"
    BY <2>1, <2>3, UnknownIs DEF RangeWithin
  <2>5. u.known => EqualsKnown(u, v) = Known("bool", FALSE)
    BY <1>1, <1>3, <2>2 DEF EqualsKnown, Comparable
  <2> QED BY <1>1, <1>3, <2>4, <2>5 DEF Contradicts, False
<1>4. CASE ~IsNull(y) /\ IsNull(u)
  <2>1. u.known /\ EqualsKnown(u, v) = Known("bool", FALSE)
    BY <1>1, <1>4 DEF EqualsKnown, IsNull
  <2> QED BY <1>1, <2>1 DEF False
<1>5. CASE ~IsNull(y) /\ ~IsNull(u)
  <2>1. u.known => EqualsKnown(u, v) = Known("bool", u.ty = v.ty /\ u.c = v.c)
    BY <1>1, <1>5 DEF EqualsKnown, Comparable
  <2>2. CASE x.ty \notin {"dynamic", y.ty}
    <3>1. u.ty # v.ty /\ u.ty # "dynamic"
      BY <1>1, <1>2, <2>2
    <3>2. (u.ty = v.ty /\ u.c = v.c) = FALSE
      BY <3>1
    <3>3. u.known => EqualsKnown(u, v) = False
      BY <2>1, <3>2 DEF False
    <3> QED BY <1>1, <1>5, <3>1, <3>3 DEF Contradicts
  <2>3. CASE x.ty \in {"dynamic", y.ty}
    <3>1. ~Allows(x.rfn, y.c)
      BY <1>5, <2>3 DEF Contradicts
    <3>2. /\ ~u.known => ~Allows(u.rfn, y.c)
          /\ u.known => u.c # y.c
      BY <1>5, <2>3, <3>1, DeniedStays DEF Comparable
    <3>3. u.known => (u.ty = v.ty /\ u.c = v.c) = FALSE
      BY <1>1, <3>2
    <3>4. u.known => EqualsKnown(u, v) = False
      BY <2>1, <3>3 DEF False
    <3> QED BY <1>1, <1>5, <3>2, <3>4 DEF Contradicts
  <2> QED BY <2>2, <2>3
<1> QED BY <1>3, <1>4, <1>5

LEMMA EqualsIsSound ==
  ASSUME NEW x, NEW y, NEW u, NEW v, IsValue(x), IsValue(y), IsValue(u), IsValue(v),
         Within(u, x), Within(v, y), Comparable(x), Comparable(y), Comparable(u), Comparable(v)
  PROVE  Sound(Equals(u, v), Equals(x, y), FALSE)
<1> DEFINE l == Equals(u, v)
           e == Equals(x, y)
<1>1. l \in Answers /\ e \in Answers /\ e # Panicked
  BY EqualsReturns, AnswersDiffer DEF Answers
<1>2. e = UnknownNotNull("bool") => Follows(l, e)
  BY <1>1, FollowsAnyAnswer DEF Answer, Answers
<1>3. l = e => Follows(l, e)
  BY <1>1, AnswersFollowThemselves DEF Answers
<1>4. e = UnknownNotNull("bool") \/ l = e
  <2>1. CASE x.known /\ y.known
    <3>1. /\ u.known /\ u.ty = x.ty /\ u.c = x.c /\ (IsNull(u) <=> IsNull(x))
          /\ v.known /\ v.ty = y.ty /\ v.c = y.c /\ (IsNull(v) <=> IsNull(y))
      BY <2>1, SameType DEF Comparable
    <3>2. EqualsKnown(u, v) = EqualsKnown(x, y)
      BY <3>1 DEF EqualsKnown, Comparable
    <3> QED BY <2>1, <3>1, <3>2 DEF Equals
  <2>2. CASE ~x.known /\ y.known
    <3>1. CASE ~Contradicts(x, y)
      BY <2>2, <3>1, EqualsOneKnown
    <3>2. CASE Contradicts(x, y)
      <4>1. e = False
        BY <2>2, <3>2, EqualsOneKnown
      <4>2. /\ v.known
            /\ ~u.known => Contradicts(u, v)
            /\ u.known => EqualsKnown(u, v) = False
        BY <2>2, <3>2, ContradictsStays
      <4>3. CASE ~u.known
        <5>1. l = False
          BY <4>2, <4>3, EqualsOneKnown
        <5> QED BY <4>1, <5>1
      <4>4. CASE u.known
        BY <4>1, <4>2, <4>4 DEF Equals
      <4> QED BY <4>3, <4>4
    <3> QED BY <3>1, <3>2
  <2>3. CASE x.known /\ ~y.known
    <3>1. CASE ~Contradicts(y, x)
      BY <2>3, <3>1, EqualsOneKnown
    <3>2. CASE Contradicts(y, x)
      <4>1. e = False
        BY <2>3, <3>2, EqualsOneKnown
      <4>2. /\ u.known
            /\ ~v.known => Contradicts(v, u)
            /\ v.known => EqualsKnown(v, u) = False
        BY <2>3, <3>2, ContradictsStays
      <4>3. CASE ~v.known
        <5>1. l = False
          BY <4>2, <4>3, EqualsOneKnown
        <5> QED BY <4>1, <5>1
      <4>4. CASE v.known
        <5>1. (u.ty = v.ty /\ u.c = v.c) = (v.ty = u.ty /\ v.c = u.c)
          OBVIOUS
        <5>2. (IsNull(u) /\ IsNull(v)) = (IsNull(v) /\ IsNull(u))
          OBVIOUS
        <5>3. EqualsKnown(u, v) = EqualsKnown(v, u)
          BY <5>1, <5>2 DEF EqualsKnown
        <5> QED BY <4>1, <4>2, <4>4, <5>3 DEF Equals
      <4> QED BY <4>3, <4>4
    <3> QED BY <3>1, <3>2
  <2>4. CASE ~x.known /\ ~y.known
    BY <2>4, EqualsNoneKnown
  <2> QED BY <2>1, <2>2, <2>3, <2>4
<1> HIDE DEF l, e
<1>5. Follows(l, e)
  BY <1>2, <1>3, <1>4
<1> QED BY <1>1, <1>5, SoundFollows DEF l, e

(* What follows from an answer is an answer within it. *)
LEMMA AnswersFollow ==
  ASSUME NEW l \in Answers, NEW e \in Answers
  PROVE  /\ IsValue(l) /\ IsValue(e) /\ l # Panicked /\ e # Panicked
         /\ ~IsNull(l) /\ ~IsNull(e)
         /\ Follows(l, e) => Within(l, e)
<1>1. InUniverse(l) /\ InUniverse(e)
  <2>1. \A z \in Answers : InUniverse(z)
    <3>1. /\ True.known /\ True.ty = "bool" /\ False.known /\ False.ty = "bool"
      BY DEF True, False, Known
    <3>2. ~UnknownNotNull("bool").known /\ UnknownNotNull("bool").rfn.kind = "nullable"
      BY UnknownBoolNotNull
    <3> QED BY <3>1, <3>2 DEF Answers, InUniverse
  <2> QED BY <2>1
<1>2. l # Panicked /\ e # Panicked /\ ~IsNull(l) /\ ~IsNull(e)
  BY AnswersDiffer
<1>3. IsValue(l) /\ IsValue(e)
  BY AnswerIsValue DEF Answers
<1> QED BY <1>1, <1>2, <1>3 DEF Follows

LEMMA NotEqualIsSound ==
  ASSUME NEW x, NEW y, NEW u, NEW v, IsValue(x), IsValue(y), IsValue(u), IsValue(v),
         Within(u, x), Within(v, y), Comparable(x), Comparable(y), Comparable(u), Comparable(v)
  PROVE  Sound(NotEqual(u, v), NotEqual(x, y), FALSE)
<1> DEFINE l == Equals(u, v)
           e == Equals(x, y)
<1>1. l \in Answers /\ e \in Answers
  BY EqualsReturns DEF Answers
<1>2. Follows(l, e)
  BY EqualsIsSound DEF Sound
<1>3. NotEqual(u, v) = Not(l) /\ NotEqual(x, y) = Not(e)
  BY DEF NotEqual
<1> HIDE DEF l, e
<1> QED BY <1>1, <1>2, <1>3, AnswersFollow, NotIsSound

(* An order or an equality. *)
LEMMA OrEqualIsSound ==
  ASSUME NEW l, NEW e, Answer(l), Answer(e), NEW pending, Sound(l, e, pending),
         NEW l2 \in Answers, NEW e2 \in Answers, Follows(l2, e2)
  PROVE  Sound(OrEqual(l, l2), OrEqual(e, e2), pending)
<1>1. CASE e = Panicked
  <2>1. l = Panicked
    BY <1>1 DEF Sound
  <2>2. OrEqual(l, l2) = Panicked
    BY <2>1 DEF OrEqual
  <2> QED BY <2>2, SoundPanic
<1>2. CASE e # Panicked /\ l = Panicked
  <2>1. OrEqual(l, l2) = Panicked
    BY <1>2 DEF OrEqual
  <2> QED BY <2>1, SoundPanic
<1>3. CASE e # Panicked /\ l # Panicked
  <2>1. l \in Answers /\ e \in Answers
    BY <1>3 DEF Answer, Answers
  <2>2. OrEqual(e, e2) # Panicked
    BY <2>1, OrIsFalse, AnswersDiffer
  <2>3. ASSUME ~pending PROVE Follows(OrEqual(l, l2), OrEqual(e, e2))
    <3>1. Within(l, e) /\ Within(l2, e2)
      BY <2>1, <2>3, AnswersFollow DEF Sound
    <3>2. Sound(Or(l, l2), Or(e, e2), Pending(l, l2)) /\ ~Pending(l, l2)
      BY <2>1, <3>1, AnswersFollow, OrIsSound DEF Pending
    <3> QED BY <1>3, <3>2, AnswersFollow DEF Sound, OrEqual
  <2> QED BY <2>2, <2>3, SoundFollows
<1> QED BY <1>1, <1>2, <1>3

LEMMA LessThanOrEqualToIsSound ==
  ASSUME NEW x, NEW y, NEW u, NEW v, IsValue(x), IsValue(y), IsValue(u), IsValue(v),
         Within(u, x), Within(v, y), Comparable(x), Comparable(y), Comparable(u), Comparable(v)
  PROVE  Sound(LessThanOrEqualTo(u, v), LessThanOrEqualTo(x, y), Pending(u, v))
<1> DEFINE l == LessThan(u, v)
           e == LessThan(x, y)
           l2 == Equals(u, v)
           e2 == Equals(x, y)
<1>1. l2 \in Answers /\ e2 \in Answers /\ Follows(l2, e2)
  BY EqualsReturns, EqualsIsSound DEF Answers, Sound
<1>2. Answer(l) /\ Answer(e)
  BY ComparisonsAnswer
<1>3. Sound(l, e, Pending(u, v))
  BY LessThanIsSound
<1>4. LessThanOrEqualTo(u, v) = OrEqual(l, l2) /\ LessThanOrEqualTo(x, y) = OrEqual(e, e2)
  BY DEF LessThanOrEqualTo
<1> HIDE DEF l, e, l2, e2
<1> QED BY <1>1, <1>2, <1>3, <1>4, OrEqualIsSound

LEMMA GreaterThanOrEqualToIsSound ==
  ASSUME NEW x, NEW y, NEW u, NEW v, IsValue(x), IsValue(y), IsValue(u), IsValue(v),
         Within(u, x), Within(v, y), Comparable(x), Comparable(y), Comparable(u), Comparable(v)
  PROVE  Sound(GreaterThanOrEqualTo(u, v), GreaterThanOrEqualTo(x, y), Pending(u, v))
<1> DEFINE l == GreaterThan(u, v)
           e == GreaterThan(x, y)
           l2 == Equals(u, v)
           e2 == Equals(x, y)
<1>1. l2 \in Answers /\ e2 \in Answers /\ Follows(l2, e2)
  BY EqualsReturns, EqualsIsSound DEF Answers, Sound
<1>2. Answer(l) /\ Answer(e)
  BY ComparisonsAnswer
<1>3. Sound(l, e, Pending(u, v))
  BY GreaterThanIsSound
<1>4. GreaterThanOrEqualTo(u, v) = OrEqual(l, l2) /\ GreaterThanOrEqualTo(x, y) = OrEqual(e, e2)
  BY DEF GreaterThanOrEqualTo
<1> HIDE DEF l, e, l2, e2
<1> QED BY <1>1, <1>2, <1>3, <1>4, OrEqualIsSound

----------------------------------------------------------------------------
(* Includes.                                                               *)

(* The bounds of an unknown number are those of its range. *)
LEMMA UnknownNumberBounds ==
  ASSUME NEW x, IsValue(x), ~x.known, x.rfn.kind = "number"
  PROVE  /\ x.ty = "number" /\ NumberBounds(x.rfn) /\ RangeOf(x) = x.rfn
BY UnknownIs DEF NumberBounds

(* No value that y may become is within x, once Includes denies y. *)
LEMMA DeniedIsOutside ==
  ASSUME NEW x, NEW y, NEW v, IsValue(x), IsValue(y), IsValue(v), ~x.known,
         Within(v, y), ~Unbounded(x.rfn, y), DefinitelyNotNull(y), y.ty # "dynamic",
         x.ty \in {"dynamic", y.ty}, OutsideRefinement(x.ty, x.rfn, y, Equals)
  PROVE  ~Within(v, x)
<1> SUFFICES ASSUME Within(v, x) PROVE FALSE
  OBVIOUS
<1> DEFINE r == x.rfn
<1>1. r.kind \in {"number", "collection"}
  <2>1. r.kind # "nullable"
    BY DEF OutsideRefinement
  <2> QED BY <2>1, UnknownIs
<1>2. /\ x.ty # "dynamic" /\ x.ty = y.ty
  BY <1>1, UnknownIs
<1>3. v.ty = y.ty /\ ~IsNull(v) /\ ~IsNull(y)
  BY SameType DEF DefinitelyNotNull, IsNull
<1>4. CASE r.kind = "number"
  <2>1. x.ty = "number" /\ NumberBounds(r) /\ RangeOf(x) = r
    BY <1>4, UnknownNumberBounds
  <2>2. CASE y.known
    <3>1. ~Allows(r, y.c)
      BY <1>2, <1>3, <2>1, <2>2, NumberDenied
    <3>2. v.known /\ v.c = y.c
      BY <1>2, <2>1, <2>2, SameType
    <3>3. y.ty # "set"
      BY <1>2, <2>1
    <3> QED BY <1>3, <2>2, <3>1, <3>2, <3>3, DeniedStays
  <2>3. CASE ~y.known
    <3>1. \/ UpperBound(RangeOf(y)) < LowerBound(RangeOf(x))
          \/ UpperBound(RangeOf(x)) < LowerBound(RangeOf(y))
      BY <1>2, <1>3, <2>1, <2>3, NumberDenied
    <3>2. /\ LowerBound(RangeOf(y)) <= LowerBound(RangeOf(v))
          /\ UpperBound(RangeOf(v)) <= UpperBound(RangeOf(y))
          /\ LowerBound(RangeOf(x)) <= LowerBound(RangeOf(v))
          /\ UpperBound(RangeOf(v)) <= UpperBound(RangeOf(x))
          /\ LowerBound(RangeOf(v)) <= UpperBound(RangeOf(v))
      BY <1>2, <1>3, <2>1, BoundsNarrow, BoundsInOrder
    <3>3. \A z \in {x, y, v} : LowerBound(RangeOf(z)) \in Int /\ UpperBound(RangeOf(z)) \in Int
      BY <1>2, <1>3, <2>1, BoundsAreIntegers DEF Typed
    <3> QED BY <3>1, <3>2, <3>3
  <2> QED BY <2>2, <2>3
<1>5. CASE r.kind = "collection"
  <2>1. /\ x.ty \in {"list", "set"} /\ r.minLen \in Int /\ r.maxLen \in Int
    BY <1>5, UnknownIs
  <2>2. HasLength(x) /\ HasLength(y) /\ HasLength(v)
    BY <1>2, <1>3, <2>1 DEF HasLength
  <2>3. MaxLength(y) < r.minLen \/ r.maxLen < MinLength(y)
    BY <1>5, <2>1, <2>2, CollectionDenied
  <2>4. MinLength(x) = r.minLen /\ MaxLength(x) = r.maxLen
    BY <1>5 DEF MinLength, MaxLength, LengthBounds
  <2>5. /\ MinLength(x) <= MinLength(v) /\ MaxLength(v) <= MaxLength(x)
        /\ MinLength(y) <= MinLength(v) /\ MaxLength(v) <= MaxLength(y)
    BY <2>2, LengthsNarrow
  <2>6. \A z \in {x, y, v} : /\ MinLength(z) \in Int /\ MaxLength(z) \in Int
                             /\ MinLength(z) <= MaxLength(z)
    BY <2>2, LengthIs
  <2> QED BY <2>3, <2>4, <2>5, <2>6
<1> QED BY <1>1, <1>4, <1>5

LEMMA IncludesIsRight ==
  ASSUME NEW x, NEW y, NEW v, IsValue(x), IsValue(y), IsValue(v), ~x.known,
         Within(v, y), ~Unbounded(x.rfn, y), y.known \/ DefinitelyNotNull(y)
  PROVE  /\ IsFalse(RangeIncludes(x, y)) => ~InRange(v, x)
         /\ IsTrue(RangeIncludes(x, y)) => InRange(v, x)
<1> DEFINE r == x.rfn
           answer == RangeIncludes(x, y)
<1>1. RangeOf(x) = r /\ r.null \in {"U", "F"}
  BY UnknownIs
<1>2. answer = Includes(x.ty, r, y, Equals)
  BY <1>1 DEF RangeIncludes
<1>3. CASE IsNull(y)
  <2>1. IsNull(v)
    BY <1>3, SameType DEF IsNull
  <2>2. answer = Known("bool", r.null = "U")
    BY <1>1, <1>2, <1>3 DEF Includes
  <2>3. answer = IF r.null = "U" THEN True ELSE False
    BY <2>2 DEF True, False
  <2>4. /\ IsFalse(answer) <=> r.null = "F"
        /\ IsTrue(answer) <=> r.null = "U"
    BY <1>1, <2>3, AnswersDiffer DEF Answers
  <2> QED BY <1>1, <2>1, <2>4 DEF InRange
<1>4. CASE ~IsNull(y)
  <2>1. DefinitelyNotNull(y)
    BY <1>4 DEF DefinitelyNotNull
  <2>2. y.ty # "dynamic"
    <3>1. CASE y.known
      BY <1>4, <3>1 DEF IsValue, IsConcrete, IsNull
    <3>2. CASE ~y.known
      BY <2>1, <3>2 DEF IsValue, DefinitelyNotNull
    <3> QED BY <3>1, <3>2
  <2>3. v.ty = y.ty /\ ~IsNull(v)
    BY <2>1, <2>2, SameType
  <2>4. answer = IF x.ty # "dynamic" /\ y.ty # x.ty THEN False
                 ELSE IF OutsideRefinement(x.ty, r, y, Equals) THEN False
                 ELSE UnknownNotNull("bool")
    BY <1>1, <1>2, <1>4, <2>2 DEF Includes
  <2>5. ~IsTrue(answer)
    BY <2>4, AnswersDiffer DEF Answers
  <2>6. InRange(v, x) => Within(v, x)
    <3>1. x = Unknown(x.ty, r)
      BY DEF IsValue, Unknown
    <3> QED BY <1>1, <2>3, <3>1 DEF InRange
  <2>7. ASSUME IsFalse(answer) PROVE ~Within(v, x)
    <3>1. CASE x.ty # "dynamic" /\ y.ty # x.ty
      BY <2>3, <3>1 DEF Within
    <3>2. CASE ~(x.ty # "dynamic" /\ y.ty # x.ty)
      <4>1. OutsideRefinement(x.ty, r, y, Equals)
        BY <2>4, <2>7, <3>2, AnswersDiffer DEF Answers
      <4> QED BY <2>1, <2>2, <3>2, <4>1, DeniedIsOutside
    <3> QED BY <3>1, <3>2
  <2> QED BY <2>5, <2>6, <2>7
<1> QED BY <1>3, <1>4

(* ValueRange.Includes, asked of any unknown operand and of any operand    *)
(* that is known or not null, answers False only if no value that the      *)
(* operand may become is in the range, and True only if all are; except    *)
(* for a known infinity on a side where the range has no bound.            *)
THEOREM IncludesIsSafe == Spec => []IncludesDecidesNonNull
<1>1. OperandsInv => IncludesDecidesNonNull
  <2> SUFFICES ASSUME OperandsInv, NEW i \in DOMAIN early, NEW j \in DOMAIN early,
                      ~early[i].known, Within(late[j], early[j]),
                      ~Unbounded(early[i].rfn, early[j]),
                      early[j].known \/ DefinitelyNotNull(early[j])
               PROVE  Decides(early[i], j)
    BY DEF IncludesDecidesNonNull
  <2>1. DOMAIN late = DOMAIN early
    BY DEF OperandsInv
  <2>2. IsValue(early[i]) /\ IsValue(early[j]) /\ IsValue(late[j])
    BY <2>1 DEF OperandsInv, AreValues
  <2> QED BY <2>2, IncludesIsRight DEF Decides
<1> QED BY <1>1, InductiveOperands, PTL

----------------------------------------------------------------------------
(* The identity of results.                                                *)

(* z is none of the package variables; z is none of them but cty.Zero. *)
NotLiteral(z) == (z # Panicked /\ z.known) => ~z.lit
ZeroAtMost(z) == (z # Panicked /\ z.known /\ z.lit) => z.c = 0

LEMMA NotLiteralIs ==
  /\ \A ty, c : NotLiteral(Known(ty, c))
  /\ \A n : NotLiteral(NumberResult(n))
  /\ \A lo, hi \in Int : NotLiteral(NumberBetween(lo, hi))
  /\ NotLiteral(UnknownNotNull("number")) /\ NotLiteral(UnknownNotNull("bool"))
  /\ NotLiteral(Panicked)
<1>1. \A ty, c : NotLiteral(Known(ty, c))
  BY DEF NotLiteral, Known
<1>2. NotLiteral(Panicked)
  BY DEF NotLiteral
<1>3. \A n : NotLiteral(NumberResult(n))
  BY <1>1, <1>2 DEF NumberResult
<1>4. ASSUME NEW lo \in Int, NEW hi \in Int PROVE NotLiteral(NumberBetween(lo, hi))
  <2>1. NotLiteral(Unknown("number", Bounded(lo, hi)))
    BY DEF NotLiteral, Unknown
  <2> QED BY <1>1, <2>1, NumberBetweenIs
<1>5. ~UnknownNotNull("number").known /\ ~UnknownNotNull("bool").known
  BY UnknownNumberNotNull, UnknownBoolNotNull
<1> QED BY <1>1, <1>2, <1>3, <1>4, <1>5 DEF NotLiteral

LEMMA TypeCheckedNotLiteral ==
  ASSUME NEW required, NEW x, NEW y, NEW e, NEW r,
         Typed(required, x) /\ Typed(required, y) => NotLiteral(e),
         Ready(required, x) /\ Ready(required, y) => NotLiteral(r)
  PROVE  NotLiteral(TypeChecked(required, <<x, y>>, e, r))
BY TwoOperands, NotLiteralIs

LEMMA AnswerNotLiteral == ASSUME NEW z, Answer(z) PROVE NotLiteral(z)
BY NotLiteralIs DEF Answer, True, False

LEMMA CornersNotLiteral ==
  ASSUME NEW C, IsCorners(C), NEW dynamic \in BOOLEAN
  PROVE  NotLiteral(FromCorners(dynamic, C))
<1>1. CASE dynamic \/ Panicked \in C
  BY <1>1, NotLiteralIs DEF FromCorners
<1>2. CASE ~(dynamic \/ Panicked \in C)
  BY <1>2, CornersAre, NotLiteralIs DEF FromCorners
<1> QED BY <1>1, <1>2

LEMMA PlusNotLiteral ==
  ASSUME NEW x, NEW y, IsValue(x), IsValue(y)
  PROVE  NotLiteral(Arithmetic(Plus, x, y))
<1>1. ASSUME Typed("number", x), Typed("number", y)
      PROVE  NotLiteral(RangeArithmetic(Plus, x, y))
  <2> DEFINE d == Dynamic(<<x, y>>)
             C == PlusCorners(x, y)
  <2>1. d \in BOOLEAN
    BY DEF Dynamic
  <2>2. RangeArithmetic(Plus, x, y) = FromCorners(d, C) /\ IsCorners(C)
    BY <1>1, PlusCornersAre
  <2> HIDE DEF d, C
  <2> QED BY <2>1, <2>2, CornersNotLiteral
<1> QED BY <1>1, TypeCheckedNotLiteral, NotLiteralIs DEF Arithmetic

LEMMA MinusNotLiteral ==
  ASSUME NEW x, NEW y, IsValue(x), IsValue(y)
  PROVE  NotLiteral(Arithmetic(Minus, x, y))
<1>1. ASSUME Typed("number", x), Typed("number", y)
      PROVE  NotLiteral(RangeArithmetic(Minus, x, y))
  <2> DEFINE d == Dynamic(<<x, y>>)
             C == MinusCorners(x, y)
  <2>1. d \in BOOLEAN
    BY DEF Dynamic
  <2>2. RangeArithmetic(Minus, x, y) = FromCorners(d, C) /\ IsCorners(C)
    BY <1>1, MinusCornersAre
  <2> HIDE DEF d, C
  <2> QED BY <2>1, <2>2, CornersNotLiteral
<1> QED BY <1>1, TypeCheckedNotLiteral, NotLiteralIs DEF Arithmetic

LEMMA TimesNotLiteral ==
  ASSUME NEW x, NEW y, IsValue(x), IsValue(y)
  PROVE  NotLiteral(Arithmetic(Times, x, y))
<1>1. ASSUME Typed("number", x), Typed("number", y)
      PROVE  NotLiteral(RangeArithmetic(Times, x, y))
  <2> DEFINE d == Dynamic(<<x, y>>)
             C == TimesCorners(x, y)
  <2>1. d \in BOOLEAN
    BY DEF Dynamic
  <2>2. RangeArithmetic(Times, x, y) = FromCorners(d, C) /\ IsCorners(C)
    BY <1>1, TimesCornersAre
  <2> HIDE DEF d, C
  <2> QED BY <2>1, <2>2, CornersNotLiteral
<1> QED BY <1>1, TypeCheckedNotLiteral, NotLiteralIs DEF Arithmetic

LEMMA MultiplyNotLiteral ==
  ASSUME NEW x, NEW y, IsValue(x), IsValue(y)
  PROVE  /\ ~IsZeroItself(x) /\ ~IsZeroItself(y) => NotLiteral(Multiply(x, y))
         /\ ZeroAtMost(Multiply(x, y))
<1>1. NotLiteral(Arithmetic(Times, x, y))
  BY TimesNotLiteral
<1>2. Literal(0).c = 0
  BY LiteralZeroIs
<1>3. Multiply(x, y) = IF ByZero(x, y) THEN Literal(0) ELSE Arithmetic(Times, x, y)
  BY DEF Multiply, ByZero
<1> QED BY <1>1, <1>2, <1>3 DEF ByZero, NotLiteral, ZeroAtMost

LEMMA ModuloNotLiteral ==
  ASSUME NEW x, NEW y, IsValue(x), IsValue(y)
  PROVE  /\ ~IsZeroItself(x) => NotLiteral(Modulo(x, y))
         /\ ZeroAtMost(Modulo(x, y))
<1> DEFINE r == KnownModulo(x, y)
<1>1. \/ Modulo(x, y) = Panicked
      \/ Modulo(x, y) = UnknownNotNull("number")
      \/ Modulo(x, y) = r /\ Ready("number", x) /\ Ready("number", y)
  BY TwoOperands DEF Modulo
<1>2. ASSUME Ready("number", x), Ready("number", y)
      PROVE  NotLiteral(r) \/ (r = x /\ x.ty = "number" /\ x.known /\ (x.lit => x.c = 0))
  <2>1. CASE \E z \in {x, y} : z.lit /\ Infinite(z.c)
    <3>1. r = NumberResult(Times(x.c, y.c))
      BY <1>2, <2>1, ReadyMultiply DEF KnownModulo
    <3> QED BY <3>1, NotLiteralIs
  <2>2. CASE ~\E z \in {x, y} : z.lit /\ Infinite(z.c)
    <3>1. CASE y.c = 0
      <4>1. r = x
        BY <2>2, <3>1 DEF KnownModulo
      <4>2. x.lit => x.c = 0
        BY <1>2, <2>2 DEF IsValue, Ready
      <4> QED BY <1>2, <4>1, <4>2 DEF Ready
    <3>2. CASE y.c # 0
      <4>1. r = Panicked \/ r = Known("number", x.c - y.c * Truncate(x.c, y.c))
        BY <2>2, <3>2 DEF KnownModulo
      <4> QED BY <4>1, NotLiteralIs
    <3> QED BY <3>1, <3>2
  <2> QED BY <2>1, <2>2
<1> HIDE DEF r
<1> QED BY <1>1, <1>2, NotLiteralIs DEF NotLiteral, ZeroAtMost, IsZeroItself

LEMMA UnaryNotLiteral ==
  ASSUME NEW x, IsValue(x)
  PROVE  NotLiteral(Negate(x)) /\ NotLiteral(Absolute(x)) /\ NotLiteral(Length(x))
<1>1. NotLiteral(Negate(x))
  BY OneOperand, NotLiteralIs DEF Negate
<1>2. NotLiteral(Absolute(x))
  <2>1. NotLiteral(NumberBetween(0, PosInf))
    BY NotLiteralIs, NumberFacts
  <2> DEFINE e == NumberBetween(0, PosInf)
             r == Known("number", Sign(x.c) * x.c)
  <2>2. NotLiteral(r) /\ NotLiteral(e)
    BY <2>1, NotLiteralIs
  <2>3. Absolute(x) = TypeChecked("number", <<x>>, e, r)
    BY DEF Absolute
  <2> HIDE DEF e, r
  <2> QED BY <2>2, <2>3, OneOperand, NotLiteralIs
<1>3. NotLiteral(Length(x))
  <2>1. CASE HasLength(x)
    <3>1. MinLength(x) \in Int /\ MaxLength(x) \in Int
      BY <2>1, LengthIs
    <3>2. \/ Length(x) = Known("number", MinLength(x))
          \/ Length(x) = NumberBetween(MinLength(x), MaxLength(x))
      BY <2>1, LengthIs
    <3> QED BY <3>1, <3>2, NotLiteralIs
  <2>2. CASE ~HasLength(x)
    <3>1. Length(x) = Panicked
      BY <2>2 DEF HasLength, Length
    <3> QED BY <3>1, NotLiteralIs
  <2> QED BY <2>1, <2>2
<1> QED BY <1>1, <1>2, <1>3

LEMMA DivideNotLiteral ==
  ASSUME NEW x, NEW y
  PROVE  NotLiteral(Divide(x, y))
BY TypeCheckedNotLiteral, NotLiteralIs DEF Divide

LEMMA AnswersNotLiteral ==
  ASSUME NEW x, NEW y, IsValue(x), IsValue(y)
  PROVE  /\ NotLiteral(LessThan(x, y)) /\ NotLiteral(GreaterThan(x, y))
         /\ NotLiteral(Equals(x, y)) /\ NotLiteral(NotEqual(x, y))
         /\ NotLiteral(LessThanOrEqualTo(x, y)) /\ NotLiteral(GreaterThanOrEqualTo(x, y))
         /\ NotLiteral(Not(x)) /\ NotLiteral(And(x, y)) /\ NotLiteral(Or(x, y))
<1>1. Answer(LessThanOrEqualTo(x, y)) /\ Answer(GreaterThanOrEqualTo(x, y))
  BY ComparisonsAnswer, EqualsReturns, OrEqualAnswers
     DEF LessThanOrEqualTo, GreaterThanOrEqualTo
<1> QED BY <1>1, ComparisonsAnswer, NotEqualAnswers, BooleansAnswer, AnswerNotLiteral

----------------------------------------------------------------------------
(* The invariant.  The inputs were given so that late agrees with early;    *)
(* results do while nothing is pending.  A program of several operations    *)
(* relies on more: no early operand is cty.Zero itself, and the package     *)
(* variables among the operands are the same in both evaluations.           *)
Agrees(v, e) == Within(v, e) /\ SameIdentity(v, e)

Chain == \A i \in 1 .. Inputs : <<early[i], late[i]>> \in ChainPairs

LearnInv ==
  /\ OperandsInv
  /\ \A i \in 1 .. Inputs : Agrees(late[i], early[i])
  /\ ~NullPending => \A i \in DOMAIN early : Within(late[i], early[i])
  /\ Chain => \A i \in DOMAIN early :
                /\ ~IsZeroItself(early[i])
                /\ ~NullPending => SameIdentity(late[i], early[i])
  /\ "early" \in failed =>
       "late" \in failed \/ (NullPending /\ Len(early) > Inputs)

LEMMA InitLearns ==
  ASSUME NoZeroItself, Init
  PROVE  LearnInv
<1>1. OperandsInv
  BY InitOperandsInv
<1>2. PICK p \in [1 .. Inputs -> InitialPairs] \cup [1 .. Inputs -> ChainPairs] :
        /\ early = [i \in 1 .. Inputs |-> p[i][1]]
        /\ late  = [i \in 1 .. Inputs |-> p[i][2]]
  BY DEF Init
<1>3. ASSUME NEW i \in 1 .. Inputs
      PROVE  /\ Agrees(late[i], early[i])
             /\ <<early[i], late[i]>> \in ChainPairs => ~IsZeroItself(early[i])
  <2>1. p[i] \in InitialPairs \cup ChainPairs /\ early[i] = p[i][1] /\ late[i] = p[i][2]
    BY <1>2
  <2>2. Agree(late[i], early[i])
    BY <2>1, InputsAssumption DEF InputsAssumption
  <2>3. <<early[i], late[i]>>[1] = early[i]
    OBVIOUS
  <2> QED BY <2>2, <2>3 DEF Agree, Agrees, SameIdentity, NoZeroItself
<1>4. DOMAIN early = 1 .. Inputs /\ failed = {}
  BY <1>2 DEF Init
<1> QED BY <1>1, <1>3, <1>4 DEF LearnInv, Agrees, Chain

(* What an operation has to ensure: early on operands x and y, with result *)
(* e, and late on u and v, with result l.                                  *)
Learns(x, y, u, v, e, l) ==
  /\ Good(e) /\ Good(l)
  /\ Agrees(u, x) /\ Agrees(v, y) => Sound(l, e, Pending(u, v))
  /\ ~IsZeroItself(x) /\ ~IsZeroItself(y) => NotLiteral(e)
  /\ ZeroAtMost(l)

(* The operands agree, unless a null is pending. *)
LEMMA OperandsAgree ==
  ASSUME LearnInv, Len(early) < Bound
  PROVE  /\ Len(early) = Inputs \/ ~NullPending =>
              \A i \in DOMAIN early : Agrees(late[i], early[i])
         /\ Len(early) # Inputs => Len(early) > Inputs /\ Chain
<1>1. /\ DOMAIN early = 1 .. Len(early) /\ Len(early) \in Nat /\ Len(early) >= Inputs
      /\ Inputs \in Nat
  BY InputsAssumption DEF LearnInv, OperandsInv, InputsAssumption
<1>2. Len(early) # Inputs => Len(early) > Inputs /\ Chain
  <2>1. Chain \/ Bound = Inputs + 1
    BY DEF Bound, Chain
  <2> DEFINE n == Len(early)
             b == Bound
  <2>2. n \in Nat /\ n >= Inputs /\ Inputs \in Nat /\ n < b /\ b \in Nat
    BY <1>1, BoundHolds
  <2> HIDE DEF n, b
  <2>3. n # Inputs => n > Inputs /\ b # Inputs + 1
    BY <2>2
  <2> QED BY <2>1, <2>3 DEF n, b
<1>3. CASE Len(early) = Inputs
  BY <1>1, <1>2, <1>3 DEF LearnInv
<1>4. CASE Len(early) # Inputs /\ ~NullPending
  BY <1>2, <1>4 DEF LearnInv, Agrees
<1> QED BY <1>2, <1>3, <1>4

(* A null once pending stays so: values are never forgotten. *)
LEMMA PendingStays ==
  ASSUME OperandsInv, NEW l, late' = late \/ late' = Append(late, l)
  PROVE  /\ DOMAIN late \subseteq DOMAIN late'
         /\ \A i \in DOMAIN late : late'[i] = late[i]
         /\ NullPending => NullPending'
         /\ \A i, j \in DOMAIN late : Pending(late[i], late[j]) => NullPending'
<1>1. PICK S : late \in Seq(S)
  BY DEF OperandsInv
<1>2. /\ DOMAIN late \subseteq DOMAIN late'
      /\ \A i \in DOMAIN late : late'[i] = late[i]
  <2>1. CASE late' = late
    BY <2>1
  <2>2. CASE late' = Append(late, l)
    BY <1>1, <2>2
  <2> QED BY <2>1, <2>2
<1>3. \A i, j \in DOMAIN late : Pending(late[i], late[j]) => NullPending'
  <2> SUFFICES ASSUME NEW i \in DOMAIN late, NEW j \in DOMAIN late,
                      IsNull(late[i]), ~late[j].known
               PROVE  NullPending'
    BY DEF Pending
  <2>1. i \in DOMAIN late' /\ j \in DOMAIN late' /\ late'[i] = late[i] /\ late'[j] = late[j]
    BY <1>2
  <2> QED BY <2>1 DEF NullPending
<1>4. NullPending => NullPending'
  BY <1>3 DEF NullPending, Pending
<1> QED BY <1>2, <1>3, <1>4

LEMMA StepLearns ==
  ASSUME LearnInv, NEW i \in DOMAIN early, NEW j \in DOMAIN early, NEW e, NEW l,
         Learns(early[i], early[j], late[i], late[j], e, l), Result(e, l)
  PROVE  LearnInv'
<1>1. /\ Learns(early[i], early[j], late[i], late[j], e, l) /\ Len(early) < Bound
      /\ \A z \in {e, l} \ {Panicked} : InUniverse(z)
      /\ failed' = (IF e = Panicked THEN {"early"} ELSE {})
                     \cup (IF l = Panicked THEN {"late"} ELSE {})
      /\ IF failed' = {} THEN early' = Append(early, e) /\ late' = Append(late, l)
                         ELSE early' = early /\ late' = late
  BY DEF Result
<1>2. OperandsInv /\ OperandsInv'
  BY <1>1, ResultInv DEF LearnInv, Learns
<1>3. /\ DOMAIN early = 1 .. Len(early) /\ DOMAIN late = DOMAIN early
      /\ Len(early) \in Nat /\ Len(early) >= Inputs /\ Inputs \in Nat /\ Len(late) = Len(early)
  BY <1>2, InputsAssumption DEF OperandsInv, InputsAssumption
<1>4. /\ Len(early) = Inputs \/ ~NullPending =>
           \A k \in DOMAIN early : Agrees(late[k], early[k])
      /\ Len(early) # Inputs => Len(early) > Inputs /\ Chain
  BY <1>1, OperandsAgree
<1>5. /\ NullPending => NullPending'
      /\ Pending(late[i], late[j]) => NullPending'
  BY <1>1, <1>2, <1>3, PendingStays
<1>6. Len(early) = Inputs \/ ~NullPending => Sound(l, e, Pending(late[i], late[j]))
  BY <1>1, <1>4 DEF Learns
<1>7. CASE failed' # {}
  <2>1. early' = early /\ late' = late
    BY <1>1, <1>7
  <2>2. ASSUME "early" \in failed'
        PROVE  "late" \in failed' \/ (NullPending /\ Len(early) > Inputs)
    <3>1. e = Panicked
      BY <1>1, <2>2
    <3>2. CASE Len(early) = Inputs \/ ~NullPending
      <4>1. l = Panicked
        BY <1>6, <3>1, <3>2 DEF Sound
      <4> QED BY <1>1, <4>1
    <3>3. CASE ~(Len(early) = Inputs \/ ~NullPending)
      BY <1>4, <3>3
    <3> QED BY <3>2, <3>3
  <2>3. (NullPending' <=> NullPending) /\ (Chain' <=> Chain)
    BY <2>1 DEF NullPending, Chain
  <2> QED BY <1>2, <2>1, <2>2, <2>3 DEF LearnInv
<1>8. CASE failed' = {}
  <2>1. /\ early' = Append(early, e) /\ late' = Append(late, l)
        /\ e # Panicked /\ l # Panicked /\ InUniverse(e) /\ InUniverse(l)
    BY <1>1, <1>8
  <2>2. PICK S, T : early \in Seq(S) /\ late \in Seq(T)
    BY <1>2 DEF OperandsInv
  <2>3. /\ DOMAIN early' = 1 .. Len(early) + 1
        /\ early'[Len(early) + 1] = e /\ late'[Len(early) + 1] = l
        /\ \A k \in DOMAIN early : early'[k] = early[k] /\ late'[k] = late[k]
    BY <1>3, <2>1, <2>2
  <2>4. \A k \in DOMAIN early' : k \in DOMAIN early \/ k = Len(early) + 1
    BY <1>3, <2>3
  <2>5. 1 .. Inputs \subseteq DOMAIN early
    BY <1>3
  <2>6. Chain' => Chain
    BY <2>3, <2>5 DEF Chain
  <2>7. \A k \in 1 .. Inputs : Agrees(late'[k], early'[k])
    BY <2>3, <2>5 DEF LearnInv
  <2>8. ASSUME ~NullPending' PROVE Within(l, e) /\ \A k \in DOMAIN early : Within(late[k], early[k])
    BY <1>4, <1>5, <1>6, <2>1, <2>8 DEF Sound, Follows, Agrees
  <2>9. ASSUME Chain' PROVE ~IsZeroItself(e)
    BY <1>1, <2>1, <2>6, <2>9 DEF Learns, LearnInv, NotLiteral, IsZeroItself
  <2>10. ASSUME Chain', ~NullPending' PROVE SameIdentity(l, e)
    <3>1. NotLiteral(e) /\ ZeroAtMost(l)
      BY <1>1, <2>6, <2>10 DEF Learns, LearnInv
    <3>2. e.known => l.known
      BY <2>8, <2>10 DEF Within
    <3> QED BY <2>1, <3>1, <3>2 DEF SameIdentity, NotLiteral, ZeroAtMost
  <2>11. ASSUME Chain', NEW k \in DOMAIN early
         PROVE  /\ ~IsZeroItself(early[k])
                /\ ~NullPending' => SameIdentity(late[k], early[k])
    BY <1>5, <2>6, <2>11 DEF LearnInv
  <2>12. "early" \notin failed'
    BY <1>8
  <2>13. ~NullPending' => \A k \in DOMAIN early' : Within(late'[k], early'[k])
    BY <2>3, <2>4, <2>8
  <2>14. Chain' => \A k \in DOMAIN early' :
                     /\ ~IsZeroItself(early'[k])
                     /\ ~NullPending' => SameIdentity(late'[k], early'[k])
    BY <2>3, <2>4, <2>9, <2>10, <2>11
  <2> QED BY <1>2, <2>7, <2>12, <2>13, <2>14 DEF LearnInv
<1> QED BY <1>7, <1>8

(* Every operation does. *)
LEMMA SoundWeaken ==
  ASSUME NEW l, NEW e, Sound(l, e, FALSE), NEW pending
  PROVE  Sound(l, e, pending)
BY DEF Sound

LEMMA NotLiteralLearns ==
  ASSUME NEW x, NEW y, NEW u, NEW v, NEW e, NEW l,
         Good(e), Good(l), NotLiteral(e), NotLiteral(l),
         Agrees(u, x) /\ Agrees(v, y) => Sound(l, e, Pending(u, v))
  PROVE  Learns(x, y, u, v, e, l)
BY DEF Learns, NotLiteral, ZeroAtMost

LEMMA ArithmeticLearns ==
  ASSUME NEW x, NEW y, NEW u, NEW v, IsValue(x), IsValue(y), IsValue(u), IsValue(v)
  PROVE  /\ Learns(x, y, u, v, Add(x, y), Add(u, v))
         /\ Learns(x, y, u, v, Subtract(x, y), Subtract(u, v))
         /\ Learns(x, y, u, v, Multiply(x, y), Multiply(u, v))
         /\ Learns(x, y, u, v, Modulo(x, y), Modulo(u, v))
         /\ Divides(x, y) /\ Divides(u, v) => Learns(x, y, u, v, Divide(x, y), Divide(u, v))
<1>1. /\ Good(Add(x, y)) /\ Good(Subtract(x, y)) /\ Good(Multiply(x, y)) /\ Good(Modulo(x, y))
      /\ Good(Add(u, v)) /\ Good(Subtract(u, v)) /\ Good(Multiply(u, v)) /\ Good(Modulo(u, v))
  BY AddIsGood, ModuloIsGood
<1>2. Learns(x, y, u, v, Add(x, y), Add(u, v))
  <2>1. NotLiteral(Add(x, y)) /\ NotLiteral(Add(u, v))
    BY PlusNotLiteral DEF Add
  <2>2. Within(u, x) /\ Within(v, y) => Sound(Add(u, v), Add(x, y), Pending(u, v))
    BY PlusIsSound DEF Add
  <2> QED BY <1>1, <2>1, <2>2, NotLiteralLearns DEF Agrees
<1>3. Learns(x, y, u, v, Subtract(x, y), Subtract(u, v))
  <2>1. NotLiteral(Subtract(x, y)) /\ NotLiteral(Subtract(u, v))
    BY MinusNotLiteral DEF Subtract
  <2>2. Within(u, x) /\ Within(v, y) => Sound(Subtract(u, v), Subtract(x, y), Pending(u, v))
    BY MinusIsSound DEF Subtract
  <2> QED BY <1>1, <2>1, <2>2, NotLiteralLearns DEF Agrees
<1>4. Learns(x, y, u, v, Multiply(x, y), Multiply(u, v))
  BY <1>1, MultiplyNotLiteral, MultiplyIsSound DEF Agrees, Learns
<1>5. Learns(x, y, u, v, Modulo(x, y), Modulo(u, v))
  BY <1>1, ModuloNotLiteral, ModuloIsSound DEF Agrees, Learns
<1>6. ASSUME Divides(x, y), Divides(u, v) PROVE Learns(x, y, u, v, Divide(x, y), Divide(u, v))
  <2>1. Good(Divide(x, y)) /\ Good(Divide(u, v))
    BY <1>6, DivideIsGood
  <2>2. NotLiteral(Divide(x, y)) /\ NotLiteral(Divide(u, v))
    BY DivideNotLiteral
  <2>3. Within(u, x) /\ Within(v, y) => Sound(Divide(u, v), Divide(x, y), Pending(u, v))
    BY <1>6, DivideIsSound
  <2> QED BY <2>1, <2>2, <2>3, NotLiteralLearns DEF Agrees
<1> QED BY <1>2, <1>3, <1>4, <1>5, <1>6

LEMMA UnaryLearns ==
  ASSUME NEW x, NEW y, NEW u, NEW v, IsValue(x), IsValue(u)
  PROVE  /\ Learns(x, y, u, v, Negate(x), Negate(u))
         /\ Learns(x, y, u, v, Absolute(x), Absolute(u))
         /\ Learns(x, y, u, v, Length(x), Length(u))
         /\ Learns(x, y, u, v, Not(x), Not(u))
<1>1. /\ Good(Negate(x)) /\ Good(Absolute(x)) /\ Good(Length(x)) /\ Good(Not(x))
      /\ Good(Negate(u)) /\ Good(Absolute(u)) /\ Good(Length(u)) /\ Good(Not(u))
  BY NegateIsGood, AbsoluteIsGood, LengthIsGood, AnswersAreGood
<1>2. /\ NotLiteral(Negate(x)) /\ NotLiteral(Absolute(x)) /\ NotLiteral(Length(x))
      /\ NotLiteral(Negate(u)) /\ NotLiteral(Absolute(u)) /\ NotLiteral(Length(u))
      /\ NotLiteral(Not(x)) /\ NotLiteral(Not(u))
  BY UnaryNotLiteral, AnswersNotLiteral
<1>3. Within(u, x) => /\ Sound(Negate(u), Negate(x), Pending(u, v))
                      /\ Sound(Absolute(u), Absolute(x), Pending(u, v))
                      /\ Sound(Length(u), Length(x), Pending(u, v))
                      /\ Sound(Not(u), Not(x), Pending(u, v))
  BY NegateIsSound, AbsoluteIsSound, LengthIsSound, NotIsSound, SoundWeaken
<1> QED BY <1>1, <1>2, <1>3, NotLiteralLearns DEF Agrees

LEMMA AnswersLearn ==
  ASSUME NEW x, NEW y, NEW u, NEW v, IsValue(x), IsValue(y), IsValue(u), IsValue(v)
  PROVE  /\ Learns(x, y, u, v, LessThan(x, y), LessThan(u, v))
         /\ Learns(x, y, u, v, GreaterThan(x, y), GreaterThan(u, v))
         /\ Learns(x, y, u, v, And(x, y), And(u, v))
         /\ Learns(x, y, u, v, Or(x, y), Or(u, v))
<1>1. /\ Good(LessThan(x, y)) /\ Good(GreaterThan(x, y)) /\ Good(And(x, y)) /\ Good(Or(x, y))
      /\ Good(LessThan(u, v)) /\ Good(GreaterThan(u, v)) /\ Good(And(u, v)) /\ Good(Or(u, v))
  BY AnswersAreGood
<1>2. /\ NotLiteral(LessThan(x, y)) /\ NotLiteral(GreaterThan(x, y))
      /\ NotLiteral(And(x, y)) /\ NotLiteral(Or(x, y))
      /\ NotLiteral(LessThan(u, v)) /\ NotLiteral(GreaterThan(u, v))
      /\ NotLiteral(And(u, v)) /\ NotLiteral(Or(u, v))
  BY AnswersNotLiteral
<1>3. Within(u, x) /\ Within(v, y) =>
        /\ Sound(LessThan(u, v), LessThan(x, y), Pending(u, v))
        /\ Sound(GreaterThan(u, v), GreaterThan(x, y), Pending(u, v))
        /\ Sound(And(u, v), And(x, y), Pending(u, v))
        /\ Sound(Or(u, v), Or(x, y), Pending(u, v))
  BY LessThanIsSound, GreaterThanIsSound, AndIsSound, OrIsSound
<1> QED BY <1>1, <1>2, <1>3, NotLiteralLearns DEF Agrees

LEMMA ComparisonsLearn ==
  ASSUME NEW x, NEW y, NEW u, NEW v, IsValue(x), IsValue(y), IsValue(u), IsValue(v),
         Comparable(x), Comparable(y), Comparable(u), Comparable(v)
  PROVE  /\ Learns(x, y, u, v, Equals(x, y), Equals(u, v))
         /\ Learns(x, y, u, v, NotEqual(x, y), NotEqual(u, v))
         /\ Learns(x, y, u, v, LessThanOrEqualTo(x, y), LessThanOrEqualTo(u, v))
         /\ Learns(x, y, u, v, GreaterThanOrEqualTo(x, y), GreaterThanOrEqualTo(u, v))
<1>1. /\ Good(Equals(x, y)) /\ Good(NotEqual(x, y))
      /\ Good(LessThanOrEqualTo(x, y)) /\ Good(GreaterThanOrEqualTo(x, y))
      /\ Good(Equals(u, v)) /\ Good(NotEqual(u, v))
      /\ Good(LessThanOrEqualTo(u, v)) /\ Good(GreaterThanOrEqualTo(u, v))
  BY AnswersAreGood
<1>2. /\ NotLiteral(Equals(x, y)) /\ NotLiteral(NotEqual(x, y))
      /\ NotLiteral(LessThanOrEqualTo(x, y)) /\ NotLiteral(GreaterThanOrEqualTo(x, y))
      /\ NotLiteral(Equals(u, v)) /\ NotLiteral(NotEqual(u, v))
      /\ NotLiteral(LessThanOrEqualTo(u, v)) /\ NotLiteral(GreaterThanOrEqualTo(u, v))
  BY AnswersNotLiteral
<1>3. Within(u, x) /\ Within(v, y) =>
        /\ Sound(Equals(u, v), Equals(x, y), Pending(u, v))
        /\ Sound(NotEqual(u, v), NotEqual(x, y), Pending(u, v))
        /\ Sound(LessThanOrEqualTo(u, v), LessThanOrEqualTo(x, y), Pending(u, v))
        /\ Sound(GreaterThanOrEqualTo(u, v), GreaterThanOrEqualTo(x, y), Pending(u, v))
  BY EqualsIsSound, NotEqualIsSound, LessThanOrEqualToIsSound, GreaterThanOrEqualToIsSound,
     SoundWeaken
<1> QED BY <1>1, <1>2, <1>3, NotLiteralLearns DEF Agrees

LEMMA OperationLearns ==
  ASSUME LearnInv, NEW i \in DOMAIN early, NEW j \in DOMAIN early, Operation(i, j)
  PROVE  LearnInv'
<1> DEFINE x == early[i]
           y == early[j]
           u == late[i]
           v == late[j]
<1>1. IsValue(x) /\ IsValue(y) /\ IsValue(u) /\ IsValue(v)
  <2>1. DOMAIN late = DOMAIN early
    BY DEF LearnInv, OperandsInv
  <2> QED BY <2>1 DEF LearnInv, OperandsInv, AreValues
<1>2. \A e, l : Learns(x, y, u, v, e, l) /\ Result(e, l) => LearnInv'
  BY StepLearns
<1> HIDE DEF x, y, u, v
<1>3. ASSUME AddStep(i, j) \/ SubtractStep(i, j) \/ MultiplyStep(i, j) \/ ModuloStep(i, j)
      PROVE  LearnInv'
  <2>1. \/ Result(Add(x, y), Add(u, v)) \/ Result(Subtract(x, y), Subtract(u, v))
        \/ Result(Multiply(x, y), Multiply(u, v)) \/ Result(Modulo(x, y), Modulo(u, v))
    BY <1>3 DEF AddStep, SubtractStep, MultiplyStep, ModuloStep, Binary, x, y, u, v
  <2> QED BY <1>1, <1>2, <2>1, ArithmeticLearns
<1>4. ASSUME DivideStep(i, j) PROVE LearnInv'
  <2>1. Divides(x, y) /\ Divides(u, v) /\ Result(Divide(x, y), Divide(u, v))
    BY <1>4 DEF DivideStep, Binary, x, y, u, v
  <2> QED BY <1>1, <1>2, <2>1, ArithmeticLearns
<1>5. ASSUME NegateStep(i) \/ AbsoluteStep(i) \/ LengthStep(i) \/ NotStep(i)
      PROVE  LearnInv'
  <2>1. \/ Result(Negate(x), Negate(u)) \/ Result(Absolute(x), Absolute(u))
        \/ Result(Length(x), Length(u)) \/ Result(Not(x), Not(u))
    BY <1>5 DEF NegateStep, AbsoluteStep, LengthStep, NotStep, Unary, x, u
  <2> QED BY <1>1, <1>2, <2>1, UnaryLearns
<1>6. ASSUME LessThanStep(i, j) \/ GreaterThanStep(i, j) \/ AndStep(i, j) \/ OrStep(i, j)
      PROVE  LearnInv'
  <2>1. \/ Result(LessThan(x, y), LessThan(u, v)) \/ Result(GreaterThan(x, y), GreaterThan(u, v))
        \/ Result(And(x, y), And(u, v)) \/ Result(Or(x, y), Or(u, v))
    BY <1>6 DEF LessThanStep, GreaterThanStep, AndStep, OrStep, Binary, x, y, u, v
  <2> QED BY <1>1, <1>2, <2>1, AnswersLearn
<1>7. ASSUME \/ EqualsStep(i, j) \/ NotEqualStep(i, j)
             \/ LessThanOrEqualToStep(i, j) \/ GreaterThanOrEqualToStep(i, j)
      PROVE  LearnInv'
  <2>1. Comparable(x) /\ Comparable(y) /\ Comparable(u) /\ Comparable(v)
    BY <1>7 DEF EqualsStep, NotEqualStep, LessThanOrEqualToStep, GreaterThanOrEqualToStep,
       Comparison, x, y, u, v
  <2>2. \/ Result(Equals(x, y), Equals(u, v)) \/ Result(NotEqual(x, y), NotEqual(u, v))
        \/ Result(LessThanOrEqualTo(x, y), LessThanOrEqualTo(u, v))
        \/ Result(GreaterThanOrEqualTo(x, y), GreaterThanOrEqualTo(u, v))
    BY <1>7 DEF EqualsStep, NotEqualStep, LessThanOrEqualToStep, GreaterThanOrEqualToStep,
       Comparison, Binary, x, y, u, v
  <2> QED BY <1>1, <1>2, <2>1, <2>2, ComparisonsLearn
<1> QED BY <1>3, <1>4, <1>5, <1>6, <1>7 DEF Operation

(* Learning more about the inputs of a program of value operations never   *)
(* takes its results outside what was said of them before, whatever the    *)
(* inputs are and however long the program is; and an operation that       *)
(* panics on placeholders panics on what they become.  Programs that hold  *)
(* cty.Zero itself among the inputs are left out, if longer than one       *)
(* operation.                                                              *)
THEOREM LearningIsSafe ==
  ASSUME NoZeroItself
  PROVE  Spec => []LearningNeverWidens
<1>1. Init => LearnInv
  BY InitLearns
<1>2. LearnInv /\ [Next]_vars => LearnInv'
  <2>1. ASSUME LearnInv, Next PROVE LearnInv'
    BY <2>1, OperationLearns DEF Next
  <2>2. ASSUME LearnInv, UNCHANGED vars PROVE LearnInv'
    BY <2>2 DEF vars, LearnInv, OperandsInv, AreValues, ResultsNotNull, Chain, NullPending
  <2> QED BY <2>1, <2>2
<1>3. LearnInv => LearningNeverWidens
  BY DEF LearnInv, LearningNeverWidens
<1> QED BY <1>1, <1>2, <1>3, PTL DEF Spec
=============================================================================
