---------------------- MODULE PartialEvaluation_proofs ----------------------
(***************************************************************************)
(* Theorems about the operations on values, and about programs of them,    *)
(* for every universe of numbers and every set of inputs.                  *)
(***************************************************************************)
EXTENDS PartialEvaluation, TLAPS

(* What an operation may return: a panic, or a value with no part left     *)
(* open but the bounds of a number, well-formed and not null if its numbers *)
(* are in the universe.                                                     *)
Plain(z) == IF z.known THEN z.whole ELSE z.rfn.kind \in {"nullable", "number"}

Good(z) ==
  z # Panicked =>
    /\ Plain(z)
    /\ InUniverse(z) => IsValue(z) /\ DefinitelyNotNull(z)

(* An operand of the type that is required, known and not null. *)
Ready(required, x) == x.ty = required /\ x.known /\ x.c # Null

LEMMA NumberFacts ==
  /\ \A n \in Numbers : n \in Int /\ NegInf <= n /\ n <= PosInf
  /\ NegInf \in Numbers /\ PosInf \in Numbers /\ NegInf \in Int /\ PosInf \in Int
  /\ NilVal \notin Int /\ Null \notin Int /\ Panicked \notin Int /\ NegInf = -PosInf
BY NumbersAssumption, MarkersAssumption, SymmetricAssumption
DEF NumbersAssumption, MarkersAssumption, SymmetricAssumption

----------------------------------------------------------------------------
(* The values that the operations make.                                    *)

LEMMA KnownNumberIsGood ==
  ASSUME NEW n \in Int
  PROVE  Good(Known("number", n))
<1>1. n # Null
  BY NumberFacts
<1> QED BY <1>1 DEF Good, Plain, Known, IsValue, InUniverse, DefinitelyNotNull, IsNull, IsConcrete,
           OperandTypes

(* The package variables: zero and the infinities. *)
LEMMA LiteralIsGood ==
  ASSUME NEW n \in Int, n = 0 \/ Infinite(n)
  PROVE  Good(Literal(n))
<1> DEFINE k == Known("number", n)
<1>1. Literal(n) = [ty |-> "number", known |-> TRUE, c |-> n, whole |-> TRUE, lit |-> TRUE]
  <2>1. k = [ty |-> "number", known |-> TRUE, c |-> n, whole |-> TRUE, lit |-> FALSE]
    BY DEF Known
  <2>2. Literal(n) = [k EXCEPT !.lit = TRUE]
    BY DEF Literal
  <2> HIDE DEF k
  <2> QED BY <2>1, <2>2
<1>2. n # Null
  BY NumberFacts
<1> QED BY <1>1, <1>2 DEF Good, Plain, IsValue, InUniverse, DefinitelyNotNull, IsNull, IsConcrete,
           OperandTypes

LEMMA NumberResultIsGood ==
  ASSUME NEW n \in Int \cup {Panicked}
  PROVE  Good(NumberResult(n))
BY KnownNumberIsGood, NumberFacts DEF NumberResult, Good

LEMMA KindOfNumber == KindOf("number") = "number"
BY DEF KindOf, CollectionTypes

LEMMA NotNullNumber ==
  ASSUME NEW r, NEW null, NEW a, NEW aInc, NEW c, NEW cInc,
         r = [kind |-> "number", null |-> null, min |-> a, minInc |-> aInc,
              max |-> c, maxInc |-> cInc]
  PROVE  NotNull(r) = [kind |-> "number", null |-> "F", min |-> a, minInc |-> aInc,
                       max |-> c, maxInc |-> cInc]
BY DEF NotNull

(* UnknownNotNull, written out. *)
LEMMA UnknownNumberNotNull ==
  UnknownNotNull("number") =
    [ty |-> "number", known |-> FALSE,
     rfn |-> [kind |-> "number", null |-> "F", min |-> NilVal, minInc |-> FALSE,
              max |-> NilVal, maxInc |-> FALSE]]
<1> DEFINE f == Fresh("number")
           no == FALSE
<1>1. f = [kind |-> "number", null |-> "U", min |-> NilVal, minInc |-> no,
           max |-> NilVal, maxInc |-> no]
  BY KindOfNumber DEF Fresh
<1>2. UnknownNotNull("number") = Unknown("number", NotNull(f))
  BY DEF UnknownNotNull, RefinedAs
<1> HIDE DEF f, no
<1>3. NotNull(f) = [kind |-> "number", null |-> "F", min |-> NilVal, minInc |-> no,
                    max |-> NilVal, maxInc |-> no]
  BY <1>1, NotNullNumber
<1> QED BY <1>2, <1>3 DEF Unknown, no

LEMMA UnknownBoolNotNull ==
  UnknownNotNull("bool") =
    [ty |-> "bool", known |-> FALSE, rfn |-> [kind |-> "nullable", null |-> "F"]]
<1> DEFINE f == [kind |-> "nullable", null |-> "U"]
<1>1. Fresh("other") = f
  <2>1. KindOf("other") = "nullable"
    BY DEF KindOf, CollectionTypes
  <2> QED BY <2>1 DEF Fresh
<1>2. NotNull(f) = [kind |-> "nullable", null |-> "F"]
  BY DEF NotNull
<1>3. UnknownNotNull("bool") = Unknown("bool", NotNull(f))
  BY <1>1 DEF UnknownNotNull, RefinedAs
<1> HIDE DEF f
<1> QED BY <1>2, <1>3 DEF Unknown

LEMMA UnknownNotNullIsGood == Good(UnknownNotNull("number"))
<1> DEFINE r == [kind |-> "number", null |-> "F", min |-> NilVal, minInc |-> FALSE,
                 max |-> NilVal, maxInc |-> FALSE]
           z == [ty |-> "number", known |-> FALSE, rfn |-> r]
<1>1. /\ r \in Refinements /\ r.kind = "number" /\ r.null = "F"
      /\ Consistent(r) /\ ~Collapses("number", r)
  BY DEF Refinements, RefinementNumber, Tristate, Collapses, CollapsesNumber,
     CollapsesCollection, Consistent, ConsistentBounds
<1> HIDE DEF r
<1>2. IsValue(z) /\ DefinitelyNotNull(z)
  BY <1>1 DEF IsValue, OperandTypes, RefinedAs, KindOf, DefinitelyNotNull, CollectionTypes
<1>3. Plain(z)
  BY <1>1 DEF Plain
<1>4. UnknownNotNull("number") = z
  BY UnknownNumberNotNull DEF r
<1> QED BY <1>2, <1>3, <1>4 DEF Good

(* The refinement between two inclusive bounds. *)
Bounded(lo, hi) ==
  [kind |-> "number", null |-> "F",
   min |-> IF lo = NegInf THEN NilVal ELSE lo, minInc |-> lo # NegInf,
   max |-> IF hi = PosInf THEN NilVal ELSE hi, maxInc |-> hi # PosInf]

LEMMA NumberBetweenIs ==
  ASSUME NEW lo \in Int, NEW hi \in Int
  PROVE  NumberBetween(lo, hi) =
           IF lo = hi /\ lo # NegInf /\ hi # PosInf THEN Known("number", lo)
           ELSE Unknown("number", Bounded(lo, hi))
<1> DEFINE f == Fresh("number")
           g == WithMin(f, lo, TRUE)
           h == WithMax(g, hi, TRUE)
<1>1. f = [kind |-> "number", null |-> "U", min |-> NilVal, minInc |-> FALSE,
           max |-> NilVal, maxInc |-> FALSE]
  BY KindOfNumber DEF Fresh
<1> HIDE DEF f
<1>2. g = [kind |-> "number", null |-> "U",
           min |-> IF lo = NegInf THEN NilVal ELSE lo, minInc |-> lo # NegInf,
           max |-> NilVal, maxInc |-> FALSE]
  <2>1. ~KeepsMin(f, lo, TRUE)
    BY <1>1 DEF KeepsMin
  <2>2. CASE lo = NegInf
    BY <1>1, <2>2 DEF WithMin
  <2>3. CASE lo # NegInf
    <3>1. g = [f EXCEPT !.min = lo, !.minInc = TRUE]
      BY <2>1, <2>3 DEF WithMin
    <3> QED BY <3>1, <1>1, <2>3
  <2> QED BY <2>2, <2>3
<1> HIDE DEF g
<1>3. h = [kind |-> "number", null |-> "U",
           min |-> IF lo = NegInf THEN NilVal ELSE lo, minInc |-> lo # NegInf,
           max |-> IF hi = PosInf THEN NilVal ELSE hi, maxInc |-> hi # PosInf]
  <2>1. ~KeepsMax(g, hi, TRUE)
    BY <1>2 DEF KeepsMax
  <2>2. CASE hi = PosInf
    BY <1>2, <2>2 DEF WithMax
  <2>3. CASE hi # PosInf
    <3>1. h = [g EXCEPT !.max = hi, !.maxInc = TRUE]
      BY <2>1, <2>3 DEF WithMax
    <3> QED BY <3>1, <1>2, <2>3
  <2> QED BY <2>2, <2>3
<1> HIDE DEF h
<1>4. NotNull(h) = Bounded(lo, hi)
  BY <1>3 DEF NotNull, Bounded
<1>5. NumberBetween(lo, hi) = NewValue("number", Bounded(lo, hi))
  BY <1>4 DEF NumberBetween, f, g, h
<1>6. Collapses("number", Bounded(lo, hi)) <=> lo = hi /\ lo # NegInf /\ hi # PosInf
  BY NumberFacts DEF Collapses, CollapsesNumber, CollapsesCollection, Bounded
<1>7. lo # NegInf => CollapsedTo(Bounded(lo, hi)) = lo
  BY DEF CollapsedTo, Bounded
<1> QED BY <1>5, <1>6, <1>7 DEF NewValue, RefinedAs

LEMMA NumberBetweenIsGood ==
  ASSUME NEW lo \in Int, NEW hi \in Int, lo <= hi
  PROVE  Good(NumberBetween(lo, hi))
<1> DEFINE r == Bounded(lo, hi)
           z == Unknown("number", r)
<1>1. CASE lo = hi /\ lo # NegInf /\ hi # PosInf
  BY <1>1, NumberBetweenIs, KnownNumberIsGood
<1>2. CASE ~(lo = hi /\ lo # NegInf /\ hi # PosInf)
  <2>1. NumberBetween(lo, hi) = z
    BY <1>2, NumberBetweenIs
  <2>2. /\ r.kind = "number" /\ r.null = "F"
        /\ Consistent(r) /\ ~Collapses("number", r)
    BY <1>2, NumberFacts DEF Bounded, Collapses, CollapsesNumber, CollapsesCollection,
       Consistent, ConsistentBounds
  <2>3. r.min \in Numbers \cup {NilVal} /\ r.max \in Numbers \cup {NilVal} => r \in Refinements
    <3> DEFINE a == r.min
               c == r.max
    <3>1. r = [kind |-> "number", null |-> "F", min |-> a, minInc |-> lo # NegInf,
               max |-> c, maxInc |-> hi # PosInf]
      BY DEF Bounded
    <3> HIDE DEF a, c
    <3>2. a \in Numbers \cup {NilVal} /\ c \in Numbers \cup {NilVal} => r \in RefinementNumber
      BY <3>1 DEF RefinementNumber, Tristate
    <3> QED BY <3>2 DEF Refinements, a, c
  <2> HIDE DEF r
  <2>4. InUniverse(z) => r.min \in Numbers \cup {NilVal} /\ r.max \in Numbers \cup {NilVal}
    BY <2>2 DEF InUniverse, Unknown
  <2>5. InUniverse(z) => IsValue(z) /\ DefinitelyNotNull(z)
    BY <2>2, <2>3, <2>4 DEF IsValue, Unknown, OperandTypes, RefinedAs, KindOf, DefinitelyNotNull,
       CollectionTypes
  <2>6. Plain(z)
    BY <2>2 DEF Plain, Unknown
  <2> QED BY <2>1, <2>5, <2>6 DEF Good
<1> QED BY <1>1, <1>2

----------------------------------------------------------------------------
(* The shape of an operation.                                              *)

Typed(required, x) == x.ty \in {required, "dynamic"}

LEMMA TwoOperands ==
  ASSUME NEW required, NEW x, NEW y, NEW e, NEW r
  PROVE  \/ TypeChecked(required, <<x, y>>, e, r) = Panicked
         \/ /\ TypeChecked(required, <<x, y>>, e, r) = e
            /\ Typed(required, x) /\ Typed(required, y)
         \/ /\ TypeChecked(required, <<x, y>>, e, r) = r
            /\ Ready(required, x) /\ Ready(required, y)
<1> DEFINE xs == <<x, y>>
<1>1. DOMAIN xs = {1, 2} /\ xs[1] = x /\ xs[2] = y
  OBVIOUS
<1> HIDE DEF xs
<1>2. ~Mismatch(required, xs) => Typed(required, x) /\ Typed(required, y)
  BY <1>1 DEF Mismatch, Typed
<1>3. ~Mismatch(required, xs) /\ ~ShortCircuit(xs) /\ ~AnyNull(xs)
        => Ready(required, x) /\ Ready(required, y)
  BY <1>1 DEF Mismatch, ShortCircuit, AnyNull, IsNull, Ready
<1> DEFINE t == TypeChecked(required, xs, e, r)
<1>4. \/ t = Panicked
      \/ t = e /\ Typed(required, x) /\ Typed(required, y)
      \/ t = r /\ Ready(required, x) /\ Ready(required, y)
  BY <1>2, <1>3 DEF TypeChecked
<1> QED BY <1>4 DEF xs

LEMMA OneOperand ==
  ASSUME NEW required, NEW x, NEW e, NEW r
  PROVE  \/ TypeChecked(required, <<x>>, e, r) \in {Panicked, e}
         \/ TypeChecked(required, <<x>>, e, r) = r /\ Ready(required, x)
<1> DEFINE xs == <<x>>
<1>1. DOMAIN xs = {1} /\ xs[1] = x
  OBVIOUS
<1> HIDE DEF xs
<1>2. ~Mismatch(required, xs) /\ ~ShortCircuit(xs) /\ ~AnyNull(xs) => Ready(required, x)
  BY <1>1 DEF Mismatch, ShortCircuit, AnyNull, IsNull, Ready
<1> DEFINE t == TypeChecked(required, xs, e, r)
<1>3. t \in {Panicked, e} \/ (t = r /\ Ready(required, x))
  BY <1>2 DEF TypeChecked
<1> QED BY <1>3 DEF xs

LEMMA PanickedIsGood == Good(Panicked)
BY DEF Good

LEMMA TypeCheckedTwo ==
  ASSUME NEW required, NEW x, NEW y, NEW e, NEW r,
         Typed(required, x) /\ Typed(required, y) => Good(e),
         Ready(required, x) /\ Ready(required, y) => Good(r)
  PROVE  Good(TypeChecked(required, <<x, y>>, e, r))
BY TwoOperands, PanickedIsGood

LEMMA TypeCheckedOne ==
  ASSUME NEW required, NEW x, NEW e, NEW r,
         Good(e), Ready(required, x) => Good(r)
  PROVE  Good(TypeChecked(required, <<x>>, e, r))
BY OneOperand, PanickedIsGood

(* What a comparison or a Boolean operation returns. *)
Answer(z) == z \in {Panicked, True, False, UnknownNotNull("bool")}

LEMMA KnownAnswer == \A c \in BOOLEAN : Answer(Known("bool", c))
BY DEF Answer, True, False

LEMMA AnswerIsValue ==
  ASSUME NEW z, z \in {True, False, UnknownNotNull("bool")}
  PROVE  IsValue(z) /\ DefinitelyNotNull(z) /\ z.ty = "bool"
<1>1. ASSUME NEW c \in BOOLEAN
      PROVE  /\ IsValue(Known("bool", c)) /\ DefinitelyNotNull(Known("bool", c))
             /\ Known("bool", c).ty = "bool"
  <2>1. c # Null
    BY MarkersAssumption DEF MarkersAssumption
  <2> QED BY <2>1 DEF Known, IsValue, DefinitelyNotNull, IsNull, IsConcrete, OperandTypes
<1>2. /\ IsValue(UnknownNotNull("bool")) /\ DefinitelyNotNull(UnknownNotNull("bool"))
      /\ UnknownNotNull("bool").ty = "bool"
  <2> DEFINE r == [kind |-> "nullable", null |-> "F"]
             w == [ty |-> "bool", known |-> FALSE, rfn |-> r]
  <2>1. /\ r \in Refinements /\ r.kind = "nullable" /\ r.null = "F"
        /\ Consistent(r) /\ ~Collapses("other", r)
    BY DEF Refinements, RefinementNullable, Tristate, Collapses, CollapsesNumber,
       CollapsesCollection, Consistent
  <2> HIDE DEF r
  <2>2. IsValue(w) /\ DefinitelyNotNull(w) /\ w.ty = "bool"
    BY <2>1 DEF IsValue, OperandTypes, RefinedAs, KindOf, DefinitelyNotNull, CollectionTypes
  <2> QED BY <2>2, UnknownBoolNotNull DEF r
<1> QED BY <1>1, <1>2 DEF True, False

LEMMA AnswerIsPlain ==
  ASSUME NEW z, z \in {True, False, UnknownNotNull("bool")}
  PROVE  Plain(z)
<1>1. Plain(True) /\ Plain(False)
  BY DEF Plain, True, False, Known
<1>2. Plain(UnknownNotNull("bool"))
  BY UnknownBoolNotNull DEF Plain
<1> QED BY <1>1, <1>2

LEMMA AnswerIsGood ==
  ASSUME NEW z, Answer(z)
  PROVE  Good(z)
BY AnswerIsValue, AnswerIsPlain, PanickedIsGood DEF Answer, Good

LEMMA AnswerOfTwo ==
  ASSUME NEW required, NEW x, NEW y, NEW e, NEW r, Answer(e),
         Ready(required, x) /\ Ready(required, y) => Answer(r)
  PROVE  Answer(TypeChecked(required, <<x, y>>, e, r))
<1>1. Answer(Panicked)
  BY DEF Answer
<1> QED BY <1>1, TwoOperands

LEMMA ReadyNumber ==
  ASSUME NEW x, IsValue(x), Ready("number", x)
  PROVE  x.c \in Numbers /\ x.c \in Int /\ x.known
BY NumberFacts DEF IsValue, Ready, IsConcrete

LEMMA ReadyBool ==
  ASSUME NEW x, IsValue(x), Ready("bool", x)
  PROVE  x.c \in BOOLEAN /\ x.known
BY DEF IsValue, Ready, IsConcrete

LEMMA BoundsAreNumbers ==
  ASSUME NEW x, IsValue(x), x.ty = "number"
  PROVE  LowerBound(RangeOf(x)) \in Numbers /\ UpperBound(RangeOf(x)) \in Numbers
<1>1. CASE ~x.known
  <2>1. RangeOf(x) = x.rfn
    BY <1>1 DEF RangeOf, IsNull
  <2>2. x.rfn.kind = "number" => /\ x.rfn.min \in Numbers \cup {NilVal}
                                 /\ x.rfn.max \in Numbers \cup {NilVal}
    BY <1>1 DEF IsValue, Refinements, RefinementNullable, RefinementNumber,
       RefinementCollection, RefinementString
  <2> QED BY <2>1, <2>2, NumberFacts DEF LowerBound, UpperBound
<1>2. CASE IsNull(x)
  <2>1. RangeOf(x) = [kind |-> "nullable", null |-> "T"]
    BY <1>2 DEF RangeOf, IsNull
  <2> QED BY <2>1, NumberFacts DEF LowerBound, UpperBound
<1>3. CASE x.known /\ ~IsNull(x)
  <2>1. RangeOf(x) = [kind |-> "number", null |-> "F", min |-> x.c, minInc |-> TRUE,
                      max |-> x.c, maxInc |-> TRUE]
    BY <1>3 DEF RangeOf, CollectionTypes
  <2>2. x.c \in Numbers
    BY <1>3, ReadyNumber DEF Ready, IsNull
  <2> QED BY <2>1, <2>2, NumberFacts DEF LowerBound, UpperBound
<1> QED BY <1>1, <1>2, <1>3 DEF IsNull

LEMMA LeastAndGreatest ==
  ASSUME NEW a \in Int, NEW b \in Int, NEW c \in Int, NEW d \in Int,
         NEW S, S = {a, b, c, d}
  PROVE  /\ FSE!Min(S) \in S /\ \A n \in S : FSE!Min(S) <= n
         /\ FSE!Max(S) \in S /\ \A n \in S : n <= FSE!Max(S)
<1>1. \E m \in S : \A n \in S : m <= n
  <2> DEFINE ab == IF a <= b THEN a ELSE b
             cd == IF c <= d THEN c ELSE d
  <2>1. ab \in {a, b} /\ ab <= a /\ ab <= b /\ ab \in Int
    OBVIOUS
  <2>2. cd \in {c, d} /\ cd <= c /\ cd <= d /\ cd \in Int
    OBVIOUS
  <2> HIDE DEF ab, cd
  <2> QED BY <2>1, <2>2
<1>2. \E m \in S : \A n \in S : m >= n
  <2> DEFINE ab == IF a >= b THEN a ELSE b
             cd == IF c >= d THEN c ELSE d
  <2>1. ab \in {a, b} /\ ab >= a /\ ab >= b /\ ab \in Int
    OBVIOUS
  <2>2. cd \in {c, d} /\ cd >= c /\ cd >= d /\ cd \in Int
    OBVIOUS
  <2> HIDE DEF ab, cd
  <2> QED BY <2>1, <2>2
<1> QED BY <1>1, <1>2 DEF FSE!Min, FSE!Max

----------------------------------------------------------------------------
(* Arithmetic.                                                             *)

LEMMA SignIs == ASSUME NEW a \in Int PROVE Sign(a) \in {-1, 0, 1}
BY DEF Sign

LEMMA PlusType == \A a, b \in Int : Plus(a, b) \in Int \cup {Panicked}
BY DEF Plus

LEMMA MinusType == \A a, b \in Int : Minus(a, b) \in Int \cup {Panicked}
<1> TAKE a, b \in Int
<1>1. -b \in Int
  OBVIOUS
<1> QED BY <1>1, PlusType DEF Minus

LEMMA TimesType == \A a, b \in Int : Times(a, b) \in Int \cup {Panicked}
<1> TAKE a, b \in Int
<1>1. a * b \in Int
  OBVIOUS
<1>2. Sign(a) * Sign(b) \in Int
  BY SignIs
<1>3. Sign(a) * Sign(b) * PosInf \in Int
  BY <1>2, NumberFacts
<1> QED BY <1>1, <1>3 DEF Times

(* The result of interval arithmetic, from its four corners. *)
LEMMA BetweenCorners ==
  ASSUME NEW a \in Int \cup {Panicked}, NEW b \in Int \cup {Panicked},
         NEW c \in Int \cup {Panicked}, NEW d \in Int \cup {Panicked},
         NEW corners, corners = {a, b, c, d}, Panicked \notin corners
  PROVE  Good(NumberBetween(FSE!Min(corners), FSE!Max(corners)))
<1>1. /\ FSE!Min(corners) \in Int /\ FSE!Max(corners) \in Int
      /\ FSE!Min(corners) <= FSE!Max(corners)
  BY LeastAndGreatest
<1> QED BY <1>1, NumberBetweenIsGood

LEMMA OperandsOf ==
  ASSUME NEW x, NEW y, Typed("number", x), Typed("number", y), ~Dynamic(<<x, y>>)
  PROVE  x.ty = "number" /\ y.ty = "number"
<1> DEFINE xs == <<x, y>>
<1>1. DOMAIN xs = {1, 2} /\ xs[1] = x /\ xs[2] = y
  OBVIOUS
<1>2. ~Dynamic(xs)
  OBVIOUS
<1> HIDE DEF xs
<1> QED BY <1>1, <1>2 DEF Dynamic, Typed

LEMMA FourPairs ==
  ASSUME NEW r, NEW s
  PROVE  BoundPairs(r, s) =
           {<<LowerBound(r), LowerBound(s)>>, <<LowerBound(r), UpperBound(s)>>,
            <<UpperBound(r), LowerBound(s)>>, <<UpperBound(r), UpperBound(s)>>}
BY DEF BoundPairs

LEMMA PlusRange ==
  ASSUME NEW x, NEW y, IsValue(x), IsValue(y), Typed("number", x), Typed("number", y)
  PROVE  Good(RangeArithmetic(Plus, x, y))
<1> DEFINE r == RangeOf(x)
           s == RangeOf(y)
           corners == {Plus(p[1], p[2]) : p \in BoundPairs(r, s)}
<1>1. RangeArithmetic(Plus, x, y) =
        IF Dynamic(<<x, y>>) \/ Panicked \in corners THEN UnknownNotNull("number")
        ELSE NumberBetween(FSE!Min(corners), FSE!Max(corners))
  BY DEF RangeArithmetic
<1>2. ASSUME ~Dynamic(<<x, y>>), Panicked \notin corners
      PROVE  Good(NumberBetween(FSE!Min(corners), FSE!Max(corners)))
  <2> DEFINE a == LowerBound(r)
             b == UpperBound(r)
             c == LowerBound(s)
             d == UpperBound(s)
  <2>1. a \in Int /\ b \in Int /\ c \in Int /\ d \in Int
    BY <1>2, OperandsOf, BoundsAreNumbers, NumberFacts
  <2>2. BoundPairs(r, s) = {<<a, c>>, <<a, d>>, <<b, c>>, <<b, d>>}
    BY FourPairs
  <2> HIDE DEF a, b, c, d, r, s
  <2>3. corners = {Plus(a, c), Plus(a, d), Plus(b, c), Plus(b, d)}
    BY <2>2
  <2> HIDE DEF corners
  <2> QED BY <1>2, <2>1, <2>3, PlusType, BetweenCorners
<1> QED BY <1>1, <1>2, UnknownNotNullIsGood

LEMMA PlusArithmetic ==
  ASSUME NEW x, NEW y, IsValue(x), IsValue(y)
  PROVE  Good(Arithmetic(Plus, x, y))
<1>1. Typed("number", x) /\ Typed("number", y) => Good(RangeArithmetic(Plus, x, y))
  BY PlusRange
<1>2. Ready("number", x) /\ Ready("number", y) => Good(NumberResult(Plus(x.c, y.c)))
  BY ReadyNumber, PlusType, NumberResultIsGood
<1> HIDE DEF RangeArithmetic
<1>3. Good(TypeChecked("number", <<x, y>>, RangeArithmetic(Plus, x, y), NumberResult(Plus(x.c, y.c))))
  BY <1>1, <1>2, TypeCheckedTwo
<1> QED BY <1>3 DEF Arithmetic

LEMMA MinusRange ==
  ASSUME NEW x, NEW y, IsValue(x), IsValue(y), Typed("number", x), Typed("number", y)
  PROVE  Good(RangeArithmetic(Minus, x, y))
<1> DEFINE r == RangeOf(x)
           s == RangeOf(y)
           corners == {Minus(p[1], p[2]) : p \in BoundPairs(r, s)}
<1>1. RangeArithmetic(Minus, x, y) =
        IF Dynamic(<<x, y>>) \/ Panicked \in corners THEN UnknownNotNull("number")
        ELSE NumberBetween(FSE!Min(corners), FSE!Max(corners))
  BY DEF RangeArithmetic
<1>2. ASSUME ~Dynamic(<<x, y>>), Panicked \notin corners
      PROVE  Good(NumberBetween(FSE!Min(corners), FSE!Max(corners)))
  <2> DEFINE a == LowerBound(r)
             b == UpperBound(r)
             c == LowerBound(s)
             d == UpperBound(s)
  <2>1. a \in Int /\ b \in Int /\ c \in Int /\ d \in Int
    BY <1>2, OperandsOf, BoundsAreNumbers, NumberFacts
  <2>2. BoundPairs(r, s) = {<<a, c>>, <<a, d>>, <<b, c>>, <<b, d>>}
    BY FourPairs
  <2> HIDE DEF a, b, c, d, r, s
  <2>3. corners = {Minus(a, c), Minus(a, d), Minus(b, c), Minus(b, d)}
    BY <2>2
  <2> HIDE DEF corners
  <2> QED BY <1>2, <2>1, <2>3, MinusType, BetweenCorners
<1> QED BY <1>1, <1>2, UnknownNotNullIsGood

LEMMA MinusArithmetic ==
  ASSUME NEW x, NEW y, IsValue(x), IsValue(y)
  PROVE  Good(Arithmetic(Minus, x, y))
<1>1. Typed("number", x) /\ Typed("number", y) => Good(RangeArithmetic(Minus, x, y))
  BY MinusRange
<1>2. Ready("number", x) /\ Ready("number", y) => Good(NumberResult(Minus(x.c, y.c)))
  BY ReadyNumber, MinusType, NumberResultIsGood
<1> HIDE DEF RangeArithmetic
<1>3. Good(TypeChecked("number", <<x, y>>, RangeArithmetic(Minus, x, y), NumberResult(Minus(x.c, y.c))))
  BY <1>1, <1>2, TypeCheckedTwo
<1> QED BY <1>3 DEF Arithmetic

LEMMA TimesRange ==
  ASSUME NEW x, NEW y, IsValue(x), IsValue(y), Typed("number", x), Typed("number", y)
  PROVE  Good(RangeArithmetic(Times, x, y))
<1> DEFINE r == RangeOf(x)
           s == RangeOf(y)
           corners == {Times(p[1], p[2]) : p \in BoundPairs(r, s)}
<1>1. RangeArithmetic(Times, x, y) =
        IF Dynamic(<<x, y>>) \/ Panicked \in corners THEN UnknownNotNull("number")
        ELSE NumberBetween(FSE!Min(corners), FSE!Max(corners))
  BY DEF RangeArithmetic
<1>2. ASSUME ~Dynamic(<<x, y>>), Panicked \notin corners
      PROVE  Good(NumberBetween(FSE!Min(corners), FSE!Max(corners)))
  <2> DEFINE a == LowerBound(r)
             b == UpperBound(r)
             c == LowerBound(s)
             d == UpperBound(s)
  <2>1. a \in Int /\ b \in Int /\ c \in Int /\ d \in Int
    BY <1>2, OperandsOf, BoundsAreNumbers, NumberFacts
  <2>2. BoundPairs(r, s) = {<<a, c>>, <<a, d>>, <<b, c>>, <<b, d>>}
    BY FourPairs
  <2> HIDE DEF a, b, c, d, r, s
  <2>3. corners = {Times(a, c), Times(a, d), Times(b, c), Times(b, d)}
    BY <2>2
  <2> HIDE DEF corners
  <2> QED BY <1>2, <2>1, <2>3, TimesType, BetweenCorners
<1> QED BY <1>1, <1>2, UnknownNotNullIsGood

LEMMA TimesArithmetic ==
  ASSUME NEW x, NEW y, IsValue(x), IsValue(y)
  PROVE  Good(Arithmetic(Times, x, y))
<1>1. Typed("number", x) /\ Typed("number", y) => Good(RangeArithmetic(Times, x, y))
  BY TimesRange
<1>2. Ready("number", x) /\ Ready("number", y) => Good(NumberResult(Times(x.c, y.c)))
  BY ReadyNumber, TimesType, NumberResultIsGood
<1> HIDE DEF RangeArithmetic
<1>3. Good(TypeChecked("number", <<x, y>>, RangeArithmetic(Times, x, y), NumberResult(Times(x.c, y.c))))
  BY <1>1, <1>2, TypeCheckedTwo
<1> QED BY <1>3 DEF Arithmetic

LEMMA AddIsGood ==
  ASSUME NEW x, NEW y, IsValue(x), IsValue(y)
  PROVE  Good(Add(x, y)) /\ Good(Subtract(x, y)) /\ Good(Multiply(x, y))
<1>1. 0 \in Int
  OBVIOUS
<1>2. Good(Literal(0))
  BY <1>1, LiteralIsGood
<1> QED BY <1>2, PlusArithmetic, MinusArithmetic, TimesArithmetic DEF Add, Subtract, Multiply

LEMMA NegateIsGood ==
  ASSUME NEW x, IsValue(x)
  PROVE  Good(Negate(x))
<1>1. ASSUME Ready("number", x) PROVE Good(Known("number", -x.c))
  <2>1. -x.c \in Int
    BY <1>1, ReadyNumber
  <2> QED BY <2>1, KnownNumberIsGood
<1> QED BY <1>1, TypeCheckedOne, UnknownNotNullIsGood DEF Negate

LEMMA AbsoluteIsGood ==
  ASSUME NEW x, IsValue(x)
  PROVE  Good(Absolute(x))
<1>1. ASSUME Ready("number", x) PROVE Good(Known("number", Sign(x.c) * x.c))
  <2>1. x.c \in Int
    BY <1>1, ReadyNumber
  <2>2. Sign(x.c) * x.c \in Int
    BY <2>1, SignIs
  <2> QED BY <2>2, KnownNumberIsGood
<1>2. Good(NumberBetween(0, PosInf))
  <2>1. 0 \in Int
    OBVIOUS
  <2>2. 0 <= PosInf
    BY NumberFacts
  <2> QED BY <2>1, <2>2, NumberFacts, NumberBetweenIsGood
<1> QED BY <1>1, <1>2, TypeCheckedOne DEF Absolute

LEMMA TruncateType ==
  ASSUME NEW a \in Int, NEW b \in Int, b # 0
  PROVE  Truncate(a, b) \in Int
<1> DEFINE p == Sign(a) * a
           q == Sign(b) * b
           s == Sign(a) * Sign(b)
<1>1. p \in Int /\ s \in Int
  BY SignIs
<1>2. q \in Int /\ q > 0
  BY DEF Sign
<1> HIDE DEF p, q, s
<1>3. p \div q \in Int
  BY <1>1, <1>2
<1>4. s * (p \div q) \in Int
  BY <1>1, <1>3
<1> QED BY <1>4 DEF Truncate, p, q, s

LEMMA QuotientType ==
  ASSUME NEW a \in Int, NEW b \in Int, b # 0
  PROVE  Quotient(a, b) \in Int \cup {Panicked}
<1>1. Sign(a) * Sign(b) \in Int
  BY SignIs
<1>2. Sign(a) * Sign(b) * PosInf \in Int
  BY <1>1, NumberFacts
<1> QED BY <1>2, TruncateType DEF Quotient

LEMMA DivideIsGood ==
  ASSUME NEW x, NEW y, IsValue(x), IsValue(y), Divides(x, y)
  PROVE  Good(Divide(x, y))
<1>1. ASSUME Ready("number", x), Ready("number", y)
      PROVE  Good(NumberResult(Quotient(x.c, y.c)))
  <2>1. x.c \in Int /\ y.c \in Int
    BY <1>1, ReadyNumber
  <2>2. y.c # 0
    BY <1>1 DEF Divides, Ready
  <2> QED BY <2>1, <2>2, QuotientType, NumberResultIsGood
<1> QED BY <1>1, TypeCheckedTwo, UnknownNotNullIsGood DEF Divide

LEMMA ModuloIsGood ==
  ASSUME NEW x, NEW y, IsValue(x), IsValue(y)
  PROVE  Good(Modulo(x, y))
<1>1. ASSUME Ready("number", x), Ready("number", y)
      PROVE  Good(KnownModulo(x, y))
  <2>1. x.c \in Int /\ y.c \in Int
    BY <1>1, ReadyNumber
  <2>2. Good(x)
    BY <1>1 DEF Good, Plain, IsValue, Ready, DefinitelyNotNull, IsNull
  <2>3. ASSUME y.c # 0
        PROVE  Good(Known("number", x.c - y.c * Truncate(x.c, y.c)))
    <3>1. Truncate(x.c, y.c) \in Int
      BY <2>1, <2>3, TruncateType
    <3>2. x.c - y.c * Truncate(x.c, y.c) \in Int
      BY <2>1, <3>1
    <3> QED BY <3>2, KnownNumberIsGood
  <2> QED BY <2>2, <2>3, AddIsGood, PanickedIsGood DEF KnownModulo
<1> QED BY <1>1, TypeCheckedTwo, UnknownNotNullIsGood DEF Modulo

LEMMA LengthIsGood ==
  ASSUME NEW x, IsValue(x)
  PROVE  Good(Length(x))
<1> SUFFICES ASSUME ~(x.ty \in {"number", "bool"}),
                    ~(x.known /\ (IsNull(x) \/ x.ty = "dynamic"))
             PROVE  Good(Length(x))
  BY PanickedIsGood DEF Length
<1>1. ASSUME x.known PROVE x.c \in Int
  <2>1. x.ty \in {"list", "set"} /\ IsConcrete(x.ty, x.c)
    BY <1>1 DEF IsValue, IsNull, OperandTypes
  <2>2. x.c \in 0 .. MaxInt
    BY <2>1 DEF IsConcrete
  <2> QED BY <2>2, LengthsAssumption DEF LengthsAssumption
<1>2. ASSUME ~x.known
      PROVE  /\ LengthBounds(x.rfn)[1] \in Int /\ LengthBounds(x.rfn)[2] \in Int
             /\ LengthBounds(x.rfn)[1] <= LengthBounds(x.rfn)[2]
  <2>1. x.rfn.kind = "collection" => /\ x.rfn.minLen \in Int /\ x.rfn.maxLen \in Int
                                     /\ x.rfn.minLen <= x.rfn.maxLen
    BY <1>2 DEF IsValue, Refinements, RefinementNullable, RefinementNumber,
       RefinementCollection, RefinementString, Consistent, ConsistentLengths
  <2> QED BY <2>1, LengthsAssumption DEF LengthsAssumption, LengthBounds
<1>3. CASE x.known /\ (x.whole \/ x.c = 1)
  BY <1>1, <1>3, KnownNumberIsGood DEF Length
<1>4. CASE x.known /\ ~(x.whole \/ x.c = 1)
  <2>1. Length(x) = NumberBetween(1, x.c)
    BY <1>4 DEF Length
  <2>2. 1 \in Int /\ 1 <= x.c
    BY <1>1, <1>4, LengthsAssumption DEF IsValue, LengthsAssumption
  <2> QED BY <1>1, <1>4, <2>1, <2>2, NumberBetweenIsGood
<1>5. CASE ~x.known
  <2>1. Length(x) = NumberBetween(LengthBounds(x.rfn)[1], LengthBounds(x.rfn)[2])
    BY <1>5 DEF Length
  <2> QED BY <1>2, <1>5, <2>1, NumberBetweenIsGood
<1> QED BY <1>3, <1>4, <1>5

----------------------------------------------------------------------------
(* Comparisons and Boolean operations.                                     *)

LEMMA BooleansAnswer ==
  ASSUME NEW x, NEW y, IsValue(x), IsValue(y)
  PROVE  Answer(Not(x)) /\ Answer(And(x, y)) /\ Answer(Or(x, y))
<1>1. Answer(True) /\ Answer(False) /\ Answer(UnknownNotNull("bool")) /\ Answer(Panicked)
  BY DEF Answer
<1>2. ASSUME Ready("bool", x) PROVE Answer(Known("bool", ~x.c))
  <2>1. (~x.c) \in BOOLEAN
    OBVIOUS
  <2> QED BY <2>1, KnownAnswer
<1>3. ASSUME Ready("bool", x), Ready("bool", y)
      PROVE  Answer(Known("bool", x.c /\ y.c)) /\ Answer(Known("bool", x.c \/ y.c))
  <2>1. (x.c /\ y.c) \in BOOLEAN /\ (x.c \/ y.c) \in BOOLEAN
    BY <1>3, ReadyBool
  <2> QED BY <2>1, KnownAnswer
<1>4. Answer(Not(x))
  BY <1>1, <1>2, OneOperand DEF Not
<1>5. Answer(And(x, y))
  <2>1. Answer(IF IsFalse(x) \/ IsFalse(y) THEN False ELSE UnknownNotNull("bool"))
    BY <1>1
  <2> QED BY <1>3, <2>1, AnswerOfTwo DEF And
<1>6. Answer(Or(x, y))
  <2>1. Answer(IF IsTrue(x) \/ IsTrue(y) THEN True ELSE UnknownNotNull("bool"))
    BY <1>1
  <2> QED BY <1>3, <2>1, AnswerOfTwo DEF Or
<1> QED BY <1>4, <1>5, <1>6

LEMMA ComparisonsAnswer ==
  ASSUME NEW x, NEW y
  PROVE  Answer(LessThan(x, y)) /\ Answer(GreaterThan(x, y)) /\ Answer(Equals(x, y))
<1>1. Answer(True) /\ Answer(False) /\ Answer(UnknownNotNull("bool"))
  BY DEF Answer
<1>2. Answer(Known("bool", x.c < y.c)) /\ Answer(Known("bool", x.c > y.c))
  <2>1. (x.c < y.c) \in BOOLEAN /\ (x.c > y.c) \in BOOLEAN
    OBVIOUS
  <2> QED BY <2>1, KnownAnswer
<1>3. Answer(LessThan(x, y)) /\ Answer(GreaterThan(x, y))
  BY <1>1, <1>2, AnswerOfTwo DEF LessThan, GreaterThan
<1>4. Answer(EqualsKnown(x, y))
  BY <1>1, KnownAnswer DEF EqualsKnown
<1>5. Answer(Equals(x, y))
  BY <1>1, <1>4 DEF Equals
<1> QED BY <1>3, <1>5

LEMMA EqualsReturns ==
  ASSUME NEW x, NEW y
  PROVE  Equals(x, y) \in {True, False, UnknownNotNull("bool")}
<1>1. EqualsKnown(x, y) \in {True, False, UnknownNotNull("bool")}
  <2>1. \A c \in BOOLEAN : Known("bool", c) \in {True, False}
    BY DEF True, False
  <2> QED BY <2>1 DEF EqualsKnown
<1> QED BY <1>1 DEF Equals

LEMMA NotEqualAnswers == ASSUME NEW x, NEW y PROVE Answer(NotEqual(x, y))
BY EqualsReturns, AnswerIsValue, BooleansAnswer DEF NotEqual

LEMMA OrEqualAnswers ==
  ASSUME NEW a, NEW b, Answer(a), b \in {True, False, UnknownNotNull("bool")}
  PROVE  Answer(OrEqual(a, b))
<1>1. Answer(Panicked)
  BY DEF Answer
<1> QED BY <1>1, AnswerIsValue, BooleansAnswer DEF OrEqual, Answer

LEMMA AnswersAreGood ==
  ASSUME NEW x, NEW y, IsValue(x), IsValue(y)
  PROVE  /\ Good(LessThan(x, y)) /\ Good(GreaterThan(x, y))
         /\ Good(Equals(x, y)) /\ Good(NotEqual(x, y))
         /\ Good(LessThanOrEqualTo(x, y)) /\ Good(GreaterThanOrEqualTo(x, y))
         /\ Good(Not(x)) /\ Good(And(x, y)) /\ Good(Or(x, y))
<1>1. Answer(LessThanOrEqualTo(x, y)) /\ Answer(GreaterThanOrEqualTo(x, y))
  BY ComparisonsAnswer, EqualsReturns, OrEqualAnswers
     DEF LessThanOrEqualTo, GreaterThanOrEqualTo
<1> QED BY <1>1, ComparisonsAnswer, NotEqualAnswers, BooleansAnswer, AnswerIsGood

----------------------------------------------------------------------------
(* The invariant.  The operands are sequences, and each is a value.  They  *)
(* are at least the inputs; Bound never exceeds MaxOperands.               *)
AreValues(s) == \A i \in DOMAIN s : IsValue(s[i])
ResultsNotNull(s) == \A i \in (Inputs + 1) .. Len(s) : DefinitelyNotNull(s[i])

OperandsInv ==
  /\ \E S : early \in Seq(S)
  /\ \E S : late \in Seq(S)
  /\ Len(early) \in Inputs .. MaxOperands /\ Len(late) = Len(early)
  /\ AreValues(early) /\ AreValues(late)
  /\ ResultsNotNull(early) /\ ResultsNotNull(late)
  /\ failed \subseteq {"early", "late"}

LEMMA OperandsInvImpliesTypeOK == OperandsInv => TypeOK
<1> SUFFICES ASSUME OperandsInv PROVE TypeOK
  OBVIOUS
<1>1. DOMAIN early = DOMAIN late
  BY DEF OperandsInv
<1>2. \A i \in DOMAIN early : IsValue(early[i]) /\ IsValue(late[i])
  BY <1>1 DEF OperandsInv, AreValues
<1>3. \A i \in (Inputs + 1) .. Len(early) :
        DefinitelyNotNull(early[i]) /\ DefinitelyNotNull(late[i])
  BY DEF OperandsInv, ResultsNotNull
<1> QED BY <1>2, <1>3 DEF OperandsInv, TypeOK

LEMMA InitOperandsInv == Init => OperandsInv
<1> SUFFICES ASSUME Init PROVE OperandsInv
  OBVIOUS
<1> DEFINE Pairs == InitialPairs \cup ChainPairs
<1>1. PICK p \in [1 .. Inputs -> Pairs] :
        /\ early = [i \in 1 .. Inputs |-> p[i][1]]
        /\ late  = [i \in 1 .. Inputs |-> p[i][2]]
  <2>1. /\ [1 .. Inputs -> InitialPairs] \subseteq [1 .. Inputs -> Pairs]
        /\ [1 .. Inputs -> ChainPairs] \subseteq [1 .. Inputs -> Pairs]
    OBVIOUS
  <2> HIDE DEF Pairs
  <2> QED BY <2>1 DEF Init
<1>2. \A i \in 1 .. Inputs : IsValue(p[i][1]) /\ IsValue(p[i][2])
  BY InputsAssumption DEF InputsAssumption
<1>3. Inputs \in Nat /\ MaxOperands \in Nat /\ Inputs <= MaxOperands
  BY InputsAssumption DEF InputsAssumption
<1> DEFINE E == {p[i][1] : i \in 1 .. Inputs}
           L == {p[i][2] : i \in 1 .. Inputs}
<1>4. early \in [1 .. Inputs -> E] /\ late \in [1 .. Inputs -> L]
  BY <1>1
<1> HIDE DEF E, L
<1>5. early \in Seq(E) /\ late \in Seq(L) /\ Len(early) = Inputs /\ Len(late) = Inputs
  BY <1>3, <1>4
<1>6. AreValues(early) /\ AreValues(late)
  BY <1>1, <1>2 DEF AreValues
<1>7. ResultsNotNull(early) /\ ResultsNotNull(late)
  BY <1>3, <1>5 DEF ResultsNotNull
<1>8. failed = {}
  BY DEF Init
<1> QED BY <1>3, <1>5, <1>6, <1>7, <1>8 DEF OperandsInv

(* Appending a value that is not null. *)
LEMMA AppendGood ==
  ASSUME NEW s, NEW S, s \in Seq(S), NEW z, IsValue(z), DefinitelyNotNull(z),
         AreValues(s), ResultsNotNull(s), Len(s) >= Inputs
  PROVE  /\ \E T : Append(s, z) \in Seq(T)
         /\ Len(Append(s, z)) = Len(s) + 1
         /\ AreValues(Append(s, z)) /\ ResultsNotNull(Append(s, z))
<1> DEFINE T == S \cup {z}
           a == Append(s, z)
<1>1. s \in Seq(T) /\ z \in T
  <2>1. S \subseteq T
    OBVIOUS
  <2> HIDE DEF T
  <2>2. s \in Seq(T)
    BY <2>1
  <2> QED BY <2>2 DEF T
<1> HIDE DEF T
<1>2. /\ a \in Seq(T) /\ Len(a) = Len(s) + 1 /\ DOMAIN a = 1 .. Len(s) + 1
      /\ \A i \in 1 .. Len(s) : a[i] = s[i]
      /\ a[Len(s) + 1] = z
  BY <1>1
<1>3. Len(s) \in Nat /\ DOMAIN s = 1 .. Len(s) /\ Inputs \in Nat
  BY InputsAssumption DEF InputsAssumption
<1> HIDE DEF a
<1>4. AreValues(a)
  BY <1>2, <1>3 DEF AreValues
<1>5. ResultsNotNull(a)
  BY <1>2, <1>3 DEF ResultsNotNull
<1> QED BY <1>2, <1>4, <1>5 DEF a

LEMMA BoundHolds == Bound \in Nat /\ Bound <= MaxOperands
BY InputsAssumption DEF InputsAssumption, Bound

(* A step whose two results are good preserves the invariant. *)
LEMMA ResultInv ==
  ASSUME OperandsInv, NEW e, NEW l, Good(e), Good(l), Result(e, l)
  PROVE  OperandsInv'
<1>1. CASE failed' = {}
  <2>1. e # Panicked /\ l # Panicked
    BY <1>1 DEF Result
  <2>2. IsValue(e) /\ DefinitelyNotNull(e) /\ IsValue(l) /\ DefinitelyNotNull(l)
    BY <2>1 DEF Result, Good
  <2>3. early' = Append(early, e) /\ late' = Append(late, l) /\ Len(early) < Bound
    BY <1>1 DEF Result
  <2>4. PICK S : early \in Seq(S)
    BY DEF OperandsInv
  <2>5. PICK T : late \in Seq(T)
    BY DEF OperandsInv
  <2>6. /\ Inputs \in Nat /\ MaxOperands \in Nat
        /\ Len(early) \in Nat /\ Len(early) >= Inputs /\ Len(late) = Len(early)
    BY InputsAssumption DEF OperandsInv, InputsAssumption
  <2>7. /\ \E U : early' \in Seq(U)
        /\ Len(early') = Len(early) + 1 /\ AreValues(early') /\ ResultsNotNull(early')
    BY <2>2, <2>3, <2>4, <2>6, AppendGood DEF OperandsInv
  <2>8. /\ \E U : late' \in Seq(U)
        /\ Len(late') = Len(late) + 1 /\ AreValues(late') /\ ResultsNotNull(late')
    BY <2>2, <2>3, <2>5, <2>6, AppendGood DEF OperandsInv
  <2>9. Len(early') \in Inputs .. MaxOperands
    BY <2>3, <2>6, <2>7, BoundHolds
  <2>10. AreValues(early)' /\ ResultsNotNull(early)' /\ AreValues(late)' /\ ResultsNotNull(late)'
    BY <2>7, <2>8 DEF AreValues, ResultsNotNull
  <2> QED BY <1>1, <2>6, <2>7, <2>8, <2>9, <2>10 DEF OperandsInv
<1>2. CASE failed' # {}
  <2>1. early' = early /\ late' = late
    BY <1>2 DEF Result
  <2>2. failed' \subseteq {"early", "late"}
    BY DEF Result
  <2>3. AreValues(early)' /\ ResultsNotNull(early)' /\ AreValues(late)' /\ ResultsNotNull(late)'
    BY <2>1 DEF OperandsInv, AreValues, ResultsNotNull
  <2> QED BY <2>1, <2>2, <2>3 DEF OperandsInv
<1> QED BY <1>1, <1>2

LEMMA OperationInv ==
  ASSUME OperandsInv, NEW i \in DOMAIN early, NEW j \in DOMAIN early, Operation(i, j)
  PROVE  OperandsInv'
<1>1. /\ IsValue(early[i]) /\ IsValue(early[j]) /\ IsValue(late[i]) /\ IsValue(late[j])
  <2>1. DOMAIN early = DOMAIN late
    BY DEF OperandsInv
  <2> QED BY <2>1 DEF OperandsInv, AreValues
<1> USE <1>1
<1>2. CASE AddStep(i, j) \/ SubtractStep(i, j) \/ MultiplyStep(i, j)
  BY <1>2, AddIsGood, ResultInv DEF AddStep, SubtractStep, MultiplyStep, Binary
<1>3. CASE NegateStep(i) \/ AbsoluteStep(i)
  BY <1>3, NegateIsGood, AbsoluteIsGood, ResultInv DEF NegateStep, AbsoluteStep, Unary
<1>4. CASE DivideStep(i, j)
  BY <1>4, DivideIsGood, ResultInv DEF DivideStep, Binary
<1>5. CASE ModuloStep(i, j)
  BY <1>5, ModuloIsGood, ResultInv DEF ModuloStep, Binary
<1>6. CASE LessThanStep(i, j) \/ GreaterThanStep(i, j)
  BY <1>6, AnswersAreGood, ResultInv DEF LessThanStep, GreaterThanStep, Binary
<1>7. CASE EqualsStep(i, j) \/ NotEqualStep(i, j)
  BY <1>7, AnswersAreGood, ResultInv DEF EqualsStep, NotEqualStep, Comparison, Binary
<1>8. CASE LessThanOrEqualToStep(i, j) \/ GreaterThanOrEqualToStep(i, j)
  BY <1>8, AnswersAreGood, ResultInv
     DEF LessThanOrEqualToStep, GreaterThanOrEqualToStep, Comparison, Binary
<1>9. CASE NotStep(i) \/ AndStep(i, j) \/ OrStep(i, j)
  BY <1>9, AnswersAreGood, ResultInv DEF NotStep, AndStep, OrStep, Unary, Binary
<1>10. CASE LengthStep(i)
  BY <1>10, LengthIsGood, ResultInv DEF LengthStep, Unary
<1> QED BY <1>2, <1>3, <1>4, <1>5, <1>6, <1>7, <1>8, <1>9, <1>10 DEF Operation

LEMMA InductiveOperands == Spec => []OperandsInv
<1>1. OperandsInv /\ [Next]_vars => OperandsInv'
  <2> SUFFICES ASSUME OperandsInv, [Next]_vars PROVE OperandsInv'
    OBVIOUS
  <2>1. CASE Next
    BY <2>1, OperationInv DEF Next
  <2>2. CASE UNCHANGED vars
    BY <2>2 DEF vars, OperandsInv, AreValues, ResultsNotNull
  <2> QED BY <2>1, <2>2
<1> QED BY InitOperandsInv, <1>1, PTL DEF Spec

(* Whatever program of value operations is run, on whatever operands: each *)
(* operand and result is a well-formed value (an unknown that allows only  *)
(* one value has become it), and no operation ever produces null.          *)
THEOREM OperandsAreValues == Spec => []TypeOK
BY InductiveOperands, OperandsInvImpliesTypeOK, PTL

----------------------------------------------------------------------------
(* The order of operands.  Each pair of results is the same value; and a   *)
(* result stands for no more and no less than itself.                      *)

LEMMA WithinItself ==
  ASSUME NEW z, Plain(z)
  PROVE  Within(z, z)
<1>1. CASE z.known
  BY <1>1 DEF Within, Plain
<1>2. CASE ~z.known
  <2>1. RangeOf(z) = z.rfn
    BY <1>2 DEF RangeOf, IsNull
  <2> DEFINE r == z.rfn
  <2>2. LowerWithin(r, r) /\ UpperWithin(r, r)
    BY DEF LowerWithin, UpperWithin
  <2>3. r.kind \in {"nullable", "number"}
    BY <1>2 DEF Plain
  <2> HIDE DEF r
  <2>4. BoundsWithin(r, r)
    BY <2>2, <2>3 DEF BoundsWithin
  <2>5. RangeWithin(r, r)
    BY <2>4 DEF RangeWithin
  <2> QED BY <1>2, <2>1, <2>5 DEF Within, r
<1> QED BY <1>1, <1>2

LEMMA SameIfEqual ==
  ASSUME NEW a, NEW b, a = b, Good(a)
  PROVE  SameResult(a, b)
BY WithinItself DEF SameResult, Good

LEMMA SwapOperands ==
  ASSUME NEW required, NEW x, NEW y, NEW e, NEW f, NEW r, NEW q,
         Typed(required, x) /\ Typed(required, y) => e = f,
         Ready(required, x) /\ Ready(required, y) => r = q
  PROVE  TypeChecked(required, <<x, y>>, e, r) = TypeChecked(required, <<y, x>>, f, q)
<1> DEFINE xs == <<x, y>>
           ys == <<y, x>>
<1>1. /\ DOMAIN xs = {1, 2} /\ xs[1] = x /\ xs[2] = y
      /\ DOMAIN ys = {1, 2} /\ ys[1] = y /\ ys[2] = x
  OBVIOUS
<1> HIDE DEF xs, ys
<1>2. /\ Mismatch(required, xs) <=> Mismatch(required, ys)
      /\ ShortCircuit(xs) <=> ShortCircuit(ys)
      /\ AnyNull(xs) <=> AnyNull(ys)
  BY <1>1 DEF Mismatch, ShortCircuit, AnyNull
<1>3. ~Mismatch(required, xs) => Typed(required, x) /\ Typed(required, y)
  BY <1>1 DEF Mismatch, Typed
<1>4. ~Mismatch(required, xs) /\ ~ShortCircuit(xs) /\ ~AnyNull(xs)
        => Ready(required, x) /\ Ready(required, y)
  BY <1>1 DEF Mismatch, ShortCircuit, AnyNull, IsNull, Ready
<1>5. TypeChecked(required, xs, e, r) = TypeChecked(required, ys, f, q)
  BY <1>2, <1>3, <1>4 DEF TypeChecked
<1> QED BY <1>5 DEF xs, ys

LEMMA SwapSides ==
  ASSUME NEW x, NEW y
  PROVE  /\ Dynamic(<<x, y>>) <=> Dynamic(<<y, x>>)
         /\ ShortCircuit(<<x, y>>) <=> ShortCircuit(<<y, x>>)
         /\ \A required : Mismatch(required, <<x, y>>) <=> Mismatch(required, <<y, x>>)
<1> DEFINE xs == <<x, y>>
           ys == <<y, x>>
<1>1. /\ DOMAIN xs = {1, 2} /\ xs[1] = x /\ xs[2] = y
      /\ DOMAIN ys = {1, 2} /\ ys[1] = y /\ ys[2] = x
  OBVIOUS
<1> HIDE DEF xs, ys
<1>2. /\ Dynamic(xs) <=> Dynamic(ys)
      /\ ShortCircuit(xs) <=> ShortCircuit(ys)
      /\ \A required : Mismatch(required, xs) <=> Mismatch(required, ys)
  BY <1>1 DEF Dynamic, ShortCircuit, Mismatch
<1> QED BY <1>2 DEF xs, ys

LEMMA PlusCommutes == \A a, b \in Int : Plus(a, b) = Plus(b, a)
BY DEF Plus

LEMMA TimesCommutes == \A a, b \in Int : Times(a, b) = Times(b, a)
<1> TAKE a, b \in Int
<1>1. a * b = b * a
  OBVIOUS
<1>2. Sign(a) * Sign(b) = Sign(b) * Sign(a)
  BY SignIs
<1> QED BY <1>1, <1>2 DEF Times

LEMMA PlusRangeCommutes ==
  ASSUME NEW x, NEW y, IsValue(x), IsValue(y), Typed("number", x), Typed("number", y)
  PROVE  RangeArithmetic(Plus, x, y) = RangeArithmetic(Plus, y, x)
<1> DEFINE r == RangeOf(x)
           s == RangeOf(y)
           corners == {Plus(p[1], p[2]) : p \in BoundPairs(r, s)}
           swapped == {Plus(p[1], p[2]) : p \in BoundPairs(s, r)}
<1>1. /\ RangeArithmetic(Plus, x, y) =
           IF Dynamic(<<x, y>>) \/ Panicked \in corners THEN UnknownNotNull("number")
           ELSE NumberBetween(FSE!Min(corners), FSE!Max(corners))
      /\ RangeArithmetic(Plus, y, x) =
           IF Dynamic(<<y, x>>) \/ Panicked \in swapped THEN UnknownNotNull("number")
           ELSE NumberBetween(FSE!Min(swapped), FSE!Max(swapped))
  BY DEF RangeArithmetic
<1>2. ASSUME ~Dynamic(<<x, y>>) PROVE corners = swapped
  <2> DEFINE a == LowerBound(r)
             b == UpperBound(r)
             c == LowerBound(s)
             d == UpperBound(s)
  <2>1. a \in Int /\ b \in Int /\ c \in Int /\ d \in Int
    BY <1>2, OperandsOf, BoundsAreNumbers, NumberFacts
  <2>2. /\ BoundPairs(r, s) = {<<a, c>>, <<a, d>>, <<b, c>>, <<b, d>>}
        /\ BoundPairs(s, r) = {<<c, a>>, <<c, b>>, <<d, a>>, <<d, b>>}
    BY FourPairs
  <2> HIDE DEF a, b, c, d, r, s
  <2>3. /\ corners = {Plus(a, c), Plus(a, d), Plus(b, c), Plus(b, d)}
        /\ swapped = {Plus(c, a), Plus(c, b), Plus(d, a), Plus(d, b)}
    BY <2>2
  <2> HIDE DEF corners, swapped
  <2>4. Plus(a, c) = Plus(c, a) /\ Plus(a, d) = Plus(d, a) /\ Plus(b, c) = Plus(c, b) /\ Plus(b, d) = Plus(d, b)
    BY <2>1, PlusCommutes
  <2> QED BY <2>3, <2>4
<1> HIDE DEF corners, swapped
<1> QED BY <1>1, <1>2, SwapSides

LEMMA PlusArithmeticCommutes ==
  ASSUME NEW x, NEW y, IsValue(x), IsValue(y)
  PROVE  Arithmetic(Plus, x, y) = Arithmetic(Plus, y, x)
<1> DEFINE e == RangeArithmetic(Plus, x, y)
           f == RangeArithmetic(Plus, y, x)
           r == NumberResult(Plus(x.c, y.c))
           q == NumberResult(Plus(y.c, x.c))
<1>1. Typed("number", x) /\ Typed("number", y) => e = f
  BY PlusRangeCommutes
<1>2. Ready("number", x) /\ Ready("number", y) => r = q
  BY ReadyNumber, PlusCommutes
<1> HIDE DEF e, f, r, q
<1>3. TypeChecked("number", <<x, y>>, e, r) = TypeChecked("number", <<y, x>>, f, q)
  BY <1>1, <1>2, SwapOperands
<1> QED BY <1>3 DEF Arithmetic, e, f, r, q

LEMMA TimesRangeCommutes ==
  ASSUME NEW x, NEW y, IsValue(x), IsValue(y), Typed("number", x), Typed("number", y)
  PROVE  RangeArithmetic(Times, x, y) = RangeArithmetic(Times, y, x)
<1> DEFINE r == RangeOf(x)
           s == RangeOf(y)
           corners == {Times(p[1], p[2]) : p \in BoundPairs(r, s)}
           swapped == {Times(p[1], p[2]) : p \in BoundPairs(s, r)}
<1>1. /\ RangeArithmetic(Times, x, y) =
           IF Dynamic(<<x, y>>) \/ Panicked \in corners THEN UnknownNotNull("number")
           ELSE NumberBetween(FSE!Min(corners), FSE!Max(corners))
      /\ RangeArithmetic(Times, y, x) =
           IF Dynamic(<<y, x>>) \/ Panicked \in swapped THEN UnknownNotNull("number")
           ELSE NumberBetween(FSE!Min(swapped), FSE!Max(swapped))
  BY DEF RangeArithmetic
<1>2. ASSUME ~Dynamic(<<x, y>>) PROVE corners = swapped
  <2> DEFINE a == LowerBound(r)
             b == UpperBound(r)
             c == LowerBound(s)
             d == UpperBound(s)
  <2>1. a \in Int /\ b \in Int /\ c \in Int /\ d \in Int
    BY <1>2, OperandsOf, BoundsAreNumbers, NumberFacts
  <2>2. /\ BoundPairs(r, s) = {<<a, c>>, <<a, d>>, <<b, c>>, <<b, d>>}
        /\ BoundPairs(s, r) = {<<c, a>>, <<c, b>>, <<d, a>>, <<d, b>>}
    BY FourPairs
  <2> HIDE DEF a, b, c, d, r, s
  <2>3. /\ corners = {Times(a, c), Times(a, d), Times(b, c), Times(b, d)}
        /\ swapped = {Times(c, a), Times(c, b), Times(d, a), Times(d, b)}
    BY <2>2
  <2> HIDE DEF corners, swapped
  <2>4. Times(a, c) = Times(c, a) /\ Times(a, d) = Times(d, a) /\ Times(b, c) = Times(c, b) /\ Times(b, d) = Times(d, b)
    BY <2>1, TimesCommutes
  <2> QED BY <2>3, <2>4
<1> HIDE DEF corners, swapped
<1> QED BY <1>1, <1>2, SwapSides

LEMMA TimesArithmeticCommutes ==
  ASSUME NEW x, NEW y, IsValue(x), IsValue(y)
  PROVE  Arithmetic(Times, x, y) = Arithmetic(Times, y, x)
<1> DEFINE e == RangeArithmetic(Times, x, y)
           f == RangeArithmetic(Times, y, x)
           r == NumberResult(Times(x.c, y.c))
           q == NumberResult(Times(y.c, x.c))
<1>1. Typed("number", x) /\ Typed("number", y) => e = f
  BY TimesRangeCommutes
<1>2. Ready("number", x) /\ Ready("number", y) => r = q
  BY ReadyNumber, TimesCommutes
<1> HIDE DEF e, f, r, q
<1>3. TypeChecked("number", <<x, y>>, e, r) = TypeChecked("number", <<y, x>>, f, q)
  BY <1>1, <1>2, SwapOperands
<1> QED BY <1>3 DEF Arithmetic, e, f, r, q

LEMMA BooleansCommute ==
  ASSUME NEW x, NEW y, IsValue(x), IsValue(y)
  PROVE  And(x, y) = And(y, x) /\ Or(x, y) = Or(y, x)
<1>1. ASSUME Ready("bool", x), Ready("bool", y)
      PROVE  /\ Known("bool", x.c /\ y.c) = Known("bool", y.c /\ x.c)
             /\ Known("bool", x.c \/ y.c) = Known("bool", y.c \/ x.c)
  <2>1. x.c \in BOOLEAN /\ y.c \in BOOLEAN
    BY <1>1, ReadyBool
  <2>2. (x.c /\ y.c) = (y.c /\ x.c) /\ (x.c \/ y.c) = (y.c \/ x.c)
    BY <2>1
  <2> QED BY <2>2
<1>2. And(x, y) = And(y, x)
  <2> DEFINE e == IF IsFalse(x) \/ IsFalse(y) THEN False ELSE UnknownNotNull("bool")
             f == IF IsFalse(y) \/ IsFalse(x) THEN False ELSE UnknownNotNull("bool")
  <2>1. e = f
    OBVIOUS
  <2> HIDE DEF e, f
  <2>2. TypeChecked("bool", <<x, y>>, e, Known("bool", x.c /\ y.c))
          = TypeChecked("bool", <<y, x>>, f, Known("bool", y.c /\ x.c))
    BY <1>1, <2>1, SwapOperands
  <2> QED BY <2>2 DEF And, e, f
<1>3. Or(x, y) = Or(y, x)
  <2> DEFINE e == IF IsTrue(x) \/ IsTrue(y) THEN True ELSE UnknownNotNull("bool")
             f == IF IsTrue(y) \/ IsTrue(x) THEN True ELSE UnknownNotNull("bool")
  <2>1. e = f
    OBVIOUS
  <2> HIDE DEF e, f
  <2>2. TypeChecked("bool", <<x, y>>, e, Known("bool", x.c \/ y.c))
          = TypeChecked("bool", <<y, x>>, f, Known("bool", y.c \/ x.c))
    BY <1>1, <2>1, SwapOperands
  <2> QED BY <2>2 DEF Or, e, f
<1> QED BY <1>2, <1>3

LEMMA LessMirrorsGreater ==
  ASSUME NEW x, NEW y, IsValue(x), IsValue(y)
  PROVE  LessThan(x, y) = GreaterThan(y, x)
<1>1. ASSUME Ready("number", x), Ready("number", y)
      PROVE  Known("bool", x.c < y.c) = Known("bool", y.c > x.c)
  <2>1. x.c \in Int /\ y.c \in Int
    BY <1>1, ReadyNumber
  <2>2. (x.c < y.c) = (y.c > x.c)
    BY <2>1
  <2> QED BY <2>2
<1> DEFINE e == IF CertainlyLess(x, y) THEN True
                ELSE IF CertainlyLess(y, x) THEN False ELSE UnknownNotNull("bool")
<1>2. TypeChecked("number", <<x, y>>, e, Known("bool", x.c < y.c))
        = TypeChecked("number", <<y, x>>, e, Known("bool", y.c > x.c))
  <2> HIDE DEF e
  <2> QED BY <1>1, SwapOperands
<1> QED BY <1>2 DEF LessThan, GreaterThan

LEMMA EqualsCommutes == ASSUME NEW x, NEW y PROVE Equals(x, y) = Equals(y, x)
<1>1. EqualsKnown(x, y) = EqualsKnown(y, x)
  <2>1. /\ (IsNull(x) /\ IsNull(y)) = (IsNull(y) /\ IsNull(x))
        /\ (x.ty = y.ty /\ x.c = y.c) = (y.ty = x.ty /\ y.c = x.c)
    BY DEF IsNull
  <2> QED BY <2>1 DEF EqualsKnown
<1> QED BY <1>1 DEF Equals

LEMMA OrderIsIrrelevant ==
  ASSUME NEW x, NEW y, IsValue(x), IsValue(y)
  PROVE  /\ SameResult(Add(x, y), Add(y, x))
         /\ SameResult(Multiply(x, y), Multiply(y, x))
         /\ SameResult(And(x, y), And(y, x))
         /\ SameResult(Or(x, y), Or(y, x))
         /\ SameResult(LessThan(x, y), GreaterThan(y, x))
         /\ SameResult(Equals(x, y), Equals(y, x))
<1>1. Add(x, y) = Add(y, x)
  BY PlusArithmeticCommutes DEF Add
<1>2. Multiply(x, y) = Multiply(y, x)
  <2> DEFINE zero(a, b) == /\ ~Mismatch("number", <<a, b>>) /\ ShortCircuit(<<a, b>>)
                           /\ IsZeroItself(a) \/ IsZeroItself(b)
  <2>1. zero(x, y) <=> zero(y, x)
    BY SwapSides
  <2>2. /\ Multiply(x, y) = IF zero(x, y) THEN Literal(0) ELSE Arithmetic(Times, x, y)
        /\ Multiply(y, x) = IF zero(y, x) THEN Literal(0) ELSE Arithmetic(Times, y, x)
    BY DEF Multiply
  <2> HIDE DEF zero
  <2> QED BY <2>1, <2>2, TimesArithmeticCommutes
<1> QED BY <1>1, <1>2, BooleansCommute, LessMirrorsGreater, EqualsCommutes,
           AddIsGood, AnswersAreGood, SameIfEqual

(* The order in which operands are written never decides how much is known *)
(* of the result, whatever the program has computed: Add, Multiply, And,   *)
(* Or and Equals commute and LessThan mirrors GreaterThan, through the     *)
(* interval arithmetic and the range tests too.                            *)
THEOREM OrderNeverMatters == Spec => []OperandOrderIsIrrelevant
<1>1. OperandsInv => OperandOrderIsIrrelevant
  BY OrderIsIrrelevant DEF OperandsInv, AreValues, OperandOrderIsIrrelevant
<1> QED BY <1>1, InductiveOperands, PTL
=============================================================================
