----------------------------- MODULE ValueOps -----------------------------
(***************************************************************************)
(* The operations on cty values (cty/value_ops.go) and on value ranges     *)
(* (cty/value_range.go), for operands that may be unknown and refined.     *)
(* Pure operators: each takes the operands' values and gives the result's  *)
(* value, or Panicked.                                                     *)
(*                                                                         *)
(* A known list or set is abstracted to its length: take every list to     *)
(* hold copies of one element, and every set the first elements of one     *)
(* sequence.  whole is FALSE for a set with unknown elements, whose c is   *)
(* the length of its physical store.  lit is TRUE of the package variables *)
(* Zero, PositiveInfinity and NegativeInfinity themselves, which the code  *)
(* recognises by pointer.  The bounds inside a refinement are never taken  *)
(* to be one of those variables.                                           *)
(***************************************************************************)
EXTENDS Refinement

FSE == INSTANCE FiniteSetsExt

CONSTANT Panicked   \* in place of a result: the operation panicked

ASSUME SymmetricAssumption == NegInf = -PosInf

OperandTypes == {"number", "bool", "list", "set", "dynamic"}

(* Panicked is no result, and Null none of the concrete values. *)
KnownShape ==
  [ty : OperandTypes, known : {TRUE}, c : Int \cup BOOLEAN \cup {Null},
   whole : BOOLEAN, lit : BOOLEAN]
UnknownShape ==
  [ty : OperandTypes, known : {FALSE},
   rfn : RefinementNullable \cup
         [kind : {"number"}, null : Tristate, min : Int \cup {NilVal}, minInc : BOOLEAN,
          max : Int \cup {NilVal}, maxInc : BOOLEAN]]

ASSUME MarkersAssumption ==
  /\ Panicked \notin Int \cup KnownShape \cup UnknownShape
  /\ Null \notin Int /\ Null \notin BOOLEAN

(* Bool has no refinements beyond nullness. *)
RefinedAs(ty) == IF ty = "bool" THEN "other" ELSE ty

Known(ty, c) ==
  [ty |-> ty, known |-> TRUE, c |-> c, whole |-> TRUE, lit |-> FALSE]
Literal(c) == [Known("number", c) EXCEPT !.lit = TRUE]
PartialSet(n) == [Known("set", n) EXCEPT !.whole = FALSE]
Unknown(ty, r) == [ty |-> ty, known |-> FALSE, rfn |-> r]

(* UnknownVal: a nil refinement reads as an unconstrained refinementNullable. *)
UnknownVal(ty) == Unknown(ty, [kind |-> "nullable", null |-> "U"])
DynamicVal == UnknownVal("dynamic")

True == Known("bool", TRUE)
False == Known("bool", FALSE)

NotNull(r) == [r EXCEPT !.null = "F"]

(* NewValue, for an unknown of type ty with refinement r.                  *)
NewValue(ty, r) ==
  IF Collapses(RefinedAs(ty), r) THEN Known(ty, CollapsedTo(r))
                                 ELSE Unknown(ty, r)

(* UnknownVal(ty).RefineNotNull() *)
UnknownNotNull(ty) == Unknown(ty, NotNull(Fresh(RefinedAs(ty))))

IsNull(x) == x.known /\ x.c = Null
IsTrue(x) == x.known /\ x.c = TRUE
IsFalse(x) == x.known /\ x.c = FALSE

DefinitelyNotNull(x) == IF x.known THEN ~IsNull(x) ELSE x.rfn.null = "F"

----------------------------------------------------------------------------
(* mustTypeCheck on the operands xs: a mismatch panics, even when another  *)
(* operand is unknown; an unknown or dynamically typed operand gives the   *)
(* early return; a null that reaches the computation itself panics.        *)
Mismatch(required, xs) ==
  \E i \in DOMAIN xs : xs[i].ty \notin {required, "dynamic"}
ShortCircuit(xs) == \E i \in DOMAIN xs : xs[i].ty = "dynamic" \/ ~xs[i].known
Dynamic(xs) == \E i \in DOMAIN xs : xs[i].ty = "dynamic"
AnyNull(xs) == \E i \in DOMAIN xs : IsNull(xs[i])

TypeChecked(required, xs, early, computed) ==
  IF Mismatch(required, xs) THEN Panicked
  ELSE IF ShortCircuit(xs) THEN early
  ELSE IF AnyNull(xs) THEN Panicked ELSE computed

----------------------------------------------------------------------------
(* Value.Length and Value.Range.                                           *)

LengthBounds(r) ==
  IF r.kind = "collection" THEN <<r.minLen, r.maxLen>> ELSE <<0, MaxInt>>

(* An unknown number, not null, between two inclusive bounds. *)
NumberBetween(lo, hi) ==
  NewValue("number",
    NotNull(WithMax(WithMin(Fresh("number"), lo, TRUE), hi, TRUE)))

Length(x) ==
  IF x.ty \in {"number", "bool"} \/ (x.known /\ (IsNull(x) \/ x.ty = "dynamic"))
    THEN Panicked
  ELSE IF x.known /\ (x.whole \/ x.c = 1) THEN Known("number", x.c)
  ELSE LET b == IF x.known THEN <<1, x.c>> ELSE LengthBounds(x.rfn) IN
       NumberBetween(b[1], b[2])

(* The refinement that describes a value, known or not. *)
RangeOf(x) ==
  CASE ~x.known  -> x.rfn
    [] IsNull(x) -> [kind |-> "nullable", null |-> "T"]
    [] x.known /\ ~IsNull(x) /\ x.ty = "number" ->
         [kind |-> "number", null |-> "F",
          min |-> x.c, minInc |-> TRUE, max |-> x.c, maxInc |-> TRUE]
    [] x.known /\ ~IsNull(x) /\ x.ty \in CollectionTypes ->
         IF Length(x).known
           THEN [NotNull(Fresh(x.ty)) EXCEPT !.minLen = x.c, !.maxLen = x.c]
           ELSE NotNull(Fresh(x.ty))
    [] OTHER -> [kind |-> "nullable", null |-> "F"]

(* NumberLowerBound and NumberUpperBound of a range whose type is Number. *)
LowerBound(r) ==
  IF r.kind = "number" /\ r.min # NilVal THEN r.min ELSE NegInf
UpperBound(r) ==
  IF r.kind = "number" /\ r.max # NilVal THEN r.max ELSE PosInf

(* Their second result, the inclusive flag: an absent bound is exclusive.  *)
(* The first definition is a faulty variant that ignores the flag.         *)
NeverInclusive(r) == FALSE
LowerInclusive(r) == r.kind = "number" /\ r.min # NilVal /\ r.minInc
UpperInclusive(r) == r.kind = "number" /\ r.max # NilVal /\ r.maxInc

----------------------------------------------------------------------------
(* big.Float arithmetic.  Panicked stands for its ErrNaN panic.            *)

Infinite(a) == a \in {NegInf, PosInf}
Sign(a) == IF a < 0 THEN -1 ELSE IF a > 0 THEN 1 ELSE 0

Plus(a, b) ==
  IF Infinite(a) /\ Infinite(b) /\ a # b THEN Panicked
  ELSE IF Infinite(a) THEN a ELSE IF Infinite(b) THEN b ELSE a + b

Minus(a, b) == Plus(a, -b)

Times(a, b) ==
  IF ~Infinite(a) /\ ~Infinite(b) THEN a * b
  ELSE IF 0 \in {a, b} THEN Panicked ELSE Sign(a) * Sign(b) * PosInf

(* Towards zero, as big.Float.Int does. *)
Truncate(a, b) == Sign(a) * Sign(b) * ((Sign(a) * a) \div (Sign(b) * b))

Quotient(a, b) ==
  IF Infinite(a) /\ Infinite(b) THEN Panicked
  ELSE IF Infinite(a) THEN Sign(a) * Sign(b) * PosInf
  ELSE IF Infinite(b) THEN 0 ELSE Truncate(a, b)

----------------------------------------------------------------------------
(* Arithmetic.                                                             *)

NumberResult(n) == IF n = Panicked THEN Panicked ELSE Known("number", n)

(* The corners that numericRangeArithmetic looks at.  The first definition *)
(* is a faulty variant that looks at two, as if every operation were       *)
(* increasing in both operands.                                            *)
BoundPairsInOrder(r, s) ==
  {<<LowerBound(r), LowerBound(s)>>, <<UpperBound(r), UpperBound(s)>>}

BoundPairs(r, s) ==
  {LowerBound(r), UpperBound(r)} \X {LowerBound(s), UpperBound(s)}

(* numericRangeArithmetic: the least and greatest of the four corners, no  *)
(* bound being set if a corner is unknown, because its arithmetic panicked *)
(* or because an operand is dynamically typed.                             *)
RangeArithmetic(op(_, _), x, y) ==
  LET corners == {op(p[1], p[2]) : p \in BoundPairs(RangeOf(x), RangeOf(y))} IN
  IF Dynamic(<<x, y>>) \/ Panicked \in corners
    THEN UnknownNotNull("number")
    ELSE NumberBetween(FSE!Min(corners), FSE!Max(corners))

(* The shape of Add, Subtract and, apart from its shortcut, Multiply. *)
Arithmetic(op(_, _), x, y) ==
  TypeChecked("number", <<x, y>>, RangeArithmetic(op, x, y),
              NumberResult(op(x.c, y.c)))

Add(x, y) == Arithmetic(Plus, x, y)
Subtract(x, y) == Arithmetic(Minus, x, y)

IsZeroItself(x) == x.ty = "number" /\ x.known /\ x.lit /\ x.c = 0

(* Faulty variant: only the receiver is tested for zero. *)
MultiplyLeftZero(x, y) ==
  IF ~Mismatch("number", <<x, y>>) /\ ShortCircuit(<<x, y>>) /\ IsZeroItself(x)
    THEN Literal(0) ELSE Arithmetic(Times, x, y)

Multiply(x, y) ==
  IF /\ ~Mismatch("number", <<x, y>>) /\ ShortCircuit(<<x, y>>)
     /\ IsZeroItself(x) \/ IsZeroItself(y)
    THEN Literal(0) ELSE Arithmetic(Times, x, y)

(* Faulty variant whose result may be null. *)
NegateNullable(x) ==
  TypeChecked("number", <<x>>, UnknownVal("number"), Known("number", -x.c))

Negate(x) ==
  TypeChecked("number", <<x>>, UnknownNotNull("number"), Known("number", -x.c))

Divide(x, y) ==
  TypeChecked("number", <<x, y>>, UnknownNotNull("number"),
              NumberResult(Quotient(x.c, y.c)))

Absolute(x) ==
  TypeChecked("number", <<x>>, NumberBetween(0, PosInf),
              Known("number", Sign(x.c) * x.c))

(* Modulo of known numbers.  Only the infinities themselves are recognised *)
(* as such; any other infinite value has no integer part and panics.       *)
KnownModulo(x, y) ==
  IF \E z \in {x, y} : z.lit /\ Infinite(z.c) THEN Multiply(x, y)
  ELSE IF y.c = 0 THEN x
  ELSE IF Infinite(x.c) \/ Infinite(y.c) THEN Panicked
  ELSE Known("number", x.c - y.c * Truncate(x.c, y.c))

Modulo(x, y) ==
  TypeChecked("number", <<x, y>>, UnknownNotNull("number"), KnownModulo(x, y))

----------------------------------------------------------------------------
(* Boolean operations.                                                     *)

Not(x) == TypeChecked("bool", <<x>>, UnknownNotNull("bool"), Known("bool", ~x.c))

And(x, y) ==
  TypeChecked("bool", <<x, y>>,
    IF IsFalse(x) \/ IsFalse(y) THEN False ELSE UnknownNotNull("bool"),
    Known("bool", x.c /\ y.c))

Or(x, y) ==
  TypeChecked("bool", <<x, y>>,
    IF IsTrue(x) \/ IsTrue(y) THEN True ELSE UnknownNotNull("bool"),
    Known("bool", x.c \/ y.c))

----------------------------------------------------------------------------
(* Order.  Only the bounds are compared, and always as if exclusive.       *)

CertainlyLess(x, y) ==
  ~Dynamic(<<x, y>>) /\ UpperBound(RangeOf(x)) < LowerBound(RangeOf(y))

LessThan(x, y) ==
  TypeChecked("number", <<x, y>>,
    IF CertainlyLess(x, y) THEN True
    ELSE IF CertainlyLess(y, x) THEN False ELSE UnknownNotNull("bool"),
    Known("bool", x.c < y.c))

GreaterThan(x, y) ==
  TypeChecked("number", <<x, y>>,
    IF CertainlyLess(y, x) THEN True
    ELSE IF CertainlyLess(x, y) THEN False ELSE UnknownNotNull("bool"),
    Known("bool", x.c > y.c))

(* strict.Or(equal), where computing strict may panic. *)
OrEqual(strict, equal) ==
  IF strict = Panicked THEN Panicked ELSE Or(strict, equal)

----------------------------------------------------------------------------
(* Equals and Includes call each other, but Equals asks Includes only of a *)
(* known value, and Includes then compares known numbers alone.  So the    *)
(* recursion unrolls: each is written with the other as a parameter.       *)

(* Equals of known values.  Of two sets, an unknown element in either      *)
(* leaves the answer open, whatever the other elements are.                *)
EqualsKnown(x, y) ==
  IF IsNull(x) \/ IsNull(y) THEN Known("bool", IsNull(x) /\ IsNull(y))
  ELSE IF x.ty = "set" /\ y.ty = "set" /\ ~(x.whole /\ y.whole)
    THEN UnknownNotNull("bool")
  ELSE Known("bool", x.ty = y.ty /\ x.c = y.c)

(* The definite disproofs that Includes makes from the refinement. *)
OutsideRefinement(ty, r, v, equal(_, _)) ==
  CASE r.kind = "nullable" -> FALSE
    [] r.kind = "number" ->
         LET lo == Known("number", LowerBound(r))
             hi == Known("number", UpperBound(r))
             above == GreaterThan(v, lo)
             below == LessThan(v, hi)
         IN \/ IsFalse(IF LowerInclusive(r) THEN OrEqual(above, equal(v, lo))
                                            ELSE above)
            \/ IsFalse(IF UpperInclusive(r) THEN OrEqual(below, equal(v, hi))
                                            ELSE below)
    [] r.kind = "collection" ->
         LET n  == Length(v)
             lo == Known("number", r.minLen)
             hi == Known("number", r.maxLen)
         IN \/ IsFalse(OrEqual(GreaterThan(n, lo), equal(n, lo)))
            \/ IsFalse(OrEqual(LessThan(n, hi), equal(n, hi)))

Includes(ty, r, v, equal(_, _)) ==
  CASE r.null = "T" -> Known("bool", IsNull(v))
    [] r.null # "T" /\ IsNull(v) -> Known("bool", r.null = "U")
    [] r.null # "T" /\ ~IsNull(v) ->
         IF ty # "dynamic" /\ v.ty # ty THEN False
         ELSE IF v.ty # "dynamic" /\ OutsideRefinement(ty, r, v, equal)
           THEN False
         ELSE UnknownNotNull("bool")

(* x's range excludes the known y, or the other way round. *)
Excludes(x, y) ==
  ~x.known /\ y.known /\ IsFalse(Includes(x.ty, x.rfn, y, EqualsKnown))

(* One operand is known and the other an unknown of another type; a null   *)
(* is equal to the null of any type.                                       *)
TypesDiffer(x, y) ==
  ~x.known /\ y.known /\ x.ty # "dynamic" /\ ~IsNull(y) /\ x.ty # y.ty

Equals(x, y) ==
  IF x.known /\ y.known THEN EqualsKnown(x, y)
  ELSE IF \/ IsNull(x) /\ DefinitelyNotNull(y)
          \/ IsNull(y) /\ DefinitelyNotNull(x)
          \/ Excludes(x, y) \/ Excludes(y, x)
          \/ TypesDiffer(x, y) \/ TypesDiffer(y, x)
    THEN False
  ELSE UnknownNotNull("bool")

NotEqual(x, y) == Not(Equals(x, y))

LessThanOrEqualTo(x, y) == OrEqual(LessThan(x, y), Equals(x, y))
GreaterThanOrEqualTo(x, y) == OrEqual(GreaterThan(x, y), Equals(x, y))

(* x.Range().Includes(v) *)
RangeIncludes(x, v) == Includes(x.ty, RangeOf(x), v, Equals)
=============================================================================
