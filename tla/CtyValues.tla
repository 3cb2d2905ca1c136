----------------------------- MODULE CtyValues -----------------------------
(***************************************************************************)
(* Types and values of cty as trees: primitive types, the dynamic          *)
(* pseudo-type, collections, tuples and objects, with null and unknown     *)
(* values and marks at every level (cty/type.go, *_type.go, value.go,      *)
(* value_init.go).  Capsule types are left out.                            *)
(***************************************************************************)
EXTENDS Integers, Sequences, FiniteSets

LOCAL SX == INSTANCE SequencesExt

CONSTANT Names  \* attribute names and map keys, in order, as a sequence

(* A type is a sequence of its kind and what it is made of, so that types  *)
(* of different kinds can be compared.                                     *)
Dynamic == <<"dynamic">>
Number == <<"number">>
String == <<"string">>
Bool == <<"bool">>
List(ety) == <<"list", ety>>
Set(ety) == <<"set", ety>>
Map(ety) == <<"map", ety>>
Tuple(etys) == <<"tuple", etys>>
Object(atys, optional) == <<"object", atys, optional>>

(* The type no unification has (NilType). *)
NilType == <<"nil">>

Kind(ty) == ty[1]
Elem(ty) == ty[2]
Etys(ty) == ty[2]
Atys(ty) == ty[2]
Optional(ty) == ty[3]
IsPrimitive(ty) == ty \in {Number, String, Bool}
IsCollection(ty) == Kind(ty) \in {"list", "set", "map"}

(* The types of a tuple, or of an object in the order of the names.        *)
InOrder(f) ==
  LET order == SelectSeq(Names, LAMBDA n : n \in DOMAIN f) IN
  [i \in DOMAIN order |-> f[order[i]]]

(* WithoutOptionalAttributesDeep. *)
RECURSIVE WithoutOptional(_)
WithoutOptional(ty) ==
  CASE IsCollection(ty) -> <<Kind(ty), WithoutOptional(Elem(ty))>>
    [] Kind(ty) = "tuple" -> Tuple([i \in DOMAIN Etys(ty) |-> WithoutOptional(Etys(ty)[i])])
    [] Kind(ty) = "object" ->
         Object([n \in DOMAIN Atys(ty) |-> WithoutOptional(Atys(ty)[n])], {})
    [] OTHER -> ty

(* TestConformance finds nothing to report. *)
RECURSIVE Conforms(_, _)
Conforms(ty, want) ==
  \/ want = Dynamic
  \/ ty = want
  \/ /\ Kind(ty) = Kind(want)
     /\ \/ IsCollection(ty) /\ Conforms(Elem(ty), Elem(want))
        \/ /\ Kind(ty) \in {"tuple", "object"}
           /\ DOMAIN ty[2] = DOMAIN want[2]
           /\ \A k \in DOMAIN ty[2] : Conforms(ty[2][k], want[2][k])

(* Does the dynamic pseudo-type occur in ty? *)
RECURSIVE HasDynamic(_)
HasDynamic(ty) ==
  \/ ty = Dynamic
  \/ IsCollection(ty) /\ HasDynamic(Elem(ty))
  \/ Kind(ty) \in {"tuple", "object"} /\ \E k \in DOMAIN ty[2] : HasDynamic(ty[2][k])

----------------------------------------------------------------------------
(* A value is of a type, is null, unknown in a range or known with its     *)
(* parts, and is marked.  The range of an unknown value says whether it    *)
(* may be null and bounds its length if it is a collection, or itself if   *)
(* it is a number, where a lower bound of zero is none, and for a string   *)
(* says how much is known of its beginning, which is one that no known     *)
(* string here has; the elements of a set are in the order in which they   *)
(* were added, where the code visits them in that of setRules.Less.        *)

Inf == 9  \* no upper bound of a length

Val(ty, is) == [ty |-> ty, is |-> is, marks |-> {}]
NullVal(ty) == Val(ty, <<"null">>)
UnknownIn(ty, notNull, lo, hi) == Val(ty, <<"unknown", notNull, lo, hi>>)
UnknownVal(ty) == UnknownIn(ty, FALSE, 0, Inf)
DynamicVal == UnknownVal(Dynamic)
Known(ty, parts) == Val(ty, <<Kind(ty), parts>>)

IsNull(v) == v.is[1] = "null"
IsUnknown(v) == v.is[1] = "unknown"
IsKnown(v) == ~IsNull(v) /\ ~IsUnknown(v)
NotNull(v) == v.is[2]
MinLen(v) == v.is[3]
MaxLen(v) == v.is[4]

(* The parts of a known value: a number, string or boolean, a sequence, or *)
(* a function from names.                                                  *)
Parts(v) == v.is[2]
HasParts(v) == IsKnown(v) /\ ~IsPrimitive(v.ty)
PartsOf(v) == IF HasParts(v) THEN {Parts(v)[k] : k \in DOMAIN Parts(v)} ELSE {}

RECURSIVE DeepMarks(_), Unmarked(_), IsWhollyKnown(_)
DeepMarks(v) == v.marks \cup UNION {DeepMarks(p) : p \in PartsOf(v)}

(* UnmarkDeep. *)
Unmarked(v) ==
  IF HasParts(v) THEN Known(v.ty, [k \in DOMAIN Parts(v) |-> Unmarked(Parts(v)[k])])
                 ELSE [v EXCEPT !.marks = {}]

IsWhollyKnown(v) == ~IsUnknown(v) /\ \A p \in PartsOf(v) : IsWhollyKnown(p)

WithMarks(v, marks) == [v EXCEPT !.marks = @ \cup marks]

(* The type of the elements of a collection made of these parts, and       *)
(* whether they can make one (CanListVal, CanSetVal, CanMapVal).           *)
ElementType(parts) ==
  LET tys == {parts[k].ty : k \in DOMAIN parts} \ {Dynamic} IN
  IF tys = {} THEN Dynamic ELSE CHOOSE ty \in tys : TRUE
CanCollect(parts) == Cardinality({parts[k].ty : k \in DOMAIN parts} \ {Dynamic}) <= 1

(* Parts of the dynamic pseudo-type become parts of the element type.      *)
Typed(parts) == [k \in DOMAIN parts |-> [parts[k] EXCEPT !.ty = ElementType(parts)]]

ListVal(parts) == Known(List(ElementType(parts)), Typed(parts))
MapVal(parts) == Known(Map(ElementType(parts)), Typed(parts))

(* A set drops an element that it is known to have, and takes all marks.   *)
(* The first definition is a faulty variant that loses the marks.          *)
SetValUnmarked(parts) ==
  Known(Set(ElementType(parts)), [i \in DOMAIN parts |-> Unmarked(Typed(parts)[i])])
SetVal(parts) ==
  LET add(acc, e) == IF IsWhollyKnown(e) /\ e \in SX!ToSet(acc) THEN acc
                                                               ELSE Append(acc, e)
      plain == [i \in DOMAIN parts |-> Unmarked(Typed(parts)[i])]
  IN WithMarks(Known(Set(ElementType(parts)), SX!FoldLeft(add, << >>, plain)),
               UNION {DeepMarks(parts[i]) : i \in DOMAIN parts})

TupleVal(parts) == Known(Tuple([i \in DOMAIN parts |-> parts[i].ty]), parts)
ObjectVal(parts) == Known(Object([n \in DOMAIN parts |-> parts[n].ty], {}), parts)

(* The bounds of the length of a collection that is not null.              *)
Length(v) ==
  CASE IsUnknown(v) -> <<MinLen(v), MaxLen(v)>>
    [] Kind(v.ty) = "set" /\ ~IsWhollyKnown(v) -> <<1, Len(Parts(v))>>
    [] Kind(v.ty) \in {"map", "object"} ->
         LET n == Cardinality(DOMAIN Parts(v)) IN <<n, n>>
    [] OTHER -> <<Len(Parts(v)), Len(Parts(v))>>
LengthKnown(v) == Length(v)[1] = Length(v)[2]

(* A collection with no elements. *)
Empty(ty) == Known(ty, IF Kind(ty) = "map" THEN [n \in {} |-> DynamicVal] ELSE << >>)

(* An unknown value refined so far; enough refinement makes it known.      *)
Refined(ty, notNull, lo, hi) ==
  IF ty = Dynamic THEN DynamicVal
  ELSE IF ~notNull \/ lo # hi \/ ~(IsCollection(ty) \/ ty = Number)
    THEN UnknownIn(ty, notNull, lo, hi)
  ELSE IF ty = Number THEN Known(ty, lo)
  ELSE IF lo = 0 THEN Empty(ty)
  ELSE IF Kind(ty) = "list" \/ (Kind(ty) = "set" /\ lo = 1)
    THEN Known(ty, [i \in 1 .. lo |-> UnknownVal(Elem(ty))])
  ELSE UnknownIn(ty, notNull, lo, hi)

----------------------------------------------------------------------------

(* A value is built as its type says.                                      *)
RECURSIVE WellFormed(_)
WellFormed(v) ==
  /\ IsUnknown(v) => MinLen(v) <= MaxLen(v)
  /\ HasParts(v) =>
       \A k \in DOMAIN Parts(v) :
         /\ WellFormed(Parts(v)[k])
         /\ Parts(v)[k].ty = IF IsCollection(v.ty) THEN Elem(v.ty) ELSE v.ty[2][k]

(* A number is in the range of an unknown one.                             *)
InBounds(n, e) == (MinLen(e) = 0 \/ MinLen(e) <= n) /\ (MaxLen(e) = Inf \/ n <= MaxLen(e))

(* What is known of v agrees with what was said of it before, e.           *)
RECURSIVE Within(_, _)
Within(v, e) ==
  /\ Conforms(v.ty, e.ty) /\ e.marks \subseteq v.marks
  /\ CASE IsUnknown(e) ->
            /\ NotNull(e) => ~IsNull(v) /\ (IsUnknown(v) => NotNull(v))
            /\ IsCollection(e.ty) /\ ~IsNull(v) =>
                 MinLen(e) <= Length(v)[1] /\ Length(v)[2] <= MaxLen(e)
            /\ e.ty = Number /\ ~IsNull(v) =>
                 IF IsKnown(v) THEN InBounds(Parts(v), e)
                 ELSE MinLen(e) <= MinLen(v) /\ MaxLen(v) <= MaxLen(e)
            /\ e.ty = String /\ ~IsNull(v) =>
                 MinLen(e) <= IF IsUnknown(v) THEN MinLen(v) ELSE 0
       [] IsNull(e) -> IsNull(v)
       [] IsPrimitive(e.ty) -> v.is = e.is
       [] Kind(e.ty) = "set" ->
            /\ IsKnown(v) /\ Len(Parts(v)) <= Len(Parts(e))
            /\ \A i \in DOMAIN Parts(e) :
                 \E j \in DOMAIN Parts(v) : Within(Parts(v)[j], Parts(e)[i])
            /\ \A j \in DOMAIN Parts(v) :
                 \E i \in DOMAIN Parts(e) : Within(Parts(v)[j], Parts(e)[i])
       [] OTHER ->
            /\ IsKnown(v) /\ DOMAIN Parts(v) = DOMAIN Parts(e)
            /\ \A k \in DOMAIN Parts(e) : Within(Parts(v)[k], Parts(e)[k])
=============================================================================
