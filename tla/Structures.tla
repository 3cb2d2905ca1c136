----------------------------- MODULE Structures -----------------------------
(***************************************************************************)
(* The operations of Value on values with parts (cty/value_ops.go):        *)
(* equality, attributes, elements, membership and length, each with what   *)
(* it says of values that are unknown, or unknown in part.                 *)
(***************************************************************************)
EXTENDS Conversion

LOCAL INSTANCE TLC
LOCAL SX == INSTANCE SequencesExt

BoolVal(b) == Known(Bool, b)
NumberVal(n) == Known(Number, n)
UnknownBool == UnknownIn(Bool, TRUE, 0, Inf)
Panic == Failure("panic")
Unmark(v) == [v EXCEPT !.marks = {}]

(* The elements of a known value in the order of its iterator: those of a  *)
(* set of numbers by value, unknown and then null ones last; sets of other *)
(* types have an order of their own, here that in which they were built.   *)
Rank(v) == IF IsNull(v) THEN 2 ELSE IF IsUnknown(v) THEN 1 ELSE 0
Less(v, w) ==
  IF Rank(v) = 0 /\ Rank(w) = 0 THEN Parts(v) < Parts(w) ELSE Rank(v) < Rank(w)
AsValueSlice(v) ==
  CASE v.ty = Set(Number) -> SortSeq(Parts(v), Less)
    [] Kind(v.ty) \in {"map", "object"} -> InOrder(Parts(v))
    [] OTHER -> Parts(v)

(* No part of v is a placeholder whose very type is still open.            *)
RECURSIVE HasWhollyKnownType(_)
HasWhollyKnownType(v) ==
  IF IsUnknown(v) THEN ~HasDynamic(v.ty) ELSE \A p \in PartsOf(v) : HasWhollyKnownType(p)

----------------------------------------------------------------------------
(* Equality: "yes", "no" or "open".                                        *)

Answer(a) == IF a = "open" THEN UnknownBool ELSE BoolVal(a = "yes")
Decided(b) == IF b THEN "yes" ELSE "no"

(* The range of the unknown u denies the known value v (ValueRange's       *)
(* Includes).  No known string here begins as an unknown one may have to.  *)
Denies(u, v) ==
  IF IsNull(v) THEN NotNull(u)
  ELSE \/ ~Conforms(v.ty, u.ty)
       \/ IsCollection(u.ty) /\ (Length(v)[2] < MinLen(u) \/ MaxLen(u) < Length(v)[1])
       \/ u.ty = Number /\ ~InBounds(Parts(v), u)
       \/ u.ty = String /\ MinLen(u) > 0

CompareWithUnknown(v, u) ==
  CASE Denies(u, v) -> "no"
    [] ~Denies(u, v) /\ (IsNull(v) \/ HasDynamic(u.ty) \/ v.ty = u.ty) -> "open"
    [] OTHER -> "no"

(* What the answers for the parts say together.  Those of lists and tuples *)
(* are heard up to the first that is not yes.  The attributes of objects   *)
(* and the elements of maps are visited in an order that Go chooses: one   *)
(* that is open is remembered, one that is not equal ends it.  The second  *)
(* definition is a faulty variant that ends it at an open one, too.        *)
UpToFirst(answers) == Head(SelectSeq(answers, LAMBDA a : a # "yes") \o <<"yes">>)
VisitedUpToFirst(answers, order) == UpToFirst([i \in DOMAIN order |-> answers[order[i]]])
Visited(answers, order) ==
  SX!FoldLeft(LAMBDA sofar, k : IF sofar = "no" \/ answers[k] = "yes" THEN sofar ELSE answers[k],
              "yes", order)
InSomeOrder(answers) == Visited(answers, SelectSeq(Names, LAMBDA n : n \in DOMAIN answers))

RECURSIVE Compare(_, _)

CompareParts(v, w) == [k \in DOMAIN Parts(v) |-> Compare(Parts(v)[k], Parts(w)[k])]

(* An element with unknown parts is equivalent to none, itself included.   *)
Has(members, e) == \E i \in DOMAIN members : Compare(members[i], e) = "yes"
CompareSets(s, t) ==
  IF \E i \in DOMAIN (s \o t) : IsUnknown((s \o t)[i]) THEN "open"
  ELSE Decided(/\ \A i \in DOMAIN s : Has(t, s[i])
               /\ \A i \in DOMAIN t : Has(s, t[i]))

CompareKnown(v, w) ==
  CASE IsPrimitive(v.ty) -> Decided(v.is = w.is)
    [] Kind(v.ty) = "set" -> CompareSets(Parts(v), Parts(w))
    [] DOMAIN Parts(v) # DOMAIN Parts(w) -> "no"
    [] Kind(v.ty) \in {"object", "map"} -> InSomeOrder(CompareParts(v, w))
    [] Kind(v.ty) \in {"tuple", "list"} -> UpToFirst(CompareParts(v, w))

CompareNonNull(v, w) ==
  IF ~HasWhollyKnownType(v) \/ ~HasWhollyKnownType(w)
    THEN IF Conforms(v.ty, w.ty) \/ Conforms(w.ty, v.ty) THEN "open" ELSE "no"
  ELSE IF v.ty # w.ty THEN "no"
  ELSE CompareKnown(v, w)

(* Equals, of values without marks. *)
Compare(v, w) ==
  CASE IsUnknown(v) /\ IsUnknown(w) -> "open"
    [] IsUnknown(w) /\ ~IsUnknown(v) -> CompareWithUnknown(v, w)
    [] IsUnknown(v) /\ ~IsUnknown(w) -> CompareWithUnknown(w, v)
    [] IsNull(v) \/ IsNull(w) -> Decided(IsNull(v) /\ IsNull(w))
    [] OTHER -> CompareNonNull(v, w)

(* Of a value that is null and one that is not, the marks of parts do not  *)
(* matter.                                                                 *)
MarksOfBoth(v, w) ==
  IF IsNull(v) # IsNull(w) THEN v.marks \cup w.marks ELSE DeepMarks(v) \cup DeepMarks(w)
Equals(v, w) == WithMarks(Answer(Compare(Unmarked(v), Unmarked(w))), MarksOfBoth(v, w))

(* The same value in every respect (RawEquals); sets hold the same         *)
(* elements, compared in their order.                                      *)
RECURSIVE RawEquals(_, _)
RawEquals(v, w) ==
  /\ v.ty = w.ty /\ v.marks = w.marks
  /\ IF ~HasParts(v) \/ ~HasParts(w) THEN v.is = w.is
     ELSE LET p == AsValueSlice(v) q == AsValueSlice(w) IN
          /\ DOMAIN Parts(v) = DOMAIN Parts(w)
          /\ \A i \in DOMAIN p : RawEquals(p[i], q[i])

Not(v) == IF IsUnknown(v) THEN [UnknownBool EXCEPT !.marks = v.marks]
          ELSE WithMarks(BoolVal(~Parts(v)), v.marks)

----------------------------------------------------------------------------
(* Attributes and elements.  An index counts from zero.                    *)

GetAttr(v, name) ==
  Remarked(
    CASE v.ty = Dynamic -> DynamicVal
      [] Kind(v.ty) # "object" /\ v.ty # Dynamic -> Panic
      [] Kind(v.ty) = "object" ->
           IF name \notin DOMAIN Atys(v.ty) \/ IsNull(v) THEN Panic
           ELSE IF IsUnknown(v) THEN UnknownVal(Atys(v.ty)[name])
           ELSE Parts(v)[name],
    v.marks)

Indexable == {"list", "map", "tuple"}
KeyType(ty) == IF Kind(ty) = "map" THEN String ELSE Number
Position(v, key) == IF Kind(v.ty) = "map" THEN Parts(key) ELSE Parts(key) + 1

(* Which element a key that is not known stands for is open, and with it   *)
(* the type of an element of a tuple.                                      *)
SomeElement(ty) == IF Kind(ty) = "tuple" THEN DynamicVal ELSE UnknownVal(Elem(ty))
ElementAt(v, key) ==
  IF Kind(v.ty) = "tuple" /\ (IsNull(key) \/ Position(v, key) \notin DOMAIN Etys(v.ty)) THEN Panic
  ELSE IF IsUnknown(v) THEN UnknownVal(IF Kind(v.ty) = "tuple" THEN Etys(v.ty)[Position(v, key)]
                                                               ELSE Elem(v.ty))
  ELSE IF IsNull(v) \/ IsNull(key) THEN Panic
  ELSE IF Position(v, key) \in DOMAIN Parts(v) THEN Parts(v)[Position(v, key)]
  ELSE IF Kind(v.ty) = "map" THEN NullVal(Elem(v.ty)) ELSE Panic
Index(v, key) ==
  Remarked(
    CASE v.ty = Dynamic -> DynamicVal
      [] v.ty # Dynamic /\ Kind(v.ty) \notin Indexable -> Panic
      [] Kind(v.ty) \in Indexable ->
           IF key.ty = Dynamic THEN SomeElement(v.ty)
           ELSE IF key.ty # KeyType(v.ty) THEN Panic
           ELSE IF IsUnknown(key) THEN SomeElement(v.ty)
           ELSE ElementAt(v, key),
    v.marks \cup key.marks)

HasElementAt(v, key) ==
  CASE Kind(v.ty) = "tuple" /\ ~IsNull(key) -> BoolVal(Position(v, key) \in DOMAIN Etys(v.ty))
    [] Kind(v.ty) # "tuple" /\ IsUnknown(v) -> UnknownBool
    [] Kind(v.ty) # "tuple" /\ IsKnown(v) /\ ~IsNull(key) ->
         BoolVal(Position(v, key) \in DOMAIN Parts(v))
    [] OTHER -> Panic
HasIndex(v, key) ==
  Remarked(
    CASE v.ty = Dynamic -> UnknownBool
      [] v.ty # Dynamic /\ Kind(v.ty) \notin Indexable -> Panic
      [] Kind(v.ty) \in Indexable ->
           IF key.ty = Dynamic THEN UnknownBool
           ELSE IF key.ty # KeyType(v.ty) THEN BoolVal(FALSE)
           ELSE IF IsUnknown(key) THEN UnknownBool
           ELSE HasElementAt(v, key),
    v.marks \cup key.marks)

(* What is not found among unknown elements may still be one of them.  The *)
(* first definition is a faulty variant that does not look for these.  No  *)
(* hash is taken of a value whose parts are marked.                        *)
NoMatchAtAll(s) == BoolVal(FALSE)
NoMatchResult(s) == IF IsWhollyKnown(s) THEN BoolVal(FALSE) ELSE UnknownBool
HasElement(s, e) ==
  Remarked(
    CASE IsNull(s) -> Panic
      [] IsUnknown(s) -> UnknownBool
      [] IsKnown(s) ->
           IF Kind(s.ty) # "set" THEN Panic
           ELSE IF e.ty # Dynamic /\ Elem(s.ty) # Dynamic /\ e.ty # Elem(s.ty) THEN BoolVal(FALSE)
           ELSE IF IsUnknown(e) THEN UnknownBool
           ELSE IF e.ty # Elem(s.ty) THEN BoolVal(FALSE)
           ELSE IF \E p \in PartsOf(e) : DeepMarks(p) # {} THEN Panic
           ELSE IF Has(Parts(s), Unmark(e)) THEN BoolVal(TRUE) ELSE NoMatchResult(s),
    s.marks \cup e.marks)

(* Value.Length: a number, or a range of numbers.  The lengths of tuples   *)
(* and objects are a matter of type, except that of an unknown object.     *)
Measured(bounds) == Refined(Number, TRUE, bounds[1], bounds[2])
LengthVal(v) ==
  Remarked(
    CASE Kind(v.ty) = "tuple" -> NumberVal(Len(Etys(v.ty)))
      [] Kind(v.ty) = "object" /\ ~IsUnknown(v) -> NumberVal(Cardinality(DOMAIN Atys(v.ty)))
      [] IsUnknown(v) /\ v.ty = Dynamic -> Measured(<<0, Inf>>)
      [] ~IsNull(v) /\ IsCollection(v.ty) -> Measured(Length(v))
      [] OTHER -> Panic,
    v.marks)

(* Each unknown part becomes a null one (unknown_as_null.go); the elements *)
(* of a set that become the same are one.                                  *)
RECURSIVE UnknownAsNull(_)
UnknownAsNull(v) ==
  LET parts == [k \in DOMAIN Parts(v) |-> UnknownAsNull(Parts(v)[k])] IN
  CASE IsUnknown(v) -> [NullVal(v.ty) EXCEPT !.marks = v.marks]
    [] HasParts(v) /\ DOMAIN Parts(v) # {} ->
         WithMarks(CASE Kind(v.ty) = "list" -> ListVal(parts)
                     [] Kind(v.ty) = "set" -> SetVal(parts)
                     [] Kind(v.ty) = "map" -> MapVal(parts)
                     [] Kind(v.ty) = "tuple" -> TupleVal(parts)
                     [] Kind(v.ty) = "object" -> ObjectVal(parts),
                   v.marks)
    [] OTHER -> v
=============================================================================
