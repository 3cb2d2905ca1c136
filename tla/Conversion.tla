----------------------------- MODULE Conversion -----------------------------
(***************************************************************************)
(* Conversion and unification (cty/convert).  A conversion is chosen from  *)
(* two types (getConversion) and applied later to a value: Convertible     *)
(* says whether there is one and Apply what it does.  The closure that     *)
(* getConversion returns assigns to the output type it has captured, but   *)
(* only to strip it of optional attributes, which a second call repeats    *)
(* to no effect; it is therefore no state here.                            *)
(***************************************************************************)
EXTENDS CtyValues

LOCAL SX == INSTANCE SequencesExt

(* Instead of a value: an error or a panic. *)
Failure(why) == [ty |-> NilType, is |-> <<why>>, marks |-> {}]
Failed(v) == v.ty = NilType

(* The failure of a composite: a panic, if a part panics, since the parts  *)
(* of maps are visited in any order.                                       *)
AnyFailed(parts) == \E k \in DOMAIN parts : Failed(parts[k])
FailureIn(parts) ==
  IF \E k \in DOMAIN parts : parts[k] = Failure("panic") THEN Failure("panic")
                                                         ELSE Failure("error")

----------------------------------------------------------------------------
(* The preference between types (compare_types.go): negative if a is the   *)
(* more general one.                                                       *)

(* What the preferences between corresponding parts say together.          *)
Together(signs) ==
  IF {-1, 1} \subseteq signs THEN 0
  ELSE IF signs \subseteq {0} THEN 0
  ELSE CHOOSE s \in signs : s # 0

(* Kinds of which the first is more general than the second. *)
Above ==
  {<<"list", "tuple">>, <<"map", "object">>, <<"tuple", "set">>, <<"list", "set">>}

RECURSIVE CompareTypes(_, _)
CompareTypes(a, b) ==
  CASE a = Dynamic /\ b = Dynamic -> 0
    [] b = Dynamic -> -1
    [] a = Dynamic -> 1
    [] IsPrimitive(a) /\ IsPrimitive(b) ->
         IF a = b THEN 0 ELSE IF a = String THEN -1 ELSE IF b = String THEN 1 ELSE 0
    [] IsCollection(a) /\ Kind(a) = Kind(b) -> CompareTypes(Elem(a), Elem(b))
    [] <<Kind(a), Kind(b)>> \in Above -> -1
    [] <<Kind(b), Kind(a)>> \in Above -> 1
    [] Kind(a) = Kind(b) /\ Kind(a) \in {"object", "tuple"} /\ DOMAIN a[2] = DOMAIN b[2] ->
         Together({CompareTypes(a[2][k], b[2][k]) : k \in DOMAIN a[2]})
    [] OTHER -> 0

(* A topological sort of the indices (sort_types.go): those no other is    *)
(* preferred to, then each when all preferred to it have been visited.     *)
(* The slots that a cycle leaves unfilled are zero, the first index.  The  *)
(* first definition is a faulty variant that does not sort.                *)
AsGiven(tys) == [i \in DOMAIN tys |-> i]
SortTypes(tys) ==
  LET before(j) == {i \in DOMAIN tys : CompareTypes(tys[i], tys[j]) < 0}
      freed(queue, k) ==
        SelectSeq([i \in DOMAIN tys |-> i],
                  LAMBDA j : /\ queue[k] \in before(j)
                             /\ before(j) \subseteq {queue[i] : i \in 1 .. k})
      visit[k \in 0 .. Len(tys)] ==
        IF k = 0 THEN SelectSeq([i \in DOMAIN tys |-> i], LAMBDA j : before(j) = {})
        ELSE IF k > Len(visit[k - 1]) THEN visit[k - 1]
        ELSE visit[k - 1] \o freed(visit[k - 1], k)
      order == visit[Len(tys)]
  IN [i \in DOMAIN tys |-> IF i \in DOMAIN order THEN order[i] ELSE 1]

----------------------------------------------------------------------------
(* Unification (unify.go): a type and, for each of the types given, the    *)
(* conversion to it, which is a sequence of these.                         *)

From(in, out, unsafe) == <<"from", in, out, unsafe>>
ToDynamicVal == <<"dynamic">>

NoUnification == [ty |-> NilType, convs |-> << >>]
AllAsDynamic(tys) == [ty |-> Dynamic, convs |-> [i \in DOMAIN tys |-> <<ToDynamicVal>>]]
OrElse(unification, other) == IF unification # NoUnification THEN unification ELSE other

Kinds(tys) == {Kind(tys[i]) : i \in DOMAIN tys}
Indices(tys, kind) == SelectSeq([i \in DOMAIN tys |-> i], LAMBDA i : Kind(tys[i]) = kind)
At(tys, indices) == [i \in DOMAIN indices |-> tys[indices[i]]]

RECURSIVE Unify(_, _), Convertible(_, _, _)

(* All types converted to ty, if they can be.                              *)
CanAllBe(tys, ty, unsafe) ==
  \A i \in DOMAIN tys : tys[i] = ty \/ Convertible(tys[i], ty, unsafe)
AllTo(tys, ty, unsafe) ==
  IF CanAllBe(tys, ty, unsafe)
    THEN [ty |-> ty,
          convs |-> [i \in DOMAIN tys |->
                       IF tys[i] = ty THEN << >> ELSE <<From(tys[i], ty, unsafe)>>]]
    ELSE NoUnification

(* A collection of the element type that their elements or parts unify to. *)
AllToCollection(kind, ety, tys, unsafe) ==
  IF ety = NilType THEN NoUnification ELSE AllTo(tys, <<kind, ety>>, unsafe)
UnifyCollectionTypes(kind, tys, unsafe) ==
  AllToCollection(kind, Unify([i \in DOMAIN tys |-> Elem(tys[i])], unsafe).ty, tys, unsafe)

AllParts(tys) ==
  SX!FlattenSeq([i \in DOMAIN tys |->
    IF Kind(tys[i]) = "object" THEN InOrder(Atys(tys[i])) ELSE Etys(tys[i])])
CollectionKind(structure) == IF structure = "object" THEN "map" ELSE "list"
UnifyToCollection(structure, tys, unsafe) ==
  AllToCollection(CollectionKind(structure), Unify(AllParts(tys), unsafe).ty, tys, unsafe)

(* Part by part if they have the same parts, or else to a collection.      *)
AllToStructure(structure, parts, tys, unsafe) ==
  IF \E k \in DOMAIN parts : parts[k] = NilType THEN NoUnification
  ELSE OrElse(AllTo(tys, IF structure = "object" THEN Object(parts, {}) ELSE Tuple(parts), unsafe),
              UnifyToCollection(structure, tys, unsafe))
UnifyStructures(structure, tys, unsafe) ==
  LET keys == DOMAIN tys[1][2] IN
  IF \E i \in DOMAIN tys : DOMAIN tys[i][2] # keys
    THEN UnifyToCollection(structure, tys, unsafe)
    ELSE AllToStructure(structure,
           [k \in keys |-> Unify([i \in DOMAIN tys |-> tys[i][2][k]], unsafe).ty],
           tys, unsafe)

(* Structures among collections: these unify to a collection first, which  *)
(* takes their place.                                                      *)
InPlace(structure, ty, tys) ==
  [i \in DOMAIN tys |-> IF Kind(tys[i]) = structure THEN ty ELSE tys[i]]
Chained(structure, first, second, indices) ==
  [second EXCEPT !.convs = [i \in DOMAIN second.convs |->
     IF \E k \in DOMAIN indices : indices[k] = i
       THEN first.convs[CHOOSE k \in DOMAIN indices : indices[k] = i] \o second.convs[i]
       ELSE second.convs[i]]]
UnifyRest(structure, first, tys, unsafe) ==
  LET kind == CollectionKind(structure)
      chain(second) == IF Kind(second.ty) # kind THEN NoUnification
                       ELSE Chained(structure, first, second, Indices(tys, structure))
  IN IF Kind(first.ty) # kind THEN NoUnification
     ELSE chain(Unify(InPlace(structure, first.ty, tys), unsafe))
UnifyInDisguise(structure, tys, unsafe) ==
  UnifyRest(structure,
            UnifyToCollection(structure, At(tys, Indices(tys, structure)), unsafe), tys, unsafe)

(* The first type in the order of preference that all can become.          *)
UnifyByPreference(tys, unsafe) ==
  LET order == SortTypes(tys)
      unified == [k \in DOMAIN order |-> AllTo(tys, tys[order[k]], unsafe)]
  IN SX!FoldRight(OrElse, unified, NoUnification)

Unify(tys, unsafe) ==
  LET kinds == Kinds(tys)
      only(ks) == kinds \subseteq ks \cup {"dynamic"}
  IN CASE tys = << >> -> NoUnification
       [] \E k \in {"map", "list", "set"} : k \in kinds /\ only({k}) ->
            IF "dynamic" \in kinds THEN AllAsDynamic(tys)
            ELSE UnifyCollectionTypes(Kind(tys[1]), tys, unsafe)
       [] \E k \in {"object", "tuple"} : k \in kinds /\ only({k}) ->
            IF "dynamic" \in kinds THEN AllAsDynamic(tys)
            ELSE UnifyStructures(Kind(tys[1]), tys, unsafe)
       [] \/ "map" \in kinds /\ only({"map", "object"})
          \/ "list" \in kinds /\ only({"list", "tuple"}) ->
            OrElse(UnifyInDisguise(IF "map" \in kinds THEN "object" ELSE "tuple", tys, unsafe),
                   UnifyByPreference(tys, unsafe))
       [] {"object", "tuple"} \subseteq kinds -> NoUnification
       [] OTHER -> UnifyByPreference(tys, unsafe)

----------------------------------------------------------------------------
(* Is there a conversion (getConversion)?                                  *)

(* The element type for a collection of any type made of these.            *)
ElementFor(etys, ety, unsafe) == IF ety = Dynamic THEN Unify(etys, unsafe).ty ELSE ety

(* Between primitive types (conversion_primitive.go).                      *)
PrimitiveConvertible(in, out, unsafe) ==
  in # out /\ (out = String \/ (unsafe /\ in = String))

CanBe(in, out, unsafe) == in = out \/ Convertible(in, out, unsafe)

PartsCanBe(tys, ety, unsafe) ==
  ety # NilType /\ \A k \in DOMAIN tys : CanBe(tys[k], ety, unsafe)
ElementsCanBe(tys, ety, unsafe) ==
  /\ ety = Dynamic => \A i \in DOMAIN tys : tys[i] = Dynamic
  /\ PartsCanBe(tys, ety, unsafe)

Convertible(in, out, unsafe) ==
  LET from == Kind(in) to == Kind(out) IN
  CASE out = Dynamic -> TRUE
    [] unsafe /\ in = Dynamic -> TRUE
    [] IsPrimitive(in) /\ IsPrimitive(out) -> PrimitiveConvertible(in, out, unsafe)
    [] from = "object" /\ to = "object" ->
         \A n \in DOMAIN Atys(out) :
           IF n \in DOMAIN Atys(in) THEN CanBe(Atys(in)[n], Atys(out)[n], unsafe)
                                    ELSE n \in Optional(out)
    [] from = "tuple" /\ to = "tuple" ->
         /\ DOMAIN Etys(in) = DOMAIN Etys(out)
         /\ \A i \in DOMAIN Etys(in) : CanBe(Etys(in)[i], Etys(out)[i], unsafe)
    [] from \in {"list", "set"} /\ to \in {"list", "set"} ->
         (from = "list" /\ to = "set" => unsafe) /\ CanBe(Elem(in), Elem(out), unsafe)
    [] from = "map" /\ to = "map" -> Convertible(Elem(in), Elem(out), unsafe)
    [] from = "tuple" /\ to \in {"list", "set"} ->
         Etys(in) # << >> =>
           ElementsCanBe(Etys(in), ElementFor(Etys(in), Elem(out), unsafe), unsafe)
    [] from = "object" /\ to = "map" ->
         DOMAIN Atys(in) # {} =>
           PartsCanBe(Atys(in), ElementFor(InOrder(Atys(in)), Elem(out), unsafe), unsafe)
    [] from = "map" /\ to = "object" ->
         /\ unsafe
         /\ \A n \in DOMAIN Atys(out) :
              n \in Optional(out) \/ CanBe(Elem(in), Atys(out)[n], unsafe)
    [] OTHER -> FALSE

----------------------------------------------------------------------------
(* Values that are unknown or null.                                        *)

(* out, with the types of in where out leaves the type open.               *)
RECURSIVE DynamicReplace(_, _)
DynamicReplace(in, out) ==
  LET from == Kind(in) to == Kind(out)
      elem == CASE from \in {"map", "list", "set"} -> Elem(in)
                [] from = "object" -> Unify(InOrder(Atys(in)), TRUE).ty
                [] from = "tuple" -> Unify(Etys(in), TRUE).ty
      fits == \/ to = "map" /\ from \in {"map", "object"}
              \/ to \in {"list", "set"} /\ from \in {"list", "set", "tuple"}
  IN CASE in \in {Dynamic, NilType} -> out
       [] out = Dynamic -> in
       [] IsCollection(out) -> IF fits THEN <<to, DynamicReplace(elem, Elem(out))>> ELSE out
       [] to = "object" /\ from = "map" ->
            Object([n \in DOMAIN Atys(out) |-> DynamicReplace(Elem(in), Atys(out)[n])], {})
       [] to = "object" /\ from = "object" ->
            Object([n \in DOMAIN Atys(out) |->
                      IF n \in DOMAIN Atys(in) THEN DynamicReplace(Atys(in)[n], Atys(out)[n])
                                               ELSE Atys(out)[n]], {})
       [] to = "tuple" ->
            Tuple([i \in DOMAIN Etys(out) |-> DynamicReplace(Etys(in)[i], Etys(out)[i])])
       [] OTHER -> out

(* What is known of an unknown value v stays known of the result.  The     *)
(* first definition is a faulty variant that keeps the least length of     *)
(* what becomes a set.                                                     *)
LengthsAsBefore(v, ty) == <<MinLen(v), MaxLen(v)>>
LengthsFor(v, ty) ==
  LET from == Kind(v.ty) to == Kind(ty) IN
  CASE from = "object" /\ to = "map" ->
         LET n == Cardinality(DOMAIN Atys(v.ty)) IN <<n, n>>
    [] from = "tuple" /\ to = "list" -> <<Len(Etys(v.ty)), Len(Etys(v.ty))>>
    [] from = "tuple" /\ to = "set" ->
         LET n == Len(Etys(v.ty)) IN <<IF n = 0 THEN 0 ELSE 1, n>>
    [] IsCollection(v.ty) /\ IsCollection(ty) ->
         <<IF to = "set" /\ MinLen(v) > 0 THEN 1 ELSE MinLen(v), MaxLen(v)>>
    [] OTHER -> <<0, Inf>>
PrepareUnknownResult(v, ty) ==
  Refined(ty, NotNull(v), LengthsFor(v, ty)[1], LengthsFor(v, ty)[2])

----------------------------------------------------------------------------
(* What a conversion does to a value.                                      *)

RECURSIVE Apply(_, _, _, _), Convert(_, _)

Texts == <<"-1", "0", "1", "2", "3">>  \* the text of number n is Texts[n + 2]

ConvertPrimitive(v, out) ==
  LET x == Parts(v) IN
  CASE v.ty = Number -> Known(String, Texts[x + 2])
    [] v.ty = Bool -> Known(String, IF x THEN "true" ELSE "false")
    [] out = Number -> IF \E n \in DOMAIN Texts : Texts[n] = x
                         THEN Known(Number, (CHOOSE n \in DOMAIN Texts : Texts[n] = x) - 2)
                         ELSE Failure("error")
    [] out = Bool -> IF x \in {"1", "true"} THEN Known(Bool, TRUE)
                     ELSE IF x \in {"0", "false"} THEN Known(Bool, FALSE)
                     ELSE Failure("error")

(* A part of a value, by the conversion between the types of the parts if  *)
(* they are not the same.                                                  *)
Through(in, out, unsafe, p) == IF in = out THEN p ELSE Apply(in, out, unsafe, p)

(* A null part becomes a null of a type without optional attributes, and   *)
(* loses its marks.                                                        *)
StripNull(p) == IF ~Failed(p) /\ IsNull(p) THEN NullVal(WithoutOptional(p.ty)) ELSE p
StripNulls(parts) == [k \in DOMAIN parts |-> StripNull(parts[k])]

(* The collection of these parts, or an error.                             *)
Collect(kind, parts) ==
  IF AnyFailed(parts) THEN FailureIn(parts)
  ELSE IF ~CanCollect(parts) THEN Failure("error")
  ELSE CASE kind = "list" -> ListVal(parts)
         [] kind = "set" -> SetVal(parts)
         [] kind = "map" -> MapVal(parts)

(* Parts that were converted one by one and may still differ in type; a    *)
(* conversion that is missing is called all the same.  UnifyUnsafely is a  *)
(* faulty variant that unifies with conversions it does not then ask for.  *)
PartsTo(ty, parts, unsafe) ==
  [k \in DOMAIN parts |->
     CASE Failed(parts[k]) -> parts[k]
       [] ty = NilType -> Failure("error")
       [] parts[k].ty = ty -> parts[k]
       [] OTHER -> IF Convertible(parts[k].ty, ty, unsafe)
                     THEN Apply(parts[k].ty, ty, unsafe, parts[k])
                     ELSE Failure("panic")]
UnifyUnsafely(parts, unsafe) ==
  PartsTo(Unify([i \in DOMAIN parts |-> parts[i].ty], TRUE).ty, parts, FALSE)
UnifyElements(parts, unsafe) ==
  PartsTo(Unify([i \in DOMAIN parts |-> parts[i].ty], unsafe).ty, parts, unsafe)
UnifyMembers(parts, unsafe) ==
  PartsTo(Unify(InOrder([n \in DOMAIN parts |-> parts[n].ty]), unsafe).ty, parts, unsafe)
UnifiesMembers(ety) == IsCollection(ety) \/ Kind(ety) = "object"

(* Elements of another type, by one conversion for all of them.  A set of  *)
(* unknown length becomes an unknown list, of the elements it had.         *)
CollectionOf(to, ety, parts, v) ==
  CASE to = "list" /\ ~LengthKnown(v) -> UnknownVal(List(Elem(v.ty)))
    [] DOMAIN Parts(v) = {} ->
         Empty(<<to, IF ety = Dynamic THEN Elem(v.ty) ELSE WithoutOptional(ety)>>)
    [] OTHER -> Collect(to, IF to # "map" THEN StripNulls(parts)
                            ELSE IF UnifiesMembers(ety) THEN UnifyMembers(parts, FALSE)
                            ELSE parts)
CollectionToCollection(in, out, unsafe, v) ==
  CollectionOf(Kind(out), Elem(out),
    [k \in DOMAIN Parts(v) |-> Through(Elem(in), Elem(out), unsafe, Parts(v)[k])], v)

TupleOf(to, parts, unsafe) ==
  Collect(to, IF to = "set" THEN StripNulls(parts) ELSE UnifyElements(parts, unsafe))
TupleToCollection(in, out, ety, unsafe, v) ==
  IF Etys(in) = << >> THEN Empty(WithoutOptional(out))
  ELSE TupleOf(Kind(out),
         [i \in DOMAIN Parts(v) |-> Through(Etys(in)[i], ety, unsafe, Parts(v)[i])], unsafe)

MapOf(ety, parts, unsafe) ==
  Collect("map", IF UnifiesMembers(ety) THEN UnifyMembers(parts, unsafe) ELSE parts)
ObjectToMap(in, out, ety, unsafe, v) ==
  IF DOMAIN Atys(in) = {} THEN Empty(WithoutOptional(out))
  ELSE MapOf(ety,
         [n \in DOMAIN Parts(v) |-> Through(Atys(in)[n], ety, unsafe, Parts(v)[n])], unsafe)

Structure(kind, parts) ==
  IF AnyFailed(parts) THEN FailureIn(parts)
  ELSE IF kind = "tuple" THEN TupleVal(parts) ELSE ObjectVal(parts)

(* An attribute that the map has no element for is null if it is optional. *)
MapToObject(in, out, v) ==
  Structure("object",
    [n \in DOMAIN Atys(out) |->
       CASE n \in DOMAIN Parts(v) /\ CanBe(Elem(in), Atys(out)[n], TRUE) ->
              StripNull(Through(Elem(in), Atys(out)[n], TRUE, Parts(v)[n]))
         [] n \notin DOMAIN Parts(v) /\ n \in Optional(out) -> NullVal(Atys(out)[n])
         [] OTHER -> Failure("error")])

ObjectToObject(in, out, unsafe, v) ==
  Structure("object",
    [n \in DOMAIN Atys(out) |->
       IF n \in DOMAIN Parts(v)
         THEN StripNull(Through(Atys(in)[n], Atys(out)[n], unsafe, Parts(v)[n]))
         ELSE NullVal(WithoutOptional(Atys(out)[n]))])

TupleToTuple(in, out, unsafe, v) ==
  Structure("tuple",
    [i \in DOMAIN Etys(out) |-> Through(Etys(in)[i], Etys(out)[i], unsafe, Parts(v)[i])])

ApplyKnown(in, out, unsafe, v) ==
  LET from == Kind(in) to == Kind(out) IN
  CASE in = Dynamic -> Convert(v, out)
    [] IsPrimitive(in) -> IF v.ty = in THEN ConvertPrimitive(v, out) ELSE Failure("panic")
    [] IsCollection(in) /\ IsCollection(out) -> CollectionToCollection(in, out, unsafe, v)
    [] from = "tuple" /\ to \in {"list", "set"} ->
         TupleToCollection(in, out, ElementFor(Etys(in), Elem(out), unsafe), unsafe, v)
    [] from = "object" /\ to = "map" ->
         ObjectToMap(in, out, ElementFor(InOrder(Atys(in)), Elem(out), unsafe), unsafe, v)
    [] from = "map" /\ to = "object" -> MapToObject(in, out, v)
    [] from = "object" /\ to = "object" -> ObjectToObject(in, out, unsafe, v)
    [] from = "tuple" /\ to = "tuple" -> TupleToTuple(in, out, unsafe, v)
    [] OTHER -> Failure("panic")  \* there is no conversion to call

(* The type of a result that is unknown or null.  The first definition is  *)
(* a faulty variant that leaves the optional attributes in it.             *)
TypeAsGiven(in, out) == DynamicReplace(in, out)
ResultType(in, out) == DynamicReplace(in, WithoutOptional(out))

(* The checks around every conversion (getConversion).                     *)
Remarked(result, marks) == IF Failed(result) THEN result ELSE WithMarks(result, marks)
ApplyUnmarked(in, out, want, unsafe, v) ==
  CASE out = Dynamic -> v
    [] out # Dynamic /\ IsUnknown(v) -> PrepareUnknownResult(v, want)
    [] out # Dynamic /\ IsNull(v) -> NullVal(want)
    [] OTHER -> ApplyKnown(in, out, unsafe, v)
Apply(in, out, unsafe, v) ==
  Remarked(ApplyUnmarked(in, out, ResultType(v.ty, out), unsafe, [v EXCEPT !.marks = {}]),
           v.marks)

Convert(v, want) ==
  IF v.ty = WithoutOptional(want) THEN v
  ELSE IF Convertible(v.ty, want, TRUE) THEN Apply(v.ty, want, TRUE, v)
  ELSE Failure("error")

(* One of the conversions that Unify returns.  Of a chain, each is applied *)
(* to the value that the first one was given, not to the result of the one *)
(* before it.                                                              *)
ApplyOne(conv, v) ==
  IF conv = ToDynamicVal THEN DynamicVal ELSE Apply(conv[2], conv[3], conv[4], v)
LastOf(results, v) ==
  CASE results = << >> -> v
    [] AnyFailed(results) ->
         results[CHOOSE k \in DOMAIN results :
                   Failed(results[k]) /\ \A j \in 1 .. k - 1 : ~Failed(results[j])]
    [] OTHER -> results[Len(results)]
ApplyUnified(convs, v) == LastOf([i \in DOMAIN convs |-> ApplyOne(convs[i], v)], v)
=============================================================================
