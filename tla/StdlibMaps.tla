----------------------------- MODULE StdlibMaps -----------------------------
(***************************************************************************)
(* The functions of the standard library on maps, objects and sets         *)
(* (cty/function/stdlib, collection.go, set.go and general.go): for each,  *)
(* the type that its Type callback predicts, NilType for an error, and the *)
(* value that its Impl answers.                                            *)
(***************************************************************************)
EXTENDS StdlibLists

LOCAL SX == INSTANCE SequencesExt

Nobody == [n \in {} |-> DynamicVal]
Strings(names) == [i \in DOMAIN names |-> Known(String, names[i])]
NamesIn(f) == SelectSeq(Names, LAMBDA n : n \in DOMAIN f)

(* f, but g where g says something, and so on for a sequence of these. *)
Overlaid(f, g) ==
  [n \in DOMAIN f \cup DOMAIN g |-> IF n \in DOMAIN g THEN g[n] ELSE f[n]]
OverlaidAll(fs) == SX!FoldLeft(Overlaid, Nobody, fs)

(* A map of these values, empty or not, or an object of them. *)
MappingAs(vals, ty) ==
  IF Kind(ty) # "map" THEN ObjectVal(vals)
  ELSE IF DOMAIN vals = {} THEN Empty(ty) ELSE MapVal(vals)

----------------------------------------------------------------------------
(* Maps and objects.                                                       *)

(* The names of an object are a matter of its type. *)
KeysType(v) ==
  CASE Kind(v.ty) = "map" -> List(String)
    [] Kind(v.ty) = "object" -> Tuple([i \in DOMAIN NamesIn(Atys(v.ty)) |-> String])
    [] OTHER -> NilType
KeysImpl(v, ty) ==
  WithMarks(CASE Kind(v.ty) = "object" -> TupleVal(Strings(NamesIn(Atys(v.ty))))
              [] Kind(v.ty) = "map" /\ IsUnknown(v) -> UnknownVal(ty)
              [] Kind(v.ty) = "map" /\ ~IsUnknown(v) -> ListOr(Strings(NamesIn(Parts(v))), ty),
            v.marks)

ValuesType(v) ==
  CASE Kind(v.ty) = "map" -> List(Elem(v.ty))
    [] Kind(v.ty) = "object" -> Tuple(InOrder(Atys(v.ty)))
    [] OTHER -> NilType
ValuesImpl(v, ty) == WithMarks(SequenceAs(InOrder(Parts(v)), ty), v.marks)

LookupType(v, key, default) ==
  CASE Kind(v.ty) = "object" ->
         IF IsUnknown(key) THEN Dynamic
         ELSE IF Parts(key) \in DOMAIN Atys(v.ty) THEN Atys(v.ty)[Parts(key)] ELSE default.ty
    [] Kind(v.ty) = "map" ->
         IF Failed(Convert(default, Elem(v.ty))) THEN NilType ELSE Elem(v.ty)
    [] OTHER -> NilType
LookupImpl(v, key, default, ty) ==
  Remarked(
    IF ~IsWhollyKnown(v) THEN UnknownVal(ty)
    ELSE IF Parts(key) \in DOMAIN Parts(v) THEN Parts(v)[Parts(key)]
    ELSE default,
    v.marks \cup key.marks)

(* What merging takes an argument for, a null object having no attributes, *)
(* and the attributes it adds.  The first definition is a faulty variant   *)
(* that has those of the type.                                             *)
MergedAsTyped(v) == v.ty
MergedAs(v) ==
  IF Kind(v.ty) = "object" /\ IsNull(v) THEN Object([n \in {} |-> Dynamic], {}) ELSE v.ty
MergedAttributes(v) ==
  CASE Kind(v.ty) = "object" -> Atys(MergedAs(v))
    [] Kind(v.ty) = "map" -> IF IsKnown(v) THEN [n \in DOMAIN Parts(v) |-> Elem(v.ty)] ELSE Nobody
IsMapping(v) == Kind(v.ty) \in {"map", "object"}
MergeType(args) ==
  LET odd == SelectSeq(args, LAMBDA v : ~IsMapping(v))
      attributes == [i \in DOMAIN args |-> MergedAttributes(args[i])]
  IN CASE args = << >> -> Object([n \in {} |-> Dynamic], {})
       [] odd # << >> -> IF odd[1].ty = Dynamic THEN Dynamic ELSE NilType
       [] OTHER ->
            IF \A i \in DOMAIN args : MergedAs(args[i]) = MergedAs(args[1]) THEN MergedAs(args[1])
            ELSE IF \E i \in DOMAIN args : Kind(args[i].ty) = "map" /\ IsUnknown(args[i])
              THEN Dynamic
            ELSE Object(OverlaidAll(attributes), {})
MergeImpl(args, ty) ==
  LET some == SelectSeq(args, LAMBDA v : ~IsNull(v)) IN
  IF \E i \in DOMAIN some : ~IsMapping(some[i]) THEN Error
  ELSE WithMarks(MappingAs(OverlaidAll([i \in DOMAIN some |-> Parts(some[i])]), ty),
                 TopMarks(some))

(* Of two equal keys, the value of the later one stays.                    *)
Keyed(keys, vals) ==
  OverlaidAll([i \in DOMAIN keys |-> [n \in {Parts(keys[i])} |-> vals[i]]])
AnyNull(vals) == \E i \in DOMAIN vals : IsNull(vals[i])
ZipmapType(keys, values) ==
  CASE Kind(values.ty) = "list" -> Map(Elem(values.ty))
    [] Kind(values.ty) = "tuple" ->
         IF ~IsWhollyKnown(keys) THEN Dynamic
         ELSE IF Len(Parts(keys)) # Len(Etys(values.ty)) \/ AnyNull(Parts(keys)) THEN NilType
         ELSE Object(Keyed(Parts(keys), Etys(values.ty)), {})
    [] OTHER -> NilType
ZipmapMarksOfTop(keys, values) == keys.marks \cup values.marks
ZipmapMarks(keys, values) == DeepMarks(keys) \cup values.marks
ZipmapImpl(keys, values, ty) ==
  IF ~IsWhollyKnown(keys) THEN WithMarks(UnknownVal(ty), keys.marks \cup values.marks)
  ELSE IF Len(Parts(keys)) # Len(Parts(values)) \/ AnyNull(Parts(keys)) THEN Error
  ELSE WithMarks(MappingAs(Keyed(Parts(keys), Parts(values)), ty), ZipmapMarks(keys, values))

(* The first argument that is not null.                                    *)
CoalesceImpl(args, ty) ==
  LET some == SelectSeq(args, LAMBDA v : ~IsNull(v)) IN
  IF some = << >> THEN Error
  ELSE IF IsUnknown(some[1]) THEN UnknownVal(ty) ELSE some[1]

----------------------------------------------------------------------------
(* Sets.                                                                   *)

(* Those of s, and those of t that s does not have.                        *)
Added(s, t) == SX!FoldLeft(LAMBDA acc, e : IF Has(acc, e) THEN acc ELSE Append(acc, e), s, t)
Both(s, t) == SelectSeq(s, LAMBDA e : Has(t, e))
Without(s, t) == SelectSeq(s, LAMBDA e : ~Has(t, e))
Combined(f, s, t) ==
  CASE f = "setunion" -> Added(s, t)
    [] f = "setintersection" -> Both(s, t)
    [] f = "setsubtract" -> Without(s, t)
    [] f = "setsymmetricdifference" -> Added(Without(s, t), Without(t, s))

(* Empty sets of any type do not count.  The element type of DynamicVal is *)
(* asked for, too, and the panic is an error.                              *)
SetOperationType(args) ==
  LET typed == SelectSeq(args, LAMBDA v : ~(v.ty = Set(Dynamic) /\ IsKnown(v) /\ Parts(v) = << >>))
  IN IF \E i \in DOMAIN args : args[i].ty = Dynamic THEN NilType
     ELSE IF typed = << >> THEN Set(Dynamic)
     ELSE LET ety == Unify([i \in DOMAIN typed |-> Elem(typed[i].ty)], TRUE).ty IN
          IF ety = NilType THEN NilType ELSE Set(ety)

(* Only a union can be told when some elements are not known.              *)
CanBeTold(f, v) == f = "setunion" \/ IsWhollyKnown(v)
SetOperationImpl(f, sets, ty) ==
  LET odd == SelectSeq(sets, LAMBDA v : Failed(v) \/ ~CanBeTold(f, v))
      members == [i \in DOMAIN sets |-> Parts(sets[i])]
  IN IF odd # << >> THEN IF Failed(odd[1]) THEN Error ELSE UnknownVal(ty)
     ELSE IF \E i \in DOMAIN sets : sets[i].ty # sets[1].ty THEN Error
     ELSE Known(sets[1].ty, SX!FoldLeft(LAMBDA s, t : Combined(f, s, t), Head(members), Tail(members)))

----------------------------------------------------------------------------
(* The Cartesian product.                                                  *)

ProductElement(v) ==
  CASE Kind(v.ty) \in {"set", "list"} -> Elem(v.ty)
    [] Kind(v.ty) = "tuple" -> IF Etys(v.ty) = << >> THEN Dynamic ELSE Unify(Etys(v.ty), TRUE).ty
    [] OTHER -> NilType
SetProductType(args) ==
  LET elements == [i \in DOMAIN args |-> ProductElement(args[i])] IN
  IF Len(args) < 2 \/ \E i \in DOMAIN args : elements[i] = NilType THEN NilType
  ELSE <<IF \A i \in DOMAIN args : IsIndexed(args[i].ty) THEN "list" ELSE "set", Tuple(elements)>>

(* The greatest length, Inf if that is no useful bound.                    *)
GreatestLength(v) ==
  CASE Kind(v.ty) = "tuple" -> Len(Etys(v.ty))
    [] Kind(v.ty) # "tuple" /\ IsUnknown(v) -> MaxLen(v)
    [] OTHER -> IF LengthKnown(v) THEN Length(v)[1] ELSE Inf
Times(lengths) == SX!FoldLeft(LAMBDA n, m : IF Inf \in {n, m} \/ n * m > Inf THEN Inf ELSE n * m,
                              1, lengths)

(* A product whose length is not known has an element, unless it can have  *)
(* none at all.                                                            *)
ProductOfLength(ty, most) ==
  CASE most = Inf -> UnknownVal(ty)
    [] most = 0 -> UnknownIn(ty, FALSE, 0, 0)
    [] OTHER -> UnknownIn(ty, FALSE, 1, most)

(* All choices of one element of each, the last one changing first.        *)
Choices(seqs) ==
  SX!FoldLeft(LAMBDA acc, s : SX!FlattenSeq([i \in DOMAIN acc |-> [j \in DOMAIN s |-> Append(acc[i], s[j])]]),
              << << >> >>, seqs)
ConvertedTo(ty, vals) == [i \in DOMAIN vals |-> IF vals[i].ty = ty THEN vals[i] ELSE Convert(vals[i], ty)]
TuplesOf(seqs) == LET choices == Choices(seqs) IN [k \in DOMAIN choices |-> TupleVal(choices[k])]
ProductOfSeqs(seqs, ty) ==
  IF \E i \in DOMAIN seqs : seqs[i] = << >> THEN Empty(ty)
  ELSE IF \E i \in DOMAIN seqs : AnyFailed(seqs[i]) THEN Error
  ELSE IF Kind(ty) = "list" THEN ListVal(TuplesOf(seqs)) ELSE SetVal(TuplesOf(seqs))
ProductOf(args, ty) ==
  ProductOfSeqs([i \in DOMAIN args |-> ConvertedTo(Etys(Elem(ty))[i], AsValueSlice(args[i]))], ty)
SetProductImpl(args, ty) ==
  Remarked(
    IF \E i \in DOMAIN args : IsUnknown(args[i]) \/ ~LengthKnown(args[i])
      THEN ProductOfLength(ty, Times([i \in DOMAIN args |-> GreatestLength(args[i])]))
      ELSE ProductOf(args, ty),
    TopMarks(args))
=============================================================================
