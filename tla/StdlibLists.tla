---------------------------- MODULE StdlibLists -----------------------------
(***************************************************************************)
(* The functions of the standard library on elements and sequences         *)
(* (cty/function/stdlib, collection.go and sequence.go): for each, the     *)
(* type that its Type callback predicts, NilType for an error, and the     *)
(* value that its Impl answers.                                            *)
(***************************************************************************)
EXTENDS Structures

LOCAL SX == INSTANCE SequencesExt

Error == Failure("error")

(* How types of arguments are asked for. *)
IsSequence(ty) == Kind(ty) \in {"list", "set", "tuple"}
IsIndexed(ty) == Kind(ty) \in {"list", "tuple"}
TypesOf(args) == [i \in DOMAIN args |-> args[i].ty]
TopMarks(args) == UNION {args[i].marks : i \in DOMAIN args}

(* A list of these values, or an empty one of the type.                    *)
ListOr(vals, ty) == IF vals = << >> THEN Empty(ty) ELSE ListVal(vals)
(* A tuple if that is what the type callback said, else such a list.       *)
SequenceAs(vals, ty) == IF Kind(ty) = "tuple" THEN TupleVal(vals) ELSE ListOr(vals, ty)

----------------------------------------------------------------------------
(* Elements by index.                                                      *)

HasIndexType(coll) ==
  IF Kind(coll.ty) \in Indexable \cup {"dynamic"} THEN Bool ELSE NilType

(* A key of a tuple chooses the type, if it is known.                      *)
TupleIndexType(etys, key) ==
  IF IsUnknown(key) THEN Dynamic
  ELSE IF Parts(key) + 1 \in DOMAIN etys THEN etys[Parts(key) + 1] ELSE NilType
IndexType(coll, key) ==
  IF Kind(coll.ty) \notin Indexable \/ key.ty \notin {KeyType(coll.ty), Dynamic} THEN NilType
  ELSE IF Kind(coll.ty) = "tuple" THEN TupleIndexType(Etys(coll.ty), key)
  ELSE Elem(coll.ty)
IndexImpl(coll, key) ==
  IF HasIndex(coll, key) = BoolVal(FALSE) THEN Error ELSE Index(coll, key)

LengthType(coll) ==
  IF IsSequence(coll.ty) \/ Kind(coll.ty) \in {"map", "dynamic"} THEN Number ELSE NilType

(* The index of an element is taken modulo the length.                     *)
ElementFuncType(list, index) ==
  CASE Kind(list.ty) = "list" -> Elem(list.ty)
    [] Kind(list.ty) = "tuple" ->
         IF IsUnknown(index) THEN Dynamic
         ELSE IF Etys(list.ty) = << >> THEN NilType
         ELSE Etys(list.ty)[(Parts(index) % Len(Etys(list.ty))) + 1]
    [] OTHER -> NilType
ElementImpl(list, index) ==
  IF Parts(list) = << >> THEN Error
  ELSE WithMarks(Parts(list)[(Parts(index) % Len(Parts(list))) + 1], list.marks)

----------------------------------------------------------------------------
(* Lists.                                                                  *)

(* The first that is not empty. *)
CoalesceListType(args) ==
  LET odd == SelectSeq(args, LAMBDA v : IsUnknown(v) \/ ~IsIndexed(v.ty)) IN
  CASE args = << >> -> NilType
    [] odd # << >> -> IF IsUnknown(odd[1]) THEN Dynamic ELSE NilType
    [] OTHER -> IF \A i \in DOMAIN args : args[i].ty = args[1].ty THEN args[1].ty ELSE Dynamic
CoalesceListImpl(args, ty) ==
  LET found == SelectSeq(args, LAMBDA v : IsUnknown(v) \/ (IsKnown(v) /\ Parts(v) # << >>)) IN
  IF found = << >> THEN Error ELSE IF IsUnknown(found[1]) THEN UnknownVal(ty) ELSE found[1]

(* Without the strings that are null or empty. *)
CompactImpl(list, ty) ==
  IF ~IsWhollyKnown(list) THEN UnknownVal(ty)
  ELSE ListOr(SelectSeq(Parts(list), LAMBDA v : ~IsNull(v) /\ Parts(v) # ""), ty)

(* An element that may be equal does not end the search.                   *)
ContainsImpl(list, v) ==
  IF ~IsSequence(list.ty) THEN Error
  ELSE LET answers == {Compare(v, Parts(list)[i]) : i \in DOMAIN Parts(list)} IN
       IF "yes" \in answers THEN BoolVal(TRUE)
       ELSE IF "open" \in answers THEN UnknownVal(Bool) ELSE BoolVal(FALSE)

(* Each element once (appendIfMissing). *)
AppendIfMissing(list, v) == IF Has(list, v) THEN list ELSE Append(list, v)
DistinctImpl(list, ty) ==
  IF ~IsWhollyKnown(list) THEN UnknownVal(ty)
  ELSE ListOr(SX!FoldLeft(AppendIfMissing, << >>, Parts(list)), ty)

(* Chunks of size elements, the last one of those that are left; all in    *)
(* one if the size is zero.                                                *)
Chunks(parts, size) ==
  [k \in 1 .. (Len(parts) + size - 1) \div size |->
     SubSeq(parts, size * (k - 1) + 1, IF size * k > Len(parts) THEN Len(parts) ELSE size * k)]
ChunklistImpl(list, size) ==
  LET parts == Parts(list)
      n == Parts(size)
      chunks == IF n = 0 THEN <<Unmark(list)>>
                ELSE [k \in DOMAIN Chunks(parts, n) |-> ListVal(Chunks(parts, n)[k])]
  IN IF n < 0 THEN Error
     ELSE WithMarks(IF parts = << >> THEN Empty(List(list.ty)) ELSE ListVal(chunks),
                    list.marks \cup size.marks)

(* Elements in place of the sequences that hold them, at any depth; known  *)
(* says that all lengths are.                                              *)
Flat(out, marks, known) == [out |-> out, marks |-> marks, known |-> known]
Joined(a, b) == Flat(a.out \o b.out, a.marks \cup b.marks, a.known /\ b.known)
RECURSIVE Flattener(_)
FlatItem(v) ==
  IF IsNull(v) \/ ~IsSequence(v.ty) THEN Flat(<<v>>, {}, v # DynamicVal)
  ELSE IF IsUnknown(v) THEN Flat(<< >>, v.marks, FALSE)
  ELSE Flattener(v)
Flattener(v) ==
  IF ~LengthKnown(v) THEN Flat(<< >>, v.marks, FALSE)
  ELSE LET items == [i \in DOMAIN AsValueSlice(v) |-> FlatItem(AsValueSlice(v)[i])] IN
       SX!FoldLeft(Joined, Flat(<< >>, v.marks, TRUE), items)
FlattenType(v) ==
  IF ~IsWhollyKnown(v) THEN Dynamic
  ELSE IF ~IsSequence(v.ty) THEN NilType
  ELSE Tuple(TypesOf(Flattener(v).out))
FlattenImpl(v, ty) ==
  LET flat == Flattener(v) IN
  WithMarks(IF flat.known THEN TupleVal(flat.out) ELSE UnknownVal(ty), flat.marks)

ReverseType(v) ==
  CASE Kind(v.ty) = "tuple" -> Tuple(SX!Reverse(Etys(v.ty)))
    [] Kind(v.ty) \in {"list", "set"} -> List(Elem(v.ty))
    [] OTHER -> NilType
ReverseImpl(v, ty) == WithMarks(SequenceAs(SX!Reverse(AsValueSlice(v)), ty), v.marks)

(* The bounds of a slice, checked as far as they are known; LengthInt      *)
(* panics on a list that is unknown but whose length is not.               *)
WithinLength(n, list) == ~LengthKnown(list) \/ n <= Length(list)[1]
LengthOfType(list) ==
  IF Kind(list.ty) = "tuple" THEN Known(list.ty, Etys(list.ty)) ELSE list
IndexFits(v, list) == IsKnown(v) => Parts(v) >= 0 /\ WithinLength(Parts(v), LengthOfType(list))
SliceIndexesFit(list, start, end) ==
  /\ ~(IsUnknown(list) /\ IsCollection(list.ty) /\ LengthKnown(list))
  /\ IndexFits(start, list) /\ IndexFits(end, list)
  /\ IsKnown(start) /\ IsKnown(end) => Parts(start) <= Parts(end)
SliceType(list, start, end) ==
  CASE ~IsIndexed(list.ty) -> NilType
    [] IsIndexed(list.ty) /\ ~SliceIndexesFit(list, start, end) -> NilType
    [] IsIndexed(list.ty) /\ SliceIndexesFit(list, start, end) ->
         IF Kind(list.ty) = "list" THEN list.ty
         ELSE IF IsUnknown(start) \/ IsUnknown(end) THEN Dynamic
         ELSE Tuple(SubSeq(Etys(list.ty), Parts(start) + 1, Parts(end)))
SliceImpl(list, start, end, ty) ==
  WithMarks(SequenceAs(SubSeq(Parts(list), Parts(start) + 1, Parts(end)), ty), list.marks)

(* Lists that unify stay a list; all else becomes a tuple.                 *)
ConcatUnified(args) ==
  IF \A i \in DOMAIN args : Kind(args[i].ty) = "list" THEN Unify(TypesOf(args), TRUE).ty
                                                      ELSE NilType
PartTypes(v) ==
  IF Kind(v.ty) = "tuple" THEN Etys(v.ty) ELSE [i \in DOMAIN Parts(v) |-> Elem(v.ty)]
ConcatType(args) ==
  LET odd == SelectSeq(args, LAMBDA v : ~IsIndexed(v.ty) \/ (Kind(v.ty) = "list" /\ IsUnknown(v)))
  IN CASE args = << >> -> NilType
       [] ConcatUnified(args) # NilType -> ConcatUnified(args)
       [] OTHER -> IF odd # << >> THEN IF IsIndexed(odd[1].ty) THEN Dynamic ELSE NilType
                   ELSE Tuple(SX!FlattenSeq([i \in DOMAIN args |-> PartTypes(args[i])]))
ConcatImpl(lists, ty) ==
  IF AnyFailed(lists) THEN Error
  ELSE WithMarks(SequenceAs(SX!FlattenSeq([i \in DOMAIN lists |-> Parts(lists[i])]), ty),
                 TopMarks(lists))
(* From start to end, exclusive, in steps; the limit on the number of      *)
(* values is beyond the numbers here, except for a step of zero, which is  *)
(* refused at once only if it is the variable cty.Zero: none here is.      *)
Steps(start, end, step) ==
  LET n == IF step > 0 THEN (end - start + step - 1) \div step
                       ELSE (start - end - step - 1) \div (-step)
  IN [k \in 1 .. n |-> NumberVal(start + step * (k - 1))]
StepTowards(start, end) == IF end < start THEN -1 ELSE 1
RangeFrom(start, end, step) ==
  IF (step <= 0 /\ end > start) \/ (step >= 0 /\ end < start) THEN Error
  ELSE ListOr(IF end = start THEN << >> ELSE Steps(start, end, step), List(Number))
RangeImpl(args) ==
  LET x == [i \in DOMAIN args |-> Parts(args[i])] IN
  CASE Len(args) = 1 -> RangeFrom(0, x[1], StepTowards(0, x[1]))
    [] Len(args) = 2 -> RangeFrom(x[1], x[2], StepTowards(x[1], x[2]))
    [] Len(args) = 3 -> RangeFrom(x[1], x[2], x[3])
    [] OTHER -> Error
=============================================================================
