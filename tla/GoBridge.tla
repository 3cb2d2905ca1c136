------------------------------ MODULE GoBridge ------------------------------
(***************************************************************************)
(* Values of cty and of Go, each made of the other (cty/gocty).  A Go      *)
(* variable is decoded into in place: through the pointers it holds, into  *)
(* new memory where it holds none, and field by field, so that a failure   *)
(* leaves it half way.  Marked values, capsules, interfaces, floats that   *)
(* round and set.Set are left out.                                         *)
(***************************************************************************)
EXTENDS Conversion

LOCAL SX == INSTANCE SequencesExt

CONSTANTS
  Bits,      \* the width of the Go types int and uint
  Fractions  \* numbers that stand for ones that are not whole

ASSUME BridgeAssumption == Bits \in Nat \ {0} /\ Fractions \subseteq Int

(* A Go type is a sequence of its kind and what it is made of; a field of  *)
(* a struct has the name of the attribute that it is tagged with.          *)
Scalar(kind) == <<kind>>
CtyValue == <<"value">>
Ptr(to) == <<"ptr", to>>
Slice(of) == <<"slice", of>>
Array(of, n) == <<"array", of, n>>
GoMap(of) == <<"map", of>>
Struct(fields) == <<"struct", fields>>
Field(tag, ty) == [tag |-> tag, ty |-> ty]
Untagged == ""

FieldTypes(gt) == [i \in DOMAIN gt[2] |-> gt[2][i].ty]
Tagged(gt) ==
  IF Kind(gt) = "struct" THEN {i \in DOMAIN gt[2] : gt[2][i].tag # Untagged} ELSE {}
TagsOf(gt) == {gt[2][i].tag : i \in Tagged(gt)}
FieldOf(gt, tag) == CHOOSE i \in DOMAIN gt[2] : gt[2][i].tag = tag

(* What a variable holds is a sequence as well: pointers, slices and maps  *)
(* refer to cells of the heap, and all else is in the variable.            *)
Nil == <<"nil">>
Content(x) == x[2]
Cell(h, x) == h[Content(x)].is

RECURSIVE Zero(_)
Zero(gt) ==
  CASE Kind(gt) \in {"ptr", "slice", "map"} -> Nil
    [] Kind(gt) = "array" -> <<"array", [i \in 1 .. gt[3] |-> Zero(gt[2])]>>
    [] Kind(gt) = "struct" -> <<"struct", [i \in DOMAIN gt[2] |-> Zero(gt[2][i].ty)]>>
    [] Kind(gt) = "bool" -> <<"bool", FALSE>>
    [] Kind(gt) = "string" -> <<"string", "">>
    [] Kind(gt) = "value" -> <<"value", Failure("none")>>
    [] OTHER -> <<Kind(gt), 0>>

Made(kind, is, h) ==
  [x |-> <<kind, Len(h) + 1>>, heap |-> Append(h, [kind |-> kind, is |-> is])]

----------------------------------------------------------------------------
(* FromCtyValue.  What it leaves is a variable and a heap, whether it      *)
(* succeeds or not.                                                        *)

Done(x, h) == [ok |-> TRUE, x |-> x, heap |-> h]
Refused(x, h) == [ok |-> FALSE, x |-> x, heap |-> h]

(* The least and greatest number of a Go type, and what it keeps of one    *)
(* that it is too narrow for.                                              *)
Least(kind) == IF kind = "int" THEN -(2 ^ (Bits - 1)) ELSE 0
Greatest(kind) == Least(kind) + 2 ^ Bits - 1
Kept(n, kind) ==
  IF kind \in {"int", "uint"} THEN ((n - Least(kind)) % (2 ^ Bits)) + Least(kind) ELSE n

(* Whole numbers in the range of the type.  The first definition is a      *)
(* faulty variant that only looks at the upper end.                        *)
FitsBelow(n, kind) ==
  /\ kind # "float" => n \notin Fractions
  /\ kind \in {"int", "uint"} => n <= Greatest(kind)
FitsNumber(n, kind) ==
  /\ kind # "float" => n \notin Fractions
  /\ kind \in {"int", "uint"} => Least(kind) <= n /\ n <= Greatest(kind)

KindsFor(ty) ==
  CASE ty = Number -> {"int", "uint", "float", "bigint"}
    [] ty = String -> {"string"}
    [] ty = Bool -> {"bool"}
FromPrimitive(v, kind, x, h) ==
  IF kind \notin KindsFor(v.ty) THEN Refused(x, h)
  ELSE IF v.ty # Number THEN Done(<<kind, Parts(v)>>, h)
  ELSE IF FitsNumber(Parts(v), kind) THEN Done(<<kind, Kept(Parts(v), kind)>>, h)
  ELSE Refused(x, h)

(* Slices and maps are made anew.  The first definition is a faulty        *)
(* variant that fills the present one if the length is the same.           *)
MadeInPlace(kind, is, x, h) ==
  IF x # Nil /\ DOMAIN Cell(h, x) = DOMAIN is
    THEN [x |-> x, heap |-> [h EXCEPT ![Content(x)].is = is]] ELSE Made(kind, is, h)
MadeAnew(kind, is, x, h) == Made(kind, is, h)

RECURSIVE FromCty(_, _, _, _, _)

(* The values at keys, one after another, each into what is there, up to   *)
(* the first that fails.                                                   *)
FromEach(vals, gts, keys, parts, h, order) ==
  SX!FoldLeft(
    LAMBDA acc, k :
      LET r == FromCty(vals[k], gts[k], acc.x[k], acc.heap, order) IN
      IF ~acc.ok THEN acc
      ELSE [ok |-> r.ok, x |-> [acc.x EXCEPT ![k] = r.x], heap |-> r.heap],
    Done(parts, h), keys)

Count(f) == [i \in 1 .. Len(f) |-> i]
InVariable(kind, r) == [r EXCEPT !.x = <<kind, @>>]

(* Into new memory, which is forgotten if an element fails.                *)
FromCollection(v, gt, x, h, order) ==
  LET all == DOMAIN Parts(v)
      keys == IF Kind(gt) = "slice" THEN Count(Parts(v))
              ELSE SelectSeq(Names, LAMBDA n : n \in all)
      r == FromEach(Parts(v), [k \in all |-> gt[2]], keys, [k \in all |-> Zero(gt[2])], h, order)
      made == MadeAnew(Kind(gt), r.x, x, r.heap)
  IN IF r.ok THEN Done(made.x, made.heap) ELSE Refused(x, h)

(* In place: what comes before the part that fails has been written.       *)
FromSequence(v, kind, gts, x, h, order) ==
  IF Len(Parts(v)) # Len(gts) THEN Refused(x, h)
  ELSE InVariable(kind, FromEach(Parts(v), gts, Count(gts), Content(x), h, order))

(* A field without its attribute is left as it is if it could be nil.  An  *)
(* attribute without a field is found only when its turn comes, and they   *)
(* come in a random order.                                                 *)
MayBeMissing(gt) == Kind(gt) \in {"ptr", "slice", "map"}
FromObject(v, gt, x, h, order) ==
  LET attrs == Parts(v)
      missing == {i \in Tagged(gt) : gt[2][i].tag \notin DOMAIN attrs}
      have == Tagged(gt) \ missing
      names == SelectSeq(order, LAMBDA n : n \in DOMAIN attrs)
      unsupported == {i \in DOMAIN names : names[i] \notin TagsOf(gt)}
      before == {i \in DOMAIN names : \A j \in unsupported : i < j}
      keys == [i \in before |-> FieldOf(gt, names[i])]
      r == FromEach([i \in have |-> attrs[gt[2][i].tag]], FieldTypes(gt), keys, Content(x), h, order)
  IN IF \E i \in missing : ~MayBeMissing(gt[2][i].ty) THEN Refused(x, h)
     ELSE InVariable("struct", [r EXCEPT !.ok = @ /\ unsupported = {}])

(* Into what a pointer refers to, made first if there is none; but null    *)
(* makes the last pointer nil, and only lists and maps may be null without *)
(* a pointer.                                                              *)
NeedsPointer(v) == IsNull(v) /\ Kind(v.ty) \notin {"list", "map"}
FromThrough(v, gt, x, h, order) ==
  IF NeedsPointer(v) /\ Kind(gt[2]) \notin {"ptr", "value"} THEN Done(Nil, h)
  ELSE LET to == IF x = Nil THEN Made("ptr", Zero(gt[2]), h) ELSE [x |-> x, heap |-> h]
           r == FromCty(v, gt[2], Cell(to.heap, to.x), to.heap, order)
       IN [ok |-> r.ok, x |-> to.x, heap |-> [r.heap EXCEPT ![Content(to.x)].is = r.x]]

FromKnown(v, gt, x, h, order) ==
  LET from == Kind(v.ty) to == Kind(gt) IN
  CASE IsPrimitive(v.ty) -> FromPrimitive(v, to, x, h)
    [] from \in {"list", "set"} /\ to = "slice" -> FromCollection(v, gt, x, h, order)
    [] from = "map" /\ to = "map" -> FromCollection(v, gt, x, h, order)
    [] from \in {"list", "set"} /\ to = "array" ->
         FromSequence(v, "array", [i \in 1 .. gt[3] |-> gt[2]], x, h, order)
    [] from = "tuple" /\ to = "struct" -> FromSequence(v, "struct", FieldTypes(gt), x, h, order)
    [] from = "object" /\ to = "struct" -> FromObject(v, gt, x, h, order)
    [] OTHER -> Refused(x, h)

FromCty(v, gt, x, h, order) ==
  CASE Kind(gt) = "ptr" -> FromThrough(v, gt, x, h, order)
    [] gt = CtyValue -> Done(<<"value", v>>, h)
    [] Kind(gt) \notin {"ptr", "value"} /\ IsNull(v) ->
         IF <<Kind(v.ty), Kind(gt)>> \in {<<"list", "slice">>, <<"map", "map">>}
           THEN Done(Nil, h) ELSE Refused(x, h)
    [] Kind(gt) \notin {"ptr", "value"} /\ IsUnknown(v) -> Refused(x, h)
    [] Kind(gt) \notin {"ptr", "value"} /\ IsKnown(v) -> FromKnown(v, gt, x, h, order)

----------------------------------------------------------------------------
(* ToCtyValue.                                                             *)

(* What is behind all pointers: a type and what is held.                   *)
RECURSIVE Behind(_, _, _)
Behind(gt, x, h) ==
  IF Kind(gt) = "ptr" /\ x # Nil THEN Behind(gt[2], Cell(h, x), h) ELSE [ty |-> gt, x |-> x]

(* Elements are converted in order, members of maps and objects in any.    *)
FirstFailed(parts) == SelectSeq(parts, Failed)[1]
ToCollection(kind, parts) ==
  CASE AnyFailed(parts) -> IF kind = "map" THEN FailureIn(parts) ELSE FirstFailed(parts)
    [] ~AnyFailed(parts) /\ ~CanCollect(parts) -> Failure("panic")
    [] OTHER -> IF kind = "map" THEN MapVal(parts)
                ELSE IF kind = "list" THEN ListVal(parts) ELSE SetVal(parts)
ToTuple(parts) == IF AnyFailed(parts) THEN FirstFailed(parts) ELSE TupleVal(parts)
ToObject(parts) == IF AnyFailed(parts) THEN FailureIn(parts) ELSE ObjectVal(parts)

RECURSIVE ToCty(_, _, _, _)

(* What the parts are, where they are held.  What is not a struct of Go    *)
(* but is one to reflection has no field for any attribute.                *)
PartsIn(gt, x, h) == IF Kind(gt) \in {"slice", "map"} THEN Cell(h, x) ELSE Content(x)
AttributesIn(gt, x, h) ==
  IF Kind(gt) = "map" THEN [n \in DOMAIN Cell(h, x) |-> [ty |-> gt[2], x |-> Cell(h, x)[n]]]
  ELSE [n \in TagsOf(gt) |->
          [ty |-> gt[2][FieldOf(gt, n)].ty, x |-> Content(x)[FieldOf(gt, n)]]]

(* An attribute that is not there is null.  The first definition is a      *)
(* faulty variant that leaves it out.                                      *)
AttributesHeld(held, ty, h) ==
  [n \in DOMAIN Atys(ty) \cap DOMAIN held |-> ToCty(held[n].ty, held[n].x, Atys(ty)[n], h)]
AttributesFor(held, ty, h) ==
  [n \in DOMAIN Atys(ty) |->
     IF n \in DOMAIN held THEN ToCty(held[n].ty, held[n].x, Atys(ty)[n], h)
                          ELSE NullVal(Atys(ty)[n])]

ElementsFor(gt, parts, ety, h) == [k \in DOMAIN parts |-> ToCty(gt[2], parts[k], ety, h)]
(* A cty.Value and a big.Int are structs of two private fields, of which   *)
(* the first is a type or a sign: it makes no number or string, with which *)
(* every tuple encoded here begins (EncodeAssumption).                     *)
TupleFor(gt, parts, etys, h) ==
  IF Kind(gt) \in {"value", "bigint"} \/ DOMAIN parts # DOMAIN etys THEN Failure("error")
  ELSE ToTuple([i \in DOMAIN parts |->
         ToCty(IF Kind(gt) = "slice" THEN gt[2] ELSE gt[2][i].ty, parts[i], etys[i], h)])
CollectionFor(gt, parts, ty, h) ==
  IF DOMAIN parts = {} THEN Empty(ty)
  ELSE ToCollection(Kind(ty), ElementsFor(gt, parts, Elem(ty), h))

(* Which kinds of Go become which of cty, and are null if they are nil.    *)
Becomes ==
  ({"slice"} \X {"list", "set", "tuple"}) \cup ({"array"} \X {"list", "set"})
    \cup ({"map"} \X {"map", "object"}) \cup ({"struct"} \X {"tuple", "object"})
    \cup ({"value", "bigint"} \X {"tuple", "object"})

ToKnown(gt, x, ty, h) ==
  CASE ty = Dynamic -> IF gt = CtyValue THEN Content(x) ELSE Failure("error")
    [] IsPrimitive(ty) ->
         IF Kind(gt) \in KindsFor(ty) THEN Known(ty, Content(x)) ELSE Failure("error")
    [] ty # Dynamic /\ ~IsPrimitive(ty) ->
         CASE <<Kind(gt), Kind(ty)>> \notin Becomes -> Failure("error")
           [] <<Kind(gt), Kind(ty)>> \in Becomes /\ x = Nil -> NullVal(ty)
           [] OTHER ->
                CASE IsCollection(ty) -> CollectionFor(gt, PartsIn(gt, x, h), ty, h)
                  [] Kind(ty) = "tuple" -> TupleFor(gt, PartsIn(gt, x, h), Etys(ty), h)
                  [] Kind(ty) = "object" -> ToObject(AttributesFor(AttributesIn(gt, x, h), ty, h))

ToCty(gt, x, ty, h) ==
  LET behind == Behind(gt, x, h) IN
  IF gt = CtyValue THEN Convert(Content(x), ty)
  ELSE IF Kind(behind.ty) = "ptr" THEN NullVal(ty)
  ELSE ToKnown(behind.ty, behind.x, ty, h)

(* ImpliedType, where there is one. *)
RECURSIVE ImpliedType(_)
ImpliedType(gt) ==
  LET of == IF Kind(gt) \in {"ptr", "slice", "map"} THEN ImpliedType(gt[2]) ELSE NilType
      atys == [n \in TagsOf(gt) |-> ImpliedType(gt[2][FieldOf(gt, n)].ty)]
  IN CASE gt = CtyValue -> Dynamic
       [] Kind(gt) = "ptr" -> of
       [] Kind(gt) \in {"int", "uint", "float"} -> Number
       [] Kind(gt) = "string" -> String
       [] Kind(gt) = "bool" -> Bool
       [] Kind(gt) = "slice" /\ of # NilType -> List(of)
       [] Kind(gt) = "map" /\ of # NilType -> Map(of)
       [] Kind(gt) = "struct" /\ TagsOf(gt) # {} /\ ~\E n \in TagsOf(gt) : atys[n] = NilType ->
            Object(atys, {})
       [] OTHER -> NilType
=============================================================================
