----------------------------- MODULE JsonCodec -----------------------------
(***************************************************************************)
(* Values written as JSON and read back (cty/json, cty/json.go).  Text is  *)
(* left out: a document is the tree of what encoding/json writes and       *)
(* reads, and the members of an object have no order.                      *)
(***************************************************************************)
EXTENDS Conversion

(* Instead of a document: what cannot be written. *)
NoDocument == <<"error">>
Null == <<"null">>
Text(s) == <<"text", s>>
Array(docs) == <<"array", docs>>
Form(doc) == doc[1]
Content(doc) == doc[2]

(* A number, a boolean or a string. *)
Scalar(v) == <<IF v.ty = String THEN "text" ELSE Kind(v.ty), Parts(v)>>

(* The documents of the parts of a list, set or tuple, or of a map or      *)
(* object, put together.                                                   *)
Whole(ty, docs) ==
  IF \E k \in DOMAIN docs : docs[k] = NoDocument THEN NoDocument
  ELSE IF Kind(ty) \in {"map", "object"} THEN <<"object", docs>> ELSE Array(docs)

PartType(ty, k) == IF IsCollection(ty) THEN Elem(ty) ELSE ty[2][k]

----------------------------------------------------------------------------
(* The description of a type (Type.MarshalJSON), and the type described.   *)

RECURSIVE TypeDoc(_), DocType(_)
TypeDoc(ty) ==
  CASE IsPrimitive(ty) \/ ty = Dynamic -> Text(Kind(ty))
    [] IsCollection(ty) -> Array(<<Text(Kind(ty)), TypeDoc(Elem(ty))>>)
    [] Kind(ty) = "tuple" ->
         Array(<<Text("tuple"), Array([i \in DOMAIN Etys(ty) |-> TypeDoc(Etys(ty)[i])])>>)
    [] Kind(ty) = "object" ->
         Array(<<Text("object"), <<"object", [n \in DOMAIN Atys(ty) |-> TypeDoc(Atys(ty)[n])]>>>>)

DocType(doc) ==
  IF Form(doc) = "text" THEN <<Content(doc)>>
  ELSE LET kind == Content(Content(doc)[1])
           inner == Content(doc)[2]
           parts == [k \in DOMAIN Content(inner) |-> DocType(Content(inner)[k])]
       IN CASE kind \in {"list", "set", "map"} -> <<kind, DocType(inner)>>
            [] kind = "tuple" -> Tuple(parts)
            [] kind = "object" -> Object(parts, {})

----------------------------------------------------------------------------
(* Writing (marshal).  Where the type is left open, the value is wrapped   *)
(* with a description of its own.                                          *)

Wrapped(ty, doc) ==
  IF doc = NoDocument THEN NoDocument
  ELSE <<"object", [k \in {"value", "type"} |-> IF k = "value" THEN doc ELSE TypeDoc(ty)]>>

RECURSIVE JsonOf(_, _)
JsonOf(v, ty) ==
  IF v.marks # {} \/ IsUnknown(v) THEN NoDocument
  ELSE IF ty = Dynamic /\ v.ty # Dynamic THEN Wrapped(v.ty, JsonOf(v, v.ty))
  ELSE IF IsNull(v) THEN Null
  ELSE IF IsPrimitive(ty) THEN Scalar(v)
  ELSE Whole(ty, [k \in DOMAIN Parts(v) |-> JsonOf(Parts(v)[k], PartType(ty, k))])

----------------------------------------------------------------------------
(* Reading (unmarshal).                                                    *)

(* The failure of the first part that failed. *)
FirstFailure(parts) ==
  LET failed == SelectSeq(parts, Failed) IN failed[1]

(* A collection of what was read, which panics if its elements differ in   *)
(* type.  The first definition is a faulty variant that takes the elements *)
(* as they are.                                                            *)
CollectionAsRead(ty, parts) ==
  IF AnyFailed(parts) THEN FirstFailure(IF Kind(ty) = "map" THEN InOrder(parts) ELSE parts)
  ELSE Known(ty, parts)
CollectionFrom(ty, parts) ==
  IF AnyFailed(parts) THEN FirstFailure(IF Kind(ty) = "map" THEN InOrder(parts) ELSE parts)
  ELSE IF DOMAIN parts = {} THEN Empty(ty)
  ELSE IF CanCollect(parts) THEN Collect(Kind(ty), parts)
  ELSE Failure("panic")

StructureFrom(ty, parts) ==
  IF ~AnyFailed(parts) THEN Structure(Kind(ty), parts)
  ELSE FirstFailure(IF Kind(ty) = "object" THEN InOrder(parts) ELSE parts)

JsonPrimitive(doc, ty) ==
  CASE Form(doc) = Kind(ty) \/ (Form(doc) = "text" /\ ty = String) -> Known(ty, Content(doc))
    [] Form(doc) = "text" /\ ty # String -> ConvertPrimitive(Known(String, Content(doc)), ty)
    [] Form(doc) \in {"number", "bool"} /\ ty = String ->
         ConvertPrimitive(Known(<<Form(doc)>>, Content(doc)), String)
    [] OTHER -> Failure("error")

(* A tuple with too few elements is an error with the path to the tuple's  *)
(* parent: a slice out of bounds, if it has none.                          *)
JsonTuple(ty, docs, parts, top) ==
  IF AnyFailed(parts) THEN FirstFailure(parts)
  ELSE IF Len(docs) > Len(Etys(ty)) THEN Failure("error")
  ELSE IF Len(docs) < Len(Etys(ty)) THEN Failure(IF top THEN "panic" ELSE "error")
  ELSE TupleVal(parts)

(* Attributes that are missing are null.                                   *)
JsonObject(ty, parts) ==
  StructureFrom(ty, [n \in DOMAIN Atys(ty) \cup DOMAIN parts |->
    IF n \in DOMAIN parts THEN parts[n] ELSE NullVal(Atys(ty)[n])])

FormFor(ty) == IF Kind(ty) \in {"map", "object"} THEN "object" ELSE "array"

RECURSIVE FromJson(_, _, _)
JsonDynamic(doc) ==
  IF Form(doc) # "object" \/ DOMAIN Content(doc) # {"value", "type"} THEN Failure("error")
  ELSE FromJson(Content(doc)["value"], DocType(Content(doc)["type"]), TRUE)

FromJson(doc, ty, top) ==
  IF doc = Null THEN NullVal(ty)
  ELSE IF ty = Dynamic THEN JsonDynamic(doc)
  ELSE IF IsPrimitive(ty) THEN JsonPrimitive(doc, ty)
  ELSE IF Form(doc) # FormFor(ty) THEN Failure("error")
  ELSE LET docs == Content(doc) IN
    CASE IsCollection(ty) ->
           CollectionFrom(ty, [k \in DOMAIN docs |-> FromJson(docs[k], Elem(ty), FALSE)])
      [] Kind(ty) = "tuple" ->
           JsonTuple(ty, docs,
             [i \in DOMAIN docs \cap DOMAIN Etys(ty) |-> FromJson(docs[i], Etys(ty)[i], FALSE)], top)
      [] Kind(ty) = "object" ->
           JsonObject(ty,
             [n \in DOMAIN docs |-> IF n \in DOMAIN Atys(ty) THEN FromJson(docs[n], Atys(ty)[n], FALSE)
                                                             ELSE Failure("error")])

----------------------------------------------------------------------------
(* The type a document suggests by itself (ImpliedType).  The first        *)
(* definition is a faulty variant that takes the first element's type for  *)
(* that of all.                                                            *)

ImpliedList(types) == IF types = << >> THEN Tuple(types) ELSE List(types[1])
ImpliedArray(types) == Tuple(types)

RECURSIVE JsonImplied(_)
JsonImplied(doc) ==
  CASE doc = Null -> Dynamic
    [] Form(doc) = "text" -> String
    [] Form(doc) \in {"number", "bool"} -> <<Form(doc)>>
    [] Form(doc) = "array" ->
         ImpliedArray([i \in DOMAIN Content(doc) |-> JsonImplied(Content(doc)[i])])
    [] Form(doc) = "object" ->
         Object([n \in DOMAIN Content(doc) |-> JsonImplied(Content(doc)[n])], {})
=============================================================================
