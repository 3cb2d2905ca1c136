---------------------------- MODULE MsgpackCodec ----------------------------
(***************************************************************************)
(* Values written as msgpack and read back (cty/msgpack).  Documents are   *)
(* those of JsonCodec, with the bytes of a type's description, and with    *)
(* extensions for unknown values: the entries of a map of refinements.     *)
(***************************************************************************)
EXTENDS JsonCodec

CONSTANTS
  Huge,             \* numbers beyond int64, whose digits fill a kilobyte
  MaxPrefixLength,  \* a longer prefix is cut (256 bytes in the code)
  CharEnds,         \* where the characters of the known prefixes end
  Delimiters        \* the ends that no other character can combine with

ASSUME CodecAssumption ==
  /\ Huge \subseteq Int /\ MaxPrefixLength \in Nat \ {0}
  /\ CharEnds \subseteq Nat /\ 0 \in CharEnds /\ Delimiters \subseteq CharEnds

----------------------------------------------------------------------------
(* Refinements of unknown values (unknown.go).  All known prefixes are     *)
(* prefixes of one text and stand for their lengths in bytes.              *)

LastEnd(n) == CHOOSE i \in CharEnds : i <= n /\ \A j \in CharEnds : j <= n => j <= i

(* SafeKnownPrefix: without the last character, unless it is a delimiter,  *)
(* and without part of one.                                                *)
SafeKnownPrefix(n) ==
  LET end == LastEnd(n) IN
  IF end = 0 \/ end \in Delimiters THEN end ELSE LastEnd(end - 1)

(* Faulty variants: the first may cut a character, the second takes the    *)
(* limit for the length of any prefix.                                     *)
CutAnywhere(n) == IF n > MaxPrefixLength THEN MaxPrefixLength - 1 ELSE n
CutAll(n) == MaxPrefixLength
Cut(n) == IF n > MaxPrefixLength THEN SafeKnownPrefix(MaxPrefixLength - 1) ELSE n

Entry(key, x, default) == IF x = default THEN << >> ELSE <<<<key, x>>>>
Entries(v) ==
  Entry("nullness", NotNull(v), FALSE) \o
  (CASE v.ty = Number -> Entry("min", MinLen(v), 0) \o Entry("max", MaxLen(v), Inf)
     [] v.ty = String -> IF MinLen(v) = 0 THEN << >> ELSE <<<<"prefix", Cut(MinLen(v))>>>>
     [] IsCollection(v.ty) ->
          Entry("minlen", MinLen(v), 0) \o Entry("maxlen", MaxLen(v), Inf)
     [] OTHER -> << >>)

(* An extension of more than a kilobyte is not read. *)
Oversize(entries) ==
  \E i \in DOMAIN entries : entries[i][1] \in {"min", "max"} /\ entries[i][2] \in Huge

Applies(entry, ty) ==
  CASE entry[1] \in {"min", "max"} -> ty = Number
    [] entry[1] = "prefix" -> ty = String /\ entry[2] \in CharEnds
    [] entry[1] \in {"minlen", "maxlen"} -> IsCollection(ty)
    [] entry[1] = "nullness" -> TRUE

(* The refinement that the builder is given, call by call. *)
Bound(entries, keys, default) ==
  LET found == SelectSeq(entries, LAMBDA e : e[1] \in keys) IN
  IF found = << >> THEN default ELSE found[1][2]

UnknownFrom(entries, ty) ==
  IF entries = << >> THEN UnknownVal(ty)
  ELSE IF Oversize(entries) THEN Failure("error")
  ELSE IF ty = Dynamic THEN DynamicVal
  ELSE IF \E i \in DOMAIN entries : ~Applies(entries[i], ty) THEN Failure("error")
  ELSE Refined(ty, Bound(entries, {"nullness"}, FALSE),
               Bound(entries, {"min", "minlen", "prefix"}, 0),
               Bound(entries, {"max", "maxlen"}, Inf))

----------------------------------------------------------------------------
(* Writing (marshal) and reading (unmarshal).                              *)

(* Where the type is left open, an array of its description and the value. *)
Described(ty, doc) ==
  IF doc = NoDocument THEN NoDocument ELSE Array(<<<<"bytes", TypeDoc(ty)>>, doc>>)

MsgpackScalar(v) ==
  IF v.ty = Number /\ Parts(v) \in Huge THEN Text(Texts[Parts(v) + 2]) ELSE Scalar(v)

RECURSIVE MsgpackOf(_, _)
MsgpackOf(v, ty) ==
  IF v.marks # {} THEN NoDocument
  ELSE IF ty = Dynamic /\ v.ty # Dynamic THEN Described(v.ty, MsgpackOf(v, v.ty))
  ELSE IF IsUnknown(v) THEN <<"ext", IF v.ty = Dynamic THEN << >> ELSE Entries(v)>>
  ELSE IF IsNull(v) THEN Null
  ELSE IF IsPrimitive(ty) THEN MsgpackScalar(v)
  ELSE Whole(ty, [k \in DOMAIN Parts(v) |-> MsgpackOf(Parts(v)[k], PartType(ty, k))])

(* Bytes pass for a string: one that is no number, and no more is told.    *)
MsgpackPrimitive(doc, ty) ==
  CASE Form(doc) = Kind(ty) \/ (Form(doc) = "text" /\ ty = String) -> Known(ty, Content(doc))
    [] Form(doc) = "text" /\ ty = Number -> ConvertPrimitive(Known(String, Content(doc)), Number)
    [] Form(doc) = "bytes" /\ ty = String -> Known(String, "type")
    [] OTHER -> Failure("error")

RECURSIVE FromMsgpack(_, _)
MsgpackDynamic(doc) ==
  IF doc = Null THEN NullVal(Dynamic)
  ELSE IF Form(doc) # "array" \/ Len(Content(doc)) # 2 THEN Failure("error")
  ELSE IF Form(Content(doc)[1]) # "bytes" THEN Failure("error")
  ELSE FromMsgpack(Content(doc)[2], DocType(Content(Content(doc)[1])))

(* No elements make an empty tuple or object, whatever the type asks for.  *)
MsgpackStructure(ty, docs) ==
  CASE DOMAIN docs = {} -> Structure(Kind(ty), docs)
    [] DOMAIN docs # {} /\ DOMAIN docs # DOMAIN ty[2] -> Failure("error")
    [] DOMAIN docs # {} /\ DOMAIN docs = DOMAIN ty[2] ->
         StructureFrom(ty, [k \in DOMAIN docs |-> FromMsgpack(docs[k], ty[2][k])])

FromMsgpack(doc, ty) ==
  IF Form(doc) = "ext" THEN UnknownFrom(Content(doc), ty)
  ELSE IF ty = Dynamic THEN MsgpackDynamic(doc)
  ELSE IF doc = Null THEN NullVal(ty)
  ELSE IF IsPrimitive(ty) THEN MsgpackPrimitive(doc, ty)
  ELSE IF Form(doc) # FormFor(ty) THEN Failure("error")
  ELSE IF IsCollection(ty)
    THEN CollectionFrom(ty, [k \in DOMAIN Content(doc) |-> FromMsgpack(Content(doc)[k], Elem(ty))])
    ELSE MsgpackStructure(ty, Content(doc))

(* A part of a structure that implies no type leaves it without one.       *)
ImpliedStructure(kind, types) ==
  IF \E k \in DOMAIN types : types[k] = NilType THEN NilType
  ELSE IF kind = "array" THEN ImpliedArray(types) ELSE Object(types, {})

RECURSIVE MsgpackImplied(_)
MsgpackImplied(doc) ==
  CASE doc = Null \/ Form(doc) = "ext" -> Dynamic
    [] Form(doc) = "text" -> String
    [] Form(doc) \in {"number", "bool"} -> <<Form(doc)>>
    [] Form(doc) \in {"array", "object"} ->
         ImpliedStructure(Form(doc),
           [k \in DOMAIN Content(doc) |-> MsgpackImplied(Content(doc)[k])])
    [] Form(doc) = "bytes" -> NilType
=============================================================================
