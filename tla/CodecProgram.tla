---------------------------- MODULE CodecProgram ----------------------------
(***************************************************************************)
(* A program writes a value as JSON or msgpack, for a type that may leave  *)
(* parts open, and a program reads the document: for the same type, for    *)
(* another one, as when what is expected has changed since it was written, *)
(* or for the type that the document suggests by itself.                   *)
(***************************************************************************)
EXTENDS MsgpackCodec

CONSTANTS
  Inputs,      \* the values to write
  WriteTypes,  \* the types to write them for
  ReadTypes    \* other types to read them for

VARIABLES
  value,   \* the value, converted to the type it is written for once it is
  codec,   \* how it was written
  wanted,  \* for which type
  doc,     \* the document
  asked,   \* for which type it was read, and why for that
  result   \* what was read

vars == <<value, codec, wanted, doc, asked, result>>

Nothing == [how |-> "nothing", ty |-> NilType]

----------------------------------------------------------------------------

(* What is written for ty instead of v (Marshal). *)
Conformed(v, ty) == IF Conforms(v.ty, ty) THEN v ELSE Convert(v, ty)

Documented(c, v, ty) ==
  IF Failed(v) THEN NoDocument
  ELSE IF c = "json" THEN JsonOf(v, ty) ELSE MsgpackOf(v, ty)

(* Unmarshal. *)
Read(c, d, ty) == IF c = "json" THEN FromJson(d, ty, TRUE) ELSE FromMsgpack(d, ty)
Implied(c, d) == IF c = "json" THEN JsonImplied(d) ELSE MsgpackImplied(d)

Init ==
  /\ value \in Inputs
  /\ codec = "none" /\ wanted = NilType /\ doc = NoDocument
  /\ asked = Nothing /\ result = Failure("none")

(* Marshal, which ends in a document or an error. *)
Write(c, ty) ==
  /\ codec = "none"
  /\ value' = Conformed(value, ty)
  /\ codec' = c /\ wanted' = ty
  /\ doc' = Documented(c, value', ty)
  /\ UNCHANGED <<asked, result>>

ReadFor(how, ty) ==
  /\ doc # NoDocument /\ asked = Nothing
  /\ asked' = [how |-> how, ty |-> ty]
  /\ result' = Read(codec, doc, ty)
  /\ UNCHANGED <<value, codec, wanted, doc>>

ReadBack == ReadFor("same", wanted)

(* No array or object is too short for a tuple or object type, at any      *)
(* depth.  What a reader makes of one that is differs with the codec.      *)
RECURSIVE Fits(_, _)
Fits(d, ty) ==
  ty # Dynamic /\ ~IsPrimitive(ty) /\ Form(d) = FormFor(ty) =>
    IF IsCollection(ty) THEN \A k \in DOMAIN Content(d) : Fits(Content(d)[k], Elem(ty))
    ELSE /\ DOMAIN Content(d) = {} => DOMAIN ty[2] = {}
         /\ Kind(ty) = "tuple" => Len(Etys(ty)) <= Len(Content(d))
         /\ \A k \in DOMAIN Content(d) \cap DOMAIN ty[2] : Fits(Content(d)[k], ty[2][k])

ReadForOther(ty) ==
  /\ doc # NoDocument /\ asked = Nothing
  /\ Fits(doc, ty)
  /\ ReadFor("other", ty)

ReadForImplied ==
  /\ doc # NoDocument /\ asked = Nothing
  /\ Implied(codec, doc) # NilType
  /\ ReadFor("implied", Implied(codec, doc))

Next ==
  \/ \E c \in {"json", "msgpack"}, ty \in WriteTypes : Write(c, ty)
  \/ ReadBack \/ \E ty \in ReadTypes : ReadForOther(ty)
  \/ ReadForImplied

Spec == Init /\ [][Next]_vars

----------------------------------------------------------------------------
(* Properties.                                                             *)

(* The program reads back what was written.  What was written is of the    *)
(* type asked for, but where conversion of a set of unknown length made a  *)
(* list of another type.                                                   *)
IsReadBack == asked.how = "same" /\ Conforms(value.ty, wanted)

LongPrefix(v) == IsUnknown(v) /\ v.ty = String /\ MinLen(v) > MaxPrefixLength
RECURSIVE HasLongPrefix(_)
HasLongPrefix(v) == LongPrefix(v) \/ \E p \in PartsOf(v) : HasLongPrefix(p)

(* "a msgpack serialization of the given value that can be decoded into    *)
(* the given type later using Unmarshal" (msgpack/marshal.go:14, and       *)
(* json/value.go:10 likewise): reading back neither fails nor panics.  Nor *)
(* does reading for another type panic: "if conversion isn't possible then *)
(* an error is returned" (json/value.go:60).                               *)
WrittenCanBeRead ==
  /\ asked.how = "same" => ~Failed(result)
  /\ result # Failure("panic")

(* Where the type says everything, or nothing, of the value, it comes back *)
(* as it was: types, nulls, the order of elements and the bounds of        *)
(* unknown values; but for prefixes that were cut.                         *)
Unchanged ==
  (wanted = Dynamic \/ ~HasDynamic(wanted)) /\ ~HasLongPrefix(value) =>
    result = value

(* What was read can be written and read again without change: loss of     *)
(* detail, such as a cut prefix, happens once.                             *)
LossHappensOnce == Read(codec, Documented(codec, result, wanted), wanted) = result

(* Reading back never claims more than was written, whatever is open in    *)
(* the type, unknown in the value or cut from a prefix                     *)
(* (msgpack/unknown.go:87), and loses what it loses once.                  *)
ReadBackIsFaithful ==
  IsReadBack /\ ~Failed(result) => Within(value, result) /\ Unchanged /\ LossHappensOnce

(* Reading for another type gives what conversion to that type gives, if   *)
(* both succeed (json/value.go:59).                                        *)
ReadingConverts ==
  asked.how = "other" /\ codec = "json" /\ ~HasDynamic(wanted) /\ ~HasDynamic(asked.ty) =>
    \E converted \in {Convert(value, asked.ty)} :
      Failed(converted) \/ result = converted

(* What is read is a value of the type that was asked for, whatever the    *)
(* document was written for (json/value.go:56).                            *)
ReadAsAsked ==
  asked.how \in {"same", "other"} /\ ~Failed(result) =>
    WellFormed(result) /\ Conforms(result.ty, asked.ty) /\ ReadingConverts

(* A document can be read for the type it implies, to a value of exactly   *)
(* that type; written for it again, JSON stays the same (json/simple.go).  *)
ImpliedTypeFits ==
  asked.how = "implied" =>
    /\ ~Failed(result) /\ result.ty = asked.ty
    /\ codec = "json" => JsonOf(result, asked.ty) = doc
=============================================================================
