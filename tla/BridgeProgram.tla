--------------------------- MODULE BridgeProgram ---------------------------
(***************************************************************************)
(* A program that keeps a Go variable, decodes one value after another     *)
(* into it, whatever became of the last, and encodes what it holds.        *)
(***************************************************************************)
EXTENDS GoBridge, TLC

CONSTANTS
  GoTypes,      \* the types of the variable
  Values,       \* what is decoded
  EncodeTypes,  \* types to encode for, beside the one that is implied
  MaxDecodes    \* how many values are decoded

ASSUME EncodeAssumption ==
  \A ty \in EncodeTypes : Kind(ty) = "tuple" => Etys(ty)[1] \in {Number, String}

VARIABLES
  type,     \* the type of the variable
  target,   \* what it holds
  heap,     \* what pointers, slices and maps refer to
  decoded,  \* the values it was given
  ok,       \* did it take the last one?
  encoded   \* the type it was encoded for and what became of it

vars == <<type, target, heap, decoded, ok, encoded>>

Nothing == [how |-> "nothing", ty |-> NilType, v |-> Failure("none")]
Latest == decoded[Len(decoded)]

----------------------------------------------------------------------------

Init ==
  /\ type \in GoTypes
  /\ target = Zero(type) /\ heap = << >>
  /\ decoded = << >> /\ ok = FALSE
  /\ encoded = Nothing

(* FromCtyValue, whose random order of attributes is one of any. *)
Decode(v, order) ==
  /\ Len(decoded) < MaxDecodes /\ encoded = Nothing
  /\ \E r \in {FromCty(v, type, target, heap, order)} :
       /\ target' = r.x /\ heap' = r.heap /\ ok' = r.ok
  /\ decoded' = Append(decoded, v)
  /\ UNCHANGED <<type, encoded>>

(* ToCtyValue. *)
Encode(how, ty) ==
  /\ ok /\ encoded = Nothing /\ ty # NilType
  /\ encoded' = [how |-> how, ty |-> ty, v |-> ToCty(type, target, ty, heap)]
  /\ UNCHANGED <<type, target, heap, decoded, ok>>

EncodeAs(ty) == Encode("asked", ty)
EncodeAsImplied == Encode("implied", ImpliedType(type))

Orders ==
  {[i \in DOMAIN p |-> Names[p[i]]] : p \in Permutations(DOMAIN Names)}

Next ==
  \/ \E v \in Values, order \in Orders : Decode(v, order)
  \/ \E ty \in EncodeTypes : EncodeAs(ty)
  \/ EncodeAsImplied

Spec == Init /\ [][Next]_vars

----------------------------------------------------------------------------
(* Properties.                                                             *)

(* The type to give for what was decoded: that of the value, but open      *)
(* where it is in a cty.Value behind a pointer (docs/gocty.md:106).        *)
RECURSIVE TypeFor(_, _)
TypeFor(gt, ty) ==
  CASE gt = Ptr(CtyValue) -> Dynamic
    [] Kind(gt) = "struct" /\ Kind(ty) = "object" ->
         Object([n \in DOMAIN Atys(ty) |-> TypeFor(gt[2][FieldOf(gt, n)].ty, Atys(ty)[n])], {})
    [] Kind(gt) = "struct" /\ Kind(ty) = "tuple" ->
         Tuple([i \in DOMAIN Etys(ty) |-> TypeFor(gt[2][i].ty, Etys(ty)[i])])
    [] OTHER -> ty

(* What a variable took, it gives back: encoded for the type of the value  *)
(* decoded into it, it makes that value, whatever it held before and       *)
(* however far a decoding that failed had come (docs/gocty.md:40).         *)
DecodedComesBack == ok => ToCty(type, target, TypeFor(type, Latest.ty), heap) = Latest

(* To encode for a type is to convert what was decoded to that type, where *)
(* both can be done.                                                       *)
EncodingConverts ==
  ~HasDynamic(encoded.ty) =>
    \E converted \in {Convert(Latest, encoded.ty)} :
      Failed(converted) \/ encoded.v = converted

(* "The result will conform to the given type, or an error will be         *)
(* returned if this is not possible" (in.go:11); the type that Go's type   *)
(* implies is always possible (type_implied.go:9).  Values of cty that a   *)
(* program put into one list, of a type that leaves the elements open, can *)
(* differ in type, and ListVal panics.                                     *)
EncodedAsAsked ==
  encoded # Nothing =>
    IF Failed(encoded.v)
      THEN /\ encoded.v = Failure("panic") => HasDynamic(encoded.ty)
           /\ encoded.how = "implied" => encoded.v = Failure("panic")
      ELSE WellFormed(encoded.v) /\ Conforms(encoded.v.ty, encoded.ty) /\ EncodingConverts

(* The two directions agree: what was decoded is what is encoded, as the   *)
(* type that is asked for has it, or there is an error.                    *)
BothWaysAgree == DecodedComesBack /\ EncodedAsAsked

(* What can be seen of x, with all that it refers to in its place.         *)
RECURSIVE Shown(_, _)
Shown(x, h) ==
  CASE x[1] = "ptr" -> <<"ptr", Shown(Cell(h, x), h)>>
    [] x[1] \in {"slice", "map"} ->
         <<x[1], [k \in DOMAIN Cell(h, x) |-> Shown(Cell(h, x)[k], h)]>>
    [] x[1] \in {"array", "struct"} ->
         <<x[1], [i \in DOMAIN Content(x) |-> Shown(Content(x)[i], h)]>>
    [] OTHER -> x

(* A slice or map that a decoding made is the program's: a copy of the     *)
(* variable that still refers to it sees no later decoding in it, nor in   *)
(* anything it refers to, although pointers of the copy do (out.go:264).   *)
SlicesAreHandedOver ==
  [][\A c \in DOMAIN heap :
       heap[c].kind \in {"slice", "map"} =>
         Shown(<<heap[c].kind, c>>, heap') = Shown(<<heap[c].kind, c>>, heap)]_vars
=============================================================================
