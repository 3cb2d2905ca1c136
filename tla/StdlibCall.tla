----------------------------- MODULE StdlibCall -----------------------------
(***************************************************************************)
(* Calls of the functions of the standard library: what each says of its   *)
(* parameters and what Function.Call makes of its Type, Impl and           *)
(* RefineResult callbacks (cty/function, function.go, stdlib).  Next to    *)
(* them stand operations of Value that no function of the library wraps.   *)
(***************************************************************************)
EXTENDS StdlibMaps

(* A parameter: the type its arguments conform to and what they may be     *)
(* besides, of "null", "unknown", "dynamic" and "marked".  Most functions  *)
(* promise that their results are not null.                                *)
Param(ty, allows) == [ty |-> ty, allows |-> allows]
Any(allows) == Param(Dynamic, allows)
Nullable(params, var) == [params |-> params, var |-> var, notNull |-> FALSE]
Fixed(params) == [params |-> params, var |-> Any({}), notNull |-> TRUE]
Variadic(param) == [params |-> << >>, var |-> param, notNull |-> TRUE]

AnySet == Param(Set(Dynamic), {"dynamic"})
AnyList == Param(List(Dynamic), {})
Comparable == Any({"null", "unknown", "dynamic"})

SetFunctions == {"setunion", "setintersection", "setsubtract", "setsymmetricdifference"}

SpecOf(f) ==
  CASE f = "hasindex" -> Fixed(<<Any({"dynamic"}), Any({"dynamic"})>>)
    [] f = "index" -> Nullable(<<Any({}), Any({"dynamic"})>>, Any({}))
    [] f = "length" -> Fixed(<<Any({"dynamic", "unknown", "marked"})>>)
    [] f = "element" -> Nullable(<<Any({"marked"}), Param(Number, {})>>, Any({}))
    [] f = "coalescelist" -> Variadic(Comparable)
    [] f = "compact" -> Fixed(<<Param(List(String), {})>>)
    [] f = "contains" -> Fixed(<<Any({}), Any({"null"})>>)
    [] f = "distinct" -> Fixed(<<AnyList>>)
    [] f = "chunklist" -> Fixed(<<Param(List(Dynamic), {"marked"}), Param(Number, {"marked"})>>)
    [] f = "flatten" -> Fixed(<<Any({"marked"})>>)
    [] f = "keys" -> Fixed(<<Any({"unknown", "marked"})>>)
    [] f = "lookup" ->
         Nullable(<<Any({"marked"}), Param(String, {"marked"}), Any({"marked"})>>, Any({}))
    [] f = "merge" -> Variadic(Any({"dynamic", "null", "marked"}))
    [] f = "reverse" -> Fixed(<<Any({"marked"})>>)
    [] f = "setproduct" -> Variadic(Any({"marked", "unknown"}))
    [] f = "slice" -> Fixed(<<Any({"marked"}), Param(Number, {}), Param(Number, {})>>)
    [] f = "values" -> Fixed(<<Any({"marked"})>>)
    [] f = "zipmap" -> Fixed(<<Param(List(String), {"marked"}), Any({"marked"})>>)
    [] f = "sethaselement" -> Fixed(<<AnySet, Any({"dynamic"})>>)
    [] f = "setsubtract" -> Fixed(<<AnySet, AnySet>>)
    [] f \in SetFunctions \ {"setsubtract"} -> Variadic(AnySet)
    [] f = "concat" -> Variadic(Any({"marked"}))
    [] f = "range" -> Variadic(Param(Number, {}))
    [] f \in {"equal", "notequal"} -> Fixed(<<Comparable, Comparable>>)
    [] f = "coalesce" -> Variadic(Comparable)

TypeOf(f, args) ==
  CASE f \in {"contains", "sethaselement", "equal", "notequal"} -> Bool
    [] f = "hasindex" -> HasIndexType(args[1])
    [] f = "index" -> IndexType(args[1], args[2])
    [] f = "length" -> LengthType(args[1])
    [] f = "element" -> ElementFuncType(args[1], args[2])
    [] f = "coalescelist" -> CoalesceListType(args)
    [] f = "compact" -> List(String)
    [] f = "distinct" -> args[1].ty
    [] f = "chunklist" -> List(args[1].ty)
    [] f = "flatten" -> FlattenType(args[1])
    [] f = "keys" -> KeysType(args[1])
    [] f = "lookup" -> LookupType(args[1], args[2], args[3])
    [] f = "merge" -> MergeType(args)
    [] f = "reverse" -> ReverseType(args[1])
    [] f = "setproduct" -> SetProductType(args)
    [] f = "slice" -> SliceType(args[1], args[2], args[3])
    [] f = "values" -> ValuesType(args[1])
    [] f = "zipmap" -> ZipmapType(args[1], args[2])
    [] f \in SetFunctions -> SetOperationType(args)
    [] f = "concat" -> ConcatType(args)
    [] f = "range" -> List(Number)
    [] f = "coalesce" -> IF args = << >> THEN NilType ELSE Unify(TypesOf(args), TRUE).ty

(* The arguments that an Impl callback converts as a first step, and to    *)
(* what type; a failed conversion is an error if the argument is used.     *)
Converts(f, i, ty) ==
  \/ f \in SetFunctions \cup {"coalesce"}
  \/ f = "concat" /\ Kind(ty) = "list"
  \/ f = "lookup" /\ i = 3
Prepared(f, args, ty) ==
  [i \in DOMAIN args |-> IF Converts(f, i, ty) THEN Convert(args[i], ty) ELSE args[i]]

ImplOf(f, args, ty) ==
  CASE f = "hasindex" -> HasIndex(args[1], args[2])
    [] f = "index" -> IndexImpl(args[1], args[2])
    [] f = "length" -> LengthVal(args[1])
    [] f = "element" -> ElementImpl(args[1], args[2])
    [] f = "coalescelist" -> CoalesceListImpl(args, ty)
    [] f = "compact" -> CompactImpl(args[1], ty)
    [] f = "contains" -> ContainsImpl(args[1], args[2])
    [] f = "distinct" -> DistinctImpl(args[1], ty)
    [] f = "chunklist" -> ChunklistImpl(args[1], args[2])
    [] f = "flatten" -> FlattenImpl(args[1], ty)
    [] f = "keys" -> KeysImpl(args[1], ty)
    [] f = "lookup" -> LookupImpl(args[1], args[2], args[3], ty)
    [] f = "merge" -> MergeImpl(args, ty)
    [] f = "reverse" -> ReverseImpl(args[1], ty)
    [] f = "setproduct" -> SetProductImpl(args, ty)
    [] f = "slice" -> SliceImpl(args[1], args[2], args[3], ty)
    [] f = "values" -> ValuesImpl(args[1], ty)
    [] f = "zipmap" -> ZipmapImpl(args[1], args[2], ty)
    [] f = "sethaselement" -> HasElement(args[1], args[2])
    [] f \in SetFunctions -> SetOperationImpl(f, args, ty)
    [] f = "concat" -> ConcatImpl(args, ty)
    [] f = "range" -> RangeImpl(args)
    [] f = "equal" -> Equals(args[1], args[2])
    [] f = "notequal" -> Not(Equals(args[1], args[2]))
    [] f = "coalesce" -> CoalesceImpl(args, ty)

----------------------------------------------------------------------------
(* Function.Call.                                                          *)

ParamAt(f, i) ==
  IF i \in DOMAIN SpecOf(f).params THEN SpecOf(f).params[i] ELSE SpecOf(f).var
Allows(f, i, what) == what \in ParamAt(f, i).allows

(* What is wrong with an argument, looked at in their order.               *)
Verdict(f, i, v) ==
  CASE IsNull(v) /\ ~Allows(f, i, "null") -> "error"
    [] (~IsNull(v) \/ Allows(f, i, "null")) /\ v.ty = Dynamic ->
         IF Allows(f, i, "dynamic") THEN "fits" ELSE "inexact"
    [] OTHER -> IF Conforms(v.ty, ParamAt(f, i).ty) THEN "fits" ELSE "error"
FirstMisfit(f, args) ==
  Head(SelectSeq([i \in DOMAIN args |-> Verdict(f, i, args[i])], LAMBDA x : x # "fits")
       \o <<"fits">>)

(* The marks that Call takes off and puts back on.                         *)
TakenMarks(f, args) ==
  UNION {IF Allows(f, i, "marked") THEN {} ELSE DeepMarks(args[i]) : i \in DOMAIN args}
AsAllowed(f, args) ==
  [i \in DOMAIN args |-> IF Allows(f, i, "marked") THEN args[i] ELSE Unmarked(args[i])]

(* The promise that a result is not null panics if it is.                  *)
RefineResult(f, v) ==
  IF ~SpecOf(f).notNull \/ Failed(v) THEN v
  ELSE IF IsNull(v) THEN Panic
  ELSE IF IsUnknown(v)
    THEN WithMarks(Refined(v.ty, TRUE, MinLen(v), MaxLen(v)), v.marks)
  ELSE v

Checked(v, ty) ==
  IF Failed(v) THEN Error ELSE IF Conforms(v.ty, ty) THEN v ELSE Failure("nonconforming")
Answered(f, args, ty) ==
  CASE ty = NilType -> Error
    [] ty # NilType /\ \E i \in DOMAIN args : IsUnknown(args[i]) /\ ~Allows(f, i, "unknown") ->
         UnknownVal(ty)
    [] OTHER -> Checked(ImplOf(f, Prepared(f, args, ty), ty), ty)
CallAllowed(f, args) == RefineResult(f, Answered(f, args, TypeOf(f, args)))
Call(f, args) ==
  LET misfit == FirstMisfit(f, args) IN
  Remarked(IF misfit = "error" THEN Error
           ELSE IF misfit = "inexact" THEN DynamicVal
           ELSE CallAllowed(f, AsAllowed(f, args)),
           TakenMarks(f, args))

(* The operations of Value beside them.                                    *)
Methods == {"getattr", "unknownasnull"}
Evaluate(f, args) ==
  CASE f = "getattr" -> GetAttr(args[1], Parts(args[2]))
    [] f = "unknownasnull" -> UnknownAsNull(args[1])
    [] f \notin Methods -> Call(f, args)
=============================================================================
