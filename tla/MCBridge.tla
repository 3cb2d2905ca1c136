------------------------------ MODULE MCBridge ------------------------------
(***************************************************************************)
(* Go types with each kind of memory at some depth, values that fit some   *)
(* of them and values that fail part of the way.                           *)
(***************************************************************************)
EXTENDS BridgeProgram

MCNames == <<"a", "b">>
MCFractions == {7}

Int8 == Scalar("int")
Uint8 == Scalar("uint")
Float64 == Scalar("float")
BigInt == Scalar("bigint")
GoString == Scalar("string")
GoBool == Scalar("bool")
A(gt) == Field("a", gt)
B(gt) == Field("b", gt)

MCGoTypes ==
  { Int8, Uint8, Float64, BigInt, GoString, GoBool, CtyValue, Ptr(Int8), Ptr(Ptr(Int8)), Ptr(Slice(Uint8)),
    Slice(Int8), Slice(Ptr(Int8)), Slice(CtyValue), Array(Int8, 2), Array(Ptr(Int8), 2), Array(Slice(Int8), 2),
    GoMap(Int8), GoMap(Ptr(Uint8)), GoMap(CtyValue), GoMap(Slice(Int8)), Slice(Slice(Int8)),
    Struct(<<A(Int8), B(GoString)>>), Struct(<<A(Ptr(Int8)), B(Slice(Int8))>>),
    Struct(<<Field(Untagged, Int8), Field(Untagged, Slice(Int8))>>),
    Struct(<<A(Ptr(CtyValue)), B(CtyValue)>>), Ptr(Struct(<<A(Array(Int8, 2)), B(GoMap(Int8))>>)),
    Slice(Struct(<<A(Int8), B(Ptr(Int8))>>)), Struct(<<A(Int8), Field(Untagged, Int8)>>),
    Struct(<<A(Ptr(Struct(<<A(Int8), B(Ptr(Slice(Uint8)))>>)))>>) }

Num(n) == Known(Number, n)
Str(s) == Known(String, s)
OneA(x) == [n \in {"a"} |-> x]
AandB(x, y) == [n \in {"a", "b"} |-> IF n = "a" THEN x ELSE y]
ObjA(v) == ObjectVal(OneA(v))
ObjAB(v, w) == ObjectVal(AandB(v, w))
Nums(x, y) == ListVal(<<Num(x), Num(y)>>)

MCValues ==
  { Num(1), Num(-1), Num(3), Num(-3), Num(7), Str("x"), Known(Bool, TRUE), NullVal(Number),
    NullVal(List(Number)), NullVal(Set(Number)), UnknownVal(Number), DynamicVal,
    ListVal(<<Num(1)>>), Nums(1, 0), Nums(0, 3), Nums(3, -1), Empty(List(Number)),
    ListVal(<<Num(1), NullVal(Number)>>), SetVal(<<Num(0), Num(1)>>), ListVal(<<Nums(1, 0), Nums(0, 1)>>),
    MapVal(OneA(Num(1))), MapVal(AandB(Num(0), Num(3))), Empty(Map(Number)), NullVal(Map(Number)),
    MapVal(AandB(ListVal(<<Num(1)>>), Nums(0, 1))),
    TupleVal(<<Num(1), Nums(0, 1)>>), TupleVal(<<Num(0), NullVal(List(Number))>>), TupleVal(<<Num(1), Str("x")>>),
    ObjAB(Num(1), Str("x")), ObjAB(Num(0), Num(1)), ObjA(Num(1)), ObjAB(Num(1), Nums(0, 1)), ObjAB(Num(0), Nums(1, 3)),
    ObjAB(NullVal(Number), NullVal(List(Number))), ObjAB(Nums(0, 1), MapVal(OneA(Num(1)))),
    ObjAB(Nums(1, 1), MapVal(OneA(Num(3)))), NullVal(Object(OneA(Number), {})),
    ListVal(<<ObjAB(Num(1), NullVal(Number)), ObjAB(Num(0), Num(1))>>),
    ObjA(ObjAB(Num(1), Nums(3, 0))), ObjA(ObjAB(Num(0), NullVal(List(Number)))), ObjA(NullVal(Object(OneA(Number), {}))) }

MCEncodeTypes ==
  { Number, Bool, List(Number), Set(Number), Map(Number), List(Dynamic), Map(Dynamic), Tuple(<<Number, Number>>),
    Object(OneA(Number), {}), Object(AandB(Number, String), {}), Tuple(<<Number, List(Number)>>),
    List(Map(Number)), Set(List(Number)) }
=============================================================================
