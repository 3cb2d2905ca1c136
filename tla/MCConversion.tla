---------------------------- MODULE MCConversion ----------------------------
(***************************************************************************)
(* Values, types and lists of types for TLC: small ones of every kind, in  *)
(* every state of knowledge, that meet each branch of the conversions.     *)
(***************************************************************************)
EXTENDS ConversionProgram

MCNames == <<"a", "b">>

Num(n) == Known(Number, n)
Str(s) == Known(String, s)
UNum == UnknownVal(Number)
UStr == UnknownVal(String)
Marked(v) == WithMarks(v, {"m"})
NotNullIn(ty, lo, hi) == UnknownIn(ty, TRUE, lo, hi)

OneA(x) == [n \in {"a"} |-> x]
AandB(x, y) == [n \in {"a", "b"} |-> IF n = "a" THEN x ELSE y]
ObjA(v) == ObjectVal(OneA(v))
ObjAB(v, w) == ObjectVal(AandB(v, w))
MapA(v) == MapVal(OneA(v))

PrimitiveInputs ==
  { Num(1), Str("1"), Str("x"), Known(Bool, TRUE), UNum, UStr, DynamicVal,
    NullVal(String), NullVal(Dynamic), NotNullIn(String, 0, Inf), Marked(Num(1)) }

ListInputs ==
  { ListVal(<<Num(1)>>), ListVal(<<UNum>>), ListVal(<<Num(1), UNum>>),
    ListVal(<<Num(1), Num(0)>>), ListVal(<<Num(1), Num(1)>>), UnknownVal(List(Number)),
    NotNullIn(List(Number), 1, 2), NotNullIn(List(Number), 2, 3), UnknownIn(List(Number), FALSE, 1, 1),
    Empty(List(String)), ListVal(<<NullVal(Number)>>), ListVal(<<Marked(Num(1)), Num(0)>>) }

(* A set of unknown length is one of strings, and no list of another type  *)
(* is asked for below.                                                     *)
SetInputs ==
  { SetVal(<<Num(1)>>), SetVal(<<Str("1"), Str("true")>>), SetVal(<<Num(1), Num(0)>>),
    SetVal(<<Str("1"), UStr>>), SetVal(<<Str("1")>>), NotNullIn(Set(Number), 1, 2) }

TupleInputs ==
  { TupleVal(<< >>), TupleVal(<<Num(1), Str("x")>>), TupleVal(<<Num(1), UStr>>),
    TupleVal(<<Num(1), DynamicVal>>), TupleVal(<<Num(1), Num(0)>>),
    TupleVal(<<NullVal(Number), Num(1)>>), TupleVal(<<Num(1), Num(1)>>),
    TupleVal(<<UNum, UNum>>), NotNullIn(Tuple(<<Number, Number>>), 0, Inf),
    TupleVal(<<ListVal(<<Num(1)>>), SetVal(<<Str("x")>>)>>),
    TupleVal(<<ObjA(Num(1)), ObjA(Str("x"))>>),
    TupleVal(<<ListVal(<<Num(1)>>), UnknownVal(List(Number))>>),
    TupleVal(<<ObjA(ListVal(<<Num(1)>>)), ObjA(SetVal(<<Str("1")>>))>>),
    TupleVal(<<ListVal(<<Num(1)>>), ListVal(<<Num(0)>>)>>) }

ObjectInputs ==
  { ObjA(Num(1)), ObjA(UNum), ObjA(Marked(Num(1))), ObjA(ListVal(<<Num(1)>>)),
    ObjA(ObjA(Num(1))), ObjAB(Num(1), Str("x")), ObjAB(Num(1), Num(0)),
    ObjAB(Num(1), NullVal(String)), ObjAB(Num(1), DynamicVal),
    NotNullIn(Object(OneA(Number), {}), 0, Inf) }

MapInputs ==
  { MapA(Num(1)), MapA(UNum), MapVal(AandB(Str("x"), Str("x"))), Empty(Map(String)),
    NotNullIn(Map(Number), 1, 1), MapA(MapA(Str("x"))), MapA(NullVal(String)) }

MCInputs ==
  PrimitiveInputs \cup ListInputs \cup SetInputs \cup TupleInputs \cup ObjectInputs \cup MapInputs

----------------------------------------------------------------------------

Plain == {Number, String, Bool, Dynamic}

MCTargets ==
  Plain \cup {Set(t) : t \in Plain} \cup {Map(t) : t \in Plain}
    \cup {Object(OneA(t), {}) : t \in Plain}
    \cup { List(String), List(Dynamic), List(List(String)), List(Map(String)),
           List(Set(Dynamic)), List(Object(OneA(Dynamic), {})),
           List(Object(OneA(String), {"a"})), Set(Set(Number)), Set(Set(Dynamic)),
           List(Object(AandB(String, Object(OneA(String), {"a"})), {"b"})),
           Map(Map(String)), Map(List(Dynamic)), Map(Object(OneA(String), {"a"})),
           Tuple(<<Number>>), Tuple(<<String, String>>), Tuple(<<Dynamic, Dynamic>>),
           Object(OneA(Number), {"a"}), Object(OneA(List(String)), {}),
           Object(AandB(String, String), {"b"}) }

(* Tuples and objects in unification with these need a chain of two        *)
(* conversions that does more than the second one alone.                   *)
NestedLists ==
  {List(Dynamic), Map(Dynamic), List(Map(String)), List(Object(OneA(Dynamic), {}))}

MCOthers ==
  {<<WithoutOptional(t)>> : t \in MCTargets \ NestedLists} \cup
  { <<Number, Bool>>, <<Bool, String>>, <<Dynamic, Number>>,
    <<Set(Number), List(String)>>, <<List(String), Tuple(<<Number>>)>>,
    <<Tuple(<<Number>>), Tuple(<<String, Bool>>)>>,
    <<Object(OneA(Number), {}), Object(OneA(Bool), {})>>,
    <<Map(Number), Object(OneA(String), {})>> }
MCChainedOthers == MCOthers \cup {<<List(Map(String))>>}
=============================================================================
