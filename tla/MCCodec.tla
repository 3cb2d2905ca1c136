------------------------------ MODULE MCCodec ------------------------------
(***************************************************************************)
(* Values, types to write them for and types to read them for.             *)
(***************************************************************************)
EXTENDS CodecProgram

MCNames == <<"a", "b", "type", "value">>

(* A text whose third and fourth bytes are one character. *)
MCCharEnds == {0, 1, 2, 4, 5, 6, 7}
MCDelimiters == {5}

Num(n) == Known(Number, n)
Str(s) == Known(String, s)
UNum == UnknownVal(Number)
UStr == UnknownVal(String)
NumberIn(notNull, lo, hi) == UnknownIn(Number, notNull, lo, hi)
Prefixed(notNull, n) == UnknownIn(String, notNull, n, Inf)
OneA(x) == [n \in {"a"} |-> x]
AandB(x, y) == [n \in {"a", "b"} |-> IF n = "a" THEN x ELSE y]
ObjA(v) == ObjectVal(OneA(v))
ObjAB(v, w) == ObjectVal(AandB(v, w))
MapA(v) == MapVal(OneA(v))
MapAB(v, w) == MapVal(AandB(v, w))

Simple ==
  { Num(1), Num(3), Str("1"), Str("x"), Str("true"), Known(Bool, TRUE), NullVal(String),
    NullVal(Dynamic), WithMarks(Num(1), {"m"}) }
Unknowns ==
  { UNum, UStr, DynamicVal, NumberIn(TRUE, 1, 2), NumberIn(FALSE, 0, 2), NumberIn(TRUE, 1, Inf),
    UnknownIn(Bool, TRUE, 0, Inf), UnknownVal(Tuple(<<Number>>)) }
    \cup {Prefixed(n, l) : n \in BOOLEAN, l \in {2, 4, 5, 6, 7}}
    \cup {UnknownIn(<<k, String>>, n, 1, 2) : k \in {"list", "set", "map"}, n \in BOOLEAN}
Collections ==
  { Empty(List(String)), Empty(Map(String)), ListVal(<<Num(1), Num(0)>>), ListVal(<<Str("x"), UStr>>),
    ListVal(<<NullVal(String), Str("x")>>), SetVal(<<Str("1"), Str("x")>>), SetVal(<<Prefixed(TRUE, 7), UStr>>),
    MapA(Str("1")), MapAB(Num(1), NullVal(Number)), ListVal(<<MapA(Num(1)), MapAB(Num(1), UNum)>>),
    ListVal(<<ListVal(<<Str("x")>>), ListVal(<<Str("1"), Str("x")>>)>>), ListVal(<<Empty(List(String))>>),
    ListVal(<<ListVal(<<NullVal(String)>>), ListVal(<<Str("x")>>)>>),
    SetVal(<<Num(1), Num(0)>>), ListVal(<<Known(Bool, TRUE)>>), ListVal(<<Num(1), Num(1)>>),
    ListVal(<<ObjA(Num(1)), ObjA(NullVal(Number))>>), SetVal(<<ListVal(<<Num(1)>>), ListVal(<<Num(0)>>)>>),
    SetVal(<<ListVal(<<Str("1")>>), ListVal(<<UStr>>)>>), MapA(Str("true")), MapA(MapA(Num(1))),
    ListVal(<<WithMarks(Str("x"), {"m"})>>) }
Structures ==
  { TupleVal(<< >>), TupleVal(<<Num(1)>>), TupleVal(<<Str("1"), Num(1)>>), TupleVal(<<Num(1), DynamicVal>>),
    TupleVal(<<NullVal(Dynamic)>>), TupleVal(<<Known(Bool, TRUE), Str("x")>>), TupleVal(<<ObjA(Num(1)), Num(0)>>),
    ObjA(Num(1)), ObjA(NullVal(String)), ObjAB(Str("x"), Num(1)), ObjAB(TupleVal(<<Num(1)>>), Prefixed(FALSE, 6)),
    ObjA(ListVal(<<Str("x")>>)), TupleVal(<<Num(1), Num(1)>>), ObjAB(Num(1), Num(0)), ObjA(ObjA(Str("1"))),
    TupleVal(<<ListVal(<<Num(1)>>), MapA(UNum)>>), ObjA(SetVal(<<Num(1)>>)), TupleVal(<<Str("true"), Str("1")>>) }

MCInputs == Simple \cup Unknowns \cup Collections \cup Structures

MCTypes ==
  { Dynamic, String, Number, Bool, List(String), List(Number), List(Dynamic), Set(String), Set(Number),
    Set(Dynamic), Map(String), Map(Number), Map(Bool), Map(Dynamic), Map(Map(Dynamic)), List(List(Dynamic)),
    List(List(String)), Set(List(Number)), Set(List(Dynamic)), List(Map(Number)), List(Set(String)),
    List(Object(OneA(String), {})), List(Object(OneA(Dynamic), {})),
    Tuple(<<Number>>), Tuple(<<Dynamic>>), Tuple(<<String, String>>), Tuple(<<String, Dynamic>>),
    Tuple(<<Bool, Number>>), Tuple(<<List(Dynamic), Map(Dynamic)>>),
    Object(OneA(Number), {}), Object(OneA(Dynamic), {}), Object(OneA(Map(String)), {}),
    Object(OneA(Set(Dynamic)), {}), Object(AandB(String, String), {}), Object(AandB(String, Dynamic), {}) }
=============================================================================
