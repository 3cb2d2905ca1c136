------------------------------ MODULE MCStdlib ------------------------------
(***************************************************************************)
(* Calls for TLC: each function of the library with arguments that meet    *)
(* each of its branches, in every state of knowledge.                      *)
(***************************************************************************)
EXTENDS StdlibProgram

MCNames == <<"a", "b">>

Num(n) == NumberVal(n)
Str(s) == Known(String, s)
UNum == UnknownVal(Number)
UStr == UnknownVal(String)
Marked(v) == WithMarks(v, {"m"})
NotNullIn(ty, lo, hi) == UnknownIn(ty, TRUE, lo, hi)
OneA(x) == [n \in {"a"} |-> x]
AandB(x, y) == [n \in {"a", "b"} |-> IF n = "a" THEN x ELSE y]
ObjA(v) == ObjectVal(OneA(v))
ObjAB(v, w) == ObjectVal(AandB(v, w))
MapA(v) == MapVal(OneA(v))
MapAB(v, w) == MapVal(AandB(v, w))
NoNames == ObjectVal([n \in {} |-> DynamicVal])

Numbers == {Num(0), Num(1), Num(2), Num(-1), UNum, Marked(Num(1))}
NumberLists ==
  { Empty(List(Number)), ListVal(<<Num(1)>>), ListVal(<<Num(1), Num(2)>>),
    ListVal(<<Num(1), Num(1), Num(2)>>), ListVal(<<Num(1), UNum>>), UnknownVal(List(Number)),
    NotNullIn(List(Number), 1, 2), ListVal(<<Marked(Num(1)), Num(2)>>),
    Marked(ListVal(<<Num(1)>>)), Marked(UnknownVal(List(Number))), NullVal(List(Number)) }
StringLists ==
  { ListVal(<<Str("a")>>), ListVal(<<Str("a"), Str("b")>>), ListVal(<<Str("b"), Str("b")>>),
    ListVal(<<Str("a"), UStr>>), ListVal(<<Str("a"), NullVal(String)>>),
    ListVal(<<Marked(Str("a")), Str("b")>>), UnknownVal(List(String)), NotNullIn(List(String), 2, 3),
    Empty(List(String)) }
NumberSets ==
  { Empty(Set(Number)), SetVal(<<Num(1)>>), SetVal(<<Num(2), Num(1)>>), SetVal(<<Num(1), Num(2)>>),
    SetVal(<<Num(1), UNum>>), UnknownVal(Set(Number)), NotNullIn(Set(Number), 1, 3),
    SetVal(<<Marked(Num(1))>>), NullVal(Set(Number)) }
OtherSets == { SetVal(<<Str("a")>>), Empty(Set(Dynamic)), SetVal(<<Str("a"), UStr>>) }
Tuples ==
  { TupleVal(<< >>), TupleVal(<<Num(1)>>), TupleVal(<<Num(1), Str("a")>>), TupleVal(<<UNum, Str("a")>>),
    TupleVal(<<Num(1), UStr>>), UnknownVal(Tuple(<<Number, String>>)), TupleVal(<<Num(1), DynamicVal>>),
    TupleVal(<<Num(1), Marked(Str("a"))>>), TupleVal(<<Num(1), Num(2)>>) }
Maps ==
  { Empty(Map(Number)), MapA(Num(1)), MapAB(Num(1), Num(2)), MapAB(Num(1), UNum), MapA(UNum),
    UnknownVal(Map(Number)), NotNullIn(Map(Number), 1, 2), Marked(MapA(Num(1))), MapA(Marked(Num(1))),
    MapA(Str("a")), NullVal(Map(Number)) }
Objects ==
  { NoNames, ObjA(Num(1)), ObjA(UNum), ObjAB(Num(1), Str("a")), ObjAB(Num(1), Str("b")),
    ObjAB(UNum, Str("a")), ObjA(Str("a")),
    ObjA(Marked(Num(1))), Marked(ObjA(Num(1))), NullVal(Object(OneA(Number), {})),
    NotNullIn(Object(OneA(Number), {}), 0, Inf) }
Strange == { DynamicVal, NullVal(Dynamic), Num(1), UNum }
Nested ==
  { ListVal(<<ListVal(<<Num(1)>>), ListVal(<<Num(2)>>)>>), TupleVal(<<ListVal(<<Num(1), UNum>>), Num(2)>>),
    TupleVal(<<ListVal(<<Num(1)>>), Num(2)>>), TupleVal(<<UnknownVal(List(Number)), Num(2)>>),
    ListVal(<<ListVal(<<Num(1)>>), UnknownVal(List(Number))>>), TupleVal(<<TupleVal(<<Num(1)>>), SetVal(<<Num(1)>>)>>),
    TupleVal(<<Marked(ListVal(<<Num(1)>>)), Marked(Num(2))>>), TupleVal(<<NullVal(List(Number)), Num(1)>>),
    ListVal(<<SetVal(<<Num(1), UNum>>)>>), ListVal(<<SetVal(<<Num(1), Num(2)>>)>>) }
Keys == { Str("a"), Str("b"), UStr, Marked(Str("a")), Num(0), Num(1), UNum, DynamicVal, Num(2) }

Values == NumberLists \cup StringLists \cup NumberSets \cup OtherSets \cup Tuples \cup Maps
            \cup Objects \cup Strange \cup Nested \cup Keys \cup Numbers

Of1(f, A) == {[fn |-> f, args |-> <<a>>] : a \in A}
Of2(f, A, B) == {[fn |-> f, args |-> <<a, b>>] : a \in A, b \in B}
Of3(f, A, B, C) == {[fn |-> f, args |-> <<a, b, c>>] : a \in A, b \in B, c \in C}

Factors == NumberSets \cup NumberLists \cup {v \in Tuples : ~HasDynamic(v.ty)}
Comparands ==
  { Num(1), UNum, Marked(Num(1)), NotNullIn(Number, 2, 3), DynamicVal, NullVal(Number), NullVal(Dynamic),
    Str("a"), SetVal(<<Num(2), Num(1)>>), SetVal(<<Num(1), Num(2)>>), SetVal(<<Num(1), UNum>>),
    NotNullIn(Set(Number), 1, 3), NotNullIn(List(Number), 1, 2), ListVal(<<Num(1)>>),
    ListVal(<<Num(1), UNum>>), ListVal(<<Num(1), Num(2)>>), ListVal(<<Marked(Num(1)), Num(2)>>), MapA(UNum),
    UnknownVal(Map(Number)), MapA(Num(1)), MapAB(Num(1), UNum), MapAB(Num(1), Num(2)), TupleVal(<<Num(1), DynamicVal>>),
    TupleVal(<<Num(1), Str("a")>>), TupleVal(<<UNum, Str("a")>>), UnknownVal(Tuple(<<Number, String>>)),
    ObjAB(UNum, Str("a")), ObjAB(Num(1), Str("b")) }
Indexables == NumberLists \cup Tuples \cup Maps \cup Strange

MCCalls ==
  UNION { Of2("hasindex", Indexables, Keys), Of2("index", Indexables, Keys),
          Of1("length", Values), Of2("element", NumberLists \cup Tuples \cup Strange, Numbers),
          Of1("unknownasnull", Values), Of1("compact", StringLists \cup {ListVal(<<Str(""), Str("a")>>)}),
          Of1("distinct", NumberLists), Of2("chunklist", NumberLists, Numbers),
          Of1("flatten", Values), Of1("keys", Maps \cup Objects), Of1("values", Maps \cup Objects),
          Of1("reverse", NumberLists \cup Tuples),
          Of2("contains", NumberLists \cup NumberSets \cup Tuples, Numbers \cup {NullVal(Number)}),
          Of2("coalescelist", NumberLists \cup Tuples \cup Strange, NumberLists \cup Tuples),
          Of3("lookup", Maps \cup Objects, {Str("a"), Str("b"), UStr, Marked(Str("a"))}, {Num(0), Str("a"), Marked(Num(0))}),
          Of2("zipmap", StringLists, NumberLists \cup Tuples),
          Of2("sethaselement", NumberSets \cup OtherSets, Numbers \cup {Str("a"), UStr}),
          Of2("concat", NumberLists \cup Tuples \cup StringLists, NumberLists \cup Tuples),
          Of3("slice", NumberLists \cup Tuples, Numbers, Numbers),
          Of2("merge", Maps \cup Objects, Maps \cup Objects), Of1("merge", Maps \cup Objects \cup Strange),
          UNION {Of2(f, NumberSets \cup OtherSets, NumberSets \cup OtherSets) : f \in SetFunctions},
          Of2("setproduct", Factors, Factors),
          Of1("range", Numbers), Of2("range", Numbers, Numbers), Of3("range", Numbers, Numbers, Numbers),
          Of2("equal", Comparands, Comparands), Of2("notequal", Objects \cup Tuples, Objects \cup Tuples),
          Of2("coalesce", (Numbers \ {Num(-1)}) \cup {NullVal(Number), Str("a"), UStr, NullVal(String), NotNullIn(Number, 0, Inf)}, (Numbers \ {Num(-1)}) \cup {Str("a"), UStr}),
          Of2("getattr", Objects \cup {DynamicVal}, {Str("a")})}
MCKnowledge == Values
MCFollowups ==
  { [fn |-> "length", rest |-> << >>], [fn |-> "flatten", rest |-> << >>],
    [fn |-> "element", rest |-> <<Num(0)>>], [fn |-> "concat", rest |-> <<ListVal(<<Num(1)>>)>>],
    [fn |-> "equal", rest |-> <<ListVal(<<Num(1)>>)>>], [fn |-> "unknownasnull", rest |-> << >>] }
=============================================================================
