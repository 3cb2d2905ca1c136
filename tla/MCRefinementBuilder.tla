------------------------ MODULE MCRefinementBuilder ------------------------
(***************************************************************************)
(* RefinementBuilder on small instances.  Numbers are halves in effect:    *)
(* the bounds a program may ask for are even, so that a value lies between *)
(* any two of them as it does among real numbers.                          *)
(***************************************************************************)
EXTENDS RefinementBuilder, TLC

MCNumbers == (-1 .. 3) \cup {-9, 9}
MCNegInf == -9
MCPosInf == 9
MCStrings == UNION {[1 .. n -> {1, 2}] : n \in 0 .. 2}

MCInitialValues ==
  {Unknown(ty, NoRef, Marks) : ty \in Types}
    \cup {Known(ty, Null, {}) : ty \in Types}
    \cup {Known("number", n, {}) : n \in {0, 1, 9}}
    \cup {Known(ty, n, {}) : ty \in {"list", "set"}, n \in {0, 2}}
    \cup {Known("string", s, {}) : s \in {<< >>, <<1>>, <<1, 2>>}}
    \cup {Known("other", Some, {})}

(* No bound excludes only an infinity. *)
MCNumberArgs ==
  {<<n, inc>> : n \in {0, 2}, inc \in BOOLEAN}
    \cup {<<-9, TRUE>>, <<9, TRUE>>, <<Null, TRUE>>, <<UnknownArg, TRUE>>}

MCLengthArgs == -1 .. 2

(* Some are longer than a known string they are asserted of. *)
MCPrefixArgs == {<<1>>, <<1, 2>>, <<2>>}

MCNames == Permutations(Values \ {Root}) \cup Permutations(Builders)

ASSUME MCHypotheses == UniverseIsRich
=============================================================================
