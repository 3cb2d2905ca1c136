--------------------------- MODULE MCFunctionCall ---------------------------
(***************************************************************************)
(* FunctionCall with functions of at most one fixed parameter.             *)
(***************************************************************************)
EXTENDS FunctionCall

Strict ==
  [type |-> "number", allowNull |-> FALSE, allowUnknown |-> FALSE,
   allowDynamicType |-> FALSE, allowMarked |-> FALSE]
(* As of a function whose return type does not depend on its arguments.    *)
Static == [Strict EXCEPT !.allowDynamicType = TRUE, !.allowNull = TRUE]
Generic ==
  [type |-> "dynamic", allowNull |-> TRUE, allowUnknown |-> TRUE,
   allowDynamicType |-> TRUE, allowMarked |-> TRUE]

MCFunctions ==
  [params : {<< >>, <<Strict>>, <<Generic>>}, var : {NoParam, Strict, Static},
   refined : BOOLEAN, unpredictable : BOOLEAN]

MCArguments ==
  [ty : {"number"}, kind : {"known", "unknown"}, marks : SUBSET Marks]
    \cup {[ty |-> "number", kind |-> "null", marks |-> {}],
          [ty |-> "string", kind |-> "known", marks |-> {}],
          [ty |-> "dynamic", kind |-> "unknown", marks |-> {}]}

MCResults ==
  [ty : {"number"}, kind : Kinds, marks : {{}}]
    \cup {[ty |-> "string", kind |-> "known", marks |-> {}],
          [ty |-> "dynamic", kind |-> "unknown", marks |-> {}]}
=============================================================================
