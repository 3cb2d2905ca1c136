------------------------ MODULE MCPartialEvaluation ------------------------
(***************************************************************************)
(* PartialEvaluation on small instances.  The inputs are all the pairs of  *)
(* a pool of values in which the second agrees with the first.  No finite  *)
(* result of two operations reaches the infinities.                        *)
(***************************************************************************)
EXTENDS PartialEvaluation

MCNegInf == -4000
MCPosInf == 4000
MCNumbers == MCNegInf .. MCPosInf
MCStrings == {<< >>}

Pairs(pool) == {p \in pool \X pool : Agree(p[2], p[1])}

(* An unknown number between two bounds; NilVal for none. *)
Between(null, lo, loInc, hi, hiInc) ==
  Unknown("number",
    [kind |-> "number", null |-> null, min |-> lo, minInc |-> loInc,
     max |-> hi, maxInc |-> hiInc])

Length2(ty, null, lo, hi) ==
  Unknown(ty, [kind |-> "collection", null |-> null, minLen |-> lo, maxLen |-> hi])

UnknownNumbers ==
  {UnknownVal("number"), Between("F", 0, TRUE, NilVal, FALSE),
   Between("U", -2, TRUE, 0, FALSE), Between("F", 1, FALSE, 3, TRUE),
   Between("U", NilVal, FALSE, 2, TRUE)}

KnownNumbers ==
  {Literal(0)} \cup {Known("number", n) : n \in {Null, -2, 0, 2, MCPosInf}}

Bools ==
  {UnknownVal("bool"), UnknownNotNull("bool"), True, False, Known("bool", Null)}

Collections ==
  {Length2("list", "U", 1, 3), Length2("list", "F", 2, 3), Known("list", 1),
   Known("list", 2), Known("list", Null), UnknownVal("set"),
   PartialSet(3), PartialSet(2), Known("set", 2)}

MCPairs ==
  Pairs(UnknownNumbers \cup KnownNumbers \cup Bools \cup Collections
          \cup {DynamicVal, Known("dynamic", Null)})

(* A few inputs for programs of several operations: a range between two    *)
(* bounds, one without a lower bound, one that an infinity is in, that     *)
(* infinity and a number in the first range.                               *)
MCChainPairs ==
  Pairs({Between("F", 0, TRUE, 2, FALSE), Between("U", NilVal, FALSE, -1, TRUE),
         Between("F", 1, TRUE, NilVal, FALSE), Known("number", 0),
         Known("number", MCPosInf)})

(* The hypothesis of a theorem holds here. *)
ASSUME MCHypotheses == NoZeroItself
=============================================================================
