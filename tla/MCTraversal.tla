---------------------------- MODULE MCTraversal ----------------------------
(***************************************************************************)
(* Traversal of an object {a, f} in which a is a map of a list of objects  *)
(* {d, s} and s is a set of x: deep enough for the arrays of paths to grow *)
(* three times and to be shared by siblings.                               *)
(***************************************************************************)
EXTENDS Traversal

CONSTANTS r, a, b, c, d, s, x, f, m1, m2

MCParts == {r, a, b, c, d, s, x, f}
MCKids ==
  [p \in MCParts |-> CASE p = r -> <<a, f>> [] p = a -> <<b>> [] p = b -> <<c>>
                       [] p = c -> <<d, s>> [] p = s -> <<x>> [] OTHER -> << >>]
MCKind ==
  [p \in MCParts |-> CASE p \in {r, c} -> "object" [] p = a -> "map" [] p = b -> "sequence"
                       [] p = s -> "set" [] OTHER -> "leaf"]
MCMarks == {m1, m2}
MCGiven ==
  [p \in MCParts |-> CASE p = r -> {m1} [] p = d -> {m1, m2} [] p = s -> {m2} [] OTHER -> {}]

MCPrograms ==
  {<<"Walk">>, <<"Transform">>, <<"WrangleMarksDeep">>, <<"UnmarkDeepWithPaths", "MarkWithPaths">>}
=============================================================================
