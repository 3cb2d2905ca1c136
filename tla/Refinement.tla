---------------------------- MODULE Refinement ----------------------------
(***************************************************************************)
(* The refinement objects that an unknown cty.Value may carry              *)
(* (cty/unknown_refinement.go) and what the builder methods compute from   *)
(* them.  Everything here is a pure operator; RefinementBuilder gives the  *)
(* operators a heap, so that sharing of a refinement object is visible.    *)
(*                                                                         *)
(* Concrete data are abstracted to what a refinement can tell apart: a     *)
(* number to a member of Numbers, a collection to its length, a string to  *)
(* a sequence of characters, a value of any other type to one token.       *)
(***************************************************************************)
EXTENDS Integers, Sequences

CONSTANTS
  Numbers,    \* the numbers of the universe, infinities included
  NegInf,     \* cty.NegativeInfinity, the least member of Numbers
  PosInf,     \* cty.PositiveInfinity, the greatest member of Numbers
  MaxInt,     \* math.MaxInt, the greatest length of a collection
  Strings,    \* the strings of the universe, as sequences
  Some,       \* the non-null value of a type with nothing more to refine
  NilVal,     \* the zero Value, standing for a bound that is not set
  Null        \* the null value: cty has one per type, all alike here

ASSUME NumbersAssumption ==
  /\ Numbers \subseteq Int
  /\ {NegInf, PosInf} \subseteq Numbers
  /\ \A n \in Numbers : NegInf <= n /\ n <= PosInf
  /\ NilVal \notin Int

ASSUME NullAssumption ==
  /\ Null \notin Numbers /\ Null \notin Strings
  /\ Null \notin 0 .. MaxInt /\ Null # Some

ASSUME LengthsAssumption == MaxInt \in Nat

ASSUME StringsAssumption == \A s \in Strings : s \in Seq(Int)

----------------------------------------------------------------------------
(* Types, grouped by the refinement object that Value.Refine gives them.   *)

CollectionTypes == {"list", "set", "map"}

(* "other" stands for bool, object, tuple and capsule types; "dynamic" for *)
(* the dynamic pseudo-type.                                                *)
Types == CollectionTypes \cup {"number", "string", "other", "dynamic"}

(* The non-null concrete values of a type.  An unknown of the dynamic      *)
(* pseudo-type is never refined, so one token describes its values too.    *)
NonNull(ty) ==
  CASE ty = "number"             -> Numbers
    [] ty = "string"             -> Strings
    [] ty \in CollectionTypes    -> 0 .. MaxInt
    [] ty \in {"other", "dynamic"} -> {Some}

----------------------------------------------------------------------------
(* The refinement objects: a sum type with one record set per Go struct.   *)
(* null is the tristateBool of the embedded refinementNullable.            *)

Tristate == {"T", "F", "U"}

RefinementNullable == [kind : {"nullable"}, null : Tristate]

RefinementNumber ==
  [kind : {"number"}, null : Tristate,
   min : Numbers \cup {NilVal}, minInc : BOOLEAN,
   max : Numbers \cup {NilVal}, maxInc : BOOLEAN]

RefinementCollection ==
  [kind : {"collection"}, null : Tristate,
   minLen : Nat, maxLen : {n \in Int : n <= MaxInt}]

RefinementString == [kind : {"string"}, null : Tristate, prefix : Seq(Int)]

Refinements ==
  RefinementNullable \cup RefinementNumber
    \cup RefinementCollection \cup RefinementString

(* The kind of refinement object that Value.Refine allocates for a type.   *)
KindOf(ty) ==
  CASE ty = "number"             -> "number"
    [] ty = "string"             -> "string"
    [] ty \in CollectionTypes    -> "collection"
    [] ty \in {"other", "dynamic"} -> "nullable"

(* A new refinement object for a value of type ty.  A null value of the    *)
(* dynamic pseudo-type starts as definitely null.                          *)
Fresh(ty) ==
  CASE KindOf(ty) = "number" ->
         [kind |-> "number", null |-> "U", min |-> NilVal, minInc |-> FALSE,
          max |-> NilVal, maxInc |-> FALSE]
    [] KindOf(ty) = "string" ->
         [kind |-> "string", null |-> "U", prefix |-> << >>]
    [] KindOf(ty) = "collection" ->
         [kind |-> "collection", null |-> "U", minLen |-> 0, maxLen |-> MaxInt]
    [] KindOf(ty) = "nullable" ->
         [kind |-> "nullable", null |-> IF ty = "dynamic" THEN "T" ELSE "U"]

----------------------------------------------------------------------------
(* What a refinement object means.                                         *)

(* p is a prefix of s, compared element by element. *)
HasPrefix(s, p) ==
  Len(p) <= Len(s) /\ \A i \in 1 .. Len(p) : p[i] = s[i]

AboveMin(r, n) == r.min # NilVal => IF r.minInc THEN n >= r.min ELSE n > r.min
BelowMax(r, n) == r.max # NilVal => IF r.maxInc THEN n <= r.max ELSE n < r.max

(* The non-null concrete value c satisfies every bound that r records. *)
Allows(r, c) ==
  CASE r.kind = "nullable"   -> TRUE
    [] r.kind = "number"     -> AboveMin(r, c) /\ BelowMax(r, c)
    [] r.kind = "collection" -> r.minLen <= c /\ c <= r.maxLen
    [] r.kind = "string"     -> HasPrefix(c, r.prefix)

(* The non-null values that an unknown of type ty refined by r may become. *)
Candidates(ty, r) == {c \in NonNull(ty) : Allows(r, c)}

(* Every value, null included, that it may become. *)
Range(ty, r) ==
  (IF r.null = "F" THEN {} ELSE {Null})
    \cup (IF r.null = "T" THEN {} ELSE Candidates(ty, r))

----------------------------------------------------------------------------
(* NumberRangeLowerBound and NumberRangeUpperBound.                        *)

(* Faulty variants, to show that the properties can fail: the recorded     *)
(* bound is never kept; inclusiveness is ignored when comparing bounds; an *)
(* empty range passes the assertion; a weaker bound replaces a stronger    *)
(* one.                                                                    *)
NeverKeepsMin(r, n, inc) == FALSE
KeepsMinIgnoringInc(r, n, inc) == r.min # NilVal /\ n < r.min
LaxConsistentBounds(r) == (r.min # NilVal /\ r.max # NilVal) => r.min <= r.max
NeverKeepsMinLen(r, n) == FALSE

(* "Our existing refinement is more constrained": an inclusive bound must  *)
(* be strictly tighter than a recorded exclusive one to replace it.        *)
KeepsMin(r, n, inc) ==
  /\ r.min # NilVal
  /\ IF inc /\ ~r.minInc THEN n <= r.min ELSE n < r.min

KeepsMax(r, n, inc) ==
  /\ r.max # NilVal
  /\ IF inc /\ ~r.maxInc THEN n >= r.max ELSE n > r.max

(* The bound that says nothing, the infinity itself, is not recorded. *)
WithMin(r, n, inc) ==
  IF KeepsMin(r, n, inc) \/ n = NegInf
    THEN r ELSE [r EXCEPT !.min = n, !.minInc = inc]

WithMax(r, n, inc) ==
  IF KeepsMax(r, n, inc) \/ n = PosInf
    THEN r ELSE [r EXCEPT !.max = n, !.maxInc = inc]

(* refinementNumber.assertConsistentBounds does not panic. *)
ConsistentBounds(r) ==
  (r.min # NilVal /\ r.max # NilVal) =>
    IF r.minInc /\ r.maxInc THEN r.min <= r.max ELSE r.min < r.max

----------------------------------------------------------------------------
(* CollectionLengthLowerBound, CollectionLengthUpperBound.                 *)

KeepsMinLen(r, n) == r.minLen > n
KeepsMaxLen(r, n) == r.maxLen < n

WithMinLen(r, n) == IF KeepsMinLen(r, n) THEN r ELSE [r EXCEPT !.minLen = n]
WithMaxLen(r, n) == IF KeepsMaxLen(r, n) THEN r ELSE [r EXCEPT !.maxLen = n]

(* refinementCollection.assertConsistentLengthBounds does not panic. *)
ConsistentLengths(r) == r.minLen <= r.maxLen

----------------------------------------------------------------------------
(* StringPrefixFull: only the overlap of two prefixes is compared, and the *)
(* longer one is kept.                                                     *)

OverlapMatches(s, t) ==
  \A i \in 1 .. Len(s) : i <= Len(t) => s[i] = t[i]

WithPrefix(r, p) ==
  IF Len(p) > Len(r.prefix) THEN [r EXCEPT !.prefix = p] ELSE r

----------------------------------------------------------------------------
(* NewValue: a refinement that leaves one value of a non-null unknown.     *)

CollapsesNumber(r) ==
  /\ r.kind = "number" /\ r.minInc /\ r.maxInc
  /\ r.min # NilVal /\ r.max # NilVal /\ r.min = r.max

(* Length zero collapses every collection; a list of known length becomes  *)
(* a known list of unknowns, and a set of length one a known set of one    *)
(* unknown.  A known collection is abstracted to its length.               *)
CollapsesCollection(ty, r) ==
  /\ r.kind = "collection" /\ r.minLen = r.maxLen
  /\ r.minLen = 0 \/ ty = "list" \/ (ty = "set" /\ r.minLen = 1)

(* Faulty variant. *)
CollapsesNullable(ty, r) == CollapsesNumber(r) \/ CollapsesCollection(ty, r)

Collapses(ty, r) ==
  r.null = "F" /\ (CollapsesNumber(r) \/ CollapsesCollection(ty, r))

CollapsedTo(r) == IF r.kind = "number" THEN r.min ELSE r.minLen
=============================================================================
