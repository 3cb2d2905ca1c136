------------------------- MODULE ConversionProgram -------------------------
(***************************************************************************)
(* A program converts a value, to a type it asks for or to one that it     *)
(* unifies the value's type with, and may convert the result again.  It    *)
(* does so twice in step: early, when some of the value is unknown, and    *)
(* late, when more is known of it.                                         *)
(***************************************************************************)
EXTENDS Conversion, TLC

CONSTANTS
  Inputs,    \* the values to begin with
  Targets,   \* the types a program asks for
  Others,    \* sequences of types it unifies the value's type with
  MaxSteps   \* bound: conversions in a row

VARIABLES
  early,  \* the value, or the failure that ended the evaluation
  late,   \* the same when more is known
  asked,  \* what the last conversion was asked for
  steps   \* conversions so far

vars == <<early, late, asked, steps>>

Nothing == [how |-> "nothing"]

Init ==
  /\ early \in Inputs /\ late \in {v \in Inputs : Within(v, early)}
  /\ asked = Nothing /\ steps = 0

Going == steps < MaxSteps /\ ~Failed(early) /\ ~Failed(late) /\ steps' = steps + 1

ConvertTo(ty) ==
  /\ Going
  /\ early' = Convert(early, ty) /\ late' = Convert(late, ty)
  /\ asked' = [how |-> "convert", early |-> ty, late |-> ty]

UnifyWith(others, unsafe) ==
  LET unified(v) == Unify(<<v.ty>> \o others, unsafe)
      become(unification, v) ==
        IF unification = NoUnification THEN Failure("error")
        ELSE ApplyUnified(unification.convs[1], v)
  IN /\ Going
     /\ early' = become(unified(early), early) /\ late' = become(unified(late), late)
     /\ asked' = [how |-> IF unsafe THEN "unify unsafe" ELSE "unify",
                  early |-> unified(early).ty, late |-> unified(late).ty,
                  types |-> <<early.ty>> \o others]

Next ==
  \/ \E ty \in Targets : ConvertTo(ty)
  \/ \E others \in Others, unsafe \in BOOLEAN : UnifyWith(others, unsafe)

Spec == Init /\ [][Next]_vars

----------------------------------------------------------------------------
(* Properties.                                                             *)

Values == {v \in {early, late} : ~Failed(v)}
Learnt == Within(late, early)
Open == HasDynamic(early.ty)

(* A value is built as its type says and the bounds of its length leave    *)
(* something between them.  Optional attributes are a matter of target     *)
(* types: no value's type has any, whatever part of it was null, unknown   *)
(* or left out (conversion.go:36).                                         *)
IsValue(v) == WellFormed(v) /\ v.ty = WithoutOptional(v.ty)

(* A conversion gives a value of the type that was asked for, whichever    *)
(* part of it is null, unknown, empty or dynamic (conversion.go:19), and   *)
(* so does each of a chain of them.  To convert it to that type again      *)
(* changes nothing.                                                        *)
TypesAsAsked ==
  /\ \A v \in Values : IsValue(v)
  /\ asked # Nothing =>
       /\ ~Failed(early) => Conforms(early.ty, WithoutOptional(asked.early))
       /\ ~Failed(late) => Conforms(late.ty, WithoutOptional(asked.late))
  /\ asked.how = "convert" => \A v \in Values : Convert(v, asked.early) = v

(* What a conversion says of a value of which little is known is never     *)
(* taken back when more is known: type, nullness, lengths, elements and    *)
(* marks (prepareUnknownResult, conversion.go:227); and one that fails     *)
(* when little is known fails when more is.                                *)
LearningNeverWidens ==
  [][/\ Learnt /\ asked'.early = asked'.late /\ ~(Open /\ HasDynamic(asked'.early)) =>
          Failed(early') \/ Failed(late') \/ Learnt'
     /\ Learnt /\ ~Open /\ Failed(early') => Failed(late')]_vars

(* A safe conversion, such as Unify returns, never fails (unify.go), and   *)
(* no conversion that is missing is called (conversion_collection.go:519). *)
SafeConversionsSucceed ==
  /\ Failure("panic") \notin {early, late}
  /\ asked.how = "unify" =>
       /\ asked.early # NilType => ~Failed(early)
       /\ asked.late # NilType => ~Failed(late)

(* Which type others unify to does not depend on their order, which is     *)
(* random for the attributes of an object (unify.go, sort_types.go).       *)
UnifyIgnoresOrder ==
  asked.how \in {"unify", "unify unsafe"} =>
    \A p \in Permutations(DOMAIN asked.types) :
      Unify([i \in DOMAIN p |-> asked.types[p[i]]], asked.how = "unify unsafe").ty
        = asked.early

(* A conversion keeps all marks, unless it gives up and says nothing of    *)
(* the value at all (conversion.go:29).                                    *)
MarksSurvive ==
  [][Failed(late') \/ late' = DynamicVal \/ DeepMarks(late) \subseteq DeepMarks(late')]_vars
=============================================================================
