------------------------- MODULE RefinementBuilder -------------------------
(***************************************************************************)
(* Value.Refine, the methods of RefinementBuilder and NewValue             *)
(* (cty/unknown_refinement.go) as a state machine over values, builders    *)
(* and the heap of refinement objects that they point to.  A builder       *)
(* method mutates the object in place; NewValue puts the builder's own     *)
(* pointer in the value it returns.                                        *)
(*                                                                         *)
(* A panic ends the life of a builder: the call chain that held it is      *)
(* unwound.  Other builders and the values already returned live on.       *)
(***************************************************************************)
EXTENDS Refinement

CONSTANTS
  Values,         \* names for the values the program holds
  Builders,       \* names for the builders; each call of Refine makes one
  Root,           \* the value the program starts with
  InitialValues,  \* what Root may be
  NumberArgs,     \* bounds given to the NumberRange methods
  LengthArgs,     \* bounds given to the CollectionLength methods
  PrefixArgs,     \* prefixes given to StringPrefixFull
  Marks,          \* the marks a value may carry
  UnknownArg,     \* an unknown number given as a bound
  NoRef,          \* the nil pointer
  Free,           \* a name not in use
  ReuseBuilder    \* may a program call a builder again after NewValue?

VARIABLES
  value,    \* Values -> the value of that name
  builder,  \* Builders -> the RefinementBuilder of that name
  heap      \* Builders -> the refinement object its Refine call allocated

vars == <<value, builder, heap>>

(* A known value of type ty, c being its concrete value: null is the only  *)
(* one of the dynamic pseudo-type.                                         *)
KnownValue(ty) ==
  [ty : {ty}, known : {TRUE},
   c : {Null} \cup (IF ty = "dynamic" THEN {} ELSE NonNull(ty)),
   marks : SUBSET Marks]

(* An unknown value of type ty; ref is its *unknownType's refinement.      *)
UnknownValue(ty) ==
  [ty : {ty}, known : {FALSE},
   ref : IF ty = "dynamic" THEN {NoRef} ELSE Builders \cup {NoRef},
   marks : SUBSET Marks]

Value == UNION {KnownValue(ty) \cup UnknownValue(ty) : ty \in Types}

(* x \in Value, looking only at the sets of x's own type. *)
IsValue(x) ==
  x.ty \in Types /\ (x \in KnownValue(x.ty) \/ x \in UnknownValue(x.ty))

(* UnknownVal(ty), with marks, and a known value of concrete value c. *)
Unknown(ty, ref, m) == [ty |-> ty, known |-> FALSE, ref |-> ref, marks |-> m]
Known(ty, c, m) == [ty |-> ty, known |-> TRUE, c |-> c, marks |-> m]

Status == {"open", "done", "panicked"}

Builder ==
  [orig : Value, marks : SUBSET Marks, ref : Builders \cup {NoRef},
   status : Status]

(* y \in Builder, likewise. *)
IsBuilder(y) ==
  /\ y = [orig |-> y.orig, marks |-> y.marks, ref |-> y.ref, status |-> y.status]
  /\ IsValue(y.orig) /\ y.marks \in SUBSET Marks
  /\ y.ref \in Builders \cup {NoRef} /\ y.status \in Status

(* What a value of type ty means and what a builder may reach, as the      *)
(* abstract view below has it.                                             *)
Meanings(ty) == [vals : SUBSET (NonNull(ty) \cup {Null}), marks : SUBSET Marks]
Ranges(ty) == [null : Tristate, vals : SUBSET NonNull(ty), marks : SUBSET Marks]

ASSUME ProgramAssumption ==
  /\ Root \in Values
  /\ \A x \in InitialValues :
       IsValue(x) /\ (~x.known => x.ref = NoRef)
  /\ NumberArgs \subseteq (Numbers \cup {Null, UnknownArg}) \X BOOLEAN
  /\ UnknownArg \notin Int /\ UnknownArg # Null
  /\ LengthArgs \subseteq Int
  /\ \A p \in PrefixArgs : p \in Seq(Int)
  /\ NoRef \notin Builders
  /\ Free \notin Value \cup Builder \cup Refinements
  /\ \A ty \in Types : {Free, NoRef} \cap (Meanings(ty) \cup Ranges(ty)) = {}
  /\ ReuseBuilder \in BOOLEAN

(* Hypotheses of some theorems.  Between any two bounds that a program     *)
(* asks for there is a number, and a prefix is a string.  A bound never    *)
(* excludes an infinity only: such a bound is not recorded (WithMin), or   *)
(* not seen to leave nothing (ConsistentBounds).                           *)
UniverseIsRich ==
  /\ \A a, d \in NumberArgs : {a[1], d[1]} \subseteq Numbers =>
       (a[1] < d[1] => \E c \in Numbers : a[1] < c /\ c < d[1])
  /\ \A a \in NumberArgs : a[1] \in {NegInf, PosInf} => a[2]
  /\ Strings # {} /\ PrefixArgs \subseteq Strings

TypeOK ==
  /\ value \in [Values -> {value[v] : v \in Values}]
  /\ \A v \in Values : value[v] # Free => IsValue(value[v])
  /\ builder \in [Builders -> {builder[b] : b \in Builders}]
  /\ \A b \in Builders : builder[b] # Free => IsBuilder(builder[b])
  /\ heap \in [Builders -> Refinements \cup {Free}]

Init ==
  /\ \E x \in InitialValues :
       value = [v \in Values |-> IF v = Root THEN x ELSE Free]
  /\ builder = [b \in Builders |-> Free]
  /\ heap = [b \in Builders |-> Free]

----------------------------------------------------------------------------

IsDynamicVal(x) == x.ty = "dynamic" /\ ~x.known

(* Value.Refine on value v.  The refinement object is always a new one: a  *)
(* copy of the value's own, or a fresh one; DynamicVal gets none.          *)
(* The first definition is a faulty variant that shares the object.        *)
SharedRefineRef(b, x) ==
  IF IsDynamicVal(x) THEN NoRef
  ELSE IF ~x.known /\ x.ref # NoRef THEN x.ref ELSE b

RefineRef(b, x) == IF IsDynamicVal(x) THEN NoRef ELSE b

Refine(b, v) ==
  LET x == value[v] IN
  /\ builder[b] = Free
  /\ x # Free
  /\ builder' = [builder EXCEPT ![b] =
       [orig |-> [x EXCEPT !.marks = {}], marks |-> x.marks,
        ref |-> RefineRef(b, x), status |-> "open"]]
  /\ heap' = IF IsDynamicVal(x) THEN heap
             ELSE [heap EXCEPT ![RefineRef(b, x)] =
                     IF ~x.known /\ x.ref # NoRef THEN heap[x.ref]
                                                  ELSE Fresh(x.ty)]
  /\ UNCHANGED value

(* The builders a program may call: one still open or, if the program      *)
(* goes on after NewValue, one that has returned a value.                  *)
Callable(b) ==
  /\ builder[b] # Free
  /\ \/ builder[b].status = "open"
     \/ ReuseBuilder /\ builder[b].status = "done"

Wip(b) == heap[builder[b].ref]

Panic(b) ==
  /\ builder' = [builder EXCEPT ![b].status = "panicked"]
  /\ UNCHANGED <<value, heap>>

(* Assign w to the builder's refinement object, then assert ok: the panic  *)
(* comes after the assignment.                                             *)
Store(b, w, ok) ==
  /\ heap' = [heap EXCEPT ![builder[b].ref] = w]
  /\ builder' = IF ok THEN builder
                ELSE [builder EXCEPT ![b].status = "panicked"]
  /\ UNCHANGED value

(* refineable() is false: the call is ignored. *)
Ignored(b) == builder[b].ref = NoRef /\ UNCHANGED vars

(* refineable() is true and the refinement object is of kind k ... *)
Refineable(b, k) == builder[b].ref # NoRef /\ Wip(b).kind = k

(* ... or is not, which panics. *)
WrongKind(b, k) == builder[b].ref # NoRef /\ Wip(b).kind # k /\ Panic(b)

----------------------------------------------------------------------------

(* NotNull and Null: t is the tristate that the call sets. *)
SetNull(b, t) ==
  /\ builder[b].ref # NoRef
  /\ LET o == builder[b].orig
         knownContradiction == o.known /\ (o.c = Null) # (t = "T")
         opposite == IF t = "T" THEN "F" ELSE "T"
     IN IF knownContradiction \/ Wip(b).null = opposite
          THEN Panic(b)
          ELSE Store(b, [Wip(b) EXCEPT !.null = t], TRUE)

NotNull(b) == Callable(b) /\ (Ignored(b) \/ SetNull(b, "F"))

NullMethod(b) == Callable(b) /\ (Ignored(b) \/ SetNull(b, "T"))

(* The refinement object of an unknown value, as Value.Range reads it: one *)
(* that was never refined has none, and no bounds.                         *)
RangeOf(x) ==
  IF x.ref = NoRef THEN [kind |-> "nullable", null |-> "U"] ELSE heap[x.ref]

UpperBoundOf(x) ==
  LET r == RangeOf(x) IN
  IF r.kind = "number" /\ r.max # NilVal THEN r.max ELSE PosInf

LowerBoundOf(x) ==
  LET r == RangeOf(x) IN
  IF r.kind = "number" /\ r.min # NilVal THEN r.min ELSE NegInf

(* min.GreaterThan(b.orig), or GreaterThanOrEqualTo, is known and true.    *)
(* For an unknown both look only at the bound, as if it were exclusive; a  *)
(* null makes the comparison itself panic.                                 *)
MinContradicts(x, n, inc) ==
  IF x.known THEN x.c = Null \/ IF inc THEN n > x.c ELSE n >= x.c
             ELSE n > UpperBoundOf(x)

MaxContradicts(x, n, inc) ==
  IF x.known THEN x.c = Null \/ IF inc THEN n < x.c ELSE n <= x.c
             ELSE n < LowerBoundOf(x)

(* A bound whose value is not itself known is ignored; a null one panics.  *)
BadNumberArg(b, n) ==
  \/ n = UnknownArg /\ UNCHANGED vars
  \/ n = Null /\ Panic(b)

SetMin(b, n, inc) ==
  /\ n \in Numbers
  /\ IF MinContradicts(builder[b].orig, n, inc) THEN Panic(b)
     ELSE IF KeepsMin(Wip(b), n, inc) THEN UNCHANGED vars
     ELSE LET w == WithMin(Wip(b), n, inc) IN Store(b, w, ConsistentBounds(w))

NumberRangeLowerBound(b, n, inc) ==
  /\ Callable(b)
  /\ \/ Ignored(b)
     \/ WrongKind(b, "number")
     \/ Refineable(b, "number") /\ (BadNumberArg(b, n) \/ SetMin(b, n, inc))

SetMax(b, n, inc) ==
  /\ n \in Numbers
  /\ IF MaxContradicts(builder[b].orig, n, inc) THEN Panic(b)
     ELSE IF KeepsMax(Wip(b), n, inc) THEN UNCHANGED vars
     ELSE LET w == WithMax(Wip(b), n, inc) IN Store(b, w, ConsistentBounds(w))

NumberRangeUpperBound(b, n, inc) ==
  /\ Callable(b)
  /\ \/ Ignored(b)
     \/ WrongKind(b, "number")
     \/ Refineable(b, "number") /\ (BadNumberArg(b, n) \/ SetMax(b, n, inc))

(* Length of a known null collection panics; a known length is compared. *)
SetMinLen(b, n) ==
  LET o == builder[b].orig
      w == WithMinLen(Wip(b), n)
  IN IF o.known /\ (o.c = Null \/ n > o.c) THEN Panic(b)
     ELSE IF KeepsMinLen(Wip(b), n) THEN UNCHANGED vars
     ELSE Store(b, w, ConsistentLengths(w))

CollectionLengthLowerBound(b, n) ==
  /\ Callable(b)
  /\ \/ Ignored(b)
     \/ WrongKind(b, "collection")
     \/ Refineable(b, "collection") /\ SetMinLen(b, n)

SetMaxLen(b, n) ==
  LET o == builder[b].orig
      w == WithMaxLen(Wip(b), n)
  IN IF o.known /\ (o.c = Null \/ n < o.c) THEN Panic(b)
     ELSE IF KeepsMaxLen(Wip(b), n) THEN UNCHANGED vars
     ELSE Store(b, w, ConsistentLengths(w))

CollectionLengthUpperBound(b, n) ==
  /\ Callable(b)
  /\ \/ Ignored(b)
     \/ WrongKind(b, "collection")
     \/ Refineable(b, "collection") /\ SetMaxLen(b, n)

(* A known null string is not compared with the prefix at all. *)
SetPrefix(b, p) ==
  LET o == builder[b].orig IN
  IF \/ o.known /\ o.c # Null /\ ~OverlapMatches(o.c, p)
     \/ ~OverlapMatches(Wip(b).prefix, p)
    THEN Panic(b)
    ELSE Store(b, WithPrefix(Wip(b), p), TRUE)

StringPrefixFull(b, p) ==
  /\ Callable(b)
  /\ \/ Ignored(b)
     \/ WrongKind(b, "string")
     \/ Refineable(b, "string") /\ SetPrefix(b, p)

----------------------------------------------------------------------------

(* The value that NewValue returns. *)
Result(b) ==
  LET o == builder[b].orig
      m == builder[b].marks
  IN IF o.known \/ IsDynamicVal(o) THEN [o EXCEPT !.marks = m]
     ELSE IF Wip(b).null = "T" THEN Known(o.ty, Null, m)
     ELSE IF Collapses(o.ty, Wip(b)) THEN Known(o.ty, CollapsedTo(Wip(b)), m)
     ELSE Unknown(o.ty, builder[b].ref, m)

NewValue(b, v) ==
  /\ Callable(b)
  /\ value[v] = Free
  /\ value' = [value EXCEPT ![v] = Result(b)]
  /\ builder' = [builder EXCEPT ![b].status = "done"]
  /\ UNCHANGED heap

NumberMethod(b) ==
  \E a \in NumberArgs :
    \/ NumberRangeLowerBound(b, a[1], a[2])
    \/ NumberRangeUpperBound(b, a[1], a[2])

LengthMethod(b) ==
  \E n \in LengthArgs :
    \/ CollectionLengthLowerBound(b, n)
    \/ CollectionLengthUpperBound(b, n)

PrefixMethod(b) == \E p \in PrefixArgs : StringPrefixFull(b, p)

Next ==
  \E b \in Builders :
    \/ \E v \in Values : Refine(b, v) \/ NewValue(b, v)
    \/ NotNull(b) \/ NullMethod(b)
    \/ NumberMethod(b) \/ LengthMethod(b) \/ PrefixMethod(b)

Spec == Init /\ [][Next]_vars

----------------------------------------------------------------------------
(* Properties.                                                             *)

InUse(b) == builder[b] # Free /\ builder[b].ref # NoRef

TypeOf(b) == builder[b].orig.ty

CandidatesOf(b) == Candidates(TypeOf(b), Wip(b))

(* Every concrete value that the value named v may turn out to be. *)
Meaning(v) ==
  LET x == value[v] IN
  IF x.known THEN {x.c}
  ELSE IF x.ref = NoRef THEN NonNull(x.ty) \cup {Null}
  ELSE Range(x.ty, heap[x.ref])

(* A refinement object in use never widens: no method of any builder, in   *)
(* whatever order they are called and whoever else holds the object, adds  *)
(* a value to its range.  docs/refinements.md calls this the rule that     *)
(* lets every operation ignore refinements.                                *)
RangesOnlyNarrow ==
  [][\A b \in Builders :
       InUse(b) => Range(TypeOf(b), Wip(b)') \subseteq Range(TypeOf(b), Wip(b))
    ]_vars

(* What a call asks of the non-null values. *)
AtLeast(n, inc) == {c \in Numbers : IF inc THEN c >= n ELSE c > n}
AtMost(n, inc)  == {c \in Numbers : IF inc THEN c <= n ELSE c < n}

(* A call that asks for the values in C narrows the candidates by exactly  *)
(* C, and panics when, and only when, no candidate is left.                *)
NarrowsBy(b, C) ==
  IF builder'[b].status = "panicked" THEN CandidatesOf(b) \cap C = {}
  ELSE /\ Candidates(TypeOf(b), Wip(b)') = CandidatesOf(b) \cap C
       /\ CandidatesOf(b) \cap C # {}

Narrowable(b, k) == InUse(b) /\ Wip(b).kind = k /\ ~builder[b].orig.known

NumberCallNarrows(b) ==
  \A a \in NumberArgs :
    (Narrowable(b, "number") /\ a[1] \in Numbers) =>
      /\ NumberRangeLowerBound(b, a[1], a[2]) =>
           NarrowsBy(b, AtLeast(a[1], a[2]))
      /\ NumberRangeUpperBound(b, a[1], a[2]) =>
           NarrowsBy(b, AtMost(a[1], a[2]))

LengthCallNarrows(b) ==
  \A n \in LengthArgs :
    Narrowable(b, "collection") =>
      /\ CollectionLengthLowerBound(b, n) =>
           NarrowsBy(b, {c \in 0 .. MaxInt : c >= n})
      /\ CollectionLengthUpperBound(b, n) =>
           NarrowsBy(b, {c \in 0 .. MaxInt : c <= n})

PrefixCallNarrows(b) ==
  \A p \in PrefixArgs :
    Narrowable(b, "string") /\ StringPrefixFull(b, p) =>
      NarrowsBy(b, {c \in Strings : HasPrefix(c, p)})

(* The bound, length or prefix a program asks for is the one it gets,      *)
(* whatever was asked before: keeping the tighter bound, telling inclusive *)
(* from exclusive, comparing prefixes on their overlap and the consistency *)
(* assertion together neither lose a constraint, nor add one, nor let an   *)
(* empty range through, nor refuse a satisfiable one.                      *)
CallsNarrowExactly ==
  [][\A b \in Builders :
       NumberCallNarrows(b) /\ LengthCallNarrows(b) /\ PrefixCallNarrows(b)]_vars

(* The known value c agrees with what r records.  A string is compared     *)
(* with a prefix as far as both go (unknown_refinement.go:478), so one     *)
(* that is shorter agrees when the prefix begins with it.                  *)
Agrees(r, c) ==
  IF r.kind = "string" THEN HasPrefix(c, r.prefix) \/ HasPrefix(r.prefix, c)
                       ELSE Allows(r, c)

(* "Calling methods on a RefinementBuilder for a known value essentially   *)
(* just serves as assertions about the range of that value, leading to     *)
(* panics if those assertions don't hold": no builder of a known value     *)
(* goes on with a bound, length or nullness that the value does not        *)
(* satisfy, nor with a prefix that it does not agree with.                 *)
KnownValueMeetsAssertions ==
  \A b \in Builders :
    (InUse(b) /\ builder[b].status # "panicked") =>
      LET o == builder[b].orig IN
        (o.known /\ o.c # Null) => Agrees(Wip(b), o.c) /\ Wip(b).null # "T"

(* The range of a value may not be empty, and a value whose range is down  *)
(* to null is known.                                                       *)
UnknownValuesAreInhabited ==
  \A v \in Values :
    (value[v] # Free /\ ~value[v].known) =>
      /\ Meaning(v) # {}
      /\ Meaning(v) # {Null}

(* No contradiction gets through: a known value agrees with all that its   *)
(* builders asserted of it (unknown_refinement.go:39, of a string as far   *)
(* as it and the prefix go), and an unknown one is left                    *)
(* something to be (unknown_refinement.go:690), in whatever order the      *)
(* assertions came.                                                        *)
ValuesMeetAssertions == KnownValueMeetsAssertions /\ UnknownValuesAreInhabited

(* "cty considers values to be immutable": what a returned value may turn  *)
(* out to be never changes again.                                          *)
ValuesAreImmutable ==
  [][\A v \in Values : value[v] # Free => Meaning(v)' = Meaning(v)]_vars

(* The abstract view: immutable values whose meaning is a set, and ranges  *)
(* that only shrink.  A builder that has returned its value, or that has   *)
(* panicked, is closed.                                                    *)
AbstractMeaning ==
  [v \in Values |-> IF value[v] = Free THEN Free
                     ELSE [vals |-> Meaning(v), marks |-> value[v].marks]]

OpenRange(b) ==
  LET o == builder[b].orig IN
  [null  |-> IF o.known THEN IF o.c = Null THEN "T" ELSE "F"
             ELSE IF builder[b].ref = NoRef THEN "U" ELSE Wip(b).null,
   vals  |-> IF o.known THEN {o.c} \ {Null}
             ELSE IF builder[b].ref = NoRef THEN NonNull(o.ty)
             ELSE CandidatesOf(b),
   marks |-> builder[b].marks]

AbstractRange ==
  [b \in Builders |-> IF builder[b] = Free THEN Free
                      ELSE IF builder[b].status # "open" THEN NoRef
                      ELSE OpenRange(b)]

Abstract == INSTANCE RangeNarrowing
              WITH meaning <- AbstractMeaning, range <- AbstractRange,
                   Closed <- NoRef

ImplementsRangeNarrowing == Abstract!Spec
=============================================================================
