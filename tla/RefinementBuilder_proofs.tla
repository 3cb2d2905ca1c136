---------------------- MODULE RefinementBuilder_proofs ----------------------
(***************************************************************************)
(* Theorems about RefinementBuilder, for every set of values, builders,    *)
(* numbers, strings and arguments.                                         *)
(***************************************************************************)
EXTENDS RefinementBuilder, TLAPS

(* An object of any type starts well formed and of the kind of its type.   *)
LEMMA FreshIsRefinement ==
  ASSUME NEW ty \in Types
  PROVE  Fresh(ty) \in Refinements /\ Fresh(ty).kind = KindOf(ty)
BY LengthsAssumption DEF LengthsAssumption, Types, CollectionTypes, Fresh, KindOf, Refinements,
   RefinementNullable, RefinementNumber, RefinementCollection,
   RefinementString, Tristate

(* The kind of a refinement object tells its Go struct. *)
LEMMA KindDecides ==
  ASSUME NEW r \in Refinements
  PROVE  /\ r.kind = "nullable" => r \in RefinementNullable
         /\ r.kind = "number" => r \in RefinementNumber
         /\ r.kind = "collection" => r \in RefinementCollection
         /\ r.kind = "string" => r \in RefinementString
         /\ r.kind \in {"nullable", "number", "collection", "string"}
BY DEF Refinements, RefinementNullable, RefinementNumber,
   RefinementCollection, RefinementString

(* Setting the nullness keeps the struct and every bound. *)
LEMMA SetNullKeepsBounds ==
  ASSUME NEW r \in Refinements, NEW t \in Tristate, NEW c
  PROVE  LET w == [r EXCEPT !.null = t] IN
         /\ w \in Refinements /\ w.kind = r.kind /\ w.null = t
         /\ Allows(w, c) <=> Allows(r, c)
<1> DEFINE w == [r EXCEPT !.null = t]
<1>1. CASE r \in RefinementNullable
  BY <1>1 DEF Refinements, RefinementNullable, Allows
<1>2. CASE r \in RefinementNumber
  BY <1>2 DEF Refinements, RefinementNumber, Allows, AboveMin, BelowMax
<1>3. CASE r \in RefinementCollection
  BY <1>3 DEF Refinements, RefinementCollection, Allows
<1>4. CASE r \in RefinementString
  BY <1>4 DEF Refinements, RefinementString, Allows, HasPrefix
<1> QED BY <1>1, <1>2, <1>3, <1>4 DEF Refinements

(* WithMin records the tighter bound: nothing is let back in. *)
LEMMA WithMinNarrows ==
  ASSUME NEW r \in RefinementNumber, NEW n \in Numbers, NEW inc \in BOOLEAN
  PROVE  /\ WithMin(r, n, inc) \in RefinementNumber
         /\ WithMin(r, n, inc).null = r.null
         /\ \A c \in Numbers : Allows(WithMin(r, n, inc), c) => Allows(r, c)
<1> DEFINE w == [r EXCEPT !.min = n, !.minInc = inc]
<1>1. CASE WithMin(r, n, inc) = r
  BY <1>1
<1>2. CASE WithMin(r, n, inc) = w /\ ~KeepsMin(r, n, inc)
  <2>1. w \in RefinementNumber /\ w.null = r.null
    BY DEF RefinementNumber
  <2>2. ASSUME NEW c \in Numbers, Allows(w, c)
        PROVE  Allows(r, c)
    <3>1. w.kind = "number" /\ r.kind = "number" /\ w.min = n /\ w.minInc = inc
          /\ w.max = r.max /\ w.maxInc = r.maxInc
      BY DEF RefinementNumber
    <3>2. (IF inc THEN c >= n ELSE c > n) /\ BelowMax(r, c)
      BY <2>2, <3>1, NumbersAssumption
      DEF NumbersAssumption, Allows, AboveMin, BelowMax
    <3>3. r.min # NilVal => r.min \in Int
      BY NumbersAssumption DEF NumbersAssumption, RefinementNumber
    <3>4. AboveMin(r, c)
      BY <1>2, <3>2, <3>3, NumbersAssumption
      DEF NumbersAssumption, AboveMin, KeepsMin, RefinementNumber
    <3> QED BY <3>1, <3>2, <3>4 DEF Allows
  <2> QED BY <1>2, <2>1, <2>2
<1> QED BY <1>1, <1>2 DEF WithMin

LEMMA WithMaxNarrows ==
  ASSUME NEW r \in RefinementNumber, NEW n \in Numbers, NEW inc \in BOOLEAN
  PROVE  /\ WithMax(r, n, inc) \in RefinementNumber
         /\ WithMax(r, n, inc).null = r.null
         /\ \A c \in Numbers : Allows(WithMax(r, n, inc), c) => Allows(r, c)
<1> DEFINE w == [r EXCEPT !.max = n, !.maxInc = inc]
<1>1. CASE WithMax(r, n, inc) = r
  BY <1>1
<1>2. CASE WithMax(r, n, inc) = w /\ ~KeepsMax(r, n, inc)
  <2>1. w \in RefinementNumber /\ w.null = r.null
    BY DEF RefinementNumber
  <2>2. ASSUME NEW c \in Numbers, Allows(w, c)
        PROVE  Allows(r, c)
    <3>1. w.kind = "number" /\ r.kind = "number" /\ w.max = n /\ w.maxInc = inc
          /\ w.min = r.min /\ w.minInc = r.minInc
      BY DEF RefinementNumber
    <3>2. (IF inc THEN c <= n ELSE c < n) /\ AboveMin(r, c)
      BY <2>2, <3>1, NumbersAssumption
      DEF NumbersAssumption, Allows, AboveMin, BelowMax
    <3>3. r.max # NilVal => r.max \in Int
      BY NumbersAssumption DEF NumbersAssumption, RefinementNumber
    <3>4. BelowMax(r, c)
      BY <1>2, <3>2, <3>3, NumbersAssumption
      DEF NumbersAssumption, BelowMax, KeepsMax, RefinementNumber
    <3> QED BY <3>1, <3>2, <3>4 DEF Allows
  <2> QED BY <1>2, <2>1, <2>2
<1> QED BY <1>1, <1>2 DEF WithMax

LEMMA WithMinLenNarrows ==
  ASSUME NEW r \in RefinementCollection, NEW n \in Int
  PROVE  /\ WithMinLen(r, n) \in RefinementCollection
         /\ WithMinLen(r, n).null = r.null
         /\ \A c \in Int : Allows(WithMinLen(r, n), c) => Allows(r, c)
<1> DEFINE w == [r EXCEPT !.minLen = n]
<1>1. /\ ~KeepsMinLen(r, n) => w \in RefinementCollection
      /\ w.null = r.null /\ w.minLen = n
      /\ w.maxLen = r.maxLen /\ w.kind = "collection" /\ r.kind = "collection"
      /\ r.minLen \in Int /\ r.maxLen \in Int
  BY LengthsAssumption DEF RefinementCollection, KeepsMinLen, LengthsAssumption
<1>2. ASSUME NEW c \in Int, Allows(w, c), ~KeepsMinLen(r, n)
      PROVE  Allows(r, c)
  <2> HIDE DEF w
  <2>1. w.minLen <= c /\ c <= w.maxLen
    BY <1>1, <1>2 DEF Allows
  <2>2. r.minLen <= c /\ c <= r.maxLen
    BY <1>1, <1>2, <2>1 DEF KeepsMinLen
  <2> QED BY <1>1, <2>2 DEF Allows
<1> QED BY <1>1, <1>2 DEF WithMinLen

LEMMA WithMaxLenNarrows ==
  ASSUME NEW r \in RefinementCollection, NEW n \in Int
  PROVE  /\ WithMaxLen(r, n) \in RefinementCollection
         /\ WithMaxLen(r, n).null = r.null
         /\ \A c \in Int : Allows(WithMaxLen(r, n), c) => Allows(r, c)
<1> DEFINE w == [r EXCEPT !.maxLen = n]
<1>1. /\ ~KeepsMaxLen(r, n) => w \in RefinementCollection
      /\ w.null = r.null /\ w.maxLen = n
      /\ w.minLen = r.minLen /\ w.kind = "collection" /\ r.kind = "collection"
      /\ r.minLen \in Int /\ r.maxLen \in Int
  BY LengthsAssumption DEF RefinementCollection, KeepsMaxLen, LengthsAssumption
<1>2. ASSUME NEW c \in Int, Allows(w, c), ~KeepsMaxLen(r, n)
      PROVE  Allows(r, c)
  <2> HIDE DEF w
  <2>1. w.minLen <= c /\ c <= w.maxLen
    BY <1>1, <1>2 DEF Allows
  <2>2. r.minLen <= c /\ c <= r.maxLen
    BY <1>1, <1>2, <2>1 DEF KeepsMaxLen
  <2> QED BY <1>1, <2>2 DEF Allows
<1> QED BY <1>1, <1>2 DEF WithMaxLen

(* A longer prefix that agrees with the recorded one extends it. *)
LEMMA WithPrefixNarrows ==
  ASSUME NEW r \in RefinementString, NEW p \in Seq(Int),
         OverlapMatches(r.prefix, p)
  PROVE  /\ WithPrefix(r, p) \in RefinementString
         /\ WithPrefix(r, p).null = r.null
         /\ \A c \in Seq(Int) : Allows(WithPrefix(r, p), c) => Allows(r, c)
<1> DEFINE w == [r EXCEPT !.prefix = p]
<1>1. /\ w \in RefinementString /\ w.null = r.null /\ w.prefix = p
      /\ w.kind = "string" /\ r.kind = "string" /\ r.prefix \in Seq(Int)
  BY DEF RefinementString
<1>2. ASSUME NEW c \in Seq(Int), Allows(w, c), Len(p) > Len(r.prefix)
      PROVE  Allows(r, c)
  <2> HIDE DEF w
  <2>1. HasPrefix(c, p)
    BY <1>1, <1>2 DEF Allows
  <2>2. Len(r.prefix) \in Nat /\ Len(p) \in Nat /\ Len(c) \in Nat
    BY <1>1
  <2>3. ASSUME NEW i \in 1 .. Len(r.prefix)
        PROVE  r.prefix[i] = c[i]
    <3>1. i \in 1 .. Len(p)
      BY <1>2, <2>2
    <3>2. r.prefix[i] = p[i]
      BY <2>2, <3>1 DEF OverlapMatches
    <3> QED BY <2>1, <3>1, <3>2 DEF HasPrefix
  <2>4. HasPrefix(c, r.prefix)
    BY <1>2, <2>1, <2>2, <2>3 DEF HasPrefix
  <2> QED BY <1>1, <2>4 DEF Allows
<1> QED BY <1>1, <1>2 DEF WithPrefix

----------------------------------------------------------------------------
(* Who points to what: a builder's object is the one its own Refine call   *)
(* allocated, of the kind of the type being refined, and the object of an  *)
(* unknown value is that of a builder for a value of the same type.        *)

Shares(x, owner) ==
  (~x.known /\ x.ref # NoRef) =>
    /\ owner[x.ref] # Free
    /\ owner[x.ref].ref = x.ref
    /\ owner[x.ref].orig.ty = x.ty

BuilderOK(b) ==
  builder[b] # Free =>
    /\ builder[b].ref = RefineRef(b, builder[b].orig)
    /\ builder[b].ref # NoRef => heap[b] # Free /\ heap[b].kind = KindOf(TypeOf(b))
    /\ Shares(builder[b].orig, builder)

RefsOK ==
  /\ \A b \in Builders : BuilderOK(b)
  /\ \A v \in Values : value[v] # Free => Shares(value[v], builder)

IInv == TypeOK /\ RefsOK

(* A builder record is never the mark of an unused name. *)
LEMMA BuilderNotFree ==
  ASSUME NEW y, IsBuilder(y)
  PROVE  y # Free
<1>1. y.orig \in Value
  BY DEF IsBuilder, IsValue, Value
<1>2. y \in Builder
  BY <1>1 DEF IsBuilder, Builder
<1> QED BY <1>2, ProgramAssumption DEF ProgramAssumption

(* What every method does to its builder's object, if anything: it assigns *)
(* one of the same struct that allows nothing new.                         *)
Tightens(w, r, ty) ==
  /\ w \in Refinements /\ w.kind = r.kind
  /\ w.null = r.null \/ r.null = "U"
  /\ \A c \in NonNull(ty) : Allows(w, c) => Allows(r, c)

Narrowing(b) ==
  /\ Callable(b)
  /\ \/ UNCHANGED vars
     \/ Panic(b)
     \/ /\ builder[b].ref # NoRef
        /\ \E w, ok : Tightens(w, Wip(b), TypeOf(b)) /\ Store(b, w, ok)

(* Facts about a builder with an object, used by every method. *)
LEMMA WipFacts ==
  ASSUME IInv, NEW b \in Builders, builder[b] # Free, builder[b].ref # NoRef
  PROVE  /\ builder[b].ref = b
         /\ Wip(b) = heap[b]
         /\ Wip(b) \in Refinements
         /\ TypeOf(b) \in Types
         /\ Wip(b).kind = KindOf(TypeOf(b))
BY DEF IInv, TypeOK, RefsOK, BuilderOK, RefineRef, Wip, TypeOf, IsBuilder, IsValue

(* The type of a builder, from the kind of its object. *)
LEMMA KindGivesUniverse ==
  ASSUME NEW ty \in Types
  PROVE  /\ KindOf(ty) = "number" => NonNull(ty) = Numbers
         /\ KindOf(ty) = "collection" => NonNull(ty) \subseteq Int
         /\ KindOf(ty) = "string" => NonNull(ty) = Strings
BY DEF KindOf, NonNull, Types, CollectionTypes

LEMMA NullMethodsNarrow ==
  ASSUME IInv, NEW b \in Builders, NotNull(b) \/ NullMethod(b)
  PROVE  Narrowing(b)
<1>1. Callable(b) /\ builder[b] # Free
  BY DEF NotNull, NullMethod, Callable
<1>2. CASE Ignored(b)
  BY <1>1, <1>2 DEF Ignored, Narrowing
<1>3. ASSUME NEW t \in {"T", "F"}, SetNull(b, t)
      PROVE  Narrowing(b)
  <2>1. Wip(b) \in Refinements /\ builder[b].ref # NoRef
    BY <1>1, <1>3, WipFacts DEF SetNull
  <2>2. Wip(b).null \in Tristate
    BY <2>1 DEF Refinements, RefinementNullable, RefinementNumber,
       RefinementCollection, RefinementString
  <2>3. CASE Panic(b)
    BY <1>1, <2>3 DEF Narrowing
  <2>4. CASE /\ Wip(b).null # (IF t = "T" THEN "F" ELSE "T")
             /\ Store(b, [Wip(b) EXCEPT !.null = t], TRUE)
    <3>1. Tightens([Wip(b) EXCEPT !.null = t], Wip(b), TypeOf(b))
      BY <2>1, <2>2, <2>4, SetNullKeepsBounds DEF Tightens, Tristate
    <3> QED BY <1>1, <2>1, <2>4, <3>1 DEF Narrowing
  <2> QED BY <1>3, <2>3, <2>4 DEF SetNull
<1> QED BY <1>2, <1>3 DEF NotNull, NullMethod

LEMMA NumberMethodsNarrow ==
  ASSUME IInv, NEW b \in Builders, NEW n, NEW inc \in BOOLEAN,
         NumberRangeLowerBound(b, n, inc) \/ NumberRangeUpperBound(b, n, inc)
  PROVE  Narrowing(b)
<1>1. Callable(b) /\ builder[b] # Free
  BY DEF NumberRangeLowerBound, NumberRangeUpperBound, Callable
<1>2. CASE Ignored(b) \/ WrongKind(b, "number") \/ BadNumberArg(b, n)
  BY <1>1, <1>2 DEF Ignored, WrongKind, BadNumberArg, Narrowing
<1>3. CASE Refineable(b, "number") /\ n \in Numbers /\ (SetMin(b, n, inc) \/ SetMax(b, n, inc))
  <2>1. /\ Wip(b) \in RefinementNumber /\ builder[b].ref # NoRef
        /\ NonNull(TypeOf(b)) = Numbers
    BY <1>1, <1>3, WipFacts, KindDecides, KindGivesUniverse DEF Refineable
  <2>2. CASE Panic(b) \/ UNCHANGED vars
    BY <1>1, <2>2 DEF Narrowing
  <2>3. ASSUME NEW w \in {WithMin(Wip(b), n, inc), WithMax(Wip(b), n, inc)},
               NEW ok, Store(b, w, ok)
        PROVE  Narrowing(b)
    <3>1. /\ w \in RefinementNumber /\ w.null = Wip(b).null
          /\ \A c \in Numbers : Allows(w, c) => Allows(Wip(b), c)
      BY <1>3, <2>1, <2>3, WithMinNarrows, WithMaxNarrows
    <3>2. w.kind = Wip(b).kind /\ w \in Refinements
      BY <2>1, <3>1 DEF RefinementNumber, Refinements
    <3>3. Tightens(w, Wip(b), TypeOf(b))
      BY <2>1, <3>1, <3>2 DEF Tightens
    <3> QED BY <1>1, <2>1, <2>3, <3>3 DEF Narrowing
  <2> QED BY <1>3, <2>2, <2>3 DEF SetMin, SetMax
<1> QED BY <1>2, <1>3 DEF NumberRangeLowerBound, NumberRangeUpperBound, SetMin, SetMax

LEMMA LengthMethodsNarrow ==
  ASSUME IInv, NEW b \in Builders, NEW n \in Int,
         CollectionLengthLowerBound(b, n) \/ CollectionLengthUpperBound(b, n)
  PROVE  Narrowing(b)
<1>1. Callable(b) /\ builder[b] # Free
  BY DEF CollectionLengthLowerBound, CollectionLengthUpperBound, Callable
<1>2. CASE Ignored(b) \/ WrongKind(b, "collection")
  BY <1>1, <1>2 DEF Ignored, WrongKind, Narrowing
<1>3. CASE Refineable(b, "collection") /\ (SetMinLen(b, n) \/ SetMaxLen(b, n))
  <2>1. /\ Wip(b) \in RefinementCollection /\ builder[b].ref # NoRef
        /\ NonNull(TypeOf(b)) \subseteq Int
    BY <1>1, <1>3, WipFacts, KindDecides, KindGivesUniverse DEF Refineable
  <2>2. CASE Panic(b) \/ UNCHANGED vars
    BY <1>1, <2>2 DEF Narrowing
  <2>3. ASSUME NEW w \in {WithMinLen(Wip(b), n), WithMaxLen(Wip(b), n)},
               NEW ok, Store(b, w, ok)
        PROVE  Narrowing(b)
    <3>1. /\ w \in RefinementCollection /\ w.null = Wip(b).null
          /\ \A c \in Int : Allows(w, c) => Allows(Wip(b), c)
      <4>1. CASE w = WithMinLen(Wip(b), n)
        BY <2>1, <4>1, WithMinLenNarrows
      <4>2. CASE w = WithMaxLen(Wip(b), n)
        BY <2>1, <4>2, WithMaxLenNarrows
      <4> QED BY <2>3, <4>1, <4>2
    <3>2. w.kind = Wip(b).kind /\ w \in Refinements
      BY <2>1, <3>1 DEF RefinementCollection, Refinements
    <3>3. Tightens(w, Wip(b), TypeOf(b))
      BY <2>1, <3>1, <3>2 DEF Tightens
    <3> QED BY <1>1, <2>1, <2>3, <3>3 DEF Narrowing
  <2> QED BY <1>3, <2>2, <2>3 DEF SetMinLen, SetMaxLen
<1> QED BY <1>2, <1>3 DEF CollectionLengthLowerBound, CollectionLengthUpperBound

LEMMA PrefixMethodNarrows ==
  ASSUME IInv, NEW b \in Builders, NEW p \in Seq(Int), StringPrefixFull(b, p)
  PROVE  Narrowing(b)
<1>1. Callable(b) /\ builder[b] # Free
  BY DEF StringPrefixFull, Callable
<1>2. CASE Ignored(b) \/ WrongKind(b, "string")
  BY <1>1, <1>2 DEF Ignored, WrongKind, Narrowing
<1>3. CASE Refineable(b, "string") /\ SetPrefix(b, p)
  <2>1. /\ Wip(b) \in RefinementString /\ builder[b].ref # NoRef
        /\ NonNull(TypeOf(b)) \subseteq Seq(Int)
    BY <1>1, <1>3, WipFacts, KindDecides, KindGivesUniverse, StringsAssumption
    DEF Refineable, StringsAssumption
  <2>2. CASE Panic(b)
    BY <1>1, <2>2 DEF Narrowing
  <2>3. CASE OverlapMatches(Wip(b).prefix, p) /\ Store(b, WithPrefix(Wip(b), p), TRUE)
    <3> DEFINE w == WithPrefix(Wip(b), p)
    <3>1. /\ w \in RefinementString /\ w.null = Wip(b).null
          /\ \A c \in Seq(Int) : Allows(w, c) => Allows(Wip(b), c)
      BY <2>1, <2>3, WithPrefixNarrows
    <3>2. w.kind = Wip(b).kind /\ w \in Refinements
      BY <2>1, <3>1 DEF RefinementString, Refinements
    <3>4. Store(b, w, TRUE)
      BY <2>3
    <3> HIDE DEF w
    <3>3. Tightens(w, Wip(b), TypeOf(b))
      BY <2>1, <3>1, <3>2 DEF Tightens
    <3> QED BY <1>1, <2>1, <3>4, <3>3 DEF Narrowing
  <2> QED BY <1>3, <2>2, <2>3 DEF SetPrefix
<1> QED BY <1>2, <1>3 DEF StringPrefixFull

(* Every step makes a builder, returns a value or narrows one builder. *)
LEMMA StepKinds ==
  ASSUME IInv, Next
  PROVE  \E b \in Builders :
           \/ \E v \in Values : Refine(b, v) \/ NewValue(b, v)
           \/ Narrowing(b)
<1>1. PICK b \in Builders :
        \/ \E v \in Values : Refine(b, v) \/ NewValue(b, v)
        \/ NotNull(b) \/ NullMethod(b)
        \/ NumberMethod(b) \/ LengthMethod(b) \/ PrefixMethod(b)
  BY DEF Next
<1>2. CASE NumberMethod(b)
  <2>1. PICK a \in NumberArgs :
          \/ NumberRangeLowerBound(b, a[1], a[2])
          \/ NumberRangeUpperBound(b, a[1], a[2])
    BY <1>2 DEF NumberMethod
  <2>2. a[2] \in BOOLEAN
    BY ProgramAssumption DEF ProgramAssumption
  <2> QED BY <2>1, <2>2, NumberMethodsNarrow
<1>3. CASE LengthMethod(b)
  BY <1>3, LengthMethodsNarrow, ProgramAssumption DEF LengthMethod, ProgramAssumption
<1>4. CASE PrefixMethod(b)
  BY <1>4, PrefixMethodNarrows, ProgramAssumption DEF PrefixMethod, ProgramAssumption
<1> QED BY <1>1, <1>2, <1>3, <1>4, NullMethodsNarrow

----------------------------------------------------------------------------
(* Type correctness and the sharing discipline are invariant.              *)

LEMMA InitIInv == Init => IInv
<1> SUFFICES ASSUME Init PROVE IInv
  OBVIOUS
<1>1. PICK x \in InitialValues :
        value = [v \in Values |-> IF v = Root THEN x ELSE Free]
  BY DEF Init
<1>2. IsValue(x) /\ (~x.known => x.ref = NoRef)
  BY ProgramAssumption DEF ProgramAssumption
<1>3. TypeOK
  BY <1>1, <1>2 DEF Init, TypeOK
<1>4. RefsOK
  BY <1>1, <1>2 DEF Init, RefsOK, BuilderOK, Shares
<1> QED BY <1>3, <1>4 DEF IInv

(* A builder that stays in use with the same object and type keeps every   *)
(* value and builder that shares the object in order.                      *)
BuildersKept ==
  \A b \in Builders : builder[b] # Free =>
    /\ builder'[b] # Free
    /\ builder'[b].ref = builder[b].ref
    /\ builder'[b].orig = builder[b].orig

LEMMA SharesKept ==
  ASSUME IInv, BuildersKept, NEW x, IsValue(x), Shares(x, builder)
  PROVE  Shares(x, builder')
BY DEF BuildersKept, Shares, IsValue, UnknownValue, KnownValue

(* Panicking, finishing or storing touches only the status of a builder.   *)
LEMMA StatusOnly ==
  ASSUME IInv, NEW b \in Builders, builder[b] # Free, NEW s \in Status,
         builder' = [builder EXCEPT ![b].status = s]
  PROVE  /\ BuildersKept
         /\ builder' \in [Builders -> {builder'[c] : c \in Builders}]
         /\ \A c \in Builders : builder'[c] # Free =>
              builder[c] # Free /\ IsBuilder(builder'[c])
<1>1. IsBuilder(builder[b])
  BY DEF IInv, TypeOK
<1> DEFINE y == [builder[b] EXCEPT !.status = s]
<1>2. IsBuilder(y) /\ y.ref = builder[b].ref /\ y.orig = builder[b].orig
  BY <1>1 DEF IsBuilder
<1>3. y # Free
  BY <1>2, BuilderNotFree
<1>4. builder' = [builder EXCEPT ![b] = y]
  BY DEF IInv, TypeOK
<1> HIDE DEF y
<1>5. \A c \in Builders : builder'[c] = IF c = b THEN y ELSE builder[c]
  BY <1>4 DEF IInv, TypeOK
<1>6. BuildersKept
  BY <1>2, <1>3, <1>5 DEF BuildersKept
<1>7. builder' \in [Builders -> {builder'[c] : c \in Builders}]
  BY <1>4 DEF IInv, TypeOK
<1>8. \A c \in Builders : builder'[c] # Free =>
         builder[c] # Free /\ IsBuilder(builder'[c])
  BY <1>2, <1>5 DEF IInv, TypeOK
<1> QED BY <1>6, <1>7, <1>8

(* If no builder is new and every object keeps its kind, the pointers are  *)
(* still in order.                                                         *)
LEMMA RefsKept ==
  ASSUME IInv, BuildersKept,
         \A c \in Builders : builder'[c] # Free => builder[c] # Free,
         \A c \in Builders :
           heap[c] # Free => heap'[c] # Free /\ heap'[c].kind = heap[c].kind
  PROVE  \A c \in Builders : BuilderOK(c)'
<1> SUFFICES ASSUME NEW c \in Builders, builder'[c] # Free
             PROVE  BuilderOK(c)'
  BY DEF BuilderOK
<1>1. /\ builder[c] # Free /\ builder'[c].ref = builder[c].ref
      /\ builder'[c].orig = builder[c].orig /\ BuilderOK(c)
      /\ IsValue(builder[c].orig)
  BY DEF BuildersKept, IInv, RefsOK, TypeOK, IsBuilder
<1>2. Shares(builder[c].orig, builder')
  BY <1>1, SharesKept DEF BuilderOK
<1>3. builder'[c].ref # NoRef =>
        heap'[c] # Free /\ heap'[c].kind = KindOf(TypeOf(c)')
  BY <1>1 DEF BuilderOK, TypeOf
<1>4. builder'[c].ref = RefineRef(c, builder'[c].orig)
  BY <1>1 DEF BuilderOK
<1>5. Shares(builder'[c].orig, builder')
  BY <1>1, <1>2
<1> QED BY <1>3, <1>4, <1>5 DEF BuilderOK

LEMMA RefineKeepsIInv ==
  ASSUME IInv, NEW b \in Builders, NEW v \in Values, Refine(b, v)
  PROVE  IInv'
<1> DEFINE x == value[v]
           y == [orig |-> [x EXCEPT !.marks = {}], marks |-> x.marks,
                 ref |-> RefineRef(b, x), status |-> "open"]
<1>1. /\ x # Free /\ IsValue(x) /\ Shares(x, builder) /\ builder[b] = Free
      /\ x.ty \in Types
  BY DEF Refine, IInv, TypeOK, RefsOK, IsValue
<1>2. /\ IsValue(y.orig) /\ y.orig.ty = x.ty /\ y.orig.known = x.known
      /\ ~x.known => y.orig.ref = x.ref
  BY <1>1 DEF IsValue, KnownValue, UnknownValue
<1>3. y.ref = RefineRef(b, y.orig) /\ y.ref \in Builders \cup {NoRef}
  BY <1>2 DEF RefineRef, IsDynamicVal
<1>4. IsBuilder(y)
  BY <1>1, <1>2, <1>3 DEF IsBuilder, Status, IsValue, KnownValue, UnknownValue
<1>5. y # Free
  BY <1>4, BuilderNotFree
<1>6. \A c \in Builders : builder'[c] = IF c = b THEN y ELSE builder[c]
  BY DEF Refine, IInv, TypeOK
<1>7. BuildersKept
  BY <1>1, <1>6 DEF BuildersKept
<1> DEFINE h == IF ~x.known /\ x.ref # NoRef THEN heap[x.ref] ELSE Fresh(x.ty)
<1>8. ~IsDynamicVal(x) => h \in Refinements /\ h.kind = KindOf(x.ty)
  <2>1. CASE ~x.known /\ x.ref # NoRef
    <3>1. x.ref \in Builders
      BY <1>1, <2>1 DEF IsValue, KnownValue, UnknownValue
    <3>2. builder[x.ref] # Free /\ builder[x.ref].ref # NoRef
          /\ TypeOf(x.ref) = x.ty
      BY <1>1, <2>1, <3>1 DEF Shares, TypeOf
    <3> QED BY <2>1, <3>1, <3>2, WipFacts
  <2>2. CASE ~(~x.known /\ x.ref # NoRef)
    BY <1>1, <2>2, FreshIsRefinement
  <2> QED BY <2>1, <2>2
<1>9. /\ heap' \in [Builders -> Refinements \cup {Free}]
      /\ \A c \in Builders : c # b => heap'[c] = heap[c]
      /\ ~IsDynamicVal(x) => heap'[b] = h
  <2>1. CASE IsDynamicVal(x)
    BY <2>1 DEF Refine, IInv, TypeOK
  <2>2. CASE ~IsDynamicVal(x)
    <3>1. heap' = [heap EXCEPT ![b] = h]
      BY <2>2 DEF Refine, RefineRef
    <3> HIDE DEF h
    <3> QED BY <1>8, <2>2, <3>1 DEF IInv, TypeOK
  <2> QED BY <2>1, <2>2
<1> HIDE DEF y, h, x
<1>10. TypeOK'
  <2>1. value' = value
    BY DEF Refine
  <2>2. builder' \in [Builders -> {builder'[c] : c \in Builders}]
    BY DEF Refine, IInv, TypeOK
  <2>3. \A c \in Builders : builder'[c] # Free => IsBuilder(builder'[c])
    BY <1>4, <1>6 DEF IInv, TypeOK
  <2> QED BY <1>9, <2>1, <2>2, <2>3 DEF IInv, TypeOK
<1>11. ASSUME NEW c \in Builders, builder'[c] # Free
       PROVE  BuilderOK(c)'
  <2>1. CASE c = b
    <3>1. builder'[c] = y
      BY <1>6, <2>1
    <3>2. Shares(y.orig, builder')
      <4>1. Shares(y.orig, builder)
        BY <1>1, <1>2 DEF Shares
      <4> QED BY <1>2, <1>7, <4>1, SharesKept
    <3>3. y.ref # NoRef => heap'[c] # Free /\ heap'[c].kind = KindOf(y.orig.ty)
      BY <1>2, <1>3, <1>8, <1>9, <2>1, ProgramAssumption
      DEF RefineRef, IsDynamicVal, ProgramAssumption
    <3> QED BY <1>3, <2>1, <3>1, <3>2, <3>3 DEF BuilderOK, TypeOf
  <2>2. CASE c # b
    <3>1. builder'[c] = builder[c] /\ builder[c] # Free /\ heap'[c] = heap[c]
      BY <1>6, <1>9, <1>11, <2>2
    <3>2. BuilderOK(c) /\ IsValue(builder[c].orig)
      BY <3>1 DEF IInv, RefsOK, TypeOK, IsBuilder
    <3>3. Shares(builder[c].orig, builder')
      BY <1>7, <3>1, <3>2, SharesKept DEF BuilderOK
    <3> QED BY <3>1, <3>2, <3>3 DEF BuilderOK, TypeOf
  <2> QED BY <2>1, <2>2
<1>12. \A w \in Values : value'[w] # Free => Shares(value'[w], builder')
  <2>1. value' = value
    BY DEF Refine
  <2> QED BY <1>7, <2>1, SharesKept DEF IInv, TypeOK, RefsOK
<1> QED BY <1>10, <1>11, <1>12 DEF IInv, RefsOK, BuilderOK

LEMMA NarrowingKeepsIInv ==
  ASSUME IInv, NEW b \in Builders, Narrowing(b)
  PROVE  IInv'
<1>1. CASE UNCHANGED vars
  BY <1>1 DEF vars, IInv, TypeOK, RefsOK, BuilderOK, Shares, TypeOf
<1>2. ASSUME NEW h \in Refinements \cup {Free}, NEW s \in Status,
             /\ heap' = [heap EXCEPT ![b] = h]
             /\ heap[b] # Free => h # Free /\ h.kind = heap[b].kind
             /\ builder' = [builder EXCEPT ![b].status = s]
             /\ value' = value
      PROVE  IInv'
  <2>1. builder[b] # Free
    BY DEF Narrowing, Callable
  <2>2. /\ BuildersKept
        /\ builder' \in [Builders -> {builder'[c] : c \in Builders}]
        /\ \A c \in Builders : builder'[c] # Free =>
              builder[c] # Free /\ IsBuilder(builder'[c])
    BY <1>2, <2>1, StatusOnly
  <2>3. heap' \in [Builders -> Refinements \cup {Free}]
    BY <1>2 DEF IInv, TypeOK
  <2>4. TypeOK'
    BY <1>2, <2>2, <2>3 DEF IInv, TypeOK
  <2>5. \A c \in Builders :
          heap[c] # Free => heap'[c] # Free /\ heap'[c].kind = heap[c].kind
    BY <1>2 DEF IInv, TypeOK
  <2>6. \A c \in Builders : BuilderOK(c)'
    BY <2>2, <2>5, RefsKept
  <2>7. \A v \in Values : value'[v] # Free => Shares(value'[v], builder')
    BY <1>2, <2>2, SharesKept DEF IInv, TypeOK, RefsOK
  <2> QED BY <2>4, <2>6, <2>7 DEF IInv, RefsOK
<1>3. builder[b] # Free /\ IsBuilder(builder[b]) /\ builder[b].status \in Status
  BY DEF Narrowing, Callable, IInv, TypeOK, IsBuilder
<1>4. builder = [builder EXCEPT ![b].status = builder[b].status]
  BY <1>3 DEF IInv, TypeOK, IsBuilder
<1>5. CASE Panic(b)
  <2>1. heap' = [heap EXCEPT ![b] = heap[b]] /\ heap[b] \in Refinements \cup {Free}
    BY <1>5 DEF Panic, IInv, TypeOK
  <2> QED BY <1>2, <1>5, <2>1 DEF Panic, Status
<1>6. ASSUME NEW w, NEW ok, builder[b].ref # NoRef,
             Tightens(w, Wip(b), TypeOf(b)), Store(b, w, ok)
      PROVE  IInv'
  <2>1. /\ heap' = [heap EXCEPT ![b] = w] /\ w \in Refinements
        /\ w.kind = heap[b].kind /\ w # Free
    BY <1>3, <1>6, WipFacts, ProgramAssumption
    DEF Store, Tightens, ProgramAssumption
  <2>2. PICK s \in Status : builder' = [builder EXCEPT ![b].status = s]
    BY <1>3, <1>4, <1>6 DEF Store, Status
  <2>3. value' = value
    BY <1>6 DEF Store
  <2> QED BY <1>2, <2>1, <2>2, <2>3
<1> QED BY <1>1, <1>5, <1>6 DEF Narrowing

(* What a builder returns is a value of the type it refines. *)
LEMMA ResultIsValue ==
  ASSUME IInv, NEW b \in Builders, builder[b] # Free
  PROVE  /\ IsValue(Result(b))
         /\ Shares(Result(b), builder)
         /\ ~Result(b).known => Result(b).ref = builder[b].ref
<1> DEFINE o == builder[b].orig
           m == builder[b].marks
<1>1. /\ IsValue(o) /\ o.ty \in Types /\ m \in SUBSET Marks
      /\ Shares(o, builder) /\ builder[b].ref = RefineRef(b, o)
      /\ builder[b].ref \in Builders \cup {NoRef}
  BY DEF IInv, TypeOK, RefsOK, BuilderOK, IsBuilder, IsValue
<1>2. CASE o.known \/ IsDynamicVal(o)
  <2>1. Result(b) = [o EXCEPT !.marks = m]
    BY <1>2 DEF Result
  <2>2. IsDynamicVal(o) => o.ref = NoRef /\ builder[b].ref = NoRef
    BY <1>1, ProgramAssumption
    DEF IsDynamicVal, IsValue, KnownValue, UnknownValue, RefineRef
  <2>3. IsValue([o EXCEPT !.marks = m])
    BY <1>1 DEF IsValue, KnownValue, UnknownValue
  <2>4. /\ [o EXCEPT !.marks = m].known = o.known
        /\ ~o.known => [o EXCEPT !.marks = m].ref = o.ref
    BY <1>1 DEF IsValue, KnownValue, UnknownValue
  <2> QED BY <1>2, <2>1, <2>2, <2>3, <2>4 DEF Shares
<1>3. CASE ~o.known /\ ~IsDynamicVal(o)
  <2>1. builder[b].ref = b /\ builder[b].ref # NoRef
    BY <1>1, <1>3, ProgramAssumption DEF RefineRef, ProgramAssumption
  <2>2. Wip(b) \in Refinements /\ Wip(b).kind = KindOf(o.ty) /\ o.ty # "dynamic"
    BY <1>3, <2>1, WipFacts DEF TypeOf, IsDynamicVal
  <2>3. CASE Result(b) = Known(o.ty, Null, m)
    BY <1>1, <2>3 DEF Known, IsValue, KnownValue, Shares
  <2>4. CASE Result(b) = Known(o.ty, CollapsedTo(Wip(b)), m) /\ Collapses(o.ty, Wip(b))
    <3>1. CASE CollapsesNumber(Wip(b))
      <4>1. o.ty = "number" /\ CollapsedTo(Wip(b)) \in Numbers
        BY <1>1, <2>2, <3>1, KindDecides
        DEF CollapsesNumber, CollapsedTo, RefinementNumber, KindOf, Types, CollectionTypes
      <4>2. CollapsedTo(Wip(b)) \in NonNull(o.ty)
        BY <4>1 DEF NonNull, CollectionTypes
      <4> QED BY <1>1, <2>2, <2>4, <4>2 DEF Known, IsValue, KnownValue, Shares
    <3>2. CASE CollapsesCollection(o.ty, Wip(b))
      <4>1. o.ty \in CollectionTypes
        BY <1>1, <2>2, <3>2 DEF CollapsesCollection, KindOf, Types
      <4>2. CollapsedTo(Wip(b)) \in 0 .. MaxInt
        BY <2>2, <3>2, KindDecides, LengthsAssumption
        DEF CollapsesCollection, CollapsedTo, RefinementCollection, LengthsAssumption
      <4>3. CollapsedTo(Wip(b)) \in NonNull(o.ty)
        BY <4>1, <4>2 DEF NonNull, CollectionTypes
      <4> QED BY <1>1, <2>2, <2>4, <4>3 DEF Known, IsValue, KnownValue, Shares
    <3> QED BY <2>4, <3>1, <3>2 DEF Collapses
  <2>5. CASE Result(b) = Unknown(o.ty, builder[b].ref, m)
    BY <1>1, <2>1, <2>2, <2>5 DEF Unknown, IsValue, UnknownValue, Shares
  <2> QED BY <1>3, <2>3, <2>4, <2>5 DEF Result
<1> QED BY <1>2, <1>3

LEMMA NewValueKeepsIInv ==
  ASSUME IInv, NEW b \in Builders, NEW v \in Values, NewValue(b, v)
  PROVE  IInv'
<1>1. builder[b] # Free /\ builder' = [builder EXCEPT ![b].status = "done"]
      /\ heap' = heap
  BY DEF NewValue, Callable
<1>2. /\ BuildersKept
      /\ builder' \in [Builders -> {builder'[c] : c \in Builders}]
      /\ \A c \in Builders : builder'[c] # Free =>
            builder[c] # Free /\ IsBuilder(builder'[c])
  BY <1>1, StatusOnly DEF Status
<1>3. IsValue(Result(b)) /\ Shares(Result(b), builder)
  BY <1>1, ResultIsValue
<1>4. /\ value' \in [Values -> {value'[w] : w \in Values}]
      /\ \A w \in Values : value'[w] = IF w = v THEN Result(b) ELSE value[w]
  BY DEF NewValue, IInv, TypeOK
<1>5. TypeOK'
  BY <1>1, <1>2, <1>3, <1>4 DEF IInv, TypeOK
<1>6. \A c \in Builders : BuilderOK(c)'
  BY <1>1, <1>2, RefsKept
<1>7. \A w \in Values : value'[w] # Free => Shares(value'[w], builder')
  BY <1>2, <1>3, <1>4, SharesKept DEF IInv, TypeOK, RefsOK
<1> QED BY <1>5, <1>6, <1>7 DEF IInv, RefsOK

LEMMA NextKeepsIInv == IInv /\ [Next]_vars => IInv'
<1> SUFFICES ASSUME IInv, [Next]_vars PROVE IInv'
  OBVIOUS
<1>1. CASE Next
  BY <1>1, StepKinds, RefineKeepsIInv, NewValueKeepsIInv, NarrowingKeepsIInv
<1>2. CASE UNCHANGED vars
  BY <1>2 DEF vars, IInv, TypeOK, RefsOK, BuilderOK, Shares, TypeOf
<1> QED BY <1>1, <1>2

LEMMA SpecIInv == Spec => []IInv
<1> QED BY InitIInv, NextKeepsIInv, PTL DEF Spec

(* Every reachable state is type correct. *)
THEOREM TypeCorrect == Spec => []TypeOK
<1>1. IInv => TypeOK
  BY DEF IInv
<1> QED BY <1>1, SpecIInv, PTL

(* Refinements always shrink the range of an unknown value and never grow  *)
(* it: for every program, builders called after NewValue included.         *)
THEOREM RangesNarrow == Spec => RangesOnlyNarrow
<1> DEFINE Shrinks ==
      \A b \in Builders :
        InUse(b) => Range(TypeOf(b), Wip(b)') \subseteq Range(TypeOf(b), Wip(b))
<1>1. ASSUME IInv, Next PROVE Shrinks
  <2> SUFFICES ASSUME NEW d \in Builders, InUse(d)
               PROVE  Range(TypeOf(d), Wip(d)') \subseteq Range(TypeOf(d), Wip(d))
    OBVIOUS
  <2>1. /\ builder[d] # Free /\ builder[d].ref = d /\ d # NoRef
        /\ Wip(d) = heap[d] /\ TypeOf(d) \in Types
    BY <1>1, WipFacts DEF InUse
  <2>2. PICK b \in Builders :
          \/ \E v \in Values : Refine(b, v) \/ NewValue(b, v)
          \/ Narrowing(b)
    BY <1>1, StepKinds
  <2>3. CASE heap'[d] = heap[d] /\ builder'[d].ref = d
    BY <2>1, <2>3 DEF Wip
  <2>4. CASE \E v \in Values : Refine(b, v)
    <3>1. b # d
      BY <1>1, <2>1, <2>4 DEF Refine
    <3> QED BY <1>1, <2>1, <2>3, <2>4, <3>1 DEF Refine, RefineRef, IInv, TypeOK
  <2>5. CASE (\E v \in Values : NewValue(b, v)) \/ Panic(b)
    BY <1>1, <2>1, <2>3, <2>5 DEF NewValue, Panic, IInv, TypeOK, IsBuilder
  <2>6. CASE UNCHANGED vars
    BY <2>1, <2>3, <2>6 DEF vars
  <2>7. ASSUME NEW w, NEW ok, builder[b] # Free, builder[b].ref # NoRef,
               Tightens(w, Wip(b), TypeOf(b)), Store(b, w, ok)
        PROVE  Range(TypeOf(d), Wip(d)') \subseteq Range(TypeOf(d), Wip(d))
    <3>1. builder'[d].ref = d /\ builder[b].ref = b
      BY <1>1, <2>1, <2>7, WipFacts DEF Store, IInv, TypeOK, IsBuilder
    <3>2. CASE d # b
      BY <1>1, <2>1, <2>3, <2>7, <3>1, <3>2 DEF Store, IInv, TypeOK
    <3>3. CASE d = b
      <4>1. Wip(d)' = w /\ Wip(d) = heap[b]
        BY <1>1, <2>1, <2>7, <3>1, <3>3 DEF Store, IInv, TypeOK, Wip
      <4>2. Candidates(TypeOf(d), w) \subseteq Candidates(TypeOf(d), Wip(d))
        BY <2>7, <3>3 DEF Tightens, Candidates
      <4>3. w.null = Wip(d).null \/ Wip(d).null = "U"
        BY <2>7, <3>3 DEF Tightens
      <4> QED BY <4>1, <4>2, <4>3 DEF Range
    <3> QED BY <3>2, <3>3
  <2> QED BY <2>2, <2>4, <2>5, <2>6, <2>7 DEF Narrowing, Callable
<1>2. IInv /\ [Next]_vars => [Shrinks]_vars
  BY <1>1
<1> QED BY <1>2, SpecIInv, PTL DEF Spec, RangesOnlyNarrow

----------------------------------------------------------------------------
(* Immutability of values, when no builder is called after NewValue.       *)

(* The object of an unknown value belongs to a builder that has returned.  *)
OwnersAreDone ==
  \A v \in Values :
    (value[v] # Free /\ ~value[v].known /\ value[v].ref # NoRef) =>
      builder[value[v].ref].status = "done"

LEMMA InitOwners == Init => OwnersAreDone
<1> SUFFICES ASSUME Init PROVE OwnersAreDone
  OBVIOUS
<1>1. PICK x \in InitialValues :
        value = [v \in Values |-> IF v = Root THEN x ELSE Free]
  BY DEF Init
<1>2. ~x.known => x.ref = NoRef
  BY ProgramAssumption DEF ProgramAssumption
<1> QED BY <1>1, <1>2 DEF OwnersAreDone

(* The pointer of an unknown value names a builder in use. *)
LEMMA RefFacts ==
  ASSUME IInv, NEW v \in Values, value[v] # Free, ~value[v].known,
         value[v].ref # NoRef
  PROVE  value[v].ref \in Builders /\ builder[value[v].ref] # Free
BY DEF IInv, TypeOK, RefsOK, Shares, IsValue, KnownValue, UnknownValue

LEMMA NextKeepsOwners ==
  ASSUME IInv, OwnersAreDone, ReuseBuilder = FALSE, [Next]_vars
  PROVE  /\ OwnersAreDone'
         /\ \A v \in Values : value[v] # Free => Meaning(v)' = Meaning(v)
<1> DEFINE HasRef(v) ==
      value[v] # Free /\ ~value[v].known /\ value[v].ref # NoRef
<1>1. ASSUME \A v \in Values : value[v] # Free => value'[v] = value[v],
             \A v \in Values : HasRef(v) =>
               /\ builder'[value[v].ref].status = "done"
               /\ heap'[value[v].ref] = heap[value[v].ref],
             \A v \in Values :
               (value[v] = Free /\ value'[v] # Free /\ ~value'[v].known
                 /\ value'[v].ref # NoRef) =>
               builder'[value'[v].ref].status = "done"
      PROVE  /\ OwnersAreDone'
             /\ \A v \in Values : value[v] # Free => Meaning(v)' = Meaning(v)
  BY <1>1 DEF OwnersAreDone, Meaning
<1>2. CASE UNCHANGED vars
  BY <1>1, <1>2 DEF vars, OwnersAreDone
<1>3. CASE Next
  <2>1. PICK b \in Builders :
          \/ \E v \in Values : Refine(b, v) \/ NewValue(b, v)
          \/ Narrowing(b)
    BY <1>3, StepKinds
  <2>2. CASE \E v \in Values : Refine(b, v)
    <3>1. PICK u \in Values : Refine(b, u)
      BY <2>2
    <3>2. value' = value /\ builder[b] = Free
      BY <3>1 DEF Refine
    <3>3. \A c \in Builders : c # b => builder'[c] = builder[c] /\ heap'[c] = heap[c]
      BY <3>1, ProgramAssumption DEF Refine, RefineRef, ProgramAssumption, IInv, TypeOK
    <3>4. \A v \in Values : HasRef(v) => value[v].ref \in Builders \ {b}
      BY <3>2, RefFacts
    <3> QED BY <1>1, <3>2, <3>3, <3>4 DEF OwnersAreDone
  <2>3. CASE \E v \in Values : NewValue(b, v)
    <3>1. PICK u \in Values : NewValue(b, u)
      BY <2>3
    <3>2. /\ heap' = heap /\ value[u] = Free /\ builder[b] # Free
          /\ \A v \in Values : value'[v] = IF v = u THEN Result(b) ELSE value[v]
      BY <3>1 DEF NewValue, Callable, IInv, TypeOK
    <3>3. /\ \A c \in Builders : c # b => builder'[c] = builder[c]
          /\ builder'[b].status = "done"
      BY <3>1, <3>2 DEF NewValue, IInv, TypeOK, IsBuilder
    <3>4. (~Result(b).known /\ Result(b).ref # NoRef) => Result(b).ref = b
      BY <3>2, ResultIsValue, WipFacts
    <3>5. \A v \in Values : HasRef(v) => value[v].ref \in Builders
      BY RefFacts
    <3> QED BY <1>1, <3>2, <3>3, <3>4, <3>5 DEF OwnersAreDone
  <2>4. CASE Narrowing(b)
    <3>1. builder[b] # Free /\ builder[b].status = "open"
      BY <2>4 DEF Narrowing, Callable
    <3>2. value' = value
      BY <2>4 DEF Narrowing, Panic, Store, vars
    <3>3. \A c \in Builders : c # b => builder'[c] = builder[c] /\ heap'[c] = heap[c]
      <4>1. CASE UNCHANGED vars
        BY <4>1 DEF vars
      <4>2. CASE Panic(b)
        BY <4>2 DEF Panic, IInv, TypeOK
      <4>3. ASSUME NEW w, NEW ok, builder[b].ref # NoRef, Store(b, w, ok)
            PROVE  \A c \in Builders :
                     c # b => builder'[c] = builder[c] /\ heap'[c] = heap[c]
        <5>1. builder[b].ref = b
          BY <3>1, <4>3, WipFacts
        <5> QED BY <4>3, <5>1 DEF Store, IInv, TypeOK
      <4> QED BY <2>4, <4>1, <4>2, <4>3 DEF Narrowing
    <3>4. \A v \in Values : HasRef(v) => value[v].ref \in Builders \ {b}
      BY <3>1, RefFacts DEF OwnersAreDone
    <3> QED BY <1>1, <3>2, <3>3, <3>4 DEF OwnersAreDone
  <2> QED BY <2>1, <2>2, <2>3, <2>4
<1> QED BY <1>2, <1>3

(* What a value may turn out to be never changes once it is returned, if   *)
(* every call chain ends with NewValue.                                    *)
THEOREM ImmutableWithoutReuse ==
  ASSUME ReuseBuilder = FALSE
  PROVE  Spec => ValuesAreImmutable
<1> DEFINE Same == \A v \in Values : value[v] # Free => Meaning(v)' = Meaning(v)
<1>1. IInv /\ OwnersAreDone /\ [Next]_vars => OwnersAreDone' /\ [Same]_vars
  BY NextKeepsOwners
<1> QED BY <1>1, InitOwners, SpecIInv, PTL DEF Spec, ValuesAreImmutable
=============================================================================
