------------------------- MODULE PartialEvaluation -------------------------
(***************************************************************************)
(* One program of value operations, evaluated twice: early, when some of   *)
(* its inputs are unknown, and late, when more is known of them.  This is  *)
(* how an application uses unknown values: it plans with placeholders and  *)
(* runs again when they have become real.  A step applies one operation of *)
(* ValueOps to the same operands in both evaluations; its result is a new  *)
(* operand for the steps that follow.  A panic ends the program.           *)
(***************************************************************************)
EXTENDS ValueOps

CONSTANTS
  InitialPairs,  \* the inputs: <<early, late>> pairs, late Within early
  ChainPairs,    \* those for programs of several operations
  Inputs,        \* how many inputs the program has
  MaxOperands    \* bound: inputs and results of such a program together

VARIABLES
  early,   \* the operands so far, as the early evaluation knows them
  late,    \* the same operands in the late evaluation
  failed   \* the evaluations in which the last step panicked

vars == <<early, late, failed>>

----------------------------------------------------------------------------
(* What an operand may be.                                                 *)

IsConcrete(ty, c) ==
  CASE ty = "number" -> c \in Numbers
    [] ty = "bool" -> c \in BOOLEAN
    [] ty \in {"list", "set"} -> c \in 0 .. MaxInt
    [] ty = "dynamic" -> FALSE

Consistent(r) ==
  /\ r.kind = "number" => ConsistentBounds(r)
  /\ r.kind = "collection" => ConsistentLengths(r)

IsValue(x) ==
  /\ x.ty \in OperandTypes
  /\ IF x.known
       THEN /\ x \in [ty : {x.ty}, known : {TRUE}, c : {x.c}, whole : BOOLEAN, lit : BOOLEAN]
            /\ x.c = Null \/ IsConcrete(x.ty, x.c)
            /\ ~x.whole => x.ty = "set" /\ x.c \in 1 .. MaxInt
            /\ x.lit => x.ty = "number" /\ (x.c = 0 \/ Infinite(x.c))
       ELSE /\ x \in [ty : {x.ty}, known : {FALSE}, rfn : Refinements]
            /\ x.rfn.null # "T" /\ (x.ty = "dynamic" => x.rfn.null = "U")
            /\ x.rfn.kind \in {"nullable", KindOf(RefinedAs(x.ty))}
            /\ Consistent(x.rfn) /\ ~Collapses(RefinedAs(x.ty), x.rfn)

(* The numbers in z are numbers of the universe.                           *)
InUniverse(z) ==
  IF z.known THEN z.ty = "number" => z.c \in Numbers \cup {Null}
             ELSE z.rfn.kind = "number" =>
                    {z.rfn.min, z.rfn.max} \subseteq Numbers \cup {NilVal}

----------------------------------------------------------------------------
(* What it is for a later value to agree with an earlier one.              *)

LowerWithin(r, s) ==
  s.min = NilVal \/ /\ r.min # NilVal
                    /\ r.min > s.min \/ (r.min = s.min /\ (s.minInc \/ ~r.minInc))

UpperWithin(r, s) ==
  s.max = NilVal \/ /\ r.max # NilVal
                    /\ r.max < s.max \/ (r.max = s.max /\ (s.maxInc \/ ~r.maxInc))

(* Every non-null value that refinement r allows, s allows too. *)
BoundsWithin(r, s) ==
  CASE s.kind = "nullable" -> TRUE
    [] s.kind = "number" ->
         IF r.kind = "number" THEN LowerWithin(r, s) /\ UpperWithin(r, s)
                              ELSE s.min = NilVal /\ s.max = NilVal
    [] s.kind = "collection" ->
         /\ LengthBounds(s)[1] <= LengthBounds(r)[1]
         /\ LengthBounds(r)[2] <= LengthBounds(s)[2]

RangeWithin(r, s) ==
  /\ s.null = "U" \/ r.null = s.null
  /\ r.null = "T" \/ BoundsWithin(r, s)

(* v, known or not, stands only for values that e also stands for.  A set  *)
(* with unknown elements may turn out shorter, but not empty.              *)
Within(v, e) ==
  IF e.known
    THEN /\ v.known /\ v.ty = e.ty
         /\ IF e.whole THEN v.whole /\ v.c = e.c
                       ELSE ~IsNull(v) /\ 1 <= v.c /\ v.c <= e.c
    ELSE /\ e.ty \in {"dynamic", v.ty}
         /\ RangeWithin(RangeOf(v), e.rfn)

(* An input known early is the same value late, down to its identity. *)
Agree(v, e) == Within(v, e) /\ (e.known => v.lit = e.lit)

ASSUME InputsAssumption ==
  /\ Inputs \in Nat /\ MaxOperands \in Nat /\ Inputs < MaxOperands
  /\ \A p \in InitialPairs \cup ChainPairs :
       IsValue(p[1]) /\ IsValue(p[2]) /\ Agree(p[2], p[1])

----------------------------------------------------------------------------

Init ==
  /\ \E p \in [1 .. Inputs -> InitialPairs] \cup [1 .. Inputs -> ChainPairs] :
       /\ early = [i \in 1 .. Inputs |-> p[i][1]]
       /\ late  = [i \in 1 .. Inputs |-> p[i][2]]
  /\ failed = {}

(* A program has one operation, or several if its inputs are for that.     *)
Bound ==
  IF \A i \in 1 .. Inputs : <<early[i], late[i]>> \in ChainPairs THEN MaxOperands
                                                                 ELSE Inputs + 1

(* One operation, with result e in the early evaluation and l in the late. *)
(* Numbers bounds the model: a program stops short of any other number.    *)
Result(e, l) ==
  /\ failed = {}
  /\ Len(early) < Bound
  /\ \A z \in {e, l} \ {Panicked} : InUniverse(z)
  /\ failed' = (IF e = Panicked THEN {"early"} ELSE {})
                 \cup (IF l = Panicked THEN {"late"} ELSE {})
  /\ IF failed' = {} THEN early' = Append(early, e) /\ late' = Append(late, l)
                     ELSE UNCHANGED <<early, late>>

Unary(op(_), i) == Result(op(early[i]), op(late[i]))
Binary(op(_, _), i, j) ==
  Result(op(early[i], early[j]), op(late[i], late[j]))

(* Division is exact: Numbers has integers only, and one zero where        *)
(* big.Float has two, so a zero divisor is left out.                       *)
Divides(x, y) ==
  (\A z \in {x, y} : z.ty = "number" /\ z.known /\ z.c # Null) =>
    /\ y.c # 0
    /\ Infinite(x.c) \/ Infinite(y.c) \/ y.c * Truncate(x.c, y.c) = x.c

(* Whether two collections are equal depends on their elements: only lists *)
(* are compared, each holding copies of one element.  A range denies an    *)
(* infinity that it does not exclude (Includes), so Equals is not asked of *)
(* infinities.                                                             *)
Finite(x) == (x.ty = "number" /\ x.known /\ x.c # Null) => ~Infinite(x.c)
Comparable(x) == x.ty # "set" /\ Finite(x)

AddStep(i, j) == Binary(Add, i, j)
SubtractStep(i, j) == Binary(Subtract, i, j)
MultiplyStep(i, j) == Binary(Multiply, i, j)
NegateStep(i) == Unary(Negate, i)
AbsoluteStep(i) == Unary(Absolute, i)
DivideStep(i, j) ==
  /\ Divides(early[i], early[j]) /\ Divides(late[i], late[j])
  /\ Binary(Divide, i, j)
ModuloStep(i, j) == Binary(Modulo, i, j)
LessThanStep(i, j) == Binary(LessThan, i, j)
GreaterThanStep(i, j) == Binary(GreaterThan, i, j)

Comparison(op(_, _), i, j) ==
  /\ \A k \in {i, j} : Comparable(early[k]) /\ Comparable(late[k])
  /\ Binary(op, i, j)

EqualsStep(i, j) == Comparison(Equals, i, j)
NotEqualStep(i, j) == Comparison(NotEqual, i, j)
LessThanOrEqualToStep(i, j) == Comparison(LessThanOrEqualTo, i, j)
GreaterThanOrEqualToStep(i, j) == Comparison(GreaterThanOrEqualTo, i, j)
NotStep(i) == Unary(Not, i)
AndStep(i, j) == Binary(And, i, j)
OrStep(i, j) == Binary(Or, i, j)
LengthStep(i) == Unary(Length, i)

Operation(i, j) ==
  \/ AddStep(i, j) \/ SubtractStep(i, j) \/ MultiplyStep(i, j)
  \/ NegateStep(i) \/ AbsoluteStep(i)
  \/ DivideStep(i, j) \/ ModuloStep(i, j)
  \/ LessThanStep(i, j) \/ GreaterThanStep(i, j)
  \/ EqualsStep(i, j) \/ NotEqualStep(i, j)
  \/ LessThanOrEqualToStep(i, j) \/ GreaterThanOrEqualToStep(i, j)
  \/ NotStep(i) \/ AndStep(i, j) \/ OrStep(i, j) \/ LengthStep(i)

(* Each operation after the first uses the result of the one before it.    *)
Next ==
  \E i, j \in DOMAIN early :
    /\ Len(early) > Inputs => Len(early) \in {i, j}
    /\ Operation(i, j)

Spec == Init /\ [][Next]_vars

----------------------------------------------------------------------------
(* The operands are values of the five types; the bounds of an unknown do  *)
(* not cross (interval arithmetic would panic building them), and if they  *)
(* allow only one value it has become that value.  "No operation produces  *)
(* null" (Value.IsNull): each result is known and not null, or an unknown  *)
(* refined as not null.                                                    *)
TypeOK ==
  /\ Len(early) \in Inputs .. MaxOperands
  /\ Len(late) = Len(early)
  /\ \A i \in DOMAIN early : IsValue(early[i]) /\ IsValue(late[i])
  /\ failed \subseteq {"early", "late"}
  /\ \A i \in (Inputs + 1) .. Len(early) :
       DefinitelyNotNull(early[i]) /\ DefinitelyNotNull(late[i])

----------------------------------------------------------------------------
(* Properties.                                                             *)

(* Learning more about the inputs of a program never takes its results     *)
(* outside what was said of them before: a known result stays that value,  *)
(* and a refined unknown keeps every bound, through interval arithmetic    *)
(* (numericRangeArithmetic), comparison of bounds (LessThan, GreaterThan), *)
(* range membership (Equals) and the shortcuts of Multiply, And and Or.    *)
(* A null operand beside one still unknown is set aside: the operation is  *)
(* bound to panic, and until it can it says nothing of its result.  An     *)
(* operation that panics on placeholders panics on every value they may    *)
(* become: mustTypeCheck reports no error early that is not one later.     *)
NullPending ==
  \E i, j \in DOMAIN late : IsNull(late[i]) /\ ~late[j].known

LearningNeverWidens ==
  /\ ~NullPending => \A i \in DOMAIN early : Within(late[i], early[i])
  /\ "early" \in failed =>
       "late" \in failed \/ (NullPending /\ Len(early) > Inputs)

(* A hypothesis: no input of a longer program is cty.Zero itself.  Zero    *)
(* times an unknown is that same Zero, and times a number another zero,    *)
(* which the next Multiply does not recognise.                             *)
NoZeroItself == \A p \in ChainPairs : ~IsZeroItself(p[1])

(* The value v is in the range of x; a null of any type equals any other.  *)
InRange(v, x) ==
  IF IsNull(v) THEN RangeOf(x).null # "F"
               ELSE Within(v, Unknown(x.ty, RangeOf(x)))

(* Includes(v) on the range of x is False only if no value that v may      *)
(* become is in the range, and True only if all are.                       *)
Decides(x, i) ==
  LET answer == RangeIncludes(x, early[i]) IN
  /\ IsFalse(answer) => ~InRange(late[i], x)
  /\ IsTrue(answer) => InRange(late[i], x)

(* z is the infinity on a side where the range r has no bound.             *)
Unbounded(r, z) ==
  /\ r.kind = "number" /\ z.known /\ z.ty = "number"
  /\ (z.c = NegInf /\ r.min = NilVal) \/ (z.c = PosInf /\ r.max = NilVal)

(* ValueRange.Includes answers True or False only of what is definite,     *)
(* asked of the range of an unknown operand and a value that is known or   *)
(* at least known not to be null.  Equals asks for no more.  One question  *)
(* is not put: a range without a bound on one side denies the infinity on  *)
(* that side, comparing it with an absent bound as an exclusive one.       *)
IncludesDecidesNonNull ==
  \A i, j \in DOMAIN early :
    /\ ~early[i].known /\ Within(late[j], early[j])
    /\ ~Unbounded(early[i].rfn, early[j])
    /\ early[j].known \/ DefinitelyNotNull(early[j])
    => Decides(early[i], j)

(* The order in which operands are written never decides how much is known *)
(* of the result: the operations that commute give the same value, and     *)
(* LessThan mirrors GreaterThan, on refined unknowns as on known values.   *)
SameResult(a, b) ==
  \/ a = Panicked /\ b = Panicked
  \/ /\ a # Panicked /\ b # Panicked
     /\ Within(a, b) /\ Within(b, a)

OperandOrderIsIrrelevant ==
  \A i, j \in DOMAIN early :
    LET x == early[i] y == early[j] IN
    /\ SameResult(LessThan(x, y), GreaterThan(y, x))
    /\ i < j => /\ SameResult(Add(x, y), Add(y, x))
                /\ SameResult(Multiply(x, y), Multiply(y, x))
                /\ SameResult(And(x, y), And(y, x))
                /\ SameResult(Or(x, y), Or(y, x))
                /\ SameResult(Equals(x, y), Equals(y, x))
=============================================================================
