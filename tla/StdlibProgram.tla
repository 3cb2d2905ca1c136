--------------------------- MODULE StdlibProgram ---------------------------
(***************************************************************************)
(* A program calls a function of the standard library, or an operation on  *)
(* values with parts, and calls another one with its result.  At any time  *)
(* it may learn more of what was unknown in an argument, and calls again.  *)
(***************************************************************************)
EXTENDS StdlibCall

LOCAL SX == INSTANCE SequencesExt

CONSTANTS
  Calls,      \* the calls to begin with, each a function and its arguments
  Knowledge,  \* the values that something unknown may turn out to be
  Followups,  \* the functions called with a result, and their other arguments
  MaxFed      \* bound: calls with a result in a row

VARIABLES
  fn,      \* the function called
  args,    \* its arguments
  result,  \* what the call gave, a value or a failure
  fed      \* calls with a result so far

vars == <<fn, args, result, fed>>

(* The result of the first call, before it is made. *)
Pending == Failure("pending")

Init ==
  /\ \E c \in Calls : fn = c.fn /\ args = c.args
  /\ result = Pending /\ fed = 0

Start == result = Pending /\ UNCHANGED <<fn, args, fed>>

(* What is marked stays so when more is known of it.                       *)
Learn(i) ==
  /\ result # Pending /\ ~IsWhollyKnown(args[i])
  /\ \E v \in {v \in Knowledge : Within(v, Unmark(args[i]))} \ {Unmark(args[i])} :
       args' = [args EXCEPT ![i] = WithMarks(v, args[i].marks)]
  /\ UNCHANGED <<fn, fed>>

Feed(c) ==
  /\ fed < MaxFed /\ ~Failed(result)
  /\ fn' = c.fn /\ args' = <<result>> \o c.rest
  /\ fed' = fed + 1

Next ==
  /\ \/ Start
     \/ \E i \in DOMAIN args : Learn(i)
     \/ \E c \in Followups : Feed(c)
  /\ result' = Evaluate(fn', args')

Spec == Init /\ [][Next]_vars

----------------------------------------------------------------------------

Succeeded == ~Failed(result)
AllKnown == \A i \in DOMAIN args : IsWhollyKnown(args[i])
AllPlain == \A i \in DOMAIN args : DeepMarks(args[i]) = {}
Learnt == result # Pending /\ fn' = fn /\ fed' = fed

(* What a function says of a result when little is known of its arguments  *)
(* is never taken back when more is: type, nullness, length, elements and  *)
(* marks.  UnknownAsNull gives up what it does not know, by design.  A set *)
(* with unknown elements says less of itself than a placeholder for it may *)
(* (value_range.go:66), and a known value whose type is still open is told *)
(* from an unknown one too soon (value_ops.go:165).  A call that fails     *)
(* when little is known fails when more is: no Type or Impl callback takes *)
(* what is not known for what is wrong.                                    *)
Blurred(v) == Kind(v.ty) = "set" /\ IsKnown(v) /\ ~IsWhollyKnown(v)
HalfTyped(v) == IsKnown(v) /\ ~HasWhollyKnownType(v)
Comparing == fn \in {"equal", "notequal"}
Reliable ==
  /\ fn # "unknownasnull"
  /\ Comparing => ~\E i, j \in DOMAIN args : HalfTyped(args[i]) /\ IsUnknown(args[j])
Sharp == Comparing \/ fn = "setproduct" => ~\E i \in DOMAIN args : Blurred(args[i])
LearningNeverWidens ==
  [][Learnt =>
       IF Failed(result) THEN Failed(result')
       ELSE Reliable /\ Sharp' /\ ~Failed(result') => Within(result', result)]_vars

(* Impl gives a value of the type that Type promised for these arguments,  *)
(* whichever of them are null, empty or unknown (function.go, Call), and   *)
(* not null if the function refines it as such: that would panic out of    *)
(* Call, past its recover.  Operations that are no calls panic as they     *)
(* say, on null values.  The result is built as its type says and the      *)
(* bounds of an unknown one leave something between them.                  *)
TypeAndImplAgree ==
  /\ result # Failure("nonconforming")
  /\ fn \notin Methods => result # Panic
  /\ Succeeded => WellFormed(result)

(* A known result has the marks of the arguments it was made from: those   *)
(* of whole arguments always, those inside them unless the function makes  *)
(* a choice among the parts of its first argument (of zipmap: the second)  *)
(* or looks at its type only.  The default of lookup and the null          *)
(* arguments of merge do not matter.                                       *)
Chooses(i) ==
  \/ fn = "zipmap" /\ i = 2
  \/ fn \in {"element", "slice", "lookup", "keys", "length", "merge", "getattr",
            "setproduct"}
Ignored(i) == (fn = "lookup" /\ i = 3) \/ (fn = "merge" /\ IsNull(args[i]))
Relevant(i) ==
  IF Ignored(i) THEN {} ELSE IF Chooses(i) THEN args[i].marks ELSE DeepMarks(args[i])
MarksSurvive ==
  Succeeded /\ IsWhollyKnown(result) =>
    \A i \in DOMAIN args : Relevant(i) \subseteq DeepMarks(result)

(* Equality and the set operations that commute give the same whichever    *)
(* operand is on the left, known or not; and of values known in all parts, *)
(* Equals and RawEquals say the same, but for nulls, which are equal       *)
(* whatever their types.                                                   *)
OneType == \A i \in DOMAIN args : args[i].ty = args[1].ty
SameMembers(s, t) == SX!ToSet(s) = SX!ToSet(t)
OrderIsIrrelevant ==
  /\ fn = "equal" /\ Succeeded => Equals(Unmarked(args[2]), Unmarked(args[1])) = Unmark(result)
  /\ fn \in SetFunctions \ {"setsubtract"} /\ Succeeded /\ AllKnown /\ OneType =>
       SameMembers(Parts(result), Combined(fn, Parts(args[2]), Parts(args[1])))

EqualsIsRawEquals ==
  fn = "equal" /\ Succeeded /\ AllKnown /\ (\A i \in DOMAIN args : ~IsNull(args[i])) =>
    Unmark(result) = BoolVal(RawEquals(Unmarked(args[1]), Unmarked(args[2])))

(* How Go orders the attributes of objects or the elements of maps decides *)
(* nothing, whichever of them are unknown and whichever differ.            *)
VisitsInAnyOrder ==
  LET v == Unmarked(args[1]) w == Unmarked(args[2]) IN
  /\ fn = "equal" /\ Succeeded
  /\ v.ty = w.ty /\ Kind(v.ty) \in {"object", "map"}
  /\ \A x \in {v, w} : IsKnown(x) /\ HasWhollyKnownType(x)
  /\ DOMAIN Parts(v) = DOMAIN Parts(w)
  => \A order \in SX!SetToSeqs(DOMAIN Parts(v)) :
       Unmark(result) = Answer(Visited(CompareParts(v, w), order))

Lengths == [i \in DOMAIN args |-> Length(args[i])[1]]
ChunksJoinAgain ==
  fn = "chunklist" /\ Parts(args[2]) > 0 =>
    /\ SX!FlattenSeq([k \in DOMAIN Parts(result) |-> Parts(Parts(result)[k])]) = Parts(args[1])
    /\ \A k \in DOMAIN Parts(result) :
         Len(Parts(Parts(result)[k])) \in 1 .. Parts(args[2])
ProductOfLengths ==
  fn = "setproduct" =>
    LET n == SX!FoldLeft(LAMBDA x, y : x * y, 1, Lengths) IN
    IF Kind(result.ty) = "list" \/ n = 0 THEN Len(Parts(result)) = n
                                       ELSE Len(Parts(result)) \in 1 .. n
DifferencesOfTwo ==
  fn = "setsymmetricdifference" /\ Len(args) = 2 /\ OneType =>
    LET s == Parts(args[1]) t == Parts(args[2]) IN
    SX!ToSet(Parts(result)) = (SX!ToSet(s) \cup SX!ToSet(t)) \ (SX!ToSet(s) \cap SX!ToSet(t))
DistinctForGood ==
  fn = "distinct" =>
    /\ SameMembers(Parts(result), Parts(args[1]))
    /\ Len(Parts(result)) = Cardinality(SX!ToSet(Parts(result)))
KeysAreAllKeys ==
  fn = "zipmap" =>
    DOMAIN Parts(result) = {Parts(k) : k \in PartsOf(args[1])}
NothingLeftToFlatten ==
  fn = "flatten" => \A p \in PartsOf(result) : IsNull(p) \/ ~IsSequence(p.ty)
NoUnknownIsLeft ==
  fn = "unknownasnull" => IsWhollyKnown(result) /\ result.ty = args[1].ty

(* What the results of functions are to each other and to their arguments. *)
ResultsObeyLaws ==
  /\ OrderIsIrrelevant /\ EqualsIsRawEquals /\ VisitsInAnyOrder
  /\ Succeeded => NoUnknownIsLeft
  /\ Succeeded /\ AllKnown /\ AllPlain =>
       /\ ChunksJoinAgain /\ ProductOfLengths /\ DifferencesOfTwo
       /\ DistinctForGood /\ KeysAreAllKeys /\ NothingLeftToFlatten
=============================================================================
