---------------------------- MODULE FunctionCall ----------------------------
(***************************************************************************)
(* Function.Call (cty/function/function.go): the checks of the arguments   *)
(* against the parameters, the callbacks Type, Impl and RefineResult that  *)
(* the author of a function supplies, and the two deferred functions that  *)
(* see every way out of the call.                                          *)
(*                                                                         *)
(* A program calls one function twice: early, when some arguments are      *)
(* unknown, perhaps through the wrapper Unpredictable, and late, when      *)
(* more is known of them.                                                  *)
(***************************************************************************)
EXTENDS Integers, Sequences

CONSTANTS
  Functions,   \* the specifications (Spec) to choose from
  Arguments,   \* the values a program passes
  Results,     \* the values an Impl may return
  MaxArgs,     \* bound: arguments of one call
  Marks,       \* the marks a value may carry
  NoParam,     \* no variadic parameter
  Pending      \* no outcome yet, no callback answer yet

VARIABLES
  fn,        \* the function
  call,      \* "early", "late" or "over"
  pc,        \* where the call is
  args,      \* its arguments
  given,     \* the arguments as a callback gets them
  answered,  \* what Type and Impl answered in the early call
  expected,  \* expectedType
  inexact,   \* dynTypeArgs: Type was not asked
  result,    \* val, once there is one
  outcome    \* how each call ended

vars == <<fn, call, pc, args, given, answered, expected, inexact, result, outcome>>

Types == {"number", "string", "dynamic"}
Kinds == {"known", "null", "unknown", "not null"}

(* A value: the call looks at its type, at whether it is null or unknown   *)
(* (here, whether refined as not null), and at its marks, nested ones      *)
(* included.  A value of the dynamic pseudo-type is unknown or null.       *)
Value ==
  {v \in [ty : Types, kind : Kinds, marks : SUBSET Marks] :
     v.ty = "dynamic" => v.kind \in {"null", "unknown"}}
Unknown(ty, m) == [ty |-> ty, kind |-> "unknown", marks |-> m]
IsKnown(v) == v.kind \in {"known", "null"}

Param ==
  [type : Types, allowNull : BOOLEAN, allowUnknown : BOOLEAN,
   allowDynamicType : BOOLEAN, allowMarked : BOOLEAN]

IsFunction(f) ==
  /\ f.params \in Seq(Param) /\ f.var \in Param \cup {NoParam}
  /\ f.refined \in BOOLEAN /\ f.unpredictable \in BOOLEAN

(* How a call can end: an error may be about one of the arguments. *)
Outcomes(arguments) ==
  [how : {"value"}, value : Value] \cup [how : {"panic"}]
    \cup [how : {"error"}, kind : {"count", "type function", "impl function", "panic"}]
    \cup [how : {"error"}, kind : {"argument"}, index : arguments]

ASSUME CallAssumption ==
  /\ \A f \in Functions : IsFunction(f)
  /\ Arguments \subseteq Value /\ Results \subseteq Value
  /\ MaxArgs \in Nat /\ NoParam \notin Param
  /\ Pending \notin Value \cup Types \cup Outcomes(1 .. MaxArgs)

(* Type ty conforms to type want (TestConformance). *)
Conforms(ty, want) == want \in {ty, "dynamic"}

(* What is known of v agrees with what e said before. *)
Within(v, e) ==
  /\ e.ty \in {v.ty, "dynamic"} /\ e.marks \subseteq v.marks
  /\ e.kind = "unknown" \/ v.kind = e.kind \/ (e.kind = "not null" /\ v.kind = "known")

Calls == UNION {[1 .. n -> Arguments] : n \in 0 .. MaxArgs}

NothingAnswered == [type |-> Pending, impl |-> Pending]

Init ==
  /\ fn \in Functions /\ args \in Calls
  /\ call = "early" /\ pc = "check"
  /\ given = << >> /\ answered = NothingAnswered
  /\ expected = "dynamic" /\ inexact = FALSE /\ result = Pending
  /\ outcome = [c \in {"early", "late"} |-> Pending]

----------------------------------------------------------------------------

(* The way out of a call: a value, an error or, past both deferred         *)
(* functions, a panic.                                                     *)
Leave(how) ==
  /\ outcome' = [outcome EXCEPT ![call] = how]
  /\ pc' = "done"

Returned(v) == [how |-> "value", value |-> v]
Error(kind) == [how |-> "error", kind |-> kind]
ArgError(i) == [how |-> "error", kind |-> "argument", index |-> i]
Panicked == [how |-> "panic"]

(* A panic below the deferred recover becomes an error.  The first         *)
(* definition is a faulty variant that has no recover.                     *)
NotRecovered(why) == Panicked
Recovered(why) == Error(why)

(* The parameter of argument i. *)
ParamOf(i) == IF i <= Len(fn.params) THEN fn.params[i] ELSE fn.var

WrongCount ==
  IF fn.var = NoParam THEN Len(args) # Len(fn.params)
                      ELSE Len(args) < Len(fn.params)

(* How argument v stands to parameter p in returnTypeForValues.  The first *)
(* definition is a faulty variant that compares types first.               *)
StrictVerdict(v, p) ==
  CASE ~Conforms(v.ty, p.type)               -> "type"
    [] v.kind = "null" /\ ~p.allowNull       -> "null"
    [] OTHER                                 -> "fits"

Verdict(v, p) ==
  CASE v.kind = "null" /\ ~p.allowNull       -> "null"
    [] v.kind # "null" \/ p.allowNull        ->
         IF v.ty = "dynamic" THEN IF p.allowDynamicType THEN "fits" ELSE "dynamic"
         ELSE IF Conforms(v.ty, p.type) THEN "fits" ELSE "type"

Fits(i) == Verdict(args[i], ParamOf(i)) = "fits"

(* The first argument that does not simply fit, for this reason. *)
FirstMisfit(i, why) ==
  /\ i \in DOMAIN args
  /\ Verdict(args[i], ParamOf(i)) = why
  /\ \A j \in 1 .. i - 1 : Fits(j)

(* The index in the error; a type error counts variadic arguments alone.   *)
ReportedIndex(i, why) ==
  IF why = "type" /\ i > Len(fn.params) THEN i - Len(fn.params) ELSE i

(* The arguments without the marks that their parameters do not allow.     *)
(* The first definition is a faulty variant that unmarks the variadic      *)
(* argument at the wrong place.                                            *)
UnmarkedAt(i) == [args[i] EXCEPT !.marks = IF ParamOf(i).allowMarked THEN @ ELSE {}]
UnmarkedShifted ==
  [i \in DOMAIN args |-> IF i + Len(fn.params) \in DOMAIN args THEN UnmarkedAt(i)
                                                               ELSE args[i]]
Unmarked == [i \in DOMAIN args |-> UnmarkedAt(i)]

(* What they carried.  The first definition is a faulty variant that       *)
(* stops at the first argument that makes the result unknown.              *)
Forces(i) == ~IsKnown(args[i]) /\ ~ParamOf(i).allowUnknown
MarksUntilUnknown ==
  UNION {args[i].marks : i \in {j \in DOMAIN args :
           ~ParamOf(j).allowMarked /\ \A k \in 1 .. j - 1 : ~Forces(k)}}
ResultMarks ==
  UNION {args[i].marks : i \in {j \in DOMAIN args : ~ParamOf(j).allowMarked}}

----------------------------------------------------------------------------
(* One call.                                                               *)

CheckArguments ==
  /\ pc = "check"
  /\ \/ /\ WrongCount
        /\ Leave(Error("count")) /\ UNCHANGED <<given, expected, inexact>>
     \/ /\ ~WrongCount
        /\ \E i \in DOMAIN args, why \in {"null", "type"} :
             FirstMisfit(i, why) /\ Leave(ArgError(ReportedIndex(i, why)))
        /\ UNCHANGED <<given, expected, inexact>>
     \/ /\ ~WrongCount
        /\ \E i \in DOMAIN args : FirstMisfit(i, "dynamic")
        /\ expected' = "dynamic" /\ inexact' = TRUE
        /\ pc' = "collect"
        /\ UNCHANGED <<given, outcome>>
     \/ /\ ~WrongCount /\ \A i \in DOMAIN args : Fits(i)
        /\ given' = Unmarked
        /\ pc' = "type"
        /\ UNCHANGED <<expected, inexact, outcome>>
  /\ UNCHANGED <<fn, call, args, answered, result>>

(* Type answers as it did before, unless that was the dynamic              *)
(* pseudo-type; it may also refuse arguments that it now knows.            *)
CallType ==
  /\ pc = "type"
  /\ \/ \E why \in {"type function", "panic"} :
          /\ Leave(IF why = "panic" THEN Recovered(why) ELSE Error(why))
          /\ UNCHANGED <<expected, answered>>
     \/ \E ty \in Types :
          /\ answered.type \in {Pending, ty, "dynamic"}
          /\ expected' = ty
          /\ answered' = [answered EXCEPT !.type = ty]
          /\ pc' = "collect"
          /\ UNCHANGED outcome
  /\ UNCHANGED <<fn, call, args, given, inexact, result>>

CollectMarks ==
  /\ pc = "collect"
  /\ given' = Unmarked
  /\ IF inexact \/ \E i \in DOMAIN args : Forces(i)
       THEN result' = Unknown(expected, ResultMarks) /\ pc' = "refine"
       ELSE result' = Pending /\ pc' = "impl"
  /\ UNCHANGED <<fn, call, args, answered, expected, inexact, outcome>>

(* A value from Impl must conform to the type from Type.                   *)
GoodReturn(v) == Conforms(v.ty, expected)

ReturnValue(v) ==
  IF GoodReturn(v)
    THEN /\ result' = [v EXCEPT !.marks = @ \cup ResultMarks]
         /\ pc' = "refine" /\ UNCHANGED outcome
    ELSE Leave(Recovered("panic")) /\ UNCHANGED result

(* Impl answers within what it said before, or fails. *)
CallImpl ==
  /\ pc = "impl"
  /\ ~(fn.unpredictable /\ call = "early")
  /\ \/ \E why \in {"impl function", "panic"} :
          /\ Leave(IF why = "panic" THEN Recovered(why) ELSE Error(why))
          /\ UNCHANGED <<answered, result>>
     \/ \E v \in Results :
          /\ answered.impl # Pending => Within(v, answered.impl)
          /\ answered' = [answered EXCEPT !.impl = v]
          /\ ReturnValue(v)
  /\ UNCHANGED <<fn, call, args, given, expected, inexact>>

(* unpredictableImpl. *)
CallUnpredictable ==
  /\ pc = "impl"
  /\ fn.unpredictable /\ call = "early"
  /\ ReturnValue(Unknown(expected, {}))
  /\ UNCHANGED <<fn, call, args, given, answered, expected, inexact>>

(* The deferred RefineWith, with a RefineResult that says NotNull.         *)
RefineResult ==
  /\ pc = "refine"
  /\ IF ~fn.refined \/ inexact \/ (~IsKnown(result) /\ result.ty = "dynamic")
       THEN Leave(Returned(result))
     ELSE IF result.kind = "null" THEN Leave(Panicked)
     ELSE Leave(Returned([result EXCEPT
                  !.kind = IF @ = "unknown" THEN "not null" ELSE @]))
  /\ UNCHANGED <<fn, call, args, given, answered, expected, inexact, result>>

(* The program calls again, knowing more of the arguments.                 *)
CallAgain ==
  /\ pc = "done" /\ call = "early"
  /\ \E as \in [DOMAIN args -> Arguments] :
       /\ \A i \in DOMAIN args :
            Within(as[i], args[i]) /\ as[i].marks = args[i].marks
       /\ args' = as
  /\ call' = "late" /\ pc' = "check"
  /\ given' = << >> /\ expected' = "dynamic" /\ inexact' = FALSE
  /\ result' = Pending
  /\ UNCHANGED <<fn, answered, outcome>>

Next ==
  \/ CheckArguments \/ CallType \/ CollectMarks
  \/ CallImpl \/ CallUnpredictable \/ RefineResult \/ CallAgain

Spec == Init /\ [][Next]_vars

----------------------------------------------------------------------------
(* Properties.                                                             *)

(* The flags of a parameter "free the function implementer from dealing    *)
(* with" nulls, unknowns, values of no exact type, marks and wrong types:  *)
(* whatever the other arguments are and however many, Impl gets none that  *)
(* the parameter does not allow.                                           *)
ImplGetsWhatItAllows ==
  pc = "impl" =>
    /\ Len(given) = Len(args)
    /\ \A i \in DOMAIN given :
         LET v == given[i] p == ParamOf(i) IN
         /\ v.kind = "null" => p.allowNull
         /\ ~IsKnown(v) => p.allowUnknown
         /\ v.marks # {} => p.allowMarked
         /\ v.ty = "dynamic" => p.allowDynamicType
         /\ v.ty = "dynamic" \/ Conforms(v.ty, p.type)

(* "we first need to complete the iteration over all the args to ensure we *)
(* collect as many marks as possible": no way to return a value loses a    *)
(* mark from an argument whose parameter does not allow marks.             *)
MarksSurvive ==
  pc = "done" /\ outcome[call].how = "value" =>
    \A i \in DOMAIN args :
      ~ParamOf(i).allowMarked => args[i].marks \subseteq outcome[call].value.marks

(* Whatever was returned early, for unknown arguments or by Unpredictable, *)
(* stays true of the value returned late: its type, that it is not null,   *)
(* and its marks.  Arguments refused early are refused late: no check on   *)
(* an unknown argument rejects what it may become.                         *)
AgreesWithEarly ==
  pc = "done" /\ call = "late" =>
    LET before == outcome["early"] after == outcome["late"] IN
    /\ before.how = "value" /\ after.how = "value" => Within(after.value, before.value)
    /\ before.how = "error" /\ before.kind \in {"count", "argument"} => after.how = "error"

(* "a calling language runtime doesn't need to deal with panics": a call   *)
(* ends in a value or an error, which names an argument there is if it is  *)
(* about one, and the only panic that leaves it is that of a refinement    *)
(* that its own result contradicts.                                        *)
CallersAreAnswered ==
  \A c \in {"early", "late"} :
    /\ outcome[c] \in {Pending} \cup Outcomes(DOMAIN args)
    /\ outcome[c] = Panicked =>
         /\ fn.refined
         /\ c = call => result # Pending /\ result.kind = "null"
=============================================================================
