-------------------------- MODULE FunctionCall_proofs --------------------------
(***************************************************************************)
(* Theorems about FunctionCall: for all functions, all arguments and all   *)
(* answers of the callbacks, what the implementer of a function and its    *)
(* caller may rely on.                                                     *)
(*                                                                         *)
(* The inductive invariant IInv says where the result of a call comes from *)
(* (ResultOK) and what a late call still has to honour of the early one    *)
(* (EarlyOK).                                                              *)
(***************************************************************************)
EXTENDS FunctionCall, TLAPS

Misfits(i) == Verdict(args[i], ParamOf(i)) \in {"null", "type"}
LacksType(i) == Verdict(args[i], ParamOf(i)) = "dynamic"

NothingLacksType == \A i \in DOMAIN args : ~LacksType(i)
NothingForces == \A i \in DOMAIN args : ~Forces(i)

(* The types of the variables; "given" has one while Impl runs. *)
StateOK ==
  /\ fn \in Functions /\ args \in Calls
  /\ call \in {"early", "late"}
  /\ pc \in {"check", "type", "collect", "impl", "refine", "done"}
  /\ expected \in Types /\ inexact \in BOOLEAN
  /\ answered \in [type : Types \cup {Pending}, impl : Value \cup {Pending}]
  /\ outcome \in [{"early", "late"} -> {Pending} \cup Outcomes(DOMAIN args)]

(* What the checks of the arguments established, stage by stage. *)
ChecksOK ==
  /\ pc \in {"type", "collect", "impl", "refine"} =>
       /\ ~WrongCount
       /\ IF inexact THEN \E i \in DOMAIN args : FirstMisfit(i, "dynamic")
                     ELSE \A i \in DOMAIN args : Fits(i)
  /\ pc \in {"check", "type"} => ~inexact
  /\ inexact => expected = "dynamic"
  /\ pc \in {"collect", "impl", "refine"} /\ ~inexact => expected = answered.type
  /\ pc = "impl" => ~inexact /\ NothingForces /\ given = Unmarked

(* Where a result comes from: nobody was asked, Impl was not asked, or     *)
(* Impl answered.                                                          *)
FromNobody == inexact /\ result = Unknown(expected, ResultMarks)
FromType ==
  /\ ~inexact /\ (~NothingForces \/ (fn.unpredictable /\ call = "early"))
  /\ result = Unknown(expected, ResultMarks)
FromImpl ==
  /\ ~inexact /\ NothingForces
  /\ answered.impl \in Value /\ Conforms(answered.impl.ty, expected)
  /\ result = [answered.impl EXCEPT !.marks = @ \cup ResultMarks]

ResultOK == pc = "refine" => FromNobody \/ FromType \/ FromImpl

(* A value returned early, as the arguments and the callbacks still have   *)
(* to bear it out: of no type, of the type that Type answered, or what     *)
(* Impl answered.                                                          *)
Typeless(v) == v.ty = "dynamic" /\ v.kind = "unknown" /\ v.marks = ResultMarks
OfTheType(v) ==
  /\ NothingLacksType /\ v.marks = ResultMarks
  /\ v.ty # "dynamic" /\ v.ty = answered.type
  /\ v.kind = "unknown" \/ (v.kind = "not null" /\ fn.refined)
OfTheImpl(v) ==
  /\ NothingLacksType /\ NothingForces /\ answered.impl \in Value
  /\ v.ty \in {answered.impl.ty, "dynamic"}
  /\ v.marks \subseteq answered.impl.marks \cup ResultMarks
  /\ \/ v.kind \in {"unknown", answered.impl.kind}
     \/ v.kind = "not null" /\ answered.impl.kind = "known"
     \/ v.kind = "not null" /\ fn.refined /\ v.ty # "dynamic"
Kept(v) == Typeless(v) \/ OfTheType(v) \/ OfTheImpl(v)

(* Arguments that were refused, for reasons that knowing more cannot mend. *)
Refused ==
  \/ WrongCount
  \/ /\ ~WrongCount
     /\ \E i \in DOMAIN args : Misfits(i) /\ \A j \in 1 .. i - 1 : ~LacksType(j)

EarlyOver == call = "late" \/ pc = "done"
EarlyOK ==
  LET early == outcome["early"] IN
  IF ~EarlyOver THEN early = Pending
  ELSE /\ early # Pending
       /\ early.how = "value" => ~WrongCount /\ Kept(early.value)
       /\ early.how = "error" /\ early.kind \in {"count", "argument"} => Refused

LateOK == call = "early" \/ pc # "done" => outcome["late"] = Pending

(* How a call ended: with no mark lost, in a panic only when refined. *)
EndOK ==
  pc = "done" =>
    /\ outcome[call] # Pending
    /\ outcome[call].how = "value" => ResultMarks \subseteq outcome[call].value.marks
    /\ outcome[call] = Panicked => result # Pending /\ result.kind = "null"
PanicOK == \A c \in {"early", "late"} : outcome[c] = Panicked => fn.refined

IInv ==
  /\ StateOK /\ ChecksOK /\ ResultOK
  /\ EarlyOK /\ LateOK /\ EndOK /\ PanicOK /\ AgreesWithEarly

----------------------------------------------------------------------------
(* The arguments and their parameters.                                     *)

LEMMA ArgumentsAreValues ==
  ASSUME StateOK
  PROVE  /\ IsFunction(fn) /\ args \in Seq(Arguments)
         /\ Len(args) \in Nat /\ DOMAIN args = 1 .. Len(args)
         /\ \A i \in DOMAIN args : args[i] \in Value
<1>1. PICK n \in 0 .. MaxArgs : args \in [1 .. n -> Arguments]
  BY DEF StateOK, Calls
<1>2. n \in Nat
  BY CallAssumption DEF CallAssumption
<1>3. args \in Seq(Arguments)
  BY <1>1, <1>2
<1> QED BY <1>1, <1>2, <1>3, CallAssumption DEF CallAssumption, StateOK

(* Once they were counted, every argument has a parameter. *)
LEMMA ArgumentsHaveParameters ==
  ASSUME StateOK, ~WrongCount, NEW i \in DOMAIN args
  PROVE  ParamOf(i) \in Param
<1>1. fn.params \in Seq(Param) /\ fn.var \in Param \cup {NoParam}
  BY ArgumentsAreValues DEF IsFunction
<1>2. i \in 1 .. Len(args)
  BY ArgumentsAreValues
<1>3. CASE i <= Len(fn.params)
  BY <1>1, <1>2, <1>3 DEF ParamOf
<1>4. CASE ~(i <= Len(fn.params))
  <2>1. fn.var # NoParam
    BY <1>1, <1>2, <1>4, ArgumentsAreValues DEF WrongCount
  <2> QED BY <1>1, <1>4, <2>1 DEF ParamOf
<1> QED BY <1>3, <1>4

LEMMA UnmarkedArguments ==
  ASSUME StateOK
  PROVE  /\ DOMAIN Unmarked = DOMAIN args /\ Len(Unmarked) = Len(args)
         /\ \A i \in DOMAIN args :
              /\ Unmarked[i].ty = args[i].ty /\ Unmarked[i].kind = args[i].kind
              /\ ~ParamOf(i).allowMarked => Unmarked[i].marks = {}
<1>1. DOMAIN Unmarked = DOMAIN args
  BY DEF Unmarked
<1>2. Len(Unmarked) = Len(args)
  BY <1>1, ArgumentsAreValues
<1>3. ASSUME NEW i \in DOMAIN args
      PROVE  /\ Unmarked[i].ty = args[i].ty /\ Unmarked[i].kind = args[i].kind
             /\ ~ParamOf(i).allowMarked => Unmarked[i].marks = {}
  <2>1. args[i] \in Value
    BY ArgumentsAreValues
  <2>2. Unmarked[i] = UnmarkedAt(i)
    BY DEF Unmarked
  <2> QED BY <2>1, <2>2 DEF UnmarkedAt, Value
<1> QED BY <1>1, <1>2, <1>3

LEMMA ResultMarksAreMarks ==
  ASSUME StateOK
  PROVE  /\ ResultMarks \subseteq Marks
         /\ \A i \in DOMAIN args :
              ~ParamOf(i).allowMarked => args[i].marks \subseteq ResultMarks
<1>1. \A i \in DOMAIN args : args[i].marks \subseteq Marks
  BY ArgumentsAreValues DEF Value
<1> QED BY <1>1 DEF ResultMarks

(* A step that changes neither the function nor the arguments changes      *)
(* nothing that is computed from them.                                     *)
LEMMA SameArguments ==
  ASSUME UNCHANGED <<fn, args>>
  PROVE  /\ WrongCount' = WrongCount /\ Unmarked' = Unmarked
         /\ ResultMarks' = ResultMarks
         /\ NothingLacksType' = NothingLacksType
         /\ NothingForces' = NothingForces
         /\ Refused' = Refused
         /\ (\E i \in DOMAIN args : FirstMisfit(i, "dynamic"))'
              = (\E i \in DOMAIN args : FirstMisfit(i, "dynamic"))
         /\ (\A i \in DOMAIN args : Fits(i))' = (\A i \in DOMAIN args : Fits(i))
BY DEF WrongCount, Unmarked, UnmarkedAt, ParamOf, ResultMarks, NothingLacksType, LacksType,
   NothingForces, Forces, Refused, Misfits, FirstMisfit, Fits

(* The result is a value of the type expected, with every mark it owes.    *)
LEMMA ResultIsValue ==
  ASSUME StateOK, FromNobody \/ FromType \/ FromImpl
  PROVE  /\ result \in Value /\ Conforms(result.ty, expected)
         /\ ResultMarks \subseteq result.marks
<1>1. ResultMarks \subseteq Marks
  BY ResultMarksAreMarks
<1>2. CASE result = Unknown(expected, ResultMarks)
  BY <1>1, <1>2 DEF StateOK, Unknown, Value, Kinds, Conforms
<1>3. CASE FromImpl
  BY <1>1, <1>3 DEF FromImpl, Value
<1> QED BY <1>2, <1>3 DEF FromNobody, FromType

(* Knowing more of an argument neither makes its type unknown nor mends    *)
(* what was wrong with it, nor makes it unknown again.                     *)
LEMMA LearningKeepsVerdict ==
  ASSUME NEW p \in Param, NEW e \in Value, NEW v \in Value, Within(v, e)
  PROVE  /\ Verdict(v, p) = "dynamic" => Verdict(e, p) = "dynamic"
         /\ Verdict(e, p) \in {"null", "type"} => Verdict(v, p) \in {"null", "type"}
         /\ IsKnown(e) => IsKnown(v)
BY DEF Param, Value, Within, Verdict, Conforms, IsKnown, Types, Kinds

----------------------------------------------------------------------------
(* What every step within a call has in common.                            *)

(* The callbacks answer within what they answered before. *)
Learns ==
  /\ answered' \in [type : Types \cup {Pending}, impl : Value \cup {Pending}]
  /\ answered.type \in {Pending, "dynamic", answered'.type}
  /\ answered.impl # Pending =>
       answered'.impl \in Value /\ Within(answered'.impl, answered.impl)

(* What an early call returned stands while a late one asks the callbacks. *)
LEMMA KeptStands ==
  ASSUME StateOK, Learns, UNCHANGED <<fn, args>>, NEW v \in Value, Kept(v)
  PROVE  Kept(v)'
<1>1. /\ NothingLacksType' = NothingLacksType /\ NothingForces' = NothingForces
      /\ ResultMarks' = ResultMarks
  BY SameArguments
<1>2. Typeless(v) => Typeless(v)'
  BY <1>1 DEF Typeless
<1>3. OfTheType(v) => OfTheType(v)'
  BY <1>1, CallAssumption DEF OfTheType, Learns, CallAssumption, Value
<1>4. OfTheImpl(v) => OfTheImpl(v)'
  <2>1. SUFFICES ASSUME OfTheImpl(v) PROVE OfTheImpl(v)'
    OBVIOUS
  <2>2. answered.impl \in Value /\ answered'.impl \in Value
        /\ Within(answered'.impl, answered.impl)
    BY <2>1, CallAssumption DEF OfTheImpl, Learns, CallAssumption
  <2> QED BY <1>1, <2>1, <2>2 DEF OfTheImpl, Within, Value, Kinds
<1> QED BY <1>2, <1>3, <1>4 DEF Kept

(* The outcomes that are values, or that are none yet. *)
LEMMA OutcomeHasValue ==
  ASSUME NEW domain, NEW o \in Outcomes(domain), o.how = "value"
  PROVE  o.value \in Value
<1>1. ~(o \in [how : {"error"}, kind : {"argument"}, index : domain])
  OBVIOUS
<1>2. ~(o \in [how : {"error"}, kind : {"count", "type function", "impl function", "panic"}])
  OBVIOUS
<1>3. o \notin [how : {"panic"}]
  OBVIOUS
<1>4. o \in [how : {"value"}, value : Value]
  BY <1>1, <1>2, <1>3 DEF Outcomes
<1> QED BY <1>4

LEMMA PendingIsNoOutcome ==
  ASSUME StateOK
  PROVE  Pending \notin Outcomes(DOMAIN args)
<1>1. DOMAIN args \subseteq 1 .. MaxArgs
  BY CallAssumption DEF CallAssumption, StateOK, Calls
<1>2. Pending \notin [how : {"error"}, kind : {"argument"}, index : DOMAIN args]
  <2>1. [how : {"error"}, kind : {"argument"}, index : DOMAIN args]
          \subseteq [how : {"error"}, kind : {"argument"}, index : 1 .. MaxArgs]
    BY <1>1
  <2> QED BY <2>1, CallAssumption DEF CallAssumption, Outcomes
<1> QED BY <1>2, CallAssumption DEF CallAssumption, Outcomes

LEMMA EarlyHasValue ==
  ASSUME StateOK, EarlyOK, EarlyOver, outcome["early"].how = "value"
  PROVE  outcome["early"].value \in Value
BY OutcomeHasValue DEF StateOK, EarlyOK

LEMMA AnsweredIsLearned ==
  ASSUME StateOK, UNCHANGED answered
  PROVE  Learns
BY CallAssumption DEF StateOK, Learns, Within, CallAssumption

(* A step that goes on to another stage of the call. *)
LEMMA GoingOnKeepsOutcomes ==
  ASSUME IInv, Learns, UNCHANGED <<fn, args, call, outcome>>, pc # "done", pc' # "done"
  PROVE  EarlyOK' /\ LateOK' /\ EndOK' /\ PanicOK' /\ AgreesWithEarly'
<1>1. EarlyOK'
  <2>1. EarlyOver' = EarlyOver /\ (EarlyOver => call = "late")
    BY DEF EarlyOver
  <2>2. Refused' = Refused /\ WrongCount' = WrongCount
    BY SameArguments
  <2>3. EarlyOver /\ outcome["early"].how = "value" => outcome["early"].value \in Value
    BY EarlyHasValue DEF IInv
  <2> QED BY <2>1, <2>2, <2>3, KeptStands DEF IInv, EarlyOK
<1> QED BY <1>1 DEF IInv, LateOK, EndOK, PanicOK, AgreesWithEarly

(* A step that ends the call with outcome o. *)
LEMMA LeavingKeepsIInv ==
  ASSUME IInv, Learns, UNCHANGED <<fn, args, call, expected, inexact>>, pc # "done",
         NEW o \in Outcomes(DOMAIN args), Leave(o),
         o.how = "value" =>
           ~WrongCount /\ ResultMarks \subseteq o.value.marks /\ Kept(o.value)',
         o.how = "error" /\ o.kind \in {"count", "argument"} => Refused,
         o = Panicked => fn.refined /\ result' # Pending /\ result'.kind = "null",
         LET early == outcome["early"] IN
         call = "late" =>
           /\ early.how = "value" /\ o.how = "value" => Within(o.value, early.value)
           /\ early.how = "error" /\ early.kind \in {"count", "argument"} => o.how = "error"
  PROVE  IInv'
<1>1. /\ Refused' = Refused /\ WrongCount' = WrongCount /\ ResultMarks' = ResultMarks
  BY SameArguments
<1>2. /\ outcome' = [outcome EXCEPT ![call] = o] /\ pc' = "done"
      /\ call \in {"early", "late"} /\ outcome'[call] = o /\ o # Pending
      /\ \A c \in {"early", "late"} \ {call} : outcome'[c] = outcome[c]
      /\ outcome' \in [{"early", "late"} -> {Pending} \cup Outcomes(DOMAIN args)]
  BY PendingIsNoOutcome DEF Leave, IInv, StateOK
<1>3. StateOK'
  <2>1. DOMAIN args' = DOMAIN args
    OBVIOUS
  <2>2. outcome' \in [{"early", "late"} -> {Pending} \cup Outcomes(DOMAIN args')]
    BY <1>2, <2>1
  <2> QED BY <1>2, <2>2 DEF IInv, StateOK, Learns
<1>4. ChecksOK' /\ ResultOK'
  BY <1>2 DEF IInv, ChecksOK, ResultOK
<1>5. EarlyOK'
  <2>1. CASE call = "early"
    BY <1>1, <1>2, <2>1 DEF EarlyOK, EarlyOver
  <2>2. CASE call = "late"
    <3>1. outcome'["early"] = outcome["early"] /\ EarlyOver /\ EarlyOver'
      BY <1>2, <2>2 DEF EarlyOver
    <3>2. outcome["early"].how = "value" => outcome["early"].value \in Value
      BY <3>1, EarlyHasValue DEF IInv
    <3> QED BY <1>1, <3>1, <3>2, KeptStands DEF IInv, EarlyOK
  <2> QED BY <1>2, <2>1, <2>2
<1>6. LateOK'
  BY <1>2 DEF IInv, LateOK
<1>7. EndOK' /\ PanicOK'
  BY <1>1, <1>2 DEF IInv, EndOK, PanicOK
<1>8. AgreesWithEarly'
  BY <1>2 DEF AgreesWithEarly
<1> QED BY <1>3, <1>4, <1>5, <1>6, <1>7, <1>8 DEF IInv

(* An error of a callback, or of the checks when they refuse. *)
LEMMA FailingKeepsIInv ==
  ASSUME IInv, Learns, UNCHANGED <<fn, args, call, expected, inexact>>, pc # "done",
         NEW o \in Outcomes(DOMAIN args), o.how = "error", Leave(o),
         o.kind \in {"count", "argument"} => Refused
  PROVE  IInv'
<1>1. o # Panicked /\ o.how # "value"
  BY DEF Panicked
<1> QED BY <1>1, LeavingKeepsIInv

----------------------------------------------------------------------------
(* One call, step by step.                                                 *)

LEMMA CheckArgumentsKeepsIInv ==
  ASSUME IInv, CheckArguments
  PROVE  IInv'
<1>1. UNCHANGED <<fn, call, args, answered, result>> /\ pc = "check" /\ Learns
      /\ inexact = FALSE
  BY AnsweredIsLearned DEF CheckArguments, IInv, ChecksOK, StateOK
<1>2. CASE WrongCount /\ Leave(Error("count")) /\ UNCHANGED <<given, expected, inexact>>
  <2>1. Error("count") \in Outcomes(DOMAIN args) /\ Refused
    BY <1>2 DEF Error, Outcomes, Refused
  <2>2. Error("count").how = "error"
    BY DEF Error
  <2> QED BY <1>1, <1>2, <2>1, <2>2, FailingKeepsIInv
<1>3. ASSUME ~WrongCount, UNCHANGED <<given, expected, inexact>>,
             NEW i \in DOMAIN args, NEW why \in {"null", "type"},
             FirstMisfit(i, why), Leave(ArgError(ReportedIndex(i, why)))
      PROVE  IInv'
  <2> DEFINE o == ArgError(ReportedIndex(i, why))
  <2>1. i \in 1 .. Len(args) /\ Len(fn.params) \in Nat /\ DOMAIN args = 1 .. Len(args)
    BY ArgumentsAreValues DEF IsFunction, IInv
  <2>2. ReportedIndex(i, why) \in DOMAIN args
    BY <2>1 DEF ReportedIndex
  <2>3. o \in Outcomes(DOMAIN args) /\ o.how = "error"
    BY <2>2 DEF ArgError, Outcomes
  <2>4. Refused
    <3>1. Misfits(i)
      BY <1>3 DEF FirstMisfit, Misfits
    <3>2. \A j \in 1 .. i - 1 : ~LacksType(j)
      BY <1>3 DEF FirstMisfit, LacksType, Fits
    <3> QED BY <1>3, <3>1, <3>2 DEF Refused
  <2> QED BY <1>1, <1>3, <2>3, <2>4, FailingKeepsIInv
<1>4. ASSUME ~WrongCount, \E i \in DOMAIN args : FirstMisfit(i, "dynamic"),
             expected' = "dynamic", inexact' = TRUE, pc' = "collect",
             UNCHANGED <<given, outcome>>
      PROVE  IInv'
  <2>1. StateOK'
    BY <1>1, <1>4 DEF IInv, StateOK, Types
  <2>2. ChecksOK' /\ ResultOK'
    BY <1>1, <1>4, SameArguments DEF ChecksOK, ResultOK
  <2> QED BY <1>1, <1>4, <2>1, <2>2, GoingOnKeepsOutcomes DEF IInv
<1>5. ASSUME ~WrongCount, \A i \in DOMAIN args : Fits(i),
             given' = Unmarked, pc' = "type", UNCHANGED <<expected, inexact, outcome>>
      PROVE  IInv'
  <2>1. StateOK'
    BY <1>1, <1>5 DEF IInv, StateOK
  <2>2. ChecksOK' /\ ResultOK'
    BY <1>1, <1>5, SameArguments DEF ChecksOK, ResultOK
  <2> QED BY <1>1, <1>5, <2>1, <2>2, GoingOnKeepsOutcomes DEF IInv
<1> QED BY <1>2, <1>3, <1>4, <1>5 DEF CheckArguments

LEMMA CallTypeKeepsIInv ==
  ASSUME IInv, CallType
  PROVE  IInv'
<1>1. UNCHANGED <<fn, call, args, given, inexact, result>> /\ pc = "type" /\ inexact = FALSE
  BY DEF CallType, IInv, ChecksOK, StateOK
<1>2. ASSUME NEW why \in {"type function", "panic"},
             Leave(IF why = "panic" THEN Recovered(why) ELSE Error(why)),
             UNCHANGED <<expected, answered>>
      PROVE  IInv'
  <2>1. Leave(Error(why)) /\ Error(why) \in Outcomes(DOMAIN args)
    BY <1>2 DEF Recovered, Error, Outcomes
  <2>2. Error(why).how = "error" /\ Error(why).kind = why /\ Learns
    BY <1>2, AnsweredIsLearned DEF Error, IInv
  <2> QED BY <1>1, <1>2, <2>1, <2>2, FailingKeepsIInv
<1>3. ASSUME NEW ty \in Types, answered.type \in {Pending, ty, "dynamic"},
             expected' = ty, answered' = [answered EXCEPT !.type = ty],
             pc' = "collect", UNCHANGED outcome
      PROVE  IInv'
  <2>1. /\ answered'.type = ty /\ answered'.impl = answered.impl
        /\ answered' \in [type : Types \cup {Pending}, impl : Value \cup {Pending}]
    BY <1>3 DEF IInv, StateOK
  <2>2. Learns
    BY <1>3, <2>1 DEF Learns, IInv, StateOK, Within
  <2>3. StateOK'
    BY <1>1, <1>3, <2>1 DEF IInv, StateOK
  <2>4. ChecksOK' /\ ResultOK'
    BY <1>1, <1>3, <2>1, SameArguments DEF IInv, ChecksOK, ResultOK
  <2> QED BY <1>1, <1>3, <2>2, <2>3, <2>4, GoingOnKeepsOutcomes DEF IInv
<1> QED BY <1>2, <1>3 DEF CallType

LEMMA CollectMarksKeepsIInv ==
  ASSUME IInv, CollectMarks
  PROVE  IInv'
<1>1. /\ UNCHANGED <<fn, call, args, answered, expected, inexact, outcome>>
      /\ pc = "collect" /\ pc' \in {"refine", "impl"} /\ given' = Unmarked /\ Learns
  BY AnsweredIsLearned DEF CollectMarks, IInv
<1>2. StateOK'
  BY <1>1 DEF IInv, StateOK
<1>3. CASE inexact \/ \E i \in DOMAIN args : Forces(i)
  <2>1. result' = Unknown(expected, ResultMarks) /\ pc' = "refine"
    BY <1>3 DEF CollectMarks
  <2>2. ChecksOK'
    BY <1>1, <2>1, SameArguments DEF IInv, ChecksOK
  <2>3. (FromNobody \/ FromType)'
    BY <1>1, <1>3, <2>1, SameArguments DEF FromNobody, FromType, NothingForces, Unknown
  <2> QED BY <1>1, <1>2, <2>1, <2>2, <2>3, GoingOnKeepsOutcomes DEF IInv, ResultOK
<1>4. CASE ~(inexact \/ \E i \in DOMAIN args : Forces(i))
  <2>1. pc' = "impl"
    BY <1>4 DEF CollectMarks
  <2>2. ChecksOK' /\ ResultOK'
    BY <1>1, <1>4, <2>1, SameArguments DEF IInv, ChecksOK, ResultOK, NothingForces
  <2> QED BY <1>1, <1>2, <2>1, <2>2, GoingOnKeepsOutcomes DEF IInv
<1> QED BY <1>3, <1>4

(* An answer of Impl, or of unpredictableImpl in its place, that conforms. *)
LEMMA GoodReturnKeepsIInv ==
  ASSUME IInv, Learns, pc = "impl", pc' = "refine",
         UNCHANGED <<fn, call, args, given, expected, inexact, outcome>>,
         answered'.type = answered.type, (FromType \/ FromImpl)'
  PROVE  IInv'
<1>1. StateOK'
  BY DEF IInv, StateOK, Learns
<1>2. ChecksOK' /\ ResultOK'
  BY SameArguments DEF IInv, ChecksOK, ResultOK
<1> QED BY <1>1, <1>2, GoingOnKeepsOutcomes DEF IInv

LEMMA CallImplKeepsIInv ==
  ASSUME IInv, CallImpl
  PROVE  IInv'
<1>1. /\ UNCHANGED <<fn, call, args, given, expected, inexact>>
      /\ pc = "impl" /\ inexact = FALSE /\ NothingForces
  BY DEF CallImpl, IInv, ChecksOK, StateOK
<1>2. ASSUME NEW why \in {"impl function", "panic"},
             Leave(IF why = "panic" THEN Recovered(why) ELSE Error(why)),
             UNCHANGED <<answered, result>>
      PROVE  IInv'
  <2>1. Leave(Error(why)) /\ Error(why) \in Outcomes(DOMAIN args)
    BY <1>2 DEF Recovered, Error, Outcomes
  <2>2. Error(why).how = "error" /\ Error(why).kind = why /\ Learns
    BY <1>2, AnsweredIsLearned DEF Error, IInv
  <2> QED BY <1>1, <1>2, <2>1, <2>2, FailingKeepsIInv
<1>3. ASSUME NEW v \in Results, answered.impl # Pending => Within(v, answered.impl),
             answered' = [answered EXCEPT !.impl = v], ReturnValue(v)
      PROVE  IInv'
  <2>1. /\ answered'.type = answered.type /\ answered'.impl = v /\ v \in Value
        /\ answered' \in [type : Types \cup {Pending}, impl : Value \cup {Pending}]
    BY <1>3, CallAssumption DEF IInv, StateOK, CallAssumption
  <2>2. Learns
    BY <1>3, <2>1 DEF Learns
  <2>3. CASE GoodReturn(v)
    <3>1. /\ result' = [v EXCEPT !.marks = @ \cup ResultMarks]
          /\ pc' = "refine" /\ UNCHANGED outcome
      BY <1>3, <2>3 DEF ReturnValue
    <3>2. FromImpl'
      BY <1>1, <2>1, <2>3, <3>1, SameArguments DEF FromImpl, GoodReturn, Conforms
    <3> QED BY <1>1, <2>1, <2>2, <3>1, <3>2, GoodReturnKeepsIInv
  <2>4. CASE ~GoodReturn(v)
    <3>1. Leave(Error("panic")) /\ Error("panic") \in Outcomes(DOMAIN args)
      BY <1>3, <2>4 DEF ReturnValue, Recovered, Error, Outcomes
    <3>2. Error("panic").how = "error" /\ Error("panic").kind = "panic"
      BY DEF Error
    <3> QED BY <1>1, <2>2, <3>1, <3>2, FailingKeepsIInv
  <2> QED BY <2>3, <2>4
<1> QED BY <1>2, <1>3 DEF CallImpl

LEMMA CallUnpredictableKeepsIInv ==
  ASSUME IInv, CallUnpredictable
  PROVE  IInv'
<1>1. /\ UNCHANGED <<fn, call, args, given, answered, expected, inexact>> /\ Learns
      /\ pc = "impl" /\ inexact = FALSE /\ fn.unpredictable /\ call = "early"
  BY AnsweredIsLearned DEF CallUnpredictable, IInv, ChecksOK, StateOK
<1> DEFINE v == Unknown(expected, {})
<1>2. GoodReturn(v) /\ ReturnValue(v)
  BY DEF CallUnpredictable, GoodReturn, Conforms, Unknown
<1>3. pc' = "refine" /\ UNCHANGED outcome /\ result' = Unknown(expected, ResultMarks)
  BY <1>2 DEF ReturnValue, Unknown
<1>4. FromType'
  BY <1>1, <1>3, SameArguments DEF FromType, Unknown
<1> QED BY <1>1, <1>3, <1>4, GoodReturnKeepsIInv

(* A late call that got past the checks was not refused early. *)
LEMMA CheckedIsNotRefused ==
  ASSUME IInv, pc = "refine"
  PROVE  ~Refused
<1>1. ~WrongCount /\ \A i \in DOMAIN args : i \in Int
  BY ArgumentsAreValues DEF IInv, ChecksOK
<1>2. ASSUME NEW i \in DOMAIN args, Misfits(i), \A j \in 1 .. i - 1 : ~LacksType(j)
      PROVE  FALSE
  <2>1. ~Fits(i) /\ ~LacksType(i)
    BY <1>2 DEF Misfits, Fits, LacksType
  <2>2. inexact
    BY <1>2, <2>1 DEF IInv, ChecksOK, StateOK
  <2>3. PICK k \in DOMAIN args : FirstMisfit(k, "dynamic")
    BY <2>2 DEF IInv, ChecksOK
  <2>4. LacksType(k) /\ k \in 1 .. Len(args) /\ i \in 1 .. Len(args) /\ Len(args) \in Nat
    BY <2>3, ArgumentsAreValues DEF FirstMisfit, LacksType, IInv
  <2>5. k > i
    BY <1>2, <2>1, <2>4
  <2>6. i \in 1 .. k - 1
    BY <2>4, <2>5
  <2> QED BY <2>1, <2>3, <2>6 DEF FirstMisfit
<1> QED BY <1>1, <1>2 DEF Refused

(* A call whose result is not typeless lacks no type. *)
LEMMA CheckedLacksNoType ==
  ASSUME IInv, pc = "refine", ~inexact
  PROVE  NothingLacksType
BY DEF IInv, ChecksOK, NothingLacksType, LacksType, Fits

(* The value that RefineResult returns for a result that is not null. *)
Refined(v) ==
  IF ~fn.refined \/ inexact \/ (~IsKnown(v) /\ v.ty = "dynamic") THEN v
  ELSE [v EXCEPT !.kind = IF @ = "unknown" THEN "not null" ELSE @]

(* What a call returns is borne out by what it is later asked to honour.   *)
LEMMA ReturnedIsKept ==
  ASSUME IInv, pc = "refine",
         ~(~fn.refined \/ inexact \/ (~IsKnown(result) /\ result.ty = "dynamic"))
           => result.kind # "null"
  PROVE  /\ Refined(result) \in Value /\ Kept(Refined(result))
         /\ ResultMarks \subseteq Refined(result).marks
<1>1. result \in Value /\ ResultMarks \subseteq result.marks
  BY ResultIsValue DEF IInv, ResultOK
<1>2. Refined(result) \in Value /\ Refined(result).marks = result.marks
      /\ Refined(result).ty = result.ty
      /\ Refined(result).kind \in {result.kind, "not null"}
      /\ (Refined(result).kind # result.kind =>
            result.kind = "unknown" /\ fn.refined /\ result.ty # "dynamic")
  BY <1>1 DEF Refined, Value, IsKnown, Kinds
<1>3. CASE FromNobody
  BY <1>2, <1>3 DEF FromNobody, Unknown, IInv, ChecksOK, Kept, Typeless, Refined
<1>4. CASE FromType
  <2>1. NothingLacksType /\ expected = answered.type
    BY <1>4, CheckedLacksNoType DEF IInv, ChecksOK, FromType
  <2> QED BY <1>2, <1>4, <2>1 DEF FromType, Unknown, Kept, Typeless, OfTheType
<1>5. CASE FromImpl
  <2>1. NothingLacksType
    BY <1>5, CheckedLacksNoType DEF FromImpl
  <2>2. result.ty = answered.impl.ty /\ result.kind = answered.impl.kind
        /\ result.marks = answered.impl.marks \cup ResultMarks
    BY <1>5 DEF FromImpl, Value
  <2> QED BY <1>2, <1>5, <2>1, <2>2 DEF FromImpl, Kept, OfTheImpl
<1> QED BY <1>1, <1>2, <1>3, <1>4, <1>5 DEF IInv, ResultOK

(* What a late call returns is within what the early one returned. *)
LEMMA ReturnedIsWithin ==
  ASSUME IInv, pc = "refine", call = "late", NEW early \in Value, Kept(early),
         ~(~fn.refined \/ inexact \/ (~IsKnown(result) /\ result.ty = "dynamic"))
           => result.kind # "null"
  PROVE  Within(Refined(result), early)
<1>1. /\ result \in Value /\ ResultMarks \subseteq result.marks
      /\ Conforms(result.ty, expected)
  BY ResultIsValue DEF IInv, ResultOK
<1>2. Refined(result) \in Value /\ Refined(result).marks = result.marks
      /\ Refined(result).ty = result.ty
      /\ Refined(result).kind \in {result.kind, "not null"}
      /\ (Refined(result).kind # result.kind =>
            result.kind = "unknown" /\ fn.refined /\ result.ty # "dynamic")
      /\ (fn.refined /\ ~inexact /\ result.ty # "dynamic" =>
            Refined(result).kind \in {"known", "not null"})
  BY <1>1 DEF Refined, Value, IsKnown, Kinds
<1>3. CASE Typeless(early)
  BY <1>1, <1>2, <1>3 DEF Typeless, Within
<1>4. inexact => ~NothingLacksType
  BY DEF IInv, ChecksOK, NothingLacksType, LacksType, FirstMisfit
<1>5. CASE OfTheType(early)
  <2>1. ~inexact /\ expected = early.ty /\ result.ty = early.ty
    BY <1>1, <1>4, <1>5 DEF OfTheType, IInv, ChecksOK, Conforms, StateOK
  <2> QED BY <1>1, <1>2, <1>5, <2>1 DEF OfTheType, Within
<1>6. CASE OfTheImpl(early)
  <2>1. FromImpl /\ ~inexact
    BY <1>4, <1>6 DEF OfTheImpl, IInv, ResultOK, FromNobody, FromType
  <2>2. result.ty = answered.impl.ty /\ result.kind = answered.impl.kind
        /\ result.marks = answered.impl.marks \cup ResultMarks
    BY <2>1 DEF FromImpl, Value
  <2> QED BY <1>1, <1>2, <1>6, <2>1, <2>2 DEF OfTheImpl, Within, Value, Kinds
<1> QED BY <1>3, <1>5, <1>6 DEF Kept

LEMMA RefineResultKeepsIInv ==
  ASSUME IInv, RefineResult
  PROVE  IInv'
<1> DEFINE unrefined == ~fn.refined \/ inexact \/ (~IsKnown(result) /\ result.ty = "dynamic")
<1>1. /\ UNCHANGED <<fn, call, args, given, answered, expected, inexact, result>>
      /\ pc = "refine" /\ Learns /\ ~Refused /\ ~WrongCount
  BY AnsweredIsLearned, CheckedIsNotRefused DEF RefineResult, IInv, Refused
<1>2. result \in Value
  BY <1>1, ResultIsValue DEF IInv, ResultOK
<1>3. CASE ~unrefined /\ result.kind = "null"
  <2>1. Leave(Panicked) /\ Panicked \in Outcomes(DOMAIN args)
    BY <1>3 DEF RefineResult, Panicked, Outcomes
  <2>2. Panicked.how = "panic" /\ fn.refined /\ result # Pending
    BY <1>2, <1>3, CallAssumption DEF Panicked, IInv, StateOK, IsFunction, CallAssumption
  <2>3. call = "late" => ~(/\ outcome["early"].how = "error"
                           /\ outcome["early"].kind \in {"count", "argument"})
    BY <1>1 DEF IInv, EarlyOK, EarlyOver
  <2> QED BY <1>1, <1>3, <2>1, <2>2, <2>3, LeavingKeepsIInv
<1>4. CASE ~unrefined => result.kind # "null"
  <2>0. PICK o : o = Returned(Refined(result))
    OBVIOUS
  <2>1. Leave(o)
    BY <1>4, <2>0 DEF RefineResult, Refined
  <2>2. /\ Refined(result) \in Value /\ Kept(Refined(result))
        /\ ResultMarks \subseteq Refined(result).marks
    BY <1>1, <1>4, ReturnedIsKept
  <2>3. ASSUME NEW v, v = Refined(result)
        PROVE  Kept(v)'
    <3>1. \A x \in Value : Kept(x) => Kept(x)'
      BY <1>1, KeptStands DEF IInv
    <3> QED BY <2>2, <2>3, <3>1
  <2>4. o \in Outcomes(DOMAIN args) /\ o.how = "value" /\ o.value = Refined(result)
        /\ o # Panicked
    BY <2>0, <2>2 DEF Returned, Outcomes, Panicked
  <2>5. ASSUME call = "late", outcome["early"].how = "value"
        PROVE  Within(Refined(result), outcome["early"].value)
    <3>1. outcome["early"].value \in Value /\ Kept(outcome["early"].value)
      BY <2>5, EarlyHasValue DEF IInv, EarlyOK, EarlyOver
    <3> QED BY <1>1, <1>4, <2>5, <3>1, ReturnedIsWithin
  <2>6. call = "late" => ~(/\ outcome["early"].how = "error"
                           /\ outcome["early"].kind \in {"count", "argument"})
    BY <1>1 DEF IInv, EarlyOK, EarlyOver
  <2>7. Kept(o.value)'
    BY <2>3, <2>4
  <2> QED BY <1>1, <2>1, <2>2, <2>4, <2>5, <2>6, <2>7, LeavingKeepsIInv
<1> QED BY <1>3, <1>4

(* The second call knows more of the arguments: what was refused still is, *)
(* and what was known of them still is.                                    *)
LEMMA CallAgainKeepsIInv ==
  ASSUME IInv, CallAgain
  PROVE  IInv'
<1>1. /\ UNCHANGED <<fn, answered, outcome>> /\ pc = "done" /\ call = "early"
      /\ call' = "late" /\ pc' = "check" /\ expected' = "dynamic" /\ inexact' = FALSE
      /\ args' \in [DOMAIN args -> Arguments]
      /\ \A i \in DOMAIN args :
           Within(args'[i], args[i]) /\ args'[i].marks = args[i].marks
  BY DEF CallAgain
<1>2. PICK n \in 0 .. MaxArgs : args \in [1 .. n -> Arguments]
  BY DEF IInv, StateOK, Calls
<1>3. n \in Nat /\ args' \in [1 .. n -> Arguments] /\ DOMAIN args' = DOMAIN args
      /\ Len(args') = Len(args)
  BY <1>1, <1>2, CallAssumption DEF CallAssumption
<1>4. \A i \in DOMAIN args : args[i] \in Value /\ args'[i] \in Value
  BY <1>1, <1>2, <1>3, CallAssumption DEF CallAssumption
<1>5. WrongCount' = WrongCount
  BY <1>1, <1>3 DEF WrongCount
<1>6. \A i \in DOMAIN args : ParamOf(i)' = ParamOf(i)
  BY <1>1 DEF ParamOf
<1>7. ResultMarks' = ResultMarks
  BY <1>1, <1>3, <1>6 DEF ResultMarks
<1>8. ASSUME NEW i \in DOMAIN args, ~WrongCount
      PROVE  /\ LacksType(i)' => LacksType(i)
             /\ Misfits(i) => Misfits(i)'
             /\ Forces(i)' => Forces(i)
  <2>1. ParamOf(i) \in Param
    BY <1>8, ArgumentsHaveParameters DEF IInv
  <2>2. /\ Verdict(args'[i], ParamOf(i)) = "dynamic" => Verdict(args[i], ParamOf(i)) = "dynamic"
        /\ Verdict(args[i], ParamOf(i)) \in {"null", "type"} =>
             Verdict(args'[i], ParamOf(i)) \in {"null", "type"}
        /\ IsKnown(args[i]) => IsKnown(args'[i])
    BY <1>1, <1>4, <2>1, LearningKeepsVerdict
  <2> QED BY <1>6, <2>2 DEF LacksType, Misfits, Forces
<1>9. Refused => Refused'
  <2>1. SUFFICES ASSUME Refused, ~WrongCount PROVE Refused'
    BY <1>5 DEF Refused
  <2>2. PICK i \in DOMAIN args : Misfits(i) /\ \A j \in 1 .. i - 1 : ~LacksType(j)
    BY <2>1 DEF Refused
  <2>3. \A j \in 1 .. i - 1 : j \in DOMAIN args
    BY <1>2, <1>3
  <2> QED BY <1>3, <1>5, <1>8, <2>1, <2>2, <2>3 DEF Refused
<1>10. ASSUME NEW v, ~WrongCount, Kept(v)
       PROVE  Kept(v)'
  <2>1. NothingLacksType => NothingLacksType'
    BY <1>3, <1>8, <1>10 DEF NothingLacksType
  <2>2. NothingForces => NothingForces'
    BY <1>3, <1>8, <1>10 DEF NothingForces
  <2> QED BY <1>1, <1>7, <1>10, <2>1, <2>2 DEF Kept, Typeless, OfTheType, OfTheImpl
<1>11. StateOK'
  BY <1>1, <1>2, <1>3 DEF IInv, StateOK, Types, Calls
<1>12. EarlyOK'
  BY <1>1, <1>5, <1>9, <1>10 DEF IInv, EarlyOK, EarlyOver
<1>13. ChecksOK' /\ ResultOK' /\ LateOK' /\ EndOK' /\ PanicOK' /\ AgreesWithEarly'
  BY <1>1 DEF IInv, ChecksOK, ResultOK, LateOK, EndOK, PanicOK, AgreesWithEarly
<1> QED BY <1>11, <1>12, <1>13 DEF IInv

----------------------------------------------------------------------------
(* The theorems.                                                           *)

LEMMA PendingIsNoPanic == Pending # Panicked
<1>1. Panicked \in Outcomes(1 .. MaxArgs)
  BY DEF Panicked, Outcomes
<1> QED BY <1>1, CallAssumption DEF CallAssumption

LEMMA InitEstablishesIInv == Init => IInv
<1> SUFFICES ASSUME Init PROVE IInv
  OBVIOUS
<1>1. StateOK
  BY DEF Init, StateOK, Types, NothingAnswered
<1>2. \A c \in {"early", "late"} : outcome[c] = Pending
  BY DEF Init
<1> QED BY <1>1, <1>2, PendingIsNoPanic DEF Init, IInv, ChecksOK, ResultOK, EarlyOK, EarlyOver, LateOK,
        EndOK, PanicOK, AgreesWithEarly

LEMMA StutterKeepsIInv ==
  ASSUME IInv, UNCHANGED vars
  PROVE  IInv'
<1>1. UNCHANGED <<fn, call, pc, args, given, answered, expected, inexact, result, outcome>>
  BY DEF vars
<1>2. StateOK' /\ ChecksOK' /\ ResultOK'
  <2>1. StateOK'
    BY <1>1 DEF IInv, StateOK
  <2>2. ChecksOK'
    BY <1>1, SameArguments DEF IInv, ChecksOK
  <2>3. ResultOK'
    BY <1>1, SameArguments DEF IInv, ResultOK, FromNobody, FromType, FromImpl, Conforms, Unknown
  <2> QED BY <2>1, <2>2, <2>3
<1>3. EarlyOK' /\ LateOK' /\ EndOK' /\ PanicOK' /\ AgreesWithEarly'
  <2>1. EarlyOK'
    <3>1. EarlyOver' = EarlyOver /\ Refused' = Refused /\ WrongCount' = WrongCount
      BY <1>1, SameArguments DEF EarlyOver
    <3> QED BY <1>1, <3>1, KeptStands, EarlyHasValue, AnsweredIsLearned DEF IInv, EarlyOK
  <2>2. LateOK' /\ EndOK' /\ PanicOK'
    BY <1>1, SameArguments DEF IInv, LateOK, EndOK, PanicOK
  <2>3. AgreesWithEarly'
    BY <1>1 DEF IInv, AgreesWithEarly, Within
  <2> QED BY <2>1, <2>2, <2>3
<1> QED BY <1>2, <1>3 DEF IInv

LEMMA IInvHolds == Spec => []IInv
<1>1. IInv /\ [Next]_vars => IInv'
  <2> SUFFICES ASSUME IInv, [Next]_vars PROVE IInv'
    OBVIOUS
  <2>1. CASE CheckArguments      BY <2>1, CheckArgumentsKeepsIInv
  <2>2. CASE CallType            BY <2>2, CallTypeKeepsIInv
  <2>3. CASE CollectMarks        BY <2>3, CollectMarksKeepsIInv
  <2>4. CASE CallImpl            BY <2>4, CallImplKeepsIInv
  <2>5. CASE CallUnpredictable   BY <2>5, CallUnpredictableKeepsIInv
  <2>6. CASE RefineResult        BY <2>6, RefineResultKeepsIInv
  <2>7. CASE CallAgain           BY <2>7, CallAgainKeepsIInv
  <2>8. CASE UNCHANGED vars      BY <2>8, StutterKeepsIInv
  <2> QED BY <2>1, <2>2, <2>3, <2>4, <2>5, <2>6, <2>7, <2>8 DEF Next
<1> QED BY InitEstablishesIInv, <1>1, PTL DEF Spec

(* Impl never gets a null, an unknown value, a mark, a value of no exact   *)
(* type or a value of the wrong type that its parameter does not allow,    *)
(* for any list of parameters, with or without a variadic one, and any     *)
(* arguments.                                                              *)
THEOREM ArgumentsAreAllowed == Spec => []ImplGetsWhatItAllows
<1>1. IInv => ImplGetsWhatItAllows
  <2> SUFFICES ASSUME IInv, pc = "impl"
               PROVE  ImplGetsWhatItAllows
    BY DEF ImplGetsWhatItAllows
  <2>1. /\ ~WrongCount /\ NothingForces /\ given = Unmarked
        /\ \A i \in DOMAIN args : Fits(i)
    BY DEF IInv, ChecksOK
  <2>2. /\ DOMAIN given = DOMAIN args /\ Len(given) = Len(args)
        /\ \A i \in DOMAIN args :
             /\ given[i].ty = args[i].ty /\ given[i].kind = args[i].kind
             /\ ~ParamOf(i).allowMarked => given[i].marks = {}
    BY <2>1, UnmarkedArguments DEF IInv
  <2>3. ASSUME NEW i \in DOMAIN args
        PROVE  /\ args[i].kind = "null" => ParamOf(i).allowNull
               /\ ~IsKnown(given[i]) => ParamOf(i).allowUnknown
               /\ args[i].ty = "dynamic" => ParamOf(i).allowDynamicType
               /\ args[i].ty = "dynamic" \/ Conforms(args[i].ty, ParamOf(i).type)
    <3>1. ParamOf(i) \in Param /\ args[i] \in Value
      BY <2>1, ArgumentsHaveParameters, ArgumentsAreValues DEF IInv
    <3>2. Verdict(args[i], ParamOf(i)) = "fits"
      BY <2>1 DEF Fits
    <3>3. ~IsKnown(given[i]) => ParamOf(i).allowUnknown
      BY <2>1, <2>2 DEF NothingForces, Forces, IsKnown
    <3> QED BY <3>1, <3>2, <3>3 DEF Verdict, Param, Value, Kinds
  <2> QED BY <2>2, <2>3, ArgumentsHaveParameters, <2>1 DEF ImplGetsWhatItAllows, Conforms, IInv
<1> QED BY IInvHolds, <1>1, PTL

(* Whichever way a call returns a value, the value carries every mark of   *)
(* every argument whose parameter does not allow marks.                    *)
THEOREM NoMarkIsLost == Spec => []MarksSurvive
<1>1. IInv => MarksSurvive
  BY ResultMarksAreMarks DEF IInv, EndOK, MarksSurvive
<1> QED BY IInvHolds, <1>1, PTL

(* The value of a late call is within what an early call with less known   *)
(* arguments returned, and what was refused early is refused late, for     *)
(* any function whose Type and Impl answer within what they said before.   *)
THEOREM EarlyResultsStand == Spec => []AgreesWithEarly
<1>1. IInv => AgreesWithEarly
  BY DEF IInv
<1> QED BY IInvHolds, <1>1, PTL

(* A call ends in a value or in an error about an argument there is; it    *)
(* panics only when a refined result turns out null.                       *)
THEOREM CallsEndWell == Spec => []CallersAreAnswered
<1>1. IInv => CallersAreAnswered
  <2> SUFFICES ASSUME IInv, NEW c \in {"early", "late"}, outcome[c] = Panicked
               PROVE  c = call => result # Pending /\ result.kind = "null"
    BY DEF CallersAreAnswered, IInv, StateOK, PanicOK
  <2>2. c = call => pc = "done"
    BY PendingIsNoPanic DEF IInv, EarlyOK, EarlyOver, LateOK, StateOK
  <2> QED BY <2>2 DEF IInv, EndOK
<1> QED BY IInvHolds, <1>1, PTL
=============================================================================
