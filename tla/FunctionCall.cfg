SPECIFICATION Spec
CONSTANTS
  Functions <- MCFunctions
  Arguments <- MCArguments
  Results <- MCResults
  MaxArgs = 2
  Marks = {m}
  NoParam = NoParam
  Pending = Pending
INVARIANTS
  ImplGetsWhatItAllows
  MarksSurvive
  AgreesWithEarly
  CallersAreAnswered
CHECK_DEADLOCK FALSE
