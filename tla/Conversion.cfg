SPECIFICATION Spec
CONSTANTS
  Names <- MCNames
  Inputs <- MCInputs
  Targets <- MCTargets
  Others <- MCOthers
  MaxSteps = 1
CHECK_DEADLOCK FALSE
INVARIANTS
  TypesAsAsked
  SafeConversionsSucceed
  UnifyIgnoresOrder
PROPERTIES
  LearningNeverWidens
  MarksSurvive
