SPECIFICATION Spec
CONSTANTS
  Names <- MCNames
  Inputs <- MCInputs
  Targets <- MCTargets
  Others <- MCChainedOthers
  MaxSteps = 1
CHECK_DEADLOCK FALSE
INVARIANT
  SafeConversionsSucceed
