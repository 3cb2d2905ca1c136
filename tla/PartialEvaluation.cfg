SPECIFICATION Spec
CONSTANTS
  Numbers <- MCNumbers
  NegInf <- MCNegInf
  PosInf <- MCPosInf
  MaxInt = 5
  Strings <- MCStrings
  NilVal = NilVal
  Some = Some
  Null = Null
  Panicked = Panicked
  InitialPairs <- MCPairs
  ChainPairs <- MCChainPairs
  Inputs = 2
  MaxOperands = 4
INVARIANTS
  TypeOK
  LearningNeverWidens
  IncludesDecidesNonNull
  OperandOrderIsIrrelevant
CHECK_DEADLOCK FALSE
