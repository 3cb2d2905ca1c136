SPECIFICATION Spec
CONSTANTS
  Numbers <- MCNumbers
  NegInf <- MCNegInf
  PosInf <- MCPosInf
  MaxInt = 2
  Strings <- MCStrings
  NilVal = NilVal
  Some = Some
  Null = Null
  Values = {v0, v1, v2}
  Builders = {b1, b2}
  Root = v0
  InitialValues <- MCInitialValues
  NumberArgs <- MCNumberArgs
  LengthArgs <- MCLengthArgs
  PrefixArgs <- MCPrefixArgs
  Marks = {m}
  UnknownArg = UnknownArg
  NoRef = NoRef
  Free = Free
  ReuseBuilder = FALSE
SYMMETRY MCNames
INVARIANTS
  TypeOK
  ValuesMeetAssertions
PROPERTIES
  RangesOnlyNarrow
  CallsNarrowExactly
  ValuesAreImmutable
  ImplementsRangeNarrowing
CHECK_DEADLOCK FALSE
