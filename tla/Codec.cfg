SPECIFICATION Spec
CHECK_DEADLOCK FALSE
CONSTANTS
  Names <- MCNames
  Huge = {3}
  MaxPrefixLength = 4
  CharEnds <- MCCharEnds
  Delimiters <- MCDelimiters
  Inputs <- MCInputs
  WriteTypes <- MCTypes
  ReadTypes <- MCTypes
INVARIANTS
  WrittenCanBeRead
  ReadBackIsFaithful
  ReadAsAsked
  ImpliedTypeFits
