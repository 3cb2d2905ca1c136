SPECIFICATION Spec
CHECK_DEADLOCK FALSE
CONSTANTS
  Names <- MCNames
  Bits = 2
  Fractions <- MCFractions
  GoTypes <- MCGoTypes
  Values <- MCValues
  EncodeTypes <- MCEncodeTypes
  MaxDecodes = 2
INVARIANTS
  BothWaysAgree
PROPERTIES
  SlicesAreHandedOver
