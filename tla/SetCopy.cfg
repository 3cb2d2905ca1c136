SPECIFICATION Spec
CONSTANTS
  Handles = {h1, h2, h3}
  Elements <- MCUnknowns
  Checksum <- MCOneBucket
  MaxLength = 4
  Copying = TRUE
  Nothing = Nothing
SYMMETRY MCHandles
PROPERTIES
  SealedSetsNeverChange
CHECK_DEADLOCK FALSE
