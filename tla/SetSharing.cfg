SPECIFICATION Spec
CONSTANTS
  Handles = {h1, h2, h3}
  Elements <- MCSharing
  Checksum <- MCOneBucket
  MaxLength = 4
  Copying = FALSE
  Nothing = Nothing
SYMMETRY MCHandles
INVARIANTS
  TypeOK
  WritersDoNotShare
PROPERTIES
  SealedSetsNeverChange
CHECK_DEADLOCK FALSE
