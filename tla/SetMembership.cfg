SPECIFICATION Spec
CONSTANTS
  Handles = {h1, h2, h3}
  Elements <- MCMembership
  Checksum <- MCOneBucket
  MaxLength = 2
  Copying = TRUE
  Nothing = Nothing
SYMMETRY MCHandles
INVARIANTS
  NoEquivalentMembers
PROPERTIES
  ImplementsSetContents
  CombinationsMeetContract
CHECK_DEADLOCK FALSE
