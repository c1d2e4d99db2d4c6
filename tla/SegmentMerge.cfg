SPECIFICATION MergeSpec
CONSTANTS
  MaxPosition = 4
  MaxLength = 2
  MaxSegments = 4
INVARIANT MergeAgrees
PROPERTY MergeEnds
CHECK_DEADLOCK FALSE
