SPECIFICATION Spec
CONSTANTS
  Byte = {0, 1}
  MIN_MATCH = 2
  MAX_MATCH = 3
  MAX_DIST = 3
  DIST_RANGE = 6
  HASH_BYTES = 2
  HASH_SIZE = 2
  STRIDE = 2
  WINDOW = 6
  SCORE_DEPTH = 3
  MaxLen = 7
  MaxNumber = 8
  Hash <- MCHash
  Inputs <- MCInputs
INVARIANTS
  BlockTypeOK
  PivotInside
  DensestChosen
  BlockRoundTrip
  CutKeepsLength
  CopyInBounds
  CopyIsSelfReferential
PROPERTY
  ImplementsBlockContract
CHECK_DEADLOCK FALSE
