SPECIFICATION Spec
CONSTANTS
  Byte = {0, 1}
  MIN_MATCH = 2
  MAX_MATCH = 4
  MAX_DIST = 3
  DIST_RANGE = 6
  HASH_BYTES = 2
  HASH_SIZE = 2
  MaxLen = 7
  Depths = {0, 1, 2, 4}
  Hash <- MCHash
  Inputs <- MCInputs
INVARIANT
  SelfNeverMet
CHECK_DEADLOCK FALSE
