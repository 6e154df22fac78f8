SPECIFICATION Spec
CONSTANTS
  MAX_CODE_LEN = 3
  EOB = 4
  NO_SYMBOL = 5
  Freqs = {0, 1, 2, 3, 5}
  CODE_WIDTH = 6
  INDEX_WIDTH = 12
  StoredLengths = {0, 1, 2, 3, 4, 13}
INVARIANTS
  LengthsComplete
  LengthsOptimal
  PanicsWithoutCode
  TableInverts
CHECK_DEADLOCK FALSE
