SPECIFICATION BitSpec
CONSTANTS
  U8_BITS = 2
  ACC_BITS = 8
  PEEK_BITS = 5
  FIELD_BITS = 3
  MaxBits = 11
  Patterns <- MCPatterns
PROPERTY
  ImplementsBitStream
CHECK_DEADLOCK FALSE
