SPECIFICATION Spec
CONSTANTS
  BYTE_BITS = 2
  CRC_BITS = 6
  POLYNOMIAL = {4, 5}
  MaxLength = 5
  Messages <- MCMessages
INVARIANTS
  ChecksumIsRemainder
  BurstsDetected
CHECK_DEADLOCK FALSE
