SPECIFICATION CodecSpec
CONSTANTS
  MAX_CODE_LEN = 3
  EOB = 6
  NO_SYMBOL = 8
  CODE_WIDTH = 7
  INDEX_WIDTH = 14
  StoredLengths = {0, 1, 2, 3, 4, 15}
  Byte = {0, 1}
  LITERALS = 2
  MIN_MATCH = 2
  MAX_MATCH = 3
  MAX_DIST = 8
  DIST_RANGE = 16
  DIST_BITS = 4
  BYTE_BITS = 2
  MaxTokens = 3
  Distances = {5}
  Streams <- MCStreams
INVARIANTS
  CodecRoundTrip
  DecodedIsPrefix
PROPERTY
  IntactReturns
CHECK_DEADLOCK FALSE
