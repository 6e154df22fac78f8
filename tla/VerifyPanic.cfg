SPECIFICATION Spec
CONSTANTS
  Byte = {0, 1}
  U32 = 4
  Worker = {w1, w2, w3}
  BlockSizes = {0, 1, 2, 4}
  MaxChunk = 4
  Chunk <- MCChunk
  Crc <- MCCrc
  EncodedSize <- MCEncodedSize
  Pivot <- MCPivot
  Inputs <- MCInputs
  AllOptions <- MCOptions
INVARIANT
  VerifyReturns
CHECK_DEADLOCK FALSE
