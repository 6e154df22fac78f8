SPECIFICATION Spec
CONSTANTS
  Byte = {0, 1}
  U32 = 4
  MaxChunk = 1
  CodeCells = 2
  Plain = plain
  Packed = packed
  MaxCommands = 4
  MaxKills = 2
  Iterations = {0, 3, 4, 8, 9}
  Times = {0, 1, 2, 3}
  Chunk <- MCChunk
  Crc <- MCCrc
  EncodedSize <- MCEncodedSize
  Pivot <- MCPivot
  Inputs <- MCInputs
  AllOptions <- MCOptions
INVARIANTS
  Recoverable
  OnlyWholeArchivesRead
  CutShortIsKnown
  ScoreDefined
PROPERTY
  CommandsEnd
CHECK_DEADLOCK FALSE
