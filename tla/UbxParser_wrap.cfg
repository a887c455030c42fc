SPECIFICATION UbxSpec
CONSTANTS
  ByteRange = 8
  ContentSets = {{5, 7}}
  MaxBuffer = 8
  BufferSize = 8
  PayloadLengths = {0}
INVARIANTS
  UbxInBounds
