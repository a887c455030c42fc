SPECIFICATION VescFairSpec
CONSTANTS
  ByteRange = 8
  ContentSets = {{2, 7}}
  MaxBuffer = 4
  Lengths = {2}
PROPERTIES
  EveryLengthEnds
