SPECIFICATION ReceptionSpec
CONSTANTS
  Driver = "vesc"
  RECV_BUFFER_SIZE = 3
  DMA_RX_BUFFER_SIZE = 4
  WrapByEvent = FALSE
  Slack = 3
  MaxBytes = 13
  ByteRange = 8
  ContentSets = {{0, 3}, {5, 7}, {1, 2}}
  MaxBuffer = 8
  Lengths = {2}
  BufferSize = 8
  PayloadLengths = {0}
  MaxCode = 4
  Bytes = {0, 1, 3}
  Payloads <- MCPayloads
  RX_BUF_SIZE = 8
  DECODE_BUF_SIZE = 6
  MaxFrames = 2
  MaxFaults = 2
INVARIANTS
  NoStuckBuffer
  OnlyRaceLosesData
  BuffersHold
  NoPacketLost
  CodecRoundTrip
  CleanFrameDelivered
PROPERTIES
  ReceivedIsTaken
  ImplementsStream
  EveryByteTaken
  PacketsKeepComing
