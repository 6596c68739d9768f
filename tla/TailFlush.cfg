SPECIFICATION Spec
CONSTANTS
  HasPunctuator = TRUE
  HasFormatter = TRUE
  MaxPackets = 3
  FrameSamples = 2
  MaxDelay = 1
  MaxBuffer = 4
  ContentChunk = 2
  ContentDims <- MCContentDims
  Requests <- MCRequests
INVARIANT
  TailIsFlushed
