SPECIFICATION Spec
CONSTANTS
  HasPunctuator = TRUE
  HasFormatter = TRUE
  SampleRate = 44100
  ModelRate = 44100
  VadFrame = 480
  ChunkBytes <- MCChunkBytes
  Configs <- MCConfigs
  BadConfig = BadConfig
  Hypotheses <- MCHypotheses
  MaxRequests = 4
  Window = 1
INVARIANT
  OffsetsAreExact
