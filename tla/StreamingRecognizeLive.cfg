SPECIFICATION FairSpec
CONSTANTS
  HasPunctuator = TRUE
  HasFormatter = TRUE
  SampleRate = 44100
  ModelRate = 44100
  VadFrame = 480
  ChunkBytes <- MCSmallChunks
  Configs <- MCConfigs
  BadConfig = BadConfig
  Hypotheses <- MCHypotheses
  MaxRequests = 3
  Window = 1
PROPERTIES
  RpcReturns
  SingleUtteranceReturns
  RequestsAreRead
