SPECIFICATION FairSpec
CONSTANTS
  Languages = {"is", "en", "fr"}
  KaldiModels <- MCKaldiModels
  FileSystem <- MCFileSystem
  Credentials = {"insecure", "mutual"}
  Versions = {3}
  MaxRegistrations = 1
  ClientConfigs <- MCClientConfigs
  MaxChunks = 4
  MaxResponses = 3
  WriteWindow = 1
  ReadWindow = 1
  Responses <- MCResponses
  BadConfig = BadConfig
INVARIANTS
  TypeOK
  ServiceModelsAreRegistered
  SuccessMeansHeard
PROPERTIES
  ClientEnds
