SPECIFICATION FairSpec
CONSTANTS
  kBufferSize = 5
  kRefillThreshold = 2
  ReadSizes = {1, 3, 7}
  MaxLength = 13
INVARIANTS
  TypeOK
  
PROPERTIES
  ReadsInOrder
  
