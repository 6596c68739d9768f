SPECIFICATION FairSpec
CONSTANTS
  MaxFrames = 6
  SilencePercent = 50
  ChunkSize = 2
  MinChunkSize = 3
  Inf = 100000
  Texts <- MCTexts
  MaxEarly = 1
  Vocab <- MCVocab
  UnkToken <- MCUnk
  MaxWordChars = 4
  Calls <- MCCalls
  FrameShiftInSeconds <- MCFrameShiftInSeconds
  FrameShift = 10
  Subsampling = 3
  DiaFrameShift = 300
  MaxAligned = 60
  Ids <- MCIds
INVARIANTS
  TypeOK
  MarksAlternate
  SegmentsInOrder
  SpeechIsSegmented
  ChunksCoverSegments
  TimesAreHulls
  PunctuationFitsWords
  ResultsAreAbstractResults
  TagsFollowTheAudio
PROPERTIES
  TranscriptReturns
