SPECIFICATION DecoderFairSpec
CONSTANTS
  StatValues = 5
  BlockSize = 4
  Cases <- MCCases
  MaxMatches = 2
  BASE_LEN = 2
  maximum_save = 4
  UsefulChunkSpace = 2
  StatSize = 1
  HeaderRoom = 1
  FUTURELZ_MAX_STATS_PER_BLOCK = 8
  K = 3
  USEFUL_CHUNK_SPACE = 2
  MemLimit = 7
  SizeValues = 1000
  Names = {"a", "b"}
  Lengths = {1, 4}
INVARIANTS
  OutputCorrect
  EstimateExact
  RestoreReadsSaved
  MemoryWithinLimit
PROPERTIES
  RoundTrip
  ImplementsChunkStore
\* Decoding ends
CHECK_DEADLOCK FALSE
