SPECIFICATION Spec
CONSTANTS
  StatValues = 5
  BlockSize = 4
  Cases <- MCOverflowCases
  MaxMatches = 2
  BASE_LEN = 4
  maximum_save = 4
  UsefulChunkSpace = 2
  StatSize = 1
  HeaderRoom = 1
  FUTURELZ_MAX_STATS_PER_BLOCK = 4
INVARIANT StatbufHolds
\* Decoding ends
CHECK_DEADLOCK FALSE
