SPECIFICATION Spec
CONSTANTS
  StatValues = 256
  Files <- MCFiles
  Modes <- MCModes
  BlockSize = 12
  InmemL = 2
  MAX_DIST = 11
  dict_min_match = 2
  L = 4
  CYCLES = 1
  Unroll = 2
  LOOKAHEAD = 2
  BUFSIZE = 4
INVARIANTS
  MatchesRepeat
  ListIsSound
  StaysInWindow
\* Compression ends
CHECK_DEADLOCK FALSE
