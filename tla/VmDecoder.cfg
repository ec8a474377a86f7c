SPECIFICATION FairSpec
\* Sizes in units of 4 bytes
CONSTANTS
  NumBlocks = 4
  SlotsPerBlock = 2
  Lengths = {15, 36, 99}
  Reach = 3
  maximum_save = 99
  USEFUL_CHUNK_SPACE = 15
  useful_memory = 135
  VMBLOCK_SIZE = 42
  RecordHeader = 5
  EndMark = 1
INVARIANTS
  MemoryWithinLimit
PROPERTIES
  SwapSafe
  DecodingEnds
  ImplementsMatchQueue
\* Decoding ends
CHECK_DEADLOCK FALSE
