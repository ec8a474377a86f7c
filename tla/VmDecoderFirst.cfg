SPECIFICATION Spec
\* Sizes in units of 4 bytes; matches of 8 bytes, and of 60 and 144 bytes, so that
\* the scan may erase the first entry
CONSTANTS
  NumBlocks = 4
  SlotsPerBlock = 2
  Lengths = {2, 15, 36}
  Reach = 6
  maximum_save = 99
  USEFUL_CHUNK_SPACE = 15
  useful_memory = 135
  VMBLOCK_SIZE = 42
  RecordHeader = 5
  EndMark = 1
INVARIANT
  MarksInTime
\* Decoding ends
CHECK_DEADLOCK FALSE
