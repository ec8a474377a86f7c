SPECIFICATION Spec
CONSTANTS
  Archives <- MCArchives
  Calls <- MCCalls
  Bufsize <- MCBufsize
INVARIANTS
  OnlyCheckedData
  SizeMeansBlocks
PROPERTIES
  NeverOverwritten
  DriverEnds
\* The call ends
CHECK_DEADLOCK FALSE
