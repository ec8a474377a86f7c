SPECIFICATION Spec
CONSTANTS
  Archives <- MCArchives
  Calls <- MCCalls
  Bufsize <- MCBufsize
INVARIANT DeletedMeansDecoded
\* The call ends
CHECK_DEADLOCK FALSE
