CONSTANTS
  MaxBlocks = 3
  Modes = {"future"}
  Window = 1
  Faults = {}
SPECIFICATION Spec
INVARIANTS
  SavedHeaderIntact
\* The process ends
CHECK_DEADLOCK FALSE
