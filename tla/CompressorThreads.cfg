SPECIFICATION ThreadsFairSpec
CONSTANTS
  MaxBlocks = 4
  Modes = {"io", "future", "index"}
  Window = 1
  Faults = {"write", "toolong", "temp"}
  NumThreads = 3
  MaxPoolBlocks = 2
  MaxStripes = 4
  Putters = {p1, p2}
  Getters = {g1, g2}
  Free = free
  MaxElements = 2
  MaxPuts = 4
INVARIANTS
  OnlyChecksumsRace
  NoSignalSwallowed
  SuccessMeansComplete
  PoolInvariant
  QueueInvariant
PROPERTIES
  ImplementsFirstPass
  ImplementsStripeOrder
  ImplementsFifo
  ThreadsEnd
  PoolEnds
  EveryObjectIsTaken
\* The process ends; all objects put and taken, the getters wait for ever
CHECK_DEADLOCK FALSE
