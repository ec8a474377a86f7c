SPECIFICATION AgreementSpec
CHECK_DEADLOCK FALSE
CONSTANTS
  CommandLines <- MCLines
  ByteValues = 128
  Kb = 2
  UnsignedValues = 1024
  PhysicalMemory = 400
  StatValues = 8
  LengthDefault = 2
  MINIMAL_MIN_MATCH = 1
  DEFAULT_MIN_MATCH = 2
  DictMinDefault = 2
  DEFAULT_ACCEL = 4
  AccelDivisor = 1
  Processors = 2
  BlockSize = 4
  NhBytes = 128
  Jobs <- MCJobs
  Seeds <- MCSeeds
  Texts <- MCTexts
  MaxCalls = 2
  Operands <- MCOperands
  Pools = 4
  WD = 3
  SystemRandom = {0, 40, 300, 512}
  ReadSizes = {8, 32}
  MaxReads = 9
  Rollers <- MCRollers
  Data <- MCData
  Strides = {1, 2, 3, 4, 7, 8}
  TableJobs <- MCTableJobs
  ChunkJobs <- MCChunkJobs
  MAX_HASH_CHAIN = 4
  HashBits = 14
  SlicesInBlock = 4
  BITS = 4
  STRIPE = 13
  WINSIZE = 2
  MinimalMatch = 2
  Reach = 5
INVARIANTS
  LengthsAgree
  HeaderKept
  InputRereadable
  BlocksOfText
  KnownAnswers
  SidesAgree
  ArithmeticExact
  SeedsFresh
  RollsExactly
  NothingMissed
  ChunksRepeat
