SPECIFICATION SpecCoefficients
CONSTANTS
  Explored = {"session", "arena"}
  BlockSize = 2
  Threads = 2
  MaxDecodes = 2
  Callers = {"t1", "t2"}
  Calls <- Batches
  PlanArenas <- SmallArenas
  PlanScratch <- SmallScratch
  ArenaBytes <- SmallBytes
  Streams = 2
  Budget = 10
  PoolBytes = 6
  BufferBytes = 3
  CacheEntries = 2
  CacheBytes = 4
  Faults = {"encode", "kernel"}
INVARIANTS CoefficientsTypeOK ScratchExact UploadsReady ReturnsSettled
  ArenaMatchesSequential ArenaMetadataAddresses
PROPERTY EveryCallReturns
