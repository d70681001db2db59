SPECIFICATION FairSpec
CONSTANTS
  Batch <- TwoGroups
  PreparedErrors <- OneError
  ChunkImages = 2
  ScratchImages = 2
  CommandImages = 1
  Buffers = {"b1", "b2", "b3"}
  Faults = {"count", "stage", "entropy", "encode", "gpu"}
INVARIANTS TypeOK StagingUnshared EveryImageAccounted NothingRunsOn
PROPERTIES KeepsPromise CallsReturn
