SPECIFICATION FairSpec
CONSTANTS
  Batch <- TwoGroups
  PreparedErrors <- NoErrors
  ChunkImages = 2
  ScratchImages = 2
  CommandImages = 1
  Buffers = {"b1", "b2", "b3"}
  Faults = {"encode", "encode_later"}
INVARIANT StagingUnshared
