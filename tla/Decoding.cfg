SPECIFICATION SpecDecoding
CONSTANTS
    Components = {"batch", "tile", "channels", "region", "device", "outputs", "metal"}
    c1 = c1
    c2 = c2
    Callers = {c1, c2}
    Workers = {w1, w2}
    Calls <- SmallCalls
    MaxInputs = 5
    MaxImages = 4
    Lanes = {l1, l2}
    RegionImages <- SmallImages
    RegionsAsked <- SmallRegions
    HostOutput <- OwnedStore
    DirectOutput <- IntoStore
    CudaOutput <- CudaStored
    MetalOutput <- MetalStored
    CheckedOutput <- CheckedStore
    Reordered <- ClampedLater
    DeviceCommands <- SmallCommands
    Requests <- SmallRequests
    Plans <- SmallPlans
    Addresses = {"A", "B"}
    UploadBytes <- SmallUploads
    Queues = 2
    PerCommand = 2
    PerDense = 2
    Budget = 10
    PoolBytes = 5
    PoolBuffers = 3
    CacheBytes = 2
    MaxCalls = 2
    MaxVersions <- SmallVersions
    Faults = {"encode", "kernel", "command"}
SYMMETRY LaneSymmetry
INVARIANTS
    DecodingTypeOK
    WorkspacesLent BatchResultsTrue
    TileSameMacroblocks OutputsAlike RegionIsCrop
    DeviceLanesApart DeviceMatchesHost
    RunningApart ResultsTrue ImagesStable
