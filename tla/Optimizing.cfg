SPECIFICATION OptimizeSpec
CONSTANTS
    NumTracks = 2
    Samples <- CbrSamples
    Offsets = {}
    AmrTracks = {}
    TimeScale = 2
    MovieTimeScale = 1
    FixedDuration = 1
    ChunkDurations = {}
    BytesPerSample = 2
    FtypLen = 1
    MdatHeaderLen = 1
    MoovLen = 2
    OptimalLen = 3
    HintTracks = {2}
    Calls <- NoCalls
    MaxSamples = 4
    MaxFaults = 1
    MaxSessions = 2
INVARIANTS
    OptimizeTypeOK
    ClosedHoldsAll
    ChunksIntact
    ReadBackFromFile
    ChunksInTimeOrder
    OnlyReferencedMedia
    DurationsAddUp
    MovieIsLongest
CHECK_DEADLOCK FALSE
