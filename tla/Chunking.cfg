SPECIFICATION Spec
CONSTANTS
    NumTracks = 2
    Samples <- MediaSamples
    Offsets = {}
    AmrTracks = {1}
    TimeScale = 2
    MovieTimeScale = 3
    FixedDuration = 1
    ChunkDurations = {0}
    BytesPerSample = 1
    FtypLen = 1
    MdatHeaderLen = 1
    MoovLen = 2
    Calls <- ChunkingCalls
    MaxSamples = 3
    MaxFaults = 1
    MaxSessions = 2
INVARIANTS
    TypeOK
    ChunksIntact
    MediaInOrder
    ReadBackFromFile
    OneModePerChunk
    SampleSizes
CHECK_DEADLOCK FALSE
