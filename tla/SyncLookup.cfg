SPECIFICATION Spec
CONSTANTS
    NumTracks = 1
    Samples <- TableSamples
    Offsets = {}
    AmrTracks = {}
    TimeScale = 2
    MovieTimeScale = 3
    FixedDuration = 1
    ChunkDurations = {}
    BytesPerSample = 1
    FtypLen = 1
    MdatHeaderLen = 1
    MoovLen = 2
    Calls <- NoCalls
    MaxSamples = 3
    MaxFaults = 0
    MaxSessions = 1
INVARIANT SyncIsAnswered
CHECK_DEADLOCK FALSE
