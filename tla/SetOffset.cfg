SPECIFICATION Spec
CONSTANTS
    NumTracks = 1
    Samples <- TableSamples
    Offsets = {0, 1}
    AmrTracks = {}
    TimeScale = 2
    MovieTimeScale = 3
    FixedDuration = 1
    ChunkDurations = {}
    BytesPerSample = 1
    FtypLen = 1
    MdatHeaderLen = 1
    MoovLen = 2
    Calls <- CrashCalls
    MaxSamples = 2
    MaxFaults = 0
    MaxSessions = 1
INVARIANT NoCrash
CHECK_DEADLOCK FALSE
