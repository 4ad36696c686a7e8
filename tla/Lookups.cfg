SPECIFICATION Spec
CONSTANTS
    NumTracks = 1
    Samples <- TableSamples
    Offsets = {0, 1}
    AmrTracks = {}
    TimeScale = 2
    MovieTimeScale = 3
    FixedDuration = 2
    ChunkDurations = {}
    BytesPerSample = 1
    FtypLen = 1
    MdatHeaderLen = 1
    MoovLen = 2
    Calls <- LookupCalls
    MaxSamples = 3
    MaxFaults = 0
    MaxSessions = 1
INVARIANTS
    ReadBackWhileWriting
    SampleTimes
    RenderingOffsets
    SyncAnswers
    TimeLookups
    ChunksFlushedWhenFull
PROPERTY ImplementsStore
CHECK_DEADLOCK FALSE
