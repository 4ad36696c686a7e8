SPECIFICATION Spec
CONSTANTS
    BufferSize = 12
    Immediates <- TheImmediates
    References <- TheReferences
    MediaLengths = {2}
    Config <- TheConfig
    Durations = {1, 3}
    TimeScale = 2
    MaxHints = 3
    MaxPackets = 2
    MaxEntries = 2
    MaxSessions = 2
INVARIANTS
    HintTypeOK
    PacketsReadBack
    BufferReturned
    HintStatistics
    MaxRate
CHECK_DEADLOCK FALSE
