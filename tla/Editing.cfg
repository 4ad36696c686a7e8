SPECIFICATION EditSpec
CONSTANTS
    Durations <- SomeDurations
    MaxSamples = 3
    EditStarts <- SomeEditStarts
    EditDurations <- SomeEditDurations
    MaxEdits = 2
    TimeRange = 64
INVARIANTS
    EditTypeOK
    EditTimeAnswers
    CopyFollowsEdits
PROPERTY
    CopyEnds
CHECK_DEADLOCK FALSE
