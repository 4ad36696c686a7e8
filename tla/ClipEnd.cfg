SPECIFICATION EditSpec
CONSTANTS
    Durations <- SomeDurations
    MaxSamples = 2
    EditStarts <- SomeEditStarts
    EditDurations <- SomeEditDurations
    MaxEdits = 1
    TimeRange = 64
INVARIANT
    ClipComplete
CHECK_DEADLOCK FALSE
