CONSTANTS
    HeaderLen = 2
    FreeRoom = 2
    MaxTrackId = 3
    DurationRange = 16
    Clients <- TestClients
    ChapterLists <- TestLists
    MaxSamples = 5
SPECIFICATION Spec
INVARIANTS MovieTypeOK ClosedWhole MoovNeverLies RootMatchesDisk ReadsOldOrNew NamesReachOwnTrak ReferencesExist  TagsReadBack OtherItemsStay
CHECK_DEADLOCK FALSE
