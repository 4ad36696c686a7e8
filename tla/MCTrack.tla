------------------------------ MODULE MCTrack ------------------------------
(* Instances of Track for TLC: the values the configurations name. *)
EXTENDS TrackRefinement

LOCAL S(size, duration, offset, sync, mode) ==
    [size |-> size, duration |-> duration, offset |-> offset, sync |-> sync,
     mode |-> mode]

\* Samples for where the media goes: ones that fill a chunk of two time units
\* alone or together, of one and two bytes, AMR frames of two modes.
MediaSamples ==
    {S(2, 1, 0, TRUE, 0), S(1, 2, 0, TRUE, 0),
     S(2, 1, 0, TRUE, 1), S(2, 2, 0, TRUE, 2), S(1, 1, 0, TRUE, 2)}

\* Samples for what the tables say: sizes, one of them zero, durations, offsets
\* and sync flags that repeat and that change, and one with the duration given to
\* MP4AddTrack.
TableSamples ==
    {S(1, 1, 0, TRUE, 0), S(2, 1, 0, FALSE, 0), S(1, FIXED, 1, FALSE, 0),
     S(0, 2, 1, TRUE, 0)}

\* Constant bit rate samples, multiples of BytesPerSample = 2 bytes, none empty.
CbrSamples == {S(2, 1, 0, TRUE, 0), S(4, 1, 0, TRUE, 0), S(4, 2, 0, TRUE, 0)}

\* The calls of an application that changes chunking and reads what it just
\* wrote, of one that only looks up what is in chunks and corrects
\* rendering offsets, of one that reads what is still buffered, of one that sets
\* offsets of zero before there is a table, and of one that only writes.
ChunkingCalls == {"SetTrackDurationPerChunk", "ReadSample", "ReadBufferedSample"}
LookupCalls   == {"ReadSample", "LookUpSample", "SetSampleRenderingOffset"}
BufferedCalls == {"ReadSample", "ReadBufferedSample"}
CrashCalls    == {"SetSampleRenderingOffset", "CrashOnOffset"}
NoCalls       == {}
=============================================================================
