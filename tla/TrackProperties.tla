-------------------------- MODULE TrackProperties --------------------------
(* What must hold of the tracks of module Track. *)
EXTENDS Track

RunType   == [n : Nat, v : Nat]
CacheType == [ix : Nat \ {0}, sid : Nat, elapsed : Nat]
SampleType ==
    [size : Nat, duration : Nat, offset : Nat, sync : BOOLEAN, mode : Nat]

\* The types of the file and of what each track has put in it.
MediaType ==
    /\ file \in [bytes : Seq(Byte), pos : Nat] /\ file.pos <= Len(file.bytes)
    /\ mdatAt \in Nat
    /\ DOMAIN chunks = Tracks /\ \A t \in Tracks : chunks[t].stco \in Seq(Nat)
    /\ buffer \in [Tracks -> [bytes : Seq(Byte), samples : Nat, duration : Nat]]
    /\ flushed \in [Tracks -> Seq(Seq(Byte))]

\* The types of the tables writing fills, and of the rest of the state.
WriterType ==
    /\ stsz \in [Tracks -> [fixed : Nat, count : Nat, sizes : Seq(Nat)]]
    /\ stts \in [Tracks -> Seq(RunType)]
    /\ stss \in [Tracks -> [present : BOOLEAN, ids : Seq(Nat \ {0})]]
    /\ hist \in [Tracks -> Seq(SampleType)]
    /\ writeId \in [Tracks -> Nat \ {0}] /\ perChunk \in [Tracks -> Nat]
    /\ curMode \in [Tracks -> Nat \cup {NoMode}]
    /\ mediaDuration \in [Tracks -> Nat] /\ trackDuration \in [Tracks -> Nat]
    /\ movieDuration \in Nat
    /\ phase \in {"open", "finishing", "closed", "failed", "crashed"}
    /\ next \in 1..(NumTracks + 1)
    /\ session \in 1..MaxSessions /\ faults \in 0..MaxFaults

StateType == MediaType /\ WriterType

\* The types of what lookups compute with sums over the tables: caches, the
\* runs SetSampleRenderingOffset splits, the firstSample fields read back.
LookupType ==
    /\ ctts \in [Tracks -> [present : BOOLEAN, runs : Seq(RunType)]]
    /\ chunks \in [Tracks -> [stsc : Seq([firstChunk : Nat \ {0},
                                          samplesPerChunk : Nat \ {0},
                                          firstSample : Int]),
                              stco : Seq(Nat)]]
    /\ cache \in [Tracks -> [stts : CacheType, ctts : CacheType,
                             sfo : [chunk : Nat, sid : Nat, offset : Nat]]]

\* The type of every variable.
TypeOK == StateType /\ LookupType

-----------------------------------------------------------------------------
(* Where the media is.                                                     *)

\* Every chunk a track ever flushed still holds, at the offset stco gives,
\* the bytes it was flushed with: flushes of other tracks, failed and repeated
\* writes, reads that move the file position, MP4Close writing moov and
\* MP4Modify writing over moov leave it alone (WriteChunkBuffer,
\* mp4track.cpp:498; Modify, mp4file.cpp:169).
ChunksIntact ==
    \A t \in Tracks :
        /\ Len(flushed[t]) = Len(chunks[t].stco)
        /\ \A c \in 1..Len(flushed[t]) :
             LET at == chunks[t].stco[c] IN
             /\ at + Len(flushed[t][c]) <= Len(file.bytes)
             /\ \A i \in 1..Len(flushed[t][c]) :
                  file.bytes[at + i] = flushed[t][c][i]

Contents(t) == FlattenSeq([k \in 1..Len(hist[t]) |-> Payload(t, k, hist[t][k].size)])

\* Chunk by chunk, and then in the buffer, a track holds the bytes of its
\* samples: each once and in order, whatever flushes failed half way and were
\* made again (WriteChunkBuffer keeps the buffer when WriteBytes throws).
MediaInOrder ==
    \A t \in Tracks : FlattenSeq(flushed[t]) \o buffer[t].bytes = Contents(t)

\* The ids of the samples a track has handed to a chunk.
InChunks(t) == 1..(Len(hist[t]) - buffer[t].samples)

ReadsBack(t, k, located) ==
    /\ Readable(file, stsz[t], located.at, k)
    /\ BytesAt(file, stsz[t], located.at, k) = Payload(t, k, hist[t][k].size)

\* Whoever reads the file from its moov box finds the bytes of every sample
\* that is in a chunk, through stsc with firstSample recomputed, stco and
\* stsz (MP4StscAtom::Read, atom_stsc.cpp:58; GetSampleFileOffset).
ReadBackFromFile ==
    \A t \in Tracks : \A k \in InChunks(t) :
        ReadsBack(t, k, GetSampleFileOffset(Reread(chunks[t]), stsz[t], NoLocation, k,
                                            BytesPerSample, Len(file.bytes)))

\* The writer itself reads the same bytes through its own tables and the
\* cache earlier reads left (GetSampleFileOffset, mp4track.cpp:999).  ReadSample
\* is documented to read "the specified sample from the specified track"
\* (sample.h:52).
ReadBackWhileWriting ==
    phase = "open" =>
        \A t \in Tracks : \A k \in InChunks(t) :
            ReadsBack(t, k, Locate(Media(t), t, k))

\* A closed file has all its media in chunks (MP4File::FinishWrite flushes
\* every track's buffer, mp4file.cpp:588).
ClosedHoldsAll ==
    phase = "closed" => \A t \in Tracks : FlattenSeq(flushed[t]) = Contents(t)

\* The frames of one chunk of an AMR track have one mode (WriteSample flushes
\* before the mode changes, mp4track.cpp:445).
OneModePerChunk ==
    \A t \in AmrTracks : \A c \in 1..Len(flushed[t]) :
        \A b1, b2 \in Range(flushed[t][c]) :
            hist[t][b1[2]].mode = hist[t][b2[2]].mode

\* The size table answers with the size of every sample in whole units, while
\* it holds one fixed size and after it has turned into one entry a sample, in
\* later sessions and also for samples whose flush failed (UpdateSampleSizes,
\* GetSampleSize).
SampleSizes ==
    \A t \in Tracks :
        /\ stsz[t].count = Len(hist[t])
        /\ \A k \in 1..Len(hist[t]) :
              GetSampleSize(stsz[t], k, BytesPerSample) =
                  (hist[t][k].size \div BytesPerSample) * BytesPerSample

-----------------------------------------------------------------------------
(* What lookups answer, whatever earlier lookups left in the caches.       *)

DurationsOf(t) == [j \in DOMAIN hist[t] |-> hist[t][j].duration]

TimeBefore(t, k) == SumFunctionOnSet(DurationsOf(t), 1..(k - 1))

\* GetSampleTimes gives each sample the sum of the durations before it and
\* its own duration.
SampleTimes ==
    \A t \in Tracks : \A k \in 1..Len(hist[t]) :
        LET got == GetSampleTimes(stts[t], cache[t].stts, k)
        IN  got.start = TimeBefore(t, k) /\ got.duration = hist[t][k].duration

\* GetSampleRenderingOffset gives the offset written or set last, although
\* SetSampleRenderingOffset splits the runs under the cache.
RenderingOffsets ==
    \A t \in Tracks : \A k \in 1..Len(hist[t]) :
        GetSampleRenderingOffset(ctts[t], cache[t].ctts, k).offset
            = hist[t][k].offset

\* IsSyncSample, when it answers, answers with the flag the sample was
\* written with.
SyncAnswers ==
    \A t \in Tracks : \A k \in 1..Len(hist[t]) :
        IsSyncSample(stss[t], k)
            \in {IF hist[t][k].sync THEN "yes" ELSE "no", "thrown"}

\* MP4GetSampleSync returns "1 when true, 0 when false" (sample.h:598) for
\* every sample of the track.
SyncIsAnswered ==
    \A t \in Tracks : \A k \in 1..Len(hist[t]) : IsSyncSample(stss[t], k) # "thrown"

\* GetSampleIdFromTime finds, for a time before the end of the track, a
\* sample that time lies in; wanting a sync sample, the first one from there
\* on, or none.
TimeLookups ==
    \A t \in Tracks :
        \A when \in 0..(TimeBefore(t, Len(hist[t]) + 1) - 1) :
            LET k == GetSampleIdFromTime(stts[t], stss[t], when, FALSE)
                s == GetSampleIdFromTime(stts[t], stss[t], when, TRUE)
                syncs == {j \in k..Len(hist[t]) : hist[t][j].sync}
            IN  /\ k \in 1..Len(hist[t])
                /\ TimeBefore(t, k) <= when /\ when <= TimeBefore(t, k + 1)
                /\ s = IF syncs = {} THEN INVALID_SAMPLE_ID ELSE Min(syncs)

\* SetSampleRenderingOffset returns "true on success, false on failure"
\* (sample.h:576): it returns.
NoCrash == phase # "crashed"

-----------------------------------------------------------------------------
(* Durations.                                                              *)

\* The duration table counts every sample, and says how long they last
\* together, also those whose flush failed; unless one did or a chunk limit of
\* zero stopped one, the media duration of the track is the same, in later
\* sessions too (UpdateSampleTimes and UpdateDurations, mp4track.cpp:1199 and
\* 1534).
DurationsAddUp ==
    \A t \in Tracks :
        LET all == TimeBefore(t, Len(hist[t]) + 1)
        IN  /\ SamplesIn(stts[t], 1, Len(stts[t])) = Len(hist[t])
            /\ TimeIn(stts[t], 1, Len(stts[t])) = all
            /\ faults = 0 /\ 0 \notin ChunkDurations => mediaDuration[t] = all

\* The movie lasts as long as its longest track: it is only ever made longer,
\* by whichever track is written, failed calls and later sessions included
\* (MP4File::UpdateDuration, mp4file.cpp:695).
MovieIsLongest == movieDuration = Max({trackDuration[t] : t \in Tracks})

\* A chunk is flushed by the sample that fills it: without its last sample
\* its duration stays under the limit (IsChunkFull, mp4track.cpp:622).
ChunksFlushedWhenFull ==
    \A t \in Tracks : \A c \in 1..Len(flushed[t]) :
        LET ids == {b[2] : b \in Range(flushed[t][c])}
        IN  SumFunctionOnSet(DurationsOf(t), ids \ {Max(ids)}) < TimeScale
=============================================================================
