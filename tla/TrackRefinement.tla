-------------------------- MODULE TrackRefinement --------------------------
(***************************************************************************)
(* Track implements SampleStore: the log is what the tables of a track say *)
(* of its samples, read without caches, and a sample is stored when a      *)
(* reader of the file finds its bytes through the chunk tables.            *)
(***************************************************************************)
EXTENDS TrackProperties

\* The values a run-length table stands for, one a sample.
Values(runs) == FlattenSeq([r \in 1..Len(runs) |-> [i \in 1..runs[r].n |-> runs[r].v]])

\* The samples of a track as its tables describe them.
Described(t) ==
    LET spans == Values(stts[t])
        offsets    == Values(ctts[t].runs)
    IN  [k \in SampleIds(t) |->
           [size     |-> GetSampleSize(stsz[t], k, BytesPerSample),
            duration |-> spans[k],
            offset   |-> IF ctts[t].present THEN offsets[k] ELSE 0,
            sync     |-> stss[t].present => k \in Range(stss[t].ids)]]

\* What a sample a client writes may be in the log: the fixed duration is the
\* one given to MP4AddTrack, or that of the samples written so far.
StoreSamples ==
    [size : {s.size : s \in Samples},
     duration : ({s.duration : s \in Samples} \ {FIXED}) \cup {FixedDuration},
     offset : {s.offset : s \in Samples}, sync : BOOLEAN]

TableLog == [t \in Tracks |-> Described(t)]

\* What ReadBackFromFile asks of a sample.  (The singletons make TLC evaluate
\* each lookup once.)
FoundInFile(t, k) ==
    \E c \in {Reread(chunks[t])} :
        \E located \in {GetSampleFileOffset(c, stsz[t], NoLocation, k, BytesPerSample,
                                            Len(file.bytes))} : ReadsBack(t, k, located)

InFile == [t \in Tracks |-> {k \in SampleIds(t) : FoundInFile(t, k)}]

Store == INSTANCE SampleStore WITH
            StoreTracks <- Tracks,
            Samples <- StoreSamples,
            RenderingOffsetValues <- Offsets,
            log <- TableLog, stored <- InFile, closed <- (phase = "closed")

\* Every step of the tracks is a step of the store or changes nothing a
\* client can see: the tables, read afresh, always describe the samples
\* written so far, and chunks only ever add to what the file gives back.
ImplementsStore == Store!StoreSpec
=============================================================================
