---------------------------- MODULE SampleTables ----------------------------
(***************************************************************************)
(* The sample tables of an MP4 track, as MP4Track (src/src/mp4track.cpp)   *)
(* keeps them in memory: how one written sample extends each table, and    *)
(* how each table answers a question about a sample.  Everything here is a *)
(* pure operator; the state machine is in module Track.                    *)
(*                                                                         *)
(*   stsz  sample sizes:       [fixed, count, sizes]                       *)
(*   stts  sample durations:   runs of [n samples, value v]                *)
(*   ctts  rendering offsets:  [present, runs]                             *)
(*   stss  sync sample ids:    [present, ids]                              *)
(*   stsc  chunk shapes:       entries [firstChunk, samplesPerChunk,       *)
(*                             firstSample]                                *)
(*   stco  chunk offsets:      a sequence of file positions                *)
(*                                                                         *)
(* A C++ exception is the result THROWN.  Table indices are 1-based here   *)
(* and 0-based in the code.                                                *)
(*                                                                         *)
(* A comment "Mistake:" marks a variant of the operator below it, with an  *)
(* error one could make in that code.  No model uses these; a property is  *)
(* tested by putting the variant in the operator's place.                  *)
(***************************************************************************)
EXTENDS Integers, Sequences, SequencesExt, FiniteSetsExt

THROWN == -1                 \* the call ends with an Exception
FIXED  == -2                 \* the caller passes MP4_INVALID_DURATION
INVALID_SAMPLE_ID == 0

-----------------------------------------------------------------------------
(* stsz: sample sizes.                                                     *)

NoSizes == [fixed |-> 0, count |-> 0, sizes |-> << >>]

\* Mistake: the sizes of the samples before the first different one are lost.
UpdateSampleSizesForgetting(stsz, sampleId, numBytes, bytesPerSample) ==
    LET units == numBytes \div bytesPerSample
        fixed == units # 0 /\ (stsz.count = 0 \/ units = stsz.fixed)
    IN  [count |-> stsz.count + 1, fixed |-> IF fixed THEN units ELSE 0,
         sizes |-> IF fixed THEN stsz.sizes ELSE Append(stsz.sizes, units)]

\* MP4Track::UpdateSampleSizes: the first sample ever presumes one fixed size;
\* the first sample that differs turns the table into one entry per sample.
UpdateSampleSizes(stsz, sampleId, numBytes, bytesPerSample) ==
    LET units == numBytes \div bytesPerSample
        first == sampleId = 1 /\ stsz.count = 0
        earlier == IF stsz.fixed = 0 THEN stsz.sizes
                   ELSE stsz.sizes \o [i \in 1..stsz.count |-> stsz.fixed]
    IN  [count |-> stsz.count + 1,
         fixed |-> IF first \/ units = stsz.fixed THEN units ELSE 0,
         sizes |-> IF units # 0 /\ (first \/ units = stsz.fixed)
                   THEN stsz.sizes ELSE Append(earlier, units)]

\* MP4Track::GetSampleSize, for the 32-bit table.
GetSampleSize(stsz, sampleId, bytesPerSample) ==
    IF stsz.fixed # 0 THEN stsz.fixed * bytesPerSample
    ELSE IF sampleId \in 1..Len(stsz.sizes)
         THEN stsz.sizes[sampleId] * bytesPerSample
         ELSE THROWN

-----------------------------------------------------------------------------
(* stts and ctts: run-length tables with a lookup cache.                   *)

Run(n, v) == [n |-> n, v |-> v]

\* MP4Track::UpdateSampleTimes, and the tail of UpdateRenderingOffsets.
AppendRun(runs, v) ==
    IF runs # << >> /\ runs[Len(runs)].v = v
    THEN [runs EXCEPT ![Len(runs)] = Run(@.n + 1, v)]
    ELSE Append(runs, Run(1, v))

SamplesIn(runs, i, j) == SumFunctionOnSet([r \in DOMAIN runs |-> runs[r].n], i..j)
TimeIn(runs, i, j) ==
    SumFunctionOnSet([r \in DOMAIN runs |-> runs[r].n * runs[r].v], i..j)

\* A cache names the run found last, its first sample and (for stts) the time
\* before it; sid = INVALID_SAMPLE_ID says it holds nothing.
NoCache == [ix |-> 1, sid |-> INVALID_SAMPLE_ID, elapsed |-> 0]

FirstRun == [ix |-> 1, sid |-> 1, elapsed |-> 0]

\* Mistake: the lookup goes on from the cached run for earlier samples too.
StartAnyway(cache, sampleId) ==
    IF cache.sid # INVALID_SAMPLE_ID THEN cache ELSE FirstRun

\* The loop GetSampleTimes and GetSampleCttsIndex share: it starts at the
\* cached run when the sample is not before it, at the first run otherwise,
\* and stops at the first run that reaches sampleId.
Start(cache, sampleId) ==
    IF cache.sid # INVALID_SAMPLE_ID /\ sampleId >= cache.sid THEN cache
    ELSE FirstRun

FindRun(runs, cache, sampleId) ==
    LET start == Start(cache, sampleId)
        hits  == {r \in start.ix..Len(runs) :
                    sampleId <= start.sid + SamplesIn(runs, start.ix, r) - 1}
    IN  IF hits = {}
        THEN [found |-> FALSE, cache |-> [cache EXCEPT !.ix = start.ix]]
        ELSE LET hit == Min(hits)
             IN [found |-> TRUE,
                 cache |-> [ix  |-> hit,
                            sid |-> start.sid + SamplesIn(runs, start.ix, hit - 1),
                            elapsed |-> start.elapsed
                                        + TimeIn(runs, start.ix, hit - 1)]]

\* MP4Track::GetSampleTimes.
GetSampleTimes(stts, cache, sampleId) ==
    LET at == FindRun(stts, cache, sampleId)
    IN  IF ~at.found
        THEN [start |-> THROWN, duration |-> THROWN, cache |-> at.cache]
        ELSE [start    |-> (sampleId - at.cache.sid) * stts[at.cache.ix].v
                           + at.cache.elapsed,
              duration |-> stts[at.cache.ix].v,
              cache    |-> at.cache]

\* MP4Track::GetFixedSampleDuration; never called here once durations vary.
GetFixedSampleDuration(stts, fixedSampleDuration) ==
    IF stts = << >> THEN fixedSampleDuration ELSE stts[1].v

\* Mistake: a sync sample is not its own next one.
GetNextSyncSampleAfter(stss, sampleId) ==
    LET later == {i \in 1..Len(stss.ids) : sampleId < stss.ids[i]}
    IN  IF ~stss.present THEN sampleId
        ELSE IF later = {} THEN INVALID_SAMPLE_ID ELSE stss.ids[Min(later)]

\* MP4Track::GetNextSyncSample ("next" includes the sample itself).
GetNextSyncSample(stss, sampleId) ==
    LET later == {i \in 1..Len(stss.ids) : sampleId <= stss.ids[i]}
    IN  IF ~stss.present THEN sampleId
        ELSE IF later = {} THEN INVALID_SAMPLE_ID ELSE stss.ids[Min(later)]

\* MP4Track::GetSampleIdFromTime: the first run the time does not lie beyond.
GetSampleIdFromTime(stts, stss, when, wantSyncSample) ==
    LET into(r) == when - TimeIn(stts, 1, r - 1)
        hits == {r \in 1..Len(stts) : into(r) <= stts[r].n * stts[r].v}
        hit  == Min(hits)
        sampleId == SamplesIn(stts, 1, hit - 1) + 1
                    + (IF stts[hit].v = 0 THEN 0 ELSE into(hit) \div stts[hit].v)
    IN  IF hits = {} THEN THROWN
        ELSE IF wantSyncSample THEN GetNextSyncSample(stss, sampleId)
        ELSE sampleId

-----------------------------------------------------------------------------
(* ctts: rendering offsets.                                                *)

NoOffsets == [present |-> FALSE, runs |-> << >>]

\* Mistake: nothing is said of the samples before the first offset.
UpdateRenderingOffsetsFromHere(ctts, sampleId, offset) ==
    IF ~ctts.present /\ offset = 0 THEN ctts
    ELSE [present |-> TRUE, runs |-> AppendRun(ctts.runs, offset)]

\* MP4Track::UpdateRenderingOffsets: the table appears with the first offset
\* that is not zero, and then says zero for the samples before that one.
UpdateRenderingOffsets(ctts, sampleId, offset) ==
    LET earlier == IF ctts.present \/ sampleId <= 1 THEN ctts.runs
                   ELSE << Run(sampleId - 1, 0) >>
    IN  IF ~ctts.present /\ offset = 0 THEN ctts
        ELSE [present |-> TRUE, runs |-> AppendRun(earlier, offset)]

\* MP4Track::GetSampleRenderingOffset.
GetSampleRenderingOffset(ctts, cache, sampleId) ==
    LET at == FindRun(ctts.runs, cache, sampleId)
    IN  IF ~ctts.present \/ ctts.runs = << >>
        THEN [offset |-> 0, cache |-> cache]
        ELSE [offset |-> IF at.found THEN ctts.runs[at.cache.ix].v ELSE THROWN,
              cache  |-> at.cache]

\* Mistake: the samples after a split run's middle get the new offset as well.
SplitRunForGood(runs, ix, firstSampleId, sampleId, offset) ==
    LET old    == runs[ix]
        before == sampleId - firstSampleId
    IN  SubSeq(runs, 1, ix - 1)
        \o (IF before = 0 THEN << >> ELSE << Run(before, old.v) >>)
        \o << Run(old.n - before, offset) >> \o SubSeq(runs, ix + 1, Len(runs))

\* The three ways SetSampleRenderingOffset splits run ix around one sample.
SplitRun(runs, ix, firstSampleId, sampleId, offset) ==
    LET old  == runs[ix]
        last == firstSampleId + old.n - 1
        one  == Run(1, offset)
        pieces ==
          IF old.n = 1 THEN << one >>
          ELSE IF sampleId = firstSampleId THEN << one, Run(old.n - 1, old.v) >>
          ELSE IF sampleId = last THEN << Run(old.n - 1, old.v), one >>
          ELSE << Run(sampleId - firstSampleId, old.v), one,
                  Run(last - sampleId, old.v) >>
    IN  SubSeq(runs, 1, ix - 1) \o pieces \o SubSeq(runs, ix + 1, Len(runs))

\* MP4Track::SetSampleRenderingOffset on an existing sample.  Without a table
\* UpdateRenderingOffsets creates one, or, for offset zero, returns leaving
\* the property pointers NULL: the padding for the later samples then
\* dereferences them (crash).
SetSampleRenderingOffset(ctts, cache, sampleId, offset, count) ==
    LET new   == UpdateRenderingOffsets(ctts, sampleId, offset)
        after == count - sampleId
        at    == FindRun(ctts.runs, cache, sampleId)
    IN  IF ~ctts.present \/ ctts.runs = << >>
        THEN [cache |-> cache, crash |-> after # 0 /\ ~new.present,
              ctts  |-> IF after # 0 /\ new.present
                        THEN [new EXCEPT !.runs = Append(@, Run(after, 0))]
                        ELSE new]
        ELSE [cache |-> at.cache, crash |-> FALSE,
              ctts  |-> IF ~at.found \/ ctts.runs[at.cache.ix].v = offset
                        THEN ctts
                        ELSE [ctts EXCEPT !.runs =
                                SplitRun(@, at.cache.ix, at.cache.sid,
                                         sampleId, offset)]]

-----------------------------------------------------------------------------
(* stss: sync samples.                                                     *)

AllSync == [present |-> FALSE, ids |-> << >>]

\* Mistake: the new table also lists the sample that is not a sync sample.
UpdateSyncSamplesAndThis(stss, sampleId, isSyncSample, count) ==
    IF stss.present
    THEN IF isSyncSample THEN [stss EXCEPT !.ids = Append(@, sampleId)] ELSE stss
    ELSE IF isSyncSample THEN stss
         ELSE [present |-> TRUE, ids |-> [i \in 1..count |-> i]]

\* MP4Track::UpdateSyncSamples, called after the sample has been counted: the
\* table appears with the first sample that is not a sync sample, listing all
\* samples before it.
UpdateSyncSamples(stss, sampleId, isSyncSample, count) ==
    IF stss.present
    THEN IF isSyncSample THEN [stss EXCEPT !.ids = Append(@, sampleId)] ELSE stss
    ELSE IF isSyncSample THEN stss
         ELSE [present |-> TRUE, ids |-> [i \in 1..(count - 1) |-> i]]

\* MP4Track::IsSyncSample, a binary search on unsigned indices: the left half
\* of a probe at the first entry ends at 0 - 1 = UINT32_MAX, and the next
\* probe, in the middle of that range, is past the table and throws.
IsSyncSample(stss, sampleId) ==
    LET n == Len(stss.ids)
        search[range \in (0..n) \X (-1..(n - 1))] ==
          LET l == range[1]
              r == range[2]
              mid == (l + r) \div 2
          IN  IF r = -1 THEN "thrown"
              ELSE IF r < l THEN "no"
              ELSE IF stss.ids[mid + 1] = sampleId THEN "yes"
              ELSE IF l = r THEN "no"
              ELSE IF sampleId > stss.ids[mid + 1] THEN search[<< mid + 1, r >>]
              ELSE search[<< l, mid - 1 >>]
    IN  IF ~stss.present THEN "yes"
        ELSE IF n = 0 THEN "no" ELSE search[<< 0, n - 1 >>]

-----------------------------------------------------------------------------
(* stsc and stco: where samples are.                                       *)

\* Mistake: chunks are counted from 0.
UpdateSampleToChunkFromZero(stsc, sampleId, chunkId, samplesPerChunk) ==
    IF stsc # << >> /\ stsc[Len(stsc)].samplesPerChunk = samplesPerChunk
    THEN stsc
    ELSE Append(stsc, [firstChunk |-> chunkId - 1, samplesPerChunk |-> samplesPerChunk,
                       firstSample |-> sampleId - samplesPerChunk + 1])

\* Mistake: only a chunk with fewer samples than the last one gets an entry.
UpdateSampleToChunkIfFewer(stsc, sampleId, chunkId, samplesPerChunk) ==
    IF stsc # << >> /\ stsc[Len(stsc)].samplesPerChunk <= samplesPerChunk
    THEN stsc
    ELSE Append(stsc, [firstChunk |-> chunkId, samplesPerChunk |-> samplesPerChunk,
                       firstSample |-> sampleId - samplesPerChunk + 1])

\* MP4Track::UpdateSampleToChunk, called with the id of the sample being
\* written: an entry is added only when the number of samples changes.
UpdateSampleToChunk(stsc, sampleId, chunkId, samplesPerChunk) ==
    IF stsc # << >> /\ stsc[Len(stsc)].samplesPerChunk = samplesPerChunk
    THEN stsc
    ELSE Append(stsc, [firstChunk |-> chunkId, samplesPerChunk |-> samplesPerChunk,
                       firstSample |-> sampleId - samplesPerChunk + 1])

\* Mistake: an entry's chunks are counted as one sample each.
ReadStscByChunks(stsc) ==
    [i \in 1..Len(stsc) |-> [stsc[i] EXCEPT !.firstSample = stsc[i].firstChunk]]

\* MP4StscAtom::Read: firstSample is not in the file, reading recomputes it.
ReadStsc(stsc) ==
    LET samplesOf == [j \in 1..(Len(stsc) - 1) |->
                        (stsc[j + 1].firstChunk - stsc[j].firstChunk)
                        * stsc[j].samplesPerChunk]
    IN  [i \in 1..Len(stsc) |->
            [stsc[i] EXCEPT !.firstSample =
                1 + SumFunctionOnSet(samplesOf, 1..(i - 1))]]

\* MP4Track::GetSampleStscIndex: the entry before the first that starts later.
GetSampleStscIndex(stsc, sampleId) ==
    LET later == {i \in 1..Len(stsc) : sampleId < stsc[i].firstSample}
    IN  IF stsc = << >> \/ 1 \in later THEN THROWN
        ELSE IF later = {} THEN Len(stsc) ELSE Min(later) - 1

\* The cache of GetSampleFileOffset: the sample located last, its chunk and
\* its offset in the chunk; chunk 0 is MP4_INVALID_CHUNK_ID.
NoLocation == [chunk |-> 0, sid |-> INVALID_SAMPLE_ID, offset |-> 0]

\* Mistake: the location helps to find earlier samples of the chunk, too.
LocatedSameChunk(cache, chunk, sampleId) == chunk = cache.chunk

LocatedBefore(cache, chunk, sampleId) ==
    chunk = cache.chunk /\ sampleId >= cache.sid

\* MP4Track::GetSampleFileOffset.  The cache is updated before the offset is
\* compared with the file size.
GetSampleFileOffset(chunks, stsz, cache, sampleId, bytesPerSample, fileSize) ==
    LET index == GetSampleStscIndex(chunks.stsc, sampleId)
        entry == chunks.stsc[index]
        nth   == sampleId - entry.firstSample
        chunk == entry.firstChunk + nth \div entry.samplesPerChunk
        hit   == LocatedBefore(cache, chunk, sampleId)
        from  == IF hit THEN cache.sid
                 ELSE sampleId - (nth % entry.samplesPerChunk)
        size(s) == GetSampleSize(stsz, s, bytesPerSample)
        offset  == (IF hit THEN cache.offset ELSE 0)
                   + SumFunction([s \in from..(sampleId - 1) |-> size(s)])
        at == chunks.stco[chunk] + offset
        failed == [at |-> THROWN, cache |-> cache]
    IN  IF index = THROWN THEN failed
        ELSE IF chunk \notin 1..Len(chunks.stco) THEN failed
        ELSE IF \E s \in from..(sampleId - 1) : size(s) = THROWN THEN failed
        ELSE [at    |-> IF at > fileSize THEN THROWN ELSE at,
              cache |-> [chunk |-> chunk, sid |-> sampleId, offset |-> offset]]
=============================================================================
