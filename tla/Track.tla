------------------------------- MODULE Track -------------------------------
(***************************************************************************)
(* The tracks of one MP4 file being written: every MP4Track appends its    *)
(* samples to a chunk buffer of its own, and the buffers are flushed as    *)
(* chunks to the one file position all tracks share.  The tables of module *)
(* SampleTables grow with each sample and with each chunk.                 *)
(*                                                                         *)
(* One action per call of the API that changes state (MP4Track and the     *)
(* parts of MP4File around it), each an atomic step: the library is        *)
(* single-threaded.  A call whose file write fails is an action of its     *)
(* own, since the exception leaves the call half done.  MP4Close is a      *)
(* sequence of steps, one per track, because it may fail at each.          *)
(*                                                                         *)
(* "Mistake:" marks the variants no model uses, as in SampleTables.        *)
(***************************************************************************)
EXTENDS SampleTables

CONSTANTS
    NumTracks,        \* tracks are numbered as in MP4File::m_pTracks, from 1
    Samples,          \* what clients write: [size, duration, offset, sync, mode]
    Offsets,          \* values given to MP4SetSampleRenderingOffset
    AmrTracks,        \* tracks with a samr or sawb entry; their samples have the
                      \* mode of an AMR frame, those of other tracks mode 0
    TimeScale, MovieTimeScale,   \* mdhd.timeScale and mvhd.timeScale
    FixedDuration,    \* sampleDuration given to MP4AddTrack, 0 if none
    ChunkDurations,   \* values given to MP4SetTrackDurationPerChunk
    BytesPerSample,   \* m_bytesPerSample: 1, or more for QuickTime CBR audio
    FtypLen, MdatHeaderLen, MoovLen,   \* lengths of what is around the media: ftyp
                      \* and its free box, an mdat header, all boxes after mdat
    Calls,            \* the optional calls this instance makes
    MaxSamples, MaxFaults, MaxSessions \* bounds: samples of all tracks, failed
                                       \* writes, MP4Create plus MP4Modify

Tracks == 1..NumTracks

ASSUME CountsAssumption ==
    /\ NumTracks \in Nat \ {0}
    /\ MaxSamples \in Nat /\ MaxFaults \in Nat /\ MaxSessions \in Nat \ {0}
ASSUME SampleAssumption ==
    /\ Samples \subseteq [size : Nat, duration : Nat \cup {FIXED}, offset : Nat,
                           sync : BOOLEAN, mode : Nat]
    /\ \A s \in Samples : s.mode # 0 => s.size # 0
    /\ Offsets \subseteq Nat /\ ChunkDurations \subseteq Nat /\ FixedDuration \in Nat
ASSUME TrackAssumption ==
    /\ AmrTracks \subseteq Tracks
    /\ TimeScale \in Nat \ {0} /\ MovieTimeScale \in Nat
    /\ BytesPerSample \in Nat \ {0}
ASSUME BoxAssumption ==
    FtypLen \in Nat /\ MdatHeaderLen \in Nat /\ MoovLen \in Nat

VARIABLES
    file,       \* [bytes, pos]: content and position of m_file
    mdatAt,     \* where the mdat box being written starts
    stsz, stts, ctts, stss,     \* sample tables, one of each a track
    chunks,     \* [stsc, stco] a track
    buffer,     \* [bytes, samples, duration] a track: m_pChunkBuffer,
                \* m_chunkSamples, m_chunkDuration
    writeId,    \* m_writeSampleId
    perChunk,   \* m_durationPerChunk
    curMode,    \* m_curMode, NoMode until the first AMR frame
    mediaDuration, trackDuration, movieDuration,
    cache,      \* [stts, ctts, sfo]: what the last lookups left behind
    phase,      \* "open", "finishing", "closed", "failed" or "crashed"
    next,       \* the track MP4File::FinishWrite flushes next
    session,    \* 1 after MP4Create, one more after each MP4Modify
    faults,     \* failed writes so far
    hist,       \* history: the samples written to each track
    flushed     \* history: the bytes of each chunk, as they were flushed

tables    == << stsz, stts, ctts, stss >>
durations == << mediaDuration, trackDuration, movieDuration >>
writer    == << writeId, perChunk, curMode >>
call      == << phase, next, session >>
vars == << file, mdatAt, tables, chunks, buffer, writer, durations, cache,
           call, faults, hist, flushed >>

-----------------------------------------------------------------------------
(* Bytes, samples and the file.                                            *)

NoMode == -1
Byte   == Nat \X Nat \X Nat   \* <<track, sample, index>>
BOX    == << 0, 0, 0 >>       \* a byte of some box, not of a sample
Box(n) == [i \in 1..n |-> BOX]

Payload(t, k, size) == [i \in 1..size |-> << t, k, i >>]

EmptyBuffer == [bytes |-> << >>, samples |-> 0, duration |-> 0]
NoLookups   == [stts |-> NoCache, ctts |-> NoCache, sfo |-> NoLocation]

\* MP4File::WriteBytes: data replaces or extends the content at the position.
WriteBytes(f, data) ==
    LET end == f.pos + Len(data)
    IN  [pos |-> end,
         bytes |-> [i \in 1..(IF end > Len(f.bytes) THEN end ELSE Len(f.bytes)) |->
                      IF i > f.pos /\ i <= end THEN data[i - f.pos]
                      ELSE f.bytes[i]]]

\* The state one track's chunk flush works on, and the flush itself:
\* MP4Track::WriteChunkBuffer.
Media(t) == [file |-> file, chunks |-> chunks[t], buffer |-> buffer[t],
             flushed |-> flushed[t]]

WriteChunkBuffer(m, sampleId) ==
    IF m.buffer.bytes = << >> THEN m
    ELSE [file   |-> WriteBytes(m.file, m.buffer.bytes),
          chunks |-> [stsc |-> UpdateSampleToChunk(m.chunks.stsc, sampleId,
                                  Len(m.chunks.stco) + 1, m.buffer.samples),
                      stco |-> Append(m.chunks.stco, m.file.pos)],
          buffer |-> EmptyBuffer,
          flushed |-> Append(m.flushed, m.buffer.bytes)]

\* Mistake: the buffer counts as flushed although its write failed.
WriteChunkBufferFailsEmpty(m, k) ==
    [m EXCEPT !.file = WriteBytes(@, SubSeq(m.buffer.bytes, 1, k)),
              !.buffer = EmptyBuffer]

\* A flush whose write stores k bytes of the buffer and fails; k = 0 is a
\* write that fails altogether.  WriteBytes throws, nothing else is done.
WriteChunkBufferFails(m, k) ==
    [m EXCEPT !.file = WriteBytes(@, SubSeq(m.buffer.bytes, 1, k))]

SetMedia(t, m) ==
    /\ file'    = m.file
    /\ chunks'  = [chunks EXCEPT ![t] = m.chunks]
    /\ buffer'  = [buffer EXCEPT ![t] = m.buffer]
    /\ flushed' = [flushed EXCEPT ![t] = m.flushed]

WriteFault == faults < MaxFaults /\ faults' = faults + 1

-----------------------------------------------------------------------------
(* MP4File::Create, with its tracks added.                                 *)

Init ==
    /\ file = [bytes |-> Box(FtypLen + MdatHeaderLen),
               pos |-> FtypLen + MdatHeaderLen]
    /\ mdatAt = FtypLen
    /\ stsz = [t \in Tracks |-> NoSizes]
    /\ stts = [t \in Tracks |-> << >>]
    /\ ctts = [t \in Tracks |-> NoOffsets]
    /\ stss = [t \in Tracks |-> AllSync]
    /\ chunks = [t \in Tracks |-> [stsc |-> << >>, stco |-> << >>]]
    /\ buffer = [t \in Tracks |-> EmptyBuffer]
    /\ writeId = [t \in Tracks |-> 1]
    /\ perChunk = [t \in Tracks |-> TimeScale]
    /\ curMode = [t \in Tracks |-> NoMode]
    /\ mediaDuration = [t \in Tracks |-> 0]
    /\ trackDuration = [t \in Tracks |-> 0]
    /\ movieDuration = 0
    /\ cache = [t \in Tracks |-> NoLookups]
    /\ phase = "open" /\ next = 1 /\ session = 1 /\ faults = 0
    /\ hist = [t \in Tracks |-> << >>]
    /\ flushed = [t \in Tracks |-> << >>]

-----------------------------------------------------------------------------
(* MP4Track::WriteSample.                                                  *)

\* The samples a client may write: MP4_INVALID_DURATION stands for the fixed
\* duration, allowed "if all samples in the track have the same duration".
Written(t) ==
    {s \in Samples : /\ s.duration = FIXED => Len(stts[t]) <= 1
                     /\ s.mode # 0 <=> t \in AmrTracks}

Duration(t, s) ==
    IF s.duration = FIXED
    THEN GetFixedSampleDuration(stts[t], IF session = 1 THEN FixedDuration ELSE 0)
    ELSE s.duration

\* AMR tracks keep frames of one mode in a chunk.
ModeChanges(t, s) == t \in AmrTracks /\ curMode[t] \notin {NoMode, s.mode}

\* Mistake: a frame of another mode joins the chunk.
NotModeFlushed(t, s) == Media(t)

\* The buffer with the sample appended, after the flush a mode change forces.
ModeFlushed(t, s) ==
    IF ModeChanges(t, s) THEN WriteChunkBuffer(Media(t), writeId[t])
    ELSE Media(t)

Buffered(t, s) ==
    LET m == ModeFlushed(t, s)
    IN  [m EXCEPT !.buffer =
          [bytes    |-> m.buffer.bytes \o Payload(t, Len(hist[t]) + 1, s.size),
           samples  |-> m.buffer.samples + 1,
           duration |-> m.buffer.duration + Duration(t, s)]]

\* Mistake: a chunk is full beyond its limit, not at it.
IsChunkOverfull(b, limit) == b.duration > limit

\* MP4Track::IsChunkFull (m_samplesPerChunk is never set); a limit of zero
\* fails its assertion.
IsChunkFull(b, limit) == b.duration >= limit

\* The table updates of WriteSample, all done before IsChunkFull is asked.
RecordSample(t, s) ==
    /\ stsz' = [stsz EXCEPT ![t] =
                  UpdateSampleSizes(@, writeId[t], s.size, BytesPerSample)]
    /\ stts' = [stts EXCEPT ![t] = AppendRun(@, Duration(t, s))]
    /\ ctts' = [ctts EXCEPT ![t] =
                  UpdateRenderingOffsets(@, writeId[t], s.offset)]
    /\ stss' = [stss EXCEPT ![t] =
                  UpdateSyncSamples(@, writeId[t], s.sync, stsz[t].count + 1)]
    /\ hist' = [hist EXCEPT ![t] = Append(@, [s EXCEPT !.duration = Duration(t, s)])]

\* Mistake: the sum so far is taken from the wrong time scale.
UpdateDurationsMixing(t, duration) ==
    LET media == trackDuration[t] + duration
        movie == (media * MovieTimeScale) \div TimeScale
    IN  /\ mediaDuration' = [mediaDuration EXCEPT ![t] = media]
        /\ trackDuration' = [trackDuration EXCEPT ![t] = movie]
        /\ movieDuration' = IF movie > movieDuration THEN movie ELSE movieDuration

\* Mistake: the movie lasts as long as the track written last.
UpdateDurationsOfLast(t, duration) ==
    LET media == mediaDuration[t] + duration
        movie == (media * MovieTimeScale) \div TimeScale
    IN  /\ mediaDuration' = [mediaDuration EXCEPT ![t] = media]
        /\ trackDuration' = [trackDuration EXCEPT ![t] = movie]
        /\ movieDuration' = movie

\* MP4Track::UpdateDurations and MP4File::UpdateDuration.
UpdateDurations(t, duration) ==
    LET media == mediaDuration[t] + duration
        movie == (media * MovieTimeScale) \div TimeScale
    IN  /\ mediaDuration' = [mediaDuration EXCEPT ![t] = media]
        /\ trackDuration' = [trackDuration EXCEPT ![t] = movie]
        /\ movieDuration' = IF movie > movieDuration THEN movie ELSE movieDuration

SamplesWritten == MapThenSumSet(LAMBDA t : Len(hist[t]), Tracks)

CanWrite == phase = "open" /\ SamplesWritten < MaxSamples

WriteSample(t, s) ==
    LET b == Buffered(t, s)
    IN  /\ CanWrite
        /\ perChunk[t] # 0
        /\ RecordSample(t, s)
        /\ SetMedia(t, IF IsChunkFull(b.buffer, perChunk[t])
                       THEN WriteChunkBuffer(b, writeId[t]) ELSE b)
        /\ curMode' = [curMode EXCEPT ![t] = IF t \in AmrTracks THEN s.mode ELSE @]
        /\ UpdateDurations(t, Duration(t, s))
        /\ writeId' = [writeId EXCEPT ![t] = @ + 1]
        /\ UNCHANGED << mdatAt, perChunk, cache, call, faults >>

\* The same call ending in an exception at IsChunkFull's assertion, or in the
\* flush of the full chunk: the sample is in the tables and in the buffer,
\* but m_writeSampleId and the durations do not count it.
WriteSampleThrows(t, s) ==
    LET b == Buffered(t, s)
    IN  /\ CanWrite
        /\ RecordSample(t, s)
        /\ \/ perChunk[t] = 0 /\ SetMedia(t, b) /\ UNCHANGED faults
           \/ /\ perChunk[t] # 0 /\ IsChunkFull(b.buffer, perChunk[t])
              /\ \E k \in 0..(Len(b.buffer.bytes) - 1) :
                    SetMedia(t, WriteChunkBufferFails(b, k))
              /\ WriteFault
        /\ curMode' = [curMode EXCEPT ![t] = IF t \in AmrTracks THEN s.mode ELSE @]
        /\ UNCHANGED << mdatAt, writeId, perChunk, durations, cache, call >>

\* The flush that precedes an AMR mode change fails: the sample is dropped.
ModeFlushThrows(t, s) ==
    /\ CanWrite /\ ModeChanges(t, s)
    /\ \E k \in 0..(Len(buffer[t].bytes) - 1) :
          SetMedia(t, WriteChunkBufferFails(Media(t), k))
    /\ WriteFault
    /\ UNCHANGED << mdatAt, tables, writer, durations, cache, call, hist >>

\* MP4File::SetTrackDurationPerChunk.
SetDurationPerChunk(t, d) ==
    /\ phase = "open" /\ "SetTrackDurationPerChunk" \in Calls
    /\ perChunk' = [perChunk EXCEPT ![t] = d]
    /\ UNCHANGED << file, mdatAt, tables, chunks, buffer, writeId, curMode,
                    durations, cache, call, faults, hist, flushed >>

-----------------------------------------------------------------------------
(* Reading back while the file is open for writing.                        *)

SampleIds(t) == 1..stsz[t].count

\* The unsigned comparison of ReadSample: more buffered samples than ids
\* wraps around, and no sample counts as buffered.
IsBuffered(t, sampleId) ==
    /\ writeId[t] >= buffer[t].samples
    /\ sampleId >= writeId[t] - buffer[t].samples

\* Where ReadSample finds a sample in media m.
Locate(m, t, sampleId) ==
    GetSampleFileOffset(m.chunks, stsz[t], cache[t].sfo, sampleId,
                        BytesPerSample, Len(m.file.bytes))

\* Whether ReadSample can read that many bytes there, and the bytes.
Readable(f, sizes, at, sampleId) ==
    LET size == GetSampleSize(sizes, sampleId, BytesPerSample)
    IN  at # THROWN /\ size # THROWN /\ at + size <= Len(f.bytes)

BytesAt(f, sizes, at, sampleId) ==
    SubSeq(f.bytes, at + 1, at + GetSampleSize(sizes, sampleId, BytesPerSample))

\* The media ReadSample works on: it flushes a sample still in the buffer.
ReadMedia(t, sampleId) ==
    IF IsBuffered(t, sampleId) THEN WriteChunkBuffer(Media(t), writeId[t])
    ELSE Media(t)

\* Mistake: the position stays where reading ended.
PositionAfterReading(f, readTo) == [f EXCEPT !.pos = readTo]

\* After reading, the position goes back to where the next chunk is due.
RestorePosition(f, readTo) == f

\* MP4Track::ReadSample with all its optional results asked for: the lookups
\* run in the order offset, times, rendering offset, and an exception of one
\* keeps the rest from running.
ReadSample(t, sampleId) ==
    LET m     == ReadMedia(t, sampleId)
        loc   == Locate(m, t, sampleId)
        times == GetSampleTimes(stts[t], cache[t].stts, sampleId)
        off   == GetSampleRenderingOffset(ctts[t], cache[t].ctts, sampleId)
        read  == Readable(m.file, stsz[t], loc.at, sampleId)
        end   == loc.at + GetSampleSize(stsz[t], sampleId, BytesPerSample)
    IN  /\ phase = "open" /\ "ReadSample" \in Calls
        /\ IsBuffered(t, sampleId) => "ReadBufferedSample" \in Calls
        /\ SetMedia(t, IF read
                       THEN [m EXCEPT !.file = RestorePosition(@, end)]
                       ELSE m)
        /\ cache' = [cache EXCEPT ![t] =
              [sfo  |-> loc.cache,
               stts |-> IF read THEN times.cache ELSE @.stts,
               ctts |-> IF read /\ times.start # THROWN THEN off.cache
                        ELSE @.ctts]]
        /\ UNCHANGED << mdatAt, tables, writer, durations, call, faults, hist >>

\* The flush of a buffered sample fails.
ReadSampleThrows(t, sampleId) ==
    /\ phase = "open" /\ {"ReadSample", "ReadBufferedSample"} \subseteq Calls
    /\ IsBuffered(t, sampleId)
    /\ \E k \in 0..(Len(buffer[t].bytes) - 1) :
          SetMedia(t, WriteChunkBufferFails(Media(t), k))
    /\ WriteFault
    /\ UNCHANGED << mdatAt, tables, writer, durations, cache, call, hist >>

\* The lookups clients may make on their own (MP4GetSampleTime,
\* MP4GetSampleRenderingOffset) leave a cache behind.
LookUpSample(t, sampleId) ==
    /\ phase = "open" /\ "LookUpSample" \in Calls
    /\ \/ cache' = [cache EXCEPT ![t].stts =
                      GetSampleTimes(stts[t], @, sampleId).cache]
       \/ cache' = [cache EXCEPT ![t].ctts =
                      GetSampleRenderingOffset(ctts[t], @, sampleId).cache]
    /\ UNCHANGED << file, mdatAt, tables, chunks, buffer, writer, durations,
                    call, faults, hist, flushed >>

\* MP4File::SetSampleRenderingOffset on an existing sample.
SetOffset(t, sampleId, offset) ==
    LET set == SetSampleRenderingOffset(ctts[t], cache[t].ctts, sampleId, offset,
                                        stsz[t].count)
    IN  /\ phase = "open" /\ "SetSampleRenderingOffset" \in Calls
        /\ set.crash => "CrashOnOffset" \in Calls
        /\ ctts' = [ctts EXCEPT ![t] = set.ctts]
        /\ cache' = [cache EXCEPT ![t].ctts = set.cache]
        /\ hist' = [hist EXCEPT ![t][sampleId].offset = offset]
        /\ phase' = IF set.crash THEN "crashed" ELSE phase
        /\ UNCHANGED << file, mdatAt, stsz, stts, stss, chunks, buffer, writer,
                        durations, next, session, faults, flushed >>

-----------------------------------------------------------------------------
(* MP4File::Close and MP4File::Modify.                                     *)

\* Mistake: Close is done after the first track.
FinishFirstTrack ==
    /\ phase \in {"open", "finishing"} /\ next <= NumTracks
    /\ SetMedia(next, WriteChunkBuffer(Media(next), writeId[next]))
    /\ phase' = "finishing" /\ next' = NumTracks + 1
    /\ UNCHANGED << mdatAt, tables, writer, durations, cache, session, faults, hist >>

\* MP4File::FinishWrite flushes the tracks in turn (MP4Track::FinishWrite).
FinishTrack ==
    /\ phase \in {"open", "finishing"} /\ next <= NumTracks
    /\ SetMedia(next, WriteChunkBuffer(Media(next), writeId[next]))
    /\ phase' = "finishing" /\ next' = next + 1
    /\ UNCHANGED << mdatAt, tables, writer, durations, cache, session, faults, hist >>

\* A flush that fails in Close ends it: no moov box is written, and MP4Close
\* deletes the file object with everything the tables said.
FinishTrackThrows ==
    /\ phase \in {"open", "finishing"} /\ next <= NumTracks
    /\ \E k \in 0..(Len(buffer[next].bytes) - 1) :
          SetMedia(next, WriteChunkBufferFails(Media(next), k))
    /\ WriteFault
    /\ phase' = "failed"
    /\ UNCHANGED << mdatAt, tables, writer, durations, cache, next, session, hist >>

\* MP4RootAtom::FinishWrite and the truncation after it: an mdat box without
\* media is dropped, moov (and the free box of MP4Create) follows the media,
\* and the file ends there.
FinishFile ==
    LET empty == file.pos = mdatAt + MdatHeaderLen
        at    == IF empty THEN mdatAt ELSE file.pos
    IN  /\ phase = "finishing" /\ next > NumTracks
        /\ file' = [bytes |-> SubSeq(file.bytes, 1, at) \o Box(MoovLen),
                    pos   |-> at + MoovLen]
        /\ phase' = "closed"
        /\ UNCHANGED << mdatAt, tables, chunks, buffer, writer, durations, cache,
                        next, session, faults, hist, flushed >>

\* A track's chunk tables as reading the moov box finds them.
Reread(c) == [stsc |-> ReadStsc(c.stsc), stco |-> c.stco]

\* Mistake: the new mdat box starts where the previous one did.
OldMdatAt == mdatAt

\* MP4File::Modify of a file this library closed: only a free box may follow
\* moov, so the new mdat box starts in moov's place; tables are read back from
\* moov, and each MP4Track constructor starts with m_writeSampleId at 1.
MoovAt == Len(file.bytes) - MoovLen

Modify ==
    /\ phase = "closed" /\ session < MaxSessions
    /\ mdatAt' = MoovAt
    /\ file' = WriteBytes([file EXCEPT !.pos = MoovAt], Box(MdatHeaderLen))
    /\ chunks' = [t \in Tracks |-> Reread(chunks[t])]
    /\ buffer' = [t \in Tracks |-> EmptyBuffer]
    /\ writeId' = [t \in Tracks |-> 1]
    /\ perChunk' = [t \in Tracks |-> TimeScale]
    /\ curMode' = [t \in Tracks |-> NoMode]
    /\ cache' = [t \in Tracks |-> NoLookups]
    /\ phase' = "open" /\ next' = 1 /\ session' = session + 1
    /\ UNCHANGED << tables, durations, faults, hist, flushed >>

-----------------------------------------------------------------------------
Next ==
    \/ \E t \in Tracks : \E s \in Written(t) :
          WriteSample(t, s) \/ WriteSampleThrows(t, s) \/ ModeFlushThrows(t, s)
    \/ \E t \in Tracks, d \in ChunkDurations : SetDurationPerChunk(t, d)
    \/ \E t \in Tracks : \E sampleId \in SampleIds(t) :
          \/ ReadSample(t, sampleId) \/ ReadSampleThrows(t, sampleId)
          \/ LookUpSample(t, sampleId)
    \/ \E t \in Tracks : \E sampleId \in SampleIds(t), offset \in Offsets :
          SetOffset(t, sampleId, offset)
    \/ FinishTrack \/ FinishTrackThrows \/ FinishFile \/ Modify

Spec == Init /\ [][Next]_vars
=============================================================================
