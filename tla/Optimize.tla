------------------------------ MODULE Optimize ------------------------------
(***************************************************************************)
(* MP4File::Optimize of a file that the tracks of module Track wrote and   *)
(* closed: the boxes are written to a new file with moov in front, and     *)
(* the chunks of all tracks are copied behind it in the order of their     *)
(* times (RewriteMdat), while the chunk offsets in memory change from the  *)
(* old file's to the new file's one by one.  The new file replaces the old *)
(* one in the end.  One step is one round of the loop, since each round    *)
(* may fail in the middle.                                                 *)
(***************************************************************************)
EXTENDS TrackProperties

CONSTANTS
    HintTracks,       \* the tracks whose type is MP4_HINT_TRACK_TYPE
    OptimalLen        \* length of the boxes written before mdat, moov included

ASSUME OptimizeAssumption == HintTracks \subseteq Tracks /\ OptimalLen \in Nat

VARIABLES
    stage,      \* "none", "rewriting", "optimized" or "failed"
    dst,        \* [bytes, pos]: the new file
    offsets,    \* the stco tables in memory
    nextChunk,  \* chunkIds of RewriteMdat
    nextTime,   \* nextChunkTimes of RewriteMdat
    order       \* history: << track, chunk >> as copied

rewriteVars == << dst, offsets, nextChunk, nextTime, order >>
optimizeVars == << vars, stage, rewriteVars >>

NoTime == -1     \* MP4_INVALID_TIMESTAMP

-----------------------------------------------------------------------------
(* What the tables say of a chunk.                                         *)

\* Mistake: every chunk has the shape of the last one.
LastStscIndex(stsc, chunkId) == Len(stsc)

\* MP4Track::GetChunkStscIndex: the entry before the first of a later chunk.
GetChunkStscIndex(stsc, chunkId) ==
    LET later == {i \in 1..Len(stsc) : chunkId < stsc[i].firstChunk}
    IN  IF later = {} THEN Len(stsc) ELSE Min(later) - 1

SamplesInChunk(stsc, chunkId) ==
    LET entry == stsc[GetChunkStscIndex(stsc, chunkId)]
        first == entry.firstSample
                 + (chunkId - entry.firstChunk) * entry.samplesPerChunk
    IN  first..(first + entry.samplesPerChunk - 1)

\* MP4Track::GetChunkSize.
GetChunkSize(t, chunkId) ==
    SumFunction([s \in SamplesInChunk(chunks[t].stsc, chunkId) |->
                    GetSampleSize(stsz[t], s, BytesPerSample)])

\* MP4Track::GetChunkTime: the time of the first sample, through the cache.
GetChunkTime(t, chunkId) ==
    GetSampleTimes(stts[t], cache[t].stts, Min(SamplesInChunk(chunks[t].stsc, chunkId)))

\* MP4ConvertTime, on times whose product fits in 64 bits.
MP4ConvertTime(time, oldTimeScale, newTimeScale) ==
    IF oldTimeScale = newTimeScale THEN time
    ELSE (time * newTimeScale) \div oldTimeScale

-----------------------------------------------------------------------------
(* RewriteMdat.                                                            *)

\* Tracks with chunks left, and those of them whose next time is not known.
Remaining == {t \in Tracks : nextChunk[t] <= Len(chunks[t].stco)}
Unknown   == {t \in Remaining : nextTime[t] = NoTime}

Times ==
    [t \in Tracks |->
        IF t \in Unknown
        THEN MP4ConvertTime(GetChunkTime(t, nextChunk[t]).start, TimeScale, MovieTimeScale)
        ELSE nextTime[t]]

\* Mistake: hint tracks are not preferred.
FirstOf(earliest) == Min(earliest)

\* Among tracks with equal times the first, unless hint tracks follow it.
Preferred(earliest) ==
    IF earliest \cap HintTracks = {} THEN Min(earliest)
    ELSE Max(earliest \cap HintTracks)

Choice(times) == Preferred({t \in Remaining : \A u \in Remaining : times[t] <= times[u]})

\* Mistake: the file is not switched back before reading.
ReadChunkFromNew(t, chunkId) ==
    [i \in 1..GetChunkSize(t, chunkId) |->
        IF offsets[t][chunkId] + i \in DOMAIN dst.bytes
        THEN dst.bytes[offsets[t][chunkId] + i] ELSE BOX]

\* MP4Track::ReadChunk: from the old file, at the offset in memory.
ReadChunk(t, chunkId) ==
    LET at == offsets[t][chunkId]
    IN  SubSeq(file.bytes, at + 1, at + GetChunkSize(t, chunkId))

\* Mistake: the offset is taken behind the chunk.
NewOffsetBehind(f, data) == f.pos + Len(data)

\* MP4Track::RewriteChunk: the new offset is where the chunk goes.
NewOffset(f, data) == f.pos

\* Mistake: the time of the chunk just copied stays the track's next one.
TimesLeft(times, t) == times

TimesAfter(times, t) == [times EXCEPT ![t] = NoTime]

\* Times asked for go through the cache of GetSampleTimes.
RememberTimes ==
    cache' = [t \in Tracks |->
                IF t \in Unknown
                THEN [cache[t] EXCEPT !.stts = GetChunkTime(t, nextChunk[t]).cache]
                ELSE cache[t]]

-----------------------------------------------------------------------------
OptimizeInit ==
    /\ Init
    /\ stage = "none"
    /\ dst = [bytes |-> << >>, pos |-> 0]
    /\ offsets = [t \in Tracks |-> << >>]
    /\ nextChunk = [t \in Tracks |-> 1]
    /\ nextTime = [t \in Tracks |-> NoTime]
    /\ order = << >>

\* Tracks at work; an optimized file is not opened again.
TrackStep == stage = "none" /\ Next /\ UNCHANGED << stage, rewriteVars >>

\* The top-level boxes still hold an mdat if any media byte was ever written.
HasMdat == Len(file.bytes) > FtypLen + MoovLen

\* Reading the old file, and MP4RootAtom::BeginOptimalWrite.  Without an mdat
\* box GetLastMdatIndex fails its assertion.
BeginOptimize ==
    /\ stage = "none" /\ phase = "closed"
    /\ stage' = IF HasMdat THEN "rewriting" ELSE "failed"
    /\ chunks' = [t \in Tracks |-> Reread(chunks[t])]
    /\ cache' = [t \in Tracks |-> NoLookups]
    /\ offsets' = [t \in Tracks |-> chunks[t].stco]
    /\ dst' = LET boxes == IF HasMdat THEN OptimalLen + MdatHeaderLen ELSE OptimalLen
              IN  [bytes |-> Box(boxes), pos |-> boxes]
    /\ UNCHANGED << file, mdatAt, tables, buffer, writer, durations, call, faults,
                    hist, flushed, nextChunk, nextTime, order >>

\* A write of the boxes fails.
BeginOptimizeThrows ==
    /\ stage = "none" /\ phase = "closed" /\ HasMdat
    /\ WriteFault
    /\ stage' = "failed"
    /\ \E k \in 0..(OptimalLen + MdatHeaderLen - 1) : dst' = [bytes |-> Box(k), pos |-> k]
    /\ chunks' = [t \in Tracks |-> Reread(chunks[t])]
    /\ cache' = [t \in Tracks |-> NoLookups]
    /\ offsets' = [t \in Tracks |-> chunks[t].stco]
    /\ UNCHANGED << file, mdatAt, tables, buffer, writer, durations, call,
                    hist, flushed, nextChunk, nextTime, order >>

\* One round of RewriteMdat's loop.
RewriteNextChunk ==
    /\ stage = "rewriting" /\ Remaining # {}
    /\ LET t    == Choice(Times)
           data == ReadChunk(t, nextChunk[t])
       IN  /\ dst' = WriteBytes(dst, data)
           /\ offsets' = [offsets EXCEPT ![t][nextChunk[t]] = NewOffset(dst, data)]
           /\ nextChunk' = [nextChunk EXCEPT ![t] = @ + 1]
           /\ nextTime' = TimesAfter(Times, t)
           /\ order' = Append(order, << t, nextChunk[t] >>)
    /\ RememberTimes
    /\ UNCHANGED << stage, file, mdatAt, tables, chunks, buffer, writer, durations,
                    call, faults, hist, flushed >>

\* A write fails: Optimize deletes its File objects and throws.
RewriteThrows ==
    /\ stage = "rewriting" /\ Remaining # {}
    /\ WriteFault
    /\ stage' = "failed"
    /\ LET t    == Choice(Times)
           data == ReadChunk(t, nextChunk[t])
       IN  \E k \in 0..(Len(data) - 1) : dst' = WriteBytes(dst, SubSeq(data, 1, k))
    /\ RememberTimes
    /\ UNCHANGED << file, mdatAt, tables, chunks, buffer, writer, durations, call,
                    hist, flushed, offsets, nextChunk, nextTime, order >>

\* MP4RootAtom::FinishOptimalWrite writes moov again, in its place and with
\* its size, now with the new offsets; then the new file takes the old one's
\* name.
FinishOptimize ==
    /\ stage = "rewriting" /\ Remaining = {}
    /\ stage' = "optimized"
    /\ file' = [bytes |-> WriteBytes([dst EXCEPT !.pos = 0], Box(OptimalLen)).bytes,
                pos |-> OptimalLen]
    /\ chunks' = [t \in Tracks |-> [chunks[t] EXCEPT !.stco = offsets[t]]]
    /\ UNCHANGED << mdatAt, tables, buffer, writer, durations, cache, call, faults,
                    hist, flushed, rewriteVars >>

\* Writing moov again fails; the old file stays.
FinishOptimizeThrows ==
    /\ stage = "rewriting" /\ Remaining = {}
    /\ WriteFault
    /\ stage' = "failed"
    /\ \E k \in 0..(OptimalLen - 1) : dst' = WriteBytes([dst EXCEPT !.pos = 0], Box(k))
    /\ UNCHANGED << file, mdatAt, tables, chunks, buffer, writer, durations, cache,
                    call, hist, flushed, offsets, nextChunk, nextTime, order >>

OptimizeNext ==
    \/ TrackStep
    \/ BeginOptimize \/ RewriteNextChunk \/ FinishOptimize
    \/ BeginOptimizeThrows \/ RewriteThrows \/ FinishOptimizeThrows

OptimizeSpec == OptimizeInit /\ [][OptimizeNext]_optimizeVars

-----------------------------------------------------------------------------
(* Properties.  ReadBackFromFile and ChunksIntact (TrackProperties) must   *)
(* hold of the optimized file as they do of the old one.                   *)

\* The type of every variable; a next time is known only of a track with
\* chunks left.
OptimizeTypeOK ==
    /\ stage \in {"none", "rewriting", "optimized", "failed"}
    /\ dst \in [bytes : Seq(Byte), pos : Nat]
    /\ offsets \in [Tracks -> Seq(Nat)]
    /\ nextChunk \in [Tracks -> Nat \ {0}] /\ nextTime \in [Tracks -> Nat \cup {NoTime}]
    /\ order \in Seq(Tracks \X (Nat \ {0}))
    /\ stage # "none" => \A t \in Tracks \ Remaining : nextTime[t] = NoTime

\* The time of a chunk in the movie, from the samples in it.
MovieTime(t, c) ==
    MP4ConvertTime(TimeBefore(t, Min({b[2] : b \in Range(flushed[t][c])})),
                   TimeScale, MovieTimeScale)

\* Chunks lie in the new file in the order of their times, those of a track in
\* their own order, and at equal times those of hint tracks first: "the samples
\* for a particular instant in time are colocated" (file.h:432, RewriteMdat).
ChunksInTimeOrder ==
    \A i, j \in 1..Len(order) : i < j =>
        LET t == order[i][1]    c == order[i][2]
            u == order[j][1]    d == order[j][2]
        IN  /\ t = u => c < d
            /\ MovieTime(t, c) <= MovieTime(u, d)
            /\ MovieTime(t, c) = MovieTime(u, d) /\ u \in HintTracks => t \in HintTracks

\* The optimized file holds the chunks and nothing else: "any media data chunks
\* that are not actually referenced by the mp4 control structures are deleted"
\* (file.h:441), among them what failed writes left.
OnlyReferencedMedia ==
    stage = "optimized" =>
        Len(file.bytes) = OptimalLen + MdatHeaderLen
            + SumFunction([t \in Tracks |-> Len(FlattenSeq(flushed[t]))])
=============================================================================
