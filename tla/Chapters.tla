------------------------------ MODULE Chapters ------------------------------
(***************************************************************************)
(* The chapters of an open movie (mp4file.cpp).  QuickTime chapters are    *)
(* the samples of a text track that a video or audio track refers to; Nero *)
(* chapters are the entries of the box moov.udta.chpl, title and start.    *)
(* Pure operators on the movie record of TrackList, on the open file of    *)
(* Layout, where the samples are written, and on the disk, where they are  *)
(* read.                                                                   *)
(*                                                                         *)
(* A chapter is a duration in milliseconds and a title; tracks and movie   *)
(* count in the same unit.  A sample is a chunk of its own and one cell    *)
(* large: how samples share chunks is the subject of module Track.         *)
(***************************************************************************)
EXTENDS TrackList, SampleTables, Layout

CONSTANT DurationRange    \* 2^64, the range of an unsigned difference

ASSUME ChapterAssumption == DurationRange \in Nat \ {0}

Titles == {"short", "long", "cut"}

\* Nero titles end after 255 bytes.
NeroTitle(title) == IF title = "long" THEN "cut" ELSE title

AnyType  == "any"
QtType   == "qt"
NeroType == "nero"
None == << >>

\* Writing samples << duration, cell >> to the track named id: each gets the
\* next place of the file; the movie lasts as long as its longest track.
WriteSamples(mv, f, id, samples) ==
    LET i == KeyIndex(mv, mv.tracks[TrackIndex(mv, id)])
        added == [k \in DOMAIN samples |->
                    [duration |-> samples[k][1] % DurationRange, at |-> f.pos + k - 1,
                     cell |-> samples[k][2]]]
        all == mv.traks[i].samples \o added
    IN  IF HasTrack(mv, id)
        THEN [mv EXCEPT !.traks[i].samples = all,
                        !.duration = Max({@, FoldLeft(LAMBDA n, s : n + s.duration, 0, all)})]
        ELSE Throw(mv)

-----------------------------------------------------------------------------
(* Finding and deleting.                                                   *)

\* Video and audio tracks, which may have chapters, by index.
MediaTracks(mv) ==
    SelectSeq([i \in DOMAIN mv.tracks |-> i], LAMBDA i : KindAt(mv, i) \in {"vide", "soun"})

FirstMediaTrack(mv) ==
    IF MediaTracks(mv) = << >> THEN 0 ELSE IdAt(mv, Head(MediaTracks(mv)))

\* The first track to refer to a chapter track, 0 for none.
FindChapterReferenceTrack(mv, id) ==
    LET refer == SelectSeq(MediaTracks(mv), LAMBDA j :
                    id \in Range(RefsAt(mv, TrakIndex(mv, IdAt(mv, j)), "chap")))
    IN  IF refer = << >> THEN 0 ELSE IdAt(mv, Head(refer))

FindChapterTrack(mv) ==
    LET i == SelectInSeq([j \in DOMAIN mv.tracks |-> j], LAMBDA j :
                /\ KindAt(mv, j) = "text"
                /\ FindChapterReferenceTrack(mv, IdAt(mv, j)) # 0)
    IN  IF i = 0 THEN 0 ELSE IdAt(mv, i)

\* The track the client names, or else the one that is found; one no track
\* refers to is left.  With the reference goes the whole tref box.
DeleteQtChapters(mv, named) ==
    LET id  == IF named = 0 THEN FindChapterTrack(mv) ELSE named
        ref == FindChapterReferenceTrack(mv, id)
    IN  IF id = 0 \/ ref = 0 THEN mv
        ELSE DeleteTrack([mv EXCEPT !.traks[TrakIndex(mv, ref)].refs = NoRefs], id)

DeleteChapters(mv, type, named) ==
    LET noNero == IF type = QtType THEN mv ELSE [mv EXCEPT !.chpl = << >>]
    IN  IF type = NeroType THEN noNero ELSE DeleteQtChapters(noNero, named)

-----------------------------------------------------------------------------
(* Reading.                                                                *)

Stts(samples) == FoldLeft(LAMBDA runs, s : AppendRun(runs, s.duration), << >>, samples)

\* The title is in the sample, wherever the tables say that is.
ReadTitle(disk, at) ==
    IF at < Len(disk) /\ disk[at + 1][1] = "text" THEN disk[at + 1][3] ELSE "unreadable"

\* GetChapters looks every sample up by the time the one before it ends.
SampleIdsByTime(samples) ==
    LET stts    == Stts(samples)
        at[k \in 1 .. Len(samples)] ==
            GetSampleIdFromTime(stts, AllSync,
                IF k = 1 THEN 0
                ELSE LET before == GetSampleTimes(stts, NoCache, at[k - 1])
                     IN  before.start + before.duration,
                TRUE)
    IN  at

ReadChapters(samples, disk) ==
    LET at == SampleIdsByTime(samples)
    IN  [k \in DOMAIN samples |->
            << samples[at[k]].duration, ReadTitle(disk, samples[at[k]].at) >>]

GetQtChapters(mv, disk) ==
    LET id == FindChapterTrack(mv)
    IN  IF id = 0 THEN None
        ELSE ReadChapters(TrakOf(mv, mv.tracks[TrackIndex(mv, id)]).samples, disk)

\* A chapter lasts until the next one starts, the last one until the movie
\* ends: an unsigned difference.
GetNeroChapters(mv) ==
    LET n      == Len(mv.chpl)
        end(k) == IF k < n THEN mv.chpl[k + 1].start ELSE mv.duration
    IN  [k \in 1..n |-> << (end(k) - mv.chpl[k].start) % DurationRange, mv.chpl[k].title >>]

\* Of one type, as ConvertChapters asks.
GetChapters(mv, disk, type) ==
    IF type = NeroType THEN GetNeroChapters(mv) ELSE GetQtChapters(mv, disk)

-----------------------------------------------------------------------------
(* Setting.                                                                *)


StartOf(list, k) == FoldLeft(LAMBDA n, c : n + c[1], 0, SubSeq(list, 1, k - 1))

AddNeroChapter(mv, start, title) ==
    [mv EXCEPT !.chpl = Append(@, [start |-> start, title |-> NeroTitle(title)])]

AddNeroChapters(mv, list) ==
    [mv EXCEPT !.chpl = @ \o [k \in DOMAIN list |->
                                  [start |-> StartOf(list, k), title |-> NeroTitle(list[k][2])]]]

TextSamples(list, written) ==
    [k \in DOMAIN list |-> << list[k][1], << "text", written + k, list[k][2] >> >>]

\* SetChapters, the old chapters of the type deleted: the movie, and the samples
\* that went to the text track.
AddChapters(mv, f, written, list, type) ==
    LET nero    == IF type = QtType THEN mv ELSE AddNeroChapters(mv, list)
        ref     == FirstMediaTrack(mv)
        text    == AddChapterTextTrack(nero, ref)
        samples == TextSamples(list, written)
    IN  IF type = NeroType \/ ref = 0 THEN [movie |-> nero, samples |-> << >>]
        ELSE IF ~text.ok THEN [movie |-> text, samples |-> << >>]
        ELSE [movie |-> WriteSamples(text, f, Newest(text), samples), samples |-> samples]
=============================================================================
