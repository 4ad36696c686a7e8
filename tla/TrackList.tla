----------------------------- MODULE TrackList -----------------------------
(***************************************************************************)
(* The tracks of an open movie (mp4file.cpp): how MP4File allocates track  *)
(* ids, names the trak box of a track, and keeps the references between    *)
(* tracks.  Pure operators on a movie record mv:                           *)
(*                                                                         *)
(*   traks    the trak boxes, children of moov, in order                   *)
(*   ids      m_trakIds: the id of every trak box, by position             *)
(*   tracks   m_pTracks: the key of the trak box of every MP4Track         *)
(*   od       m_odTrackId                                                  *)
(*   next     mvhd.nextTrackId                                             *)
(*   iods     the esIds of the iods box, if there is one                   *)
(*   chpl     the Nero chapters, << >> when there is no chpl box           *)
(*   items    the iTunes items, << >> when there is no ilst box            *)
(*   duration mvhd.duration, brands the compatible brands of ftyp          *)
(*   isma     m_useIsma                                                    *)
(*   ok       FALSE once the call in progress has thrown                   *)
(*                                                                         *)
(* A trak box has a key, standing for its address; its id and kind; refs,  *)
(* the lists of its tref box; and its samples, each with its duration, its *)
(* place in the file and the data written there.                           *)
(***************************************************************************)
EXTENDS Integers, Sequences, SequencesExt, FiniteSetsExt

CONSTANT MaxTrackId    \* 0xFFFF

ASSUME TrackListAssumption == MaxTrackId \in Nat \ {0}

NoRefs == << >>    \* no tref box: the function with an empty domain

NoTracks(iods) ==
    [traks |-> << >>, ids |-> << >>, tracks |-> << >>, od |-> 0, next |-> 1,
     iods |-> [present |-> iods, ids |-> << >>], chpl |-> << >>, items |-> << >>,
     duration |-> 0, brands |-> 1, isma |-> FALSE, ok |-> TRUE]

Throw(mv) == [mv EXCEPT !.ok = FALSE]

KeyIndex(mv, key) == SelectInSeq(mv.traks, LAMBDA t : t.key = key)
TrakOf(mv, key)   == mv.traks[KeyIndex(mv, key)]

\* FindTrackIndex and FindTrakAtomIndex, 0 when the code throws.
TrackIndex(mv, id) == SelectInSeq(mv.tracks, LAMBDA key : TrakOf(mv, key).id = id)
TrakIndex(mv, id)  == IF id = 0 THEN 0 ELSE SelectInSeq(mv.ids, LAMBDA i : i = id)

HasTrack(mv, id) == TrackIndex(mv, id) # 0
KindAt(mv, i)    == TrakOf(mv, mv.tracks[i]).kind
IdAt(mv, i)      == TrakOf(mv, mv.tracks[i]).id

\* FindTrackId(0, kind), 0 for none.
FirstOfKind(mv, kind) ==
    LET i == SelectInSeq(mv.tracks, LAMBDA key : TrakOf(mv, key).kind = kind)
    IN  IF i = 0 THEN 0 ELSE IdAt(mv, i)

-----------------------------------------------------------------------------
(* Adding a track.                                                         *)

\* AllocTrackId: the id, 0 when all are in use.  An id found by the search
\* leaves nextTrackId as it is.
AllocTrackId(mv) ==
    LET free == {id \in 1..MaxTrackId : ~HasTrack(mv, id)}
    IN  IF mv.next <= MaxTrackId /\ ~HasTrack(mv, mv.next) THEN mv.next
        ELSE IF free = {} THEN 0 ELSE Min(free)

\* Mistake: an id found by the search advances it, too.
NextTrackIdAlways(mv, id) == mv.next + 1

NextTrackId(mv, id) == IF id = mv.next THEN id + 1 ELSE mv.next

NewTrak(mv, id, kind) ==
    [key |-> Max({t.key : t \in Range(mv.traks)} \cup {0}) + 1, id |-> id, kind |-> kind,
     refs |-> NoRefs, samples |-> << >>]

\* AddTrack.  The trak box is there before the id is allocated, and stays when
\* that throws.
AddTrack(mv, kind) ==
    LET id   == AllocTrackId(mv)
        trak == NewTrak(mv, id, IF id = 0 THEN "" ELSE kind)
    IN  IF id = 0 THEN Throw([mv EXCEPT !.traks = Append(@, trak)])
        ELSE [mv EXCEPT !.traks = Append(@, trak), !.ids = Append(@, id),
                        !.tracks = Append(@, trak.key), !.next = NextTrackId(mv, id)]

Newest(mv) == Last(mv.ids)

-----------------------------------------------------------------------------
(* References.                                                             *)

\* AddDescendantAtoms(MakeTrackName(id), "tref.<type>").
AddRefType(mv, id, type) ==
    LET i == TrakIndex(mv, id)
    IN  IF type \in DOMAIN mv.traks[i].refs THEN mv
        ELSE [mv EXCEPT !.traks[i].refs =
                [t \in DOMAIN @ \cup {type} |-> IF t = type THEN << >> ELSE @[t]]]

RefsAt(mv, i, type) ==
    IF type \in DOMAIN mv.traks[i].refs THEN mv.traks[i].refs[type] ELSE << >>

AddTrackReference(mv, id, type, ref) ==
    LET i == TrakIndex(mv, id)
    IN  IF i = 0 THEN Throw(mv)
        ELSE IF type \in DOMAIN mv.traks[i].refs
        THEN [mv EXCEPT !.traks[i].refs[type] = Append(@, ref)]
        ELSE mv

\* The loop of RemoveTrackReference passes over the entry after a deleted one.
Without(refs, ref) ==
    LET n == Len(refs)
        from[i \in 1 .. n + 2] ==
            IF i > n THEN << >>
            ELSE IF refs[i] # ref THEN << refs[i] >> \o from[i + 1]
            ELSE SubSeq(refs, i + 1, Min({i + 1, n})) \o from[i + 2]
    IN  from[1]

RemoveTrackReference(mv, id, type, ref) ==
    LET i == TrakIndex(mv, id)
    IN  IF i = 0 THEN Throw(mv)
        ELSE IF type \in DOMAIN mv.traks[i].refs
        THEN [mv EXCEPT !.traks[i].refs[type] = Without(@, ref)]
        ELSE mv

AddTrackToOd(mv, id) ==
    IF mv.od = 0 THEN mv ELSE AddTrackReference(mv, mv.od, "mpod", id)

\* Mistake: the object descriptors keep the deleted track.
RemoveTrackFromOdNot(mv, id) == mv

RemoveTrackFromOd(mv, id) ==
    IF mv.od = 0 THEN mv ELSE RemoveTrackReference(mv, mv.od, "mpod", id)

AddTrackToIod(mv, id) ==
    IF mv.iods.present THEN [mv EXCEPT !.iods.ids = Append(@, id)] ELSE Throw(mv)

RemoveTrackFromIod(mv, id) ==
    LET i == SelectInSeq(mv.iods.ids, LAMBDA e : e = id)
    IN  IF i = 0 THEN mv ELSE [mv EXCEPT !.iods.ids = RemoveAt(@, i)]

-----------------------------------------------------------------------------
(* The calls.                                                              *)

AddVideoTrack(mv) ==
    LET t == AddTrack(mv, "vide") IN IF t.ok THEN AddTrackToOd(t, Newest(t)) ELSE t

AddAudioTrack(mv) ==
    LET t == AddTrack(mv, "soun") IN IF t.ok THEN AddTrackToOd(t, Newest(t)) ELSE t

\* m_odTrackId is set before the iods box is looked for.
AddODTrack(mv) ==
    LET t == AddTrack(mv, "odsm")
        o == AddTrackToIod([t EXCEPT !.od = Newest(t)], Newest(t))
    IN  IF mv.od # 0 THEN Throw(mv)
        ELSE IF ~t.ok THEN t
        ELSE IF ~o.ok THEN o ELSE AddRefType(o, o.od, "mpod")

AddSceneTrack(mv) ==
    LET t == AddTrack(mv, "sdsm")
        s == AddTrackToIod(t, Newest(t))
    IN  IF ~t.ok THEN t ELSE IF ~s.ok THEN s ELSE AddTrackToOd(s, Newest(t))

AddHintTrack(mv, ref) ==
    LET t == AddTrack(mv, "hint")
    IN  IF ~HasTrack(mv, ref) THEN Throw(mv)
        ELSE IF ~t.ok THEN t
        ELSE AddTrackReference(AddRefType(t, Newest(t), "hint"), Newest(t), "hint", ref)

AddTextTrack(mv, ref) == IF HasTrack(mv, ref) THEN AddTrack(mv, "text") ELSE Throw(mv)

AddSubtitleTrack(mv) == AddTrack(mv, "sbtl")

AddChapterTextTrack(mv, ref) ==
    LET t == AddTrack(mv, "text")
    IN  IF ~HasTrack(mv, ref) THEN Throw(mv)
        ELSE IF ~t.ok THEN t
        ELSE AddTrackReference(AddRefType(t, ref, "chap"), ref, "chap", Newest(t))

\* Mistake: m_trakIds is taken to have the positions of m_pTracks.
DeleteTrackAtIndex(mv, id) ==
    LET track == TrackIndex(mv, id)
        left  == RemoveTrackFromOd(RemoveTrackFromIod(mv, id), id)
    IN  IF track = 0 THEN Throw(mv)
        ELSE [left EXCEPT !.od = IF @ = id THEN 0 ELSE @,
                          !.traks = RemoveAt(@, KeyIndex(mv, mv.tracks[track])),
                          !.ids = RemoveAt(@, track),
                          !.tracks = RemoveAt(@, track)]

DeleteTrack(mv, id) ==
    LET trak  == TrakIndex(mv, id)
        track == TrackIndex(mv, id)
        left  == RemoveTrackFromOd(RemoveTrackFromIod(mv, id), id)
        key   == mv.tracks[track]
    IN  IF trak = 0 \/ track = 0 THEN Throw(mv)
        ELSE IF ~left.ok THEN left
        ELSE [left EXCEPT !.od = IF @ = id THEN 0 ELSE @,
                          !.traks = RemoveAt(@, KeyIndex(mv, key)),
                          !.ids = RemoveAt(@, trak),
                          !.tracks = RemoveAt(@, track)]

\* Steps of MakeIsmaCompliant, none of them after one that threw.
DeleteOld(mv, id) == IF mv.ok /\ id # 0 THEN DeleteTrack(mv, id) ELSE mv

NewOd(mv) ==
    LET left == DeleteOld(mv, mv.od)
    IN  IF left.ok THEN AddODTrack([left EXCEPT !.iods.present = TRUE]) ELSE left

Refer(mv, kind) ==
    LET id == FirstOfKind(mv, kind) IN IF mv.ok /\ id # 0 THEN AddTrackToOd(mv, id) ELSE mv

NewScene(mv) ==
    LET left == DeleteOld(mv, FirstOfKind(mv, "sdsm"))
    IN  IF left.ok THEN AddSceneTrack(left) ELSE left

\* MakeIsmaCompliant, for audio and video of the kinds ISMA allows: a new object
\* descriptor track for the first track of each, and a new scene track.  The two
\* samples it then writes are the caller's.
MakeIsmaCompliant(mv) ==
    IF mv.isma \/ (FirstOfKind(mv, "soun") = 0 /\ FirstOfKind(mv, "vide") = 0) THEN mv
    ELSE NewScene(Refer(Refer(NewOd([mv EXCEPT !.isma = TRUE]), "soun"), "vide"))

-----------------------------------------------------------------------------
(* The moov box.                                                           *)

\* What Close writes of the movie.
Saved(mv) ==
    [traks |-> [i \in DOMAIN mv.traks |-> [mv.traks[i] EXCEPT !.key = 0]],
     next |-> mv.next, iods |-> mv.iods, chpl |-> mv.chpl, items |-> mv.items,
     duration |-> mv.duration]

SampleCount(moov) ==
    Cardinality(UNION {{i} \X DOMAIN moov.traks[i].samples : i \in DOMAIN moov.traks})

\* Its size: everything that is said takes room.
MoovRoom(moov) ==
    1 + Len(moov.traks) + SampleCount(moov) + Len(moov.chpl) + Len(moov.items)

\* Mistake: a trak box without a track is left out.
ReadTraksDropping(traks) ==
    LET kept == SelectSeq(traks, LAMBDA t : t.kind # "broken")
    IN  [i \in DOMAIN kept |-> [kept[i] EXCEPT !.key = i]]

ReadTraks(traks) == [i \in DOMAIN traks |-> [traks[i] EXCEPT !.key = i]]

\* The trak boxes with a track: MP4Track refuses the others.
ReadTracks(traks) ==
    LET tracks[k \in 0 .. Len(traks)] ==
            IF k = 0 THEN << >>
            ELSE IF traks[k].kind = "broken" THEN tracks[k - 1] ELSE Append(tracks[k - 1], k)
    IN  tracks[Len(traks)]

\* GenerateTracks: every trak box has an entry in m_trakIds; the first OD track
\* is remembered.
ReadMovie(moov, brands) ==
    LET traks == ReadTraks(moov.traks)
        mv == [traks |-> traks, ids |-> [i \in DOMAIN traks |-> traks[i].id],
               tracks |-> ReadTracks(traks), od |-> 0, next |-> moov.next,
               iods |-> moov.iods, chpl |-> moov.chpl, items |-> moov.items,
               duration |-> moov.duration, brands |-> brands, isma |-> FALSE, ok |-> TRUE]
    IN  [mv EXCEPT !.od = FirstOfKind(mv, "odsm")]
=============================================================================
