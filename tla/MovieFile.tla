----------------------------- MODULE MovieFile -----------------------------
(***************************************************************************)
(* A movie file through sessions of editing (mp4file.cpp): Create or       *)
(* Modify, calls that add and delete tracks, chapters, samples and         *)
(* metadata, Close, and a crash anywhere.  The movie in memory is the      *)
(* record of TrackList, Chapters and Tags, the open file that of Layout.   *)
(* A call changes memory at once; its write calls then reach the disk in   *)
(* order, or, when the program dies, only the first few of them do.        *)
(***************************************************************************)
EXTENDS Chapters, Tags

CONSTANTS
    Clients,       \* what a client may do, and the file it starts from
    ChapterLists,  \* the lists a client sets
    MaxSamples     \* samples written altogether

IsList(s) == s \in Seq(Range(s))

\* What a file says of its tracks: each trak box has an id of its own, one at
\* most is an object descriptor track, and that one and the iods box refer to
\* tracks the library can read, to each once.
IsMoov(moov) ==
    LET boxes    == DOMAIN moov.traks
        readable == {moov.traks[i].id : i \in {j \in boxes : moov.traks[j].kind # "broken"}}
        refer(ids) == ids \in Seq(Nat) /\ IsInjective(ids) /\ Range(ids) \subseteq readable
    IN  /\ IsList(moov.traks) /\ IsList(moov.chpl) /\ IsList(moov.items)
        /\ moov.next \in 1 .. MaxTrackId + 1
        /\ \A i \in boxes :
              /\ {"key", "id", "kind", "refs", "samples"} \subseteq DOMAIN moov.traks[i]
              /\ moov.traks[i].id \in Nat \ {0} /\ IsList(moov.traks[i].samples)
              /\ refer(RefsAt(moov, i, "mpod"))
              /\ RefsAt(moov, i, "mpod") # << >> => moov.traks[i].kind = "odsm"
        /\ \A i, j \in boxes :
              \/ moov.traks[i].id = moov.traks[j].id
              \/ moov.traks[i].kind = "odsm" /\ moov.traks[j].kind = "odsm"
              => i = j
        /\ {"present", "ids"} \subseteq DOMAIN moov.iods /\ refer(moov.iods.ids)

IsCell(cell) ==
    /\ cell[1] = "box"  => cell[3] \in Int
    /\ cell[1] \in {"size", "ftyp"} => cell[2] \in Int
    /\ cell[1] = "moov" => IsMoov(cell[2])

IsDisk(cells) == IsList(cells) /\ \A i \in DOMAIN cells : IsCell(cells[i])

ASSUME ClientAssumption ==
    /\ \A c \in Clients : IsDisk(c.disk)
    /\ \A list \in ChapterLists : IsList(list)

VARIABLES
    client,
    disk,        \* the file
    file,        \* root atom and position of the open file
    movie,       \* the movie in memory
    tags,        \* the client's tags object
    phase,       \* "closed", "open", "closing", "failed" or "refused"
    written,     \* samples ever written
    steps,       \* calls made
    sessions,    \* times the file was opened
    opened,      \* history: the movie at the beginning of the session
    saved,       \* history: what the last complete Close wrote
    told,        \* history: the chapters last set, by type; the tags last stored,
                 \* and the items the tags object knows nothing of
    clashed,     \* history: a track was refused, or took an unread track's id
    endless      \* history: Modify found a box that says it never ends

vars == << client, disk, file, movie, tags, phase, written, steps, sessions,
           opened, saved, told, clashed, endless >>

Nothing == << >>
NoFile  == [boxes |-> << >>, pos |-> 0, length |-> 0, use64 |-> FALSE, out |-> << >>,
            roomAt |-> 0, created |-> FALSE]
NotTold == [qt |-> << >>, nero |-> << >>, stored |-> Nothing, others |-> Nothing]

\* The items no field of a tags object, and no picture, is stored in.
Others(items) ==
    << SelectSeq(items, LAMBDA item : item.code \notin {"covr"} \cup {f.code : f \in Range(Fields)}) >>

Contents(mv, brands) ==
    [moov |-> Saved(mv), room |-> MoovRoom(Saved(mv)), brands |-> brands]

\* A moov box is whole when its size is that of the movie it holds.
WholeMoov(b) ==
    /\ b.type = "moov" /\ b.size > 0
    /\ LET at == b.start + HeadLen(b.large) + 1
       IN  at \in DOMAIN disk /\ disk[at][1] = "moov" /\ b.size = MoovRoom(disk[at][2])

WholeFtyp(b) ==
    LET at == b.start + HeadLen(b.large) + 1 IN at \in DOMAIN disk /\ disk[at][1] = "ftyp"

Init ==
    /\ client \in Clients
    /\ disk = client.disk
    /\ file = NoFile /\ movie = NoTracks(FALSE) /\ tags = NoTags
    /\ phase = "closed" /\ written = 0 /\ steps = 0 /\ sessions = 0
    /\ opened = Nothing /\ saved = Nothing /\ told = NotTold /\ clashed = FALSE /\ endless = FALSE

-----------------------------------------------------------------------------
(* Opening.                                                                *)

Create ==
    /\ phase = "closed" /\ sessions = 0 /\ disk = << >>
    /\ movie' = NoTracks(client.iods)
    /\ file' = CreateFile(client.ftyp, client.use64, Contents(movie', 1))
    /\ phase' = "open" /\ sessions' = 1 /\ opened' = Saved(movie')
    /\ told' = [told EXCEPT !.others = Others(movie'.items)]
    /\ UNCHANGED << client, disk, tags, written, steps, saved, clashed, endless >>

Brands(boxes) ==
    IF Has(boxes, "ftyp") THEN Held(disk, boxes[FirstOfType(boxes, "ftyp")]) ELSE 0

\* Modify of a file with one whole moov box.  What is not a box, or half a moov
\* or ftyp, is refused: what the code makes of it depends on the bytes.
Readable(boxes) ==
    /\ CanModify(boxes) /\ WholeMoov(boxes[FirstOfType(boxes, "moov")])
    /\ Has(boxes, "ftyp") => WholeFtyp(boxes[FirstOfType(boxes, "ftyp")])
    /\ \A b \in Range(boxes) : b.type # "garbage"

IsEndless(b) == disk[b.start + 1][3] = 0 \/ (b.large /\ disk[b.start + HeaderLen + 1][2] = 0)

Modify ==
    /\ phase = "closed" /\ sessions < client.sessions /\ disk # << >>
    /\ \E boxes \in {ReadBoxes(disk)} :
          /\ Readable(boxes)
          /\ movie' = ReadMovie(Held(disk, boxes[FirstOfType(boxes, "moov")]), Brands(boxes))
          /\ endless' = (endless \/ \E b \in Range(boxes) : IsEndless(b))
    /\ file' = ModifyFile(disk)
    /\ phase' = "open" /\ sessions' = sessions + 1 /\ opened' = Saved(movie')
    /\ told' = IF told.others # Nothing THEN told
               ELSE [told EXCEPT !.others = Others(movie'.items)]
    /\ UNCHANGED << client, disk, tags, written, steps, saved, clashed >>

ModifyRefused ==
    /\ phase = "closed" /\ sessions < client.sessions /\ disk # << >>
    /\ ~Readable(ReadBoxes(disk))
    /\ phase' = "refused"
    /\ UNCHANGED << client, disk, file, movie, tags, written, steps, sessions, opened, saved,
                    told, clashed, endless >>

-----------------------------------------------------------------------------
(* Calls.                                                                  *)

\* AddTrack ran out of ids, which leaves a trak box without one, or gave a new
\* track the id of a trak box the library could not read.
Clash(mv) ==
    \E t \in Range(mv.traks) :
        t.id = 0 \/ (t.kind = "broken" /\ HasTrack(mv, t.id))

\* A call is made when the writes of the one before are done; it changes the
\* movie and writes the cells of some samples where the file stands.
Call(name, mv, cells) ==
    /\ phase = "open" /\ file.out = << >>
    /\ name \in client.calls /\ steps < client.steps
    /\ written + Len(cells) <= MaxSamples
    /\ movie' = mv
    /\ file' = IF cells = << >> THEN file ELSE Put(file, cells)
    /\ written' = written + Len(cells) /\ steps' = steps + 1
    /\ clashed' = (clashed \/ Clash(mv))
    /\ UNCHANGED << client, disk, tags, phase, sessions, opened, saved, endless >>

Begun == [movie EXCEPT !.ok = TRUE]

TrackIds == {IdAt(movie, i) : i \in DOMAIN movie.tracks}

CallAddVideoTrack == Call("video", AddVideoTrack(Begun), << >>) /\ UNCHANGED told
CallAddAudioTrack == Call("audio", AddAudioTrack(Begun), << >>) /\ UNCHANGED told
CallAddSubtitleTrack == Call("subtitle", AddSubtitleTrack(Begun), << >>) /\ UNCHANGED told
CallAddODTrack    == Call("od", AddODTrack(Begun), << >>) /\ UNCHANGED told
CallAddSceneTrack == Call("scene", AddSceneTrack(Begun), << >>) /\ UNCHANGED told

CallAddHintTrack ==
    /\ \E ref \in TrackIds : Call("hint", AddHintTrack(Begun, ref), << >>)
    /\ UNCHANGED told

CallAddTextTrack ==
    /\ \E ref \in TrackIds : Call("text", AddTextTrack(Begun, ref), << >>)
    /\ UNCHANGED told

\* The chapter track, and the track it is about.
IsForChapters(mv, id) ==
    FindChapterTrack(mv) # 0
        /\ id \in {FindChapterTrack(mv), FindChapterReferenceTrack(mv, FindChapterTrack(mv))}

\* Any id: also one that names no track.
CallDeleteTrack ==
    \E id \in 1..MaxTrackId :
        /\ Call("delete", DeleteTrack(Begun, id), << >>)
        /\ told' = IF movie'.ok /\ IsForChapters(movie, id) THEN [told EXCEPT !.qt = << >>]
                                                           ELSE told

MediaSample(n) == << 1, << "media", n >> >>

CallWriteSample ==
    /\ \E i \in DOMAIN movie.tracks :
          /\ KindAt(movie, i) = "vide"
          /\ Call("write", WriteSamples(Begun, file, IdAt(movie, i), << MediaSample(written + 1) >>),
                  << << "media", written + 1 >> >>)
    /\ UNCHANGED told

\* The commands written to the new object descriptor and scene tracks.
CallMakeIsmaCompliant ==
    /\ \E made \in {MakeIsmaCompliant(Begun)} :
          IF made.ok /\ made.isma /\ ~movie.isma
          THEN \E od \in {WriteSamples(made, file, made.od, << MediaSample(written + 1) >>)} :
                  Call("isma", WriteSamples(od, [file EXCEPT !.pos = @ + 1], Newest(made),
                                            << MediaSample(written + 2) >>),
                       << << "media", written + 1 >>, << "media", written + 2 >> >>)
          ELSE Call("isma", made, << >>)
    /\ UNCHANGED told

Told(list, type, mv) ==
    [told EXCEPT
        !.qt   = IF type = NeroType THEN @
                 ELSE IF ~mv.ok \/ FirstMediaTrack(mv) = 0 THEN << >> ELSE list,
        !.nero = IF type = QtType THEN @ ELSE list]

SetChapters(name, list, type) ==
    \E cleared \in {DeleteChapters(Begun, type, 0)} :
        \E set \in {AddChapters(cleared, file, written, list, type)} :
            /\ Call(name, set.movie, [k \in DOMAIN set.samples |-> set.samples[k][2]])
            /\ told' = Told(list, type, set.movie)

CallSetChapters ==
    \E list \in ChapterLists, type \in {AnyType, QtType, NeroType} :
        SetChapters("chapters", list, type)

\* Piece by piece: a movie gets one chapter track at a time, and its Nero
\* chapters start where the one before them was said to end.
CallAddChapterTextTrack ==
    /\ FindChapterTrack(movie) = 0
    /\ \E ref \in TrackIds : Call("chaptertrack", AddChapterTextTrack(Begun, ref), << >>)
    /\ UNCHANGED told

Chapter == << 1, "long" >>

CallAddChapter ==
    /\ FindChapterTrack(movie) # 0
    /\ \E samples \in {TextSamples(<< Chapter >>, written)} :
          Call("chapter", WriteSamples(Begun, file, FindChapterTrack(movie), samples),
               << samples[1][2] >>)
    /\ told' = [told EXCEPT !.qt = Append(@, Chapter)]

CallAddNeroChapter ==
    /\ Call("nerochapter",
            AddNeroChapter(Begun, StartOf(told.nero, Len(told.nero) + 1), Chapter[2]), << >>)
    /\ told' = [told EXCEPT !.nero = Append(@, Chapter)]

CallDeleteChapters ==
    \E type \in {AnyType, QtType, NeroType}, named \in {0} \cup TrackIds :
        /\ Call("nochapters", DeleteChapters(Begun, type, named), << >>)
        /\ told' = IF named \in {0, FindChapterTrack(movie)} THEN Told(<< >>, type, movie)
                   ELSE [told EXCEPT !.nero = IF type = QtType THEN @ ELSE << >>]

\* Chapters of the other type are read; without any nothing is done.
CallConvertChapters ==
    \E to \in {QtType, NeroType} :
        \E list \in {GetChapters(movie, disk, IF to = QtType THEN NeroType ELSE QtType)} :
            \/ list = << >> /\ Call("convert", Begun, << >>) /\ UNCHANGED told
            \/ list # << >> /\ SetChapters("convert", list, to)

-----------------------------------------------------------------------------
(* Metadata.                                                               *)

\* Calls on the tags object change nothing else.
TagsCall(t) ==
    /\ phase = "open" /\ file.out = << >>
    /\ "tags" \in client.calls /\ steps < client.steps
    /\ tags' = t /\ steps' = steps + 1
    /\ UNCHANGED << client, disk, file, movie, phase, written, sessions, opened, saved,
                    told, clashed, endless >>

TagsAlloc == tags # NoTags /\ TagsCall(NoTags)
TagsFetch == TagsCall(Fetch(movie.items))

\* MP4TagsSetName and so on; a null pointer removes.
TagsSet == \E set \in client.values : TagsCall([tags EXCEPT !.fields[set[1]] = set[2]])

TagsAddArtwork == \E art \in client.pictures : TagsCall(AddPicture(tags, art))
TagsSetArtwork ==
    \E art \in client.pictures, i \in 1 .. Len(tags.artwork) + 1 : TagsCall(SetPicture(tags, i, art))
TagsRemoveArtwork ==
    \E i \in 1 .. Len(tags.artwork) + 1 : TagsCall(RemovePicture(tags, i))

\* The codes that more than one item has.
Doubled(items) ==
    {items[i].code : i \in {j \in DOMAIN items : \E k \in 1 .. j - 1 : items[k].code = items[j].code}}

TagsStore ==
    /\ Call("tags", [Begun EXCEPT !.items = Store(tags, @)], << >>)
    /\ told' = [told EXCEPT !.stored = [tags |-> tags, doubled |-> Doubled(movie.items)]]

\* Item by item, of a list of items that was fetched just before.
EditItems(items) ==
    /\ Call("items", [Begun EXCEPT !.items = items], << >>)
    /\ told' = [told EXCEPT !.stored = Nothing, !.others = Others(items)]

ItmfAddItem == \E item \in client.items : EditItems(Append(movie.items, item))
ItmfSetItem ==
    \E item \in client.items, i \in DOMAIN movie.items : EditItems([movie.items EXCEPT ![i] = item])
ItmfRemoveItem == \E i \in DOMAIN movie.items : EditItems(RemoveAt(movie.items, i))

-----------------------------------------------------------------------------
(* Closing.                                                                *)

\* Every brand the tracks ask for at the end (FinishSdtp) is one more.
BrandsAtClose == IF client.brand /\ movie.brands > 0 THEN movie.brands + 1 ELSE movie.brands

\* Without an mdat box GetLastMdatIndex fails its assertion.
Close ==
    /\ phase = "open" /\ file.out = << >> /\ Has(file.boxes, "mdat")
    /\ file' = FinishFile(file, Contents(movie, BrandsAtClose), client.truncates)
    /\ phase' = "closing"
    /\ UNCHANGED << client, disk, movie, tags, written, steps, sessions, opened, saved,
                    told, clashed, endless >>

CloseThrows ==
    /\ phase = "open" /\ file.out = << >> /\ ~Has(file.boxes, "mdat")
    /\ phase' = "failed" /\ file' = NoFile
    /\ UNCHANGED << client, disk, movie, tags, written, steps, sessions, opened, saved,
                    told, clashed, endless >>

-----------------------------------------------------------------------------
(* The disk.                                                               *)

ApplyFirst(n) ==
    LET applied[k \in 0..n] ==
            IF k = 0 THEN disk ELSE Apply(applied[k - 1], file.out[k])
    IN  applied[n]

Write ==
    /\ file.out # << >>
    /\ disk' = ApplyFirst(Len(file.out))
    /\ file' = IF phase = "closing" THEN NoFile ELSE [file EXCEPT !.out = << >>]
    /\ IF phase = "closing" THEN phase' = "closed" /\ saved' = Saved(movie)
                            ELSE UNCHANGED << phase, saved >>
    /\ UNCHANGED << client, movie, tags, written, steps, sessions, opened, told, clashed,
                    endless >>

Crash ==
    /\ client.crash /\ phase \in {"open", "closing"}
    /\ \E n \in 0 .. Max({0, Len(file.out) - 1}) : disk' = ApplyFirst(n)
    /\ file' = NoFile /\ phase' = "closed" /\ saved' = Nothing /\ told' = NotTold
    /\ UNCHANGED << client, movie, tags, written, steps, sessions, opened, clashed, endless >>

Next ==
    \/ Create \/ Modify \/ ModifyRefused
    \/ CallAddVideoTrack \/ CallAddAudioTrack \/ CallAddSubtitleTrack \/ CallAddTextTrack
    \/ CallAddODTrack \/ CallAddSceneTrack \/ CallAddHintTrack
    \/ CallDeleteTrack \/ CallWriteSample \/ CallMakeIsmaCompliant
    \/ CallSetChapters \/ CallDeleteChapters \/ CallConvertChapters
    \/ CallAddChapterTextTrack \/ CallAddChapter \/ CallAddNeroChapter
    \/ TagsAlloc \/ TagsFetch \/ TagsSet \/ TagsStore
    \/ TagsAddArtwork \/ TagsSetArtwork \/ TagsRemoveArtwork
    \/ ItmfAddItem \/ ItmfSetItem \/ ItmfRemoveItem
    \/ Close \/ CloseThrows \/ Write \/ Crash

Spec == Init /\ [][Next]_vars
=============================================================================
