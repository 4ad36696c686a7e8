-------------------------- MODULE MovieProperties --------------------------
(***************************************************************************)
(* What makes the movie file of module MovieFile correct.                  *)
(***************************************************************************)
EXTENDS MovieFile

\* Every movie record and file has its shape, and counters are in their bounds.
MovieTypeOK ==
    /\ client \in Clients
    /\ phase \in {"closed", "open", "closing", "failed", "refused"}
    /\ written \in 0..MaxSamples /\ steps \in 0..client.steps /\ sessions \in 0..client.sessions
    /\ Len(movie.ids) <= Len(movie.traks) /\ Len(movie.tracks) <= Len(movie.ids)
    /\ \A i, j \in DOMAIN movie.traks : movie.traks[i].key = movie.traks[j].key => i = j
    /\ movie.next \in 1 .. MaxTrackId + 1 /\ movie.duration \in Nat
    /\ \A i \in DOMAIN file.boxes : file.boxes[i].size >= 0

BoxesOnDisk == ReadBoxes(disk)

-----------------------------------------------------------------------------
(* The file.                                                               *)

\* Once Close has returned the file is a row of boxes without gaps, its last
\* box ends with it, and its one moov box holds the movie that was closed
\* (FinishWrite, MoveMoovAtomToFront and the truncation after them).  Not said
\* when Modify took up a box without an end, which then swallows what follows.
ClosedWhole ==
    phase = "closed" /\ saved # Nothing /\ ~endless =>
        \E boxes \in {BoxesOnDisk} :
            /\ Readable(boxes) /\ Last(boxes).end = Len(disk)
            /\ Held(disk, boxes[FirstOfType(boxes, "moov")]) = saved
            /\ Has(boxes, "ftyp") => boxes[FirstOfType(boxes, "ftyp")].size = 1 + Brands(boxes)

PlacesRight(traks) ==
    \A t \in Range(traks) : \A s \in Range(t.samples) :
        s.at < Len(disk) /\ disk[s.at + 1] = s.cell

\* No whole moov box on disk, at any moment and after any crash, names a place
\* where something else is: boxes and media never overwrite media in use.
MoovNeverLies ==
    \A b \in Range(BoxesOnDisk) : WholeMoov(b) => PlacesRight(Held(disk, b).traks)

\* While a file is open, its samples are where its tables say, and its root
\* atom lists the boxes of the file up to the mdat box that is being written.
RootMatchesDisk ==
    phase = "open" /\ file.out = << >> /\ Has(file.boxes, "mdat") /\ ~endless =>
        /\ PlacesRight(movie.traks)
        /\ LET m == LastOfType(file.boxes, "mdat")
           IN \E boxes \in {BoxesOnDisk} :
                /\ \A i \in 1 .. m - 1 : \E b \in Range(boxes) :
                      b.type = file.boxes[i].type /\ b.start = file.boxes[i].start
                      /\ b.end = file.boxes[i].end
                /\ Last(boxes).type = "mdat" /\ Last(boxes).start = file.boxes[m].start

\* After any calls and crashes the file reads as the movie the session began
\* with, as the whole movie in memory, or as nothing: never as a mixture.
Reads ==
    LET boxes == BoxesOnDisk
    IN  IF disk # << >> /\ Readable(boxes)
        THEN Held(disk, boxes[FirstOfType(boxes, "moov")]) ELSE Nothing

ReadsOldOrNew == sessions > 0 => Reads \in {Nothing, opened, Saved(movie)}

-----------------------------------------------------------------------------
(* The tracks.                                                             *)

\* Every track id names one track, and MakeTrackName leads to the trak box of
\* that track, whatever was added and deleted before.  Not said after AddTrack
\* ran out of ids or took that of a trak box the library could not read.
NamesReachOwnTrak ==
    ~clashed =>
        \A i, j \in DOMAIN movie.tracks :
            /\ TrakIndex(movie, IdAt(movie, i)) = KeyIndex(movie, movie.tracks[i])
            /\ IdAt(movie, i) = IdAt(movie, j) => i = j

\* The object descriptor track and the iods box refer to tracks of the file,
\* and to each once, however tracks come and go.
ReferencesExist ==
    LET mpod == UNION {Range(RefsAt(movie, i, "mpod")) : i \in DOMAIN movie.traks}
    IN  /\ mpod \cup Range(movie.iods.ids) \subseteq TrackIds
        /\ IsInjective(movie.iods.ids)
        /\ \A i \in DOMAIN movie.traks : IsInjective(RefsAt(movie, i, "mpod"))
        /\ movie.od # 0 => HasTrack(movie, movie.od)

-----------------------------------------------------------------------------
(* The chapters.                                                           *)

Positive(list) == \A k \in DOMAIN list : list[k][1] > 0


-----------------------------------------------------------------------------
(* The metadata.                                                           *)

IsEmpty(field, value) == field.kind = "string" /\ value # Absent /\ value[1] = << >>

\* Fetching tags finds every tag and every picture as it was stored last, and
\* none that was absent then, whatever the tags object and the file held before
\* and whether or not the file was closed since.  Not said of a tag the file
\* had more than one item of, nor of an empty string, which reads as absent
\* (c_store, c_fetch).
TagsReadBack ==
    phase = "open" /\ file.out = << >> /\ told.stored # Nothing =>
        LET got  == Fetch(movie.items)
            want == told.stored.tags
        IN  /\ \A k \in DOMAIN Fields :
                  Fields[k].code \notin told.stored.doubled =>
                      got.fields[k] = IF IsEmpty(Fields[k], want.fields[k]) THEN Absent
                                                                           ELSE want.fields[k]
            /\ "covr" \notin told.stored.doubled => got.artwork = want.artwork

\* Items a tags object knows nothing of stay as they are and in their order,
\* and no tag gets a second item, however often tags are stored (c_store).
OtherItemsStay ==
    phase = "open" =>
        /\ Others(movie.items) = told.others
        /\ told.stored # Nothing => Doubled(movie.items) \subseteq told.stored.doubled
=============================================================================
