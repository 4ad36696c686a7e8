------------------------------ MODULE EditList ------------------------------
(***************************************************************************)
(* The edit list of a track (MP4Track, src/src/mp4track.cpp): adding and   *)
(* deleting edits, finding the sample shown at a time of the edited track, *)
(* and MP4CopyTrack (src/src/mp4.cpp), which walks through the edited      *)
(* track from sample to sample.  Each round of its loop is a step, because *)
(* the loop ends only if the times it computes lead it to the end.         *)
(***************************************************************************)
EXTENDS SampleTables

CONSTANTS
    Durations,     \* sample durations
    MaxSamples,    \* bound: samples of the track
    EditStarts,    \* media times edits begin at
    EditDurations,
    MaxEdits,      \* bound: edits of the track
    TimeRange      \* 2^64: times and durations are unsigned 64-bit integers

ASSUME EditListAssumption ==
    /\ Durations \cup EditStarts \cup EditDurations \subseteq 0..(TimeRange - 1)
    /\ {MaxSamples, MaxEdits, TimeRange} \subseteq Nat \ {0}

VARIABLES
    media,    \* the durations of the samples, as written
    stts,     \* their table
    elst,     \* [present, edits]: the elst box
    cache,    \* m_cachedStts*
    copy      \* [stage, when, sampleId, copied]: a call of MP4CopyTrack

editVars == << media, stts, elst, cache, copy >>

INVALID_EDIT_ID == 0

\* Mistake: subtraction of signed integers.
MinusSigned(a, b) == a - b

\* Unsigned subtraction.
Minus(a, b) == (a - b) % TimeRange

-----------------------------------------------------------------------------
(* Lookups.                                                                *)

\* MP4Track::GetEditTotalDuration, with editId; THROWN stands for
\* MP4_INVALID_DURATION, the result without edits.
GetEditTotalDuration(edits, editId) ==
    IF edits = << >> THEN THROWN
    ELSE MapThenSumSet(LAMBDA e : edits[e].duration, 1..editId)

\* The edit that an edit time lies in, with the time since its start and to its
\* end: the first edit that ends behind it, if there is one.
EditsAt(edits, editWhen) ==
    LET end(e)   == GetEditTotalDuration(edits, e)
        start(e) == end(e) - edits[e].duration
    IN  {[edit |-> edits[e], offset |-> editWhen - start(e), left |-> end(e) - editWhen] :
            e \in {i \in 1..Len(edits) : start(i) <= editWhen /\ editWhen < end(i)}}

\* Mistake: an edit shows its first sample all the time.
MediaWhenPaused(at) == at.edit.mediaTime

\* The media time shown there; dwells go on like other edits.
MediaWhen(at) == at.edit.mediaTime + at.offset

\* How long a sample lasts that began startOffset ago: it loses what lies before
\* the start of the edit.
ShortenedAtStart(at, startOffset, duration) ==
    IF at.edit.dwell THEN at.edit.duration
    ELSE IF at.offset < startOffset THEN Minus(duration, startOffset - at.offset)
    ELSE duration

\* Then, for an edit that plays, its end is compared with where the sample would
\* end if it had begun in the edit with its natural duration.
Shortened(at, startOffset, duration) ==
    LET beyond == duration - Min({at.offset, startOffset}) - at.left
    IN  IF beyond > 0 /\ ~at.edit.dwell
        THEN Minus(ShortenedAtStart(at, startOffset, duration), beyond)
        ELSE ShortenedAtStart(at, startOffset, duration)

NotFound(lookups) ==
    [sampleId |-> THROWN, start |-> THROWN, duration |-> THROWN, cache |-> lookups]

Found(at, editWhen, sampleId, times) ==
    LET startOffset == MediaWhen(at) - times.start
    IN  IF times.start = THROWN THEN NotFound(times.cache)
        ELSE [sampleId |-> sampleId,
              start    |-> editWhen - Min({at.offset, startOffset}),
              duration |-> Shortened(at, startOffset, times.duration),
              cache    |-> times.cache]

\* MP4Track::GetSampleIdFromEditTime for a track with edits.
GetSampleIdFromEditTime(tbl, edits, lookups, editWhen) ==
    LET ids(at) == {GetSampleIdFromTime(tbl, AllSync, MediaWhen(at), FALSE)} \ {THROWN}
        found   == UNION {UNION {
                      {Found(at, editWhen, sampleId, times) :
                          times \in {GetSampleTimes(tbl, lookups, sampleId)}} :
                      sampleId \in ids(at)} :
                      at \in EditsAt(edits, editWhen)}
    IN  IF found = {} THEN NotFound(lookups) ELSE CHOOSE answer \in found : TRUE

-----------------------------------------------------------------------------
NoCopy == [stage |-> "none", when |-> 0, sampleId |-> 0, copied |-> << >>]

\* A file has just been opened; its tracks have samples and no edits.
EditInit ==
    /\ media \in UNION {[1..n -> Durations] : n \in 1..MaxSamples}
    /\ stts = FoldLeft(AppendRun, << >>, media)
    /\ elst = [present |-> FALSE, edits |-> << >>]
    /\ cache = NoCache
    /\ copy = NoCopy

Idle == copy.stage = "none"

\* MP4Track::AddEdit and the values MP4AddTrackEdit sets.
AddEdit(edits, editId, edit) ==
    InsertAt(edits, IF editId = INVALID_EDIT_ID THEN Len(edits) + 1 ELSE editId, edit)

\* MP4AddTrackEdit.  An id beyond the next one fails when the elst box has
\* already been made.
AddTrackEdit(editId, edit) ==
    /\ Idle /\ Len(elst.edits) < MaxEdits
    /\ elst' = [present |-> TRUE,
                edits |-> IF editId > Len(elst.edits) + 1 THEN elst.edits
                          ELSE AddEdit(elst.edits, editId, edit)]
    /\ UNCHANGED << media, stts, cache, copy >>

\* MP4Track::DeleteEdit; the box goes with the last edit.
DeleteTrackEdit(editId) ==
    /\ Idle /\ editId \in 1..Len(elst.edits)
    /\ elst' = [present |-> Len(elst.edits) > 1, edits |-> RemoveAt(elst.edits, editId)]
    /\ UNCHANGED << media, stts, cache, copy >>

\* MP4File::SetTrackEditMediaStart, SetTrackEditDuration, SetTrackEditDwell.
SetTrackEdit(editId) ==
    /\ Idle /\ editId \in 1..Len(elst.edits)
    /\ \/ \E t \in EditStarts : elst' = [elst EXCEPT !.edits[editId].mediaTime = t]
       \/ \E d \in EditDurations : elst' = [elst EXCEPT !.edits[editId].duration = d]
       \/ \E w \in BOOLEAN : elst' = [elst EXCEPT !.edits[editId].dwell = w]
    /\ UNCHANGED << media, stts, cache, copy >>

\* MP4GetSampleIdFromEditTime on its own moves the cache of GetSampleTimes.
LookUpEditTime(editWhen) ==
    /\ Idle /\ elst.edits # << >>
    /\ cache' = GetSampleIdFromEditTime(stts, elst.edits, cache, editWhen).cache
    /\ UNCHANGED << media, stts, elst, copy >>

-----------------------------------------------------------------------------
(* MP4CopyTrack with applyEdits, from a track that nothing else changes.   *)

CopyTrack ==
    /\ Idle
    /\ copy' = [copy EXCEPT !.stage = "copying"]
    /\ UNCHANGED << media, stts, elst, cache >>

\* Mistake: the walk does not go on.
AdvanceNot(when, duration) == when

Advance(when, duration) == (when + duration) % TimeRange

\* MP4CopySample: the largest duration, MP4_INVALID_DURATION, stands for the
\* sample's own.  The history keeps as many samples as the edits have time units.
CopySample(got) ==
    [copy EXCEPT
        !.when = Advance(@, got.duration),
        !.copied = IF Len(@) < MaxEdits * Max(EditDurations)
                   THEN Append(@, << got.sampleId,
                                     IF got.duration = TimeRange - 1
                                     THEN media[got.sampleId] ELSE got.duration >>)
                   ELSE @]

\* One round of the loop of a copy via edits.  It ends before the sample that
\* reaches the end is copied.
CopyNextOfEdits ==
    /\ copy.stage = "copying" /\ elst.edits # << >>
    /\ \E got \in {GetSampleIdFromEditTime(stts, elst.edits, cache, copy.when)} :
        /\ cache' = got.cache
        /\ copy' = IF got.sampleId = THROWN THEN [copy EXCEPT !.stage = "failed"]
                   ELSE IF Advance(copy.when, got.duration)
                           >= GetEditTotalDuration(elst.edits, Len(elst.edits))
                   THEN [copy EXCEPT !.stage = "copied"]
                   ELSE CopySample(got)
    /\ UNCHANGED << media, stts, elst >>

\* One round of the loop without edits, with the lookup of ReadSample.
CopyNextSample ==
    /\ copy.stage = "copying" /\ elst.edits = << >>
    /\ LET k == copy.sampleId + 1
       IN  IF k > Len(media)
           THEN copy' = [copy EXCEPT !.stage = "copied"] /\ UNCHANGED cache
           ELSE /\ copy' = [copy EXCEPT !.sampleId = k, !.copied = Append(@, << k, media[k] >>)]
                /\ cache' = GetSampleTimes(stts, cache, k).cache
    /\ UNCHANGED << media, stts, elst >>

\* Reading or writing a sample fails: the copy is deleted.
CopyFails ==
    /\ copy.stage = "copying"
    /\ copy' = [copy EXCEPT !.stage = "failed"]
    /\ UNCHANGED << media, stts, elst, cache >>

Edits == [mediaTime : EditStarts, duration : EditDurations, dwell : BOOLEAN]

EditNext ==
    \/ \E editId \in 0..(MaxEdits + 1), edit \in Edits : AddTrackEdit(editId, edit)
    \/ \E editId \in 1..MaxEdits : DeleteTrackEdit(editId) \/ SetTrackEdit(editId)
    \/ \E when \in 0..(MaxEdits * Max(EditDurations)) : LookUpEditTime(when)
    \/ CopyTrack \/ CopyNextOfEdits \/ CopyNextSample \/ CopyFails

\* A call that has begun runs on.
EditSpec ==
    /\ EditInit /\ [][EditNext]_editVars
    /\ WF_editVars(CopyNextOfEdits \/ CopyNextSample)

-----------------------------------------------------------------------------
(* What an edit list promises, time unit by time unit.                     *)

\* For each time unit of the media the sample that lasts through it.
MediaTimeline == FlattenSeq([k \in 1..Len(media) |-> [i \in 1..media[k] |-> k]])

\* For each time unit of the edited track the edit and the sample that it shows
\* (0: none, the media has ended); a dwell shows its first sample all the time.
EditTimeline ==
    LET line == MediaTimeline
        shown(t) == IF t + 1 \in DOMAIN line THEN line[t + 1] ELSE 0
        edits == elst.edits
    IN  FlattenSeq([e \in 1..Len(edits) |->
            [i \in 1..edits[e].duration |->
                << e, shown(edits[e].mediaTime + (IF edits[e].dwell THEN 0 ELSE i - 1)) >>]])

\* The edit times at which an edit shows a sample.
Part(line, shown) == {u \in DOMAIN line : line[u] = shown}

Lasting == \A k \in 1..Len(media) : media[k] > 0

\* The edit begins where a sample does.
Aligned(e) ==
    LET line == MediaTimeline
        at   == elst.edits[e].mediaTime + 1
    IN  at \in DOMAIN line /\ (at > 1 => line[at - 1] # line[at])

Lookup(when) == GetSampleIdFromEditTime(stts, elst.edits, cache, when)

\* The type of every variable; times and durations never are negative, and with
\* edits there is a box.
EditTypeOK ==
    /\ media \in Seq(Durations) /\ stts \in Seq([n : Nat, v : Nat])
    /\ elst \in [present : BOOLEAN, edits : Seq(Edits)]
    /\ Len(elst.edits) <= MaxEdits /\ (elst.edits # << >> => elst.present)
    /\ cache \in [ix : Nat \ {0}, sid : Nat, elapsed : Nat]
    /\ copy.stage \in {"none", "copying", "copied", "failed"}
    /\ copy.when \in 0..(TimeRange - 1)
    /\ copy.copied \in Seq((1..Len(media)) \X (0..(TimeRange - 1)))

\* GetSampleIdFromEditTime names "the track sample in which the specified time
\* occurs in the edit list timeline" (general.h:732) and the time it starts
\* there; if the edit begins where a sample does, also how long it lasts there.
\* Beyond the media it fails.
EditTimeAnswers ==
    Lasting =>
        LET line == EditTimeline
        IN  \A u \in DOMAIN line :
                LET got  == Lookup(u - 1)
                    part == Part(line, line[u])
                    e    == line[u][1]
                IN  CASE elst.edits[e].dwell -> TRUE
                      [] line[u][2] = 0 -> got.sampleId = THROWN
                      [] OTHER ->
                            /\ got.sampleId = line[u][2]
                            /\ got.start = Min(part) - 1
                            /\ Aligned(e) => got.duration = Cardinality(part)

\* "The duration for this sample in the edit list timeline" (general.h:751),
\* wherever the edit begins.
SamplesLastTheirPart ==
    Lasting =>
        LET line == EditTimeline
        IN  \A u \in DOMAIN line :
                ~elst.edits[line[u][1]].dwell /\ line[u][2] # 0 =>
                    Lookup(u - 1).duration = Cardinality(Part(line, line[u]))

\* The samples of the edited track in order, each with the time it is shown;
\* without edits those of the track.
Clip ==
    LET line   == EditTimeline
        starts == {u \in DOMAIN line : u = 1 \/ line[u - 1] # line[u]}
    IN  IF elst.edits = << >> THEN [k \in 1..Len(media) |-> << k, media[k] >>]
        ELSE LET inOrder == SetToSortSeq(starts, <)
             IN  [i \in 1..Len(inOrder) |->
                    << line[inOrder[i]][2], Cardinality(Part(line, line[inOrder[i]])) >>]

\* An edit list as general.h:350 asks for, within the media.
Regular ==
    /\ Lasting
    /\ \A e \in 1..Len(elst.edits) : Aligned(e)
    /\ \A shown \in Range(EditTimeline) : shown[2] # 0

\* MP4CopyTrack copies the samples of the edit list in its order, with the
\* durations they have there, and stops at the end of the list.
CopyFollowsEdits ==
    Regular => /\ IsPrefix(copy.copied, Clip)
               /\ copy.stage = "copied" => Len(copy.copied) >= Len(Clip) - 1

\* It exports "that portion of the media" (track.h:453), all of it.
ClipComplete == copy.stage = "copied" /\ Regular => copy.copied = Clip

\* The loop ends: the times it computes lead it to the end of the list.
CopyEnds == copy.stage = "copying" /\ Regular ~> copy.stage # "copying"
=============================================================================
