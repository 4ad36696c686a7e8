----------------------------- MODULE MovieProofs -----------------------------
(***************************************************************************)
(* Proofs about module MovieFile, for every client, every number of        *)
(* sessions and of calls in them, and crashes anywhere: every id leads to  *)
(* the trak box of its track (NamesReachOwnTrak), and what the object      *)
(* descriptor track and the iods box refer to exists (ReferencesExist).    *)
(*                                                                         *)
(* TrackListProofs says that the calls keep a movie good.  But Modify      *)
(* reads the movie from the disk, so the invariant (FileInv) reaches over  *)
(* the disk: a file is a list of cells, of which a moov cell holds a movie *)
(* that reads as a good one (IsMoov, MovieRead), and so does what a good   *)
(* movie is saved as (MovieSaved).  Every write of an open file writes     *)
(* cells (IsFile), through all that moves boxes about - the boxes of       *)
(* Create (FileCreated) and Modify (FileModified), and those of Close      *)
(* (FileFinished) - and so, written in whole or in part, leaves cells on   *)
(* the disk (DiskApplied).                                                 *)
(*                                                                         *)
(* Sequences of unknown elements are IsSeq.  What a recursive definition   *)
(* keeps, it keeps step by step (StaysIn): a function of the steps takes   *)
(* the place of induction over an operator.                                *)
(***************************************************************************)
EXTENDS TrackListProofs, MovieProperties, FiniteSetTheorems

-----------------------------------------------------------------------------
(* Chapters and metadata.                                                  *)

LEMMA ListIsSeq ==
    ASSUME NEW s
    PROVE  IsList(s) <=> IsSeq(s)
<1>1. ASSUME NEW S, s \in Seq(S) PROVE s \in Seq(Range(s))
  <2>1. Len(s) \in Nat /\ s \in [1..Len(s) -> S] /\ DOMAIN s = 1..Len(s)
    BY <1>1, LenProperties
  <2>2. s \in [1..Len(s) -> Range(s)]
    BY <2>1 DEF Range
  <2> QED
    BY <2>1, <2>2, FunctionIsSeq
<1> QED
  BY <1>1 DEF IsList, IsSeq

\* A list by its elements.
LEMMA MadeSeq ==
    ASSUME NEW n \in Nat, NEW s, DOMAIN s = 1..n, s = [k \in DOMAIN s |-> s[k]]
    PROVE  IsSeq(s) /\ Len(s) = n
<1> DEFINE S == {s[k] : k \in 1..n}
<1>1. s \in [1..n -> S]
  OBVIOUS
<1> HIDE DEF S
<1>2. s \in Seq(S) /\ Len(s) = n
  BY <1>1, FunctionIsSeq
<1> QED
  BY <1>2 DEF IsSeq

LEMMA SeqDomain ==
    ASSUME NEW s, IsSeq(s)
    PROVE  Len(s) \in Nat /\ DOMAIN s = 1..Len(s) /\ s = [k \in DOMAIN s |-> s[k]]
BY LenProperties DEF IsSeq

LEMMA JoinedSeq ==
    ASSUME NEW s, IsSeq(s), NEW t, IsSeq(t)
    PROVE  /\ IsSeq(s \o t) /\ Len(s \o t) = Len(s) + Len(t)
           /\ \A k \in 1..Len(s) : (s \o t)[k] = s[k]
           /\ \A k \in 1..Len(t) : (s \o t)[Len(s) + k] = t[k]
<1>1. PICK S : s \in Seq(S)
  BY DEF IsSeq
<1>2. PICK T : t \in Seq(T)
  BY DEF IsSeq
<1> DEFINE U == S \cup T
<1>3. s \in Seq(U) /\ t \in Seq(U)
  <2>1. s \in [1..Len(s) -> S] /\ t \in [1..Len(t) -> T] /\ Len(s) \in Nat /\ Len(t) \in Nat
    BY <1>1, <1>2, LenProperties
  <2>2. s \in [1..Len(s) -> U] /\ t \in [1..Len(t) -> U]
    BY <2>1
  <2> HIDE DEF U
  <2> QED
    BY <2>1, <2>2, FunctionIsSeq
<1> HIDE DEF U
<1>4. /\ s \o t \in Seq(U) /\ Len(s \o t) = Len(s) + Len(t)
      /\ \A k \in 1 .. Len(s) + Len(t) : (s \o t)[k] = IF k <= Len(s) THEN s[k] ELSE t[k - Len(s)]
  BY <1>3, ConcatProperties
<1>5. Len(s) \in Nat /\ Len(t) \in Nat
  BY <1>3, LenProperties
<1>6. \A k \in 1..Len(s) : (s \o t)[k] = s[k]
  BY <1>4, <1>5
<1>7. ASSUME NEW k \in 1..Len(t) PROVE (s \o t)[Len(s) + k] = t[k]
  <2>1. Len(s) + k \in 1 .. Len(s) + Len(t) /\ ~ (Len(s) + k <= Len(s)) /\ (Len(s) + k) - Len(s) = k
    BY <1>5
  <2> QED
    BY <1>4, <2>1
<1> QED
  BY <1>4, <1>6, <1>7 DEF IsSeq

\* Movies with the same tracks and references.
SameReferences(mv, n) ==
    /\ SameNames(mv, n) /\ n.od = mv.od /\ n.iods = mv.iods
    /\ \A j \in 1..Len(mv.traks) : Mpod(n.traks[j]) \in {Mpod(mv.traks[j]), << >>}

LEMMA SameReferencesKeep ==
    ASSUME NEW mv, NEW n, SameReferences(mv, n)
    PROVE  (Good(mv) => Good(n)) /\ (Fair(mv) => Fair(n))
BY GoodKept, FairKept DEF SameReferences

LEMMA SamplesWritten ==
    ASSUME NEW mv, Keyed(mv), NEW f, NEW id, NEW samples, IsSeq(samples),
           NEW n, n = WriteSamples(mv, f, id, samples)
    PROVE  SameReferences(mv, n)
<1>1. CASE ~HasTrack(mv, id)
  <2>1. n = Throw(mv)
    BY <1>1 DEF WriteSamples
  <2>2. SameNames(mv, n)
    BY <2>1, SameNamesThrown
  <2>3. n.od = mv.od /\ n.iods = mv.iods /\ n.traks = mv.traks
    BY <2>1 DEF Throw, Keyed, Shape, Listed, MovieFields
  <2> QED
    BY <2>2, <2>3 DEF SameReferences
<1>2. CASE HasTrack(mv, id)
  <2>1. PICK i : i = KeyIndex(mv, mv.tracks[TrackIndex(mv, id)])
    OBVIOUS
  <2>2. i \in 1..Len(mv.traks)
    <3>1. TrackIndex(mv, id) \in 1..Len(mv.tracks)
      BY <1>2, TrackIndexFound DEF HasTrack
    <3> QED
      BY <2>1, <3>1, TrakOfTrack
  <2>3. PICK added : added = [k \in DOMAIN samples |->
                                [duration |-> samples[k][1] % DurationRange, at |-> f.pos + k - 1,
                                 cell |-> samples[k][2]]]
    OBVIOUS
  <2>4. PICK all : all = mv.traks[i].samples \o added
    OBVIOUS
  <2>5. PICK d : d = Max({mv.duration, FoldLeft(LAMBDA m, s : m + s.duration, 0, all)})
    OBVIOUS
  <2>6. n = [mv EXCEPT !.traks[i].samples = all, !.duration = d]
    BY <1>2, <2>1, <2>3, <2>4, <2>5 DEF WriteSamples
  <2>7. IsSeq(added)
    <3>1. Len(samples) \in Nat /\ DOMAIN samples = 1..Len(samples)
      BY SeqDomain
    <3>2. DOMAIN added = 1..Len(samples) /\ added = [k \in DOMAIN added |-> added[k]]
      BY <2>3, <3>1
    <3> QED
      BY <3>1, <3>2, MadeSeq
  <2>8. IsTrak(mv.traks[i]) /\ IsSeq(all)
    <3>1. IsTrak(mv.traks[i])
      BY <2>2 DEF Keyed, Shape, Listed
    <3> QED
      BY <2>4, <2>7, <3>1, JoinedSeq DEF IsTrak
  <2> DEFINE t == [mv.traks[i] EXCEPT !.samples = all]
  <2>9. /\ IsTrak(t) /\ Mpod(t) = Mpod(mv.traks[i]) /\ t.key = mv.traks[i].key
        /\ t.id = mv.traks[i].id /\ t.kind = mv.traks[i].kind
    <3>1. /\ DOMAIN t = DOMAIN mv.traks[i] /\ t.samples = all /\ t.key = mv.traks[i].key
          /\ t.id = mv.traks[i].id /\ t.kind = mv.traks[i].kind /\ t.refs = mv.traks[i].refs
      BY <2>8 DEF IsTrak, TrakFields
    <3> HIDE DEF t
    <3> QED
      BY <2>8, <3>1 DEF IsTrak, Mpod
  <2>10. Alike(mv, n, {"traks", "duration"}) /\ n.traks = [mv.traks EXCEPT ![i] = t]
    <3>1. MovieFields \subseteq DOMAIN mv
      BY DEF Keyed, Shape, Listed
    <3> QED
      BY <2>6, <3>1 DEF Alike, MovieFields
  <2> HIDE DEF t
  <2>11. TrakSet(mv, n, i, t)
    BY <2>9, <2>10, OneTrakChanged
  <2> QED
    BY <2>9, <2>11 DEF TrakSet, SameReferences
<1> QED
  BY <1>1, <1>2

\* Another list of chapters or of items.
LEMMA ListSet ==
    ASSUME NEW mv, Keyed(mv), NEW s, IsSeq(s), NEW n,
           n = [mv EXCEPT !.chpl = s] \/ n = [mv EXCEPT !.items = s]
    PROVE  SameReferences(mv, n)
<1>1. MovieFields \subseteq DOMAIN mv
  BY DEF Keyed, Shape, Listed
<1>2. /\ DOMAIN n = DOMAIN mv /\ \A f \in DOMAIN mv \ {"chpl", "items"} : n[f] = mv[f]
      /\ n.chpl \in {mv.chpl, s} /\ n.items \in {mv.items, s}
  BY <1>1 DEF MovieFields
<1>3. n.od = mv.od /\ n.iods = mv.iods /\ n.traks = mv.traks /\ n.brands = mv.brands
  BY <1>1, <1>2 DEF MovieFields
<1>4. Rest(n)
  BY <1>2, <1>3 DEF Rest, Keyed, Shape
<1>5. SameNames(mv, n)
  BY <1>2, <1>4, SameNamesOtherwise DEF Alike
<1> QED
  BY <1>3, <1>5 DEF SameReferences

LEMMA ChaptersDeleted ==
    ASSUME NEW mv, Good(mv), NEW type, NEW named
    PROVE  Good(DeleteChapters(mv, type, named))
<1>1. PICK o : o = IF type = QtType THEN mv ELSE [mv EXCEPT !.chpl = << >>]
  OBVIOUS
<1>2. Good(o)
  <2>1. CASE type # QtType
    BY <1>1, <2>1, EmptyIsSeq, ListSet, SameReferencesKeep, NamedIsKeyed DEF Good
  <2> QED
    BY <1>1, <2>1
<1>3. Good(DeleteQtChapters(o, named))
  <2>1. PICK id : id = IF named = 0 THEN FindChapterTrack(o) ELSE named
    OBVIOUS
  <2>2. PICK i : i = TrakIndex(o, FindChapterReferenceTrack(o, id))
    OBVIOUS
  <2>3. PICK n : n = [o EXCEPT !.traks[i].refs = NoRefs]
    OBVIOUS
  <2>4. DeleteQtChapters(o, named) \in {o, DeleteTrack(n, id)}
    BY <2>1, <2>2, <2>3 DEF DeleteQtChapters
  <2>5. MpodOf(NoRefs) = << >>
    <3>1. DOMAIN << >> = {}
      OBVIOUS
    <3> QED
      BY <3>1 DEF MpodOf, NoRefs
  <2>6. RefsSet(o, n, i, NoRefs)
    BY <1>2, <2>3, <2>5, EmptyIsSeq, RefsChanged, NamedIsKeyed DEF Good
  <2>7. SameReferences(o, n)
    BY <2>5, <2>6 DEF RefsSet, SameReferences
  <2>8. Good(n)
    BY <1>2, <2>7, SameReferencesKeep
  <2> QED
    BY <1>2, <2>4, <2>8, DeletingKeepsNames
<1> QED
  BY <1>1, <1>2, <1>3 DEF DeleteChapters

LEMMA NeroChapterAdded ==
    ASSUME NEW mv, Good(mv), NEW start, NEW title
    PROVE  Good(AddNeroChapter(mv, start, title))
<1>1. PICK s : s = Append(mv.chpl, [start |-> start, title |-> NeroTitle(title)])
  OBVIOUS
<1>2. Keyed(mv) /\ IsSeq(mv.chpl)
  BY NamedIsKeyed DEF Good, Keyed, Shape, Rest
<1>3. IsSeq(s)
  BY <1>1, <1>2, AppendToSeq
<1>4. AddNeroChapter(mv, start, title) = [mv EXCEPT !.chpl = s]
  BY <1>1 DEF AddNeroChapter
<1> QED
  BY <1>2, <1>3, <1>4, ListSet, SameReferencesKeep

LEMMA NeroChaptersAdded ==
    ASSUME NEW mv, Good(mv), NEW list, IsSeq(list)
    PROVE  Good(AddNeroChapters(mv, list))
<1>1. PICK e : e = [k \in DOMAIN list |->
                      [start |-> StartOf(list, k), title |-> NeroTitle(list[k][2])]]
  OBVIOUS
<1>2. PICK s : s = mv.chpl \o e
  OBVIOUS
<1>3. Keyed(mv) /\ IsSeq(mv.chpl)
  BY NamedIsKeyed DEF Good, Keyed, Shape, Rest
<1>4. IsSeq(e)
  <2>1. Len(list) \in Nat /\ DOMAIN list = 1..Len(list)
    BY SeqDomain
  <2>2. DOMAIN e = 1..Len(list) /\ e = [k \in DOMAIN e |-> e[k]]
    BY <1>1, <2>1
  <2> QED
    BY <2>1, <2>2, MadeSeq
<1>5. IsSeq(s)
  BY <1>2, <1>3, <1>4, JoinedSeq
<1>6. AddNeroChapters(mv, list) = [mv EXCEPT !.chpl = s]
  BY <1>1, <1>2 DEF AddNeroChapters
<1> QED
  BY <1>3, <1>5, <1>6, ListSet, SameReferencesKeep

\* Cells that can be put on the disk anywhere.
AreCells(cells) == IsSeq(cells) /\ \A i \in 1..Len(cells) : IsCell(cells[i])

LEMMA TextIsSamples ==
    ASSUME NEW list, IsSeq(list), NEW before, NEW s, s = TextSamples(list, before)
    PROVE  /\ IsSeq(s) /\ Len(s) = Len(list)
           /\ \A k \in 1..Len(s) : s[k][2][1] = "text"
<1>1. Len(list) \in Nat /\ DOMAIN list = 1..Len(list)
  BY SeqDomain
<1>2. /\ DOMAIN s = 1..Len(list) /\ s = [k \in DOMAIN s |-> s[k]]
      /\ \A k \in 1..Len(list) : s[k][2][1] = "text"
  BY <1>1 DEF TextSamples
<1>3. IsSeq(s) /\ Len(s) = Len(list)
  BY <1>1, <1>2, MadeSeq
<1> QED
  BY <1>2, <1>3

LEMMA MediaIsCell ==
    ASSUME NEW cell, cell[1] \in {"text", "media", "fill"}
    PROVE  IsCell(cell)
BY DEF IsCell

LEMMA ChaptersAdded ==
    ASSUME NEW mv, Good(mv), NEW f, NEW before, NEW list, IsSeq(list), NEW type,
           NEW r, r = AddChapters(mv, f, before, list, type)
    PROVE  /\ Fair(r.movie)
           /\ IsSeq(r.samples) /\ \A k \in 1..Len(r.samples) : r.samples[k][2][1] = "text"
<1>1. PICK nero : nero = IF type = QtType THEN mv ELSE AddNeroChapters(mv, list)
  OBVIOUS
<1>2. PICK text : text = AddChapterTextTrack(nero, FirstMediaTrack(mv))
  OBVIOUS
<1>3. PICK s : s = TextSamples(list, before)
  OBVIOUS
<1>4. PICK w : w = WriteSamples(text, f, Newest(text), s)
  OBVIOUS
<1>5. Good(nero)
  BY <1>1, NeroChaptersAdded
<1>6. Fair(text) /\ Keyed(text)
  BY <1>2, <1>5, AddsReferringTrack, FairIsKeyed
<1>7. IsSeq(s) /\ \A k \in 1..Len(s) : s[k][2][1] = "text"
  BY <1>3, TextIsSamples
<1>8. Fair(w)
  BY <1>4, <1>6, <1>7, SamplesWritten, SameReferencesKeep
<1>9. \/ r = [movie |-> nero, samples |-> << >>]
      \/ r = [movie |-> text, samples |-> << >>]
      \/ r = [movie |-> w, samples |-> s]
  BY <1>1, <1>2, <1>3, <1>4 DEF AddChapters
<1>10. /\ r.movie \in {nero, text, w} /\ r.samples \in {<< >>, s}
  BY <1>9
<1>11. IsSeq(<< >>) /\ Len(<< >>) = 0
  BY EmptyIsSeq
<1> QED
  BY <1>5, <1>6, <1>7, <1>8, <1>10, <1>11 DEF Fair

LEMMA ChaptersAreList ==
    ASSUME NEW mv, Named(mv), NEW cells, NEW type
    PROVE  IsSeq(GetChapters(mv, cells, type))
<1>1. IsSeq(GetNeroChapters(mv))
  <2>1. PICK n : n = Len(mv.chpl)
    OBVIOUS
  <2>2. n \in Nat
    BY <2>1, SeqDomain DEF Named, Keyed, Shape, Rest
  <2>3. PICK s : s = GetNeroChapters(mv)
    OBVIOUS
  <2>4. DOMAIN s = 1..n /\ s = [k \in DOMAIN s |-> s[k]]
    BY <2>1, <2>3 DEF GetNeroChapters
  <2> QED
    BY <2>2, <2>3, <2>4, MadeSeq
<1>2. IsSeq(GetQtChapters(mv, cells))
  <2>1. CASE FindChapterTrack(mv) = 0
    BY <2>1, EmptyIsSeq DEF GetQtChapters, None
  <2>2. CASE FindChapterTrack(mv) # 0
    <3> DEFINE d == Len(mv.tracks)
               e == [j \in DOMAIN mv.tracks |-> j]
               I == {i \in 1..Len(e) : /\ KindAt(mv, e[i]) = "text"
                                       /\ FindChapterReferenceTrack(mv, IdAt(mv, e[i])) # 0}
               x == SelectInSeq(e, LAMBDA j : /\ KindAt(mv, j) = "text"
                                              /\ FindChapterReferenceTrack(mv, IdAt(mv, j)) # 0)
    <3>1. d \in Nat /\ DOMAIN mv.tracks = 1..d
      BY TraksDomain DEF Named, Keyed
    <3>2. Len(e) = d
      <4>1. DOMAIN e = 1..d /\ e = [k \in DOMAIN e |-> e[k]]
        BY <3>1
      <4> HIDE DEF e, d
      <4> QED
        BY <3>1, <4>1, MadeSeq
    <3>3. I = {} => x = 0
      BY DEF SelectInSeq
    <3>4. I # {} => x = Min(I)
      BY DEF SelectInSeq
    <3>5. FindChapterTrack(mv) = IF x = 0 THEN 0 ELSE IdAt(mv, x)
      BY DEF FindChapterTrack
    <3>6. I \subseteq 1..d
      BY <3>2
    <3> HIDE DEF I, x, e, d
    <3>7. x \in 1..d /\ FindChapterTrack(mv) = IdAt(mv, x)
      <4>1. I \subseteq Nat
        BY <3>1, <3>6
      <4> QED
        BY <2>2, <3>3, <3>4, <3>5, <3>6, <4>1, SmallestOf
    <3>8. TrackIndex(mv, FindChapterTrack(mv)) = x
      BY <3>7, TrackIndexFinds DEF d
    <3>9. PICK j \in 1..Len(mv.traks) : TrakOf(mv, mv.tracks[x]) = mv.traks[j]
      BY <3>7, TrakOfTrack, NamedIsKeyed DEF d
    <3>10. PICK samples : samples = mv.traks[j].samples
      OBVIOUS
    <3>11. IsSeq(samples)
      BY <3>10 DEF Named, Keyed, Shape, Listed, IsTrak
    <3>12. GetQtChapters(mv, cells) = ReadChapters(samples, cells)
      BY <2>2, <3>8, <3>9, <3>10 DEF GetQtChapters
    <3>13. PICK s : s = ReadChapters(samples, cells)
      OBVIOUS
    <3>14. DOMAIN s = DOMAIN samples /\ s = [k \in DOMAIN s |-> s[k]]
      <4>1. PICK at : at = SampleIdsByTime(samples)
        OBVIOUS
      <4>2. s = [k \in DOMAIN samples |->
                    << samples[at[k]].duration, ReadTitle(cells, samples[at[k]].at) >>]
        BY <3>13, <4>1 DEF ReadChapters
      <4> QED
        BY <4>2
    <3> QED
      BY <3>11, <3>12, <3>13, <3>14, SeqDomain, MadeSeq
  <2> QED
    BY <2>1, <2>2
<1> QED
  BY <1>1, <1>2 DEF GetChapters

-----------------------------------------------------------------------------
(* Values computed one after the other.                                    *)

Stepping(n, D, a, F, g) ==
    g \in [0..n -> D] /\ g[0] = a /\ \A k \in 1..n : g[k] = F[k][g[k - 1]]

LEMMA StepByStep ==
    ASSUME NEW n \in Nat, NEW D, NEW a \in D, NEW F \in [1..n -> [D -> D]]
    PROVE  \E g : Stepping(n, D, a, F, g)
<1> DEFINE I == 0..n
           At(g, k) == IF k = 0 THEN a ELSE F[k][g[k - 1]]
           A == {m \in Nat : \E g \in [I -> D] : \A k \in I : k <= m => g[k] = At(g, k)}
<1>1. 0 \in A
  <2> DEFINE g == [k \in I |-> a]
  <2>1. g \in [I -> D]
    OBVIOUS
  <2>2. ASSUME NEW k \in I, k <= 0 PROVE g[k] = At(g, k)
    <3>1. k = 0
      BY <2>2
    <3> QED
      BY <3>1
  <2> QED
    BY <2>1, <2>2
<1>2. ASSUME NEW m \in Nat, m \in A PROVE m + 1 \in A
  <2>1. PICK g \in [I -> D] : \A k \in I : k <= m => g[k] = At(g, k)
    BY <1>2
  <2> DEFINE h == [k \in I |-> IF k = m + 1 THEN F[k][g[k - 1]] ELSE g[k]]
  <2>2. h \in [I -> D]
    <3> SUFFICES ASSUME NEW k \in I PROVE h[k] \in D
      OBVIOUS
    <3>1. CASE k = m + 1
      <4>1. k \in 1..n /\ k - 1 \in I
        BY <3>1
      <4> QED
        BY <3>1, <4>1
    <3>2. CASE k # m + 1
      BY <3>2
    <3> QED
      BY <3>1, <3>2
  <2>3. ASSUME NEW k \in I, k <= m + 1 PROVE h[k] = At(h, k)
    <3>1. CASE k = m + 1
      <4>1. k # 0 /\ k - 1 \in I /\ k - 1 # m + 1
        BY <3>1
      <4> QED
        BY <3>1, <4>1
    <3>2. CASE k # m + 1
      <4>1. k <= m /\ h[k] = g[k]
        BY <2>3, <3>2
      <4>2. k # 0 => k - 1 \in I /\ h[k - 1] = g[k - 1]
        BY <4>1
      <4>3. g[k] = At(g, k)
        BY <2>1, <4>1
      <4> QED
        BY <4>1, <4>2, <4>3
    <3> QED
      BY <3>1, <3>2
  <2> HIDE DEF h
  <2> QED
    BY <2>2, <2>3
<1> HIDE DEF A
<1>3. n \in A
  BY <1>1, <1>2, EveryNumber
<1> USE DEF A
<1>4. PICK g \in [I -> D] : \A k \in I : k <= n => g[k] = At(g, k)
  BY <1>3
<1>5. \A k \in I : k <= n
  OBVIOUS
<1>6. g[0] = a /\ \A k \in 1..n : k # 0 /\ k \in I
  BY <1>4
<1> QED
  BY <1>4, <1>5, <1>6 DEF Stepping

LEMMA StaysIn ==
    ASSUME NEW n \in Nat, NEW D, NEW g, g[0] \in D,
           \A k \in 1..n : g[k - 1] \in D => g[k] \in D
    PROVE  \A k \in 0..n : g[k] \in D
<1> DEFINE A == {m \in Nat : m <= n => g[m] \in D}
<1>1. 0 \in A
  OBVIOUS
<1>2. ASSUME NEW m \in Nat, m \in A PROVE m + 1 \in A
  <2>1. CASE m + 1 <= n
    <3>1. m + 1 \in 1..n /\ (m + 1) - 1 = m /\ g[m] \in D
      BY <1>2, <2>1
    <3> QED
      BY <3>1
  <2>2. CASE ~ (m + 1 <= n)
    BY <2>2
  <2> QED
    BY <2>1, <2>2
<1> HIDE DEF A
<1>3. Nat \subseteq A
  BY <1>1, <1>2, EveryNumber
<1> QED
  BY <1>3 DEF A

-----------------------------------------------------------------------------
(* Storing tags.                                                           *)

LEMMA FieldsAre == Len(Fields) = 8 /\ DOMAIN Fields = 1..8
BY DEF Fields

LEMMA CodeRemoved ==
    ASSUME NEW S, NEW s \in Seq(S), NEW code
    PROVE  RemoveCode(s, code) \in Seq(S)
<1> DEFINE I == {i \in 1..Len(s) : s[i].code = code}
           i == IndexOfCode(s, code)
<1>1. i = IF I = {} THEN 0 ELSE Min(I)
  BY DEF IndexOfCode, SelectInSeq
<1>2. I \subseteq 1..Len(s) /\ 1..Len(s) \subseteq Nat
  BY LenProperties
<1> HIDE DEF I, i
<1>3. i # 0 => i \in 1..Len(s)
  BY <1>1, <1>2, SmallestOf
<1>4. i # 0 => RemoveAt(s, i) \in Seq(S)
  BY <1>3, RemoveAtProperties
<1> QED
  BY <1>4 DEF RemoveCode, i

LEMMA TagsStored ==
    ASSUME NEW items, IsSeq(items), NEW obj
    PROVE  IsSeq(Store(obj, items))
<1> DEFINE Item(k) == [code |-> Fields[k].code, mean |-> "",
                       data |-> << [type |-> Fields[k].type,
                                    value |-> Encode(Fields[k], obj.fields[k][1])] >>]
           E == {Item(k) : k \in 1..8}
<1>1. PICK R : items \in Seq(R)
  BY DEF IsSeq
<1> DEFINE S == R \cup E
           D == Seq(S)
           F == [k \in 1..8 |-> [s \in D |-> StoreField(s, Fields[k], obj.fields[k])]]
<1>2. items \in D
  <2>1. items \in [1..Len(items) -> R] /\ Len(items) \in Nat
    BY <1>1, LenProperties
  <2>2. items \in [1..Len(items) -> S]
    BY <2>1
  <2> HIDE DEF S
  <2> QED
    BY <2>1, <2>2, FunctionIsSeq
<1>3. F \in [1..8 -> [D -> D]]
  <2> SUFFICES ASSUME NEW k \in 1..8, NEW s \in D
               PROVE  StoreField(s, Fields[k], obj.fields[k]) \in D
    OBVIOUS
  <2>1. Item(k) \in S
    OBVIOUS
  <2>2. RemoveCode(s, Fields[k].code) \in D
    BY CodeRemoved
  <2>3. Append(RemoveCode(s, Fields[k].code), Item(k)) \in D
    <3> HIDE DEF S
    <3> QED
      BY <2>1, <2>2, AppendProperties
  <2>4. StoreField(s, Fields[k], obj.fields[k]) =
          IF obj.fields[k] = Absent THEN RemoveCode(s, Fields[k].code)
          ELSE Append(RemoveCode(s, Fields[k].code), Item(k))
    BY DEF StoreField, StoreCode
  <2> HIDE DEF D
  <2> QED
    BY <2>2, <2>3, <2>4
<1> HIDE DEF D
<1> DEFINE Stored(g) == g = [k \in 0 .. Len(Fields) |->
                               IF k = 0 THEN items ELSE StoreField(g[k - 1], Fields[k], obj.fields[k])]
           stored == CHOOSE g : Stored(g)
<1>4. \E g : Stored(g)
  <2>1. PICK n \in Nat : n = 8
    OBVIOUS
  <2>2. F \in [1..n -> [D -> D]]
    BY <1>3, <2>1
  <2> HIDE DEF F
  <2>3. PICK g : Stepping(n, D, items, F, g)
    BY <1>2, <2>2, StepByStep
  <2>4. ASSUME NEW k \in 0..8
        PROVE  g[k] = IF k = 0 THEN items ELSE StoreField(g[k - 1], Fields[k], obj.fields[k])
    <3>1. k # 0 => k \in 1..8 /\ k - 1 \in 0..8 /\ g[k - 1] \in D
      BY <2>1, <2>3 DEF Stepping
    <3>2. k # 0 => F[k][g[k - 1]] = StoreField(g[k - 1], Fields[k], obj.fields[k])
      BY <3>1 DEF F
    <3>3. g[k] = IF k = 0 THEN items ELSE F[k][g[k - 1]]
      BY <2>1, <2>3, <3>1 DEF Stepping
    <3> QED
      BY <3>2, <3>3
  <2>5. DOMAIN g = 0..8 /\ g = [k \in DOMAIN g |-> g[k]]
    BY <2>1, <2>3 DEF Stepping
  <2>6. Stored(g)
    BY <2>3, <2>4, <2>5, FieldsAre
  <2> QED
    BY <2>6
<1>6. Stored(stored)
  BY <1>4
<1> HIDE DEF stored
<1>7. stored[8] \in D
  <2>1. PICK n \in Nat : n = 8
    OBVIOUS
  <2>2. stored[0] \in D
    BY <1>2, <1>6, FieldsAre
  <2>3. ASSUME NEW k \in 1..n, stored[k - 1] \in D PROVE stored[k] \in D
    <3>1. k \in 1..8 /\ k \in 0..8 /\ k # 0
      BY <2>1
    <3>2. stored[k] = StoreField(stored[k - 1], Fields[k], obj.fields[k])
      BY <1>6, <3>1, FieldsAre
    <3>3. F[k][stored[k - 1]] \in D
      <4> HIDE DEF F
      <4> QED
        BY <1>3, <2>3, <3>1
    <3>4. F[k][stored[k - 1]] = StoreField(stored[k - 1], Fields[k], obj.fields[k])
      BY <2>3, <3>1
    <3> QED
      BY <3>2, <3>3, <3>4
  <2>4. \A k \in 0..n : stored[k] \in D
    BY <2>2, <2>3, StaysIn
  <2> QED
    BY <2>1, <2>4
<1>8. PICK r : r = RemoveCode(stored[Len(Fields)], "covr")
  OBVIOUS
<1>9. IsSeq(r)
  <2>1. r \in D
    BY <1>7, <1>8, FieldsAre, CodeRemoved DEF D
  <2> QED
    BY <2>1 DEF D, IsSeq
<1>10. Store(obj, items) = AddCovers(r, obj.artwork)
  BY <1>8 DEF Store, stored
<1>11. IsSeq(AddCovers(r, obj.artwork))
  <2>1. PICK pictures : pictures = [k \in DOMAIN obj.artwork |-> Picture(obj.artwork[k])]
    OBVIOUS
  <2>2. PICK i : i = IndexOfCode(r, "covr")
    OBVIOUS
  <2>3. \/ AddCovers(r, obj.artwork) = r
        \/ AddCovers(r, obj.artwork) = Append(r, [code |-> "covr", mean |-> "", data |-> pictures])
        \/ AddCovers(r, obj.artwork) = [r EXCEPT ![i].data = @ \o pictures]
    BY <2>1, <2>2 DEF AddCovers
  <2>4. IsSeq([r EXCEPT ![i].data = @ \o pictures])
    <3>1. PICK s : s = [r EXCEPT ![i].data = @ \o pictures]
      OBVIOUS
    <3>2. DOMAIN s = DOMAIN r /\ s = [k \in DOMAIN s |-> s[k]]
      BY <3>1
    <3> QED
      BY <1>9, <3>1, <3>2, SeqDomain, MadeSeq
  <2>5. IsSeq(Append(r, [code |-> "covr", mean |-> "", data |-> pictures]))
    BY <1>9, AppendToSeq
  <2> QED
    BY <1>9, <2>3, <2>4, <2>5
<1> QED
  BY <1>10, <1>11

LEMMA ItemsEdited ==
    ASSUME NEW items, IsSeq(items), NEW item, NEW i \in DOMAIN items
    PROVE  IsSeq([items EXCEPT ![i] = item]) /\ IsSeq(RemoveAt(items, i))
<1>1. Len(items) \in Nat /\ DOMAIN items = 1..Len(items)
  BY SeqDomain
<1>2. IsSeq([items EXCEPT ![i] = item])
  <2>1. PICK s : s = [items EXCEPT ![i] = item]
    OBVIOUS
  <2>2. DOMAIN s = 1..Len(items) /\ s = [k \in DOMAIN s |-> s[k]]
    BY <1>1, <2>1
  <2> QED
    BY <1>1, <2>1, <2>2, MadeSeq
<1>3. PICK S : items \in Seq(S)
  BY DEF IsSeq
<1>4. RemoveAt(items, i) \in Seq(S)
  BY <1>1, <1>3, RemoveAtProperties
<1> QED
  BY <1>2, <1>4 DEF IsSeq

-----------------------------------------------------------------------------
(* Reading and saving a movie.                                             *)

\* t lists the first m trak boxes that have a track.
Picked(traks, m, t) ==
    /\ t \in Seq(Nat)
    /\ \A i \in 1..Len(t) : t[i] \in 1..m /\ traks[t[i]].kind # "broken"
    /\ \A i, j \in 1..Len(t) : t[i] = t[j] => i = j
    /\ \A k \in 1..m : traks[k].kind # "broken" => \E i \in 1..Len(t) : t[i] = k

LEMMA PickedNext ==
    ASSUME NEW traks, NEW m \in Nat, NEW t, Picked(traks, m, t), NEW u,
           u = IF traks[m + 1].kind = "broken" THEN t ELSE Append(t, m + 1)
    PROVE  Picked(traks, m + 1, u)
<1>1. /\ t \in Seq(Nat) /\ Len(t) \in Nat
      /\ \A i \in 1..Len(t) : t[i] \in 1..m /\ traks[t[i]].kind # "broken"
      /\ \A i, j \in 1..Len(t) : t[i] = t[j] => i = j
      /\ \A k \in 1..m : traks[k].kind # "broken" => \E i \in 1..Len(t) : t[i] = k
  BY LenProperties DEF Picked
<1>2. \A k \in 1 .. m + 1 : k \in 1..m \/ k = m + 1
  OBVIOUS
<1>3. CASE traks[m + 1].kind = "broken"
  <2>1. u = t
    BY <1>3
  <2>2. \A i \in 1..Len(t) : t[i] \in 1 .. m + 1
    BY <1>1
  <2> QED
    BY <1>1, <1>2, <1>3, <2>1, <2>2 DEF Picked
<1>4. CASE traks[m + 1].kind # "broken"
  <2>1. /\ u \in Seq(Nat) /\ Len(u) = Len(t) + 1 /\ u[Len(t) + 1] = m + 1
        /\ \A i \in 1..Len(t) : u[i] = t[i]
    BY <1>1, <1>4, AppendProperties
  <2>2. /\ \A i \in 1..Len(u) : i \in 1..Len(t) \/ i = Len(t) + 1
        /\ \A i \in 1..Len(t) : i \in 1..Len(u)
        /\ Len(t) + 1 \in 1..Len(u)
    BY <1>1, <2>1
  <2>3. \A i \in 1..Len(t) : t[i] \in 1 .. m + 1 /\ t[i] # m + 1
    BY <1>1
  <2>4. \A i \in 1..Len(u) : u[i] \in 1 .. m + 1 /\ traks[u[i]].kind # "broken"
    BY <1>1, <1>4, <2>1, <2>2, <2>3
  <2>5. \A i, j \in 1..Len(u) : u[i] = u[j] => i = j
    BY <1>1, <2>1, <2>2, <2>3
  <2>6. ASSUME NEW k \in 1 .. m + 1, traks[k].kind # "broken"
        PROVE  \E i \in 1..Len(u) : u[i] = k
    <3>1. CASE k = m + 1
      BY <2>1, <2>2, <3>1
    <3>2. CASE k \in 1..m
      <4>1. PICK i \in 1..Len(t) : t[i] = k
        BY <1>1, <2>6, <3>2
      <4> QED
        BY <2>1, <2>2, <4>1
    <3> QED
      BY <1>2, <3>1, <3>2
  <2> QED
    BY <2>1, <2>4, <2>5, <2>6 DEF Picked
<1> QED
  BY <1>3, <1>4

LEMMA TracksRead ==
    ASSUME NEW traks, IsSeq(traks)
    PROVE  Picked(traks, Len(traks), ReadTracks(traks))
<1> DEFINE n == Len(traks)
           D == Seq(Nat)
           F == [k \in 1..n |-> [s \in D |-> IF traks[k].kind = "broken" THEN s ELSE Append(s, k)]]
           Read(g) == g = [k \in 0..n |->
                             IF k = 0 THEN << >>
                             ELSE IF traks[k].kind = "broken" THEN g[k - 1] ELSE Append(g[k - 1], k)]
           read == CHOOSE g : Read(g)
<1>1. n \in Nat
  BY SeqDomain
<1>2. << >> \in D
  BY EmptyIsSeq
<1>3. F \in [1..n -> [D -> D]]
  <2>1. ASSUME NEW k \in 1..n, NEW s \in D PROVE Append(s, k) \in D
    <3>1. k \in Nat
      BY <1>1
    <3> QED
      BY <3>1, AppendProperties
  <2> HIDE DEF D
  <2> QED
    BY <2>1
<1> HIDE DEF n
<1>4. \E g : Read(g)
  <2> HIDE DEF D, F
  <2>1. PICK g : Stepping(n, D, << >>, F, g)
    BY <1>1, <1>2, <1>3, StepByStep
  <2>2. ASSUME NEW k \in 0..n
        PROVE  g[k] = IF k = 0 THEN << >>
                      ELSE IF traks[k].kind = "broken" THEN g[k - 1] ELSE Append(g[k - 1], k)
    <3>1. k # 0 => k \in 1..n /\ k - 1 \in 0..n /\ g[k - 1] \in D
      BY <1>1, <2>1 DEF Stepping
    <3>2. k # 0 => F[k][g[k - 1]] =
                     IF traks[k].kind = "broken" THEN g[k - 1] ELSE Append(g[k - 1], k)
      BY <3>1 DEF F
    <3>3. g[k] = IF k = 0 THEN << >> ELSE F[k][g[k - 1]]
      BY <2>1, <3>1 DEF Stepping
    <3> QED
      BY <3>2, <3>3
  <2>3. DOMAIN g = 0..n /\ g = [k \in DOMAIN g |-> g[k]]
    BY <2>1 DEF Stepping
  <2> QED
    BY <2>2, <2>3
<1>5. Read(read)
  BY <1>4
<1> HIDE DEF read
<1> DEFINE A == {m \in Nat : m <= n => Picked(traks, m, read[m])}
<1>6. 0 \in A
  <2>1. read[0] = << >>
    BY <1>1, <1>5
  <2>2. 1..0 = {} /\ Len(<< >>) = 0
    OBVIOUS
  <2> QED
    BY <2>1, <2>2, EmptyIsSeq DEF Picked
<1>7. ASSUME NEW m \in Nat, m \in A PROVE m + 1 \in A
  <2>1. CASE m + 1 <= n
    <3>1. Picked(traks, m, read[m])
      BY <1>1, <1>7, <2>1
    <3>2. m + 1 \in 0..n /\ m + 1 # 0 /\ (m + 1) - 1 = m
      BY <1>1, <2>1
    <3>3. read[m + 1] = IF traks[m + 1].kind = "broken" THEN read[m] ELSE Append(read[m], m + 1)
      BY <1>5, <3>2
    <3>4. Picked(traks, m + 1, read[m + 1])
      BY <3>1, <3>3, PickedNext
    <3> QED
      BY <3>4
  <2>2. CASE ~ (m + 1 <= n)
    BY <2>2
  <2> QED
    BY <2>1, <2>2
<1> HIDE DEF A
<1>8. Nat \subseteq A
  BY <1>6, <1>7, EveryNumber
<1>9. Picked(traks, n, read[n])
  BY <1>1, <1>8 DEF A
<1> QED
  BY <1>9 DEF ReadTracks, read, n

\* IsMoov, in the words of the proofs.
LEMMA MoovIs ==
    ASSUME NEW moov, IsMoov(moov)
    PROVE  /\ IsSeq(moov.traks) /\ IsSeq(moov.chpl) /\ IsSeq(moov.items)
           /\ moov.next \in 1 .. MaxTrackId + 1
           /\ \A i \in 1..Len(moov.traks) :
                 /\ TrakFields \subseteq DOMAIN moov.traks[i]
                 /\ moov.traks[i].id \in Nat \ {0} /\ IsSeq(moov.traks[i].samples)
                 /\ Mpod(moov.traks[i]) \in Seq(Nat) /\ IsInjective(Mpod(moov.traks[i]))
                 /\ \A r \in Range(Mpod(moov.traks[i])) : \E j \in 1..Len(moov.traks) :
                       moov.traks[j].id = r /\ moov.traks[j].kind # "broken"
                 /\ Mpod(moov.traks[i]) # << >> => moov.traks[i].kind = "odsm"
           /\ \A i, j \in 1..Len(moov.traks) : moov.traks[i].id = moov.traks[j].id => i = j
           /\ \A i, j \in 1..Len(moov.traks) :
                 moov.traks[i].kind = "odsm" /\ moov.traks[j].kind = "odsm" => i = j
           /\ {"present", "ids"} \subseteq DOMAIN moov.iods /\ moov.iods.ids \in Seq(Nat)
           /\ IsInjective(moov.iods.ids)
           /\ \A r \in Range(moov.iods.ids) : \E j \in 1..Len(moov.traks) :
                 moov.traks[j].id = r /\ moov.traks[j].kind # "broken"
<1>1. IsList(moov.traks) /\ IsList(moov.chpl) /\ IsList(moov.items)
  BY DEF IsMoov
<1>2. DOMAIN moov.traks = 1..Len(moov.traks)
  BY <1>1, ListIsSeq, SeqDomain
<1> DEFINE readable == {moov.traks[i].id : i \in {j \in 1..Len(moov.traks) :
                                                    moov.traks[j].kind # "broken"}}
<1>3. \A i \in 1..Len(moov.traks) : RefsAt(moov, i, "mpod") = Mpod(moov.traks[i])
  BY DEF RefsAt, Mpod, MpodOf
<1>4. /\ moov.next \in 1 .. MaxTrackId + 1
      /\ \A i \in 1..Len(moov.traks) :
            /\ {"key", "id", "kind", "refs", "samples"} \subseteq DOMAIN moov.traks[i]
            /\ moov.traks[i].id \in Nat \ {0} /\ IsList(moov.traks[i].samples)
            /\ RefsAt(moov, i, "mpod") \in Seq(Nat) /\ IsInjective(RefsAt(moov, i, "mpod"))
            /\ Range(RefsAt(moov, i, "mpod")) \subseteq readable
            /\ RefsAt(moov, i, "mpod") # << >> => moov.traks[i].kind = "odsm"
      /\ \A i, j \in 1..Len(moov.traks) :
            \/ moov.traks[i].id = moov.traks[j].id
            \/ moov.traks[i].kind = "odsm" /\ moov.traks[j].kind = "odsm"
            => i = j
      /\ {"present", "ids"} \subseteq DOMAIN moov.iods
      /\ moov.iods.ids \in Seq(Nat) /\ IsInjective(moov.iods.ids)
      /\ Range(moov.iods.ids) \subseteq readable
  BY <1>2 DEF IsMoov
<1>5. \A r \in readable : \E j \in 1..Len(moov.traks) :
        moov.traks[j].id = r /\ moov.traks[j].kind # "broken"
  OBVIOUS
<1> HIDE DEF readable
<1>6. /\ IsSeq(moov.traks) /\ IsSeq(moov.chpl) /\ IsSeq(moov.items)
      /\ \A i \in 1..Len(moov.traks) : IsSeq(moov.traks[i].samples)
  BY <1>1, <1>4, ListIsSeq
<1>7. \A i \in 1..Len(moov.traks) :
        /\ TrakFields \subseteq DOMAIN moov.traks[i] /\ moov.traks[i].id \in Nat \ {0}
        /\ Mpod(moov.traks[i]) \in Seq(Nat) /\ IsInjective(Mpod(moov.traks[i]))
        /\ \A r \in Range(Mpod(moov.traks[i])) : r \in readable
        /\ Mpod(moov.traks[i]) # << >> => moov.traks[i].kind = "odsm"
  BY <1>3, <1>4 DEF TrakFields
<1>8. \A r \in Range(moov.iods.ids) : r \in readable
  BY <1>4
<1> QED
  BY <1>4, <1>5, <1>6, <1>7, <1>8

LEMMA MovieRead ==
    ASSUME NEW moov, IsMoov(moov), NEW brands \in Int
    PROVE  Good(ReadMovie(moov, brands))
<1> DEFINE c == Len(moov.traks)
<1>1. PICK traks : traks = ReadTraks(moov.traks)
  OBVIOUS
<1>2. PICK ids : ids = [i \in DOMAIN traks |-> traks[i].id]
  OBVIOUS
<1>3. PICK ts : ts = ReadTracks(traks)
  OBVIOUS
<1>4. PICK m : m = [traks |-> traks, ids |-> ids, tracks |-> ts, od |-> 0, next |-> moov.next,
                    iods |-> moov.iods, chpl |-> moov.chpl, items |-> moov.items,
                    duration |-> moov.duration, brands |-> brands, isma |-> FALSE, ok |-> TRUE]
  OBVIOUS
<1>5. PICK n : n = [m EXCEPT !.od = FirstOfKind(m, "odsm")]
  OBVIOUS
<1>6. ReadMovie(moov, brands) = n
  BY <1>1, <1>2, <1>3, <1>4, <1>5 DEF ReadMovie
<1>7. c \in Nat /\ DOMAIN moov.traks = 1..c
  BY MoovIs, SeqDomain
<1>8. /\ IsSeq(traks) /\ Len(traks) = c /\ DOMAIN traks = 1..c
      /\ \A i \in 1..c : traks[i] = [moov.traks[i] EXCEPT !.key = i]
  <2>1. /\ DOMAIN traks = 1..c /\ traks = [i \in DOMAIN traks |-> traks[i]]
        /\ \A i \in 1..c : traks[i] = [moov.traks[i] EXCEPT !.key = i]
    BY <1>1, <1>7 DEF ReadTraks
  <2> QED
    BY <1>7, <2>1, MadeSeq
<1>9. /\ \A i \in 1..c :
            /\ TrakFields \subseteq DOMAIN moov.traks[i]
            /\ moov.traks[i].id \in Nat \ {0} /\ IsSeq(moov.traks[i].samples)
            /\ Mpod(moov.traks[i]) \in Seq(Nat) /\ IsInjective(Mpod(moov.traks[i]))
            /\ \A r \in Range(Mpod(moov.traks[i])) : \E j \in 1..c :
                  moov.traks[j].id = r /\ moov.traks[j].kind # "broken"
            /\ Mpod(moov.traks[i]) # << >> => moov.traks[i].kind = "odsm"
      /\ \A i, j \in 1..c : moov.traks[i].id = moov.traks[j].id => i = j
      /\ \A i, j \in 1..c : moov.traks[i].kind = "odsm" /\ moov.traks[j].kind = "odsm" => i = j
      /\ \A r \in Range(moov.iods.ids) : \E j \in 1..c :
            moov.traks[j].id = r /\ moov.traks[j].kind # "broken"
  BY MoovIs
<1>10. /\ {"present", "ids"} \subseteq DOMAIN moov.iods /\ moov.iods.ids \in Seq(Nat)
       /\ IsInjective(moov.iods.ids) /\ IsSeq(moov.chpl) /\ IsSeq(moov.items)
       /\ moov.next \in 1 .. MaxTrackId + 1
  BY MoovIs
<1> HIDE DEF c
<1>11. ASSUME NEW i \in 1..c
       PROVE  /\ IsTrak(traks[i]) /\ traks[i].key = i /\ traks[i].id = moov.traks[i].id
              /\ traks[i].kind = moov.traks[i].kind /\ Mpod(traks[i]) = Mpod(moov.traks[i])
  <2>1. /\ DOMAIN traks[i] = DOMAIN moov.traks[i] /\ traks[i].key = i
        /\ traks[i].id = moov.traks[i].id /\ traks[i].kind = moov.traks[i].kind
        /\ traks[i].refs = moov.traks[i].refs /\ traks[i].samples = moov.traks[i].samples
    BY <1>8, <1>9 DEF TrakFields
  <2>2. Mpod(traks[i]) = Mpod(moov.traks[i])
    BY <2>1 DEF Mpod
  <2>3. i \in Nat
    BY <1>7
  <2> QED
    BY <1>9, <2>1, <2>2, <2>3 DEF IsTrak
<1>111. \A i \in 1..c : traks[i].id # 0
  <2> SUFFICES ASSUME NEW i \in 1..c PROVE traks[i].id # 0
    OBVIOUS
  <2>1. traks[i].id = moov.traks[i].id
    BY <1>11
  <2>2. moov.traks[i].id \in Nat \ {0}
    BY <1>9
  <2> QED
    BY <2>1, <2>2
<1>112. \A i \in 1..c : \A r \in Range(Mpod(traks[i])) : \E j \in 1..c :
          moov.traks[j].id = r /\ moov.traks[j].kind # "broken"
  <2> SUFFICES ASSUME NEW i \in 1..c, NEW r \in Range(Mpod(traks[i]))
               PROVE \E j \in 1..c : moov.traks[j].id = r /\ moov.traks[j].kind # "broken"
    OBVIOUS
  <2>1. r \in Range(Mpod(moov.traks[i]))
    BY <1>11
  <2> QED
    BY <1>9, <2>1
<1>12. /\ DOMAIN n = MovieFields /\ n.traks = traks /\ n.ids = ids /\ n.tracks = ts
       /\ n.next = moov.next /\ n.iods = moov.iods /\ n.chpl = moov.chpl
       /\ n.items = moov.items /\ n.brands = brands /\ n.od = FirstOfKind(m, "odsm")
       /\ DOMAIN m = MovieFields /\ m.traks = traks /\ m.ids = ids /\ m.tracks = ts
       /\ m.next = moov.next /\ m.iods = moov.iods /\ m.chpl = moov.chpl
       /\ m.items = moov.items /\ m.brands = brands
  BY <1>4, <1>5 DEF MovieFields
<1>13. ids \in Seq(Nat) /\ Len(ids) = c /\ \A i \in 1..c : ids[i] = traks[i].id
  <2>1. ids \in [1..c -> Nat] /\ \A i \in 1..c : ids[i] = traks[i].id
    BY <1>2, <1>8, <1>9, <1>11
  <2> QED
    BY <1>7, <2>1, FunctionIsSeq
<1>14. /\ ts \in Seq(Nat)
       /\ \A i \in 1..Len(ts) : ts[i] \in 1..c /\ traks[ts[i]].kind # "broken"
       /\ \A i, j \in 1..Len(ts) : ts[i] = ts[j] => i = j
       /\ \A k \in 1..c : traks[k].kind # "broken" => \E i \in 1..Len(ts) : ts[i] = k
  BY <1>3, <1>8, TracksRead DEF Picked
<1>15. Rest(m) /\ Rest(n)
  BY <1>10, <1>12 DEF Rest
<1>16. Listed(m) /\ Listed(n)
  BY <1>8, <1>10, <1>11, <1>12, <1>13, <1>14 DEF Listed
<1>17. /\ \A i, j \in 1..c : traks[i].key = traks[j].key => i = j
       /\ \A i \in 1..Len(ts) : \E j \in 1..c : traks[j].key = ts[i]
  BY <1>11, <1>14
<1>18. Keyed(m) /\ Keyed(n)
  BY <1>8, <1>12, <1>14, <1>15, <1>16, <1>17 DEF Keyed, Shape
<1>19. \A j \in 1..c : traks[j].kind # "broken" <=> \E i \in 1..Len(ts) : ts[i] = traks[j].key
  BY <1>11, <1>14
<1>20. Named(n)
  <2>1. \A i \in 1..c : ids[i] = traks[i].id /\ ids[i] # 0
    BY <1>13, <1>111
  <2>2. \A i, j \in 1..c : traks[i].id = traks[j].id => i = j
    BY <1>9, <1>11
  <2> QED
    BY <1>8, <1>12, <1>13, <1>18, <1>19, <2>1, <2>2 DEF Named
<1>21. \A x : HasTrack(n, x) <=> HasTrack(m, x)
  <2>1. SameNames(m, n)
    BY <1>12, <1>18, SameNamesItself DEF SameNames, Keyed
  <2> QED
    BY <1>18, <2>1, SameTracks
<1>22. ASSUME NEW j \in 1..c, traks[j].kind # "broken" PROVE HasTrack(n, traks[j].id)
  <2>1. PICK i \in 1..Len(ts) : ts[i] = traks[j].key
    BY <1>19, <1>22
  <2> QED
    BY <1>8, <1>12, <1>18, <2>1, HasTrackIs
<1>23. n.od # 0 => HasTrack(n, n.od) /\ \E j \in 1..c : traks[j].id = n.od /\ traks[j].kind = "odsm"
  BY <1>8, <1>12, <1>18, <1>21, FirstOfKindIs
<1>24. ASSUME NEW j \in 1..c, traks[j].kind = "odsm" PROVE n.od # 0
  <2> DEFINE I == {i \in 1..Len(m.tracks) : TrakOf(m, m.tracks[i]).kind = "odsm"}
             i == SelectInSeq(m.tracks, LAMBDA key : TrakOf(m, key).kind = "odsm")
  <2>1. I # {} => i = Min(I)
    BY DEF SelectInSeq
  <2>2. PICK k \in 1..Len(ts) : ts[k] = traks[j].key
    BY <1>19, <1>24
  <2>3. TrakOf(m, m.tracks[k]) = m.traks[j]
    <3>1. KeyIndex(m, m.traks[j].key) = j
      BY <1>8, <1>12, <1>18, KeyIndexFinds
    <3> QED
      BY <1>12, <2>2, <3>1 DEF TrakOf
  <2>4. k \in I /\ I \subseteq Nat
    BY <1>12, <1>14, <1>24, <2>2, <2>3, LenProperties
  <2>5. n.od = IF i = 0 THEN 0 ELSE IdAt(m, i)
    BY <1>12 DEF FirstOfKind
  <2> HIDE DEF I, i
  <2>6. i \in I
    BY <2>1, <2>4, SmallestOf
  <2>7. i \in 1..Len(m.tracks)
    BY <2>6 DEF I
  <2>8. PICK l \in 1..Len(m.traks) : IdAt(m, i) = m.traks[l].id
    BY <1>18, <2>7, TrakOfTrack
  <2>9. m.traks[l].id # 0
    BY <1>8, <1>12, <1>111
  <2>10. i # 0
    BY <2>7
  <2> QED
    BY <2>5, <2>8, <2>9, <2>10
<1>25. \A j \in 1..c : traks[j].kind = "odsm" <=> traks[j].id = n.od
  <2> SUFFICES ASSUME NEW j \in 1..c PROVE traks[j].kind = "odsm" <=> traks[j].id = n.od
    OBVIOUS
  <2>1. ASSUME traks[j].kind = "odsm" PROVE traks[j].id = n.od
    <3>1. PICK l \in 1..c : traks[l].id = n.od /\ traks[l].kind = "odsm"
      BY <1>23, <1>24, <2>1
    <3>2. l = j
      BY <1>9, <1>11, <2>1, <3>1
    <3> QED
      BY <3>1, <3>2
  <2>2. ASSUME traks[j].id = n.od PROVE traks[j].kind = "odsm"
    <3>1. n.od # 0
      BY <1>9, <1>11, <2>2
    <3>2. PICK l \in 1..c : traks[l].id = n.od /\ traks[l].kind = "odsm"
      BY <1>23, <3>1
    <3>3. l = j
      BY <1>9, <1>11, <2>2, <3>2
    <3> QED
      BY <3>2, <3>3
  <2> QED
    BY <2>1, <2>2
<1>26. \A j \in 1..c :
         /\ Mpod(traks[j]) # << >> => traks[j].kind = "odsm"
         /\ IsInjective(Mpod(traks[j]))
         /\ \A r \in Range(Mpod(traks[j])) : HasTrack(n, r)
  <2> SUFFICES ASSUME NEW j \in 1..c, NEW r \in Range(Mpod(traks[j])) PROVE HasTrack(n, r)
    BY <1>9, <1>11
  <2>1. PICK l \in 1..c : moov.traks[l].id = r /\ moov.traks[l].kind # "broken"
    BY <1>112
  <2> QED
    BY <1>11, <1>22, <2>1
<1>27. ASSUME NEW r \in Range(moov.iods.ids) PROVE HasTrack(n, r)
  <2>1. PICK l \in 1..c : moov.traks[l].id = r /\ moov.traks[l].kind # "broken"
    BY <1>9
  <2> QED
    BY <1>11, <1>22, <2>1
<1>28. Referred(n)
  BY <1>8, <1>10, <1>12, <1>23, <1>25, <1>26, <1>27 DEF Referred
<1> QED
  BY <1>6, <1>20, <1>28 DEF Good

LEMMA MovieSaved ==
    ASSUME NEW mv, Good(mv)
    PROVE  IsMoov(Saved(mv))
<1> DEFINE c == Len(mv.traks)
<1>1. PICK s : s = Saved(mv)
  OBVIOUS
<1>2. Named(mv) /\ Keyed(mv)
  BY NamedIsKeyed DEF Good
<1>3. c \in Nat /\ DOMAIN mv.traks = 1..c
  BY <1>2, TraksDomain DEF Keyed
<1>4. /\ s.next = mv.next /\ s.iods = mv.iods /\ s.chpl = mv.chpl /\ s.items = mv.items
      /\ DOMAIN s.traks = 1..c /\ s.traks = [i \in DOMAIN s.traks |-> s.traks[i]]
      /\ \A i \in 1..c : s.traks[i] = [mv.traks[i] EXCEPT !.key = 0]
  BY <1>1, <1>3 DEF Saved
<1>5. ASSUME NEW i \in 1..c
      PROVE  /\ TrakFields \subseteq DOMAIN s.traks[i] /\ s.traks[i].id = mv.traks[i].id
             /\ s.traks[i].kind = mv.traks[i].kind /\ s.traks[i].refs = mv.traks[i].refs
             /\ s.traks[i].samples = mv.traks[i].samples
  <2>1. TrakFields \subseteq DOMAIN mv.traks[i]
    BY <1>2 DEF Keyed, Shape, Listed, IsTrak
  <2> QED
    BY <1>4, <2>1 DEF TrakFields
<1>6. IsSeq(s.traks) /\ IsSeq(s.chpl) /\ IsSeq(s.items)
  <2>1. IsSeq(s.traks)
    BY <1>3, <1>4, MadeSeq
  <2> QED
    BY <1>2, <1>4, <2>1 DEF Keyed, Shape, Rest
<1>7. /\ \A i \in 1..c : /\ IsSeq(mv.traks[i].samples) /\ mv.traks[i].id \in Nat \ {0}
                         /\ Mpod(mv.traks[i]) \in Seq(Nat)
      /\ mv.next \in 1 .. MaxTrackId + 1
      /\ {"present", "ids"} \subseteq DOMAIN mv.iods /\ mv.iods.ids \in Seq(Nat)
  <2>1. \A i \in 1..c : mv.traks[i].id # 0
    BY <1>2 DEF Named
  <2> QED
    BY <1>2, <2>1 DEF Keyed, Shape, Listed, Rest, IsTrak
<1>8. /\ \A i, j \in 1..c : mv.traks[i].id = mv.traks[j].id => i = j
      /\ \A i, j \in 1..c : mv.traks[i].kind = "odsm" /\ mv.traks[j].kind = "odsm" => i = j
      /\ \A j \in 1..c :
            /\ Mpod(mv.traks[j]) # << >> => mv.traks[j].kind = "odsm"
            /\ IsInjective(Mpod(mv.traks[j]))
      /\ IsInjective(mv.iods.ids)
  BY <1>2 DEF Good, Referred, Named
<1> DEFINE readable == {s.traks[i].id : i \in {j \in DOMAIN s.traks : s.traks[j].kind # "broken"}}
<1>9. ASSUME NEW r, HasTrack(mv, r) PROVE r \in readable
  <2>1. PICK i \in 1..Len(mv.tracks), j \in 1..c :
          mv.traks[j].key = mv.tracks[i] /\ mv.traks[j].id = r
    BY <1>2, <1>9, HasTrackIs
  <2>2. mv.traks[j].kind # "broken"
    BY <1>2, <2>1 DEF Named
  <2> QED
    BY <1>4, <1>5, <2>1, <2>2
<1>10. /\ \A j \in 1..c : Range(Mpod(mv.traks[j])) \subseteq readable
       /\ Range(mv.iods.ids) \subseteq readable
  <2> HIDE DEF readable
  <2> QED
    BY <1>9 DEF Good, Referred
<1> HIDE DEF c
<1>11. \A i \in 1..c : RefsAt(s, i, "mpod") = Mpod(mv.traks[i])
  BY <1>5 DEF RefsAt, Mpod, MpodOf
<1>12. IsList(s.traks) /\ IsList(s.chpl) /\ IsList(s.items)
       /\ \A i \in 1..c : IsList(s.traks[i].samples)
  BY <1>5, <1>6, <1>7, ListIsSeq
<1>13. \A i \in 1..c :
         /\ {"key", "id", "kind", "refs", "samples"} \subseteq DOMAIN s.traks[i]
         /\ s.traks[i].id \in Nat \ {0} /\ IsList(s.traks[i].samples)
         /\ RefsAt(s, i, "mpod") \in Seq(Nat) /\ IsInjective(RefsAt(s, i, "mpod"))
         /\ Range(RefsAt(s, i, "mpod")) \subseteq readable
         /\ RefsAt(s, i, "mpod") # << >> => s.traks[i].kind = "odsm"
  BY <1>5, <1>7, <1>8, <1>10, <1>11, <1>12 DEF TrakFields
<1>14. \A i, j \in 1..c :
         \/ s.traks[i].id = s.traks[j].id
         \/ s.traks[i].kind = "odsm" /\ s.traks[j].kind = "odsm"
         => i = j
  BY <1>5, <1>8
<1>15. IsMoov(s)
  BY <1>4, <1>7, <1>8, <1>10, <1>12, <1>13, <1>14 DEF IsMoov
<1> QED
  BY <1>1, <1>15

-----------------------------------------------------------------------------
(* The cells of boxes.                                                     *)

LEMMA GreaterOf ==
    ASSUME NEW a \in Int, NEW b \in Int
    PROVE  Max({a, b}) = IF a >= b THEN a ELSE b
<1> DEFINE S == {a, b}
<1>1. CASE a >= b
  <2>1. \A x \in S : (\A y \in S : x >= y) <=> x = a
    BY <1>1
  <2> QED
    BY <1>1, <2>1 DEF Max
<1>2. CASE b > a
  <2>1. \A x \in S : (\A y \in S : x >= y) <=> x = b
    BY <1>2
  <2> QED
    BY <1>2, <2>1 DEF Max
<1> QED
  BY <1>1, <1>2

LEMMA SmallerOf ==
    ASSUME NEW a \in Int, NEW b \in Int
    PROVE  Min({a, b}) = IF a <= b THEN a ELSE b
<1> DEFINE S == {a, b}
<1>1. CASE a <= b
  <2>1. \A x \in S : (\A y \in S : x <= y) <=> x = a
    BY <1>1
  <2> QED
    BY <1>1, <2>1 DEF Min
<1>2. CASE b < a
  <2>1. \A x \in S : (\A y \in S : x <= y) <=> x = b
    BY <1>2
  <2> QED
    BY <1>2, <2>1 DEF Min
<1> QED
  BY <1>1, <1>2

LEMMA CellsFilled ==
    ASSUME NEW n \in Int
    PROVE  AreCells(Fill(n))
<1>1. PICK m \in Nat : 1..n = 1..m
  <2>1. CASE n >= 0
    BY <2>1
  <2>2. CASE n < 0
    <3>1. 0 \in Nat /\ 1..n = 1..0
      BY <2>2
    <3> QED
      BY <3>1
  <2> QED
    BY <2>1, <2>2
<1>2. PICK s : s = Fill(n)
  OBVIOUS
<1>3. /\ DOMAIN s = 1..m /\ s = [k \in DOMAIN s |-> s[k]]
      /\ \A i \in 1..m : s[i] = << "fill" >>
  BY <1>1, <1>2 DEF Fill
<1>4. IsSeq(s) /\ Len(s) = m
  BY <1>3, MadeSeq
<1>5. IsCell(<< "fill" >>)
  BY DEF IsCell
<1> QED
  BY <1>2, <1>3, <1>4, <1>5 DEF AreCells

LEMMA CellsJoined ==
    ASSUME NEW s, AreCells(s), NEW t, AreCells(t)
    PROVE  AreCells(s \o t)
<1>1. IsSeq(s) /\ IsSeq(t) /\ Len(s) \in Nat /\ Len(t) \in Nat
  BY SeqDomain DEF AreCells
<1>2. PICK u : u = s \o t
  OBVIOUS
<1>3. /\ IsSeq(u) /\ Len(u) = Len(s) + Len(t)
      /\ \A k \in 1..Len(s) : u[k] = s[k]
      /\ \A k \in 1..Len(t) : u[Len(s) + k] = t[k]
  BY <1>1, <1>2, JoinedSeq
<1>4. ASSUME NEW k \in 1..Len(u) PROVE IsCell(u[k])
  <2>1. CASE k <= Len(s)
    <3>1. k \in 1..Len(s)
      BY <1>1, <1>3, <2>1
    <3> QED
      BY <1>3, <3>1 DEF AreCells
  <2>2. CASE k > Len(s)
    <3>1. k - Len(s) \in 1..Len(t) /\ Len(s) + (k - Len(s)) = k
      BY <1>1, <1>3, <2>2
    <3> QED
      BY <1>3, <3>1 DEF AreCells
  <2> QED
    BY <1>1, <1>3, <2>1, <2>2
<1> QED
  BY <1>2, <1>3, <1>4 DEF AreCells

LEMMA OneCell ==
    ASSUME NEW cell, IsCell(cell)
    PROVE  AreCells(<< cell >>)
<1>1. PICK s : s = << cell >>
  OBVIOUS
<1>2. DOMAIN s = 1..1 /\ s = [k \in DOMAIN s |-> s[k]] /\ s[1] = cell
  BY <1>1
<1>3. IsSeq(s) /\ Len(s) = 1
  BY <1>2, MadeSeq
<1> QED
  BY <1>1, <1>2, <1>3 DEF AreCells

LEMMA HeadIsCells ==
    ASSUME NEW type, NEW size \in Int, NEW large
    PROVE  AreCells(BoxHead(type, size, large))
<1>1. AreCells(Fill(HeaderLen - 1))
  BY LayoutAssumption, CellsFilled
<1>2. IsCell(<< "box", type, 1 >>) /\ IsCell(<< "size", size >>) /\ IsCell(<< "box", type, size >>)
  BY DEF IsCell
<1>3. AreCells(<< << "box", type, size >> >>) /\ AreCells(<< << "box", type, 1 >> >>)
      /\ AreCells(<< << "size", size >> >>)
  BY <1>2, OneCell
<1>4. AreCells(<< << "box", type, size >> >> \o Fill(HeaderLen - 1))
  BY <1>1, <1>3, CellsJoined
<1>5. AreCells(<< << "box", type, 1 >> >> \o Fill(HeaderLen - 1))
  BY <1>1, <1>3, CellsJoined
<1>6. AreCells(<< << "box", type, 1 >> >> \o Fill(HeaderLen - 1) \o << << "size", size >> >>)
  BY <1>3, <1>5, CellsJoined
<1>7. AreCells(<< << "box", type, 1 >> >> \o Fill(HeaderLen - 1)
            \o << << "size", size >> >> \o Fill(HeaderLen - 1))
  BY <1>1, <1>6, CellsJoined
<1> QED
  BY <1>4, <1>7 DEF BoxHead

\* What the boxes of an open file are written with.
IsContents(c) == IsMoov(c.moov) /\ c.room \in Int /\ c.brands \in Int

LEMMA DataIsCells ==
    ASSUME NEW b, b.size \in Int, NEW c, c.room \in Int, c.brands \in Int,
           b.type = "moov" => IsMoov(c.moov)
    PROVE  AreCells(Data(b, c))
<1>1. AreCells(Fill(c.room - 1)) /\ AreCells(Fill(c.brands)) /\ AreCells(Fill(b.size))
  BY CellsFilled
<1>2. CASE b.type = "moov"
  <2>1. IsCell(<< "moov", c.moov >>)
    BY <1>2 DEF IsCell
  <2>2. AreCells(<< << "moov", c.moov >> >>)
    BY <2>1, OneCell
  <2>3. AreCells(<< << "moov", c.moov >> >> \o Fill(c.room - 1))
    BY <1>1, <2>2, CellsJoined
  <2> QED
    BY <1>2, <2>3 DEF Data
<1>3. CASE b.type = "ftyp"
  <2>1. IsCell(<< "ftyp", c.brands >>)
    BY DEF IsCell
  <2>2. AreCells(<< << "ftyp", c.brands >> >>)
    BY <2>1, OneCell
  <2>3. AreCells(<< << "ftyp", c.brands >> >> \o Fill(c.brands))
    BY <1>1, <2>2, CellsJoined
  <2> QED
    BY <1>3, <2>3 DEF Data
<1>4. CASE b.type # "moov" /\ b.type # "ftyp"
  BY <1>1, <1>4 DEF Data
<1> QED
  BY <1>2, <1>3, <1>4

-----------------------------------------------------------------------------
(* Writing boxes.                                                          *)

BoxFields  == {"type", "start", "end", "size", "large"}
FileFields == {"boxes", "pos", "length", "use64", "out", "roomAt", "created"}

IsBox(b) == BoxFields \subseteq DOMAIN b /\ b.start \in Int /\ b.end \in Int /\ b.size \in Int

AreBoxes(bs) == IsSeq(bs) /\ \A i \in 1..Len(bs) : IsBox(bs[i])

IsWrite(w) == w[2] \in Int /\ (w[1] # "cut" => AreCells(w[3]))

AreWrites(out) == IsSeq(out) /\ \A i \in 1..Len(out) : IsWrite(out[i])

\* An open file whose writes leave a disk of cells.
IsFile(f) ==
    /\ FileFields \subseteq DOMAIN f /\ AreBoxes(f.boxes) /\ AreWrites(f.out)
    /\ f.pos \in Int /\ f.length \in Int /\ f.roomAt \in Int

SameTypes(f, g) ==
    /\ Len(g.boxes) = Len(f.boxes)
    /\ \A i \in 1..Len(f.boxes) : g.boxes[i].type = f.boxes[i].type

LEMMA WriteAdded ==
    ASSUME NEW out, AreWrites(out), NEW w, IsWrite(w)
    PROVE  AreWrites(Append(out, w))
<1>1. IsSeq(out)
  BY DEF AreWrites
<1>2. PICK a : a = Append(out, w)
  OBVIOUS
<1>3. /\ IsSeq(a) /\ Len(a) = Len(out) + 1 /\ Len(out) \in Nat
      /\ \A i \in 1..Len(out) : a[i] = out[i]
      /\ a[Len(out) + 1] = w
  BY <1>1, <1>2, AppendToSeq
<1>4. \A i \in 1..Len(a) : i \in 1..Len(out) \/ i = Len(out) + 1
  BY <1>3
<1> QED
  BY <1>2, <1>3, <1>4 DEF AreWrites

IsBoxSet(bs, i, b, n) ==
    /\ AreBoxes(n) /\ Len(n) = Len(bs) /\ n[i] = b
    /\ \A j \in 1..Len(bs) : j # i => n[j] = bs[j]

LEMMA BoxSet ==
    ASSUME NEW bs, AreBoxes(bs), NEW i \in 1..Len(bs), NEW b, IsBox(b)
    PROVE  IsBoxSet(bs, i, b, [bs EXCEPT ![i] = b])
<1> DEFINE n == [bs EXCEPT ![i] = b]
<1>1. Len(bs) \in Nat /\ DOMAIN bs = 1..Len(bs)
  BY SeqDomain DEF AreBoxes
<1>2. DOMAIN n = 1..Len(bs) /\ n = [k \in DOMAIN n |-> n[k]] /\ n[i] = b
      /\ \A j \in 1..Len(bs) : j # i => n[j] = bs[j]
  BY <1>1
<1>3. IsSeq(n) /\ Len(n) = Len(bs)
  BY <1>1, <1>2, MadeSeq
<1> QED
  BY <1>2, <1>3 DEF AreBoxes, IsBoxSet

LEMMA PutKeeps ==
    ASSUME NEW f, IsFile(f), NEW cells, AreCells(cells), NEW g, g = Put(f, cells)
    PROVE  IsFile(g) /\ SameTypes(f, g) /\ g.boxes = f.boxes /\ DOMAIN g = DOMAIN f
<1>1. Len(cells) \in Nat
  BY SeqDomain DEF AreCells
<1>2. PICK m : m = Max({f.length, f.pos + Len(cells)})
  OBVIOUS
<1>3. m \in Int
  <2>1. f.length \in Int /\ f.pos + Len(cells) \in Int
    BY <1>1 DEF IsFile
  <2> QED
    BY <1>2, <2>1, GreaterOf
<1>4. PICK w : w = << "write", f.pos, cells >>
  OBVIOUS
<1>5. IsWrite(w)
  BY <1>4 DEF IsWrite, IsFile
<1>6. AreWrites(Append(f.out, w))
  BY <1>5, WriteAdded DEF IsFile
<1>7. /\ DOMAIN g = DOMAIN f /\ g.boxes = f.boxes /\ g.out = Append(f.out, w)
      /\ g.pos = f.pos + Len(cells) /\ g.length = m /\ g.roomAt = f.roomAt
  BY <1>2, <1>4 DEF Put, IsFile, FileFields
<1> QED
  BY <1>1, <1>3, <1>6, <1>7 DEF IsFile, SameTypes

LEMMA BoxBegun ==
    ASSUME NEW f, IsFile(f), NEW i \in 1..Len(f.boxes), NEW large, NEW g, g = BeginBox(f, i, large)
    PROVE  IsFile(g) /\ SameTypes(f, g) /\ DOMAIN g = DOMAIN f /\ g.boxes[i].size = f.boxes[i].size
<1>1. PICK b : b = [f.boxes[i] EXCEPT !.start = f.pos]
  OBVIOUS
<1>2. PICK bs : bs = [f.boxes EXCEPT ![i] = b]
  OBVIOUS
<1>3. PICK h : h = [f EXCEPT !.boxes = bs]
  OBVIOUS
<1>4. [f EXCEPT !.boxes[i].start = f.pos] = h
  BY <1>1, <1>2, <1>3
<1>5. AreBoxes(f.boxes) /\ IsBox(f.boxes[i])
  BY DEF IsFile, AreBoxes
<1>6. IsBox(b) /\ b.type = f.boxes[i].type /\ b.size = f.boxes[i].size
  BY <1>1, <1>5 DEF IsBox, BoxFields, IsFile
<1>7. /\ AreBoxes(bs) /\ Len(bs) = Len(f.boxes) /\ bs[i] = b
      /\ \A j \in 1..Len(bs) : j # i => bs[j] = f.boxes[j]
  BY <1>2, <1>5, <1>6, BoxSet DEF IsBoxSet
<1>8. DOMAIN h = DOMAIN f /\ h.boxes = bs /\ h.out = f.out /\ h.pos = f.pos
      /\ h.length = f.length /\ h.roomAt = f.roomAt
  BY <1>3 DEF IsFile, FileFields
<1>9. IsFile(h)
  BY <1>7, <1>8 DEF IsFile
<1>10. SameTypes(f, h) /\ h.boxes[i].size = f.boxes[i].size
  BY <1>6, <1>7, <1>8 DEF SameTypes
<1>11. PICK cells : cells = BoxHead(f.boxes[i].type, 0, large)
  OBVIOUS
<1>12. AreCells(cells)
  BY <1>11, HeadIsCells
<1>13. g = Put(h, cells)
  BY <1>4, <1>11 DEF BeginBox
<1>14. IsFile(g) /\ g.boxes = h.boxes /\ DOMAIN g = DOMAIN h
  BY <1>9, <1>12, <1>13, PutKeeps
<1> QED
  BY <1>8, <1>10, <1>14 DEF SameTypes

LEMMA BoxFinished ==
    ASSUME NEW f, IsFile(f), NEW i \in 1..Len(f.boxes), NEW large, NEW g, g = FinishBox(f, i, large)
    PROVE  IsFile(g) /\ SameTypes(f, g) /\ DOMAIN g = DOMAIN f
<1>1. PICK b : b = f.boxes[i]
  OBVIOUS
<1>2. AreBoxes(f.boxes) /\ IsBox(b) /\ b.start \in Int /\ f.pos \in Int
  BY <1>1 DEF IsFile, AreBoxes, IsBox
<1>3. PICK size : size = f.pos - b.start
  OBVIOUS
<1>4. HeaderLen \in Int /\ size \in Int
  BY <1>2, <1>3, LayoutAssumption
<1>5. HeadLen(large) \in Int
  BY <1>4 DEF HeadLen
<1>6. PICK s : s = size - HeadLen(large)
  OBVIOUS
<1>7. PICK d : d = [b EXCEPT !.end = f.pos, !.size = s]
  OBVIOUS
<1>8. IsBox(d) /\ d.type = b.type
  BY <1>2, <1>4, <1>5, <1>6, <1>7 DEF IsBox, BoxFields
<1>9. PICK bs : bs = [f.boxes EXCEPT ![i] = d]
  OBVIOUS
<1>10. /\ AreBoxes(bs) /\ Len(bs) = Len(f.boxes) /\ bs[i] = d
       /\ \A j \in 1..Len(bs) : j # i => bs[j] = f.boxes[j]
  BY <1>2, <1>8, <1>9, BoxSet DEF IsBoxSet
<1>11. PICK w : w = IF large THEN << "write", b.start + HeaderLen, << << "size", size >> >> >>
                    ELSE << "write", b.start, << << "box", b.type, size >> >> >>
  OBVIOUS
<1>12. IsWrite(w)
  <2>1. IsCell(<< "size", size >>) /\ IsCell(<< "box", b.type, size >>)
    BY <1>4 DEF IsCell
  <2>2. AreCells(<< << "size", size >> >>) /\ AreCells(<< << "box", b.type, size >> >>)
    BY <2>1, OneCell
  <2>3. b.start + HeaderLen \in Int
    BY <1>2, <1>4
  <2> QED
    BY <1>2, <1>11, <2>2, <2>3 DEF IsWrite
<1>13. PICK out : out = Append(f.out, w)
  OBVIOUS
<1>14. AreWrites(out)
  BY <1>12, <1>13, WriteAdded DEF IsFile
<1>15. g = [f EXCEPT !.boxes[i].end = f.pos, !.boxes[i].size = s, !.out = out]
  BY <1>1, <1>3, <1>6, <1>11, <1>13 DEF FinishBox
<1>16. DOMAIN g = DOMAIN f /\ g.boxes = bs /\ g.out = out /\ g.pos = f.pos
       /\ g.length = f.length /\ g.roomAt = f.roomAt
  <2>1. DOMAIN f.boxes = 1..Len(f.boxes)
    BY <1>2, SeqDomain DEF AreBoxes
  <2>2. g.boxes = [[f.boxes EXCEPT ![i] = [@ EXCEPT !.end = f.pos]] EXCEPT ![i] = [@ EXCEPT !.size = s]]
    BY <1>15 DEF IsFile, FileFields
  <2>3. g.boxes = bs
    BY <1>1, <1>7, <1>9, <2>1, <2>2
  <2> QED
    BY <1>15, <2>3 DEF IsFile, FileFields
<1>17. IsFile(g)
  BY <1>10, <1>14, <1>16 DEF IsFile
<1> QED
  BY <1>1, <1>8, <1>10, <1>16, <1>17 DEF SameTypes

LEMMA BoxWritten ==
    ASSUME NEW f, IsFile(f), NEW i \in 1..Len(f.boxes), NEW c, c.room \in Int, c.brands \in Int,
           f.boxes[i].type = "moov" => IsMoov(c.moov), NEW g, g = WriteBox(f, i, c)
    PROVE  IsFile(g) /\ SameTypes(f, g) /\ DOMAIN g = DOMAIN f
<1>1. PICK begun : begun = BeginBox(f, i, FALSE)
  OBVIOUS
<1>2. IsFile(begun) /\ SameTypes(f, begun) /\ DOMAIN begun = DOMAIN f
  BY <1>1, BoxBegun
<1>3. PICK cells : cells = Data(f.boxes[i], c)
  OBVIOUS
<1>4. AreCells(cells)
  <2>1. f.boxes[i].size \in Int
    BY DEF IsFile, AreBoxes, IsBox
  <2> QED
    BY <1>3, <2>1, DataIsCells
<1>5. PICK full : full = Put(begun, cells)
  OBVIOUS
<1>6. IsFile(full) /\ full.boxes = begun.boxes /\ DOMAIN full = DOMAIN begun
  BY <1>2, <1>4, <1>5, PutKeeps
<1>7. i \in 1..Len(full.boxes)
  BY <1>2, <1>6 DEF SameTypes
<1>8. PICK large : large = FALSE
  OBVIOUS
<1>9. g = FinishBox(full, i, large)
  BY <1>1, <1>3, <1>5, <1>8 DEF WriteBox
<1>10. IsFile(full)
  BY <1>6
<1>11. IsFile(g) /\ SameTypes(full, g) /\ DOMAIN g = DOMAIN full
  BY <1>7, <1>9, <1>10, BoxFinished
<1> QED
  BY <1>2, <1>6, <1>11 DEF SameTypes

LEMMA TypesThere ==
    ASSUME NEW bs, IsSeq(bs), NEW type
    PROVE  /\ Has(bs, type) <=> \E i \in 1..Len(bs) : bs[i].type = type
           /\ Has(bs, type) => /\ FirstOfType(bs, type) \in 1..Len(bs)
                               /\ bs[FirstOfType(bs, type)].type = type
                               /\ LastOfType(bs, type) \in 1..Len(bs)
                               /\ bs[LastOfType(bs, type)].type = type
<1> DEFINE I == {i \in 1..Len(bs) : bs[i].type = type}
<1>1. PICK n : n = Len(bs)
  OBVIOUS
<1>2. n \in Nat
  BY <1>1, SeqDomain
<1>3. FirstOfType(bs, type) = IF I # {} THEN Min(I) ELSE 0
  BY DEF FirstOfType, SelectInSeq
<1>4. LastOfType(bs, type) = IF I # {} THEN Max(I) ELSE 0
  BY DEF LastOfType, SelectLastInSeq
<1>5. I \subseteq Nat /\ \A y \in I : y <= n /\ y # 0
  BY <1>1, <1>2
<1>6. \A y \in I : y \in 1..Len(bs) /\ bs[y].type = type
  OBVIOUS
<1>7. I # {} <=> \E i \in 1..Len(bs) : bs[i].type = type
  OBVIOUS
<1> HIDE DEF I
<1>8. I # {} => Min(I) \in I /\ Max(I) \in I
  BY <1>2, <1>5, SmallestOf, LargestOf
<1>9. Has(bs, type) <=> I # {}
  BY <1>3, <1>5, <1>8 DEF Has
<1> QED
  BY <1>3, <1>4, <1>6, <1>7, <1>8, <1>9

LEMMA TypesKept ==
    ASSUME NEW f, IsFile(f), NEW g, IsFile(g), SameTypes(f, g), NEW type
    PROVE  Has(g.boxes, type) <=> Has(f.boxes, type)
<1>1. IsSeq(f.boxes) /\ IsSeq(g.boxes)
  BY DEF IsFile, AreBoxes
<1>2. /\ Has(f.boxes, type) <=> \E i \in 1..Len(f.boxes) : f.boxes[i].type = type
      /\ Has(g.boxes, type) <=> \E i \in 1..Len(g.boxes) : g.boxes[i].type = type
  BY <1>1, TypesThere
<1> QED
  BY <1>2 DEF SameTypes

\* w writes the boxes of f from number from on, the first m at least.
WritesBoxes(f, from, c, n, m, w) ==
    /\ w = [k \in 0..n |-> w[k]]
    /\ \A k \in 0..n :
          k <= m => w[k] = IF k = 0 THEN f ELSE WriteBox(w[k - 1], from + k - 1, c)

LEMMA BoxesWritten ==
    ASSUME NEW f, IsFile(f), NEW from \in Int, from >= 1, NEW n \in Nat,
           n = Len(f.boxes) - from + 1, NEW c, IsContents(c), NEW g, g = WriteBoxes(f, from, c)
    PROVE  IsFile(g) /\ SameTypes(f, g) /\ DOMAIN g = DOMAIN f
<1> DEFINE At(w, k) == IF k = 0 THEN f ELSE WriteBox(w[k - 1], from + k - 1, c)
           Written(w) == w = [k \in 0..n |-> At(w, k)]
           done == CHOOSE w : Written(w)
           E == {m \in Nat : \E w : WritesBoxes(f, from, c, n, m, w)}
<1>1. 0 \in E
  <2> DEFINE w == [k \in 0..n |-> f]
  <2>1. w = [k \in 0..n |-> w[k]]
    OBVIOUS
  <2>2. ASSUME NEW k \in 0..n, k <= 0 PROVE w[k] = At(w, k)
    <3>1. k = 0
      BY <2>2
    <3> QED
      BY <3>1
  <2> HIDE DEF w
  <2> QED
    BY <2>1, <2>2 DEF WritesBoxes
<1>2. ASSUME NEW m \in Nat, m \in E PROVE m + 1 \in E
  <2>1. PICK w : WritesBoxes(f, from, c, n, m, w)
    BY <1>2
  <2> DEFINE v == [k \in 0..n |-> IF k = m + 1 THEN WriteBox(w[k - 1], from + k - 1, c) ELSE w[k]]
  <2>2. v = [k \in 0..n |-> v[k]]
    OBVIOUS
  <2>3. ASSUME NEW k \in 0..n, k <= m + 1 PROVE v[k] = At(v, k)
    <3>1. CASE k = m + 1
      <4>1. k # 0 /\ k - 1 \in 0..n /\ k - 1 # m + 1
        BY <3>1
      <4>2. v[k - 1] = w[k - 1] /\ v[k] = WriteBox(w[k - 1], from + k - 1, c)
        BY <3>1, <4>1
      <4> QED
        BY <4>1, <4>2
    <3>2. CASE k # m + 1
      <4>1. k <= m /\ v[k] = w[k]
        BY <2>3, <3>2
      <4>2. k # 0 => k - 1 \in 0..n /\ k - 1 # m + 1
        BY <4>1
      <4>3. k # 0 => v[k - 1] = w[k - 1]
        BY <4>2
      <4>4. w[k] = At(w, k)
        BY <2>1, <4>1 DEF WritesBoxes
      <4> HIDE DEF v
      <4> QED
        BY <4>1, <4>3, <4>4
    <3> QED
      BY <3>1, <3>2
  <2> HIDE DEF v
  <2>4. WritesBoxes(f, from, c, n, m + 1, v)
    BY <2>2, <2>3 DEF WritesBoxes
  <2> QED
    BY <2>4
<1> HIDE DEF E
<1>3. n \in E
  BY <1>1, <1>2, EveryNumber
<1> USE DEF E
<1>4. PICK w : WritesBoxes(f, from, c, n, n, w)
  BY <1>3
<1> HIDE DEF E
<1>5. Written(w)
  <2>1. \A k \in 0..n : w[k] = At(w, k)
    BY <1>4 DEF WritesBoxes
  <2> QED
    BY <1>4, <2>1 DEF WritesBoxes
<1>6. Written(done)
  BY <1>5
<1>7. g = done[n]
  BY DEF WriteBoxes
<1> HIDE DEF done
<1> DEFINE Kept(x) == IsFile(x) /\ SameTypes(f, x) /\ DOMAIN x = DOMAIN f
           A == {m \in Nat : m <= n => Kept(done[m])}
<1>8. 0 \in A
  <2>1. done[0] = f
    BY <1>6
  <2> QED
    BY <2>1 DEF SameTypes
<1>9. ASSUME NEW m \in Nat, m \in A PROVE m + 1 \in A
  <2>1. CASE m + 1 <= n
    <3>1. PICK x : x = done[m]
      OBVIOUS
    <3>2. Kept(x)
      BY <1>9, <2>1, <3>1
    <3>3. m + 1 \in 0..n /\ m + 1 # 0 /\ (m + 1) - 1 = m
      BY <2>1
    <3>4. PICK i : i = from + m
      OBVIOUS
    <3>5. PICK y : y = done[m + 1]
      OBVIOUS
    <3>6. from + (m + 1) - 1 = i
      BY <3>4
    <3>7. y = WriteBox(x, i, c)
      BY <1>6, <3>1, <3>3, <3>5, <3>6
    <3>8. i \in 1..Len(x.boxes)
      <4>1. Len(f.boxes) \in Nat /\ Len(x.boxes) = Len(f.boxes)
        BY <3>2, SeqDomain DEF IsFile, AreBoxes, SameTypes
      <4> QED
        BY <2>1, <3>4, <4>1
    <3>9. IsFile(x) /\ c.room \in Int /\ c.brands \in Int /\ IsMoov(c.moov)
      BY <3>2 DEF IsContents
    <3>10. IsFile(y) /\ SameTypes(x, y) /\ DOMAIN y = DOMAIN x
      BY <3>7, <3>8, <3>9, BoxWritten
    <3>11. Kept(y)
      BY <3>2, <3>10 DEF SameTypes
    <3> QED
      BY <3>5, <3>11
  <2>2. CASE ~ (m + 1 <= n)
    BY <2>2
  <2> QED
    BY <2>1, <2>2
<1> HIDE DEF A
<1>10. n \in A
  BY <1>8, <1>9, EveryNumber
<1> QED
  BY <1>7, <1>10 DEF A

-----------------------------------------------------------------------------
(* Rows of boxes.                                                          *)

LEMMA BoxesAre ==
    ASSUME NEW n \in Nat, NEW bs, DOMAIN bs = 1..n, bs = [k \in DOMAIN bs |-> bs[k]],
           \A k \in 1..n : IsBox(bs[k])
    PROVE  AreBoxes(bs) /\ Len(bs) = n
BY MadeSeq DEF AreBoxes

IsBoxRemoved(bs, i, r) ==
    /\ AreBoxes(r) /\ Len(r) = Len(bs) - 1
    /\ \A j \in 1 .. Len(bs) - 1 : r[j] = bs[Before(j, i)]
    /\ \A j \in 1..Len(bs) : j # i => \E k \in 1..Len(r) : r[k] = bs[j]

LEMMA BoxRemoved ==
    ASSUME NEW bs, AreBoxes(bs), NEW i \in 1..Len(bs)
    PROVE  IsBoxRemoved(bs, i, RemoveAt(bs, i))
<1> DEFINE r == RemoveAt(bs, i)
<1>1. PICK S : bs \in Seq(S)
  BY DEF AreBoxes, IsSeq
<1>2. PICK n \in Nat : n = Len(bs)
  BY <1>1, LenProperties
<1>3. /\ r \in Seq(S) /\ Len(r) = n - 1
      /\ \A j \in 1 .. n - 1 : r[j] = bs[Before(j, i)]
  BY <1>1, <1>2, RemoveAtProperties
<1>4. \A j \in 1 .. n - 1 : Before(j, i) \in 1..n
  BY <1>2 DEF Before
<1>5. AreBoxes(r)
  BY <1>2, <1>3, <1>4 DEF AreBoxes, IsSeq
<1>6. ASSUME NEW j \in 1..n, j # i PROVE \E k \in 1 .. n - 1 : r[k] = bs[j]
  <2>1. CASE j < i
    <3>1. j \in 1 .. n - 1 /\ Before(j, i) = j
      BY <1>2, <2>1 DEF Before
    <3> QED
      BY <1>3, <3>1
  <2>2. CASE j > i
    <3>1. j - 1 \in 1 .. n - 1 /\ Before(j - 1, i) = j
      BY <1>2, <2>2 DEF Before
    <3> QED
      BY <1>3, <3>1
  <2> QED
    BY <1>2, <1>6, <2>1, <2>2
<1> QED
  BY <1>2, <1>3, <1>5, <1>6 DEF IsBoxRemoved

\* The first boxes of a row.
LEMMA FirstBoxes ==
    ASSUME NEW bs, AreBoxes(bs), NEW m \in Nat, m <= Len(bs), NEW r, r = SubSeq(bs, 1, m)
    PROVE  AreBoxes(r) /\ Len(r) = m /\ \A j \in 1..m : r[j] = bs[j]
<1>1. PICK S : bs \in Seq(S)
  BY DEF AreBoxes, IsSeq
<1>2. Len(bs) \in Nat /\ \A i \in 1..m : bs[i] \in S /\ i \in 1..Len(bs)
  BY <1>1, LenProperties
<1>3. m \in Int /\ 1 \in Int
  OBVIOUS
<1>4. /\ r \in Seq(S) /\ Len(r) = IF 1 <= m THEN m - 1 + 1 ELSE 0
      /\ \A i \in 1 .. m - 1 + 1 : r[i] = bs[1 + i - 1]
  BY <1>2, <1>3, SubSeqProperties
<1>5. Len(r) = m /\ \A i \in 1..m : r[i] = bs[i]
  BY <1>4
<1> QED
  BY <1>2, <1>4, <1>5 DEF AreBoxes, IsSeq

LEMMA LastBoxes ==
    ASSUME NEW bs, AreBoxes(bs), NEW i \in 1 .. Len(bs) + 1, NEW r, r = SubSeq(bs, i, Len(bs))
    PROVE  /\ AreBoxes(r) /\ Len(r) = Len(bs) - i + 1
           /\ \A j \in 1 .. Len(bs) - i + 1 : r[j] = bs[i + j - 1]
<1>1. PICK S : bs \in Seq(S)
  BY DEF AreBoxes, IsSeq
<1>2. PICK n \in Nat : n = Len(bs)
  BY <1>1, LenProperties
<1>3. i \in Int /\ n \in Int /\ i >= 1 /\ i <= n + 1
  BY <1>2
<1>4. \A k \in i..n : bs[k] \in S
  BY <1>1, <1>2, <1>3, LenProperties
<1>5. /\ r \in Seq(S) /\ Len(r) = IF i <= n THEN n - i + 1 ELSE 0
      /\ \A j \in 1 .. n - i + 1 : r[j] = bs[i + j - 1]
  BY <1>2, <1>3, <1>4, SubSeqProperties
<1>6. Len(r) = n - i + 1
  BY <1>3, <1>5
<1>7. \A j \in 1 .. n - i + 1 : i + j - 1 \in 1..n
  BY <1>3
<1>8. AreBoxes(r)
  BY <1>2, <1>5, <1>6, <1>7 DEF AreBoxes, IsSeq
<1> QED
  BY <1>2, <1>5, <1>6, <1>8

\* u is a row of boxes: those of s and, behind them, those of t.
JoinsBoxes(s, t, u) ==
    /\ AreBoxes(u) /\ Len(u) = Len(s) + Len(t)
    /\ \A k \in 1..Len(s) : u[k] = s[k]
    /\ \A k \in 1..Len(t) : u[Len(s) + k] = t[k]

LEMMA BoxesJoined ==
    ASSUME NEW s, AreBoxes(s), NEW t, AreBoxes(t)
    PROVE  JoinsBoxes(s, t, s \o t)
<1> DEFINE u == s \o t
<1>1. IsSeq(s) /\ IsSeq(t) /\ Len(s) \in Nat /\ Len(t) \in Nat
  BY SeqDomain DEF AreBoxes
<1>2. /\ IsSeq(u) /\ Len(u) = Len(s) + Len(t)
      /\ \A k \in 1..Len(s) : u[k] = s[k]
      /\ \A k \in 1..Len(t) : u[Len(s) + k] = t[k]
  BY <1>1, JoinedSeq
<1>3. ASSUME NEW k \in 1..Len(u) PROVE IsBox(u[k])
  <2>1. CASE k <= Len(s)
    <3>1. k \in 1..Len(s)
      BY <1>1, <1>2, <2>1
    <3> QED
      BY <1>2, <3>1 DEF AreBoxes
  <2>2. CASE k > Len(s)
    <3>1. k - Len(s) \in 1..Len(t) /\ Len(s) + (k - Len(s)) = k
      BY <1>1, <1>2, <2>2
    <3> QED
      BY <1>2, <3>1 DEF AreBoxes
  <2> QED
    BY <1>1, <1>2, <2>1, <2>2
<1> QED
  BY <1>2, <1>3 DEF AreBoxes, JoinsBoxes

LEMMA OneBox ==
    ASSUME NEW b, IsBox(b), NEW u, u = << b >>
    PROVE  AreBoxes(u) /\ Len(u) = 1 /\ u[1] = b
<1>1. PICK n \in Nat : n = 1
  OBVIOUS
<1>2. DOMAIN u = 1..n
  BY <1>1
<1>3. u = [k \in DOMAIN u |-> u[k]]
  BY <1>1
<1>4. u[1] = b
  OBVIOUS
<1>5. \A k \in 1..n : IsBox(u[k])
  <2>1. \A k \in 1..n : k = 1
    BY <1>1
  <2> QED
    BY <1>4, <2>1
<1>6. AreBoxes(u) /\ Len(u) = n
  BY <1>2, <1>3, <1>5, BoxesAre
<1> QED
  BY <1>1, <1>4, <1>6

IsBoxInserted(bs, i, b, r) ==
    /\ AreBoxes(r) /\ Len(r) = Len(bs) + 1 /\ r[i] = b
    /\ \A j \in 1..Len(bs) : \E k \in 1..Len(r) : r[k] = bs[j]

LEMMA BoxInserted ==
    ASSUME NEW bs, AreBoxes(bs), NEW i \in 1 .. Len(bs) + 1, NEW b, IsBox(b)
    PROVE  IsBoxInserted(bs, i, b, InsertAt(bs, i, b))
<1> DEFINE r == InsertAt(bs, i, b)
<1>1. PICK n \in Nat : n = Len(bs)
  BY SeqDomain DEF AreBoxes
<1>2. i \in Int /\ i >= 1 /\ i <= n + 1 /\ i - 1 \in Nat /\ i - 1 <= n
  BY <1>1
<1>3. PICK p : p = SubSeq(bs, 1, i - 1)
  OBVIOUS
<1>4. AreBoxes(p) /\ Len(p) = i - 1 /\ \A j \in 1 .. i - 1 : p[j] = bs[j]
  BY <1>1, <1>2, <1>3, FirstBoxes
<1>5. PICK q : q = SubSeq(bs, i, n)
  OBVIOUS
<1>6. AreBoxes(q) /\ Len(q) = n - i + 1 /\ \A j \in 1 .. n - i + 1 : q[j] = bs[i + j - 1]
  BY <1>1, <1>5, LastBoxes
<1>7. PICK o : o = << b >>
  OBVIOUS
<1>8. AreBoxes(o) /\ Len(o) = 1 /\ o[1] = b
  BY <1>7, OneBox
<1>9. PICK s : s = p \o o
  OBVIOUS
<1>91. AreBoxes(p)
  BY <1>4
<1>92. AreBoxes(o)
  BY <1>8
<1>10. /\ AreBoxes(s) /\ Len(s) = Len(p) + Len(o)
       /\ \A k \in 1..Len(p) : s[k] = p[k]
       /\ \A k \in 1..Len(o) : s[Len(p) + k] = o[k]
  <2>1. JoinsBoxes(p, o, p \o o)
    BY <1>91, <1>92, BoxesJoined
  <2> QED
    BY <1>9, <2>1 DEF JoinsBoxes
<1>11. r = s \o q
  BY <1>1, <1>3, <1>5, <1>7, <1>9 DEF InsertAt
<1> HIDE DEF r
<1>111. AreBoxes(s)
  BY <1>10
<1>112. AreBoxes(q)
  BY <1>6
<1>12. /\ AreBoxes(r) /\ Len(r) = Len(s) + Len(q)
       /\ \A k \in 1..Len(s) : r[k] = s[k]
       /\ \A k \in 1..Len(q) : r[Len(s) + k] = q[k]
  <2>1. JoinsBoxes(s, q, s \o q)
    BY <1>111, <1>112, BoxesJoined
  <2> QED
    BY <1>11, <2>1 DEF JoinsBoxes
<1>13. Len(s) = i /\ Len(r) = n + 1
  BY <1>2, <1>4, <1>6, <1>8, <1>10, <1>12
<1>14. r[i] = b
  <2>1. i \in 1..Len(s) /\ 1 \in 1..Len(o) /\ Len(p) + 1 = i
    BY <1>2, <1>4, <1>8, <1>13
  <2> QED
    BY <1>8, <1>10, <1>12, <2>1
<1>15. ASSUME NEW j \in 1..n, j < i PROVE r[j] = bs[j]
  <2>1. j \in 1..Len(p) /\ j \in 1..Len(s) /\ j \in 1 .. i - 1
    BY <1>2, <1>4, <1>13, <1>15
  <2> QED
    BY <1>4, <1>10, <1>12, <2>1
<1>16. ASSUME NEW j \in 1..n, j >= i PROVE r[j + 1] = bs[j]
  <2>1. j - i + 1 \in 1..Len(q) /\ Len(s) + (j - i + 1) = j + 1 /\ i + (j - i + 1) - 1 = j
        /\ j - i + 1 \in 1 .. n - i + 1
    BY <1>2, <1>6, <1>13, <1>16
  <2>2. q[j - i + 1] = bs[j]
    BY <1>6, <2>1
  <2> QED
    BY <1>12, <2>1, <2>2
<1>17. \A j \in 1..n : \E k \in 1..Len(r) : r[k] = bs[j]
  <2> SUFFICES ASSUME NEW j \in 1..n PROVE \E k \in 1..Len(r) : r[k] = bs[j]
    OBVIOUS
  <2>1. j \in 1..Len(r) /\ j + 1 \in 1..Len(r) /\ (j < i \/ j >= i)
    BY <1>2, <1>13
  <2> QED
    BY <1>15, <1>16, <2>1
<1> QED
  BY <1>1, <1>12, <1>13, <1>14, <1>17 DEF IsBoxInserted, r

-----------------------------------------------------------------------------
(* The open file.                                                          *)

LEMMA Seeked ==
    ASSUME NEW f, IsFile(f), NEW p \in Int, NEW g, g = Seek(f, p)
    PROVE  IsFile(g) /\ SameTypes(f, g) /\ g.boxes = f.boxes /\ g.pos = p
<1>1. /\ DOMAIN g = DOMAIN f /\ g.boxes = f.boxes /\ g.out = f.out /\ g.pos = p
      /\ g.length = f.length /\ g.roomAt = f.roomAt
  BY DEF Seek, IsFile, FileFields
<1> QED
  BY <1>1 DEF IsFile, SameTypes

LEMMA BoxesReplaced ==
    ASSUME NEW f, IsFile(f), NEW bs, AreBoxes(bs), NEW g, g = [f EXCEPT !.boxes = bs]
    PROVE  IsFile(g) /\ g.boxes = bs /\ g.pos = f.pos /\ g.length = f.length /\ g.use64 = f.use64
<1>1. /\ DOMAIN g = DOMAIN f /\ g.boxes = bs /\ g.out = f.out /\ g.pos = f.pos
      /\ g.length = f.length /\ g.roomAt = f.roomAt /\ g.use64 = f.use64
  BY DEF IsFile, FileFields
<1> QED
  BY <1>1 DEF IsFile

LEMMA RoomMarked ==
    ASSUME NEW f, IsFile(f), NEW p \in Int, NEW g, g = [f EXCEPT !.roomAt = p]
    PROVE  IsFile(g) /\ g.boxes = f.boxes
<1>1. /\ DOMAIN g = DOMAIN f /\ g.boxes = f.boxes /\ g.out = f.out /\ g.pos = f.pos
      /\ g.length = f.length /\ g.roomAt = p
  BY DEF IsFile, FileFields
<1> QED
  BY <1>1 DEF IsFile

LEMMA NewBoxIs ==
    ASSUME NEW type, NEW size \in Int, NEW b, b = NewBox(type, size)
    PROVE  IsBox(b) /\ b.type = type /\ b.size = size
BY DEF NewBox, IsBox, BoxFields

LEMMA BoxResized ==
    ASSUME NEW f, IsFile(f), NEW i \in 1..Len(f.boxes), NEW size \in Int, NEW g,
           g = [f EXCEPT !.boxes[i].size = size]
    PROVE  IsFile(g) /\ SameTypes(f, g)
<1>1. PICK b : b = [f.boxes[i] EXCEPT !.size = size]
  OBVIOUS
<1>2. PICK bs : bs = [f.boxes EXCEPT ![i] = b]
  OBVIOUS
<1>30. PICK h : h = [f EXCEPT !.boxes = bs]
  OBVIOUS
<1>3. g = h
  BY <1>1, <1>2, <1>30
<1>4. AreBoxes(f.boxes) /\ IsBox(f.boxes[i])
  BY DEF IsFile, AreBoxes
<1>5. IsBox(b) /\ b.type = f.boxes[i].type
  BY <1>1, <1>4 DEF IsBox, BoxFields
<1>6. AreBoxes(f.boxes) /\ IsBox(b)
  BY <1>4, <1>5
<1>7. /\ AreBoxes(bs) /\ Len(bs) = Len(f.boxes) /\ bs[i] = b
      /\ \A j \in 1..Len(f.boxes) : j # i => bs[j] = f.boxes[j]
  BY <1>2, <1>6, BoxSet DEF IsBoxSet
<1>8. AreBoxes(bs)
  BY <1>7
<1>9. IsFile(h) /\ h.boxes = bs
  BY <1>8, <1>30, BoxesReplaced
<1> QED
  BY <1>3, <1>5, <1>7, <1>9 DEF SameTypes

LEMMA SameTypesTwice ==
    ASSUME NEW f, NEW g, SameTypes(f, g), NEW h, SameTypes(g, h)
    PROVE  SameTypes(f, h)
BY DEF SameTypes

LEMMA FtypRewritten ==
    ASSUME NEW f, IsFile(f), Len(f.boxes) >= 1, NEW c, IsContents(c), NEW g, g = RewriteFtyp(f, c)
    PROVE  IsFile(g) /\ SameTypes(f, g)
<1>1. PICK n \in Nat : n = Len(f.boxes) /\ n >= 1
  BY SeqDomain DEF IsFile, AreBoxes
<1>2. c.room \in Int /\ c.brands \in Int /\ IsMoov(c.moov)
  BY DEF IsContents
<1>3. PICK front : front = Seek(f, 0)
  OBVIOUS
<1>4. IsFile(front) /\ SameTypes(f, front)
  BY <1>3, Seeked
<1>5. PICK ftyp : ftyp = WriteBox(front, 1, c)
  OBVIOUS
<1>6. 1 \in 1..Len(front.boxes) /\ IsFile(front)
  BY <1>1, <1>4 DEF SameTypes
<1>7. IsFile(ftyp) /\ SameTypes(front, ftyp)
  BY <1>2, <1>5, <1>6, BoxWritten
<1>8. Len(ftyp.boxes) = n
  BY <1>1, <1>4, <1>7 DEF SameTypes
<1>9. PICK size : size = ftyp.boxes[n].size - (ftyp.pos - f.roomAt)
  OBVIOUS
<1>10. size \in Int
  <2>1. n \in 1..Len(ftyp.boxes)
    BY <1>1, <1>8
  <2>2. ftyp.boxes[n].size \in Int /\ ftyp.pos \in Int /\ f.roomAt \in Int
    BY <1>7, <2>1 DEF IsFile, AreBoxes, IsBox
  <2> QED
    BY <1>9, <2>2
<1>11. PICK room : room = [ftyp EXCEPT !.boxes[n].size = size]
  OBVIOUS
<1>12. n \in 1..Len(ftyp.boxes) /\ IsFile(ftyp)
  BY <1>1, <1>7, <1>8
<1>13. IsFile(room) /\ SameTypes(ftyp, room)
  BY <1>10, <1>11, <1>12, BoxResized
<1>14. n \in 1..Len(room.boxes) /\ IsFile(room)
  BY <1>1, <1>8, <1>13 DEF SameTypes
<1>15. PICK back : back = WriteBox(room, n, c)
  OBVIOUS
<1>16. IsFile(back) /\ SameTypes(room, back)
  BY <1>2, <1>14, <1>15, BoxWritten
<1>17. g = Seek(back, f.pos)
  BY <1>1, <1>3, <1>5, <1>9, <1>11, <1>15 DEF RewriteFtyp
<1>18. f.pos \in Int /\ IsFile(back)
  BY <1>16 DEF IsFile
<1>19. IsFile(g) /\ SameTypes(back, g)
  BY <1>17, <1>18, Seeked
<1> QED
  BY <1>4, <1>7, <1>13, <1>16, <1>19 DEF SameTypes

\* A file that has its movie box.
HasMoov(f) == IsFile(f) /\ Has(f.boxes, "moov")

LEMMA RootFinished ==
    ASSUME NEW f, HasMoov(f), Has(f.boxes, "mdat"), NEW c, IsContents(c),
           NEW g, g = FinishRoot(f, c)
    PROVE  HasMoov(g)
<1>1. IsFile(f) /\ IsSeq(f.boxes)
  BY DEF HasMoov, IsFile, AreBoxes
<1>2. PICK n \in Nat : n = Len(f.boxes)
  BY <1>1, SeqDomain
<1>3. PICK m : m = LastOfType(f.boxes, "mdat")
  OBVIOUS
<1>4. m \in 1..n /\ f.boxes[m].type = "mdat" /\ n >= 1
  BY <1>1, <1>2, <1>3, TypesThere
<1>5. PICK begun : begun = IF f.created THEN RewriteFtyp(f, c) ELSE f
  OBVIOUS
<1>6. IsFile(begun) /\ SameTypes(f, begun)
  <2>1. Len(f.boxes) >= 1 /\ IsFile(f)
    BY <1>1, <1>2, <1>4
  <2>2. PICK h : h = RewriteFtyp(f, c)
    OBVIOUS
  <2>3. IsFile(h) /\ SameTypes(f, h)
    BY <2>1, <2>2, FtypRewritten
  <2>4. SameTypes(f, f)
    BY DEF SameTypes
  <2> QED
    BY <1>1, <1>5, <2>2, <2>3, <2>4
<1>7. m \in 1..Len(begun.boxes) /\ IsFile(begun)
  BY <1>2, <1>4, <1>6 DEF SameTypes
<1>8. PICK finished : finished = FinishBox(begun, m, f.use64)
  OBVIOUS
<1>9. IsFile(finished) /\ SameTypes(begun, finished)
  BY <1>7, <1>8, BoxFinished
<1>10. SameTypes(f, finished) /\ Len(finished.boxes) = n
  BY <1>2, <1>6, <1>9 DEF SameTypes
<1>11. Has(finished.boxes, "moov")
  BY <1>1, <1>9, <1>10, TypesKept DEF HasMoov
<1>12. g = IF finished.boxes[m].size = 0
           THEN WriteBoxes(Seek([finished EXCEPT !.boxes = RemoveAt(finished.boxes, m)],
                                finished.boxes[m].start), m, c)
           ELSE WriteBoxes(finished, m + 1, c)
  <2>1. [finished EXCEPT !.boxes = RemoveAt(@, m)]
          = [finished EXCEPT !.boxes = RemoveAt(finished.boxes, m)]
    BY <1>9 DEF IsFile, FileFields
  <2> QED
    BY <1>3, <1>5, <1>8, <2>1 DEF FinishRoot
<1>13. CASE finished.boxes[m].size = 0
  <2>1. AreBoxes(finished.boxes) /\ m \in 1..Len(finished.boxes)
    BY <1>4, <1>9, <1>10 DEF IsFile
  <2>2. PICK r : r = RemoveAt(finished.boxes, m)
    OBVIOUS
  <2>3. /\ AreBoxes(r) /\ Len(r) = n - 1
        /\ \A j \in 1..n : j # m => \E k \in 1..Len(r) : r[k] = finished.boxes[j]
    BY <1>10, <2>1, <2>2, BoxRemoved DEF IsBoxRemoved
  <2>4. PICK h : h = [finished EXCEPT !.boxes = r]
    OBVIOUS
  <2>5. AreBoxes(r) /\ IsFile(finished)
    BY <1>9, <2>3
  <2>6. IsFile(h) /\ h.boxes = r
    BY <2>4, <2>5, BoxesReplaced
  <2>7. PICK at : at = finished.boxes[m].start
    OBVIOUS
  <2>8. at \in Int /\ IsFile(h)
    BY <2>1, <2>6, <2>7 DEF AreBoxes, IsBox
  <2>9. PICK s : s = Seek(h, at)
    OBVIOUS
  <2>10. IsFile(s) /\ s.boxes = r
    BY <2>6, <2>8, <2>9, Seeked
  <2>11. Has(s.boxes, "moov")
    <3>1. PICK j \in 1..n : finished.boxes[j].type = "moov"
      BY <1>9, <1>10, <1>11, TypesThere DEF IsFile, AreBoxes
    <3>2. finished.boxes[m].type = "mdat"
      BY <1>2, <1>4, <1>10 DEF SameTypes
    <3>3. PICK k \in 1..Len(r) : r[k] = finished.boxes[j]
      BY <2>3, <3>1, <3>2
    <3>4. IsSeq(r)
      BY <2>3 DEF AreBoxes
    <3> QED
      BY <2>10, <3>1, <3>3, <3>4, TypesThere
  <2>12. PICK l \in Nat : l = n - m
    BY <1>4
  <2>13. m \in Int /\ m >= 1 /\ l = Len(s.boxes) - m + 1
    BY <1>4, <2>3, <2>10, <2>12
  <2>14. g = WriteBoxes(s, m, c)
    BY <1>12, <1>13, <2>2, <2>4, <2>7, <2>9
  <2>15. IsFile(s)
    BY <2>10
  <2>16. IsFile(g) /\ SameTypes(s, g)
    BY <2>13, <2>14, <2>15, BoxesWritten
  <2> QED
    BY <2>11, <2>15, <2>16, TypesKept DEF HasMoov
<1>14. CASE finished.boxes[m].size # 0
  <2>1. PICK l \in Nat : l = n - m
    BY <1>4
  <2>2. PICK from \in Int : from = m + 1
    BY <1>4
  <2>3. from >= 1 /\ l = Len(finished.boxes) - from + 1 /\ IsFile(finished)
    BY <1>4, <1>9, <1>10, <2>1, <2>2
  <2>4. g = WriteBoxes(finished, from, c)
    BY <1>12, <1>14, <2>2
  <2>5. IsFile(g) /\ SameTypes(finished, g)
    BY <2>3, <2>4, BoxesWritten
  <2> QED
    BY <1>9, <1>11, <2>5, TypesKept DEF HasMoov
<1> QED
  BY <1>13, <1>14

LEMMA FileCreated ==
    ASSUME NEW withFtyp, NEW use64, NEW c, IsContents(c), NEW g, g = CreateFile(withFtyp, use64, c)
    PROVE  HasMoov(g)
<1> DEFINE Row(bs) == [boxes |-> bs, pos |-> 0, length |-> 0, use64 |-> use64, out |-> << >>,
                       roomAt |-> 0, created |-> withFtyp]
<1>1. ASSUME NEW bs, AreBoxes(bs), NEW f, f = Row(bs) PROVE IsFile(f) /\ f.boxes = bs
  <2>1. AreWrites(<< >>)
    BY EmptyIsSeq DEF AreWrites
  <2> QED
    BY <1>1, <2>1 DEF IsFile, FileFields
<1>2. PICK mdat : mdat = NewBox("mdat", 0)
  OBVIOUS
<1>3. PICK moov : moov = NewBox("moov", 0)
  OBVIOUS
<1>4. /\ IsBox(mdat) /\ mdat.type = "mdat"
      /\ IsBox(moov) /\ moov.type = "moov"
  BY <1>2, <1>3, NewBoxIs
<1>5. c.room \in Int /\ c.brands \in Int /\ IsMoov(c.moov)
  BY DEF IsContents
<1>6. CASE withFtyp
  <2>1. PICK ftyp : ftyp = NewBox("ftyp", 0)
    OBVIOUS
  <2>2. PICK free : free = NewBox("free", FreeRoom)
    OBVIOUS
  <2>3. IsBox(ftyp) /\ IsBox(free)
    <3>1. FreeRoom \in Int
      BY LayoutAssumption
    <3> QED
      BY <2>1, <2>2, <3>1, NewBoxIs
  <2>4. PICK bs : bs = << ftyp, mdat, moov, free >>
    OBVIOUS
  <2>5. PICK n \in Nat : n = 4
    OBVIOUS
  <2>6. /\ DOMAIN bs = 1..n /\ bs = [k \in DOMAIN bs |-> bs[k]]
        /\ bs[1] = ftyp /\ bs[2] = mdat /\ bs[3] = moov /\ bs[4] = free
    BY <2>4, <2>5
  <2>7. \A k \in 1..n : k = 1 \/ k = 2 \/ k = 3 \/ k = 4
    BY <2>5
  <2>8. \A k \in 1..n : IsBox(bs[k])
    BY <1>4, <2>3, <2>6, <2>7
  <2>9. DOMAIN bs = 1..n /\ bs = [k \in DOMAIN bs |-> bs[k]]
    BY <2>6
  <2>10. AreBoxes(bs) /\ Len(bs) = n
    BY <2>8, <2>9, BoxesAre
  <2>11. PICK f : f = Row(bs)
    OBVIOUS
  <2>12. IsFile(f) /\ f.boxes = bs
    BY <1>1, <2>10, <2>11
  <2>13. Has(f.boxes, "moov")
    <3>1. IsSeq(bs) /\ 3 \in 1..Len(bs) /\ bs[3].type = "moov"
      BY <1>4, <2>5, <2>6, <2>10 DEF AreBoxes
    <3> QED
      BY <2>12, <3>1, TypesThere
  <2>14. PICK one \in Nat : one = 1
    OBVIOUS
  <2>15. IsFile(f) /\ one \in 1..Len(f.boxes)
    BY <2>5, <2>10, <2>12, <2>14
  <2>16. PICK head : head = WriteBox(f, one, c)
    OBVIOUS
  <2>17. IsFile(head) /\ SameTypes(f, head)
    BY <1>5, <2>15, <2>16, BoxWritten
  <2>18. PICK marked : marked = [head EXCEPT !.roomAt = head.pos]
    OBVIOUS
  <2>19. IsFile(marked) /\ marked.boxes = head.boxes
    <3>1. PICK at : at = head.pos
      OBVIOUS
    <3>2. at \in Int /\ IsFile(head)
      BY <2>17, <3>1 DEF IsFile
    <3>3. marked = [head EXCEPT !.roomAt = at]
      BY <2>18, <3>1
    <3> QED
      BY <3>2, <3>3, RoomMarked
  <2>20. SameTypes(f, marked)
    BY <2>17, <2>19 DEF SameTypes
  <2>21. PICK four \in Nat : four = 4
    OBVIOUS
  <2>22. IsFile(marked) /\ four \in 1..Len(marked.boxes)
    BY <2>5, <2>10, <2>12, <2>19, <2>20, <2>21 DEF SameTypes
  <2>23. PICK room : room = WriteBox(marked, four, c)
    OBVIOUS
  <2>24. IsFile(room) /\ SameTypes(marked, room)
    BY <1>5, <2>22, <2>23, BoxWritten
  <2>25. SameTypes(f, room)
    BY <2>20, <2>24 DEF SameTypes
  <2>26. PICK two \in Nat : two = 2
    OBVIOUS
  <2>27. IsFile(room) /\ two \in 1..Len(room.boxes)
    BY <2>5, <2>10, <2>12, <2>24, <2>25, <2>26 DEF SameTypes
  <2>28. g = BeginBox(room, two, use64)
    BY <1>2, <1>3, <1>6, <2>1, <2>2, <2>4, <2>11, <2>14, <2>16, <2>18, <2>21, <2>23, <2>26
    DEF CreateFile
  <2>29. IsFile(g) /\ SameTypes(room, g)
    BY <2>27, <2>28, BoxBegun
  <2>30. SameTypes(f, g) /\ IsFile(f) /\ IsFile(g)
    BY <2>12, <2>25, <2>29 DEF SameTypes
  <2> QED
    BY <2>13, <2>30, TypesKept DEF HasMoov
<1>7. CASE ~withFtyp
  <2>1. PICK bs : bs = << mdat, moov >>
    OBVIOUS
  <2>2. PICK n \in Nat : n = 2
    OBVIOUS
  <2>3. /\ DOMAIN bs = 1..n /\ bs = [k \in DOMAIN bs |-> bs[k]]
        /\ bs[1] = mdat /\ bs[2] = moov
    BY <2>1, <2>2
  <2>4. \A k \in 1..n : k = 1 \/ k = 2
    BY <2>2
  <2>5. \A k \in 1..n : IsBox(bs[k])
    BY <1>4, <2>3, <2>4
  <2>6. DOMAIN bs = 1..n /\ bs = [k \in DOMAIN bs |-> bs[k]]
    BY <2>3
  <2>7. AreBoxes(bs) /\ Len(bs) = n
    BY <2>5, <2>6, BoxesAre
  <2>8. PICK f : f = Row(bs)
    OBVIOUS
  <2>9. IsFile(f) /\ f.boxes = bs
    BY <1>1, <2>7, <2>8
  <2>10. Has(f.boxes, "moov")
    <3>1. IsSeq(bs) /\ 2 \in 1..Len(bs) /\ bs[2].type = "moov"
      BY <1>4, <2>2, <2>3, <2>7 DEF AreBoxes
    <3> QED
      BY <2>9, <3>1, TypesThere
  <2>11. PICK one \in Nat : one = 1
    OBVIOUS
  <2>12. IsFile(f) /\ one \in 1..Len(f.boxes)
    BY <2>2, <2>7, <2>9, <2>11
  <2>13. g = BeginBox(f, one, use64)
    BY <1>2, <1>3, <1>7, <2>1, <2>8, <2>11 DEF CreateFile
  <2>14. IsFile(g) /\ SameTypes(f, g)
    BY <2>12, <2>13, BoxBegun
  <2>15. SameTypes(f, g) /\ IsFile(f) /\ IsFile(g)
    BY <2>9, <2>14
  <2> QED
    BY <2>10, <2>15, TypesKept DEF HasMoov
<1> QED
  BY <1>6, <1>7

-----------------------------------------------------------------------------
(* Closing.                                                                *)

LEMMA TargetIs ==
    ASSUME NEW f, HasMoov(f), NEW i, i = Target(f), i # 0
    PROVE  /\ i \in 1..Len(f.boxes) /\ i < FirstOfType(f.boxes, "moov")
           /\ f.boxes[i].type = "free"
<1> DEFINE size == f.boxes[FirstOfType(f.boxes, "moov")].size
           J == {j \in 1..Len(f.boxes) : f.boxes[j].type \in {"moov", "mdat"}}
           K == {j \in 1..Len(f.boxes) : Fits(f.boxes[j], size)}
           front == IF J # {} THEN Min(J) ELSE 0
           fits == IF K # {} THEN Min(K) ELSE 0
<1>1. IsSeq(f.boxes) /\ Len(f.boxes) \in Nat
  BY SeqDomain DEF HasMoov, IsFile, AreBoxes
<1>2. PICK m : m = FirstOfType(f.boxes, "moov")
  OBVIOUS
<1>3. m \in 1..Len(f.boxes) /\ f.boxes[m].type = "moov"
  BY <1>1, <1>2, TypesThere DEF HasMoov
<1>4. i = IF fits \in 1 .. front - 1 THEN fits ELSE 0
  BY DEF Target, SelectInSeq
<1>5. m \in J /\ J \subseteq Nat /\ K \subseteq Nat
  BY <1>1, <1>3
<1>6. \A k \in K : k \in 1..Len(f.boxes) /\ f.boxes[k].type = "free"
  BY DEF Fits
<1>7. \A k \in K : k # 0
  BY <1>1
<1> HIDE DEF J, K
<1>8. Min(J) \in J /\ Min(J) <= m /\ Min(J) \in Nat
  BY <1>5, SmallestOf
<1>9. K # {} => Min(K) \in K
  BY <1>5, SmallestOf
<1>10. i = fits /\ fits \in 1 .. front - 1 /\ J # {}
  BY <1>4, <1>5
<1>11. K # {} /\ i = Min(K) /\ i \in K /\ i \in Nat /\ i <= Min(J) - 1
  BY <1>5, <1>8, <1>9, <1>10
<1> QED
  BY <1>2, <1>3, <1>6, <1>8, <1>11

LEMMA HasAt ==
    ASSUME NEW bs, AreBoxes(bs), NEW i \in 1..Len(bs), NEW type, bs[i].type = type
    PROVE  Has(bs, type)
BY TypesThere DEF AreBoxes

LEMMA MovedToFront ==
    ASSUME NEW f, HasMoov(f), NEW c, IsContents(c), NEW g, g = MoveMoovAtomToFront(f, c)
    PROVE  HasMoov(g)
<1>1. PICK i : i = Target(f)
  OBVIOUS
<1>2. CASE ~Has(f.boxes, "mdat") \/ i = 0
  BY <1>1, <1>2 DEF MoveMoovAtomToFront
<1>3. CASE Has(f.boxes, "mdat") /\ i # 0
  <2>1. IsFile(f) /\ AreBoxes(f.boxes) /\ IsSeq(f.boxes)
    BY DEF HasMoov, IsFile, AreBoxes
  <2>2. PICK n \in Nat : n = Len(f.boxes)
    BY <2>1, SeqDomain
  <2>3. PICK m : m = FirstOfType(f.boxes, "moov")
    OBVIOUS
  <2>4. m \in 1..n /\ f.boxes[m].type = "moov"
    BY <2>1, <2>2, <2>3, TypesThere DEF HasMoov
  <2>5. i \in 1..n /\ i < m /\ f.boxes[i].type = "free"
    <3>1. i # 0
      BY <1>3
    <3> QED
      BY <1>1, <2>2, <2>3, <3>1, TargetIs
  <2>6. PICK l \in 1..n : f.boxes[l].type = "mdat"
    BY <1>3, <2>1, <2>2, TypesThere
  <2>7. PICK moov : moov = f.boxes[m]
    OBVIOUS
  <2>8. PICK gap : gap = f.boxes[i]
    OBVIOUS
  <2>9. IsBox(moov) /\ IsBox(gap) /\ moov.type = "moov"
    BY <2>1, <2>2, <2>4, <2>5, <2>7, <2>8 DEF AreBoxes
  <2>10. moov.size \in Int /\ gap.start \in Int /\ gap.size \in Int
    BY <2>9 DEF IsBox
  <2>11. PICK rest : rest = RemoveAt(f.boxes, m)
    OBVIOUS
  <2>12. m \in 1..Len(f.boxes)
    BY <2>2, <2>4
  <2>13. /\ AreBoxes(rest) /\ Len(rest) = n - 1
         /\ \A j \in 1 .. n - 1 : rest[j] = f.boxes[Before(j, m)]
         /\ \A j \in 1..n : j # m => \E k \in 1..Len(rest) : rest[k] = f.boxes[j]
    <3>1. AreBoxes(f.boxes)
      BY <2>1
    <3>2. IsBoxRemoved(f.boxes, m, rest)
      BY <2>11, <2>12, <3>1, BoxRemoved
    <3> QED
      BY <2>2, <3>2 DEF IsBoxRemoved
  <2>14. i \in 1 .. n - 1 /\ rest[i] = gap
    <3>1. i \in 1 .. n - 1 /\ Before(i, m) = i
      BY <2>2, <2>4, <2>5 DEF Before
    <3> QED
      BY <2>8, <2>13, <3>1
  <2>15. PICK k \in 1 .. n - 1 : rest[k].type = "mdat" /\ k # i
    <3>1. l # m
      BY <2>4, <2>6
    <3>2. PICK k \in 1..Len(rest) : rest[k] = f.boxes[l]
      BY <2>13, <3>1
    <3>3. rest[i].type = "free"
      BY <2>5, <2>8, <2>14
    <3> QED
      BY <2>6, <2>13, <3>2, <3>3
  <2>16. i \in 1..Len(rest) /\ AreBoxes(rest)
    BY <2>13, <2>14
  <2>17. c.room \in Int /\ c.brands \in Int /\ IsMoov(c.moov)
    BY DEF IsContents
  \* The row in which moov stands where the gap was.
  <2>18. ASSUME NEW bs, AreBoxes(bs), i \in 1..Len(bs), bs[i].type = "moov", Has(bs, "mdat"),
                NEW s, s = Seek([f EXCEPT !.boxes = bs], gap.start), NEW w, w = WriteBox(s, i, c)
         PROVE  IsFile(w) /\ Len(w.boxes) = Len(bs) /\ Has(w.boxes, "mdat") /\ Has(w.boxes, "moov")
    <3>1. PICK h : h = [f EXCEPT !.boxes = bs]
      OBVIOUS
    <3>2. IsFile(h) /\ h.boxes = bs
      BY <2>1, <2>18, <3>1, BoxesReplaced
    <3>3. PICK at \in Int : at = gap.start
      BY <2>10
    <3>4. IsFile(h)
      BY <3>2
    <3>5. s = Seek(h, at)
      BY <2>18, <3>1, <3>3
    <3>6. IsFile(s) /\ s.boxes = bs
      BY <3>2, <3>4, <3>5, Seeked
    <3>7. IsFile(s) /\ i \in 1..Len(s.boxes)
      BY <2>18, <3>6
    <3>8. IsFile(w) /\ SameTypes(s, w)
      BY <2>17, <2>18, <3>7, BoxWritten
    <3>9. Has(bs, "moov")
      BY <2>18, HasAt
    <3>10. Has(s.boxes, "moov") /\ Has(s.boxes, "mdat")
      BY <2>18, <3>6, <3>9
    <3>11. IsFile(s)
      BY <3>6
    <3>12. Has(w.boxes, "mdat") /\ Has(w.boxes, "moov")
      BY <3>8, <3>10, <3>11, TypesKept
    <3> QED
      BY <3>6, <3>8, <3>12 DEF SameTypes
  <2>19. PICK moved :
           moved = IF gap.size = moov.size
                   THEN WriteBox(Seek([f EXCEPT !.boxes = InsertAt(RemoveAt(rest, i), i, moov)],
                                      gap.start), i, c)
                   ELSE WriteBox(WriteBox(Seek([f EXCEPT !.boxes =
                                   InsertAt([rest EXCEPT ![i].size = @ - moov.size - HeaderLen],
                                            i, moov)], gap.start), i, c), i + 1, c)
    OBVIOUS
  <2>20. IsFile(moved) /\ Has(moved.boxes, "mdat") /\ Has(moved.boxes, "moov")
    <3>1. CASE gap.size = moov.size
      <4>1. PICK r : r = RemoveAt(rest, i)
        OBVIOUS
      <4>2. /\ AreBoxes(r) /\ Len(r) = Len(rest) - 1
            /\ \A j \in 1..Len(rest) : j # i => \E q \in 1..Len(r) : r[q] = rest[j]
        <5>1. IsBoxRemoved(rest, i, r)
          BY <2>16, <4>1, BoxRemoved
        <5> QED
          BY <5>1 DEF IsBoxRemoved
      <4>3. PICK q \in 1..Len(r) : r[q].type = "mdat"
        BY <2>13, <2>15, <4>2
      <4>4. AreBoxes(r) /\ i \in 1 .. Len(r) + 1 /\ IsBox(moov)
        BY <2>9, <2>13, <2>14, <4>2
      <4>5. PICK bs : bs = InsertAt(r, i, moov)
        OBVIOUS
      <4>6. /\ AreBoxes(bs) /\ Len(bs) = Len(r) + 1 /\ bs[i] = moov
            /\ \A j \in 1..Len(r) : \E p \in 1..Len(bs) : bs[p] = r[j]
        <5>1. IsBoxInserted(r, i, moov, bs)
          BY <4>4, <4>5, BoxInserted
        <5> QED
          BY <5>1 DEF IsBoxInserted
      <4>7. AreBoxes(bs) /\ i \in 1..Len(bs) /\ bs[i].type = "moov"
        BY <2>9, <4>4, <4>6
      <4>8. PICK p \in 1..Len(bs) : bs[p] = r[q]
        BY <4>6
      <4>9. Has(bs, "mdat")
        BY <4>3, <4>7, <4>8, HasAt
      <4>10. PICK s : s = Seek([f EXCEPT !.boxes = bs], gap.start)
        OBVIOUS
      <4>11. moved = WriteBox(s, i, c)
        BY <2>19, <3>1, <4>1, <4>5, <4>10
      <4> QED
        BY <2>18, <4>7, <4>9, <4>10, <4>11
    <3>2. CASE gap.size # moov.size
      <4>1. PICK size : size = gap.size - moov.size - HeaderLen
        OBVIOUS
      <4>2. size \in Int
        BY <2>10, <4>1, LayoutAssumption
      <4>3. PICK b : b = [gap EXCEPT !.size = size]
        OBVIOUS
      <4>4. IsBox(b) /\ b.type = "free"
        BY <2>5, <2>8, <2>9, <4>2, <4>3 DEF IsBox, BoxFields
      <4>5. PICK r : r = [rest EXCEPT ![i] = b]
        OBVIOUS
      <4>6. AreBoxes(rest) /\ IsBox(b)
        BY <2>13, <4>4
      <4>7. /\ AreBoxes(r) /\ Len(r) = Len(rest) /\ r[i] = b
            /\ \A j \in 1..Len(rest) : j # i => r[j] = rest[j]
        <5>1. IsBoxSet(rest, i, b, r)
          BY <2>16, <4>5, <4>6, BoxSet
        <5> QED
          BY <5>1 DEF IsBoxSet
      <4>8. AreBoxes(r) /\ i \in 1 .. Len(r) + 1 /\ IsBox(moov)
        BY <2>9, <2>13, <2>14, <4>7
      <4>9. PICK bs : bs = InsertAt(r, i, moov)
        OBVIOUS
      <4>10. /\ AreBoxes(bs) /\ Len(bs) = Len(r) + 1 /\ bs[i] = moov
             /\ \A j \in 1..Len(r) : \E p \in 1..Len(bs) : bs[p] = r[j]
        <5>1. IsBoxInserted(r, i, moov, bs)
          BY <4>8, <4>9, BoxInserted
        <5> QED
          BY <5>1 DEF IsBoxInserted
      <4>11. AreBoxes(bs) /\ i \in 1..Len(bs) /\ bs[i].type = "moov"
        BY <2>9, <2>13, <2>14, <4>7, <4>10
      <4>12. k \in 1..Len(r) /\ r[k].type = "mdat"
        BY <2>13, <2>15, <4>7
      <4>13. PICK p \in 1..Len(bs) : bs[p] = r[k]
        BY <4>10, <4>12
      <4>14. Has(bs, "mdat")
        BY <4>11, <4>12, <4>13, HasAt
      <4>15. PICK s : s = Seek([f EXCEPT !.boxes = bs], gap.start)
        OBVIOUS
      <4>16. PICK first : first = WriteBox(s, i, c)
        OBVIOUS
      <4>17. IsFile(first) /\ Len(first.boxes) = Len(bs) /\ Has(first.boxes, "mdat")
             /\ Has(first.boxes, "moov")
        BY <2>18, <4>11, <4>14, <4>15, <4>16
      <4>18. PICK next : next = i + 1
        OBVIOUS
      <4>19. next \in 1..Len(first.boxes) /\ IsFile(first)
        BY <2>13, <2>14, <4>7, <4>10, <4>17, <4>18
      <4>20. [rest EXCEPT ![i].size = @ - moov.size - HeaderLen] = r
        BY <2>14, <4>1, <4>3, <4>5
      <4>21. moved = WriteBox(first, next, c)
        BY <2>19, <3>2, <4>9, <4>15, <4>16, <4>18, <4>20
      <4>22. IsFile(moved) /\ SameTypes(first, moved)
        BY <2>17, <4>19, <4>21, BoxWritten
      <4> QED
        BY <4>17, <4>22, TypesKept
    <3> QED
      BY <3>1, <3>2
  <2>21. PICK last : last = LastOfType(moved.boxes, "mdat")
    OBVIOUS
  <2>22. last \in 1..Len(moved.boxes)
    BY <2>20, <2>21, TypesThere DEF IsFile, AreBoxes
  <2>23. PICK at \in Int : at = moved.boxes[last].end
    BY <2>20, <2>22 DEF IsFile, AreBoxes, IsBox
  <2>24. PICK s : s = Seek(moved, at)
    OBVIOUS
  <2>25. IsFile(s) /\ s.boxes = moved.boxes
    <3>1. IsFile(moved)
      BY <2>20
    <3> QED
      BY <2>24, <3>1, Seeked
  <2>26. HasMoov(s) /\ Has(s.boxes, "mdat")
    BY <2>20, <2>25 DEF HasMoov
  <2>27. g = FinishRoot(s, c)
    BY <1>1, <1>3, <2>3, <2>7, <2>8, <2>11, <2>19, <2>21, <2>23, <2>24 DEF MoveMoovAtomToFront
  <2> QED
    BY <2>26, <2>27, RootFinished
<1> QED
  BY <1>2, <1>3

LEMMA RestMarked ==
    ASSUME NEW f, IsFile(f), NEW c, IsContents(c), NEW truncates, NEW g,
           g = MarkRest(f, c, truncates)
    PROVE  IsFile(g)
<1>1. PICK rest \in Int : rest = f.length - f.pos
  BY DEF IsFile
<1>2. PICK size : size = IF rest < HeaderLen THEN 0 ELSE rest - HeaderLen
  OBVIOUS
<1>3. size \in Int
  BY <1>2, LayoutAssumption
<1>4. PICK b : b = NewBox("free", size)
  OBVIOUS
<1>5. IsBox(b)
  BY <1>3, <1>4, NewBoxIs
<1>6. PICK n \in Nat : n = Len(f.boxes)
  BY SeqDomain DEF IsFile, AreBoxes
<1>7. PICK bs : bs = Append(f.boxes, b)
  OBVIOUS
<1>8. AreBoxes(bs) /\ Len(bs) = n + 1
  <2>1. IsSeq(f.boxes)
    BY DEF IsFile, AreBoxes
  <2>2. /\ IsSeq(bs) /\ Len(bs) = n + 1 /\ bs[n + 1] = b
        /\ \A i \in 1..n : bs[i] = f.boxes[i]
    BY <1>6, <1>7, <2>1, AppendToSeq
  <2>3. \A i \in 1 .. n + 1 : i \in 1..n \/ i = n + 1
    OBVIOUS
  <2>4. \A i \in 1..n : IsBox(f.boxes[i])
    BY <1>6 DEF IsFile, AreBoxes
  <2> QED
    BY <1>5, <2>2, <2>3, <2>4 DEF AreBoxes
<1>9. PICK h : h = [f EXCEPT !.boxes = bs]
  OBVIOUS
<1>10. AreBoxes(bs)
  BY <1>8
<1>11. IsFile(h) /\ h.boxes = bs
  BY <1>9, <1>10, BoxesReplaced
<1>12. PICK i : i = n + 1
  OBVIOUS
<1>13. IsFile(h) /\ i \in 1..Len(h.boxes) /\ c.room \in Int /\ c.brands \in Int
       /\ (h.boxes[i].type = "moov" => IsMoov(c.moov))
  BY <1>8, <1>11, <1>12 DEF IsContents
<1>14. PICK free : free = WriteBox(h, i, c)
  OBVIOUS
<1>15. IsFile(free)
  BY <1>13, <1>14, BoxWritten
<1>16. PICK cut : cut = [free EXCEPT !.out = Append(@, << "cut", f.pos >>)]
  OBVIOUS
<1>17. IsFile(cut)
  <2>1. PICK w : w = << "cut", f.pos >>
    OBVIOUS
  <2>2. IsWrite(w)
    BY <2>1 DEF IsWrite, IsFile
  <2>3. AreWrites(free.out)
    BY <1>15 DEF IsFile
  <2>4. AreWrites(Append(free.out, w))
    BY <2>2, <2>3, WriteAdded
  <2>5. /\ DOMAIN cut = DOMAIN free /\ cut.boxes = free.boxes /\ cut.out = Append(free.out, w)
        /\ cut.pos = free.pos /\ cut.length = free.length /\ cut.roomAt = free.roomAt
    BY <1>15, <1>16, <2>1 DEF IsFile, FileFields
  <2> QED
    BY <1>15, <2>4, <2>5 DEF IsFile
<1>18. g = IF rest = 0 THEN f ELSE IF truncates THEN cut ELSE free
  <2>1. [f EXCEPT !.boxes = Append(@, b)] = h
    BY <1>7, <1>9 DEF IsFile, FileFields
  <2> QED
    BY <1>1, <1>2, <1>4, <1>6, <1>12, <1>14, <1>16, <2>1 DEF MarkRest
<1> QED
  BY <1>15, <1>17, <1>18

LEMMA FileFinished ==
    ASSUME NEW f, HasMoov(f), Has(f.boxes, "mdat"), NEW c, IsContents(c), NEW truncates,
           NEW g, g = FinishFile(f, c, truncates)
    PROVE  IsFile(g)
<1>1. PICK done : done = FinishRoot(f, c)
  OBVIOUS
<1>2. HasMoov(done)
  BY <1>1, RootFinished
<1>3. PICK moved : moved = MoveMoovAtomToFront(done, c)
  OBVIOUS
<1>4. HasMoov(moved)
  BY <1>2, <1>3, MovedToFront
<1>5. IsFile(moved)
  BY <1>4 DEF HasMoov
<1>6. g = MarkRest(moved, c, truncates)
  BY <1>1, <1>3 DEF FinishFile
<1> QED
  BY <1>5, <1>6, RestMarked

-----------------------------------------------------------------------------
(* Reading the boxes of a file.                                            *)

LEMMA DiskIsCells ==
    ASSUME NEW cells
    PROVE  IsDisk(cells) <=> AreCells(cells)
<1>1. IsList(cells) <=> IsSeq(cells)
  BY ListIsSeq
<1>2. IsSeq(cells) => DOMAIN cells = 1..Len(cells)
  BY SeqDomain
<1> QED
  BY <1>1, <1>2 DEF IsDisk, AreCells

LEMMA AtomIsBox ==
    ASSUME NEW cells, AreCells(cells), NEW p \in Nat, Len(cells) - p >= HeaderLen
    PROVE  IsBox(ReadAtom(cells, p))
<1>1. PICK n \in Nat : n = Len(cells) /\ DOMAIN cells = 1..n
  BY SeqDomain DEF AreCells
<1>2. p + 1 \in 1..n /\ HeaderLen \in Int
  BY <1>1, LayoutAssumption
<1>3. PICK head : head = cells[p + 1]
  OBVIOUS
<1>4. IsCell(head)
  BY <1>1, <1>2, <1>3 DEF AreCells
<1>5. PICK next : next = p + HeaderLen + 1
  OBVIOUS
<1>6. PICK large : large = (head[3] = 1)
  OBVIOUS
<1>7. PICK size : size = IF large THEN cells[next][2] ELSE head[3]
  OBVIOUS
<1>8. PICK end : end = IF size = 0 THEN n ELSE Min({p + size, n})
  OBVIOUS
<1>9. PICK b : b = [type |-> head[2], start |-> p, end |-> end,
                    size |-> end - p - HeadLen(large), large |-> large]
  OBVIOUS
<1>10. PICK garbage : garbage = [type |-> "garbage", start |-> p, end |-> n, size |-> 0,
                                 large |-> FALSE]
  OBVIOUS
<1>11. ReadAtom(cells, p) =
         IF head[1] # "box" \/ (large /\ ~(next \in DOMAIN cells /\ cells[next][1] = "size"))
         THEN garbage ELSE b
  BY <1>1, <1>3, <1>5, <1>6, <1>7, <1>8, <1>9, <1>10 DEF ReadAtom
<1>12. IsBox(garbage)
  BY <1>10 DEF IsBox, BoxFields
<1>13. ASSUME head[1] = "box", large => next \in DOMAIN cells /\ cells[next][1] = "size"
       PROVE  IsBox(b)
  <2>1. head[3] \in Int
    BY <1>4, <1>13 DEF IsCell
  <2>2. large => cells[next][2] \in Int
    <3>1. large => IsCell(cells[next])
      BY <1>1, <1>13 DEF AreCells
    <3> QED
      BY <1>13, <3>1 DEF IsCell
  <2>3. size \in Int
    BY <1>7, <2>1, <2>2
  <2>4. p + size \in Int /\ n \in Int
    BY <2>3
  <2>5. end \in Int
    BY <1>8, <2>4, SmallerOf
  <2>6. HeadLen(large) \in Int
    BY <1>2 DEF HeadLen
  <2>7. end - p - HeadLen(large) \in Int
    BY <2>5, <2>6
  <2> QED
    BY <1>9, <2>5, <2>7 DEF IsBox, BoxFields
<1> QED
  BY <1>11, <1>12, <1>13

\* The boxes from p on, when g says what follows.
BoxesFrom(cells, g, p) ==
    IF Len(cells) - p < HeaderLen THEN << >>
    ELSE << ReadAtom(cells, p) >>
         \o (IF ReadAtom(cells, p).end \in p + 1 .. Len(cells) THEN g[ReadAtom(cells, p).end]
                                                               ELSE << >>)

\* g is right in the last m places at least.
ReadsBack(cells, m, g) ==
    /\ g = [p \in 0..Len(cells) |-> g[p]]
    /\ \A p \in 0..Len(cells) : p >= Len(cells) - m => g[p] = BoxesFrom(cells, g, p)

LEMMA ReadsBackOneMore ==
    ASSUME NEW cells, NEW n \in Nat, n = Len(cells), NEW m \in Nat, NEW g, ReadsBack(cells, m, g)
    PROVE  \E h : ReadsBack(cells, m + 1, h)
<1> DEFINE h == [p \in 0..n |-> IF p = n - (m + 1) THEN BoxesFrom(cells, g, p) ELSE g[p]]
<1>1. \A p \in 0..n : p # n - (m + 1) => h[p] = g[p]
  OBVIOUS
<1>2. \A p \in 0..n : p = n - (m + 1) => h[p] = BoxesFrom(cells, g, p)
  OBVIOUS
<1>3. h = [p \in 0..n |-> h[p]]
  OBVIOUS
<1> HIDE DEF h
<1>4. ASSUME NEW p \in 0..n, p >= n - (m + 1) PROVE h[p] = BoxesFrom(cells, h, p)
  <2>1. PICK e : e = ReadAtom(cells, p).end
    OBVIOUS
  <2>2. e \in p + 1 .. n => e \in 0..n /\ e # n - (m + 1)
    BY <1>4
  <2>3. e \in p + 1 .. n => h[e] = g[e]
    BY <1>1, <2>2
  <2>4. BoxesFrom(cells, h, p) = BoxesFrom(cells, g, p)
    BY <2>1, <2>3 DEF BoxesFrom
  <2>5. CASE p = n - (m + 1)
    BY <1>2, <2>4, <2>5
  <2>6. CASE p # n - (m + 1)
    <3>1. p >= n - m
      BY <1>4, <2>6
    <3>2. g[p] = BoxesFrom(cells, g, p)
      BY <3>1 DEF ReadsBack
    <3> QED
      BY <1>1, <2>4, <2>6, <3>2
  <2> QED
    BY <2>5, <2>6
<1>5. ReadsBack(cells, m + 1, h)
  BY <1>3, <1>4 DEF ReadsBack
<1> QED
  BY <1>5

LEMMA BoxesRead ==
    ASSUME NEW cells, AreCells(cells)
    PROVE  AreBoxes(ReadBoxes(cells))
<1>1. PICK n \in Nat : n = Len(cells)
  BY SeqDomain DEF AreCells
<1> DEFINE At(g, p) == IF Len(cells) - p < HeaderLen THEN << >>
                       ELSE LET b == ReadAtom(cells, p)
                            IN  << b >> \o (IF b.end \in p + 1 .. Len(cells) THEN g[b.end]
                                                                           ELSE << >>)
           Read(g) == g = [p \in 0..Len(cells) |-> At(g, p)]
           read == CHOOSE g : Read(g)
           E == {m \in Nat : \E g : ReadsBack(cells, m, g)}
<1>2. \A g, p : At(g, p) = BoxesFrom(cells, g, p)
  BY DEF BoxesFrom
<1>3. 0 \in E
  <2> DEFINE e == ReadAtom(cells, n).end
             g == [p \in 0..n |-> << ReadAtom(cells, n) >> \o << >>]
             h == [p \in 0..n |-> BoxesFrom(cells, g, n)]
  <2>1. h = [p \in 0..n |-> h[p]]
    OBVIOUS
  <2>2. ASSUME NEW p \in 0..n, p >= n - 0 PROVE h[p] = BoxesFrom(cells, h, p)
    <3>1. p = n
      BY <2>2
    <3>2. ~(e \in n + 1 .. n)
      OBVIOUS
    <3>3. h[p] = BoxesFrom(cells, g, n)
      OBVIOUS
    <3> HIDE DEF h, g
    <3>4. BoxesFrom(cells, h, n) = BoxesFrom(cells, g, n)
      BY <1>1, <3>2 DEF BoxesFrom
    <3> QED
      BY <3>1, <3>3, <3>4
  <2> HIDE DEF h
  <2>3. ReadsBack(cells, 0, h)
    BY <1>1, <2>1, <2>2 DEF ReadsBack
  <2> QED
    BY <2>3
<1>4. ASSUME NEW m \in Nat, m \in E PROVE m + 1 \in E
  <2>1. PICK g : ReadsBack(cells, m, g)
    BY <1>4
  <2>2. \E h : ReadsBack(cells, m + 1, h)
    BY <1>1, <2>1, ReadsBackOneMore
  <2> QED
    BY <2>2
<1> HIDE DEF E
<1>5. n \in E
  BY <1>3, <1>4, EveryNumber
<1> USE DEF E
<1>6. PICK g : ReadsBack(cells, n, g)
  BY <1>5
<1> HIDE DEF E
<1>7. \A p \in 0..n : g[p] = BoxesFrom(cells, g, p)
  <2>1. \A p \in 0..n : p >= n - n
    OBVIOUS
  <2> QED
    BY <1>1, <1>6, <2>1 DEF ReadsBack
<1>8. Read(g)
  <2>1. \A p \in 0..n : g[p] = At(g, p)
    BY <1>2, <1>7
  <2>2. g = [p \in 0..n |-> g[p]]
    BY <1>1, <1>6 DEF ReadsBack
  <2> HIDE DEF At
  <2> QED
    BY <1>1, <2>1, <2>2
<1>9. Read(read)
  BY <1>8
<1>10. ReadBoxes(cells) = read[0]
  BY DEF ReadBoxes
<1>11. \A p \in 0..n : read[p] = BoxesFrom(cells, read, p)
  <2> HIDE DEF At, read
  <2>1. \A p \in 0..n : read[p] = At(read, p)
    BY <1>1, <1>9
  <2> QED
    BY <1>2, <2>1
<1> HIDE DEF read
<1>12. AreBoxes(<< >>)
  BY EmptyIsSeq DEF AreBoxes
<1> DEFINE A == {m \in Nat : \A p \in 0..n : p >= n - m => AreBoxes(read[p])}
\* One box more.
<1>13. ASSUME NEW p \in 0..n, \A q \in p + 1 .. n : AreBoxes(read[q])
       PROVE  AreBoxes(read[p])
  <2>1. CASE n - p < HeaderLen
    <3>1. read[p] = << >>
      BY <1>1, <1>11, <2>1 DEF BoxesFrom
    <3> QED
      BY <1>12, <3>1
  <2>2. CASE ~(n - p < HeaderLen)
    <3>1. PICK b : b = ReadAtom(cells, p)
      OBVIOUS
    <3>2. p \in Nat /\ Len(cells) - p >= HeaderLen
      BY <1>1, <2>2, LayoutAssumption
    <3>3. IsBox(b)
      BY <3>1, <3>2, AtomIsBox
    <3>4. PICK one : one = << b >>
      OBVIOUS
    <3>5. AreBoxes(one)
      BY <3>3, <3>4, OneBox
    <3>6. PICK rest : rest = IF b.end \in p + 1 .. n THEN read[b.end] ELSE << >>
      OBVIOUS
    <3>7. AreBoxes(rest)
      BY <1>12, <1>13, <3>6
    <3>8. read[p] = one \o rest
      BY <1>1, <1>11, <2>2, <3>1, <3>4, <3>6 DEF BoxesFrom
    <3>9. JoinsBoxes(one, rest, one \o rest)
      BY <3>5, <3>7, BoxesJoined
    <3> QED
      BY <3>8, <3>9 DEF JoinsBoxes
  <2> QED
    BY <2>1, <2>2
<1>14. 0 \in A
  <2> SUFFICES ASSUME NEW p \in 0..n, p >= n - 0 PROVE AreBoxes(read[p])
    OBVIOUS
  <2>1. p + 1 .. n = {}
    OBVIOUS
  <2> QED
    BY <1>13, <2>1
<1>15. ASSUME NEW m \in Nat, m \in A PROVE m + 1 \in A
  <2> SUFFICES ASSUME NEW p \in 0..n, p >= n - (m + 1) PROVE AreBoxes(read[p])
    OBVIOUS
  <2>1. \A q \in p + 1 .. n : q \in 0..n /\ q >= n - m
    OBVIOUS
  <2>2. \A q \in p + 1 .. n : AreBoxes(read[q])
    BY <1>15, <2>1
  <2> QED
    BY <1>13, <2>2
<1> HIDE DEF A
<1>16. n \in A
  BY <1>14, <1>15, EveryNumber
<1>17. 0 \in 0..n /\ 0 >= n - n
  OBVIOUS
<1>18. AreBoxes(read[0])
  BY <1>16, <1>17 DEF A
<1> QED
  BY <1>10, <1>18

LEMMA BehindMoov ==
    ASSUME NEW bs, AreBoxes(bs), Has(bs, "moov")
    PROVE  AreBoxes(AfterMoov(bs))
<1>1. IsSeq(bs)
  BY DEF AreBoxes
<1>2. PICK m : m = LastOfType(bs, "moov")
  OBVIOUS
<1>3. m \in 1..Len(bs) /\ Len(bs) \in Nat /\ DOMAIN bs = 1..Len(bs)
  BY <1>1, <1>2, TypesThere, SeqDomain
<1>31. PICK l \in Nat : l = Len(bs)
  BY <1>3
<1>32. m \in 1..l
  BY <1>3, <1>31
<1>4. PICK n \in Nat : n = Len(bs) - m
  <2>1. l - m \in Nat
    BY <1>32
  <2> QED
    BY <1>31, <2>1
<1> DEFINE B == {bs[i] : i \in 1..Len(bs)}
           D == Seq(B)
           F == [k \in 1..n |-> [s \in D |-> IF bs[m + k].type = "free" THEN s
                                             ELSE Append(s, bs[m + k])]]
           At(g, k) == IF k = 0 THEN << >>
                       ELSE IF bs[m + k].type = "free" THEN g[k - 1]
                       ELSE Append(g[k - 1], bs[m + k])
           After(g) == g = [k \in 0 .. n |-> At(g, k)]
           after == CHOOSE g : After(g)
<1>5. AfterMoov(bs) = after[n]
  BY <1>2, <1>4 DEF AfterMoov
<1>6. << >> \in D
  OBVIOUS
<1>7. \A k \in 1..n : bs[m + k] \in B
  BY <1>3, <1>4
<1>8. F \in [1..n -> [D -> D]]
  <2> HIDE DEF B
  <2>1. ASSUME NEW k \in 1..n, NEW s \in D PROVE Append(s, bs[m + k]) \in D
    BY <1>7, AppendProperties
  <2> HIDE DEF D
  <2> QED
    BY <2>1
<1>9. \E g : After(g)
  <2> HIDE DEF D, F
  <2>1. PICK g : Stepping(n, D, << >>, F, g)
    BY <1>6, <1>8, StepByStep
  <2>2. ASSUME NEW k \in 0..n PROVE g[k] = At(g, k)
    <3>1. k # 0 => k \in 1..n /\ k - 1 \in 0..n /\ g[k - 1] \in D
      BY <2>1 DEF Stepping
    <3>2. k # 0 => F[k][g[k - 1]] = IF bs[m + k].type = "free" THEN g[k - 1]
                                    ELSE Append(g[k - 1], bs[m + k])
      BY <3>1 DEF F
    <3>3. g[k] = IF k = 0 THEN << >> ELSE F[k][g[k - 1]]
      BY <2>1, <3>1 DEF Stepping
    <3> QED
      BY <3>2, <3>3
  <2>3. g = [k \in 0..n |-> g[k]]
    BY <2>1 DEF Stepping
  <2> HIDE DEF At
  <2> QED
    BY <2>2, <2>3
<1>10. After(after)
  BY <1>9
<1> HIDE DEF after, B
<1>11. after[0] \in D
  BY <1>6, <1>10
<1>12. ASSUME NEW k \in 1..n, after[k - 1] \in D PROVE after[k] \in D
  <2>1. k \in 0..n /\ k # 0
    OBVIOUS
  <2>2. after[k] = IF bs[m + k].type = "free" THEN after[k - 1]
                   ELSE Append(after[k - 1], bs[m + k])
    BY <1>10, <2>1
  <2>3. Append(after[k - 1], bs[m + k]) \in D
    BY <1>7, <1>12, AppendProperties
  <2> QED
    BY <1>12, <2>2, <2>3
<1> HIDE DEF D, At
<1>13. \A k \in 0..n : after[k] \in D
  BY <1>11, <1>12, StaysIn
<1>14. after[n] \in D
  BY <1>13
<1>15. PICK s : s = after[n] /\ s \in Seq(B)
  BY <1>14 DEF D
<1>16. \A i \in 1..Len(s) : s[i] \in B
  BY <1>15, ElementOfSeq
<1>17. \A b \in B : IsBox(b)
  BY DEF B, AreBoxes
<1>18. AreBoxes(s)
  BY <1>15, <1>16, <1>17 DEF AreBoxes, IsSeq
<1> QED
  BY <1>5, <1>15, <1>18

LEMMA MdatBegun ==
    ASSUME NEW f, HasMoov(f), NEW g, g = BeginMdat(f)
    PROVE  HasMoov(g)
<1>1. PICK n \in Nat : n = Len(f.boxes)
  BY SeqDomain DEF HasMoov, IsFile, AreBoxes
<1>2. CASE ~(n > 1 /\ (f.boxes[n - 1].type # "mdat" \/ f.boxes[n - 1].size > 0))
  BY <1>1, <1>2 DEF BeginMdat
<1>3. CASE n > 1 /\ (f.boxes[n - 1].type # "mdat" \/ f.boxes[n - 1].size > 0)
  <2>1. PICK b : b = NewBox("mdat", 0)
    OBVIOUS
  <2>2. IsBox(b)
    BY <2>1, NewBoxIs
  <2>3. AreBoxes(f.boxes) /\ IsFile(f) /\ n \in 1 .. Len(f.boxes) + 1
    BY <1>1, <1>3 DEF HasMoov, IsFile
  <2>4. PICK bs : bs = InsertAt(f.boxes, n, b)
    OBVIOUS
  <2>5. IsBoxInserted(f.boxes, n, b, bs)
    BY <2>2, <2>3, <2>4, BoxInserted
  <2>6. PICK h : h = [f EXCEPT !.boxes = bs]
    OBVIOUS
  <2>7. AreBoxes(bs)
    BY <2>5 DEF IsBoxInserted
  <2>8. IsFile(h) /\ h.boxes = bs
    BY <2>3, <2>6, <2>7, BoxesReplaced
  <2>9. Has(bs, "moov")
    <3>1. PICK i \in 1..Len(f.boxes) : f.boxes[i].type = "moov"
      BY <2>3, TypesThere DEF HasMoov, AreBoxes
    <3>2. PICK k \in 1..Len(bs) : bs[k] = f.boxes[i]
      BY <2>5 DEF IsBoxInserted
    <3> QED
      BY <2>7, <3>1, <3>2, HasAt
  <2>10. IsFile(h) /\ n \in 1..Len(h.boxes)
    BY <1>1, <1>3, <2>5, <2>8 DEF IsBoxInserted
  <2>11. g = BeginBox(h, n, f.use64)
    <3>1. [f EXCEPT !.boxes = InsertAt(@, n, NewBox("mdat", 0))] = h
      BY <2>1, <2>3, <2>4, <2>6 DEF IsFile, FileFields
    <3> QED
      BY <1>1, <1>3, <3>1 DEF BeginMdat
  <2>12. IsFile(g) /\ SameTypes(h, g)
    BY <2>10, <2>11, BoxBegun
  <2> QED
    BY <2>8, <2>9, <2>12, TypesKept DEF HasMoov
<1> QED
  BY <1>2, <1>3

LEMMA FileModified ==
    ASSUME NEW cells, AreCells(cells), Has(ReadBoxes(cells), "moov"), NEW g, g = ModifyFile(cells)
    PROVE  HasMoov(g)
<1>1. PICK bs : bs = ReadBoxes(cells)
  OBVIOUS
<1>2. AreBoxes(bs) /\ IsSeq(bs) /\ Has(bs, "moov")
  BY <1>1, BoxesRead DEF AreBoxes
<1>3. PICK m : m = FirstOfType(bs, "moov")
  OBVIOUS
<1>4. m \in 1..Len(bs) /\ Len(bs) \in Nat /\ bs[m].type = "moov"
  BY <1>2, <1>3, TypesThere, SeqDomain
<1>5. PICK moov : moov = bs[m]
  OBVIOUS
<1>6. IsBox(moov) /\ moov.type = "moov" /\ moov.start \in Int /\ moov.size \in Int
  BY <1>2, <1>4, <1>5 DEF AreBoxes, IsBox
<1>7. PICK after : after = AfterMoov(bs)
  OBVIOUS
<1>8. AreBoxes(after)
  BY <1>2, <1>7, BehindMoov
<1>9. PICK p \in Nat : p = m - 1
  BY <1>4
<1>10. PICK front : front = SubSeq(bs, 1, p)
  OBVIOUS
<1>11. AreBoxes(front) /\ Len(front) = p
  <2>1. AreBoxes(bs) /\ p <= Len(bs)
    BY <1>2, <1>4, <1>9
  <2> QED
    BY <1>10, <2>1, FirstBoxes
<1>12. PICK last : last = << moov >>
  OBVIOUS
<1>13. AreBoxes(last) /\ Len(last) = 1 /\ last[1] = moov
  BY <1>6, <1>12, OneBox
<1>14. PICK end : end = (\E b \in Range(bs) : b.type = "mdat" /\ b.large)
  OBVIOUS
<1> DEFINE Row(row) == [boxes |-> row, pos |-> moov.start, length |-> Len(cells),
                        use64 |-> end, out |-> << >>, roomAt |-> 0, created |-> FALSE]
<1>15. ASSUME NEW row, AreBoxes(row), NEW f, f = Row(row) PROVE IsFile(f) /\ f.boxes = row
  <2>1. AreWrites(<< >>)
    BY EmptyIsSeq DEF AreWrites
  <2>2. Len(cells) \in Int
    BY SeqDomain DEF AreCells
  <2> QED
    BY <1>6, <1>15, <2>1, <2>2 DEF IsFile, FileFields
\* A row with moov behind it.
<1>16. ASSUME NEW row, AreBoxes(row) PROVE AreBoxes(row \o last) /\ Has(row \o last, "moov")
  <2>1. AreBoxes(last)
    BY <1>13
  <2>2. JoinsBoxes(row, last, row \o last)
    BY <1>16, <2>1, BoxesJoined
  <2>3. PICK r : r = row \o last
    OBVIOUS
  <2>4. Len(row) \in Nat
    BY <1>16, SeqDomain DEF AreBoxes
  <2>5. AreBoxes(r) /\ r[Len(row) + 1].type = "moov" /\ Len(row) + 1 \in 1..Len(r)
    BY <1>6, <1>13, <2>2, <2>3, <2>4 DEF JoinsBoxes
  <2> QED
    BY <2>3, <2>5, HasAt
<1>17. PICK f : f = Row(front \o last)
  OBVIOUS
<1>18. HasMoov(f) /\ f.boxes = front \o last
  BY <1>11, <1>15, <1>16, <1>17 DEF HasMoov
<1>19. PICK free : free = NewBox("free", moov.size)
  OBVIOUS
<1>20. IsBox(free) /\ free.type = "free"
  <2>1. PICK size \in Int : size = moov.size
    BY <1>6
  <2> QED
    BY <1>19, <2>1, NewBoxIs
<1>21. PICK gap : gap = << free >>
  OBVIOUS
<1>22. AreBoxes(gap) /\ Len(gap) = 1 /\ gap[1] = free
  BY <1>20, <1>21, OneBox
<1>23. PICK one : one = front \o gap
  OBVIOUS
<1>24. AreBoxes(one) /\ Len(one) = m /\ one[m] = free
  <2>1. AreBoxes(front) /\ AreBoxes(gap)
    BY <1>11, <1>22
  <2>2. JoinsBoxes(front, gap, one)
    BY <1>23, <2>1, BoxesJoined
  <2>3. p + 1 = m
    BY <1>4, <1>9
  <2> QED
    BY <1>11, <1>22, <2>2, <2>3 DEF JoinsBoxes
<1>25. PICK two : two = one \o after
  OBVIOUS
<1>26. AreBoxes(two) /\ Len(two) >= m /\ two[m] = free
  <2>1. AreBoxes(one)
    BY <1>24
  <2>2. JoinsBoxes(one, after, two)
    BY <1>8, <1>25, <2>1, BoxesJoined
  <2>3. Len(after) \in Nat /\ m \in 1..Len(one)
    BY <1>4, <1>8, <1>24, SeqDomain DEF AreBoxes
  <2> QED
    BY <1>4, <1>24, <2>2, <2>3 DEF JoinsBoxes
<1>27. PICK row : row = two \o last
  OBVIOUS
<1>28. AreBoxes(row) /\ Has(row, "moov") /\ m \in 1..Len(row) /\ row[m] = free
  <2>1. AreBoxes(two) /\ AreBoxes(last)
    BY <1>13, <1>26
  <2>2. JoinsBoxes(two, last, row)
    BY <1>27, <2>1, BoxesJoined
  <2>3. Len(two) \in Nat /\ m \in 1..Len(two)
    BY <1>4, <1>26, SeqDomain DEF AreBoxes
  <2>4. AreBoxes(row) /\ Has(row, "moov")
    BY <1>16, <1>26, <1>27
  <2> QED
    BY <1>13, <1>26, <2>2, <2>3, <2>4 DEF JoinsBoxes
<1>29. PICK long : long = [f EXCEPT !.boxes = row]
  OBVIOUS
<1>30. IsFile(long) /\ long.boxes = row
  <2>1. AreBoxes(row) /\ IsFile(f)
    BY <1>18, <1>28 DEF HasMoov
  <2> QED
    BY <1>29, <2>1, BoxesReplaced
<1>31. PICK c : c = [moov |-> << >>, room |-> 1, brands |-> 0]
  OBVIOUS
<1>32. IsFile(long) /\ m \in 1..Len(long.boxes) /\ c.room \in Int /\ c.brands \in Int
       /\ (long.boxes[m].type = "moov" => IsMoov(c.moov))
  BY <1>20, <1>28, <1>30, <1>31
<1>33. PICK freed : freed = WriteBox(long, m, c)
  OBVIOUS
<1>34. IsFile(freed) /\ SameTypes(long, freed)
  BY <1>32, <1>33, BoxWritten
<1>35. HasMoov(freed)
  BY <1>28, <1>30, <1>34, TypesKept DEF HasMoov
<1>36. g = IF after = << >> THEN BeginMdat(f)
                            ELSE BeginMdat(Seek(freed, Last(after).end))
  <2>2. row = SubSeq(bs, 1, m - 1) \o << NewBox("free", moov.size) >> \o after \o << moov >>
    BY <1>9, <1>10, <1>12, <1>19, <1>21, <1>23, <1>25, <1>27
  <2>3. f = [boxes |-> SubSeq(bs, 1, m - 1) \o << moov >>, pos |-> moov.start,
             length |-> Len(cells), use64 |-> \E b \in Range(bs) : b.type = "mdat" /\ b.large,
             out |-> << >>, roomAt |-> 0, created |-> FALSE]
    BY <1>9, <1>10, <1>12, <1>14, <1>17
  <2> HIDE DEF Row
  <2> QED
    BY <1>1, <1>3, <1>5, <1>7, <1>29, <1>31, <1>33, <2>2, <2>3 DEF ModifyFile
<1>37. CASE after = << >>
  <2>1. g = BeginMdat(f)
    BY <1>36, <1>37
  <2> QED
    BY <1>18, <2>1, MdatBegun
<1>38. CASE after # << >>
  <2>1. PICK at \in Int : at = Last(after).end
    <3>1. IsSeq(after) /\ Len(after) \in Nat
      BY <1>8, SeqDomain DEF AreBoxes
    <3>2. Len(after) # 0
      <4>1. Len(after) = 0 => after = << >>
        BY <3>1, EmptySeq DEF IsSeq
      <4> QED
        BY <1>38, <4>1
    <3>3. Len(after) \in 1..Len(after)
      BY <3>1, <3>2
    <3>4. IsBox(after[Len(after)])
      BY <1>8, <3>3 DEF AreBoxes
    <3> QED
      BY <3>4 DEF IsBox, Last
  <2>2. PICK s : s = Seek(freed, at)
    OBVIOUS
  <2>3. IsFile(freed)
    BY <1>34
  <2>4. IsFile(s) /\ s.boxes = freed.boxes
    BY <2>2, <2>3, Seeked
  <2>5. HasMoov(s)
    BY <1>35, <2>4 DEF HasMoov
  <2>6. g = BeginMdat(s)
    BY <1>36, <1>38, <2>1, <2>2
  <2> QED
    BY <2>5, <2>6, MdatBegun
<1> QED
  BY <1>37, <1>38

-----------------------------------------------------------------------------
(* The disk.                                                               *)

LEMMA WriteApplied ==
    ASSUME NEW C, << "fill" >> \in C, NEW d \in Seq(C), NEW w, w[2] \in Int,
           w[1] # "cut" => w[3] \in Seq(C)
    PROVE  Apply(d, w) \in Seq(C)
<1>1. PICK n \in Nat : n = Len(d)
  BY LenProperties
<1>2. d \in [1..n -> C] /\ DOMAIN d = 1..n
  BY <1>1, LenProperties
<1>3. CASE w[1] = "cut"
  <2>1. PICK m : m = Min({w[2], n})
    OBVIOUS
  <2>2. m \in Int /\ m <= n
    <3>1. n \in Int
      OBVIOUS
    <3> QED
      BY <2>1, <3>1, SmallerOf
  <2>3. 1 \in Int /\ \A i \in 1..m : d[i] \in C
    BY <1>2, <2>2
  <2>4. SubSeq(d, 1, m) \in Seq(C)
    BY <2>2, <2>3, SubSeqProperties
  <2> QED
    BY <1>1, <1>3, <2>1, <2>4 DEF Apply
<1>4. CASE w[1] # "cut"
  <2>1. PICK new : new = w[3]
    OBVIOUS
  <2>2. PICK at \in Int : at = w[2]
    OBVIOUS
  <2>3. new \in Seq(C)
    BY <1>4, <2>1
  <2>4. Len(new) \in Nat /\ \A i \in DOMAIN new : new[i] \in C
    <3>1. new \in [1..Len(new) -> C] /\ Len(new) \in Nat /\ DOMAIN new = 1..Len(new)
      BY <2>3, LenProperties
    <3> QED
      BY <3>1
  <2>5. PICK m : m = Max({n, at + Len(new)})
    OBVIOUS
  <2>6. m \in Nat
    <3>1. n \in Int /\ at + Len(new) \in Int
      BY <2>4
    <3> QED
      BY <2>5, <3>1, GreaterOf
  <2>7. PICK o : o = [i \in 1..m |-> IF i - at \in DOMAIN new THEN new[i - at]
                                     ELSE IF i \in DOMAIN d THEN d[i] ELSE << "fill" >>]
    OBVIOUS
  <2>8. o \in [1..m -> C]
    <3>1. \A i \in DOMAIN d : d[i] \in C
      BY <1>2
    <3>2. \A i \in 1..m : (IF i - at \in DOMAIN new THEN new[i - at]
                           ELSE IF i \in DOMAIN d THEN d[i] ELSE << "fill" >>) \in C
      BY <2>4, <3>1
    <3> QED
      BY <2>7, <3>2
  <2>9. o \in Seq(C)
    BY <2>6, <2>8, FunctionIsSeq
  <2>10. Apply(d, w) = o
    BY <1>1, <1>4, <2>1, <2>2, <2>5, <2>7 DEF Apply, Overwrite
  <2> QED
    BY <2>9, <2>10
<1> QED
  BY <1>3, <1>4

LEMMA DiskApplied ==
    ASSUME AreCells(disk), AreWrites(file.out), NEW n \in 0..Len(file.out)
    PROVE  AreCells(ApplyFirst(n))
<1>1. PICK d : d = disk
  OBVIOUS
<1>2. PICK out : out = file.out
  OBVIOUS
<1>3. AreCells(d) /\ AreWrites(out)
  BY <1>1, <1>2
<1>4. Len(out) \in Nat /\ n \in Nat /\ \A k \in 1..n : k \in 1..Len(out)
  <2>1. Len(out) \in Nat
    BY <1>3, SeqDomain DEF AreWrites
  <2> QED
    BY <1>2, <2>1
<1>5. PICK R : d \in Seq(R)
  BY <1>3 DEF AreCells, IsSeq
<1> DEFINE N == {k \in 1..n : out[k][1] # "cut"}
           New == UNION {{out[k][3][i] : i \in 1..Len(out[k][3])} : k \in N}
           C == {d[i] : i \in 1..Len(d)} \cup New \cup {<< "fill" >>}
           D == Seq(C)
           F == [k \in 1..n |-> [s \in D |-> Apply(s, out[k])]]
           At(g, k) == IF k = 0 THEN d ELSE Apply(g[k - 1], out[k])
           Done(g) == g = [k \in 0..n |-> At(g, k)]
           applied == CHOOSE g : Done(g)
<1>6. ApplyFirst(n) = applied[n]
  BY <1>1, <1>2 DEF ApplyFirst
<1>7. \A k \in 1..n : out[k][2] \in Int /\ (out[k][1] # "cut" => AreCells(out[k][3]))
  BY <1>3, <1>4 DEF AreWrites, IsWrite
<1>8. \A c \in C : IsCell(c)
  <2>1. \A i \in 1..Len(d) : IsCell(d[i])
    BY <1>3 DEF AreCells
  <2>2. \A k \in N : \A i \in 1..Len(out[k][3]) : IsCell(out[k][3][i])
    BY <1>7 DEF AreCells
  <2>3. IsCell(<< "fill" >>)
    BY DEF IsCell
  <2> QED
    BY <2>1, <2>2, <2>3
<1>9. << "fill" >> \in C
  OBVIOUS
<1>10. d \in D
  <2>1. Len(d) \in Nat /\ d \in [1..Len(d) -> R]
    BY <1>5, LenProperties
  <2>2. \A i \in 1..Len(d) : d[i] \in C
    OBVIOUS
  <2> HIDE DEF C
  <2>3. d \in [1..Len(d) -> C]
    BY <2>1, <2>2
  <2> QED
    BY <2>1, <2>3, FunctionIsSeq
<1>11. ASSUME NEW k \in 1..n, out[k][1] # "cut" PROVE out[k][3] \in D
  <2>1. PICK s : s = out[k][3]
    OBVIOUS
  <2>2. AreCells(s)
    BY <1>7, <1>11, <2>1
  <2>3. Len(s) \in Nat /\ DOMAIN s = 1..Len(s) /\ s = [i \in DOMAIN s |-> s[i]]
    BY <2>2, SeqDomain DEF AreCells
  <2>4. \A i \in 1..Len(s) : s[i] \in C
    BY <1>11, <2>1
  <2> HIDE DEF C
  <2>5. s \in [1..Len(s) -> C]
    BY <2>3, <2>4
  <2>6. s \in Seq(C)
    BY <2>3, <2>5, FunctionIsSeq
  <2> QED
    BY <2>1, <2>6
<1> HIDE DEF C
<1>12. ASSUME NEW k \in 1..n, NEW s \in D PROVE Apply(s, out[k]) \in D
  <2>1. PICK w : w = out[k]
    OBVIOUS
  <2>2. w[2] \in Int /\ (w[1] # "cut" => w[3] \in Seq(C)) /\ s \in Seq(C)
    BY <1>7, <1>11, <2>1
  <2>3. Apply(s, w) \in Seq(C)
    BY <1>9, <2>2, WriteApplied
  <2> QED
    BY <2>1, <2>3
<1> HIDE DEF D
<1>13. F \in [1..n -> [D -> D]]
  BY <1>12
<1>14. \E g : Done(g)
  <2> HIDE DEF F
  <2>1. PICK g : Stepping(n, D, d, F, g)
    BY <1>4, <1>10, <1>13, StepByStep
  <2>2. ASSUME NEW k \in 0..n PROVE g[k] = At(g, k)
    <3>1. k # 0 => k \in 1..n /\ k - 1 \in 0..n /\ g[k - 1] \in D
      BY <1>4, <2>1 DEF Stepping
    <3>2. k # 0 => F[k][g[k - 1]] = Apply(g[k - 1], out[k])
      BY <3>1 DEF F
    <3>3. g[k] = IF k = 0 THEN d ELSE F[k][g[k - 1]]
      BY <2>1, <3>1 DEF Stepping
    <3> QED
      BY <3>2, <3>3
  <2>3. g = [k \in 0..n |-> g[k]]
    BY <2>1 DEF Stepping
  <2> HIDE DEF At
  <2> QED
    BY <2>2, <2>3
<1>15. Done(applied)
  BY <1>14
<1> HIDE DEF applied
<1>16. applied[0] \in D
  BY <1>4, <1>10, <1>15
<1>17. ASSUME NEW k \in 1..n, applied[k - 1] \in D PROVE applied[k] \in D
  <2>1. k \in 0..n /\ k # 0
    BY <1>4
  <2>2. applied[k] = Apply(applied[k - 1], out[k])
    BY <1>15, <2>1
  <2> QED
    BY <1>12, <1>17, <2>2
<1> HIDE DEF At
<1>18. \A k \in 0..n : applied[k] \in D
  BY <1>4, <1>16, <1>17, StaysIn
<1>19. PICK s : s = applied[n] /\ s \in Seq(C)
  BY <1>4, <1>18 DEF D
<1>20. \A i \in 1..Len(s) : s[i] \in C
  BY <1>19, ElementOfSeq
<1>21. AreCells(s)
  BY <1>8, <1>19, <1>20 DEF AreCells, IsSeq
<1> QED
  BY <1>6, <1>19, <1>21

LEMMA RoomIs ==
    ASSUME NEW moov, IsMoov(moov)
    PROVE  MoovRoom(moov) \in Int
<1>1. /\ Len(moov.traks) \in Nat /\ Len(moov.chpl) \in Nat /\ Len(moov.items) \in Nat
      /\ DOMAIN moov.traks = 1..Len(moov.traks)
  BY MoovIs, SeqDomain
<1>2. PICK c \in Nat : c = Len(moov.traks)
  BY <1>1
<1>3. \A i \in 1..c : IsSeq(moov.traks[i].samples)
  BY <1>2, MoovIs
<1> DEFINE Places(i) == {i} \X DOMAIN moov.traks[i].samples
           U(m) == UNION {Places(i) : i \in 1..m}
           E == {m \in Nat : m <= c => IsFiniteSet(U(m))}
<1>4. ASSUME NEW i \in 1..c PROVE IsFiniteSet(Places(i))
  <2>1. PICK n \in Nat : DOMAIN moov.traks[i].samples = 1..n
    BY <1>3, SeqDomain
  <2>2. IsFiniteSet(1..n) /\ IsFiniteSet({i})
    <3>1. 1 \in Int /\ n \in Int
      OBVIOUS
    <3>2. IsFiniteSet(1..n)
      BY <3>1, FS_Interval
    <3>3. IsFiniteSet({i})
      BY FS_Singleton
    <3> QED
      BY <3>2, <3>3
  <2>3. IsFiniteSet({i} \X (1..n))
    BY <2>2, FS_Product
  <2> QED
    BY <2>1, <2>3
<1> HIDE DEF Places
<1>5. 0 \in E
  <2>1. U(0) = {}
    OBVIOUS
  <2> QED
    BY <2>1, FS_EmptySet
<1>6. ASSUME NEW m \in Nat, m \in E PROVE m + 1 \in E
  <2>1. CASE m + 1 <= c
    <3>1. IsFiniteSet(U(m)) /\ IsFiniteSet(Places(m + 1))
      BY <1>4, <1>6, <2>1
    <3>2. U(m + 1) = U(m) \cup Places(m + 1)
      <4>1. 1 .. m + 1 = (1..m) \cup {m + 1}
        OBVIOUS
      <4> QED
        BY <4>1
    <3> HIDE DEF U
    <3>3. IsFiniteSet(U(m) \cup Places(m + 1))
      BY <3>1, FS_Union
    <3> QED
      BY <3>2, <3>3
  <2>2. CASE ~ (m + 1 <= c)
    BY <2>2
  <2> QED
    BY <2>1, <2>2
<1> HIDE DEF E
<1>7. c \in E
  BY <1>5, <1>6, EveryNumber
<1>8. IsFiniteSet(U(c))
  BY <1>7 DEF E
<1>9. SampleCount(moov) = Cardinality(U(c))
  BY <1>1, <1>2 DEF SampleCount, Places
<1> HIDE DEF U
<1>10. SampleCount(moov) \in Nat
  BY <1>8, <1>9, FS_CardinalityType
<1> QED
  BY <1>1, <1>10 DEF MoovRoom

-----------------------------------------------------------------------------
(* Sessions.                                                               *)

Kept ==
    /\ Good(movie) /\ AreCells(disk) /\ IsFile(file)
    /\ phase = "open" => Has(file.boxes, "moov")

FileInv == clashed \in BOOLEAN /\ (~clashed => Kept)

LEMMA NoFileIs == IsFile(NoFile)
<1>1. AreWrites(<< >>) /\ AreBoxes(<< >>)
  BY EmptyIsSeq DEF AreWrites, AreBoxes
<1> QED
  BY <1>1 DEF NoFile, IsFile, FileFields

LEMMA InitKept == Init => FileInv
<1> SUFFICES ASSUME Init PROVE FileInv
  OBVIOUS
<1>1. Good(movie)
  BY NoTracksAreGood DEF Init
<1>2. AreCells(disk)
  <2>1. IsDisk(client.disk)
    BY ClientAssumption DEF Init
  <2> QED
    BY <2>1, DiskIsCells DEF Init
<1>3. IsFile(file) /\ phase # "open" /\ clashed \in BOOLEAN
  BY NoFileIs DEF Init
<1> QED
  BY <1>1, <1>2, <1>3 DEF FileInv, Kept

LEMMA ClashSeen ==
    ASSUME NEW mv, Clashed(mv)
    PROVE  Clash(mv)
<1>0. PICK x : ClashAt(mv, x)
  BY DEF Clashed
<1>1. PICK j \in 1..Len(mv.traks) :
        mv.traks[j].id = x /\ (x = 0 \/ (mv.traks[j].kind = "broken" /\ HasTrack(mv, x)))
  BY <1>0 DEF ClashAt
<1>2. DOMAIN mv.traks = 1..Len(mv.traks)
  BY TraksDomain DEF Clashed, Keyed
<1> QED
  BY <1>1, <1>2 DEF Clash, Range

LEMMA CallKeeps ==
    ASSUME FileInv, ~clashed, NEW name, NEW mv, Fair(mv), NEW cells, AreCells(cells),
           Call(name, mv, cells)
    PROVE  FileInv'
<1>1. /\ phase = "open" /\ phase' = phase /\ disk' = disk /\ movie' = mv
      /\ file' = (IF cells = << >> THEN file ELSE Put(file, cells))
      /\ clashed' = (clashed \/ Clash(mv))
  BY DEF Call
<1>2. clashed' \in BOOLEAN /\ (~clashed' => ~Clash(mv))
  BY <1>1
<1>3. AreCells(disk) /\ IsFile(file) /\ Has(file.boxes, "moov")
  BY <1>1 DEF FileInv, Kept
<1>4. IsFile(file') /\ Has(file'.boxes, "moov")
  <2>1. PICK f : f = file
    OBVIOUS
  <2>2. PICK g : g = Put(f, cells)
    OBVIOUS
  <2>3. IsFile(f)
    BY <1>3, <2>1
  <2>4. IsFile(g) /\ g.boxes = f.boxes
    BY <2>2, <2>3, PutKeeps
  <2>5. file' = f \/ file' = g
    BY <1>1, <2>1, <2>2
  <2> QED
    BY <1>3, <2>1, <2>4, <2>5
<1>5. ~Clash(mv) => Good(mv)
  BY ClashSeen DEF Fair
<1>6. ~clashed' => Kept'
  BY <1>1, <1>2, <1>3, <1>4, <1>5 DEF Kept
<1> QED
  BY <1>2, <1>6 DEF FileInv

LEMMA BegunIs ==
    ASSUME Good(movie)
    PROVE  Good(Begun) /\ Begun.ok /\ Keyed(Begun)
<1>1. Good(Begun)
  BY FlagSet DEF Begun
<1>2. "ok" \in DOMAIN movie
  BY NamedIsKeyed DEF Good, Keyed, Shape, Listed, MovieFields
<1>3. Begun.ok
  BY <1>2 DEF Begun
<1> QED
  BY <1>1, <1>3, NamedIsKeyed DEF Good

LEMMA GoodIsFair == \A mv : Good(mv) => Fair(mv)
BY DEF Fair

LEMMA NoCells == AreCells(<< >>)
BY EmptyIsSeq DEF AreCells

LEMMA AddKeeps ==
    ASSUME FileInv, ~clashed,
           \/ CallAddVideoTrack \/ CallAddAudioTrack \/ CallAddSubtitleTrack \/ CallAddTextTrack
           \/ CallAddODTrack \/ CallAddSceneTrack \/ CallAddHintTrack \/ CallAddChapterTextTrack
    PROVE  FileInv'
<1>1. Good(Begun) /\ Begun.ok
  BY BegunIs DEF FileInv, Kept
<1>2. PICK b : b = Begun
  OBVIOUS
<1>3. /\ Fair(AddVideoTrack(b)) /\ Fair(AddAudioTrack(b)) /\ Fair(AddSubtitleTrack(b))
      /\ Fair(AddODTrack(b)) /\ Fair(AddSceneTrack(b))
      /\ \A ref : /\ Fair(AddHintTrack(b, ref)) /\ Fair(AddTextTrack(b, ref))
                  /\ Fair(AddChapterTextTrack(b, ref))
  BY <1>1, <1>2, AddingKeepsNames
<1>4. CASE CallAddVideoTrack
  BY <1>2, <1>3, <1>4, CallKeeps, NoCells DEF CallAddVideoTrack
<1>5. CASE CallAddAudioTrack
  BY <1>2, <1>3, <1>5, CallKeeps, NoCells DEF CallAddAudioTrack
<1>6. CASE CallAddSubtitleTrack
  BY <1>2, <1>3, <1>6, CallKeeps, NoCells DEF CallAddSubtitleTrack
<1>7. CASE CallAddTextTrack
  BY <1>2, <1>3, <1>7, CallKeeps, NoCells DEF CallAddTextTrack
<1>8. CASE CallAddODTrack
  BY <1>2, <1>3, <1>8, CallKeeps, NoCells DEF CallAddODTrack
<1>9. CASE CallAddSceneTrack
  BY <1>2, <1>3, <1>9, CallKeeps, NoCells DEF CallAddSceneTrack
<1>10. CASE CallAddHintTrack
  BY <1>2, <1>3, <1>10, CallKeeps, NoCells DEF CallAddHintTrack
<1>11. CASE CallAddChapterTextTrack
  BY <1>2, <1>3, <1>11, CallKeeps, NoCells DEF CallAddChapterTextTrack
<1>12. \/ CallAddVideoTrack \/ CallAddAudioTrack \/ CallAddSubtitleTrack \/ CallAddTextTrack
       \/ CallAddODTrack \/ CallAddSceneTrack \/ CallAddHintTrack \/ CallAddChapterTextTrack
  OBVIOUS
<1> QED
  BY <1>4, <1>5, <1>6, <1>7, <1>8, <1>9, <1>10, <1>11, <1>12

LEMMA DeleteKeeps ==
    ASSUME FileInv, ~clashed, CallDeleteTrack
    PROVE  FileInv'
<1>1. Good(Begun)
  BY BegunIs DEF FileInv, Kept
<1>2. PICK id : Call("delete", DeleteTrack(Begun, id), << >>)
  BY DEF CallDeleteTrack
<1>3. PICK b : b = Begun
  OBVIOUS
<1>4. Good(DeleteTrack(b, id))
  BY <1>1, <1>3, DeletingKeepsNames
<1>5. Fair(DeleteTrack(b, id))
  BY <1>4, GoodIsFair
<1> QED
  BY <1>2, <1>3, <1>5, CallKeeps, NoCells

LEMMA OneSample ==
    ASSUME NEW n
    PROVE  IsSeq(<< MediaSample(n) >>) /\ AreCells(<< << "media", n >> >>)
<1>1. PICK s : s = MediaSample(n)
  OBVIOUS
<1>2. PICK t : t = << s >>
  OBVIOUS
<1>21. DOMAIN t = 1..1 /\ t = [k \in DOMAIN t |-> t[k]]
  BY <1>2
<1>3. IsSeq(<< s >>)
  BY <1>2, <1>21, MadeSeq
<1>4. PICK cell : cell = << "media", n >>
  OBVIOUS
<1>5. IsCell(cell)
  BY <1>4, MediaIsCell
<1> QED
  BY <1>1, <1>3, <1>4, <1>5, OneCell

LEMMA WriteSampleKeeps ==
    ASSUME FileInv, ~clashed, CallWriteSample
    PROVE  FileInv'
<1>1. Good(Begun) /\ Keyed(Begun)
  BY BegunIs DEF FileInv, Kept
<1>2. PICK i : Call("write", WriteSamples(Begun, file, IdAt(movie, i), << MediaSample(written + 1) >>),
                  << << "media", written + 1 >> >>)
  BY DEF CallWriteSample
<1>3. PICK b : b = Begun
  OBVIOUS
<1>4. PICK id : id = IdAt(movie, i)
  OBVIOUS
<1>5. PICK samples : samples = << MediaSample(written + 1) >>
  OBVIOUS
<1>6. PICK cells : cells = << << "media", written + 1 >> >>
  OBVIOUS
<1>7. IsSeq(samples) /\ AreCells(cells)
  BY <1>5, <1>6, OneSample
<1>8. PICK n : n = WriteSamples(b, file, id, samples)
  OBVIOUS
<1>9. SameReferences(b, n)
  BY <1>1, <1>3, <1>7, <1>8, SamplesWritten
<1>10. Fair(n)
  BY <1>1, <1>3, <1>9, SameReferencesKeep, GoodIsFair
<1>11. Call("write", n, cells)
  BY <1>2, <1>3, <1>4, <1>5, <1>6, <1>8
<1> QED
  BY <1>7, <1>10, <1>11, CallKeeps

LEMMA TwoCells ==
    ASSUME NEW a, IsCell(a), NEW b, IsCell(b)
    PROVE  AreCells(<< a, b >>)
<1>1. PICK s : s = << a, b >>
  OBVIOUS
<1>2. PICK n \in Nat : n = 2
  OBVIOUS
<1>3. DOMAIN s = 1..n /\ s = [k \in DOMAIN s |-> s[k]] /\ s[1] = a /\ s[2] = b
  BY <1>1, <1>2
<1>4. IsSeq(s) /\ Len(s) = n
  BY <1>3, MadeSeq
<1>5. \A i \in 1..n : i = 1 \/ i = 2
  BY <1>2
<1>6. \A i \in 1..n : IsCell(s[i])
  BY <1>3, <1>5
<1> QED
  BY <1>1, <1>4, <1>6 DEF AreCells

LEMMA IsmaKeeps ==
    ASSUME FileInv, ~clashed, CallMakeIsmaCompliant
    PROVE  FileInv'
<1>1. Good(Begun) /\ Begun.ok
  BY BegunIs DEF FileInv, Kept
<1>2. PICK bg : bg = Begun
  OBVIOUS
<1>3. PICK made : made = MakeIsmaCompliant(bg)
  OBVIOUS
<1>4. Fair(made)
  BY <1>1, <1>2, <1>3, IsmaKeepsNames
<1>5. \/ Call("isma", made, << >>)
      \/ \E od \in {WriteSamples(made, file, made.od, << MediaSample(written + 1) >>)} :
                  Call("isma", WriteSamples(od, [file EXCEPT !.pos = @ + 1], Newest(made),
                                            << MediaSample(written + 2) >>),
                       << << "media", written + 1 >>, << "media", written + 2 >> >>)
  BY <1>2, <1>3 DEF CallMakeIsmaCompliant
<1>6. CASE Call("isma", made, << >>)
  BY <1>4, <1>6, CallKeeps, NoCells
<1>7. ASSUME NEW od, od = WriteSamples(made, file, made.od, << MediaSample(written + 1) >>),
             Call("isma", WriteSamples(od, [file EXCEPT !.pos = @ + 1], Newest(made),
                                            << MediaSample(written + 2) >>),
                       << << "media", written + 1 >>, << "media", written + 2 >> >>)
      PROVE  FileInv'
  <2>1. PICK one : one = << MediaSample(written + 1) >>
    OBVIOUS
  <2>2. PICK two : two = << MediaSample(written + 2) >>
    OBVIOUS
  <2>3. IsSeq(one) /\ IsSeq(two)
    BY <2>1, <2>2, OneSample
  <2>4. PICK od1 : od1 = made.od
    OBVIOUS
  <2>5. Keyed(made)
    BY <1>4, FairIsKeyed
  <2>6. SameReferences(made, od)
    BY <1>7, <2>1, <2>3, <2>4, <2>5, SamplesWritten
  <2>7. Fair(od)
    BY <1>4, <2>6, SameReferencesKeep
  <2>8. PICK f : f = [file EXCEPT !.pos = @ + 1]
    OBVIOUS
  <2>9. PICK id : id = Newest(made)
    OBVIOUS
  <2>10. PICK n : n = WriteSamples(od, f, id, two)
    OBVIOUS
  <2>11. Keyed(od)
    BY <2>7, FairIsKeyed
  <2>12. SameReferences(od, n)
    BY <2>3, <2>10, <2>11, SamplesWritten
  <2>13. Fair(n)
    BY <2>7, <2>12, SameReferencesKeep
  <2>14. PICK c : c = << "media", written + 1 >>
    OBVIOUS
  <2>15. PICK d : d = << "media", written + 2 >>
    OBVIOUS
  <2>16. IsCell(c) /\ IsCell(d)
    BY <2>14, <2>15, MediaIsCell
  <2>17. AreCells(<< c, d >>)
    BY <2>16, TwoCells
  <2>18. Call("isma", n, << c, d >>)
    BY <1>7, <2>2, <2>8, <2>9, <2>10, <2>14, <2>15
  <2> QED
    BY <2>13, <2>17, <2>18, CallKeeps
<1> QED
  BY <1>5, <1>6, <1>7

LEMMA SetKeeps ==
    ASSUME FileInv, ~clashed, NEW name, NEW list, IsSeq(list), NEW type,
           SetChapters(name, list, type)
    PROVE  FileInv'
<1>1. Good(Begun)
  BY BegunIs DEF FileInv, Kept
<1>2. PICK bg : bg = Begun
  OBVIOUS
<1>3. PICK zero : zero = 0
  OBVIOUS
<1>4. PICK cleared : cleared = DeleteChapters(bg, type, zero)
  OBVIOUS
<1>5. Good(cleared)
  BY <1>1, <1>2, <1>4, ChaptersDeleted
<1>6. PICK set : set = AddChapters(cleared, file, written, list, type)
  OBVIOUS
<1>7. Call(name, set.movie, [k \in DOMAIN set.samples |-> set.samples[k][2]])
  BY <1>2, <1>3, <1>4, <1>6 DEF SetChapters
<1>8. /\ Fair(set.movie)
      /\ IsSeq(set.samples) /\ \A k \in 1..Len(set.samples) : set.samples[k][2][1] = "text"
  BY <1>5, <1>6, ChaptersAdded
<1>9. PICK cells : cells = [k \in DOMAIN set.samples |-> set.samples[k][2]]
  OBVIOUS
<1>10. Len(set.samples) \in Nat /\ DOMAIN set.samples = 1..Len(set.samples)
  BY <1>8, SeqDomain
<1>11. DOMAIN cells = 1..Len(set.samples) /\ cells = [k \in DOMAIN cells |-> cells[k]]
  BY <1>9, <1>10
<1>12. IsSeq(cells) /\ Len(cells) = Len(set.samples)
  BY <1>10, <1>11, MadeSeq
<1>13. \A k \in 1..Len(cells) : IsCell(cells[k])
  <2>1. SUFFICES ASSUME NEW k \in 1..Len(cells) PROVE IsCell(cells[k])
    OBVIOUS
  <2>2. cells[k] = set.samples[k][2]
    BY <1>9, <1>10, <1>12
  <2>3. cells[k][1] = "text"
    BY <1>8, <1>12, <2>2
  <2>4. PICK cell : cell = cells[k]
    OBVIOUS
  <2> QED
    BY <2>3, <2>4, MediaIsCell
<1>14. AreCells(cells)
  BY <1>12, <1>13 DEF AreCells
<1>15. Call(name, set.movie, cells)
  BY <1>7, <1>9
<1>16. PICK n : n = set.movie
  OBVIOUS
<1> QED
  BY <1>8, <1>14, <1>15, <1>16, CallKeeps

LEMMA ListsAreSeqs == \A list \in ChapterLists : IsSeq(list)
BY ClientAssumption DEF IsList, IsSeq

LEMMA ChaptersKeep ==
    ASSUME FileInv, ~clashed, CallSetChapters \/ CallConvertChapters
    PROVE  FileInv'
<1>1. CASE CallSetChapters
  <2>1. PICK list, type : list \in ChapterLists /\ SetChapters("chapters", list, type)
    BY <1>1 DEF CallSetChapters
  <2> QED
    BY <2>1, ListsAreSeqs, SetKeeps
<1>2. CASE CallConvertChapters
  <2>1. PICK to, list :
           /\ list = GetChapters(movie, disk, IF to = QtType THEN NeroType ELSE QtType)
           /\ Call("convert", Begun, << >>) \/ SetChapters("convert", list, to)
    BY <1>2 DEF CallConvertChapters
  <2>2. CASE Call("convert", Begun, << >>)
    <3>1. PICK bg : bg = Begun
      OBVIOUS
    <3>2. Fair(bg)
      BY <3>1, BegunIs, GoodIsFair DEF FileInv, Kept
    <3> QED
      BY <2>2, <3>1, <3>2, CallKeeps, NoCells
  <2>3. CASE SetChapters("convert", list, to)
    <3>1. PICK from : from = IF to = QtType THEN NeroType ELSE QtType
      OBVIOUS
    <3>2. list = GetChapters(movie, disk, from)
      BY <2>1, <3>1
    <3>3. Named(movie)
      BY DEF FileInv, Kept, Good
    <3>4. IsSeq(list)
      BY <3>2, <3>3, ChaptersAreList
    <3> QED
      BY <2>3, <3>4, SetKeeps
  <2> QED
    BY <2>1, <2>2, <2>3
<1> QED
  BY <1>1, <1>2

LEMMA AddChapterKeeps ==
    ASSUME FileInv, ~clashed, CallAddChapter
    PROVE  FileInv'
<1>1. Good(Begun) /\ Keyed(Begun)
  BY BegunIs DEF FileInv, Kept
<1>2. PICK bg : bg = Begun
  OBVIOUS
<1>3. PICK id : id = FindChapterTrack(movie)
  OBVIOUS
<1>4. PICK list : list = << Chapter >>
  OBVIOUS
<1>5. DOMAIN list = 1..1 /\ list = [k \in DOMAIN list |-> list[k]]
  BY <1>4
<1>6. IsSeq(list) /\ Len(list) = 1
  BY <1>5, MadeSeq
<1>7. PICK samples : samples = TextSamples(list, written)
  OBVIOUS
<1>8. IsSeq(samples) /\ Len(samples) = 1 /\ samples[1][2][1] = "text"
  <2>1. IsSeq(samples) /\ Len(samples) = Len(list)
        /\ \A k \in 1..Len(samples) : samples[k][2][1] = "text"
    BY <1>6, <1>7, TextIsSamples
  <2> QED
    BY <1>6, <2>1
<1>9. PICK cell : cell = samples[1][2]
  OBVIOUS
<1>10. AreCells(<< cell >>)
  BY <1>8, <1>9, MediaIsCell, OneCell
<1>11. PICK n : n = WriteSamples(bg, file, id, samples)
  OBVIOUS
<1>12. Call("chapter", n, << cell >>)
  BY <1>2, <1>3, <1>4, <1>7, <1>9, <1>11 DEF CallAddChapter
<1>13. SameReferences(bg, n)
  BY <1>1, <1>2, <1>8, <1>11, SamplesWritten
<1>14. Fair(n)
  BY <1>1, <1>2, <1>13, SameReferencesKeep, GoodIsFair
<1> QED
  BY <1>10, <1>12, <1>14, CallKeeps

LEMMA OtherChaptersKeep ==
    ASSUME FileInv, ~clashed, CallAddNeroChapter \/ CallDeleteChapters
    PROVE  FileInv'
<1>1. PICK bg : bg = Begun
  OBVIOUS
<1>2. Good(bg)
  BY <1>1, BegunIs DEF FileInv, Kept
<1>3. CASE CallAddNeroChapter
  <2>1. PICK start : start = StartOf(told.nero, Len(told.nero) + 1)
    OBVIOUS
  <2>2. PICK title : title = Chapter[2]
    OBVIOUS
  <2>3. PICK n : n = AddNeroChapter(bg, start, title)
    OBVIOUS
  <2>4. Call("nerochapter", n, << >>)
    BY <1>1, <1>3, <2>1, <2>2, <2>3 DEF CallAddNeroChapter
  <2>5. Fair(n)
    BY <1>2, <2>3, NeroChapterAdded, GoodIsFair
  <2> QED
    BY <2>4, <2>5, CallKeeps, NoCells
<1>4. CASE CallDeleteChapters
  <2>1. PICK type, named : Call("nochapters", DeleteChapters(bg, type, named), << >>)
    BY <1>1, <1>4 DEF CallDeleteChapters
  <2>2. PICK n : n = DeleteChapters(bg, type, named)
    OBVIOUS
  <2>3. Fair(n)
    BY <1>2, <2>2, ChaptersDeleted, GoodIsFair
  <2> QED
    BY <2>1, <2>2, <2>3, CallKeeps, NoCells
<1> QED
  BY <1>3, <1>4

LEMMA ItemsKeep ==
    ASSUME FileInv, ~clashed, NEW name, NEW items, IsSeq(items),
           Call(name, [Begun EXCEPT !.items = items], << >>)
    PROVE  FileInv'
<1>1. PICK bg : bg = Begun
  OBVIOUS
<1>2. Good(bg) /\ Keyed(bg)
  BY <1>1, BegunIs DEF FileInv, Kept
<1>3. PICK n : n = [bg EXCEPT !.items = items]
  OBVIOUS
<1>4. SameReferences(bg, n)
  BY <1>2, <1>3, ListSet
<1>5. Fair(n)
  BY <1>2, <1>4, SameReferencesKeep, GoodIsFair
<1>6. Call(name, n, << >>)
  BY <1>1, <1>3
<1> QED
  BY <1>5, <1>6, CallKeeps, NoCells

LEMMA ItemCallsKeep ==
    ASSUME FileInv, ~clashed, TagsStore \/ ItmfAddItem \/ ItmfSetItem \/ ItmfRemoveItem
    PROVE  FileInv'
<1>1. IsSeq(movie.items) /\ "items" \in DOMAIN movie
  BY NamedIsKeyed DEF FileInv, Kept, Good, Keyed, Shape, Rest, Listed, MovieFields
<1>2. PICK old : old = movie.items
  OBVIOUS
<1>3. CASE TagsStore
  <2>1. Begun.items = movie.items
    BY <1>1 DEF Begun
  <2>2. PICK items : items = Store(tags, old)
    OBVIOUS
  <2>3. IsSeq(items)
    BY <1>1, <1>2, <2>2, TagsStored
  <2>4. Call("tags", [Begun EXCEPT !.items = Store(tags, @)], << >>)
    BY <1>3 DEF TagsStore
  <2>5. [Begun EXCEPT !.items = Store(tags, @)] = [Begun EXCEPT !.items = items]
    BY <1>2, <2>1, <2>2
  <2>6. Call("tags", [Begun EXCEPT !.items = items], << >>)
    BY <2>4, <2>5
  <2> QED
    BY <2>3, <2>6, ItemsKeep
<1>4. CASE ItmfAddItem
  <2>1. PICK item : EditItems(Append(movie.items, item))
    BY <1>4 DEF ItmfAddItem
  <2>2. IsSeq(Append(movie.items, item))
    BY <1>1, AppendToSeq
  <2> QED
    BY <2>1, <2>2, ItemsKeep DEF EditItems
<1>5. CASE ItmfSetItem
  <2>1. PICK item, i : i \in DOMAIN movie.items /\ EditItems([movie.items EXCEPT ![i] = item])
    BY <1>5 DEF ItmfSetItem
  <2>2. IsSeq([old EXCEPT ![i] = item])
    BY <1>1, <1>2, <2>1, ItemsEdited
  <2> QED
    BY <1>2, <2>1, <2>2, ItemsKeep DEF EditItems
<1>6. CASE ItmfRemoveItem
  <2>1. PICK i : i \in DOMAIN movie.items /\ EditItems(RemoveAt(movie.items, i))
    BY <1>6 DEF ItmfRemoveItem
  <2>2. IsSeq(RemoveAt(old, i))
    BY <1>1, <1>2, <2>1, ItemsEdited
  <2> QED
    BY <1>2, <2>1, <2>2, ItemsKeep DEF EditItems
<1> QED
  BY <1>3, <1>4, <1>5, <1>6

LEMMA SameKeeps ==
    ASSUME FileInv, ~clashed, UNCHANGED << disk, movie, clashed >>,
           IsFile(file'), phase' = "open" => phase = "open" /\ file' = file
    PROVE  FileInv'
BY DEF FileInv, Kept

LEMMA QuietKeeps ==
    ASSUME FileInv, ~clashed,
           \/ ModifyRefused \/ TagsAlloc \/ TagsFetch \/ TagsSet
           \/ TagsAddArtwork \/ TagsSetArtwork \/ TagsRemoveArtwork
    PROVE  FileInv'
<1>1. CASE ModifyRefused
  <2>1. UNCHANGED << disk, movie, clashed, file >> /\ phase' # "open"
    BY <1>1 DEF ModifyRefused
  <2>2. IsFile(file')
    BY <2>1 DEF FileInv, Kept
  <2> QED
    BY <2>1, <2>2, SameKeeps
<1>2. ASSUME \E t : TagsCall(t)
      PROVE  FileInv'
  <2>1. UNCHANGED << disk, movie, clashed, file, phase >>
    BY <1>2 DEF TagsCall
  <2>2. IsFile(file')
    BY <2>1 DEF FileInv, Kept
  <2> QED
    BY <2>1, <2>2, SameKeeps
<1>3. \/ TagsAlloc \/ TagsFetch \/ TagsSet
      \/ TagsAddArtwork \/ TagsSetArtwork \/ TagsRemoveArtwork
      => \E t : TagsCall(t)
  BY DEF TagsAlloc, TagsFetch, TagsSet, TagsAddArtwork, TagsSetArtwork, TagsRemoveArtwork
<1> QED
  BY <1>1, <1>2, <1>3

LEMMA ContentsAre ==
    ASSUME NEW mv, Good(mv), NEW brands \in Int, NEW c, c = Contents(mv, brands)
    PROVE  IsContents(c)
<1>1. PICK moov : moov = Saved(mv)
  OBVIOUS
<1>2. IsMoov(moov)
  BY <1>1, MovieSaved
<1>3. MoovRoom(moov) \in Int
  BY <1>2, RoomIs
<1>4. c.moov = moov /\ c.room = MoovRoom(moov) /\ c.brands = brands
  BY <1>1 DEF Contents
<1> QED
  BY <1>2, <1>3, <1>4 DEF IsContents

LEMMA CreateKeeps ==
    ASSUME FileInv, ~clashed, Create
    PROVE  FileInv'
<1>1. PICK mv : mv = NoTracks(client.iods)
  OBVIOUS
<1>2. Good(mv)
  BY <1>1, NoTracksAreGood
<1>3. PICK one \in Int : one = 1
  OBVIOUS
<1>4. PICK c : c = Contents(mv, one)
  OBVIOUS
<1>5. IsContents(c)
  BY <1>2, <1>4, ContentsAre
<1>6. movie' = mv /\ file' = CreateFile(client.ftyp, client.use64, c)
      /\ disk' = disk /\ clashed' = clashed
  BY <1>1, <1>3, <1>4 DEF Create
<1>7. PICK withFtyp : withFtyp = client.ftyp
  OBVIOUS
<1>8. PICK use64 : use64 = client.use64
  OBVIOUS
<1>9. PICK g : g = CreateFile(withFtyp, use64, c)
  OBVIOUS
<1>10. HasMoov(g)
  BY <1>5, <1>9, FileCreated
<1>11. IsFile(file') /\ Has(file'.boxes, "moov")
  BY <1>6, <1>7, <1>8, <1>9, <1>10 DEF HasMoov
<1> QED
  BY <1>2, <1>6, <1>11 DEF FileInv, Kept

LEMMA ModifyKeeps ==
    ASSUME FileInv, ~clashed, Modify
    PROVE  FileInv'
<1>1. PICK boxes :
         /\ boxes = ReadBoxes(disk) /\ Readable(boxes)
         /\ movie' = ReadMovie(Held(disk, boxes[FirstOfType(boxes, "moov")]), Brands(boxes))
  BY DEF Modify
<1>2. AreCells(disk)
  BY DEF FileInv, Kept
<1>3. \A at \in DOMAIN disk : IsCell(disk[at])
  BY <1>2, SeqDomain DEF AreCells
<1>4. PICK b : b = boxes[FirstOfType(boxes, "moov")]
  OBVIOUS
<1>5. WholeMoov(b) /\ Has(boxes, "moov")
  BY <1>1, <1>4 DEF Readable, CanModify
<1>6. IsMoov(Held(disk, b))
  <2>1. PICK at : at = b.start + HeadLen(b.large) + 1
    OBVIOUS
  <2>2. at \in DOMAIN disk /\ disk[at][1] = "moov"
    BY <1>5, <2>1 DEF WholeMoov
  <2>3. IsMoov(disk[at][2])
    BY <1>3, <2>2 DEF IsCell
  <2> QED
    BY <2>1, <2>3 DEF Held
<1>7. Brands(boxes) \in Int
  <2>1. CASE ~Has(boxes, "ftyp")
    BY <2>1 DEF Brands
  <2>2. CASE Has(boxes, "ftyp")
    <3>1. PICK f : f = boxes[FirstOfType(boxes, "ftyp")]
      OBVIOUS
    <3>2. WholeFtyp(f)
      BY <1>1, <2>2, <3>1 DEF Readable
    <3>3. PICK at : at = f.start + HeadLen(f.large) + 1
      OBVIOUS
    <3>4. at \in DOMAIN disk /\ disk[at][1] = "ftyp"
      BY <3>2, <3>3 DEF WholeFtyp
    <3>5. disk[at][2] \in Int
      BY <1>3, <3>4 DEF IsCell
    <3>6. Held(disk, f) = disk[at][2]
      BY <3>3 DEF Held
    <3> QED
      BY <2>2, <3>1, <3>5, <3>6 DEF Brands
  <2> QED
    BY <2>1, <2>2
<1>8. PICK brands \in Int : brands = Brands(boxes)
  BY <1>7
<1>9. PICK moov : moov = Held(disk, b)
  OBVIOUS
<1>10. Good(ReadMovie(moov, brands))
  BY <1>6, <1>9, MovieRead
<1>11. Good(movie')
  BY <1>1, <1>4, <1>8, <1>9, <1>10
<1>12. PICK cells : cells = disk
  OBVIOUS
<1>13. PICK g : g = ModifyFile(cells)
  OBVIOUS
<1>14. HasMoov(g)
  <2>1. AreCells(cells) /\ Has(ReadBoxes(cells), "moov")
    BY <1>1, <1>2, <1>5, <1>12
  <2> QED
    BY <1>13, <2>1, FileModified
<1>15. file' = g /\ disk' = disk /\ clashed' = clashed
  BY <1>12, <1>13 DEF Modify
<1> QED
  BY <1>2, <1>11, <1>14, <1>15 DEF HasMoov, FileInv, Kept

LEMMA CloseKeeps ==
    ASSUME FileInv, ~clashed, Close \/ CloseThrows
    PROVE  FileInv'
<1>1. CASE Close
  <2>1. Good(movie) /\ HasMoov(file) /\ Has(file.boxes, "mdat")
    BY <1>1 DEF Close, FileInv, Kept, HasMoov
  <2>2. movie.brands \in Int
    BY <2>1, NamedIsKeyed DEF Good, Keyed, Shape, Rest
  <2>3. PICK brands \in Int : brands = BrandsAtClose
    BY <2>2 DEF BrandsAtClose
  <2>4. PICK mv : mv = movie
    OBVIOUS
  <2>5. PICK c : c = Contents(mv, brands)
    OBVIOUS
  <2>6. IsContents(c)
    BY <2>1, <2>4, <2>5, ContentsAre
  <2>7. PICK f : f = file
    OBVIOUS
  <2>8. PICK truncates : truncates = client.truncates
    OBVIOUS
  <2>9. PICK g : g = FinishFile(f, c, truncates)
    OBVIOUS
  <2>10. IsFile(g)
    BY <2>1, <2>6, <2>7, <2>9, FileFinished
  <2>11. file' = g /\ phase' # "open" /\ UNCHANGED << disk, movie, clashed >>
    BY <1>1, <2>3, <2>4, <2>5, <2>7, <2>8, <2>9 DEF Close
  <2> QED
    BY <2>10, <2>11, SameKeeps
<1>2. CASE CloseThrows
  BY <1>2, NoFileIs, SameKeeps DEF CloseThrows
<1> QED
  BY <1>1, <1>2

LEMMA WriteKeeps ==
    ASSUME FileInv, ~clashed, Write
    PROVE  FileInv'
<1>1. IsFile(file) /\ AreCells(disk) /\ AreWrites(file.out) /\ Good(movie)
  BY DEF FileInv, Kept, IsFile
<1>2. PICK n \in Nat : n = Len(file.out)
  BY <1>1, SeqDomain DEF AreWrites
<1>3. n \in 0..Len(file.out)
  BY <1>2
<1>4. AreCells(ApplyFirst(n))
  BY <1>1, <1>3, DiskApplied
<1>5. AreCells(disk')
  BY <1>2, <1>4 DEF Write
<1>6. PICK g : g = [file EXCEPT !.out = << >>]
  OBVIOUS
<1>7. IsFile(g) /\ g.boxes = file.boxes
  <2>1. DOMAIN g = DOMAIN file /\ g.out = << >> /\ g.boxes = file.boxes /\ g.pos = file.pos
        /\ g.length = file.length /\ g.roomAt = file.roomAt
    BY <1>1, <1>6 DEF IsFile, FileFields
  <2>2. AreWrites(<< >>)
    BY EmptyIsSeq DEF AreWrites
  <2> QED
    BY <1>1, <2>1, <2>2 DEF IsFile
<1>8. /\ IsFile(file') /\ movie' = movie /\ clashed' = clashed
      /\ phase' = "open" => phase = "open" /\ file' = g
  BY <1>6, <1>7, NoFileIs DEF Write
<1>9. phase' = "open" => Has(file'.boxes, "moov")
  BY <1>7, <1>8 DEF FileInv, Kept
<1> QED
  BY <1>1, <1>5, <1>8, <1>9 DEF FileInv, Kept

LEMMA CrashKeeps ==
    ASSUME FileInv, ~clashed, Crash
    PROVE  FileInv'
<1>1. IsFile(file) /\ AreCells(disk) /\ AreWrites(file.out) /\ Good(movie)
  BY DEF FileInv, Kept, IsFile
<1>2. PICK n \in 0 .. Max({0, Len(file.out) - 1}) : disk' = ApplyFirst(n)
  BY DEF Crash
<1>3. PICK len \in Nat : len = Len(file.out)
  BY <1>1, SeqDomain DEF AreWrites
<1>4. PICK m : m = Max({0, Len(file.out) - 1})
  OBVIOUS
<1>5. m <= len /\ m \in Int
  <2>1. PICK before \in Int : before = len - 1
    OBVIOUS
  <2>2. m = Max({0, before})
    BY <1>3, <1>4, <2>1
  <2>3. PICK zero \in Int : zero = 0
    OBVIOUS
  <2>4. m \in {zero, before}
    BY <2>2, <2>3, GreaterOf
  <2> QED
    BY <2>1, <2>3, <2>4
<1>6. n \in 0..Len(file.out)
  BY <1>2, <1>3, <1>4, <1>5
<1>7. AreCells(disk')
  BY <1>1, <1>2, <1>6, DiskApplied
<1>8. IsFile(file') /\ phase' # "open" /\ movie' = movie /\ clashed' = clashed
  BY NoFileIs DEF Crash
<1> QED
  BY <1>1, <1>7, <1>8 DEF FileInv, Kept

-----------------------------------------------------------------------------
(* The theorems.                                                           *)

LEMMA ClashStays ==
    ASSUME FileInv, clashed, Next
    PROVE  FileInv'
<1>1. clashed = TRUE
  BY DEF FileInv
<1>2. ASSUME \E name, mv, cells : Call(name, mv, cells)
      PROVE  clashed' = TRUE
  BY <1>1, <1>2 DEF Call
<1>3. ASSUME \E t : TagsCall(t)
      PROVE  clashed' = TRUE
  BY <1>1, <1>3 DEF TagsCall
<1>4. clashed' = TRUE
  <2>1. CASE \/ Create \/ Modify \/ ModifyRefused \/ Close \/ CloseThrows \/ Write \/ Crash
    BY <1>1, <2>1 DEF Create, Modify, ModifyRefused, Close, CloseThrows, Write, Crash
  <2>2. CASE \/ CallAddVideoTrack \/ CallAddAudioTrack \/ CallAddSubtitleTrack \/ CallAddTextTrack
             \/ CallAddODTrack \/ CallAddSceneTrack \/ CallAddHintTrack \/ CallAddChapterTextTrack
    BY <1>2, <2>2 DEF CallAddVideoTrack, CallAddAudioTrack, CallAddSubtitleTrack,
       CallAddTextTrack, CallAddODTrack, CallAddSceneTrack, CallAddHintTrack,
       CallAddChapterTextTrack
  <2>3. CASE CallDeleteTrack \/ CallWriteSample
    BY <1>2, <2>3 DEF CallDeleteTrack, CallWriteSample
  <2>4. CASE CallMakeIsmaCompliant
    BY <1>2, <2>4 DEF CallMakeIsmaCompliant
  <2>5. CASE CallSetChapters \/ CallConvertChapters
    BY <1>2, <2>5 DEF CallSetChapters, CallConvertChapters, SetChapters
  <2>6. CASE CallDeleteChapters \/ CallAddChapter \/ CallAddNeroChapter
    BY <1>2, <2>6 DEF CallDeleteChapters, CallAddChapter, CallAddNeroChapter
  <2>7. CASE TagsStore \/ ItmfAddItem \/ ItmfSetItem \/ ItmfRemoveItem
    BY <1>2, <2>7 DEF TagsStore, ItmfAddItem, ItmfSetItem, ItmfRemoveItem, EditItems
  <2>8. CASE \/ TagsAlloc \/ TagsFetch \/ TagsSet
             \/ TagsAddArtwork \/ TagsSetArtwork \/ TagsRemoveArtwork
    BY <1>3, <2>8 DEF TagsAlloc, TagsFetch, TagsSet, TagsAddArtwork, TagsSetArtwork,
       TagsRemoveArtwork
  <2> QED
    BY <2>1, <2>2, <2>3, <2>4, <2>5, <2>6, <2>7, <2>8 DEF Next
<1> QED
  BY <1>4 DEF FileInv

LEMMA NextKeeps ==
    ASSUME FileInv, [Next]_vars
    PROVE  FileInv'
<1>1. CASE UNCHANGED vars
  BY <1>1 DEF vars, FileInv, Kept
<1>2. CASE Next /\ clashed
  BY <1>2, ClashStays
<1>3. CASE Next /\ ~clashed
  <2>1. \/ Create \/ Modify \/ (Close \/ CloseThrows) \/ Write \/ Crash
        \/ (\/ CallAddVideoTrack \/ CallAddAudioTrack \/ CallAddSubtitleTrack \/ CallAddTextTrack
            \/ CallAddODTrack \/ CallAddSceneTrack \/ CallAddHintTrack \/ CallAddChapterTextTrack)
        \/ CallDeleteTrack \/ CallWriteSample \/ CallMakeIsmaCompliant
        \/ (CallSetChapters \/ CallConvertChapters) \/ (CallAddNeroChapter \/ CallDeleteChapters)
        \/ CallAddChapter
        \/ (TagsStore \/ ItmfAddItem \/ ItmfSetItem \/ ItmfRemoveItem)
        \/ (\/ ModifyRefused \/ TagsAlloc \/ TagsFetch \/ TagsSet
            \/ TagsAddArtwork \/ TagsSetArtwork \/ TagsRemoveArtwork)
    BY <1>3 DEF Next
  <2> QED
    BY <1>3, <2>1, CreateKeeps, ModifyKeeps, CloseKeeps, WriteKeeps, CrashKeeps, AddKeeps,
       DeleteKeeps, WriteSampleKeeps, IsmaKeeps, ChaptersKeep, OtherChaptersKeep,
       AddChapterKeeps, ItemCallsKeep, QuietKeeps
<1> QED
  BY <1>1, <1>2, <1>3

\* In every session, after any calls and any crash, the movie in memory is good,
\* the disk and what is written to it are cells, and an open file has a moov box
\* in its root atom; unless a track was refused an id or took that of a trak box
\* the library could not read.  No bound on sessions, calls, tracks or samples.
THEOREM SessionsKeepNames == Spec => []FileInv
<1>1. Init => FileInv
  BY InitKept
<1>2. FileInv /\ [Next]_vars => FileInv'
  BY NextKeeps
<1> QED
  BY <1>1, <1>2, PTL DEF Spec

LEMMA KeptNames ==
    ASSUME FileInv
    PROVE  NamesReachOwnTrak
<1>1. SUFFICES ASSUME ~clashed, NEW i \in DOMAIN movie.tracks, NEW j \in DOMAIN movie.tracks
      PROVE  /\ TrakIndex(movie, IdAt(movie, i)) = KeyIndex(movie, movie.tracks[i])
             /\ IdAt(movie, i) = IdAt(movie, j) => i = j
  BY DEF NamesReachOwnTrak
<1>2. Named(movie)
  BY <1>1 DEF FileInv, Kept, Good
<1>3. DOMAIN movie.tracks = 1..Len(movie.tracks)
  BY <1>2, TraksDomain DEF Named, Keyed
<1>4. i \in 1..Len(movie.tracks) /\ j \in 1..Len(movie.tracks)
  BY <1>3
<1>5. PICK mv : mv = movie
  OBVIOUS
<1>6. /\ TrackIndex(mv, IdAt(mv, i)) = i /\ TrackIndex(mv, IdAt(mv, j)) = j
      /\ TrakIndex(mv, IdAt(mv, i)) = KeyIndex(mv, mv.tracks[i])
  BY <1>2, <1>4, <1>5, NamesLead
<1> QED
  BY <1>5, <1>6

\* MakeTrackName leads to the trak box of the track it is asked for, and no two
\* tracks have one id, in every state of every history of sessions, calls and
\* crashes (without a clash of ids, as NamesReachOwnTrak says).
THEOREM NamesAlwaysReach == Spec => []NamesReachOwnTrak
<1>1. FileInv => NamesReachOwnTrak
  BY KeptNames
<1> QED
  BY <1>1, SessionsKeepNames, PTL

LEMMA KeptReferences ==
    ASSUME FileInv, ~clashed
    PROVE  ReferencesExist
<1>1. PICK mv : mv = movie
  OBVIOUS
<1>2. Keyed(mv) /\ Referred(mv)
  BY <1>1, NamedIsKeyed DEF FileInv, Kept, Good
<1>3. DOMAIN mv.traks = 1..Len(mv.traks) /\ DOMAIN mv.tracks = 1..Len(mv.tracks)
  BY <1>2, TraksDomain DEF Keyed
<1>4. \A id : HasTrack(mv, id) => id \in TrackIds
  <2>1. SUFFICES ASSUME NEW id, HasTrack(mv, id) PROVE id \in TrackIds
    OBVIOUS
  <2>2. TrackIndex(mv, id) \in 1..Len(mv.tracks) /\ IdAt(mv, TrackIndex(mv, id)) = id
    BY <1>2, <2>1, TrackIndexFound DEF HasTrack
  <2> QED
    BY <1>1, <1>3, <2>2 DEF TrackIds
<1>5. \A i \in DOMAIN mv.traks : RefsAt(mv, i, "mpod") = Mpod(mv.traks[i])
  BY DEF RefsAt, Mpod, MpodOf
<1>6. \A i \in DOMAIN mv.traks :
         /\ Range(RefsAt(mv, i, "mpod")) \subseteq TrackIds
         /\ IsInjective(RefsAt(mv, i, "mpod"))
  <2>1. SUFFICES ASSUME NEW i \in DOMAIN mv.traks
        PROVE  /\ Range(RefsAt(mv, i, "mpod")) \subseteq TrackIds
               /\ IsInjective(RefsAt(mv, i, "mpod"))
    OBVIOUS
  <2>2. IsInjective(Mpod(mv.traks[i])) /\ \A r \in Range(Mpod(mv.traks[i])) : HasTrack(mv, r)
    BY <1>2, <1>3 DEF Referred
  <2> QED
    BY <1>4, <1>5, <2>2
<1>7. /\ UNION {Range(RefsAt(movie, i, "mpod")) : i \in DOMAIN movie.traks} \subseteq TrackIds
      /\ \A i \in DOMAIN movie.traks : IsInjective(RefsAt(movie, i, "mpod"))
  BY <1>1, <1>6
<1>8. IsInjective(movie.iods.ids) /\ Range(movie.iods.ids) \subseteq TrackIds
  BY <1>1, <1>2, <1>4 DEF Referred
<1>9. movie.od # 0 => HasTrack(movie, movie.od)
  BY <1>1, <1>2 DEF Referred
<1> QED
  BY <1>7, <1>8, <1>9 DEF ReferencesExist

\* The object descriptor track and the iods box refer to tracks of the file,
\* and to each once, in every state that is not after a clash of ids.
THEOREM ReferencesAlwaysExist == Spec => [](~clashed => ReferencesExist)
<1>1. FileInv => (~clashed => ReferencesExist)
  BY KeptReferences
<1> QED
  BY <1>1, SessionsKeepNames, PTL
=============================================================================
