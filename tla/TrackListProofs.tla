-------------------------- MODULE TrackListProofs --------------------------
(***************************************************************************)
(* Proofs about the operators of TrackList, for every movie: AllocTrackId  *)
(* never gives away an id that a track has, and adding and deleting tracks *)
(* keeps the three lists of a movie in step - the trak boxes, their ids    *)
(* and the tracks - so that every id leads to the trak box of its track    *)
(* (Named), and what the object descriptor track and the iods box refer to *)
(* exists (Referred).  So does MakeIsmaCompliant, which deletes and adds.  *)
(* A call keeps a movie Good, both of these, or ids have clashed: a track  *)
(* was refused an id, or took that of a trak box the library could not     *)
(* read (Fair).                                                            *)
(*                                                                         *)
(* Induction on numbers is WFMin of the library, applied to the set of     *)
(* numbers that would be counterexamples.                                  *)
(***************************************************************************)
EXTENDS TrackList, SequenceTheorems, FiniteSetTheorems, WellFoundedInduction, TLAPS

-----------------------------------------------------------------------------
(* Smallest and largest numbers.                                           *)

LEMMA LessThan == OpToRel(<, Nat) = {p \in Nat \X Nat : p[1] < p[2]}
BY DEF OpToRel

LEMMA SmallestOf ==
    ASSUME NEW I, I \subseteq Nat, I # {}
    PROVE  Min(I) \in I /\ \A y \in I : Min(I) <= y
<1> DEFINE R == {p \in Nat \X Nat : p[1] < p[2]}
<1>1. IsWellFoundedOn(R, Nat)
  BY NatLessThanWellFounded, LessThan
<1> HIDE DEF R
<1>2. \E x \in I : \A y \in I : ~ (<< y, x >> \in R)
  BY <1>1, WFMin
<1>3. \A x \in Nat, y \in Nat : ~ (<< y, x >> \in R) => x <= y
  BY DEF R
<1>4. \E x \in I : \A y \in I : x <= y
  BY <1>2, <1>3
<1> QED
  BY <1>4 DEF Min

\* The numbers f[1], ..., f[n] have an upper bound.
LEMMA BoundOf ==
    ASSUME NEW n \in Nat, NEW f \in [1..n -> Nat]
    PROVE  \E m \in Nat : \A i \in 1..n : f[i] <= m
<1> DEFINE bad == {k \in 0..n : \A m \in Nat : \E i \in 1..k : ~ (f[i] <= m)}
<1>1. CASE bad = {}
  <2>1. ~ (n \in bad)
    BY <1>1
  <2> QED
    BY <2>1
<1>2. CASE bad # {}
  <2>1. PICK k \in bad : \A y \in bad : k <= y
    <3>1. bad \subseteq Nat
      OBVIOUS
    <3> HIDE DEF bad
    <3> QED
      BY <1>2, <3>1, SmallestOf
  <2>2. k \in 0..n /\ \A m \in Nat : \E i \in 1..k : ~ (f[i] <= m)
    OBVIOUS
  <2>3. k # 0
    <3>1. 0 \in Nat /\ 1..0 = {}
      OBVIOUS
    <3> QED
      BY <2>2, <3>1
  <2>4. k - 1 \in 0..n /\ k \in 1..n /\ ~ (k <= k - 1)
    BY <2>2, <2>3
  <2> ~ (k - 1 \in bad)
    <3> HIDE DEF bad
    <3> QED
      BY <2>1, <2>4
  <2>5. PICK m \in Nat : \A i \in 1 .. k - 1 : f[i] <= m
    BY <2>4
  <2>6. f[k] \in Nat
    BY <2>4
  <2> DEFINE b == m + f[k]
  <2>7. b \in Nat /\ \A i \in 1..k : f[i] <= b
    <3>1. b \in Nat /\ m <= b /\ f[k] <= b
      BY <2>6
    <3>2. ASSUME NEW i \in 1..k PROVE f[i] <= b
      <4>1. f[i] \in Nat
        BY <2>4
      <4>2. i \in 1 .. k - 1 \/ i = k
        BY <2>4
      <4> QED
        BY <2>5, <2>6, <3>1, <4>1, <4>2
    <3> QED
      BY <3>1, <3>2
  <2> QED
    BY <2>2, <2>7
<1> QED
  BY <1>1, <1>2

LEMMA LargestOf ==
    ASSUME NEW S, S \subseteq Nat, S # {}, NEW m \in Nat, \A y \in S : y <= m
    PROVE  Max(S) \in S /\ \A y \in S : Max(S) >= y
<1> DEFINE U == {u \in Nat : \A y \in S : y <= u}
<1>1. U \subseteq Nat /\ m \in U
  OBVIOUS
<1>2. PICK u \in U : \A v \in U : u <= v
  <2> HIDE DEF U
  <2> QED
    BY <1>1, SmallestOf
<1>3. u \in Nat /\ \A y \in S : y \in Nat /\ y <= u
  BY <1>2
<1>4. u \in S
  <2>1. CASE u = 0
    <3>1. PICK y \in S : TRUE
      OBVIOUS
    <3> QED
      BY <1>3, <2>1, <3>1
  <2>2. CASE u # 0
    <3>1. u - 1 \in Nat /\ ~ (u - 1 \in U)
      BY <1>2, <1>3, <2>2
    <3>2. PICK y \in S : ~ (y <= u - 1)
      BY <3>1
    <3>3. y = u
      BY <1>3, <3>1, <3>2
    <3> QED
      BY <3>2, <3>3
  <2> QED
    BY <2>1, <2>2
<1>5. \E x \in S : \A y \in S : x >= y
  BY <1>3, <1>4
<1> QED
  BY <1>5 DEF Max

\* Induction on numbers, for the set of those a claim holds for.
LEMMA EveryNumber ==
    ASSUME NEW A, 0 \in A, \A n \in Nat : n \in A => n + 1 \in A
    PROVE  Nat \subseteq A
<1> DEFINE B == Nat \ A
<1>1. SUFFICES ASSUME B # {} PROVE FALSE
  OBVIOUS
<1>2. B \subseteq Nat
  OBVIOUS
<1> HIDE DEF B
<1>3. Min(B) \in B /\ \A y \in B : Min(B) <= y
  BY <1>1, <1>2, SmallestOf
<1>4. PICK b \in B : \A y \in B : b <= y
  BY <1>3
<1>5. b \in Nat /\ b # 0
  BY <1>2 DEF B
<1>6. b - 1 \in Nat /\ ~ (b <= b - 1) /\ (b - 1) + 1 = b
  BY <1>5
<1>7. b - 1 \in A
  BY <1>4, <1>6 DEF B
<1>8. b \in A
  BY <1>6, <1>7
<1> QED
  BY <1>8 DEF B

LEMMA SmallestOfOne ==
    ASSUME NEW i \in Nat
    PROVE  Min({i}) = i
<1> DEFINE I == {i}
<1>1. I \subseteq Nat /\ I # {} /\ \A j \in I : j = i
  OBVIOUS
<1> HIDE DEF I
<1>2. Min(I) = i
  BY <1>1, SmallestOf
<1> QED
  BY <1>2 DEF I

LEMMA FunctionIsSeq ==
    ASSUME NEW n \in Nat, NEW S, NEW f \in [1..n -> S]
    PROVE  f \in Seq(S) /\ Len(f) = n
<1>1. f \in Seq(S)
  BY SeqDef
<1>2. Len(f) \in Nat /\ DOMAIN f = 1..Len(f)
  BY <1>1, LenProperties
<1>3. DOMAIN f = 1..n
  OBVIOUS
<1>4. Len(f) = n
  BY <1>2, <1>3
<1> QED
  BY <1>1, <1>4

-----------------------------------------------------------------------------
(* Movies whose lists are in step.                                         *)

MovieFields == {"traks", "ids", "tracks", "od", "next", "iods", "chpl", "items", "duration",
                "brands", "isma", "ok"}
TrakFields  == {"key", "id", "kind", "refs", "samples"}

IsSeq(s) == \E S : s \in Seq(S)

\* The object descriptor references of a trak box.
MpodOf(refs) == IF "mpod" \in DOMAIN refs THEN refs["mpod"] ELSE << >>
Mpod(t) == MpodOf(t.refs)

IsTrak(t) ==
    /\ TrakFields \subseteq DOMAIN t
    /\ t.key \in Nat /\ t.id \in Nat /\ IsSeq(t.samples) /\ Mpod(t) \in Seq(Nat)

\* What the types of the lists of a movie are, and of what else it holds.
Listed(mv) ==
    /\ MovieFields \subseteq DOMAIN mv
    /\ IsSeq(mv.traks) /\ \A i \in 1..Len(mv.traks) : IsTrak(mv.traks[i])
    /\ mv.ids \in Seq(Nat) /\ mv.tracks \in Seq(Nat) /\ mv.next \in 1 .. MaxTrackId + 1

Rest(mv) ==
    /\ {"present", "ids"} \subseteq DOMAIN mv.iods /\ mv.iods.ids \in Seq(Nat)
    /\ IsSeq(mv.chpl) /\ IsSeq(mv.items) /\ mv.brands \in Int

Shape(mv) == Listed(mv) /\ Rest(mv)

\* Every trak box has its own key; every track has a trak box of its own.
Keyed(mv) ==
    /\ Shape(mv)
    /\ \A i, j \in 1..Len(mv.traks) : mv.traks[i].key = mv.traks[j].key => i = j
    /\ \A i \in 1..Len(mv.tracks) : \E j \in 1..Len(mv.traks) : mv.traks[j].key = mv.tracks[i]
    /\ \A i, j \in 1..Len(mv.tracks) : mv.tracks[i] = mv.tracks[j] => i = j

\* Every trak box has its own id, too, which is in m_trakIds at its place; the
\* boxes the library cannot read are those without a track.
Named(mv) ==
    /\ Keyed(mv)
    /\ Len(mv.ids) = Len(mv.traks)
    /\ \A i \in 1..Len(mv.traks) : mv.ids[i] = mv.traks[i].id /\ mv.ids[i] # 0
    /\ \A i, j \in 1..Len(mv.traks) : mv.traks[i].id = mv.traks[j].id => i = j
    /\ \A j \in 1..Len(mv.traks) :
          mv.traks[j].kind # "broken" <=> \E i \in 1..Len(mv.tracks) : mv.tracks[i] = mv.traks[j].key

LEMMA NamedIsKeyed == \A mv : Named(mv) => Keyed(mv)
BY DEF Named, Keyed

LEMMA TraksDomain ==
    ASSUME NEW mv, Shape(mv)
    PROVE  /\ Len(mv.traks) \in Nat /\ DOMAIN mv.traks = 1..Len(mv.traks)
           /\ Len(mv.ids) \in Nat /\ DOMAIN mv.ids = 1..Len(mv.ids)
           /\ Len(mv.tracks) \in Nat /\ DOMAIN mv.tracks = 1..Len(mv.tracks)
BY LenProperties DEF Shape, Listed, IsSeq

LEMMA EmptyIsSeq == IsSeq(<< >>) /\ << >> \in Seq(Nat) /\ Len(<< >>) = 0
BY EmptySeq DEF IsSeq

\* A movie just created (MP4File::Create).
LEMMA NoTracksAreNamed ==
    ASSUME NEW iods
    PROVE  Named(NoTracks(iods))
<1> DEFINE n == NoTracks(iods)
<1>1. /\ MovieFields \subseteq DOMAIN n /\ n.traks = << >> /\ n.ids = << >> /\ n.tracks = << >>
      /\ n.next = 1 /\ n.iods = [present |-> iods, ids |-> << >>] /\ n.chpl = << >>
      /\ n.items = << >> /\ n.brands = 1
  BY DEF NoTracks, MovieFields
<1> HIDE DEF n
<1>2. Listed(n)
  BY <1>1, EmptyIsSeq, TrackListAssumption DEF Listed
<1>3. Rest(n)
  BY <1>1, EmptyIsSeq DEF Rest
<1>4. Named(n)
  BY <1>1, <1>2, <1>3, EmptyIsSeq DEF Named, Keyed, Shape, Listed
<1> QED
  BY <1>4 DEF n

\* What a search for a number finds.
LEMMA KeyIndexFinds ==
    ASSUME NEW mv, Keyed(mv), NEW i \in 1..Len(mv.traks)
    PROVE  KeyIndex(mv, mv.traks[i].key) = i
<1> DEFINE I == {j \in 1..Len(mv.traks) : mv.traks[j].key = mv.traks[i].key}
<1>1. I = {i}
  BY DEF Keyed
<1>2. Len(mv.traks) \in Nat
  BY TraksDomain DEF Keyed
<1>3. Min(I) = i
  BY <1>1, <1>2, SmallestOfOne
<1> QED
  BY <1>1, <1>3 DEF KeyIndex, SelectInSeq

LEMMA TrakIndexFinds ==
    ASSUME NEW mv, Named(mv), NEW i \in 1..Len(mv.traks)
    PROVE  TrakIndex(mv, mv.traks[i].id) = i
<1> Keyed(mv)
  BY DEF Named
<1> DEFINE I == {j \in 1..Len(mv.ids) : mv.ids[j] = mv.traks[i].id}
<1>1. I = {i} /\ mv.traks[i].id # 0
  BY DEF Named, Keyed
<1>2. Len(mv.traks) \in Nat
  BY TraksDomain DEF Named, Keyed
<1>3. Min(I) = i
  BY <1>1, <1>2, SmallestOfOne
<1> QED
  BY <1>1, <1>3 DEF TrakIndex, SelectInSeq

LEMMA TrakIndexFound ==
    ASSUME NEW mv, Named(mv), NEW id, TrakIndex(mv, id) # 0
    PROVE  /\ TrakIndex(mv, id) \in 1..Len(mv.traks)
           /\ mv.traks[TrakIndex(mv, id)].id = id
<1> Keyed(mv)
  BY DEF Named
<1> DEFINE I == {j \in 1..Len(mv.ids) : mv.ids[j] = id}
<1>1. id # 0 /\ I # {} /\ TrakIndex(mv, id) = Min(I)
  BY DEF TrakIndex, SelectInSeq
<1>2. I \subseteq Nat
  BY TraksDomain DEF Named, Keyed
<1> HIDE DEF I
<1>3. Min(I) \in I
  BY <1>1, <1>2, SmallestOf
<1>4. Min(I) \in 1..Len(mv.ids) /\ mv.ids[Min(I)] = id
  BY <1>3 DEF I
<1> QED
  BY <1>1, <1>4 DEF Named, Keyed

\* The trak box of a track.
LEMMA TrakOfTrack ==
    ASSUME NEW mv, Keyed(mv), NEW i \in 1..Len(mv.tracks)
    PROVE  \E j \in 1..Len(mv.traks) :
              /\ mv.traks[j].key = mv.tracks[i] /\ KeyIndex(mv, mv.tracks[i]) = j
              /\ TrakOf(mv, mv.tracks[i]) = mv.traks[j] /\ IdAt(mv, i) = mv.traks[j].id
<1>1. PICK j \in 1..Len(mv.traks) : mv.traks[j].key = mv.tracks[i]
  BY DEF Keyed
<1>2. KeyIndex(mv, mv.tracks[i]) = j
  BY <1>1, KeyIndexFinds
<1> QED
  BY <1>1, <1>2 DEF TrakOf, IdAt

LEMMA TrackIndexFinds ==
    ASSUME NEW mv, Named(mv), NEW i \in 1..Len(mv.tracks)
    PROVE  TrackIndex(mv, IdAt(mv, i)) = i
<1> Keyed(mv)
  BY DEF Named
<1> DEFINE I == {j \in 1..Len(mv.tracks) : TrakOf(mv, mv.tracks[j]).id = IdAt(mv, i)}
<1>1. \A j \in 1..Len(mv.tracks) : IdAt(mv, j) = IdAt(mv, i) => j = i
  <2> SUFFICES ASSUME NEW j \in 1..Len(mv.tracks), IdAt(mv, j) = IdAt(mv, i) PROVE j = i
    OBVIOUS
  <2>1. PICK a \in 1..Len(mv.traks) : mv.traks[a].key = mv.tracks[i] /\ IdAt(mv, i) = mv.traks[a].id
    BY TrakOfTrack
  <2>2. PICK b \in 1..Len(mv.traks) : mv.traks[b].key = mv.tracks[j] /\ IdAt(mv, j) = mv.traks[b].id
    BY TrakOfTrack
  <2>3. a = b
    BY <2>1, <2>2 DEF Named, Keyed
  <2> QED
    BY <2>1, <2>2, <2>3 DEF Named, Keyed
<1>2. I = {i}
  BY <1>1 DEF IdAt
<1>3. Len(mv.tracks) \in Nat
  BY TraksDomain DEF Named, Keyed
<1>4. Min(I) = i
  BY <1>2, <1>3, SmallestOfOne
<1> QED
  BY <1>2, <1>4 DEF TrackIndex, SelectInSeq

LEMMA TrackIndexFound ==
    ASSUME NEW mv, Keyed(mv), NEW id, TrackIndex(mv, id) # 0
    PROVE  /\ TrackIndex(mv, id) \in 1..Len(mv.tracks)
           /\ IdAt(mv, TrackIndex(mv, id)) = id
<1> DEFINE I == {j \in 1..Len(mv.tracks) : TrakOf(mv, mv.tracks[j]).id = id}
<1>1. I # {} /\ TrackIndex(mv, id) = Min(I)
  BY DEF TrackIndex, SelectInSeq
<1>2. I \subseteq Nat
  BY TraksDomain DEF Keyed
<1> HIDE DEF I
<1>3. Min(I) \in I
  BY <1>1, <1>2, SmallestOf
<1>4. Min(I) \in 1..Len(mv.tracks) /\ TrakOf(mv, mv.tracks[Min(I)]).id = id
  BY <1>3 DEF I
<1> QED
  BY <1>1, <1>4 DEF IdAt

\* An id leads to its track and to that track's trak box (FindTrackIndex,
\* FindTrakAtomIndex and with it MakeTrackName).
THEOREM NamesLead ==
    ASSUME NEW mv, Named(mv), NEW i \in 1..Len(mv.tracks)
    PROVE  /\ TrackIndex(mv, IdAt(mv, i)) = i
           /\ TrakIndex(mv, IdAt(mv, i)) = KeyIndex(mv, mv.tracks[i])
<1> Keyed(mv)
  BY DEF Named
<1>1. PICK j \in 1..Len(mv.traks) :
        KeyIndex(mv, mv.tracks[i]) = j /\ IdAt(mv, i) = mv.traks[j].id
  BY TrakOfTrack
<1>2. TrakIndex(mv, mv.traks[j].id) = j
  BY TrakIndexFinds
<1> QED
  BY <1>1, <1>2, TrackIndexFinds

\* The id a new track gets is in range and no track has it; there is none only
\* when all are taken, also when nextTrackId has run beyond the last or names a
\* track (MP4File::AllocTrackId).
THEOREM AllocTrackIdIsUnused ==
    ASSUME NEW mv, Keyed(mv)
    PROVE  \/ AllocTrackId(mv) \in 1..MaxTrackId /\ ~HasTrack(mv, AllocTrackId(mv))
           \/ AllocTrackId(mv) = 0 /\ \A id \in 1..MaxTrackId : HasTrack(mv, id)
<1> DEFINE free == {id \in 1..MaxTrackId : ~HasTrack(mv, id)}
<1>1. MaxTrackId \in Nat /\ mv.next \in Nat \ {0}
  BY TrackListAssumption DEF Keyed, Shape, Listed
<1>2. AllocTrackId(mv) = IF mv.next <= MaxTrackId /\ ~HasTrack(mv, mv.next) THEN mv.next
                         ELSE IF free = {} THEN 0 ELSE Min(free)
  BY DEF AllocTrackId
<1>3. CASE mv.next <= MaxTrackId /\ ~HasTrack(mv, mv.next)
  BY <1>1, <1>2, <1>3
<1>4. CASE ~(mv.next <= MaxTrackId /\ ~HasTrack(mv, mv.next))
  <2>1. CASE free = {}
    BY <1>2, <1>4, <2>1
  <2>2. CASE free # {}
    <3>1. free \subseteq Nat
      BY <1>1
    <3>2. AllocTrackId(mv) = Min(free)
      BY <1>2, <1>4, <2>2
    <3> HIDE DEF free
    <3>3. Min(free) \in free
      BY <2>2, <3>1, SmallestOf
    <3> QED
      BY <3>2, <3>3 DEF free
  <2> QED
    BY <2>1, <2>2
<1> QED
  BY <1>3, <1>4

-----------------------------------------------------------------------------
(* Longer and shorter lists.                                               *)

LEMMA AppendToSeq ==
    ASSUME NEW s, IsSeq(s), NEW e
    PROVE  /\ IsSeq(Append(s, e)) /\ Len(Append(s, e)) = Len(s) + 1 /\ Len(s) \in Nat
           /\ \A i \in 1..Len(s) : Append(s, e)[i] = s[i]
           /\ Append(s, e)[Len(s) + 1] = e
<1>1. PICK S : s \in Seq(S)
  BY DEF IsSeq
<1> DEFINE A == S \cup {e}
<1>2. Len(s) \in Nat /\ DOMAIN s = 1..Len(s)
  BY <1>1, LenProperties
<1>3. s \in Seq(A) /\ e \in A
  BY <1>1
<1> HIDE DEF A
<1> QED
  BY <1>2, <1>3, AppendProperties DEF IsSeq

\* Where the element at place j was before the one at place i was removed.
Before(j, i) == IF j < i THEN j ELSE j + 1

LEMMA RemoveAtProperties ==
    ASSUME NEW S, NEW s \in Seq(S), NEW i \in 1..Len(s)
    PROVE  /\ RemoveAt(s, i) \in Seq(S) /\ Len(RemoveAt(s, i)) = Len(s) - 1
           /\ \A j \in 1 .. Len(s) - 1 : RemoveAt(s, i)[j] = s[Before(j, i)]
<1> DEFINE a == SubSeq(s, 1, i - 1)
           b == SubSeq(s, i + 1, Len(s))
           n == Len(s)
<1>1. n \in Nat /\ i \in Int /\ i \in 1..n
  BY LenProperties
<1>2. \A j \in 1..n : s[j] \in S
  BY ElementOfSeq
<1>3. a \in Seq(S) /\ Len(a) = i - 1 /\ \A j \in 1 .. i - 1 : a[j] = s[j]
  <2>1. 1 \in Int /\ i - 1 \in Int /\ \A j \in 1 .. i - 1 : s[j] \in S
    BY <1>1, <1>2
  <2>2. /\ a \in Seq(S) /\ Len(a) = IF 1 <= i - 1 THEN i - 1 - 1 + 1 ELSE 0
        /\ \A j \in 1 .. i - 1 - 1 + 1 : a[j] = s[1 + j - 1]
    BY <2>1, SubSeqProperties
  <2> HIDE DEF a
  <2> QED
    BY <1>1, <2>2
<1>4. b \in Seq(S) /\ Len(b) = n - i /\ \A j \in 1 .. n - i : b[j] = s[i + j]
  <2>1. i + 1 \in Int /\ n \in Int /\ \A j \in i + 1 .. n : s[j] \in S
    BY <1>1, <1>2
  <2>2. /\ b \in Seq(S) /\ Len(b) = IF i + 1 <= n THEN n - (i + 1) + 1 ELSE 0
        /\ \A j \in 1 .. n - (i + 1) + 1 : b[j] = s[(i + 1) + j - 1]
    BY <2>1, SubSeqProperties
  <2> HIDE DEF b
  <2> QED
    BY <1>1, <2>2
<1> HIDE DEF a, b
<1>5. /\ a \o b \in Seq(S) /\ Len(a \o b) = Len(a) + Len(b)
      /\ \A j \in 1 .. Len(a) + Len(b) :
            (a \o b)[j] = IF j <= Len(a) THEN a[j] ELSE b[j - Len(a)]
  BY <1>3, <1>4, ConcatProperties
<1>6. RemoveAt(s, i) = a \o b
  BY DEF RemoveAt, a, b
<1>7. Len(a \o b) = n - 1
  BY <1>1, <1>3, <1>4, <1>5
<1>8. ASSUME NEW j \in 1 .. n - 1 PROVE (a \o b)[j] = s[Before(j, i)]
  <2>1. (a \o b)[j] = IF j <= i - 1 THEN a[j] ELSE b[j - (i - 1)]
    BY <1>1, <1>3, <1>4, <1>5
  <2>2. CASE j < i
    <3>1. j \in 1 .. i - 1 /\ j <= i - 1
      BY <1>1, <2>2
    <3> QED
      BY <1>3, <2>1, <2>2, <3>1 DEF Before
  <2>3. CASE ~(j < i)
    <3>1. j - (i - 1) \in 1 .. n - i /\ ~(j <= i - 1) /\ i + (j - (i - 1)) = j + 1
      BY <1>1, <2>3
    <3> QED
      BY <1>4, <2>1, <2>3, <3>1 DEF Before
  <2> QED
    BY <2>2, <2>3
<1> QED
  BY <1>5, <1>6, <1>7, <1>8

\* Before is one to one, misses i, and reaches everything else.
LEMMA BeforeIsOneToOne ==
    ASSUME NEW n \in Nat, NEW i \in 1..n
    PROVE  /\ n - 1 \in Nat
           /\ \A j \in 1 .. n - 1 : Before(j, i) \in 1..n /\ Before(j, i) # i
           /\ \A j, k \in 1 .. n - 1 : Before(j, i) = Before(k, i) => j = k
           /\ \A k \in 1..n : k # i => \E j \in 1 .. n - 1 : Before(j, i) = k
<1>1. n - 1 \in Nat
  OBVIOUS
<1>2. \A j \in 1 .. n - 1 : Before(j, i) \in 1..n /\ Before(j, i) # i
  BY DEF Before
<1>3. \A j, k \in 1 .. n - 1 : Before(j, i) = Before(k, i) => j = k
  BY DEF Before
<1>4. ASSUME NEW k \in 1..n, k # i PROVE \E j \in 1 .. n - 1 : Before(j, i) = k
  <2>1. CASE k < i
    <3>1. k \in 1 .. n - 1 /\ Before(k, i) = k
      BY <2>1 DEF Before
    <3> QED
      BY <3>1
  <2>2. CASE ~(k < i)
    <3>1. k - 1 \in 1 .. n - 1 /\ Before(k - 1, i) = k
      BY <1>4, <2>2 DEF Before
    <3> QED
      BY <3>1
  <2> QED
    BY <2>1, <2>2
<1> QED
  BY <1>1, <1>2, <1>3, <1>4

-----------------------------------------------------------------------------
(* Changes that leave names alone.                                         *)

SameNames(mv, n) ==
    /\ Shape(n) /\ Len(n.traks) = Len(mv.traks)
    /\ \A i \in 1..Len(mv.traks) :
          /\ n.traks[i].key = mv.traks[i].key /\ n.traks[i].id = mv.traks[i].id
          /\ n.traks[i].kind = mv.traks[i].kind
    /\ n.ids = mv.ids /\ n.tracks = mv.tracks /\ n.next = mv.next

LEMMA KeyedKept ==
    ASSUME NEW mv, Keyed(mv), NEW n, SameNames(mv, n)
    PROVE  Keyed(n)
<1>1. /\ Shape(n) /\ Len(n.traks) = Len(mv.traks) /\ n.tracks = mv.tracks
      /\ \A i \in 1..Len(mv.traks) : n.traks[i].key = mv.traks[i].key
  BY DEF SameNames
<1>2. /\ \A i, j \in 1..Len(mv.traks) : mv.traks[i].key = mv.traks[j].key => i = j
      /\ \A i \in 1..Len(mv.tracks) : \E j \in 1..Len(mv.traks) : mv.traks[j].key = mv.tracks[i]
      /\ \A i, j \in 1..Len(mv.tracks) : mv.tracks[i] = mv.tracks[j] => i = j
  BY DEF Keyed
<1> QED
  BY <1>1, <1>2 DEF Keyed

LEMMA NamedKept ==
    ASSUME NEW mv, Named(mv), NEW n, SameNames(mv, n)
    PROVE  Named(n)
<1>1. Keyed(n)
  BY KeyedKept DEF Named
<1>2. /\ Len(n.traks) = Len(mv.traks) /\ n.tracks = mv.tracks /\ n.ids = mv.ids
      /\ \A i \in 1..Len(mv.traks) : /\ n.traks[i].key = mv.traks[i].key
                                     /\ n.traks[i].id = mv.traks[i].id
                                     /\ n.traks[i].kind = mv.traks[i].kind
  BY DEF SameNames
<1>3. /\ Len(mv.ids) = Len(mv.traks)
      /\ \A i \in 1..Len(mv.traks) : mv.ids[i] = mv.traks[i].id /\ mv.ids[i] # 0
      /\ \A i, j \in 1..Len(mv.traks) : mv.traks[i].id = mv.traks[j].id => i = j
      /\ \A j \in 1..Len(mv.traks) : mv.traks[j].kind # "broken" <=>
            \E i \in 1..Len(mv.tracks) : mv.tracks[i] = mv.traks[j].key
  BY DEF Named
<1> QED
  BY <1>1, <1>2, <1>3 DEF Named

LEMMA SameNamesItself ==
    ASSUME NEW mv, Keyed(mv)
    PROVE  SameNames(mv, mv)
BY DEF Keyed, SameNames

LEMMA SameNamesTwice ==
    ASSUME NEW mv, NEW n, NEW o, SameNames(mv, n), SameNames(n, o)
    PROVE  SameNames(mv, o)
BY DEF SameNames

\* n is mv but for the fields F.
Alike(mv, n, F) == DOMAIN n = DOMAIN mv /\ \A f \in DOMAIN mv \ F : n[f] = mv[f]

LEMMA SameNamesOtherwise ==
    ASSUME NEW mv, Keyed(mv), NEW n,
           Alike(mv, n, {"od", "iods", "chpl", "items", "duration", "brands", "isma", "ok"}), Rest(n)
    PROVE  SameNames(mv, n)
<1>1. /\ n.traks = mv.traks /\ n.ids = mv.ids /\ n.tracks = mv.tracks /\ n.next = mv.next
      /\ MovieFields \subseteq DOMAIN n
  BY DEF Alike, Keyed, Shape, Listed, MovieFields
<1>2. Listed(n)
  BY <1>1 DEF Keyed, Shape, Listed
<1> QED
  BY <1>1, <1>2 DEF SameNames, Shape

LEMMA RestKept ==
    ASSUME NEW mv, Rest(mv), NEW n,
           n.iods = mv.iods, n.chpl = mv.chpl, n.items = mv.items, n.brands = mv.brands
    PROVE  Rest(n)
BY DEF Rest

LEMMA SameNamesThrown ==
    ASSUME NEW mv, Keyed(mv)
    PROVE  SameNames(mv, Throw(mv)) /\ ~Throw(mv).ok
<1> DEFINE n == Throw(mv)
<1>1. /\ DOMAIN n = DOMAIN mv /\ \A f \in DOMAIN mv \ {"ok"} : n[f] = mv[f]
      /\ ~n.ok
  BY DEF Throw, Keyed, Shape, Listed, MovieFields
<1> HIDE DEF n
<1>2. Rest(n)
  <2>1. /\ n.iods = mv.iods /\ n.chpl = mv.chpl /\ n.items = mv.items /\ n.brands = mv.brands
    BY <1>1 DEF Keyed, Shape, Listed, MovieFields
  <2> QED
    BY <2>1, RestKept DEF Keyed, Shape
<1>3. SameNames(mv, n)
  BY <1>1, <1>2, SameNamesOtherwise DEF Alike
<1> QED
  BY <1>1, <1>3 DEF n

\* n has the trak box t at place i, and the others of mv.
TrakSet(mv, n, i, t) ==
    /\ SameNames(mv, n) /\ n.od = mv.od /\ n.iods = mv.iods
    /\ \A j \in 1..Len(mv.traks) : n.traks[j] = IF j = i THEN t ELSE mv.traks[j]

\* One trak box changes, but not what it is called; so may the duration.
LEMMA OneTrakChanged ==
    ASSUME NEW mv, Keyed(mv), NEW n, Alike(mv, n, {"traks", "duration"}),
           NEW i, NEW t, n.traks = [mv.traks EXCEPT ![i] = t],
           i \in 1..Len(mv.traks) => /\ IsTrak(t) /\ t.key = mv.traks[i].key
                                     /\ t.id = mv.traks[i].id /\ t.kind = mv.traks[i].kind
    PROVE  TrakSet(mv, n, i, t)
<1>1. PICK S : mv.traks \in Seq(S)
  BY DEF Keyed, Shape, Listed, IsSeq
<1>2. Len(mv.traks) \in Nat /\ DOMAIN mv.traks = 1..Len(mv.traks)
  BY <1>1, LenProperties
<1>3. /\ DOMAIN n.traks = 1..Len(mv.traks)
      /\ n.traks = [j \in 1..Len(mv.traks) |-> IF j = i THEN t ELSE mv.traks[j]]
      /\ \A j \in 1..Len(mv.traks) : n.traks[j] = IF j = i THEN t ELSE mv.traks[j]
  BY <1>2
<1>4. IsSeq(n.traks) /\ Len(n.traks) = Len(mv.traks)
  <2> DEFINE A == {n.traks[j] : j \in 1..Len(mv.traks)}
             e == [j \in 1..Len(mv.traks) |-> IF j = i THEN t ELSE mv.traks[j]]
  <2>1. e \in [1..Len(mv.traks) -> A] /\ n.traks = e
    BY <1>3
  <2> HIDE DEF A, e
  <2>2. e \in Seq(A) /\ Len(e) = Len(mv.traks)
    BY <1>2, <2>1, FunctionIsSeq
  <2> QED
    BY <2>1, <2>2 DEF IsSeq
<1>5. /\ MovieFields \subseteq DOMAIN n
      /\ n.ids = mv.ids /\ n.tracks = mv.tracks /\ n.next = mv.next /\ n.od = mv.od
      /\ n.iods = mv.iods /\ n.chpl = mv.chpl /\ n.items = mv.items /\ n.brands = mv.brands
  BY DEF Alike, Keyed, Shape, Listed, MovieFields
<1>6. \A j \in 1..Len(mv.traks) : IsTrak(mv.traks[j])
  BY DEF Keyed, Shape, Listed
<1>7. \A j \in 1..Len(mv.traks) : IsTrak(n.traks[j])
  BY <1>3, <1>6
<1>8. Listed(n)
  <2>1. mv.ids \in Seq(Nat) /\ mv.tracks \in Seq(Nat) /\ mv.next \in 1 .. MaxTrackId + 1
    BY DEF Keyed, Shape, Listed
  <2> QED
    BY <1>4, <1>5, <1>7, <2>1 DEF Listed
<1>9. Rest(n)
  BY <1>5 DEF Keyed, Shape, Rest
<1>10. \A j \in 1..Len(mv.traks) : /\ n.traks[j].key = mv.traks[j].key
                                   /\ n.traks[j].id = mv.traks[j].id
                                   /\ n.traks[j].kind = mv.traks[j].kind
  BY <1>3
<1> QED
  BY <1>3, <1>4, <1>5, <1>8, <1>9, <1>10 DEF SameNames, Shape, TrakSet

RefsSet(mv, n, i, r) ==
    /\ SameNames(mv, n) /\ n.od = mv.od /\ n.iods = mv.iods /\ n.ok = mv.ok
    /\ \A j \in 1..Len(mv.traks) :
          Mpod(n.traks[j]) = IF j = i THEN MpodOf(r) ELSE Mpod(mv.traks[j])

LEMMA RefsChanged ==
    ASSUME NEW mv, Keyed(mv), NEW i, NEW r,
           i \in 1..Len(mv.traks) => MpodOf(r) \in Seq(Nat),
           NEW n, n = [mv EXCEPT !.traks[i].refs = r]
    PROVE  RefsSet(mv, n, i, r)
<1> DEFINE t == [mv.traks[i] EXCEPT !.refs = r]
<1>1. /\ Alike(mv, n, {"traks", "duration"}) /\ n.ok = mv.ok
      /\ n.traks = [mv.traks EXCEPT ![i] = t]
  BY DEF Alike, Keyed, Shape, Listed, MovieFields
<1>2. ASSUME i \in 1..Len(mv.traks)
      PROVE  /\ IsTrak(t) /\ t.key = mv.traks[i].key /\ t.refs = r
             /\ t.id = mv.traks[i].id /\ t.kind = mv.traks[i].kind
  <2>1. IsTrak(mv.traks[i])
    BY <1>2 DEF Keyed, Shape, Listed
  <2>2. /\ DOMAIN t = DOMAIN mv.traks[i] /\ t.refs = r /\ t.key = mv.traks[i].key
        /\ t.id = mv.traks[i].id /\ t.kind = mv.traks[i].kind
        /\ t.samples = mv.traks[i].samples
    BY <2>1 DEF IsTrak, TrakFields
  <2> HIDE DEF t
  <2>3. MpodOf(r) \in Seq(Nat)
    BY <1>2
  <2> QED
    BY <2>1, <2>2, <2>3 DEF IsTrak, Mpod
<1> HIDE DEF t
<1>4. TrakSet(mv, n, i, t)
  <2>1. i \in 1..Len(mv.traks) => /\ IsTrak(t) /\ t.key = mv.traks[i].key
                                  /\ t.id = mv.traks[i].id /\ t.kind = mv.traks[i].kind
    BY <1>2
  <2> QED
    BY <1>1, <2>1, OneTrakChanged
<1>5. \A j \in 1..Len(mv.traks) :
        Mpod(n.traks[j]) = IF j = i THEN MpodOf(r) ELSE Mpod(mv.traks[j])
  BY <1>2, <1>4 DEF Mpod, TrakSet
<1> QED
  BY <1>1, <1>4, <1>5 DEF TrakSet, RefsSet

-----------------------------------------------------------------------------
(* Removing a reference.                                                   *)

\* An element in front of a list.
LEMMA InFront ==
    ASSUME NEW x \in Nat, NEW s \in Seq(Nat)
    PROVE  /\ << x >> \o s \in Seq(Nat) /\ Range(<< x >> \o s) = {x} \cup Range(s)
           /\ IsInjective(s) /\ x \notin Range(s) => IsInjective(<< x >> \o s)
<1> DEFINE c == << x >> \o s
           n == Len(s)
<1>1. n \in Nat /\ DOMAIN s = 1..n
  BY LenProperties
<1>2. << x >> \in Seq(Nat) /\ Len(<< x >>) = 1 /\ << x >>[1] = x
  OBVIOUS
<1>3. /\ c \in Seq(Nat) /\ Len(c) = 1 + n
      /\ \A i \in 1 .. 1 + n : c[i] = IF i <= 1 THEN << x >>[i] ELSE s[i - 1]
  BY <1>1, <1>2, ConcatProperties
<1>4. DOMAIN c = 1 .. 1 + n
  BY <1>3, LenProperties
<1> HIDE DEF c, n
<1>5. c[1] = x /\ \A i \in 1..n : i + 1 \in 1 .. 1 + n /\ c[i + 1] = s[i]
  <2>1. 1 \in 1 .. 1 + n /\ 1 <= 1
    BY <1>1
  <2>2. ASSUME NEW i \in 1..n PROVE i + 1 \in 1 .. 1 + n /\ ~(i + 1 <= 1) /\ (i + 1) - 1 = i
    BY <1>1
  <2> QED
    BY <1>2, <1>3, <2>1, <2>2
<1>6. \A i \in 1 .. 1 + n : i = 1 \/ (i - 1 \in 1..n /\ c[i] = s[i - 1])
  <2>1. ASSUME NEW i \in 1 .. 1 + n, i # 1 PROVE i - 1 \in 1..n /\ ~(i <= 1)
    BY <1>1, <2>1
  <2> QED
    BY <1>3, <2>1
<1>7. 1 \in 1 .. 1 + n
  BY <1>1
<1>8. Range(c) = {x} \cup Range(s)
  <2>1. Range(c) = {c[i] : i \in 1 .. 1 + n} /\ Range(s) = {s[i] : i \in 1..n}
    BY <1>1, <1>4 DEF Range
  <2>2. \A y \in Range(c) : y \in {x} \cup Range(s)
    BY <1>5, <1>6, <2>1
  <2>3. \A y \in {x} \cup Range(s) : y \in Range(c)
    BY <1>5, <1>7, <2>1
  <2> QED
    BY <2>2, <2>3
<1>9. ASSUME IsInjective(s), x \notin Range(s) PROVE IsInjective(c)
  <2>1. \A a, b \in 1..n : s[a] = s[b] => a = b
    BY <1>1, <1>9 DEF IsInjective
  <2>2. \A a \in 1..n : s[a] # x
    BY <1>1, <1>9 DEF Range
  <2> SUFFICES ASSUME NEW a \in 1 .. 1 + n, NEW b \in 1 .. 1 + n, c[a] = c[b] PROVE a = b
    BY <1>4 DEF IsInjective
  <2>3. a = 1 \/ (a - 1 \in 1..n /\ c[a] = s[a - 1])
    BY <1>6
  <2>4. b = 1 \/ (b - 1 \in 1..n /\ c[b] = s[b - 1])
    BY <1>6
  <2>5. CASE a = 1 \/ b = 1
    BY <1>5, <2>2, <2>3, <2>4, <2>5
  <2>6. CASE a # 1 /\ b # 1
    <3>1. a - 1 = b - 1
      BY <2>1, <2>3, <2>4, <2>6
    <3>2. a \in Int /\ b \in Int
      OBVIOUS
    <3> QED
      BY <3>1, <3>2
  <2> QED
    BY <2>5, <2>6
<1> QED
  BY <1>3, <1>8, <1>9 DEF c

\* The next entry, where there is one: the one that is passed over.
Passed(refs, i) == SubSeq(refs, i + 1, Min({i + 1, Len(refs)}))

\* What the definition of Without makes of the lists g from later places.
Leaving(refs, ref, g, i) ==
    IF i > Len(refs) THEN << >>
    ELSE IF refs[i] # ref THEN << refs[i] >> \o g[i + 1]
    ELSE Passed(refs, i) \o g[i + 2]

Leaves(refs, ref, g) == g = [i \in 1 .. Len(refs) + 2 |-> Leaving(refs, ref, g, i)]

LEMMA WithoutIsOneOfThem ==
    ASSUME NEW refs, NEW ref
    PROVE  Without(refs, ref) = (CHOOSE g : Leaves(refs, ref, g))[1]
BY DEF Without, Leaves, Leaving, Passed

LEMMA WhatIsPassed ==
    ASSUME NEW refs \in Seq(Nat), NEW i \in 1..Len(refs)
    PROVE  \/ i < Len(refs) /\ Passed(refs, i) = << refs[i + 1] >> /\ refs[i + 1] \in Nat
           \/ i = Len(refs) /\ Passed(refs, i) = << >>
<1> DEFINE n == Len(refs)
           k == Min({i + 1, n})
<1>1. n \in Nat /\ i \in Nat /\ i <= n /\ DOMAIN refs = 1..n
  BY LenProperties
<1>2. \A j \in 1..n : refs[j] \in Nat
  BY ElementOfSeq
<1>3. k \in {i + 1, n} /\ \A y \in {i + 1, n} : k <= y
  <2> DEFINE K == {i + 1, n}
  <2>1. K \subseteq Nat /\ K # {}
    BY <1>1
  <2> HIDE DEF K
  <2>2. Min(K) \in K /\ \A y \in K : Min(K) <= y
    BY <2>1, SmallestOf
  <2> QED
    BY <2>2 DEF K
<1> HIDE DEF n, k
<1>4. Passed(refs, i) = SubSeq(refs, i + 1, k)
  BY DEF Passed, k, n
<1>5. CASE i < n
  <2>1. k = i + 1 /\ i + 1 \in 1..n
    BY <1>1, <1>3, <1>5
  <2>2. i + 1 \in Int /\ \A j \in i + 1 .. i + 1 : refs[j] \in Nat
    BY <1>1, <1>2, <2>1
  <2>3. /\ SubSeq(refs, i + 1, i + 1) \in Seq(Nat)
        /\ Len(SubSeq(refs, i + 1, i + 1)) = IF i + 1 <= i + 1 THEN (i + 1) - (i + 1) + 1 ELSE 0
        /\ \A j \in 1 .. (i + 1) - (i + 1) + 1 : SubSeq(refs, i + 1, i + 1)[j] = refs[(i + 1) + j - 1]
    BY <2>2, SubSeqProperties
  <2>4. (i + 1) - (i + 1) + 1 = 1 /\ i + 1 <= i + 1 /\ (i + 1) + 1 - 1 = i + 1 /\ 1 \in 1..1
    BY <1>1
  <2>5. PICK s : s = SubSeq(refs, i + 1, i + 1)
    OBVIOUS
  <2>6. s \in Seq(Nat) /\ Len(s) = 1 /\ s[1] = refs[i + 1]
    BY <2>3, <2>4, <2>5
  <2>7. s = << refs[i + 1] >>
    BY <2>6
  <2> QED
    BY <1>2, <1>4, <1>5, <2>1, <2>5, <2>7 DEF n
<1>6. CASE i = n
  <2>1. k = n
    BY <1>1, <1>3, <1>6
  <2>2. i + 1 \in Int /\ n \in Int /\ ~(i + 1 <= n) /\ \A j \in i + 1 .. n : refs[j] \in Nat
    BY <1>1, <1>6
  <2>3. PICK s : s = SubSeq(refs, i + 1, n)
    OBVIOUS
  <2>4. s \in Seq(Nat) /\ Len(s) = 0
    BY <2>2, <2>3, SubSeqProperties
  <2>5. s = << >>
    BY <2>4
  <2> QED
    BY <1>4, <1>6, <2>1, <2>3, <2>5 DEF n
<1> QED
  BY <1>1, <1>5, <1>6

\* Each list depends on the next two, and is one.
LEMMA LeavingNext ==
    ASSUME NEW refs \in Seq(Nat), NEW ref, NEW g \in [1 .. Len(refs) + 2 -> Seq(Nat)],
           NEW i \in 1 .. Len(refs) + 2
    PROVE  /\ Leaving(refs, ref, g, i) \in Seq(Nat)
           /\ \A h : (/\ i + 1 \in 1 .. Len(refs) + 2 => g[i + 1] = h[i + 1]
                      /\ i + 2 \in 1 .. Len(refs) + 2 => g[i + 2] = h[i + 2])
                    => Leaving(refs, ref, h, i) = Leaving(refs, ref, g, i)
<1> DEFINE n == Len(refs)
<1>1. n \in Nat
  BY LenProperties
<1> HIDE DEF n
<1>2. CASE i > n
  BY <1>2, EmptyIsSeq DEF Leaving, n
<1>3. CASE ~(i > n)
  <2>1. i \in 1..n /\ i + 1 \in 1 .. n + 2 /\ i + 2 \in 1 .. n + 2
    BY <1>1, <1>3 DEF n
  <2>2. refs[i] \in Nat /\ g[i + 1] \in Seq(Nat) /\ g[i + 2] \in Seq(Nat)
    BY <2>1, ElementOfSeq DEF n
  <2>3. << refs[i] >> \o g[i + 1] \in Seq(Nat)
    BY <2>2, InFront
  <2>4. Passed(refs, i) \o g[i + 2] \in Seq(Nat)
    <3>1. Passed(refs, i) \in Seq(Nat)
      <4>1. i \in 1..Len(refs)
        BY <2>1 DEF n
      <4>2. CASE Passed(refs, i) = << >>
        BY <4>2, EmptyIsSeq
      <4>3. CASE Passed(refs, i) = << refs[i + 1] >> /\ refs[i + 1] \in Nat
        <5>1. PICK x \in Nat : x = refs[i + 1]
          BY <4>3
        <5>2. << x >> \in Seq(Nat)
          OBVIOUS
        <5> QED
          BY <4>3, <5>1, <5>2
      <4> QED
        BY <4>1, <4>2, <4>3, WhatIsPassed
    <3> QED
      BY <2>2, <3>1, ConcatProperties
  <2>5. Leaving(refs, ref, g, i) \in Seq(Nat)
    BY <1>3, <2>3, <2>4 DEF Leaving, n
  <2>6. ASSUME NEW h,
               i + 1 \in 1 .. Len(refs) + 2 => g[i + 1] = h[i + 1],
               i + 2 \in 1 .. Len(refs) + 2 => g[i + 2] = h[i + 2]
        PROVE  Leaving(refs, ref, h, i) = Leaving(refs, ref, g, i)
    <3>1. g[i + 1] = h[i + 1] /\ g[i + 2] = h[i + 2]
      BY <2>1, <2>6 DEF n
    <3> QED
      BY <3>1 DEF Leaving
  <2> QED
    BY <2>5, <2>6
<1> QED
  BY <1>2, <1>3

LEMMA LeavesExist ==
    ASSUME NEW refs \in Seq(Nat), NEW ref
    PROVE  \E g \in [1 .. Len(refs) + 2 -> Seq(Nat)] : Leaves(refs, ref, g)
<1> DEFINE n == Len(refs)
           D == 1 .. n + 2
           F == [D -> Seq(Nat)]
           A == {m \in Nat : \E g \in F : \A i \in D : i > n - m => g[i] = Leaving(refs, ref, g, i)}
<1>1. n \in Nat
  BY LenProperties
<1>2. 0 \in A
  <2> DEFINE g == [i \in D |-> << >>]
  <2>1. g \in F
    BY EmptyIsSeq
  <2>2. ASSUME NEW i \in D, i > n - 0 PROVE g[i] = Leaving(refs, ref, g, i)
    <3>1. i > n
      BY <1>1, <2>2
    <3> QED
      BY <3>1 DEF Leaving
  <2> QED
    BY <2>1, <2>2
<1>3. ASSUME NEW m \in Nat, m \in A PROVE m + 1 \in A
  <2>1. PICK g \in F : \A i \in D : i > n - m => g[i] = Leaving(refs, ref, g, i)
    BY <1>3
  <2> DEFINE h == [i \in D |-> Leaving(refs, ref, g, i)]
  <2>2. h \in F
    <3>1. \A i \in D : Leaving(refs, ref, g, i) \in Seq(Nat)
      BY LeavingNext
    <3> QED
      BY <3>1
  <2>3. ASSUME NEW i \in D, i > n - (m + 1) PROVE h[i] = Leaving(refs, ref, h, i)
    <3>1. i + 1 > n - m /\ i + 2 > n - m
      BY <1>1, <2>3
    <3>2. i + 1 \in D => g[i + 1] = h[i + 1]
      BY <2>1, <3>1
    <3>3. i + 2 \in D => g[i + 2] = h[i + 2]
      BY <2>1, <3>1
    <3>4. h[i] = Leaving(refs, ref, g, i)
      OBVIOUS
    <3> HIDE DEF h
    <3>5. Leaving(refs, ref, h, i) = Leaving(refs, ref, g, i)
      BY <3>2, <3>3, LeavingNext
    <3> QED
      BY <3>4, <3>5
  <2> HIDE DEF h
  <2> QED
    BY <2>2, <2>3
<1> HIDE DEF A
<1>4. n \in A
  BY <1>1, <1>2, <1>3, EveryNumber
<1> USE DEF A
<1>5. PICK g \in F : \A i \in D : i > n - n => g[i] = Leaving(refs, ref, g, i)
  BY <1>4
<1>6. \A i \in D : i > n - n
  BY <1>1
<1>7. g = [i \in D |-> Leaving(refs, ref, g, i)]
  BY <1>5, <1>6
<1> QED
  BY <1>7 DEF Leaves

\* The references that are left are all others, each once when each was there
\* once: the entry that is passed over is another one then.
LEMMA WithoutIsTheRest ==
    ASSUME NEW refs \in Seq(Nat), NEW ref
    PROVE  /\ Without(refs, ref) \in Seq(Nat)
           /\ IsInjective(refs) => /\ Range(Without(refs, ref)) = Range(refs) \ {ref}
                                   /\ IsInjective(Without(refs, ref))
<1> DEFINE n == Len(refs)
           D == 1 .. n + 2
<1>1. n \in Nat /\ DOMAIN refs = 1..n /\ \A i \in 1..n : refs[i] \in Nat
  BY LenProperties, ElementOfSeq
<1>2. PICK g : g = (CHOOSE k : Leaves(refs, ref, k)) /\ Leaves(refs, ref, g)
  BY LeavesExist
<1>3. \A h : Leaves(refs, ref, h) => DOMAIN h = D /\ \A i \in D : h[i] = Leaving(refs, ref, h, i)
  BY DEF Leaves
<1> DEFINE later(i) == {refs[j] : j \in {k \in i..n : refs[k] # ref}}
           P(i) == /\ g[i] \in Seq(Nat)
                   /\ IsInjective(refs) => Range(g[i]) = later(i) /\ IsInjective(g[i])
           A == {m \in Nat : \A i \in D : i > n - m => P(i)}
<1>4. \A i \in D : g[i] = Leaving(refs, ref, g, i)
  BY <1>2, <1>3
<1>5. ASSUME NEW i \in D, i > n PROVE P(i)
  <2>1. g[i] = << >>
    BY <1>4, <1>5 DEF Leaving
  <2>2. later(i) = {}
    BY <1>1, <1>5
  <2>3. Range(<< >>) = {} /\ IsInjective(<< >>) /\ << >> \in Seq(Nat)
    BY EmptyIsSeq DEF Range, IsInjective
  <2> QED
    BY <2>1, <2>2, <2>3
<1>6. ASSUME NEW i \in 1..n, P(i + 1), P(i + 2) PROVE P(i)
  <2>1. i \in D /\ ~(i > n) /\ i + 1 \in D /\ i + 2 \in D
    BY <1>1
  <2>2. \A a, b \in 1..n : IsInjective(refs) => (refs[a] = refs[b] => a = b)
    BY <1>1 DEF IsInjective
  <2>3. CASE refs[i] # ref
    <3>1. g[i] = << refs[i] >> \o g[i + 1]
      BY <1>4, <2>1, <2>3 DEF Leaving
    <3>2. ASSUME IsInjective(refs) PROVE refs[i] \notin later(i + 1)
      <4>1. \A j \in i + 1 .. n : j \in 1..n /\ j # i
        BY <1>1
      <4> QED
        BY <2>2, <3>2, <4>1
    <3>3. later(i) = {refs[i]} \cup later(i + 1)
      <4>1. \A j : j \in i..n <=> j = i \/ j \in i + 1 .. n
        BY <1>1
      <4> QED
        BY <2>3, <4>1
    <3>4. /\ << refs[i] >> \o g[i + 1] \in Seq(Nat)
          /\ Range(<< refs[i] >> \o g[i + 1]) = {refs[i]} \cup Range(g[i + 1])
          /\ IsInjective(g[i + 1]) /\ refs[i] \notin Range(g[i + 1])
                => IsInjective(<< refs[i] >> \o g[i + 1])
      BY <1>1, <1>6, InFront
    <3> HIDE DEF later
    <3> QED
      BY <1>6, <3>1, <3>2, <3>3, <3>4
  <2>4. CASE refs[i] = ref
    <3>1. g[i] = Passed(refs, i) \o g[i + 2]
      BY <1>4, <2>1, <2>4 DEF Leaving
    <3>2. CASE i = n
      <4>1. Passed(refs, i) = << >>
        BY <1>1, <3>2, WhatIsPassed
      <4>2. << >> \o g[i + 2] = g[i + 2]
        BY <1>6, ConcatEmptySeq
      <4>3. later(i) = later(i + 2)
        <5>1. later(i) = {}
          <6>1. \A j \in i..n : refs[j] = ref
            BY <1>1, <2>4, <3>2
          <6> QED
            BY <6>1
        <5>2. later(i + 2) = {}
          BY <1>1, <3>2
        <5> QED
          BY <5>1, <5>2
      <4> HIDE DEF later
      <4> QED
        BY <1>6, <3>1, <4>1, <4>2, <4>3
    <3>3. CASE i < n
      <4>1. Passed(refs, i) = << refs[i + 1] >> /\ refs[i + 1] \in Nat
        <5> HIDE DEF P, A, later
        <5>1. ~(i = n)
          <6> HIDE DEF n
          <6> QED
            BY <1>1, <3>3
        <5> QED
          BY <5>1, WhatIsPassed
      <4>2. /\ << refs[i + 1] >> \o g[i + 2] \in Seq(Nat)
            /\ Range(<< refs[i + 1] >> \o g[i + 2]) = {refs[i + 1]} \cup Range(g[i + 2])
            /\ IsInjective(g[i + 2]) /\ refs[i + 1] \notin Range(g[i + 2])
                  => IsInjective(<< refs[i + 1] >> \o g[i + 2])
        BY <1>6, <4>1, InFront
      <4>3. ASSUME IsInjective(refs)
            PROVE  refs[i + 1] \notin later(i + 2) /\ later(i) = {refs[i + 1]} \cup later(i + 2)
        <5>1. i + 1 \in 1..n /\ i + 1 # i
          BY <1>1, <3>3
        <5>2. refs[i + 1] # ref
          BY <2>2, <2>4, <4>3, <5>1
        <5>3. \A j : j \in i..n <=> j = i \/ j = i + 1 \/ j \in i + 2 .. n
          BY <1>1, <3>3
        <5>4. \A j \in i + 2 .. n : j \in 1..n /\ j # i + 1
          BY <1>1
        <5>5. refs[i + 1] \notin later(i + 2)
          BY <2>2, <4>3, <5>1, <5>4
        <5> QED
          BY <2>4, <5>2, <5>3, <5>5
      <4> HIDE DEF later
      <4> QED
        BY <1>6, <3>1, <4>1, <4>2, <4>3
    <3>4. i < n \/ i = n
      <4> HIDE DEF n, P, A, later
      <4> QED
        BY <1>1
    <3> HIDE DEF P
    <3> QED
      BY <3>2, <3>3, <3>4
  <2> QED
    BY <2>3, <2>4
<1>7. 0 \in A
  <2>1. \A i \in D : i > n - 0 => i > n
    BY <1>1
  <2> HIDE DEF P
  <2> QED
    BY <1>5, <2>1
<1>8. ASSUME NEW m \in Nat, m \in A PROVE m + 1 \in A
  <2>1. ASSUME NEW i \in D, i > n - (m + 1) PROVE P(i)
    <3>1. CASE i > n
      BY <1>5, <3>1
    <3>2. CASE ~(i > n)
      <4>1. i \in 1..n /\ i + 1 \in D /\ i + 2 \in D /\ i + 1 > n - m /\ i + 2 > n - m
        BY <1>1, <2>1, <3>2
      <4> HIDE DEF P
      <4>2. P(i + 1) /\ P(i + 2)
        BY <1>8, <4>1
      <4> QED
        BY <1>6, <4>1, <4>2
    <3> QED
      BY <3>1, <3>2
  <2> HIDE DEF P
  <2> QED
    BY <2>1
<1>9. P(1)
  <2> HIDE DEF P
  <2>1. n \in A
    <3> HIDE DEF A
    <3> QED
      BY <1>1, <1>7, <1>8, EveryNumber
  <2>2. 1 \in D /\ 1 > n - n
    BY <1>1
  <2> QED
    BY <2>1, <2>2
<1>10. Without(refs, ref) = g[1]
  BY <1>2, WithoutIsOneOfThem
<1>11. later(1) = Range(refs) \ {ref}
  BY <1>1 DEF Range
<1> HIDE DEF later
<1> QED
  BY <1>9, <1>10, <1>11

-----------------------------------------------------------------------------
(* The calls about references.                                             *)

LEMMA RefTypeAdded ==
    ASSUME NEW mv, Keyed(mv), NEW id, NEW type
    PROVE  LET n == AddRefType(mv, id, type)
           IN  /\ SameNames(mv, n) /\ n.od = mv.od /\ n.iods = mv.iods /\ n.ok = mv.ok
               /\ \A j \in 1..Len(mv.traks) : Mpod(n.traks[j]) = Mpod(mv.traks[j])
<1> DEFINE i == TrakIndex(mv, id)
           r == [t \in DOMAIN mv.traks[i].refs \cup {type} |->
                   IF t = type THEN << >> ELSE mv.traks[i].refs[t]]
           n == AddRefType(mv, id, type)
<1>1. CASE type \in DOMAIN mv.traks[i].refs
  <2>1. n = mv
    BY <1>1 DEF AddRefType
  <2> QED
    BY <2>1, SameNamesItself
<1>2. CASE type \notin DOMAIN mv.traks[i].refs
  <2>1. n = [mv EXCEPT !.traks[i].refs = r]
    BY <1>2 DEF AddRefType
  <2>2. MpodOf(r) = MpodOf(mv.traks[i].refs)
    BY <1>2 DEF MpodOf
  <2>3. i \in 1..Len(mv.traks) => MpodOf(r) \in Seq(Nat)
    BY <2>2 DEF Keyed, Shape, Listed, IsTrak, Mpod
  <2> HIDE DEF r, i, n
  <2>4. RefsSet(mv, n, i, r)
    BY <2>1, <2>3, RefsChanged
  <2>5. \A j \in 1..Len(mv.traks) : Mpod(n.traks[j]) = Mpod(mv.traks[j])
    BY <2>2, <2>4 DEF Mpod, RefsSet
  <2> QED
    BY <2>4, <2>5 DEF n, RefsSet
<1> QED
  BY <1>1, <1>2

LEMMA ReferenceAdded ==
    ASSUME NEW mv, Keyed(mv), NEW id, NEW type, NEW ref, type = "mpod" => ref \in Nat
    PROVE  LET n == AddTrackReference(mv, id, type, ref)
           IN  /\ SameNames(mv, n) /\ n.od = mv.od /\ n.iods = mv.iods
               /\ n.ok => mv.ok
               /\ \A j \in 1..Len(mv.traks) :
                     \/ Mpod(n.traks[j]) = Mpod(mv.traks[j])
                     \/ /\ type = "mpod" /\ j = TrakIndex(mv, id)
                        /\ Mpod(n.traks[j]) = Append(Mpod(mv.traks[j]), ref)
<1> DEFINE i == TrakIndex(mv, id)
           r == [mv.traks[i].refs EXCEPT ![type] = Append(@, ref)]
           n == AddTrackReference(mv, id, type, ref)
<1>1. CASE i = 0
  <2>1. n = Throw(mv)
    BY <1>1 DEF AddTrackReference
  <2>2. Throw(mv).traks = mv.traks /\ Throw(mv).od = mv.od /\ Throw(mv).iods = mv.iods
    BY DEF Throw, Keyed, Shape, Listed, MovieFields
  <2> QED
    BY <2>1, <2>2, SameNamesThrown
<1>2. CASE i # 0 /\ type \notin DOMAIN mv.traks[i].refs
  <2>1. n = mv
    BY <1>2 DEF AddTrackReference
  <2> QED
    BY <2>1, SameNamesItself
<1>3. CASE i # 0 /\ type \in DOMAIN mv.traks[i].refs
  <2>1. n = [mv EXCEPT !.traks[i].refs = r]
    BY <1>3 DEF AddTrackReference
  <2>2. \/ MpodOf(r) = MpodOf(mv.traks[i].refs)
        \/ type = "mpod" /\ MpodOf(r) = Append(MpodOf(mv.traks[i].refs), ref)
    BY <1>3 DEF MpodOf
  <2>3. i \in 1..Len(mv.traks) => MpodOf(r) \in Seq(Nat)
    <3>1. SUFFICES ASSUME i \in 1..Len(mv.traks) PROVE MpodOf(r) \in Seq(Nat)
      OBVIOUS
    <3>2. MpodOf(mv.traks[i].refs) \in Seq(Nat)
      BY <3>1 DEF Keyed, Shape, Listed, IsTrak, Mpod
    <3> HIDE DEF r, i, n
    <3> QED
      BY <2>2, <3>2, AppendProperties
  <2> HIDE DEF r, i, n
  <2>4. RefsSet(mv, n, i, r)
    BY <2>1, <2>3, RefsChanged
  <2>5. \A j \in 1..Len(mv.traks) :
          \/ Mpod(n.traks[j]) = Mpod(mv.traks[j])
          \/ /\ type = "mpod" /\ j = i
             /\ Mpod(n.traks[j]) = Append(Mpod(mv.traks[j]), ref)
    BY <2>2, <2>4 DEF Mpod, RefsSet
  <2> QED
    BY <2>4, <2>5 DEF n, i, RefsSet
<1> QED
  BY <1>1, <1>2, <1>3

LEMMA ReferenceRemoved ==
    ASSUME NEW mv, Keyed(mv), NEW id, NEW ref
    PROVE  LET n == RemoveTrackReference(mv, id, "mpod", ref)
           IN  /\ SameNames(mv, n) /\ n.od = mv.od /\ n.iods = mv.iods
               /\ TrakIndex(mv, id) # 0 => n.ok = mv.ok
               /\ \A j \in 1..Len(mv.traks) :
                     \/ Mpod(n.traks[j]) = Mpod(mv.traks[j])
                        /\ (j = TrakIndex(mv, id) /\ j # 0 => Mpod(mv.traks[j]) = << >>)
                     \/ /\ j = TrakIndex(mv, id)
                        /\ Mpod(n.traks[j]) = Without(Mpod(mv.traks[j]), ref)
<1> DEFINE i == TrakIndex(mv, id)
           r == [mv.traks[i].refs EXCEPT !["mpod"] = Without(@, ref)]
           n == RemoveTrackReference(mv, id, "mpod", ref)
<1>1. CASE i = 0
  <2>1. n = Throw(mv)
    BY <1>1 DEF RemoveTrackReference
  <2>2. Throw(mv).traks = mv.traks /\ Throw(mv).od = mv.od /\ Throw(mv).iods = mv.iods
    BY DEF Throw, Keyed, Shape, Listed, MovieFields
  <2> QED
    BY <1>1, <2>1, <2>2, SameNamesThrown
<1>2. CASE i # 0 /\ "mpod" \notin DOMAIN mv.traks[i].refs
  <2>1. n = mv
    BY <1>2 DEF RemoveTrackReference
  <2>2. Mpod(mv.traks[i]) = << >>
    BY <1>2 DEF Mpod, MpodOf
  <2> QED
    BY <2>1, <2>2, SameNamesItself
<1>3. CASE i # 0 /\ "mpod" \in DOMAIN mv.traks[i].refs
  <2>1. n = [mv EXCEPT !.traks[i].refs = r]
    BY <1>3 DEF RemoveTrackReference
  <2>2. MpodOf(r) = Without(MpodOf(mv.traks[i].refs), ref)
    BY <1>3 DEF MpodOf
  <2>3. i \in 1..Len(mv.traks) => MpodOf(r) \in Seq(Nat)
    <3>1. SUFFICES ASSUME i \in 1..Len(mv.traks) PROVE MpodOf(r) \in Seq(Nat)
      OBVIOUS
    <3>2. MpodOf(mv.traks[i].refs) \in Seq(Nat)
      BY <3>1 DEF Keyed, Shape, Listed, IsTrak, Mpod
    <3> HIDE DEF r, i, n
    <3> QED
      BY <2>2, <3>2, WithoutIsTheRest
  <2> HIDE DEF r, i, n
  <2>4. RefsSet(mv, n, i, r)
    BY <2>1, <2>3, RefsChanged
  <2>5. \A j \in 1..Len(mv.traks) :
          \/ Mpod(n.traks[j]) = Mpod(mv.traks[j]) /\ j # i
          \/ j = i /\ Mpod(n.traks[j]) = Without(Mpod(mv.traks[j]), ref)
    BY <2>2, <2>4 DEF Mpod, RefsSet
  <2> QED
    BY <2>4, <2>5 DEF n, i, RefsSet
<1> QED
  BY <1>1, <1>2, <1>3

\* AddTrackToOd and RemoveTrackFromOd.
LEMMA OdChanged ==
    ASSUME NEW mv, Keyed(mv), NEW id \in Nat
    PROVE  /\ LET n == AddTrackToOd(mv, id)
              IN  /\ SameNames(mv, n) /\ n.od = mv.od /\ n.iods = mv.iods /\ (n.ok => mv.ok)
                  /\ \A j \in 1..Len(mv.traks) :
                        \/ Mpod(n.traks[j]) = Mpod(mv.traks[j])
                        \/ /\ mv.od # 0 /\ j = TrakIndex(mv, mv.od)
                           /\ Mpod(n.traks[j]) = Append(Mpod(mv.traks[j]), id)
           /\ LET n == RemoveTrackFromOd(mv, id)
              IN  /\ SameNames(mv, n) /\ n.od = mv.od /\ n.iods = mv.iods
                  /\ mv.od = 0 \/ TrakIndex(mv, mv.od) # 0 => n.ok = mv.ok
                  /\ \A j \in 1..Len(mv.traks) :
                        \/ Mpod(n.traks[j]) = Mpod(mv.traks[j])
                           /\ (mv.od # 0 /\ j = TrakIndex(mv, mv.od) /\ j # 0
                                  => Mpod(mv.traks[j]) = << >>)
                        \/ /\ mv.od # 0 /\ j = TrakIndex(mv, mv.od)
                           /\ Mpod(n.traks[j]) = Without(Mpod(mv.traks[j]), id)
<1>1. CASE mv.od = 0
  BY <1>1, SameNamesItself DEF AddTrackToOd, RemoveTrackFromOd
<1>2. CASE mv.od # 0
  <2>1. AddTrackToOd(mv, id) = AddTrackReference(mv, mv.od, "mpod", id)
    BY <1>2 DEF AddTrackToOd
  <2>2. RemoveTrackFromOd(mv, id) = RemoveTrackReference(mv, mv.od, "mpod", id)
    BY <1>2 DEF RemoveTrackFromOd
  <2>3. PICK x : x = mv.od /\ x # 0
    BY <1>2
  <2>4. LET n == AddTrackReference(mv, x, "mpod", id)
        IN  /\ SameNames(mv, n) /\ n.od = mv.od /\ n.iods = mv.iods
            /\ n.ok => mv.ok
            /\ \A j \in 1..Len(mv.traks) :
                  \/ Mpod(n.traks[j]) = Mpod(mv.traks[j])
                  \/ /\ j = TrakIndex(mv, x)
                     /\ Mpod(n.traks[j]) = Append(Mpod(mv.traks[j]), id)
    BY ReferenceAdded
  <2>5. LET n == RemoveTrackReference(mv, x, "mpod", id)
        IN  /\ SameNames(mv, n) /\ n.od = mv.od /\ n.iods = mv.iods
            /\ TrakIndex(mv, x) # 0 => n.ok = mv.ok
            /\ \A j \in 1..Len(mv.traks) :
                  \/ Mpod(n.traks[j]) = Mpod(mv.traks[j])
                     /\ (j = TrakIndex(mv, x) /\ j # 0 => Mpod(mv.traks[j]) = << >>)
                  \/ /\ j = TrakIndex(mv, x)
                     /\ Mpod(n.traks[j]) = Without(Mpod(mv.traks[j]), id)
    BY ReferenceRemoved
  <2> QED
    BY <2>1, <2>2, <2>3, <2>4, <2>5
<1> QED
  BY <1>1, <1>2

LEMMA IodAdded ==
    ASSUME NEW mv, Keyed(mv), NEW id \in Nat
    PROVE  LET n == AddTrackToIod(mv, id)
           IN  /\ SameNames(mv, n) /\ n.od = mv.od /\ n.traks = mv.traks /\ (n.ok => mv.ok)
               /\ n.iods.ids = mv.iods.ids \/ n.iods.ids = Append(mv.iods.ids, id)
<1> DEFINE n == AddTrackToIod(mv, id)
<1>1. CASE ~mv.iods.present
  <2>1. n = Throw(mv)
    BY <1>1 DEF AddTrackToIod
  <2>2. Throw(mv).traks = mv.traks /\ Throw(mv).od = mv.od /\ Throw(mv).iods = mv.iods
    BY DEF Throw, Keyed, Shape, Listed, MovieFields
  <2> QED
    BY <2>1, <2>2, SameNamesThrown
<1>2. CASE mv.iods.present
  <2>1. n = [mv EXCEPT !.iods.ids = Append(@, id)]
    BY <1>2 DEF AddTrackToIod
  <2>2. /\ Alike(mv, n, {"iods"}) /\ n.ok = mv.ok /\ n.traks = mv.traks /\ n.od = mv.od
        /\ n.iods = [mv.iods EXCEPT !.ids = Append(@, id)]
        /\ n.chpl = mv.chpl /\ n.items = mv.items /\ n.brands = mv.brands
    BY <2>1 DEF Alike, Keyed, Shape, Listed, MovieFields
  <2> HIDE DEF n
  <2>3. /\ {"present", "ids"} \subseteq DOMAIN n.iods
        /\ n.iods.ids = Append(mv.iods.ids, id) /\ mv.iods.ids \in Seq(Nat)
    BY <2>2 DEF Keyed, Shape, Rest
  <2>4. Append(mv.iods.ids, id) \in Seq(Nat)
    BY <2>3, AppendProperties
  <2>5. Rest(n)
    BY <2>2, <2>3, <2>4 DEF Rest, Keyed, Shape
  <2>6. SameNames(mv, n)
    BY <2>2, <2>5, SameNamesOtherwise DEF Alike
  <2> QED
    BY <2>2, <2>3, <2>6 DEF n
<1> QED
  BY <1>1, <1>2

LEMMA IodRemoved ==
    ASSUME NEW mv, Keyed(mv), NEW id
    PROVE  LET n == RemoveTrackFromIod(mv, id)
           IN  /\ SameNames(mv, n) /\ n.od = mv.od /\ n.traks = mv.traks /\ n.ok = mv.ok
               /\ IsInjective(mv.iods.ids) => /\ Range(n.iods.ids) = Range(mv.iods.ids) \ {id}
                                              /\ IsInjective(n.iods.ids)
<1> DEFINE s == mv.iods.ids
           I == {j \in 1..Len(s) : s[j] = id}
           i == SelectInSeq(s, LAMBDA e : e = id)
           n == RemoveTrackFromIod(mv, id)
<1>1. s \in Seq(Nat) /\ Len(s) \in Nat /\ DOMAIN s = 1..Len(s)
  BY LenProperties DEF Keyed, Shape, Rest
<1>2. CASE I = {}
  <2>1. i = 0 /\ n = mv
    BY <1>2 DEF SelectInSeq, RemoveTrackFromIod
  <2>2. id \notin Range(s)
    BY <1>1, <1>2 DEF Range
  <2> QED
    BY <2>1, <2>2, SameNamesItself
<1>3. CASE I # {}
  <2>1. i = Min(I)
    BY <1>3 DEF SelectInSeq
  <2>2. I \subseteq Nat
    BY <1>1
  <2>3. i \in 1..Len(s) /\ s[i] = id
    <3>1. i \in I
      <4> HIDE DEF I, i
      <4> QED
        BY <1>3, <2>1, <2>2, SmallestOf
    <3> QED
      BY <3>1
  <2>4. n = [mv EXCEPT !.iods.ids = RemoveAt(@, i)]
    <3>1. i # 0
      BY <2>3
    <3> QED
      BY <3>1 DEF RemoveTrackFromIod
  <2> HIDE DEF i, n, I
  <2>5. /\ Alike(mv, n, {"iods"}) /\ n.ok = mv.ok /\ n.traks = mv.traks /\ n.od = mv.od
        /\ n.iods = [mv.iods EXCEPT !.ids = RemoveAt(@, i)]
        /\ n.chpl = mv.chpl /\ n.items = mv.items /\ n.brands = mv.brands
    BY <2>4 DEF Alike, Keyed, Shape, Listed, MovieFields
  <2> DEFINE r == RemoveAt(s, i)
  <2>6. /\ {"present", "ids"} \subseteq DOMAIN n.iods /\ n.iods.ids = r
    BY <2>5 DEF Keyed, Shape, Rest
  <2> HIDE DEF s
  <2>7. /\ r \in Seq(Nat) /\ Len(r) = Len(s) - 1
        /\ \A j \in 1 .. Len(s) - 1 : r[j] = s[Before(j, i)]
    BY <1>1, <2>3, RemoveAtProperties
  <2> HIDE DEF r
  <2>8. Rest(n)
    BY <2>5, <2>6, <2>7 DEF Rest, Keyed, Shape
  <2>9. SameNames(mv, n)
    BY <2>5, <2>8, SameNamesOtherwise DEF Alike
  <2>10. ASSUME IsInjective(s)
         PROVE  Range(r) = Range(s) \ {id} /\ IsInjective(r)
    <3>1. PICK l : l = Len(s) /\ l \in Nat
      BY <1>1
    <3>2. /\ DOMAIN s = 1..l /\ DOMAIN r = 1 .. l - 1 /\ i \in 1..l
          /\ \A j \in 1 .. l - 1 : r[j] = s[Before(j, i)]
      BY <1>1, <2>3, <2>7, <3>1, LenProperties
    <3>3. /\ \A j \in 1 .. l - 1 : Before(j, i) \in 1..l /\ Before(j, i) # i
          /\ \A j, k \in 1 .. l - 1 : Before(j, i) = Before(k, i) => j = k
          /\ \A k \in 1..l : k # i => \E j \in 1 .. l - 1 : Before(j, i) = k
      BY <3>1, <3>2, BeforeIsOneToOne
    <3>4. \A a, b \in 1..l : s[a] = s[b] => a = b
      BY <2>10, <3>2 DEF IsInjective
    <3>5. IsInjective(r)
      BY <3>2, <3>3, <3>4 DEF IsInjective
    <3>6. Range(r) = {r[j] : j \in 1 .. l - 1} /\ Range(s) = {s[j] : j \in 1..l}
      BY <3>2 DEF Range
    <3>7. \A x \in Range(r) : x \in Range(s) /\ x # id
      BY <2>3, <3>2, <3>3, <3>4, <3>6
    <3>8. \A x \in Range(s) : x # id => x \in Range(r)
      BY <2>3, <3>2, <3>3, <3>6
    <3> QED
      BY <3>5, <3>7, <3>8
  <2> QED
    BY <2>5, <2>6, <2>9, <2>10 DEF n, s
<1> QED
  BY <1>2, <1>3

-----------------------------------------------------------------------------
(* Which tracks there are.                                                 *)

LEMMA HasTrackIs ==
    ASSUME NEW mv, Keyed(mv), NEW id
    PROVE  HasTrack(mv, id) <=>
             \E i \in 1..Len(mv.tracks) : \E j \in 1..Len(mv.traks) :
                mv.traks[j].key = mv.tracks[i] /\ mv.traks[j].id = id
<1> DEFINE I == {i \in 1..Len(mv.tracks) : TrakOf(mv, mv.tracks[i]).id = id}
<1>1. HasTrack(mv, id) <=> I # {}
  <2>1. CASE I = {}
    BY <2>1 DEF HasTrack, TrackIndex, SelectInSeq
  <2>2. CASE I # {}
    <3>1. TrackIndex(mv, id) = Min(I)
      BY <2>2 DEF TrackIndex, SelectInSeq
    <3>2. I \subseteq Nat /\ \A i \in I : i # 0
      BY TraksDomain DEF Keyed
    <3> HIDE DEF I
    <3>3. Min(I) \in I
      BY <2>2, <3>2, SmallestOf
    <3> QED
      BY <2>2, <3>1, <3>2, <3>3 DEF HasTrack
  <2> QED
    BY <2>1, <2>2
<1>2. ASSUME I # {}
      PROVE  \E i \in 1..Len(mv.tracks) : \E j \in 1..Len(mv.traks) :
                mv.traks[j].key = mv.tracks[i] /\ mv.traks[j].id = id
  <2>1. PICK i \in 1..Len(mv.tracks) : TrakOf(mv, mv.tracks[i]).id = id
    BY <1>2
  <2>2. PICK j \in 1..Len(mv.traks) :
          mv.traks[j].key = mv.tracks[i] /\ TrakOf(mv, mv.tracks[i]) = mv.traks[j]
    BY TrakOfTrack
  <2> QED
    BY <2>1, <2>2
<1>3. ASSUME NEW i \in 1..Len(mv.tracks), NEW j \in 1..Len(mv.traks),
             mv.traks[j].key = mv.tracks[i], mv.traks[j].id = id
      PROVE  I # {}
  <2>1. PICK k \in 1..Len(mv.traks) :
          mv.traks[k].key = mv.tracks[i] /\ TrakOf(mv, mv.tracks[i]) = mv.traks[k]
    BY TrakOfTrack
  <2>2. k = j
    BY <1>3, <2>1 DEF Keyed
  <2>3. i \in I
    BY <1>3, <2>1, <2>2
  <2> QED
    BY <2>3
<1> HIDE DEF I
<1> QED
  BY <1>1, <1>2, <1>3

LEMMA SameTracks ==
    ASSUME NEW mv, Keyed(mv), NEW n, SameNames(mv, n), NEW id
    PROVE  HasTrack(n, id) <=> HasTrack(mv, id)
<1>1. Keyed(n)
  BY KeyedKept
<1>2. /\ Len(n.traks) = Len(mv.traks) /\ n.tracks = mv.tracks
      /\ \A i \in 1..Len(mv.traks) : /\ n.traks[i].key = mv.traks[i].key
                                     /\ n.traks[i].id = mv.traks[i].id
  BY DEF SameNames
<1>3. HasTrack(mv, id) <=>
        \E i \in 1..Len(mv.tracks) : \E j \in 1..Len(mv.traks) :
           mv.traks[j].key = mv.tracks[i] /\ mv.traks[j].id = id
  BY HasTrackIs
<1>4. HasTrack(n, id) <=>
        \E i \in 1..Len(n.tracks) : \E j \in 1..Len(n.traks) :
           n.traks[j].key = n.tracks[i] /\ n.traks[j].id = id
  BY <1>1, HasTrackIs
<1>5. ASSUME HasTrack(mv, id) PROVE HasTrack(n, id)
  <2>1. PICK i \in 1..Len(mv.tracks), j \in 1..Len(mv.traks) :
          mv.traks[j].key = mv.tracks[i] /\ mv.traks[j].id = id
    BY <1>3, <1>5
  <2>2. i \in 1..Len(n.tracks) /\ j \in 1..Len(n.traks)
    BY <1>2
  <2>3. n.traks[j].key = n.tracks[i] /\ n.traks[j].id = id
    BY <1>2, <2>1
  <2> QED
    BY <1>4, <2>2, <2>3
<1>6. ASSUME HasTrack(n, id) PROVE HasTrack(mv, id)
  <2>1. PICK i \in 1..Len(n.tracks), j \in 1..Len(n.traks) :
          n.traks[j].key = n.tracks[i] /\ n.traks[j].id = id
    BY <1>4, <1>6
  <2>2. i \in 1..Len(mv.tracks) /\ j \in 1..Len(mv.traks)
    BY <1>2
  <2>3. mv.traks[j].key = mv.tracks[i] /\ mv.traks[j].id = id
    BY <1>2, <2>1, <2>2
  <2> QED
    BY <1>3, <2>2, <2>3
<1> QED
  BY <1>5, <1>6

\* Two trak boxes have the id x, and a track is one of them; or one has none.
ClashAt(mv, x) ==
    \E j \in 1..Len(mv.traks) :
        mv.traks[j].id = x /\ (x = 0 \/ (mv.traks[j].kind = "broken" /\ HasTrack(mv, x)))

LEMMA ClashKept ==
    ASSUME NEW mv, Keyed(mv), NEW n, SameNames(mv, n), NEW x, ClashAt(mv, x)
    PROVE  ClashAt(n, x)
<1>1. HasTrack(n, x) <=> HasTrack(mv, x)
  BY SameTracks
<1>2. Len(n.traks) = Len(mv.traks)
      /\ \A i \in 1..Len(mv.traks) : /\ n.traks[i].kind = mv.traks[i].kind
                                     /\ n.traks[i].id = mv.traks[i].id
  BY DEF SameNames
<1> QED
  BY <1>1, <1>2 DEF ClashAt

-----------------------------------------------------------------------------
(* Movies whose references are in order.                                   *)

\* Only the trak box of the object descriptor track refers to others, to each
\* once, as does the iods box; and they are tracks.
Referred(mv) ==
    /\ \A j \in 1..Len(mv.traks) : mv.traks[j].kind = "odsm" <=> mv.traks[j].id = mv.od
    /\ mv.od # 0 => HasTrack(mv, mv.od)
    /\ \A j \in 1..Len(mv.traks) :
          /\ Mpod(mv.traks[j]) # << >> => mv.traks[j].kind = "odsm"
          /\ IsInjective(Mpod(mv.traks[j]))
          /\ \A r \in Range(Mpod(mv.traks[j])) : HasTrack(mv, r)
    /\ IsInjective(mv.iods.ids)
    /\ \A r \in Range(mv.iods.ids) : HasTrack(mv, r)

Good(mv) == Named(mv) /\ Referred(mv)

LEMMA EmptyRange == Range(<< >>) = {} /\ IsInjective(<< >>)
BY DEF Range, IsInjective

LEMMA NoTracksAreGood ==
    ASSUME NEW iods
    PROVE  Good(NoTracks(iods))
<1> DEFINE n == NoTracks(iods)
<1>1. n.traks = << >> /\ n.od = 0 /\ n.iods.ids = << >>
  BY DEF NoTracks
<1> HIDE DEF n
<1>2. Referred(n)
  BY <1>1, EmptyRange, EmptyIsSeq DEF Referred
<1> QED
  BY <1>2, NoTracksAreNamed DEF Good, n

\* References may be dropped.
LEMMA GoodKept ==
    ASSUME NEW mv, Good(mv), NEW n, SameNames(mv, n), n.od = mv.od, n.iods.ids = mv.iods.ids,
           \A j \in 1..Len(mv.traks) : Mpod(n.traks[j]) \in {Mpod(mv.traks[j]), << >>}
    PROVE  Good(n)
<1>1. Named(mv) /\ Keyed(mv) /\ Named(n)
  BY NamedIsKeyed, NamedKept DEF Good
<1>2. \A x : HasTrack(n, x) <=> HasTrack(mv, x)
  BY <1>1, SameTracks
<1>3. /\ Len(n.traks) = Len(mv.traks)
      /\ \A i \in 1..Len(mv.traks) : /\ n.traks[i].kind = mv.traks[i].kind
                                     /\ n.traks[i].id = mv.traks[i].id
  BY DEF SameNames
<1>4. ASSUME NEW j \in 1..Len(mv.traks)
      PROVE  /\ Mpod(n.traks[j]) # << >> => n.traks[j].kind = "odsm"
             /\ IsInjective(Mpod(n.traks[j]))
             /\ \A r \in Range(Mpod(n.traks[j])) : HasTrack(n, r)
  <2>1. /\ Mpod(mv.traks[j]) # << >> => mv.traks[j].kind = "odsm"
        /\ IsInjective(Mpod(mv.traks[j]))
        /\ \A r \in Range(Mpod(mv.traks[j])) : HasTrack(mv, r)
    BY DEF Good, Referred
  <2>2. CASE Mpod(n.traks[j]) = << >>
    BY <2>2, EmptyRange
  <2>3. CASE Mpod(n.traks[j]) = Mpod(mv.traks[j])
    BY <1>2, <1>3, <2>1, <2>3
  <2> QED
    BY <2>2, <2>3
<1>5. /\ \A j \in 1..Len(mv.traks) : mv.traks[j].kind = "odsm" <=> mv.traks[j].id = mv.od
      /\ mv.od # 0 => HasTrack(mv, mv.od)
      /\ IsInjective(mv.iods.ids)
      /\ \A r \in Range(mv.iods.ids) : HasTrack(mv, r)
  BY DEF Good, Referred
<1>6. Referred(n)
  BY <1>2, <1>3, <1>4, <1>5 DEF Referred
<1> QED
  BY <1>1, <1>6 DEF Good

\* An element behind a list.
LEMMA Behind ==
    ASSUME NEW s \in Seq(Nat), NEW x \in Nat
    PROVE  /\ Append(s, x) \in Seq(Nat) /\ Range(Append(s, x)) = Range(s) \cup {x}
           /\ IsInjective(s) /\ x \notin Range(s) => IsInjective(Append(s, x))
<1> DEFINE a == Append(s, x)
<1>1. PICK n \in Nat : n = Len(s)
  BY LenProperties
<1>2. /\ DOMAIN s = 1..n /\ a \in Seq(Nat) /\ Len(a) = n + 1 /\ a[n + 1] = x
      /\ \A i \in 1..n : a[i] = s[i]
  BY <1>1, LenProperties, AppendProperties
<1>3. DOMAIN a = 1 .. n + 1
  BY <1>2, LenProperties
<1> HIDE DEF a
<1>4. \A i : i \in 1 .. n + 1 <=> i \in 1..n \/ i = n + 1
  OBVIOUS
<1>5. ~(n + 1 \in 1..n)
  OBVIOUS
<1>6. Range(a) = {a[i] : i \in 1 .. n + 1} /\ Range(s) = {s[i] : i \in 1..n}
  BY <1>2, <1>3 DEF Range
<1>7. Range(a) = Range(s) \cup {x}
  <2>1. \A y \in Range(a) : y \in Range(s) \cup {x}
    BY <1>2, <1>4, <1>6
  <2>2. \A y \in Range(s) \cup {x} : y \in Range(a)
    BY <1>2, <1>4, <1>6
  <2> QED
    BY <2>1, <2>2
<1>8. ASSUME IsInjective(s), x \notin Range(s) PROVE IsInjective(a)
  <2>1. \A i, j \in 1..n : s[i] = s[j] => i = j
    BY <1>2, <1>8 DEF IsInjective
  <2>2. \A i \in 1..n : s[i] # x
    BY <1>6, <1>8
  <2>3. \A i, j \in 1 .. n + 1 : a[i] = a[j] => i = j
    BY <1>2, <1>4, <2>1, <2>2
  <2> QED
    BY <1>3, <2>3 DEF IsInjective
<1> QED
  BY <1>2, <1>7, <1>8 DEF a

LEMMA GoodOdAdded ==
    ASSUME NEW mv, Good(mv), NEW id \in Nat, HasTrack(mv, id),
           \A j \in 1..Len(mv.traks) : id \notin Range(Mpod(mv.traks[j]))
    PROVE  Good(AddTrackToOd(mv, id))
<1> DEFINE n == AddTrackToOd(mv, id)
<1>1. Named(mv) /\ Keyed(mv)
  BY NamedIsKeyed DEF Good
<1>2. /\ SameNames(mv, n) /\ n.od = mv.od /\ n.iods = mv.iods
      /\ \A j \in 1..Len(mv.traks) :
            \/ Mpod(n.traks[j]) = Mpod(mv.traks[j])
            \/ /\ mv.od # 0 /\ j = TrakIndex(mv, mv.od)
               /\ Mpod(n.traks[j]) = Append(Mpod(mv.traks[j]), id)
  BY <1>1, OdChanged
<1> HIDE DEF n
<1>3. Named(n)
  BY <1>1, <1>2, NamedKept
<1>4. \A x : HasTrack(n, x) <=> HasTrack(mv, x)
  BY <1>1, <1>2, SameTracks
<1>5. /\ Len(n.traks) = Len(mv.traks)
      /\ \A i \in 1..Len(mv.traks) : /\ n.traks[i].kind = mv.traks[i].kind
                                     /\ n.traks[i].id = mv.traks[i].id
  BY <1>2 DEF SameNames
<1>6. /\ \A j \in 1..Len(mv.traks) : mv.traks[j].kind = "odsm" <=> mv.traks[j].id = mv.od
      /\ mv.od # 0 => HasTrack(mv, mv.od)
      /\ IsInjective(mv.iods.ids)
      /\ \A r \in Range(mv.iods.ids) : HasTrack(mv, r)
  BY DEF Good, Referred
<1>7. ASSUME NEW j \in 1..Len(mv.traks)
      PROVE  /\ Mpod(n.traks[j]) # << >> => n.traks[j].kind = "odsm"
             /\ IsInjective(Mpod(n.traks[j]))
             /\ \A r \in Range(Mpod(n.traks[j])) : HasTrack(n, r)
  <2>1. /\ Mpod(mv.traks[j]) # << >> => mv.traks[j].kind = "odsm"
        /\ IsInjective(Mpod(mv.traks[j]))
        /\ \A r \in Range(Mpod(mv.traks[j])) : HasTrack(mv, r)
        /\ Mpod(mv.traks[j]) \in Seq(Nat)
    BY <1>1 DEF Good, Referred, Keyed, Shape, Listed, IsTrak
  <2>2. CASE Mpod(n.traks[j]) = Mpod(mv.traks[j])
    BY <1>4, <1>5, <2>1, <2>2
  <2>3. CASE /\ mv.od # 0 /\ j = TrakIndex(mv, mv.od)
             /\ Mpod(n.traks[j]) = Append(Mpod(mv.traks[j]), id)
    <3>1. j # 0
      BY <1>1, TraksDomain DEF Keyed
    <3>2. mv.traks[j].id = mv.od
      BY <1>1, <2>3, <3>1, TrakIndexFound
    <3>3. n.traks[j].kind = "odsm"
      BY <1>5, <1>6, <3>2
    <3>4. /\ IsInjective(Mpod(n.traks[j]))
          /\ Range(Mpod(n.traks[j])) = Range(Mpod(mv.traks[j])) \cup {id}
      BY <2>1, <2>3, Behind
    <3> QED
      BY <1>4, <2>1, <3>3, <3>4
  <2> QED
    BY <1>2, <2>2, <2>3
<1>8. Referred(n)
  BY <1>2, <1>4, <1>5, <1>6, <1>7 DEF Referred
<1> QED
  BY <1>3, <1>8 DEF Good, n

LEMMA GoodIodAdded ==
    ASSUME NEW mv, Good(mv), NEW id \in Nat, HasTrack(mv, id), id \notin Range(mv.iods.ids)
    PROVE  Good(AddTrackToIod(mv, id))
<1> DEFINE n == AddTrackToIod(mv, id)
<1>1. Named(mv) /\ Keyed(mv)
  BY NamedIsKeyed DEF Good
<1>2. /\ SameNames(mv, n) /\ n.od = mv.od /\ n.traks = mv.traks
      /\ n.iods.ids = mv.iods.ids \/ n.iods.ids = Append(mv.iods.ids, id)
  BY <1>1, IodAdded
<1> HIDE DEF n
<1>3. Named(n)
  BY <1>1, <1>2, NamedKept
<1>4. \A x : HasTrack(n, x) <=> HasTrack(mv, x)
  BY <1>1, <1>2, SameTracks
<1>5. /\ IsInjective(mv.iods.ids) /\ \A r \in Range(mv.iods.ids) : HasTrack(mv, r)
      /\ mv.iods.ids \in Seq(Nat)
  BY <1>1 DEF Good, Referred, Keyed, Shape, Rest
<1>6. IsInjective(n.iods.ids) /\ \A r \in Range(n.iods.ids) : HasTrack(n, r)
  <2>1. CASE n.iods.ids = mv.iods.ids
    BY <1>4, <1>5, <2>1
  <2>2. CASE n.iods.ids = Append(mv.iods.ids, id)
    BY <1>4, <1>5, <2>2, Behind
  <2> QED
    BY <1>2, <2>1, <2>2
<1>7. Referred(n)
  BY <1>2, <1>4, <1>6 DEF Good, Referred
<1> QED
  BY <1>3, <1>7 DEF Good, n

\* The key of a new trak box is the key of no other.
LEMMA NewKeyIsFresh ==
    ASSUME NEW mv, Keyed(mv), NEW id, NEW kind
    PROVE  /\ NewTrak(mv, id, kind).key \in Nat
           /\ \A i \in 1..Len(mv.traks) : mv.traks[i].key # NewTrak(mv, id, kind).key
<1> DEFINE n == Len(mv.traks)
           f == [i \in 1..n |-> mv.traks[i].key]
           K == {t.key : t \in Range(mv.traks)} \cup {0}
<1>1. n \in Nat /\ DOMAIN mv.traks = 1..n
  BY TraksDomain DEF Keyed
<1>2. f \in [1..n -> Nat]
  BY DEF Keyed, Shape, Listed, IsTrak
<1>3. PICK m \in Nat : \A i \in 1..n : f[i] <= m
  <2> HIDE DEF f, n
  <2> QED
    BY <1>1, <1>2, BoundOf
<1>4. K = {f[i] : i \in 1..n} \cup {0}
  BY <1>1 DEF Range
<1>5. K \subseteq Nat /\ K # {} /\ \A y \in K : y <= m
  <2>1. \A i \in 1..n : f[i] \in Nat
    BY <1>2
  <2> HIDE DEF f, K, n
  <2>2. 0 <= m
    OBVIOUS
  <2> QED
    BY <1>3, <1>4, <2>1, <2>2
<1> HIDE DEF K
<1>6. Max(K) \in K /\ \A y \in K : Max(K) >= y
  BY <1>5, LargestOf
<1>7. NewTrak(mv, id, kind).key = Max(K) + 1
  BY DEF NewTrak, K
<1>8. \A i \in 1..n : mv.traks[i].key \in K
  BY <1>4
<1>9. PICK a : a = Max(K) /\ a \in Nat /\ \A y \in K : y \in Nat /\ a >= y
  BY <1>5, <1>6
<1>10. a + 1 \in Nat /\ \A y \in K : y # a + 1
  BY <1>9
<1> QED
  BY <1>7, <1>8, <1>9, <1>10

-----------------------------------------------------------------------------
(* Adding.                                                                 *)

\* n has one more trak box than mv, t, and perhaps its track.
TrakAdded(mv, n, t) ==
    /\ Keyed(n) /\ Len(n.traks) = Len(mv.traks) + 1 /\ n.traks[Len(mv.traks) + 1] = t
    /\ \A i \in 1..Len(mv.traks) : n.traks[i] = mv.traks[i]
    /\ \A i \in 1..Len(mv.tracks) : i \in 1..Len(n.tracks) /\ n.tracks[i] = mv.tracks[i]

LEMMA TrakIsAdded ==
    ASSUME NEW mv, Keyed(mv), NEW t, IsTrak(t),
           \A i \in 1..Len(mv.traks) : mv.traks[i].key # t.key,
           NEW n, MovieFields \subseteq DOMAIN n, n.traks = Append(mv.traks, t),
           n.ids \in Seq(Nat), n.next \in 1 .. MaxTrackId + 1, Rest(n),
           n.tracks = mv.tracks \/ n.tracks = Append(mv.tracks, t.key)
    PROVE  /\ TrakAdded(mv, n, t)
           /\ n.tracks = mv.tracks => Len(n.tracks) = Len(mv.tracks)
           /\ n.tracks = Append(mv.tracks, t.key) =>
                 Len(n.tracks) = Len(mv.tracks) + 1 /\ n.tracks[Len(mv.tracks) + 1] = t.key
<1> DEFINE c == Len(mv.traks)
           d == Len(mv.tracks)
<1>1. /\ IsSeq(n.traks) /\ Len(n.traks) = c + 1 /\ c \in Nat
      /\ \A i \in 1..c : n.traks[i] = mv.traks[i]
      /\ n.traks[c + 1] = t
  BY AppendToSeq DEF Keyed, Shape, Listed
<1>2. t.key \in Nat /\ mv.tracks \in Seq(Nat) /\ d \in Nat
  BY LenProperties DEF Keyed, Shape, Listed, IsTrak
<1>3. /\ n.tracks \in Seq(Nat) /\ d \in Nat
      /\ \A i \in 1..d : i \in 1..Len(n.tracks) /\ n.tracks[i] = mv.tracks[i]
      /\ \A i \in 1..Len(n.tracks) : i \in 1..d \/ (i = d + 1 /\ n.tracks[i] = t.key)
      /\ n.tracks = Append(mv.tracks, t.key) => Len(n.tracks) = d + 1 /\ n.tracks[d + 1] = t.key
  <2>1. CASE n.tracks = mv.tracks /\ ~(n.tracks = Append(mv.tracks, t.key))
    BY <1>2, <2>1
  <2>2. CASE n.tracks = Append(mv.tracks, t.key)
    <3>1. PICK s : s = Append(mv.tracks, t.key)
      OBVIOUS
    <3>2. s \in Seq(Nat) /\ Len(s) = d + 1 /\ s[d + 1] = t.key /\ \A i \in 1..d : s[i] = mv.tracks[i]
      BY <1>2, <3>1, AppendProperties
    <3> HIDE DEF d
    <3> QED
      BY <1>2, <2>2, <3>1, <3>2
  <2> QED
    BY <2>1, <2>2
<1>4. Listed(n)
  <2>1. \A i \in 1 .. c + 1 : i \in 1..c \/ i = c + 1
    BY <1>1
  <2>2. \A i \in 1..c : IsTrak(mv.traks[i])
    BY DEF Keyed, Shape, Listed
  <2>3. \A i \in 1..Len(n.traks) : IsTrak(n.traks[i])
    BY <1>1, <2>1, <2>2
  <2> QED
    BY <1>1, <1>3, <2>3 DEF Listed
<1>5. \A i, j \in 1..Len(n.traks) : n.traks[i].key = n.traks[j].key => i = j
  <2>1. \A i, j \in 1..c : mv.traks[i].key = mv.traks[j].key => i = j
    BY DEF Keyed
  <2>2. \A i \in 1 .. c + 1 : i \in 1..c \/ i = c + 1
    BY <1>1
  <2> QED
    BY <1>1, <2>1, <2>2
<1>6. \A i \in 1..Len(n.tracks) : \E j \in 1..Len(n.traks) : n.traks[j].key = n.tracks[i]
  <2> SUFFICES ASSUME NEW i \in 1..Len(n.tracks)
               PROVE  \E j \in 1..Len(n.traks) : n.traks[j].key = n.tracks[i]
    OBVIOUS
  <2>1. CASE i \in 1..d
    <3>1. PICK j \in 1..c : mv.traks[j].key = mv.tracks[i]
      BY <2>1 DEF Keyed
    <3>2. j \in 1..Len(n.traks)
      BY <1>1
    <3>3. n.traks[j] = mv.traks[j] /\ n.tracks[i] = mv.tracks[i]
      BY <1>1, <1>3, <2>1
    <3> QED
      BY <3>1, <3>2, <3>3
  <2>2. CASE i = d + 1 /\ n.tracks[i] = t.key
    <3>1. c + 1 \in 1..Len(n.traks)
      BY <1>1
    <3> QED
      BY <1>1, <2>2, <3>1
  <2> QED
    BY <1>3, <2>1, <2>2
<1>7. \A i, j \in 1..Len(n.tracks) : n.tracks[i] = n.tracks[j] => i = j
  <2>1. \A i, j \in 1..d : mv.tracks[i] = mv.tracks[j] => i = j
    BY DEF Keyed
  <2>2. \A i \in 1..d : \E j \in 1..c : mv.traks[j].key = mv.tracks[i]
    BY DEF Keyed
  <2>3. \A i \in 1..d : mv.tracks[i] # t.key
    BY <2>2
  <2> QED
    BY <1>3, <2>1, <2>3
<1>8. Keyed(n)
  BY <1>4, <1>5, <1>6, <1>7 DEF Keyed, Shape
<1> QED
  BY <1>1, <1>3, <1>8 DEF TrakAdded

LEMMA AddedClashKept ==
    ASSUME NEW mv, Keyed(mv), NEW t, NEW n, TrakAdded(mv, n, t), NEW x, ClashAt(mv, x)
    PROVE  ClashAt(n, x)
<1>1. /\ Keyed(n) /\ Len(n.traks) = Len(mv.traks) + 1 /\ Len(mv.traks) \in Nat
      /\ \A i \in 1..Len(mv.traks) : n.traks[i] = mv.traks[i]
      /\ \A i \in 1..Len(mv.tracks) : i \in 1..Len(n.tracks) /\ n.tracks[i] = mv.tracks[i]
  BY TraksDomain DEF TrakAdded, Keyed
<1>2. \A j \in 1..Len(mv.traks) : j \in 1..Len(n.traks)
  BY <1>1
<1>3. HasTrack(mv, x) => HasTrack(n, x)
  <2>1. SUFFICES ASSUME HasTrack(mv, x) PROVE HasTrack(n, x)
    OBVIOUS
  <2>2. PICK i \in 1..Len(mv.tracks), j \in 1..Len(mv.traks) :
          mv.traks[j].key = mv.tracks[i] /\ mv.traks[j].id = x
    BY <2>1, HasTrackIs
  <2>3. /\ i \in 1..Len(n.tracks) /\ j \in 1..Len(n.traks)
        /\ n.traks[j].key = n.tracks[i] /\ n.traks[j].id = x
    BY <1>1, <1>2, <2>2
  <2> QED
    BY <1>1, <2>3, HasTrackIs
<1>4. PICK j \in 1..Len(mv.traks) :
        mv.traks[j].id = x /\ (x = 0 \/ (mv.traks[j].kind = "broken" /\ HasTrack(mv, x)))
  BY DEF ClashAt
<1>5. j \in 1..Len(n.traks) /\ n.traks[j] = mv.traks[j]
  BY <1>1, <1>2
<1> QED
  BY <1>3, <1>4, <1>5 DEF ClashAt

\* n is mv with one more track, of a kind, under an id no track has.
TrackAdded(mv, n, id, kind) ==
    /\ \E t : TrakAdded(mv, n, t) /\ t.id = id /\ t.kind = kind /\ Mpod(t) = << >>
              /\ Len(n.tracks) = Len(mv.tracks) + 1 /\ n.tracks[Len(mv.tracks) + 1] = t.key
    /\ id \in Nat /\ id # 0 /\ ~HasTrack(mv, id)
    /\ Len(n.ids) = Len(mv.ids) + 1 /\ n.ids[Len(mv.ids) + 1] = id
    /\ \A i \in 1..Len(mv.ids) : n.ids[i] = mv.ids[i]
    /\ n.od = mv.od /\ n.iods = mv.iods /\ n.ok = mv.ok

\* AddTrack, when there is an id to give and when there is none.
LEMMA AddTrackAdds ==
    ASSUME NEW mv, Keyed(mv), NEW kind, NEW n, n = AddTrack(mv, kind)
    PROVE  /\ \E t : TrakAdded(mv, n, t)
           /\ AllocTrackId(mv) # 0 =>
                TrackAdded(mv, n, AllocTrackId(mv), kind) /\ Newest(n) = AllocTrackId(mv)
           /\ AllocTrackId(mv) = 0 => ClashAt(n, 0) /\ ~n.ok
<1>1. PICK id \in Nat : /\ id = AllocTrackId(mv) /\ id \in 0..MaxTrackId
                        /\ id # 0 => ~HasTrack(mv, id)
  <2>1. MaxTrackId \in Nat
    BY TrackListAssumption
  <2> QED
    BY <2>1, AllocTrackIdIsUnused
<1> DEFINE t == NewTrak(mv, id, IF id = 0 THEN "" ELSE kind)
<1>2. /\ IsTrak(t) /\ t.id = id /\ Mpod(t) = << >> /\ t.kind = (IF id = 0 THEN "" ELSE kind)
      /\ \A i \in 1..Len(mv.traks) : mv.traks[i].key # t.key
  <2>1. /\ t.key \in Nat /\ \A i \in 1..Len(mv.traks) : mv.traks[i].key # t.key
    BY NewKeyIsFresh
  <2>2. /\ TrakFields = DOMAIN t /\ t.id = id /\ t.kind = (IF id = 0 THEN "" ELSE kind)
        /\ t.refs = << >> /\ t.samples = << >>
    BY DEF NewTrak, TrakFields, NoRefs
  <2> HIDE DEF t
  <2>3. DOMAIN << >> = {}
    OBVIOUS
  <2>4. Mpod(t) = << >>
    BY <2>2, <2>3 DEF Mpod, MpodOf
  <2> QED
    BY <2>1, <2>2, <2>4, EmptyIsSeq DEF IsTrak
<1>3. /\ DOMAIN n = DOMAIN mv /\ MovieFields \subseteq DOMAIN mv
      /\ n.traks = Append(mv.traks, t) /\ n.od = mv.od
      /\ n.iods = mv.iods /\ n.chpl = mv.chpl /\ n.items = mv.items /\ n.brands = mv.brands
      /\ id = 0 => n.ids = mv.ids /\ n.tracks = mv.tracks /\ n.next = mv.next /\ ~n.ok
      /\ id # 0 => /\ n.ids = Append(mv.ids, id) /\ n.tracks = Append(mv.tracks, t.key)
                   /\ n.next = NextTrackId(mv, id) /\ n.ok = mv.ok
  <2>1. MovieFields \subseteq DOMAIN mv
    BY DEF Keyed, Shape, Listed
  <2>2. CASE id = 0
    <3>1. n = [[mv EXCEPT !.traks = Append(@, t)] EXCEPT !.ok = FALSE]
      BY <1>1, <2>2 DEF AddTrack, Throw
    <3> HIDE DEF t
    <3> QED
      BY <2>1, <2>2, <3>1 DEF MovieFields
  <2>3. CASE id # 0
    <3>1. n = [mv EXCEPT !.traks = Append(@, t), !.ids = Append(@, id),
                         !.tracks = Append(@, t.key), !.next = NextTrackId(mv, id)]
      BY <1>1, <2>3 DEF AddTrack
    <3> HIDE DEF t
    <3> QED
      BY <2>1, <2>3, <3>1 DEF MovieFields
  <2> QED
    BY <2>2, <2>3
<1> HIDE DEF t
<1>4. Rest(n)
  BY <1>3, RestKept DEF Keyed, Shape
<1>5. n.next \in 1 .. MaxTrackId + 1
  BY <1>1, <1>3, TrackListAssumption DEF NextTrackId, Keyed, Shape, Listed
<1>6. /\ n.ids \in Seq(Nat)
      /\ id # 0 => /\ Len(n.ids) = Len(mv.ids) + 1 /\ n.ids[Len(mv.ids) + 1] = id
                   /\ \A i \in 1..Len(mv.ids) : n.ids[i] = mv.ids[i]
  <2>1. mv.ids \in Seq(Nat)
    BY DEF Keyed, Shape, Listed
  <2>2. PICK s : s = Append(mv.ids, id)
    OBVIOUS
  <2>3. /\ s \in Seq(Nat) /\ Len(s) = Len(mv.ids) + 1 /\ s[Len(mv.ids) + 1] = id
        /\ \A i \in 1..Len(mv.ids) : s[i] = mv.ids[i]
    BY <2>1, <2>2, AppendProperties
  <2> QED
    BY <1>3, <2>1, <2>2, <2>3
<1>7. /\ TrakAdded(mv, n, t)
      /\ n.tracks = Append(mv.tracks, t.key) =>
            Len(n.tracks) = Len(mv.tracks) + 1 /\ n.tracks[Len(mv.tracks) + 1] = t.key
  <2>1. n.tracks = mv.tracks \/ n.tracks = Append(mv.tracks, t.key)
    BY <1>3
  <2>2. MovieFields \subseteq DOMAIN n /\ n.traks = Append(mv.traks, t)
    BY <1>3
  <2>3. IsTrak(t) /\ \A i \in 1..Len(mv.traks) : mv.traks[i].key # t.key
    BY <1>2
  <2> QED
    BY <1>4, <1>5, <1>6, <2>1, <2>2, <2>3, TrakIsAdded
<1>8. CASE id = 0
  <2>1. /\ Len(n.traks) = Len(mv.traks) + 1 /\ n.traks[Len(mv.traks) + 1] = t
        /\ Len(mv.traks) \in Nat
    BY <1>7, TraksDomain DEF TrakAdded, Keyed
  <2>2. Len(mv.traks) + 1 \in 1..Len(n.traks)
    BY <2>1
  <2>3. ClashAt(n, 0)
    BY <1>2, <1>8, <2>1, <2>2 DEF ClashAt
  <2> QED
    BY <1>1, <1>3, <1>7, <1>8, <2>3
<1>9. CASE id # 0
  <2>1. Newest(n) = id
    BY <1>6, <1>9 DEF Newest, Last
  <2>2. TrackAdded(mv, n, id, kind)
    BY <1>1, <1>2, <1>3, <1>6, <1>7, <1>9 DEF TrackAdded
  <2> QED
    BY <1>1, <1>7, <1>9, <2>1, <2>2
<1> QED
  BY <1>8, <1>9

LEMMA HasTrackAdded ==
    ASSUME NEW mv, Keyed(mv), NEW n, NEW id, NEW kind, TrackAdded(mv, n, id, kind), NEW x
    PROVE  HasTrack(n, x) <=> (HasTrack(mv, x) \/ x = id)
<1> DEFINE c == Len(mv.traks)
           d == Len(mv.tracks)
<1>1. PICK t : /\ TrakAdded(mv, n, t) /\ t.id = id
               /\ Len(n.tracks) = d + 1 /\ n.tracks[d + 1] = t.key
  BY DEF TrackAdded
<1>2. /\ Keyed(n) /\ Len(n.traks) = c + 1 /\ n.traks[c + 1] = t /\ c \in Nat /\ d \in Nat
      /\ \A i \in 1..c : n.traks[i] = mv.traks[i]
      /\ \A i \in 1..d : n.tracks[i] = mv.tracks[i]
  BY <1>1, TraksDomain DEF TrakAdded, Keyed
<1>3. HasTrack(mv, x) <=> \E i \in 1..d : \E j \in 1..c :
        mv.traks[j].key = mv.tracks[i] /\ mv.traks[j].id = x
  BY HasTrackIs
<1>4. HasTrack(n, x) <=> \E i \in 1..Len(n.tracks) : \E j \in 1..Len(n.traks) :
        n.traks[j].key = n.tracks[i] /\ n.traks[j].id = x
  BY <1>2, HasTrackIs
<1> HIDE DEF c, d
<1>5. ASSUME HasTrack(mv, x) PROVE HasTrack(n, x)
  <2>1. PICK i \in 1..d, j \in 1..c : mv.traks[j].key = mv.tracks[i] /\ mv.traks[j].id = x
    BY <1>3, <1>5
  <2>2. i \in 1..Len(n.tracks) /\ j \in 1..Len(n.traks)
    BY <1>1, <1>2
  <2>3. n.traks[j].key = n.tracks[i] /\ n.traks[j].id = x
    BY <1>2, <2>1
  <2> QED
    BY <1>4, <2>2, <2>3
<1>6. ASSUME x = id PROVE HasTrack(n, x)
  <2>1. d + 1 \in 1..Len(n.tracks) /\ c + 1 \in 1..Len(n.traks)
    BY <1>1, <1>2
  <2>2. n.traks[c + 1].key = n.tracks[d + 1] /\ n.traks[c + 1].id = x
    BY <1>1, <1>2, <1>6
  <2> QED
    BY <1>4, <2>1, <2>2
<1>7. ASSUME HasTrack(n, x), x # id PROVE HasTrack(mv, x)
  <2>1. PICK i \in 1..Len(n.tracks), j \in 1..Len(n.traks) :
          n.traks[j].key = n.tracks[i] /\ n.traks[j].id = x
    BY <1>4, <1>7
  <2>2. j # c + 1
    BY <1>1, <1>2, <1>7, <2>1
  <2>3. i # d + 1
    <3>1. c + 1 \in 1..Len(n.traks)
      BY <1>2
    <3>2. i = d + 1 => n.traks[j].key = n.traks[c + 1].key
      BY <1>1, <1>2, <2>1
    <3>3. n.traks[j].key = n.traks[c + 1].key => j = c + 1
      BY <1>2, <3>1 DEF Keyed
    <3> QED
      BY <2>2, <3>2, <3>3
  <2>4. i \in 1..d /\ j \in 1..c
    BY <1>1, <1>2, <2>2, <2>3
  <2>5. mv.traks[j].key = mv.tracks[i] /\ mv.traks[j].id = x
    BY <1>2, <2>1, <2>4
  <2> QED
    BY <1>3, <2>4, <2>5
<1> QED
  BY <1>5, <1>6, <1>7

LEMMA AddedIsNamed ==
    ASSUME NEW mv, Named(mv), NEW n, NEW id, NEW kind, kind # "broken",
           TrackAdded(mv, n, id, kind)
    PROVE  /\ Named(n) \/ ClashAt(n, id)
           /\ \A j \in 1..Len(n.traks) : n.traks[j].id = id => n.traks[j].kind \in {"broken", kind}
<1> DEFINE c == Len(mv.traks)
           d == Len(mv.tracks)
<1>1. PICK t : /\ TrakAdded(mv, n, t) /\ t.id = id /\ t.kind = kind
               /\ Len(n.tracks) = d + 1 /\ n.tracks[d + 1] = t.key
  BY DEF TrackAdded
<1>2. /\ Keyed(n) /\ Keyed(mv) /\ c \in Nat /\ d \in Nat
      /\ Len(n.traks) = c + 1 /\ n.traks[c + 1] = t
      /\ \A i \in 1..c : n.traks[i] = mv.traks[i]
      /\ \A i \in 1..d : n.tracks[i] = mv.tracks[i]
  BY <1>1, TraksDomain DEF TrakAdded, Keyed, Named
<1>3. /\ id # 0 /\ ~HasTrack(mv, id) /\ Len(n.ids) = Len(mv.ids) + 1
      /\ n.ids[Len(mv.ids) + 1] = id /\ \A i \in 1..Len(mv.ids) : n.ids[i] = mv.ids[i]
  BY DEF TrackAdded
<1>4. /\ Len(mv.ids) = c
      /\ \A i \in 1..c : mv.ids[i] = mv.traks[i].id /\ mv.ids[i] # 0
      /\ \A i, j \in 1..c : mv.traks[i].id = mv.traks[j].id => i = j
      /\ \A j \in 1..c : mv.traks[j].kind # "broken" <=>
            \E i \in 1..d : mv.tracks[i] = mv.traks[j].key
  BY DEF Named
<1>5. HasTrack(n, id)
  BY <1>2, HasTrackAdded
<1> HIDE DEF c, d
<1>6. /\ \A i \in 1 .. c + 1 : i \in 1..c \/ i = c + 1
      /\ \A i \in 1 .. d + 1 : i \in 1..d \/ i = d + 1
      /\ \A i \in 1..c : i \in 1 .. c + 1
      /\ \A i \in 1..d : i \in 1 .. d + 1
      /\ d + 1 \in 1 .. d + 1
  BY <1>2
<1>7. \A i \in 1..c : mv.traks[i].id = id => mv.traks[i].kind = "broken"
  <2> SUFFICES ASSUME NEW i \in 1..c, mv.traks[i].id = id, mv.traks[i].kind # "broken"
               PROVE  FALSE
    OBVIOUS
  <2>1. PICK k \in 1..d : mv.tracks[k] = mv.traks[i].key
    BY <1>4
  <2>2. HasTrack(mv, id)
    BY <1>2, <2>1, HasTrackIs DEF c, d
  <2> QED
    BY <1>3, <2>2
<1>8. ASSUME \E i \in 1..c : mv.traks[i].id = id PROVE ClashAt(n, id)
  <2>1. PICK i \in 1..c : mv.traks[i].id = id
    BY <1>8
  <2>2. i \in 1..Len(n.traks) /\ n.traks[i] = mv.traks[i] /\ mv.traks[i].kind = "broken"
    BY <1>2, <1>6, <1>7, <2>1
  <2> QED
    BY <1>5, <2>1, <2>2 DEF ClashAt
<1>9. ASSUME \A i \in 1..c : mv.traks[i].id # id PROVE Named(n)
  <2>1. \A i \in 1..Len(n.traks) : n.ids[i] = n.traks[i].id /\ n.ids[i] # 0
    BY <1>1, <1>2, <1>3, <1>4, <1>6
  <2>2. ASSUME NEW i \in 1..Len(n.traks), NEW j \in 1..Len(n.traks),
               n.traks[i].id = n.traks[j].id
        PROVE  i = j
    <3>1. n.traks[c + 1].id = id
      BY <1>1, <1>2
    <3>2. /\ i \in 1..c \/ i = c + 1
          /\ j \in 1..c \/ j = c + 1
      BY <1>2, <1>6
    <3>3. CASE i \in 1..c /\ j \in 1..c
      <4>1. mv.traks[i].id = mv.traks[j].id
        BY <1>2, <2>2, <3>3
      <4> QED
        BY <1>4, <3>3, <4>1
    <3>4. CASE i \in 1..c /\ j = c + 1
      BY <1>2, <1>9, <2>2, <3>1, <3>4
    <3>5. CASE i = c + 1 /\ j \in 1..c
      BY <1>2, <1>9, <2>2, <3>1, <3>5
    <3>6. CASE i = c + 1 /\ j = c + 1
      BY <3>6
    <3> QED
      BY <3>2, <3>3, <3>4, <3>5, <3>6
  <2>3. ASSUME NEW j \in 1..c, NEW i \in 1 .. d + 1, n.tracks[i] = mv.traks[j].key
        PROVE  i \in 1..d
    <3>1. \A l \in 1..c : n.traks[l].key = mv.traks[l].key /\ l \in 1..Len(n.traks)
      BY <1>2, <1>6
    <3>2. c + 1 \in 1..Len(n.traks) /\ ~(c + 1 \in 1..c) /\ n.traks[c + 1].key = t.key
      BY <1>2
    <3>3. n.traks[c + 1].key # n.traks[j].key
      BY <1>2, <3>1, <3>2 DEF Keyed
    <3>4. i # d + 1
      BY <1>1, <2>3, <3>1, <3>2, <3>3
    <3> QED
      BY <1>6, <3>4
  <2>4. ASSUME NEW j \in 1..Len(n.traks)
        PROVE  n.traks[j].kind # "broken" <=>
                  \E i \in 1..Len(n.tracks) : n.tracks[i] = n.traks[j].key
    <3>1. CASE j = c + 1
      BY <1>1, <1>2, <1>6, <3>1
    <3>2. CASE j \in 1..c
      BY <1>1, <1>2, <1>4, <1>6, <2>3, <3>2
    <3> QED
      BY <1>2, <1>6, <3>1, <3>2
  <2>5. Named(n)
    BY <1>2, <1>3, <1>4, <2>1, <2>2, <2>4 DEF Named
  <2> QED
    BY <2>5
<1>10. \A j \in 1..Len(n.traks) : n.traks[j].id = id => n.traks[j].kind \in {"broken", kind}
  BY <1>1, <1>2, <1>6, <1>7
<1> QED
  BY <1>8, <1>9, <1>10

Unreferred(mv, id) ==
    /\ \A j \in 1..Len(mv.traks) : id \notin Range(Mpod(mv.traks[j]))
    /\ id \notin Range(mv.iods.ids)

\* A new track is referred to by none; the new object descriptor track becomes
\* the one of the movie.
LEMMA AddedIsGood ==
    ASSUME NEW mv, Good(mv), NEW n, NEW id, NEW kind, kind # "broken",
           TrackAdded(mv, n, id, kind), Named(n), kind = "odsm" => mv.od = 0,
           NEW m, SameNames(n, m), m.traks = n.traks, m.iods = n.iods,
           m.od = IF kind = "odsm" THEN id ELSE mv.od
    PROVE  Good(m) /\ Unreferred(m, id) /\ HasTrack(m, id) /\ id \in Nat
<1> DEFINE c == Len(mv.traks)
<1>1. PICK t : TrakAdded(mv, n, t) /\ t.id = id /\ t.kind = kind /\ Mpod(t) = << >>
  BY DEF TrackAdded
<1>2. /\ Keyed(n) /\ Keyed(mv) /\ c \in Nat
      /\ Len(n.traks) = c + 1 /\ n.traks[c + 1] = t
      /\ \A i \in 1..c : n.traks[i] = mv.traks[i]
  BY <1>1, TraksDomain DEF TrakAdded, Keyed, Named, Good
<1>3. id \in Nat /\ id # 0 /\ ~HasTrack(mv, id) /\ n.iods = mv.iods
  BY DEF TrackAdded
<1>4. Named(m)
  BY NamedKept
<1>5. \A x : HasTrack(m, x) <=> (HasTrack(mv, x) \/ x = id)
  BY <1>2, SameTracks, HasTrackAdded
<1>6. /\ \A j \in 1..c : mv.traks[j].kind = "odsm" <=> mv.traks[j].id = mv.od
      /\ mv.od # 0 => HasTrack(mv, mv.od)
      /\ \A j \in 1..c :
            /\ Mpod(mv.traks[j]) # << >> => mv.traks[j].kind = "odsm"
            /\ IsInjective(Mpod(mv.traks[j]))
            /\ \A r \in Range(Mpod(mv.traks[j])) : HasTrack(mv, r)
      /\ IsInjective(mv.iods.ids)
      /\ \A r \in Range(mv.iods.ids) : HasTrack(mv, r)
  BY DEF Good, Referred
<1>7. /\ \A i \in 1..c : mv.traks[i].id # 0
  BY DEF Good, Named
<1> HIDE DEF c
<1>8. /\ \A i \in 1 .. c + 1 : i \in 1..c \/ i = c + 1
      /\ \A i \in 1..c : i \in 1 .. c + 1 /\ i # c + 1
      /\ c + 1 \in 1 .. c + 1
  BY <1>2
<1>9. \A i \in 1..c : mv.traks[i].id # id
  <2>1. \A i, j \in 1 .. c + 1 : n.traks[i].id = n.traks[j].id => i = j
    BY <1>2 DEF Named
  <2> QED
    BY <1>1, <1>2, <1>8, <2>1
<1>10. ASSUME NEW j \in 1..Len(m.traks)
       PROVE  m.traks[j].kind = "odsm" <=> m.traks[j].id = m.od
  <2>1. CASE j = c + 1
    <3>1. m.traks[j].kind = kind /\ m.traks[j].id = id
      BY <1>1, <1>2, <2>1
    <3>2. kind # "odsm" => id # m.od
      BY <1>3, <1>6
    <3> QED
      BY <3>1, <3>2
  <2>2. CASE j \in 1..c
    <3>1. m.traks[j] = mv.traks[j]
      BY <1>2, <2>2
    <3> QED
      BY <1>6, <1>7, <1>9, <2>2, <3>1
  <2> QED
    BY <1>2, <1>8, <2>1, <2>2
<1>11. ASSUME NEW j \in 1..Len(m.traks)
       PROVE  /\ Mpod(m.traks[j]) # << >> => m.traks[j].kind = "odsm"
              /\ IsInjective(Mpod(m.traks[j]))
              /\ \A r \in Range(Mpod(m.traks[j])) : HasTrack(m, r) /\ r # id
  <2>1. CASE j = c + 1
    <3>1. Mpod(m.traks[j]) = << >>
      BY <1>1, <1>2, <2>1
    <3> QED
      BY <3>1, EmptyRange
  <2>2. CASE j \in 1..c
    <3>1. m.traks[j] = mv.traks[j]
      BY <1>2, <2>2
    <3> QED
      BY <1>3, <1>5, <1>6, <2>2, <3>1
  <2> QED
    BY <1>2, <1>8, <2>1, <2>2
<1>12. /\ IsInjective(m.iods.ids)
       /\ \A r \in Range(m.iods.ids) : HasTrack(m, r) /\ r # id
  BY <1>3, <1>5, <1>6
<1>13. m.od # 0 => HasTrack(m, m.od)
  BY <1>5, <1>6
<1>14. Referred(m)
  BY <1>10, <1>11, <1>12, <1>13 DEF Referred
<1>15. Unreferred(m, id)
  BY <1>11, <1>12 DEF Unreferred
<1> QED
  BY <1>3, <1>4, <1>5, <1>14, <1>15 DEF Good

Clashed(mv) == Keyed(mv) /\ \E x : ClashAt(mv, x)
Fair(mv)    == Good(mv) \/ Clashed(mv)

LEMMA ClashedKept ==
    ASSUME NEW mv, Clashed(mv), NEW n, SameNames(mv, n)
    PROVE  Clashed(n)
BY KeyedKept, ClashKept DEF Clashed

LEMMA FairKept ==
    ASSUME NEW mv, Fair(mv), NEW n, SameNames(mv, n), n.od = mv.od, n.iods.ids = mv.iods.ids,
           \A j \in 1..Len(mv.traks) : Mpod(n.traks[j]) \in {Mpod(mv.traks[j]), << >>}
    PROVE  Fair(n)
BY GoodKept, ClashedKept DEF Fair

LEMMA FairIsKeyed == \A mv : Fair(mv) => Keyed(mv)
BY NamedIsKeyed DEF Fair, Good, Clashed

LEMMA ThrownIsFair ==
    ASSUME NEW mv, Fair(mv)
    PROVE  Fair(Throw(mv)) /\ ~Throw(mv).ok
<1> DEFINE n == Throw(mv)
<1>1. SameNames(mv, n) /\ ~n.ok
  BY SameNamesThrown, FairIsKeyed
<1>2. n.od = mv.od /\ n.iods = mv.iods /\ n.traks = mv.traks
  BY FairIsKeyed DEF Throw, Keyed, Shape, Listed, MovieFields
<1> HIDE DEF n
<1>3. Fair(n)
  BY <1>1, <1>2, FairKept
<1> QED
  BY <1>1, <1>3 DEF n

\* AddTrack of a kind of its own, and one reference to the new track.
LEMMA AddTrackIsFair ==
    ASSUME NEW mv, Good(mv), NEW kind, kind \notin {"broken", "odsm"}
    PROVE  LET t == AddTrack(mv, kind)
           IN  /\ Fair(t)
               /\ t.ok => /\ Newest(t) \in Nat
                          /\ Good(t) => Unreferred(t, Newest(t)) /\ HasTrack(t, Newest(t))
<1> DEFINE t == AddTrack(mv, kind)
           id == AllocTrackId(mv)
<1>1. Named(mv) /\ Keyed(mv)
  BY NamedIsKeyed DEF Good
<1>2. /\ \E b : TrakAdded(mv, t, b)
      /\ id # 0 => TrackAdded(mv, t, id, kind) /\ Newest(t) = id
      /\ id = 0 => ClashAt(t, 0) /\ ~t.ok
  BY <1>1, AddTrackAdds
<1> HIDE DEF t, id
<1>3. Keyed(t)
  BY <1>2 DEF TrakAdded
<1>4. CASE id = 0
  BY <1>2, <1>3, <1>4 DEF Fair, Clashed, t
<1>5. CASE id # 0
  <2>1. TrackAdded(mv, t, id, kind) /\ Newest(t) = id /\ id \in Nat
    BY <1>2, <1>5 DEF TrackAdded
  <2>2. Named(t) \/ ClashAt(t, id)
    BY <1>1, <2>1, AddedIsNamed
  <2>3. Named(t) => Good(t) /\ Unreferred(t, id) /\ HasTrack(t, id)
    <3>1. SameNames(t, t) /\ t.od = mv.od
      BY <1>3, <2>1, SameNamesItself DEF TrackAdded
    <3> QED
      BY <2>1, <3>1, AddedIsGood
  <2>4. Fair(t)
    BY <1>3, <2>2, <2>3 DEF Fair, Clashed
  <2>5. Good(t) => Named(t)
    BY DEF Good
  <2> QED
    BY <2>1, <2>3, <2>4, <2>5 DEF t
<1> QED
  BY <1>4, <1>5

LEMMA FairOdAdded ==
    ASSUME NEW mv, Fair(mv), NEW id \in Nat,
           Good(mv) => HasTrack(mv, id) /\ \A j \in 1..Len(mv.traks) : id \notin Range(Mpod(mv.traks[j]))
    PROVE  Fair(AddTrackToOd(mv, id))
<1> DEFINE n == AddTrackToOd(mv, id)
<1>1. Good(mv) => Good(n)
  BY GoodOdAdded
<1>2. Clashed(mv) => SameNames(mv, n)
  BY OdChanged, FairIsKeyed
<1> HIDE DEF n
<1>3. Fair(n)
  BY <1>1, <1>2, ClashedKept DEF Fair
<1> QED
  BY <1>3 DEF n

\* The calls that add a track.
LEMMA AddsOneTrack ==
    ASSUME NEW mv, Good(mv)
    PROVE  Fair(AddVideoTrack(mv)) /\ Fair(AddAudioTrack(mv)) /\ Fair(AddSubtitleTrack(mv))
<1>1. ASSUME NEW kind, kind \notin {"broken", "odsm"}, NEW t, t = AddTrack(mv, kind)
      PROVE  Fair(t) /\ (t.ok => Fair(AddTrackToOd(t, Newest(t))))
  <2>1. /\ Fair(t)
        /\ t.ok => /\ Newest(t) \in Nat
                   /\ Good(t) => Unreferred(t, Newest(t)) /\ HasTrack(t, Newest(t))
    BY <1>1, AddTrackIsFair
  <2>2. PICK id : id = Newest(t)
    OBVIOUS
  <2>3. t.ok => Fair(AddTrackToOd(t, id))
    BY <2>1, <2>2, FairOdAdded DEF Unreferred
  <2> QED
    BY <2>1, <2>2, <2>3
<1> QED
  BY <1>1 DEF AddVideoTrack, AddAudioTrack, AddSubtitleTrack

LEMMA AddsSceneTrack ==
    ASSUME NEW mv, Good(mv)
    PROVE  Fair(AddSceneTrack(mv))
<1>1. PICK t : t = AddTrack(mv, "sdsm")
  OBVIOUS
<1>2. PICK id : id = Newest(t)
  OBVIOUS
<1>3. PICK s : s = AddTrackToIod(t, id)
  OBVIOUS
<1>4. AddSceneTrack(mv) = IF ~t.ok THEN t ELSE IF ~s.ok THEN s ELSE AddTrackToOd(s, id)
  BY <1>1, <1>2, <1>3 DEF AddSceneTrack
<1>5. /\ Fair(t) /\ Keyed(t)
      /\ t.ok => id \in Nat /\ (Good(t) => Unreferred(t, id) /\ HasTrack(t, id))
  BY <1>1, <1>2, AddTrackIsFair, FairIsKeyed
<1>6. CASE t.ok /\ Good(t)
  <2>1. Good(s) /\ SameNames(t, s) /\ s.traks = t.traks
    BY <1>3, <1>5, <1>6, GoodIodAdded, IodAdded DEF Unreferred
  <2>2. HasTrack(s, id)
    BY <1>5, <1>6, <2>1, SameTracks
  <2>3. Good(AddTrackToOd(s, id))
    BY <1>5, <1>6, <2>1, <2>2, GoodOdAdded DEF Unreferred
  <2> QED
    BY <1>4, <1>6, <2>1, <2>3 DEF Fair
<1>7. CASE t.ok /\ Clashed(t)
  <2>1. SameNames(t, s)
    BY <1>3, <1>5, <1>7, IodAdded
  <2>2. Clashed(s) /\ Keyed(s)
    BY <1>7, <2>1, ClashedKept DEF Clashed
  <2>3. SameNames(s, AddTrackToOd(s, id))
    BY <1>5, <1>7, <2>2, OdChanged
  <2>4. Clashed(AddTrackToOd(s, id))
    BY <2>2, <2>3, ClashedKept
  <2> QED
    BY <1>4, <1>7, <2>2, <2>4 DEF Fair
<1> QED
  BY <1>4, <1>5, <1>6, <1>7 DEF Fair

LEMMA AddsReference ==
    ASSUME NEW mv, Fair(mv), NEW id, NEW type, type # "mpod", NEW ref
    PROVE  Fair(AddTrackReference(AddRefType(mv, id, type), id, type, ref))
<1>1. PICK n : n = AddRefType(mv, id, type)
  OBVIOUS
<1>2. PICK o : o = AddTrackReference(n, id, type, ref)
  OBVIOUS
<1>3. /\ SameNames(mv, n) /\ n.od = mv.od /\ n.iods = mv.iods
      /\ \A j \in 1..Len(mv.traks) : Mpod(n.traks[j]) = Mpod(mv.traks[j])
  BY <1>1, RefTypeAdded, FairIsKeyed
<1>4. Fair(n)
  BY <1>3, FairKept
<1>5. /\ SameNames(n, o) /\ o.od = n.od /\ o.iods = n.iods
      /\ \A j \in 1..Len(n.traks) : Mpod(o.traks[j]) = Mpod(n.traks[j])
  BY <1>2, <1>4, ReferenceAdded, FairIsKeyed
<1>6. Fair(o)
  BY <1>4, <1>5, FairKept
<1> QED
  BY <1>1, <1>2, <1>6

LEMMA AddsReferringTrack ==
    ASSUME NEW mv, Good(mv), NEW ref
    PROVE  /\ Fair(AddHintTrack(mv, ref)) /\ Fair(AddTextTrack(mv, ref))
           /\ Fair(AddChapterTextTrack(mv, ref))
<1>1. Fair(mv) /\ Fair(Throw(mv))
  BY ThrownIsFair DEF Fair
<1>2. Fair(AddTrack(mv, "hint")) /\ Fair(AddTrack(mv, "text"))
  BY AddTrackIsFair
<1>3. Fair(AddHintTrack(mv, ref))
  BY <1>1, <1>2, AddsReference DEF AddHintTrack
<1>4. Fair(AddChapterTextTrack(mv, ref))
  BY <1>1, <1>2, AddsReference DEF AddChapterTextTrack
<1> QED
  BY <1>1, <1>2, <1>3, <1>4 DEF AddTextTrack

\* No scene track has the id x.
NoScene(mv, x) == \A j \in 1..Len(mv.traks) : mv.traks[j].id = x => mv.traks[j].kind # "sdsm"

LEMMA NoSceneKept ==
    ASSUME NEW mv, NEW n, SameNames(mv, n), NEW x, NoScene(mv, x)
    PROVE  NoScene(n, x)
BY DEF SameNames, NoScene

\* A clash at an id that is no scene track's.
ClashBeside(mv) == Keyed(mv) /\ \E x : ClashAt(mv, x) /\ NoScene(mv, x)

LEMMA ClashBesideKept ==
    ASSUME NEW mv, ClashBeside(mv), NEW n, SameNames(mv, n)
    PROVE  ClashBeside(n)
BY KeyedKept, ClashKept, NoSceneKept DEF ClashBeside

\* The new object descriptor track refers to nothing yet.
LEMMA AddsODTrack ==
    ASSUME NEW mv, Good(mv), mv.ok
    PROVE  LET n == AddODTrack(mv)
           IN  /\ Fair(n)
               /\ n.ok => \/ Good(n) /\ \A j \in 1..Len(n.traks) : Mpod(n.traks[j]) = << >>
                          \/ ClashBeside(n)
<1> DEFINE id == AllocTrackId(mv)
<1>1. PICK t : t = AddTrack(mv, "odsm")
  OBVIOUS
<1>2. PICK u : u = [t EXCEPT !.od = Newest(t)]
  OBVIOUS
<1>3. PICK o : o = AddTrackToIod(u, Newest(t))
  OBVIOUS
<1>4. PICK r : r = AddRefType(o, o.od, "mpod")
  OBVIOUS
<1>5. AddODTrack(mv) = IF mv.od # 0 THEN Throw(mv) ELSE IF ~t.ok THEN t ELSE IF ~o.ok THEN o ELSE r
  BY <1>1, <1>2, <1>3, <1>4 DEF AddODTrack
<1>6. Named(mv) /\ Keyed(mv)
  BY NamedIsKeyed DEF Good
<1>7. /\ \E b : TrakAdded(mv, t, b)
      /\ id # 0 => TrackAdded(mv, t, id, "odsm") /\ Newest(t) = id
      /\ id = 0 => ClashAt(t, 0) /\ ~t.ok
  BY <1>1, <1>6, AddTrackAdds
<1>8. Keyed(t)
  BY <1>7 DEF TrakAdded
<1> HIDE DEF id
<1>9. CASE mv.od # 0
  BY <1>5, <1>9, ThrownIsFair DEF Fair
<1>10. CASE mv.od = 0 /\ id = 0
  <2>1. Clashed(t)
    BY <1>7, <1>8, <1>10 DEF Clashed
  <2> QED
    BY <1>5, <1>7, <1>10, <2>1 DEF Fair
<1>11. CASE mv.od = 0 /\ id # 0
  <2>1. /\ TrackAdded(mv, t, id, "odsm") /\ Newest(t) = id /\ id \in Nat /\ t.ok
    BY <1>7, <1>11 DEF TrackAdded
  <2>2. /\ SameNames(t, u) /\ u.traks = t.traks /\ u.iods = t.iods /\ u.od = id
    <3>1. /\ DOMAIN u = DOMAIN t /\ \A f \in DOMAIN t \ {"od"} : u[f] = t[f]
          /\ u.od = id
      BY <1>2, <1>8, <2>1 DEF Keyed, Shape, Listed, MovieFields
    <3>2. /\ u.traks = t.traks /\ u.iods = t.iods /\ u.chpl = t.chpl /\ u.items = t.items
          /\ u.brands = t.brands
      BY <1>8, <3>1 DEF Keyed, Shape, Listed, MovieFields
    <3>3. Rest(u)
      BY <1>8, <3>2, RestKept DEF Keyed, Shape
    <3> QED
      BY <1>8, <3>1, <3>2, <3>3, SameNamesOtherwise DEF Alike
  <2>3. Keyed(u)
    BY <1>8, <2>2, KeyedKept
  <2>4. SameNames(u, o) /\ o.od = u.od /\ o.traks = u.traks
    BY <1>3, <2>1, <2>3, IodAdded
  <2>5. Keyed(o)
    BY <2>3, <2>4, KeyedKept
  <2>6. /\ SameNames(o, r) /\ r.od = o.od /\ r.iods = o.iods
        /\ \A j \in 1..Len(o.traks) : Mpod(r.traks[j]) = Mpod(o.traks[j])
    BY <1>4, <2>5, RefTypeAdded
  <2>7. AddODTrack(mv) \in {o, r}
    BY <1>5, <1>11, <2>1
  <2>8. /\ Named(t) \/ ClashAt(t, id)
        /\ \A j \in 1..Len(t.traks) : t.traks[j].id = id => t.traks[j].kind \in {"broken", "odsm"}
    BY <1>6, <2>1, AddedIsNamed
  <2>9. CASE Named(t)
    <3>1. Good(u) /\ Unreferred(u, id) /\ HasTrack(u, id)
      BY <1>11, <2>1, <2>2, <2>9, AddedIsGood
    <3>2. Good(o)
      BY <1>3, <2>1, <3>1, GoodIodAdded DEF Unreferred
    <3>3. Good(r)
      BY <2>6, <3>2, GoodKept
    <3>4. \A j \in 1..Len(t.traks) : Mpod(t.traks[j]) = << >>
      <4>1. PICK b : /\ Len(t.traks) = Len(mv.traks) + 1 /\ t.traks[Len(mv.traks) + 1] = b
                     /\ Mpod(b) = << >> /\ Len(mv.traks) \in Nat
                     /\ \A i \in 1..Len(mv.traks) : t.traks[i] = mv.traks[i]
        BY <1>6, <2>1, TraksDomain DEF TrackAdded, TrakAdded, Keyed
      <4>2. \A j \in 1..Len(mv.traks) : Mpod(mv.traks[j]) = << >>
        BY <1>11 DEF Good, Referred, Named
      <4>3. \A j \in 1..Len(t.traks) : j \in 1..Len(mv.traks) \/ j = Len(mv.traks) + 1
        BY <4>1
      <4> QED
        BY <4>1, <4>2, <4>3
    <3>5. Len(o.traks) = Len(t.traks) /\ Len(r.traks) = Len(t.traks)
      BY <2>2, <2>4, <2>6 DEF SameNames
    <3>6. \A n \in {o, r} : \A j \in 1..Len(n.traks) : Mpod(n.traks[j]) = << >>
      BY <2>2, <2>4, <2>6, <3>4, <3>5
    <3> QED
      BY <2>7, <3>2, <3>3, <3>6 DEF Fair
  <2>10. CASE ClashAt(t, id)
    <3>1. ClashBeside(t)
      BY <1>8, <2>8, <2>10 DEF ClashBeside, NoScene
    <3>2. ClashBeside(o) /\ ClashBeside(r)
      BY <2>2, <2>4, <2>6, <3>1, ClashBesideKept
    <3> QED
      BY <2>7, <3>2 DEF Fair, Clashed, ClashBeside
  <2> QED
    BY <2>8, <2>9, <2>10
<1> QED
  BY <1>9, <1>10, <1>11

\* Adding a track of any kind keeps every id leading to its own trak box and
\* every reference leading to a track, also when the call throws after the
\* track was added; if not, a trak box without a track has the id of the new
\* one, or there was no id to give (AddVideoTrack, AddAudioTrack, AddODTrack,
\* AddSceneTrack, AddHintTrack, AddTextTrack, AddSubtitleTrack,
\* AddChapterTextTrack).
THEOREM AddingKeepsNames ==
    ASSUME NEW mv, Good(mv), mv.ok, NEW ref
    PROVE  /\ Fair(AddVideoTrack(mv)) /\ Fair(AddAudioTrack(mv)) /\ Fair(AddSubtitleTrack(mv))
           /\ Fair(AddODTrack(mv)) /\ Fair(AddSceneTrack(mv))
           /\ Fair(AddHintTrack(mv, ref)) /\ Fair(AddTextTrack(mv, ref))
           /\ Fair(AddChapterTextTrack(mv, ref))
BY AddsOneTrack, AddsODTrack, AddsSceneTrack, AddsReferringTrack

-----------------------------------------------------------------------------
(* Deleting.                                                               *)

\* n is mv without its track p and that track's trak box k.
TrackGone(mv, n, k, p) ==
    /\ Keyed(n) /\ k \in 1..Len(mv.traks) /\ p \in 1..Len(mv.tracks)
    /\ mv.traks[k].key = mv.tracks[p]
    /\ Len(n.traks) = Len(mv.traks) - 1 /\ Len(n.tracks) = Len(mv.tracks) - 1
    /\ \A j \in 1 .. Len(mv.traks) - 1 : n.traks[j] = mv.traks[Before(j, k)]
    /\ \A j \in 1 .. Len(mv.tracks) - 1 : n.tracks[j] = mv.tracks[Before(j, p)]

LEMMA TrakIsRemoved ==
    ASSUME NEW mv, Keyed(mv), NEW k \in 1..Len(mv.traks), NEW p \in 1..Len(mv.tracks),
           mv.traks[k].key = mv.tracks[p],
           NEW n, MovieFields \subseteq DOMAIN n, n.traks = RemoveAt(mv.traks, k),
           n.tracks = RemoveAt(mv.tracks, p), n.ids \in Seq(Nat), n.next = mv.next, Rest(n)
    PROVE  TrackGone(mv, n, k, p)
<1> DEFINE c == Len(mv.traks)
           d == Len(mv.tracks)
<1>1. c \in Nat /\ d \in Nat /\ k \in 1..c /\ p \in 1..d
  BY TraksDomain DEF Keyed
<1>2. /\ IsSeq(n.traks) /\ Len(n.traks) = c - 1
      /\ \A j \in 1 .. c - 1 : n.traks[j] = mv.traks[Before(j, k)]
  <2>1. PICK S : mv.traks \in Seq(S)
    BY DEF Keyed, Shape, Listed, IsSeq
  <2> QED
    BY <2>1, RemoveAtProperties DEF IsSeq
<1>3. /\ n.tracks \in Seq(Nat) /\ Len(n.tracks) = d - 1
      /\ \A j \in 1 .. d - 1 : n.tracks[j] = mv.tracks[Before(j, p)]
  <2>1. mv.tracks \in Seq(Nat)
    BY DEF Keyed, Shape, Listed
  <2> QED
    BY <2>1, RemoveAtProperties
<1> HIDE DEF c, d
<1>4. /\ c - 1 \in Nat
      /\ \A j \in 1 .. c - 1 : Before(j, k) \in 1..c /\ Before(j, k) # k
      /\ \A i, j \in 1 .. c - 1 : Before(i, k) = Before(j, k) => i = j
      /\ \A i \in 1..c : i # k => \E j \in 1 .. c - 1 : Before(j, k) = i
  BY <1>1, BeforeIsOneToOne
<1>5. /\ d - 1 \in Nat
      /\ \A j \in 1 .. d - 1 : Before(j, p) \in 1..d /\ Before(j, p) # p
      /\ \A i, j \in 1 .. d - 1 : Before(i, p) = Before(j, p) => i = j
  BY <1>1, BeforeIsOneToOne
<1>6. /\ \A i \in 1..c : IsTrak(mv.traks[i])
      /\ \A i, j \in 1..c : mv.traks[i].key = mv.traks[j].key => i = j
      /\ \A i \in 1..d : \E j \in 1..c : mv.traks[j].key = mv.tracks[i]
      /\ \A i, j \in 1..d : mv.tracks[i] = mv.tracks[j] => i = j
      /\ mv.next \in 1 .. MaxTrackId + 1
  BY DEF Keyed, Shape, Listed, c, d
<1>7. Shape(n)
  <2>1. \A j \in 1..Len(n.traks) : IsTrak(n.traks[j])
    BY <1>2, <1>4, <1>6
  <2> QED
    BY <1>2, <1>3, <1>6, <2>1 DEF Shape, Listed
<1>8. \A i \in 1 .. d - 1 : \E j \in 1 .. c - 1 : n.traks[j].key = n.tracks[i]
  <2> SUFFICES ASSUME NEW i \in 1 .. d - 1
               PROVE  \E j \in 1 .. c - 1 : n.traks[j].key = n.tracks[i]
    OBVIOUS
  <2>1. PICK l \in 1..c : mv.traks[l].key = mv.tracks[Before(i, p)]
    BY <1>5, <1>6
  <2>2. l # k
    <3>1. Before(i, p) \in 1..d /\ Before(i, p) # p
      BY <1>5
    <3>2. mv.tracks[Before(i, p)] # mv.tracks[p]
      BY <1>1, <1>6, <3>1
    <3> QED
      BY <2>1, <3>2
  <2>3. PICK j \in 1 .. c - 1 : Before(j, k) = l
    BY <1>4, <2>2
  <2> QED
    BY <1>2, <1>3, <2>1, <2>3
<1>9. ASSUME NEW i \in 1 .. c - 1, NEW j \in 1 .. c - 1, n.traks[i].key = n.traks[j].key
      PROVE  i = j
  <2>1. mv.traks[Before(i, k)].key = mv.traks[Before(j, k)].key
    BY <1>2, <1>9
  <2>2. Before(i, k) \in 1..c /\ Before(j, k) \in 1..c
    BY <1>4
  <2>3. Before(i, k) = Before(j, k)
    BY <1>6, <2>1, <2>2
  <2> QED
    BY <1>4, <2>3
<1>10. ASSUME NEW i \in 1 .. d - 1, NEW j \in 1 .. d - 1, n.tracks[i] = n.tracks[j]
       PROVE  i = j
  <2>1. mv.tracks[Before(i, p)] = mv.tracks[Before(j, p)]
    BY <1>3, <1>10
  <2>2. Before(i, p) \in 1..d /\ Before(j, p) \in 1..d
    BY <1>5
  <2>3. Before(i, p) = Before(j, p)
    BY <1>6, <2>1, <2>2
  <2> QED
    BY <1>5, <2>3
<1>11. Keyed(n)
  BY <1>2, <1>3, <1>7, <1>8, <1>9, <1>10 DEF Keyed
<1> QED
  BY <1>1, <1>2, <1>3, <1>11 DEF TrackGone, c, d

LEMMA HasTrackGone ==
    ASSUME NEW mv, Keyed(mv), NEW n, NEW k, NEW p, TrackGone(mv, n, k, p), NEW x
    PROVE  /\ HasTrack(n, x) => HasTrack(mv, x)
           /\ HasTrack(mv, x) /\ x # mv.traks[k].id => HasTrack(n, x)
<1> DEFINE c == Len(mv.traks)
           d == Len(mv.tracks)
<1>1. /\ Keyed(n) /\ k \in 1..c /\ p \in 1..d /\ mv.traks[k].key = mv.tracks[p]
      /\ Len(n.traks) = c - 1 /\ Len(n.tracks) = d - 1
      /\ \A j \in 1 .. c - 1 : n.traks[j] = mv.traks[Before(j, k)]
      /\ \A j \in 1 .. d - 1 : n.tracks[j] = mv.tracks[Before(j, p)]
      /\ c \in Nat /\ d \in Nat
  BY TraksDomain DEF TrackGone, Keyed
<1>2. HasTrack(mv, x) <=> \E i \in 1..d : \E j \in 1..c :
        mv.traks[j].key = mv.tracks[i] /\ mv.traks[j].id = x
  BY HasTrackIs
<1>3. HasTrack(n, x) <=> \E i \in 1..Len(n.tracks) : \E j \in 1..Len(n.traks) :
        n.traks[j].key = n.tracks[i] /\ n.traks[j].id = x
  <2>1. Keyed(n)
    BY <1>1
  <2> HIDE DEF c, d
  <2> QED
    BY <2>1, HasTrackIs
<1>4. \A i, j \in 1..c : mv.traks[i].key = mv.traks[j].key => i = j
  BY DEF Keyed
<1> HIDE DEF c, d
<1>5. /\ \A j \in 1 .. c - 1 : Before(j, k) \in 1..c
      /\ \A i \in 1..c : i # k => \E j \in 1 .. c - 1 : Before(j, k) = i
      /\ \A j \in 1 .. d - 1 : Before(j, p) \in 1..d
      /\ \A i \in 1..d : i # p => \E j \in 1 .. d - 1 : Before(j, p) = i
  BY <1>1, BeforeIsOneToOne
<1>6. ASSUME HasTrack(n, x) PROVE HasTrack(mv, x)
  <2>1. PICK i \in 1 .. d - 1, j \in 1 .. c - 1 : n.traks[j].key = n.tracks[i] /\ n.traks[j].id = x
    BY <1>1, <1>3, <1>6
  <2>2. /\ Before(i, p) \in 1..d /\ Before(j, k) \in 1..c
        /\ mv.traks[Before(j, k)].key = mv.tracks[Before(i, p)] /\ mv.traks[Before(j, k)].id = x
    BY <1>1, <1>5, <2>1
  <2> QED
    BY <1>2, <2>2
<1>7. ASSUME HasTrack(mv, x), x # mv.traks[k].id PROVE HasTrack(n, x)
  <2>1. PICK i \in 1..d, j \in 1..c : mv.traks[j].key = mv.tracks[i] /\ mv.traks[j].id = x
    BY <1>2, <1>7
  <2>2. j # k
    BY <1>7, <2>1
  <2>3. i # p
    BY <1>1, <1>4, <2>1, <2>2
  <2>4. PICK a \in 1 .. d - 1 : Before(a, p) = i
    BY <1>5, <2>3
  <2>5. PICK b \in 1 .. c - 1 : Before(b, k) = j
    BY <1>5, <2>2
  <2>6. /\ a \in 1..Len(n.tracks) /\ b \in 1..Len(n.traks)
        /\ n.traks[b].key = n.tracks[a] /\ n.traks[b].id = x
    BY <1>1, <2>1, <2>4, <2>5
  <2> QED
    BY <1>3, <2>6
<1> QED
  BY <1>6, <1>7

LEMMA ClashKeptBeside ==
    ASSUME NEW mv, Keyed(mv), NEW n, NEW k, NEW p, TrackGone(mv, n, k, p),
           NEW x, ClashAt(mv, x), x # mv.traks[k].id
    PROVE  ClashAt(n, x)
<1>1. PICK j \in 1..Len(mv.traks) :
        mv.traks[j].id = x /\ (x = 0 \/ (mv.traks[j].kind = "broken" /\ HasTrack(mv, x)))
  BY DEF ClashAt
<1>2. /\ k \in 1..Len(mv.traks) /\ Len(n.traks) = Len(mv.traks) - 1
      /\ \A i \in 1 .. Len(mv.traks) - 1 : n.traks[i] = mv.traks[Before(i, k)]
      /\ Len(mv.traks) \in Nat
  BY TraksDomain DEF TrackGone, Keyed
<1>3. PICK i \in 1 .. Len(mv.traks) - 1 : Before(i, k) = j
  <2>1. j # k
    BY <1>1
  <2>2. PICK c \in Nat : c = Len(mv.traks)
    BY <1>2
  <2>3. k \in 1..c /\ j \in 1..c
    BY <1>2, <2>2
  <2>4. \E i \in 1 .. c - 1 : Before(i, k) = j
    BY <2>1, <2>3, BeforeIsOneToOne
  <2> QED
    BY <2>2, <2>4
<1>4. HasTrack(mv, x) => HasTrack(n, x)
  BY HasTrackGone
<1> QED
  BY <1>1, <1>2, <1>3, <1>4 DEF ClashAt

LEMMA NamedGone ==
    ASSUME NEW mv, Named(mv), NEW n, NEW k, NEW p, TrackGone(mv, n, k, p),
           n.ids = RemoveAt(mv.ids, k)
    PROVE  Named(n) /\ ~HasTrack(n, mv.traks[k].id)
<1> DEFINE c == Len(mv.traks)
           d == Len(mv.tracks)
<1>1. /\ Keyed(n) /\ Keyed(mv) /\ k \in 1..c /\ p \in 1..d /\ mv.traks[k].key = mv.tracks[p]
      /\ Len(n.traks) = c - 1 /\ Len(n.tracks) = d - 1
      /\ \A j \in 1 .. c - 1 : n.traks[j] = mv.traks[Before(j, k)]
      /\ \A j \in 1 .. d - 1 : n.tracks[j] = mv.tracks[Before(j, p)]
      /\ c \in Nat /\ d \in Nat
  BY TraksDomain DEF TrackGone, Keyed, Named
<1>2. Len(n.ids) = c - 1 /\ \A j \in 1 .. c - 1 : n.ids[j] = mv.ids[Before(j, k)]
  <2>1. mv.ids \in Seq(Nat) /\ Len(mv.ids) = c
    BY DEF Named, Keyed, Shape, Listed
  <2>2. k \in 1..Len(mv.ids)
    BY <1>1, <2>1
  <2> HIDE DEF c
  <2> QED
    BY <2>1, <2>2, RemoveAtProperties
<1>3. /\ \A i \in 1..c : mv.ids[i] = mv.traks[i].id /\ mv.ids[i] # 0
      /\ \A i, j \in 1..c : mv.traks[i].id = mv.traks[j].id => i = j
      /\ \A i, j \in 1..c : mv.traks[i].key = mv.traks[j].key => i = j
      /\ \A j \in 1..c : mv.traks[j].kind # "broken" <=>
            \E i \in 1..d : mv.tracks[i] = mv.traks[j].key
  BY DEF Named, Keyed
<1>4. HasTrack(n, mv.traks[k].id) <=>
        \E i \in 1..Len(n.tracks) : \E j \in 1..Len(n.traks) :
           n.traks[j].key = n.tracks[i] /\ n.traks[j].id = mv.traks[k].id
  <2>1. Keyed(n)
    BY <1>1
  <2>2. PICK x : x = mv.traks[k].id
    OBVIOUS
  <2> HIDE DEF c, d
  <2> QED
    BY <2>1, <2>2, HasTrackIs
<1> HIDE DEF c, d
<1>5. /\ \A j \in 1 .. c - 1 : Before(j, k) \in 1..c /\ Before(j, k) # k
      /\ \A i, j \in 1 .. c - 1 : Before(i, k) = Before(j, k) => i = j
      /\ \A j \in 1 .. d - 1 : Before(j, p) \in 1..d /\ Before(j, p) # p
      /\ \A i \in 1..d : i # p => \E j \in 1 .. d - 1 : Before(j, p) = i
  BY <1>1, BeforeIsOneToOne
<1>6. ASSUME NEW i \in 1 .. c - 1 PROVE n.ids[i] = n.traks[i].id /\ n.ids[i] # 0
  <2>1. Before(i, k) \in 1..c
    BY <1>5
  <2>2. n.ids[i] = mv.ids[Before(i, k)] /\ n.traks[i] = mv.traks[Before(i, k)]
    BY <1>1, <1>2
  <2> QED
    BY <1>3, <2>1, <2>2
<1>7. ASSUME NEW i \in 1 .. c - 1, NEW j \in 1 .. c - 1, n.traks[i].id = n.traks[j].id
      PROVE  i = j
  <2>1. mv.traks[Before(i, k)].id = mv.traks[Before(j, k)].id
    BY <1>1, <1>7
  <2>2. Before(i, k) \in 1..c /\ Before(j, k) \in 1..c
    BY <1>5
  <2>3. Before(i, k) = Before(j, k)
    BY <1>3, <2>1, <2>2
  <2> QED
    BY <1>5, <2>3
<1>8. ASSUME NEW j \in 1 .. c - 1
      PROVE  n.traks[j].kind # "broken" <=> \E i \in 1 .. d - 1 : n.tracks[i] = n.traks[j].key
  <2>1. n.traks[j] = mv.traks[Before(j, k)] /\ Before(j, k) \in 1..c /\ Before(j, k) # k
    BY <1>1, <1>5
  <2>2. ASSUME NEW i \in 1 .. d - 1, n.tracks[i] = n.traks[j].key PROVE n.traks[j].kind # "broken"
    <3>1. Before(i, p) \in 1..d /\ n.tracks[i] = mv.tracks[Before(i, p)]
      BY <1>1, <1>5
    <3> QED
      BY <1>3, <2>1, <2>2, <3>1
  <2>3. ASSUME n.traks[j].kind # "broken" PROVE \E i \in 1 .. d - 1 : n.tracks[i] = n.traks[j].key
    <3>1. PICK a \in 1..d : mv.tracks[a] = mv.traks[Before(j, k)].key
      BY <1>3, <2>1, <2>3
    <3>2. a # p
      BY <1>1, <1>3, <2>1, <3>1
    <3>3. PICK i \in 1 .. d - 1 : Before(i, p) = a
      BY <1>5, <3>2
    <3> QED
      BY <1>1, <2>1, <3>1, <3>3
  <2> QED
    BY <2>2, <2>3
<1>9. Named(n)
  BY <1>1, <1>2, <1>6, <1>7, <1>8 DEF Named
<1>10. ASSUME NEW j \in 1 .. c - 1 PROVE n.traks[j].id # mv.traks[k].id
  <2>1. Before(j, k) \in 1..c /\ Before(j, k) # k /\ n.traks[j] = mv.traks[Before(j, k)]
    BY <1>1, <1>5
  <2> QED
    BY <1>1, <1>3, <2>1
<1> QED
  BY <1>1, <1>4, <1>9, <1>10

\* A track that nothing refers to goes.
LEMMA GoodGone ==
    ASSUME NEW mv, Good(mv), NEW n, NEW k, NEW p, TrackGone(mv, n, k, p),
           n.ids = RemoveAt(mv.ids, k), Unreferred(mv, mv.traks[k].id),
           n.od = (IF mv.od = mv.traks[k].id THEN 0 ELSE mv.od), n.iods = mv.iods
    PROVE  Good(n)
<1> DEFINE c == Len(mv.traks)
           id == mv.traks[k].id
<1>1. Named(mv) /\ Keyed(mv)
  BY NamedIsKeyed DEF Good
<1>2. /\ k \in 1..c /\ Len(n.traks) = c - 1 /\ c \in Nat
      /\ \A j \in 1 .. c - 1 : n.traks[j] = mv.traks[Before(j, k)]
  BY <1>1, TraksDomain DEF TrackGone, Keyed
<1>3. Named(n)
  BY <1>1, NamedGone
<1>4. \A x : HasTrack(mv, x) /\ x # id => HasTrack(n, x)
  BY <1>1, HasTrackGone
<1>5. /\ \A j \in 1..c : mv.traks[j].kind = "odsm" <=> mv.traks[j].id = mv.od
      /\ mv.od # 0 => HasTrack(mv, mv.od)
      /\ \A j \in 1..c :
            /\ Mpod(mv.traks[j]) # << >> => mv.traks[j].kind = "odsm"
            /\ IsInjective(Mpod(mv.traks[j]))
            /\ \A r \in Range(Mpod(mv.traks[j])) : HasTrack(mv, r) /\ r # id
      /\ IsInjective(mv.iods.ids)
      /\ \A r \in Range(mv.iods.ids) : HasTrack(mv, r) /\ r # id
  BY DEF Good, Referred, Unreferred
<1>6. /\ \A i \in 1..c : mv.traks[i].id # 0
      /\ \A i, j \in 1..c : mv.traks[i].id = mv.traks[j].id => i = j
  BY <1>1 DEF Named
<1> HIDE DEF c
<1>7. \A j \in 1 .. c - 1 : Before(j, k) \in 1..c /\ Before(j, k) # k
  BY <1>2, BeforeIsOneToOne
<1>8. ASSUME NEW j \in 1 .. c - 1
      PROVE  /\ n.traks[j].kind = "odsm" <=> n.traks[j].id = n.od
             /\ Mpod(n.traks[j]) # << >> => n.traks[j].kind = "odsm"
             /\ IsInjective(Mpod(n.traks[j]))
             /\ \A r \in Range(Mpod(n.traks[j])) : HasTrack(n, r)
  <2>1. n.traks[j] = mv.traks[Before(j, k)] /\ Before(j, k) \in 1..c /\ Before(j, k) # k
    BY <1>2, <1>7
  <2>2. n.traks[j].id # id /\ n.traks[j].id # 0
    BY <1>2, <1>6, <2>1
  <2>3. n.traks[j].kind = "odsm" <=> n.traks[j].id = n.od
    BY <1>5, <2>1, <2>2
  <2> QED
    BY <1>4, <1>5, <2>1, <2>3
<1>9. n.od # 0 => HasTrack(n, n.od)
  BY <1>4, <1>5
<1>10. Referred(n)
  BY <1>2, <1>4, <1>5, <1>8, <1>9 DEF Referred
<1> QED
  BY <1>3, <1>10 DEF Good

\* What DeleteTrack has done when it comes to the track itself.
Dereferred(mv, id) == RemoveTrackFromOd(RemoveTrackFromIod(mv, id), id)

LEMMA DereferredKeeps ==
    ASSUME NEW mv, Keyed(mv), NEW id \in Nat, NEW l, l = Dereferred(mv, id)
    PROVE  SameNames(mv, l) /\ l.od = mv.od
<1>1. PICK o : o = RemoveTrackFromIod(mv, id)
  OBVIOUS
<1>2. SameNames(mv, o) /\ o.od = mv.od
  BY <1>1, IodRemoved
<1>3. Keyed(o)
  BY <1>2, KeyedKept
<1>4. SameNames(o, l) /\ l.od = o.od
  BY <1>1, <1>3, OdChanged DEF Dereferred
<1> QED
  BY <1>2, <1>4, SameNamesTwice

LEMMA DereferredIsGood ==
    ASSUME NEW mv, Good(mv), NEW id \in Nat, NEW l, l = Dereferred(mv, id)
    PROVE  Good(l) /\ Unreferred(l, id) /\ l.ok = mv.ok
<1>1. Named(mv) /\ Keyed(mv)
  BY NamedIsKeyed DEF Good
<1>2. PICK o : o = RemoveTrackFromIod(mv, id)
  OBVIOUS
<1>3. /\ \A j \in 1..Len(mv.traks) : mv.traks[j].kind = "odsm" <=> mv.traks[j].id = mv.od
      /\ mv.od # 0 => HasTrack(mv, mv.od)
      /\ \A j \in 1..Len(mv.traks) :
            /\ Mpod(mv.traks[j]) # << >> => mv.traks[j].kind = "odsm"
            /\ IsInjective(Mpod(mv.traks[j]))
            /\ \A r \in Range(Mpod(mv.traks[j])) : HasTrack(mv, r)
            /\ Mpod(mv.traks[j]) \in Seq(Nat)
      /\ IsInjective(mv.iods.ids)
      /\ \A r \in Range(mv.iods.ids) : HasTrack(mv, r)
      /\ \A j \in 1..Len(mv.traks) : mv.traks[j].id # 0
  BY <1>1 DEF Good, Referred, Named, Keyed, Shape, Listed, IsTrak
<1>4. /\ SameNames(mv, o) /\ o.od = mv.od /\ o.traks = mv.traks /\ o.ok = mv.ok
      /\ Range(o.iods.ids) = Range(mv.iods.ids) \ {id} /\ IsInjective(o.iods.ids)
  BY <1>1, <1>2, <1>3, IodRemoved
<1>5. Named(o) /\ Keyed(o)
  BY <1>1, <1>4, NamedKept, KeyedKept
<1>6. /\ SameNames(o, l) /\ l.od = o.od /\ l.iods = o.iods
      /\ o.od = 0 \/ TrakIndex(o, o.od) # 0 => l.ok = o.ok
      /\ \A j \in 1..Len(o.traks) :
            \/ Mpod(l.traks[j]) = Mpod(o.traks[j])
               /\ (o.od # 0 /\ j = TrakIndex(o, o.od) /\ j # 0 => Mpod(o.traks[j]) = << >>)
            \/ o.od # 0 /\ j = TrakIndex(o, o.od) /\ Mpod(l.traks[j]) = Without(Mpod(o.traks[j]), id)
  BY <1>2, <1>5, OdChanged DEF Dereferred
<1>7. Named(l) /\ Keyed(l)
  BY <1>5, <1>6, NamedKept, KeyedKept
<1>8. \A x : HasTrack(l, x) <=> HasTrack(mv, x)
  BY <1>1, <1>4, <1>5, <1>6, SameTracks
<1>9. ASSUME NEW j \in 1..Len(mv.traks), mv.traks[j].kind = "odsm"
      PROVE  mv.od # 0 /\ TrakIndex(o, o.od) = j /\ j # 0
  <2>1. o.traks[j].id = o.od /\ mv.od # 0 /\ j \in 1..Len(o.traks)
    BY <1>3, <1>4, <1>9
  <2>2. TrakIndex(o, o.traks[j].id) = j
    BY <1>5, <2>1, TrakIndexFinds
  <2>3. j # 0
    BY <1>1, TraksDomain DEF Keyed
  <2> QED
    BY <2>1, <2>2, <2>3
<1>10. /\ Len(l.traks) = Len(mv.traks)
       /\ \A j \in 1..Len(mv.traks) : l.traks[j].kind = mv.traks[j].kind
                                      /\ l.traks[j].id = mv.traks[j].id
  BY <1>4, <1>6 DEF SameNames
<1>11. ASSUME NEW j \in 1..Len(mv.traks)
       PROVE  /\ Mpod(l.traks[j]) # << >> => l.traks[j].kind = "odsm"
              /\ IsInjective(Mpod(l.traks[j]))
              /\ \A r \in Range(Mpod(l.traks[j])) : HasTrack(l, r) /\ r # id
  <2>1. CASE Mpod(l.traks[j]) = << >>
    BY <2>1, EmptyRange
  <2>2. CASE /\ o.od # 0 /\ j = TrakIndex(o, o.od)
             /\ Mpod(l.traks[j]) = Without(Mpod(o.traks[j]), id)
    <3>1. j # 0
      BY <1>1, TraksDomain DEF Keyed
    <3>2. o.traks[j].id = o.od
      BY <1>5, <2>2, <3>1, TrakIndexFound
    <3>3. l.traks[j].kind = "odsm"
      BY <1>3, <1>4, <1>10, <3>2
    <3>4. /\ Range(Mpod(l.traks[j])) = Range(Mpod(mv.traks[j])) \ {id}
          /\ IsInjective(Mpod(l.traks[j]))
      BY <1>3, <1>4, <2>2, WithoutIsTheRest
    <3> QED
      BY <1>3, <1>8, <3>3, <3>4
  <2>3. CASE /\ Mpod(l.traks[j]) = Mpod(o.traks[j]) /\ Mpod(l.traks[j]) # << >>
             /\ (o.od # 0 /\ j = TrakIndex(o, o.od) /\ j # 0 => Mpod(o.traks[j]) = << >>)
    <3>1. mv.traks[j].kind = "odsm"
      BY <1>3, <1>4, <2>3
    <3> QED
      BY <1>4, <1>9, <2>3, <3>1
  <2>4. j \in 1..Len(o.traks)
    BY <1>4
  <2> QED
    BY <1>6, <2>1, <2>2, <2>3, <2>4
<1>12. /\ IsInjective(l.iods.ids)
       /\ \A r \in Range(l.iods.ids) : HasTrack(l, r) /\ r # id
  BY <1>3, <1>4, <1>6, <1>8
<1>13. Referred(l)
  <2>1. \A j \in 1..Len(l.traks) : l.traks[j].kind = "odsm" <=> l.traks[j].id = l.od
    BY <1>3, <1>4, <1>6, <1>10
  <2>2. l.od # 0 => HasTrack(l, l.od)
    BY <1>3, <1>4, <1>6, <1>8
  <2> QED
    BY <1>10, <1>11, <1>12, <2>1, <2>2 DEF Referred
<1>14. Unreferred(l, id)
  BY <1>10, <1>11, <1>12 DEF Unreferred
<1>15. l.ok = mv.ok
  <2>1. CASE o.od = 0
    BY <1>4, <1>6, <2>1
  <2>2. CASE o.od # 0
    <3>1. PICK i \in 1..Len(o.tracks) : IdAt(o, i) = o.od
      <4>1. HasTrack(o, o.od)
        BY <1>1, <1>3, <1>4, <2>2, SameTracks
      <4> QED
        BY <1>5, <4>1, TrackIndexFound DEF HasTrack
    <3>2. PICK j \in 1..Len(o.traks) : IdAt(o, i) = o.traks[j].id
      BY <1>5, TrakOfTrack
    <3>3. TrakIndex(o, o.od) = j /\ j # 0
      BY <1>5, <3>1, <3>2, TrakIndexFinds, TraksDomain DEF Keyed
    <3> QED
      BY <1>4, <1>6, <3>3
  <2> QED
    BY <2>1, <2>2
<1> QED
  BY <1>7, <1>13, <1>14, <1>15 DEF Good

\* DeleteTrack throws, or takes the track with the id.
LEMMA DeleteTrackTakes ==
    ASSUME NEW mv, Keyed(mv), NEW id, NEW n, n = DeleteTrack(mv, id)
    PROVE  \/ n = Throw(mv) /\ (TrakIndex(mv, id) = 0 \/ TrackIndex(mv, id) = 0)
           \/ id \in Nat /\ n = Dereferred(mv, id) /\ ~n.ok
           \/ /\ id \in Nat
              /\ \E l, k, p : /\ l = Dereferred(mv, id) /\ TrackGone(l, n, k, p)
                              /\ l.traks[k].id = id /\ n.ids = RemoveAt(l.ids, TrakIndex(mv, id))
                              /\ n.od = (IF l.od = id THEN 0 ELSE l.od) /\ n.iods = l.iods
                              /\ n.ok = l.ok
<1> DEFINE trak  == TrakIndex(mv, id)
           track == TrackIndex(mv, id)
<1>1. PICK l : l = Dereferred(mv, id)
  OBVIOUS
<1>2. PICK k : k = KeyIndex(mv, mv.tracks[track])
  OBVIOUS
<1>3. PICK d : d = [l EXCEPT !.od = IF @ = id THEN 0 ELSE @, !.traks = RemoveAt(@, k),
                             !.ids = RemoveAt(@, trak), !.tracks = RemoveAt(@, track)]
  OBVIOUS
<1>4. n = IF trak = 0 \/ track = 0 THEN Throw(mv) ELSE IF ~l.ok THEN l ELSE d
  BY <1>1, <1>2, <1>3 DEF DeleteTrack, Dereferred
<1>5. CASE trak = 0 \/ track = 0
  BY <1>4, <1>5
<1>6. CASE trak # 0 /\ track # 0
  <2>1. track \in 1..Len(mv.tracks) /\ IdAt(mv, track) = id
    BY <1>6, TrackIndexFound
  <2>2. /\ k \in 1..Len(mv.traks) /\ mv.traks[k].key = mv.tracks[track] /\ mv.traks[k].id = id
    BY <1>2, <2>1, TrakOfTrack
  <2>3. id \in Nat
    BY <2>2 DEF Keyed, Shape, Listed, IsTrak
  <2>4. SameNames(mv, l) /\ l.od = mv.od
    BY <1>1, <2>3, DereferredKeeps
  <2>5. CASE ~l.ok
    BY <1>1, <1>4, <1>6, <2>3, <2>5
  <2>6. CASE l.ok
    <3>1. n = d
      BY <1>4, <1>6, <2>6
    <3>2. Keyed(l) /\ MovieFields \subseteq DOMAIN l
      BY <2>4, KeyedKept DEF Keyed, Shape, Listed
    <3>3. trak \in 1..Len(l.ids)
      <4>1. PICK I : I = {j \in 1..Len(mv.ids) : mv.ids[j] = id}
        OBVIOUS
      <4>2. I # {} /\ trak = Min(I)
        BY <1>6, <4>1 DEF TrakIndex, SelectInSeq
      <4>3. I \subseteq Nat
        BY <4>1, TraksDomain DEF Keyed
      <4>4. Min(I) \in I
        BY <4>2, <4>3, SmallestOf
      <4> QED
        BY <2>4, <4>1, <4>2, <4>4 DEF SameNames
    <3> HIDE DEF trak, track
    <3>4. /\ DOMAIN d = DOMAIN l /\ d.od = (IF l.od = id THEN 0 ELSE l.od)
          /\ d.traks = RemoveAt(l.traks, k) /\ d.ids = RemoveAt(l.ids, trak)
          /\ d.tracks = RemoveAt(l.tracks, track) /\ d.next = l.next /\ d.iods = l.iods
          /\ d.chpl = l.chpl /\ d.items = l.items /\ d.brands = l.brands /\ d.ok = l.ok
      BY <1>3, <3>2 DEF MovieFields
    <3>5. d.ids \in Seq(Nat)
      <4>1. l.ids \in Seq(Nat)
        BY <3>2 DEF Keyed, Shape, Listed
      <4> QED
        BY <3>3, <3>4, <4>1, RemoveAtProperties
    <3>6. Rest(d)
      BY <3>2, <3>4, RestKept DEF Keyed, Shape
    <3>7. /\ k \in 1..Len(l.traks) /\ track \in 1..Len(l.tracks)
          /\ l.traks[k].key = l.tracks[track] /\ l.traks[k].id = id
      BY <2>1, <2>2, <2>4 DEF SameNames
    <3>8. TrackGone(l, d, k, track)
      BY <3>2, <3>4, <3>5, <3>6, <3>7, TrakIsRemoved
    <3> QED
      BY <1>1, <2>3, <3>1, <3>4, <3>7, <3>8 DEF trak
  <2> QED
    BY <2>5, <2>6
<1> QED
  BY <1>5, <1>6

\* Deleting a track takes that track, its trak box and its entry in m_trakIds
\* - though they stand at different places - and every reference to it; it
\* leaves every other track, reached by its own id, and a call that throws
\* leaves all of them (MP4File::DeleteTrack).
THEOREM DeletingKeepsNames ==
    ASSUME NEW mv, Good(mv), NEW id
    PROVE  /\ Good(DeleteTrack(mv, id))
           /\ \A other : other # id /\ HasTrack(mv, other) => HasTrack(DeleteTrack(mv, id), other)
           /\ DeleteTrack(mv, id).ok => ~HasTrack(DeleteTrack(mv, id), id)
<1>1. PICK n : n = DeleteTrack(mv, id)
  OBVIOUS
<1>2. Named(mv) /\ Keyed(mv)
  BY NamedIsKeyed DEF Good
<1>3. CASE n = Throw(mv)
  <2>1. SameNames(mv, n) /\ ~n.ok
    BY <1>2, <1>3, SameNamesThrown
  <2>2. n.od = mv.od /\ n.iods = mv.iods /\ n.traks = mv.traks
    BY <1>2, <1>3 DEF Throw, Keyed, Shape, Listed, MovieFields
  <2>3. Good(n)
    BY <2>1, <2>2, GoodKept
  <2> QED
    BY <1>1, <1>2, <2>1, <2>3, SameTracks
<1>4. CASE id \in Nat /\ n = Dereferred(mv, id) /\ ~n.ok
  BY <1>1, <1>2, <1>4, DereferredIsGood, DereferredKeeps, SameTracks
<1>5. ASSUME id \in Nat, NEW l, NEW k, NEW p, l = Dereferred(mv, id), TrackGone(l, n, k, p),
             l.traks[k].id = id, n.ids = RemoveAt(l.ids, TrakIndex(mv, id)),
             n.od = (IF l.od = id THEN 0 ELSE l.od), n.iods = l.iods
      PROVE  Good(n) /\ (\A other : other # id /\ HasTrack(mv, other) => HasTrack(n, other))
             /\ ~HasTrack(n, id)
  <2>1. Good(l) /\ Unreferred(l, id) /\ SameNames(mv, l)
    BY <1>2, <1>5, DereferredIsGood, DereferredKeeps
  <2>2. Named(l) /\ Keyed(l)
    BY <2>1, NamedIsKeyed DEF Good
  <2>3. n.ids = RemoveAt(l.ids, k)
    <3>1. k \in 1..Len(mv.traks) /\ mv.traks[k].id = id
      BY <1>5, <2>1 DEF TrackGone, SameNames
    <3>2. TrakIndex(mv, id) = k
      BY <1>2, <3>1, TrakIndexFinds
    <3> QED
      BY <1>5, <3>2
  <2>4. Good(n)
    BY <1>5, <2>1, <2>3, GoodGone
  <2>5. ~HasTrack(n, id)
    BY <1>5, <2>2, <2>3, NamedGone
  <2>6. \A other : other # id /\ HasTrack(mv, other) => HasTrack(n, other)
    BY <1>2, <1>5, <2>1, <2>2, HasTrackGone, SameTracks
  <2> QED
    BY <2>4, <2>5, <2>6
<1> QED
  BY <1>1, <1>2, <1>3, <1>4, <1>5, DeleteTrackTakes

\* Deleting another track does not end a clash.
LEMMA DeletingKeepsClash ==
    ASSUME NEW mv, Keyed(mv), NEW x, ClashAt(mv, x), NEW id, id # x
    PROVE  Keyed(DeleteTrack(mv, id)) /\ ClashAt(DeleteTrack(mv, id), x)
<1>1. PICK n : n = DeleteTrack(mv, id)
  OBVIOUS
<1>2. ASSUME SameNames(mv, n) PROVE Keyed(n) /\ ClashAt(n, x)
  BY <1>2, KeyedKept, ClashKept
<1>3. n = Throw(mv) => SameNames(mv, n)
  BY SameNamesThrown
<1>4. id \in Nat /\ n = Dereferred(mv, id) => SameNames(mv, n)
  BY DereferredKeeps
<1>5. ASSUME id \in Nat, NEW l, NEW k, NEW p, l = Dereferred(mv, id), TrackGone(l, n, k, p),
             l.traks[k].id = id
      PROVE  Keyed(n) /\ ClashAt(n, x)
  <2>1. Keyed(l) /\ ClashAt(l, x)
    BY <1>5, DereferredKeeps, KeyedKept, ClashKept
  <2>2. Keyed(n)
    BY <1>5 DEF TrackGone
  <2>3. x # l.traks[k].id
    BY <1>5
  <2>4. ClashAt(n, x)
    BY <1>5, <2>1, <2>3, ClashKeptBeside
  <2> QED
    BY <2>2, <2>4
<1> QED
  BY <1>1, <1>2, <1>3, <1>4, <1>5, DeleteTrackTakes

-----------------------------------------------------------------------------
(* MakeIsmaCompliant.                                                      *)

LEMMA FirstOfKindIs ==
    ASSUME NEW mv, Keyed(mv), NEW kind, NEW id, id = FirstOfKind(mv, kind), id # 0
    PROVE  id \in Nat /\ HasTrack(mv, id)
           /\ \E j \in 1..Len(mv.traks) : mv.traks[j].id = id /\ mv.traks[j].kind = kind
<1> DEFINE I == {j \in 1..Len(mv.tracks) : TrakOf(mv, mv.tracks[j]).kind = kind}
           i == SelectInSeq(mv.tracks, LAMBDA key : TrakOf(mv, key).kind = kind)
<1>1. I # {} => i = Min(I)
  BY DEF SelectInSeq
<1>2. I = {} => i = 0
  BY DEF SelectInSeq
<1>3. I \subseteq Nat /\ 0 \notin I
  BY TraksDomain DEF Keyed
<1>4. id = IF i = 0 THEN 0 ELSE IdAt(mv, i)
  BY DEF FirstOfKind
<1> HIDE DEF I, i
<1>5. i \in I
  BY <1>1, <1>2, <1>3, <1>4, SmallestOf
<1>6. i \in 1..Len(mv.tracks) /\ TrakOf(mv, mv.tracks[i]).kind = kind
  BY <1>5 DEF I
<1>7. PICK j \in 1..Len(mv.traks) :
        mv.traks[j].key = mv.tracks[i] /\ TrakOf(mv, mv.tracks[i]) = mv.traks[j]
        /\ IdAt(mv, i) = mv.traks[j].id
  BY <1>6, TrakOfTrack
<1>8. mv.traks[j].id = id /\ mv.traks[j].kind = kind
  BY <1>3, <1>4, <1>5, <1>6, <1>7
<1>9. id \in Nat
  BY <1>8 DEF Keyed, Shape, Listed, IsTrak
<1> QED
  BY <1>6, <1>7, <1>8, <1>9, HasTrackIs

\* The object descriptors refer to tracks of these kinds only.
OnlyRefers(mv, kinds) ==
    \A j \in 1..Len(mv.traks) : \A r \in Range(Mpod(mv.traks[j])) :
        \E k \in 1..Len(mv.traks) : mv.traks[k].id = r /\ mv.traks[k].kind \in kinds

Tame(mv, kinds) == (Good(mv) /\ OnlyRefers(mv, kinds)) \/ ClashBeside(mv)

LEMMA RefersMore ==
    ASSUME NEW mv, NEW kinds, OnlyRefers(mv, kinds), NEW kind
    PROVE  OnlyRefers(mv, kinds \cup {kind})
BY DEF OnlyRefers

LEMMA ReferKeeps ==
    ASSUME NEW mv, NEW kinds, Tame(mv, kinds), NEW kind, kind \notin kinds,
           NEW n, n = Refer(mv, kind)
    PROVE  Tame(n, kinds \cup {kind})
<1>1. Keyed(mv)
  BY NamedIsKeyed DEF Tame, Good, ClashBeside
<1>2. PICK id : id = FirstOfKind(mv, kind)
  OBVIOUS
<1>3. CASE id = 0 \/ ~mv.ok
  <2>1. n = mv
    BY <1>2, <1>3 DEF Refer
  <2> QED
    BY <2>1, RefersMore DEF Tame
<1>4. CASE id # 0 /\ mv.ok
  <2>1. id \in Nat /\ HasTrack(mv, id) /\ n = AddTrackToOd(mv, id)
    BY <1>1, <1>2, <1>4, FirstOfKindIs DEF Refer
  <2>2. PICK k \in 1..Len(mv.traks) : mv.traks[k].id = id /\ mv.traks[k].kind = kind
    BY <1>1, <1>2, <1>4, FirstOfKindIs
  <2>3. /\ SameNames(mv, n)
        /\ \A j \in 1..Len(mv.traks) : \/ Mpod(n.traks[j]) = Mpod(mv.traks[j])
                                       \/ Mpod(n.traks[j]) = Append(Mpod(mv.traks[j]), id)
    BY <1>1, <2>1, OdChanged
  <2>4. CASE ClashBeside(mv)
    BY <2>3, <2>4, ClashBesideKept DEF Tame
  <2>5. CASE Good(mv) /\ OnlyRefers(mv, kinds)
    <3>1. \A j \in 1..Len(mv.traks) : id \notin Range(Mpod(mv.traks[j]))
      <4> SUFFICES ASSUME NEW j \in 1..Len(mv.traks), id \in Range(Mpod(mv.traks[j]))
                   PROVE  FALSE
        OBVIOUS
      <4>1. PICK l \in 1..Len(mv.traks) : mv.traks[l].id = id /\ mv.traks[l].kind \in kinds
        BY <2>5 DEF OnlyRefers
      <4>2. l = k
        BY <2>2, <2>5, <4>1 DEF Good, Named
      <4> QED
        BY <2>2, <4>1, <4>2
    <3>2. Good(n)
      BY <2>1, <2>5, <3>1, GoodOdAdded
    <3>3. OnlyRefers(n, kinds \cup {kind})
      <4> SUFFICES ASSUME NEW j \in 1..Len(n.traks), NEW r \in Range(Mpod(n.traks[j]))
                   PROVE  \E l \in 1..Len(n.traks) : n.traks[l].id = r
                                                     /\ n.traks[l].kind \in kinds \cup {kind}
        BY DEF OnlyRefers
      <4>1. /\ Len(n.traks) = Len(mv.traks)
            /\ \A l \in 1..Len(mv.traks) : n.traks[l].id = mv.traks[l].id
                                           /\ n.traks[l].kind = mv.traks[l].kind
        BY <2>3 DEF SameNames
      <4>2. Mpod(mv.traks[j]) \in Seq(Nat)
        BY <1>1, <4>1 DEF Keyed, Shape, Listed, IsTrak
      <4>3. r \in Range(Mpod(mv.traks[j])) \/ r = id
        <5>1. \/ Mpod(n.traks[j]) = Mpod(mv.traks[j])
              \/ Mpod(n.traks[j]) = Append(Mpod(mv.traks[j]), id)
          BY <2>3, <4>1
        <5>2. Range(Append(Mpod(mv.traks[j]), id)) = Range(Mpod(mv.traks[j])) \cup {id}
          BY <2>1, <4>2, Behind
        <5> QED
          BY <5>1, <5>2
      <4>4. CASE r = id
        BY <2>2, <4>1, <4>4
      <4>5. CASE r \in Range(Mpod(mv.traks[j]))
        <5>1. PICK l \in 1..Len(mv.traks) : mv.traks[l].id = r /\ mv.traks[l].kind \in kinds
          BY <2>5, <4>1, <4>5 DEF OnlyRefers
        <5> QED
          BY <4>1, <5>1
      <4> QED
        BY <4>3, <4>4, <4>5
    <3> QED
      BY <3>2, <3>3 DEF Tame
  <2> QED
    BY <2>4, <2>5 DEF Tame
<1> QED
  BY <1>3, <1>4

\* The scene track is deleted; one is added.
LEMMA SceneDeleted ==
    ASSUME NEW mv, NEW kinds, Tame(mv, kinds), NEW id, id = FirstOfKind(mv, "sdsm"), id # 0
    PROVE  Fair(DeleteTrack(mv, id))
<1>1. Keyed(mv)
  BY NamedIsKeyed DEF Tame, Good, ClashBeside
<1>2. Good(mv) => Good(DeleteTrack(mv, id))
  BY DeletingKeepsNames
<1>3. CASE ClashBeside(mv)
  <2>1. PICK x : ClashAt(mv, x) /\ NoScene(mv, x)
    BY <1>3 DEF ClashBeside
  <2>2. PICK j \in 1..Len(mv.traks) : mv.traks[j].id = id /\ mv.traks[j].kind = "sdsm"
    BY <1>1, FirstOfKindIs
  <2>3. id # x
    BY <2>1, <2>2 DEF NoScene
  <2>4. Keyed(DeleteTrack(mv, id)) /\ ClashAt(DeleteTrack(mv, id), x)
    BY <1>1, <2>1, <2>3, DeletingKeepsClash
  <2> QED
    BY <2>4 DEF Fair, Clashed
<1> QED
  BY <1>2, <1>3 DEF Tame, Fair

LEMMA SceneAdded ==
    ASSUME NEW mv, Fair(mv)
    PROVE  Fair(AddSceneTrack(mv))
<1>1. CASE Good(mv)
  BY <1>1, AddsSceneTrack
<1>2. CASE Clashed(mv)
  <2>1. PICK t : t = AddTrack(mv, "sdsm")
    OBVIOUS
  <2>2. PICK id : id = Newest(t)
    OBVIOUS
  <2>3. PICK s : s = AddTrackToIod(t, id)
    OBVIOUS
  <2>4. AddSceneTrack(mv) = IF ~t.ok THEN t ELSE IF ~s.ok THEN s ELSE AddTrackToOd(s, id)
    BY <2>1, <2>2, <2>3 DEF AddSceneTrack
  <2>5. /\ \E b : TrakAdded(mv, t, b)
        /\ AllocTrackId(mv) # 0 => TrackAdded(mv, t, AllocTrackId(mv), "sdsm")
                                   /\ Newest(t) = AllocTrackId(mv)
        /\ AllocTrackId(mv) = 0 => ~t.ok
    BY <1>2, <2>1, AddTrackAdds DEF Clashed
  <2>6. Clashed(t) /\ Keyed(t)
    BY <1>2, <2>5, AddedClashKept DEF Clashed, TrakAdded
  <2>7. CASE t.ok
    <3>1. id \in Nat
      BY <2>2, <2>5, <2>7 DEF TrackAdded
    <3>2. SameNames(t, s)
      BY <2>3, <2>6, <3>1, IodAdded
    <3>3. Clashed(s) /\ Keyed(s)
      BY <2>6, <3>2, ClashedKept DEF Clashed
    <3>4. SameNames(s, AddTrackToOd(s, id))
      BY <3>1, <3>3, OdChanged
    <3>5. Clashed(AddTrackToOd(s, id))
      BY <3>3, <3>4, ClashedKept
    <3> QED
      BY <2>4, <3>3, <3>5, <2>7 DEF Fair
  <2>8. CASE ~t.ok
    BY <2>4, <2>6, <2>8 DEF Fair
  <2> QED
    BY <2>7, <2>8
<1> QED
  BY <1>1, <1>2 DEF Fair

\* A flag changes.
LEMMA FlagSet ==
    ASSUME NEW mv, Good(mv), NEW n,
           \/ n = [mv EXCEPT !.isma = TRUE]
           \/ n = [mv EXCEPT !.iods.present = TRUE]
           \/ n = [mv EXCEPT !.ok = TRUE]
    PROVE  Good(n) /\ (n.ok \/ ~mv.ok \/ n.ok = mv.ok)
<1>1. Keyed(mv)
  BY NamedIsKeyed DEF Good
<1>2. /\ MovieFields \subseteq DOMAIN mv /\ {"present", "ids"} \subseteq DOMAIN mv.iods
      /\ mv.iods.ids \in Seq(Nat)
  BY <1>1 DEF Keyed, Shape, Listed, Rest
<1>3. /\ DOMAIN n = DOMAIN mv /\ \A f \in DOMAIN mv \ {"isma", "iods", "ok"} : n[f] = mv[f]
      /\ n.iods.ids = mv.iods.ids /\ DOMAIN n.iods = DOMAIN mv.iods
      /\ n.ok \/ ~mv.ok \/ n.ok = mv.ok
  BY <1>2 DEF MovieFields
<1>4. /\ n.chpl = mv.chpl /\ n.items = mv.items /\ n.brands = mv.brands /\ n.od = mv.od
      /\ n.traks = mv.traks
  BY <1>2, <1>3 DEF MovieFields
<1>5. Rest(n)
  BY <1>1, <1>2, <1>3, <1>4 DEF Rest, Keyed, Shape
<1>6. SameNames(mv, n)
  BY <1>1, <1>3, <1>5, SameNamesOtherwise DEF Alike
<1> QED
  BY <1>3, <1>4, <1>6, GoodKept

\* MakeIsmaCompliant keeps every id leading to its own trak box and every
\* reference leading to a track, whichever of its steps throws; if not, an id
\* ran out or was that of a trak box without a track.
THEOREM IsmaKeepsNames ==
    ASSUME NEW mv, Good(mv), mv.ok
    PROVE  Fair(MakeIsmaCompliant(mv))
<1>1. PICK b : b = [mv EXCEPT !.isma = TRUE]
  OBVIOUS
<1>2. PICK a : a = DeleteOld(b, b.od)
  OBVIOUS
<1>3. PICK p : p = [a EXCEPT !.iods.present = TRUE]
  OBVIOUS
<1>4. PICK o : o = NewOd(b)
  OBVIOUS
<1>5. PICK r : r = Refer(o, "soun")
  OBVIOUS
<1>6. PICK v : v = Refer(r, "vide")
  OBVIOUS
<1>7. PICK d : d = DeleteOld(v, FirstOfKind(v, "sdsm"))
  OBVIOUS
<1>8. MakeIsmaCompliant(mv) \in {mv, d, AddSceneTrack(d)}
  <2>1. MakeIsmaCompliant(mv) \in {mv, NewScene(v)}
    BY <1>1, <1>4, <1>5, <1>6 DEF MakeIsmaCompliant
  <2>2. NewScene(v) \in {d, AddSceneTrack(d)}
    BY <1>7 DEF NewScene
  <2> QED
    BY <2>1, <2>2
<1>9. Good(b)
  BY <1>1, FlagSet
<1>10. Good(a)
  BY <1>2, <1>9, DeletingKeepsNames DEF DeleteOld
<1>11. Fair(o) /\ (o.ok => Tame(o, {}))
  <2>1. CASE a.ok
    <3>1. Good(p)
      BY <1>3, <1>10, FlagSet
    <3>2. p.ok
      <4>1. MovieFields \subseteq DOMAIN a
        BY <1>10 DEF Good, Named, Keyed, Shape, Listed
      <4> QED
        BY <1>3, <2>1, <4>1 DEF MovieFields
    <3>3. o = AddODTrack(p)
      BY <1>2, <1>3, <1>4, <2>1 DEF NewOd
    <3>4. /\ Fair(o)
          /\ o.ok => \/ Good(o) /\ \A j \in 1..Len(o.traks) : Mpod(o.traks[j]) = << >>
                     \/ ClashBeside(o)
      BY <3>1, <3>2, <3>3, AddsODTrack
    <3>5. (\A j \in 1..Len(o.traks) : Mpod(o.traks[j]) = << >>) => OnlyRefers(o, {})
      BY EmptyRange DEF OnlyRefers
    <3> QED
      BY <3>4, <3>5 DEF Tame
  <2>2. CASE ~a.ok
    <3>1. o = a
      BY <1>2, <1>4, <2>2 DEF NewOd
    <3> QED
      BY <1>10, <2>2, <3>1 DEF Fair
  <2> QED
    BY <2>1, <2>2
<1>12. CASE ~o.ok
  <2>1. r = o
    BY <1>5, <1>12 DEF Refer
  <2>2. v = o
    BY <1>6, <1>12, <2>1 DEF Refer
  <2>3. d = o
    BY <1>7, <1>12, <2>2 DEF DeleteOld
  <2> QED
    BY <1>8, <1>11, <2>3, SceneAdded DEF Fair
<1>13. CASE o.ok
  <2> DEFINE A == {} \cup {"soun"}
             B == A \cup {"vide"}
  <2>1. Tame(r, A)
    BY <1>5, <1>11, <1>13, ReferKeeps
  <2>2. Tame(v, B)
    <3>1. "vide" \notin A
      OBVIOUS
    <3> HIDE DEF A
    <3> QED
      BY <1>6, <2>1, <3>1, ReferKeeps
  <2> HIDE DEF A, B
  <2>3. Fair(v)
    BY <2>2 DEF Tame, Fair, ClashBeside, Clashed
  <2>4. Fair(d)
    <3>1. PICK id : id = FirstOfKind(v, "sdsm")
      OBVIOUS
    <3>2. id # 0 => Fair(DeleteTrack(v, id))
      BY <2>2, <3>1, SceneDeleted
    <3> QED
      BY <1>7, <2>3, <3>1, <3>2 DEF DeleteOld
  <2> QED
    BY <1>8, <2>4, SceneAdded DEF Fair
<1> QED
  BY <1>12, <1>13
=============================================================================
