---------------------------- MODULE OptimizeProofs ----------------------------
(***************************************************************************)
(* Proofs about module Optimize: the theorems at the end follow from one   *)
(* inductive invariant, OptInv.                                            *)
(*                                                                         *)
(* Until it is done, Optimize leaves the tracks as they were but for their *)
(* caches (TrackInv, Unwritten).  While it copies (Copying), each track's  *)
(* table of chunks is as a reader counts it (Table), so the sizes and the  *)
(* times RewriteMdat asks for are those of the chunks as they were flushed;*)
(* the chunks before nextChunk are in the new file where the offsets in    *)
(* memory say (TrackCopied) and nothing else is (FileCopied); and every    *)
(* chunk copied may lie before every chunk left (Orderly).                 *)
(***************************************************************************)
EXTENDS ReadBackProofs, Optimize

-----------------------------------------------------------------------------
(* What the tables say of a chunk.                                         *)

\* The entry found for a chunk is the one whose chunks it is among.
LEMMA ChunkEntry ==
    ASSUME NEW stsc \in Seq(StscType), NEW n \in Nat, NEW first, Shaped(stsc, first, n),
           NEW c \in 1..n
    PROVE  LET i == GetChunkStscIndex(stsc, c)
           IN  i \in 1..Len(stsc) /\ stsc[i].firstChunk <= c /\ c < ChunkAfter(stsc, i, n)
<1> DEFINE later == {i \in 1..Len(stsc) : c < stsc[i].firstChunk}
           len == Len(stsc)
<1>1. len \in Nat /\ len # 0 /\ stsc[1].firstChunk = 1
  BY LenProperties DEF Shaped
<1>2. \A i \in 1..len : stsc[i].firstChunk \in 1..n
  BY ChunksIn
<1>3. \A i \in 1..len : i \notin later => stsc[i].firstChunk <= c
  BY <1>2
<1>4. GetChunkStscIndex(stsc, c) = IF later = {} THEN len ELSE Min(later) - 1
  BY DEF GetChunkStscIndex
<1>5. CASE later = {}
  <2>1. len \in 1..len /\ len \notin later
    BY <1>1, <1>5
  <2>2. c < ChunkAfter(stsc, len, n)
    BY <1>1 DEF ChunkAfter
  <2> QED
    BY <1>3, <1>4, <1>5, <2>1, <2>2
<1>6. CASE later # {}
  <2>1. later \subseteq Nat
    BY <1>1
  <2>2. PICK j \in 1..len : /\ j = Min(later) /\ j \in later /\ \A i \in later : j <= i
    BY <1>6, <2>1, MinIsSmallest
  <2>3. 1 \notin later
    BY <1>1
  <2>4. PICK i \in 1..len : i = j - 1 /\ i + 1 = j /\ i < len
    <3>1. j # 1
      BY <2>2, <2>3
    <3>2. j - 1 \in 1..len /\ j - 1 + 1 = j /\ j - 1 < len
      BY <1>1, <3>1
    <3> QED
      BY <3>2
  <2>5. i \notin later
    BY <1>1, <2>2, <2>4
  <2>6. c < stsc[j].firstChunk
    BY <2>2
  <2>7. ChunkAfter(stsc, i, n) = stsc[j].firstChunk
    BY <2>4 DEF ChunkAfter
  <2> HIDE DEF later
  <2>8. GetChunkStscIndex(stsc, c) = i
    BY <1>4, <1>6, <2>2, <2>4
  <2> QED
    BY <1>3, <2>5, <2>6, <2>7, <2>8
<1> QED
  BY <1>5, <1>6

\* The samples of a chunk are those from its first one to that of the next.
LEMMA ChunkSamples ==
    ASSUME NEW stsc \in Seq(StscType), NEW n \in Nat, NEW first, Shaped(stsc, first, n),
           Starts(stsc, first), NEW c \in 1..n
    PROVE  /\ first[c] \in Nat \ {0} /\ first[c + 1] \in Nat /\ first[c] < first[c + 1]
           /\ SamplesInChunk(stsc, c) = first[c]..(first[c + 1] - 1)
<1>1. PICK i \in 1..Len(stsc) : /\ i = GetChunkStscIndex(stsc, c)
                               /\ stsc[i].firstChunk <= c /\ c < ChunkAfter(stsc, i, n)
  BY ChunkEntry
<1>2. PICK b \in 1..(n + 1) : /\ b = ChunkAfter(stsc, i, n) /\ c < b
                              /\ Regular(stsc[i], b, first, n)
  BY <1>1, ChunksIn
<1>3. PICK f \in 1..n, s \in Nat \ {0} : f = stsc[i].firstChunk /\ s = stsc[i].samplesPerChunk
  BY ChunksIn DEF StscType
<1>4. /\ c \in f..b /\ c + 1 \in f..b /\ c \in 1..(n + 1) /\ c + 1 \in 1..(n + 1)
      /\ f \in 1..(n + 1)
  BY <1>1, <1>2, <1>3
<1>5. first[f] \in Nat \ {0} /\ first[c] \in Nat \ {0} /\ first[c + 1] \in Nat
  BY <1>4 DEF Shaped
<1>6. PICK a \in Nat, x \in Nat, y \in Nat : a = first[f] /\ x = first[c] /\ y = first[c + 1]
  BY <1>5
<1>7. /\ first[c] = first[f] + (c - f) * s
      /\ first[c + 1] = first[f] + (c + 1 - f) * s
  BY <1>2, <1>3, <1>4 DEF Regular
<1>8. PICK q \in Nat : q = c - f /\ c + 1 - f = q + 1
  BY <1>1, <1>3
<1>9. PICK z \in Int : z = q * s /\ (q + 1) * s = z + s
  BY OneMore
<1>10. x = a + z /\ y = a + (z + s)
  BY <1>6, <1>7, <1>8, <1>9
<1> HIDE <1>7
<1>11. x < y /\ x + s - 1 = y - 1
  BY <1>10
<1>12. stsc[i].firstSample = a
  BY <1>3, <1>6 DEF Starts
<1>13. SamplesInChunk(stsc, c)
       = (stsc[i].firstSample + (c - stsc[i].firstChunk) * stsc[i].samplesPerChunk)
         ..(stsc[i].firstSample + (c - stsc[i].firstChunk) * stsc[i].samplesPerChunk
            + stsc[i].samplesPerChunk - 1)
  BY <1>1 DEF SamplesInChunk
<1>14. SamplesInChunk(stsc, c) = (a + q * s)..(a + q * s + s - 1)
  BY <1>3, <1>8, <1>12, <1>13
<1>15. SamplesInChunk(stsc, c) = x..(x + s - 1)
  BY <1>9, <1>10, <1>14
<1> QED
  BY <1>5, <1>6, <1>11, <1>15

\* Track t as reading its tables finds it: chunk c starts with sample first[c],
\* and stsc says so.
Table(t, first) == Ghost(Media(t), t, hist[t], first) /\ Starts(chunks[t].stsc, first)

\* The bytes and the first sample of chunk c are those the tables say.
ChunkIs(t, first, c) ==
    /\ first[c] \in 1..Len(hist[t]) /\ first[c] < first[c + 1]
    /\ first[c + 1] <= Len(hist[t]) + 1
    /\ Min(SamplesInChunk(chunks[t].stsc, c)) = first[c]
    /\ GetChunkSize(t, c) = Len(flushed[t][c])
    /\ HoldsPart(flushed[t][c], t, hist[t], first[c], first[c + 1])

LEMMA TableIs ==
    ASSUME StateType, NEW t \in Tracks, NEW first, Table(t, first)
    PROVE  /\ hist[t] \in Seq(SampleType) /\ Len(hist[t]) \in Nat
           /\ flushed[t] \in Seq(Seq(Byte)) /\ Len(flushed[t]) \in Nat
           /\ chunks[t].stco \in Seq(Nat) /\ Len(chunks[t].stco) = Len(flushed[t])
           /\ chunks[t].stsc \in Seq(StscType)
           /\ Shaped(chunks[t].stsc, first, Len(flushed[t]))
           /\ \A c \in 1..Len(flushed[t]) :
                 HoldsPart(flushed[t][c], t, hist[t], first[c], first[c + 1])
           /\ \A c \in 1..(Len(flushed[t]) + 1) :
                 first[c] \in Nat \ {0} /\ first[c] <= Len(hist[t]) + 1
<1>1. /\ hist[t] \in Seq(SampleType) /\ flushed[t] \in Seq(Seq(Byte))
      /\ chunks[t].stco \in Seq(Nat) /\ buffer[t].samples \in Nat
  BY DEF StateType, MediaType, WriterType
<1>2. /\ IsMedia(Media(t)) /\ Media(t).flushed = flushed[t] /\ Media(t).chunks = chunks[t]
      /\ Media(t).buffer = buffer[t]
  BY MediaIsMedia DEF StateType
<1>3. Len(hist[t]) \in Nat /\ Len(flushed[t]) \in Nat
  BY <1>1, LenProperties
<1>4. /\ Len(chunks[t].stco) = Len(flushed[t]) /\ chunks[t].stsc \in Seq(StscType)
      /\ Shaped(chunks[t].stsc, first, Len(flushed[t]))
      /\ \A c \in 1..Len(flushed[t]) :
                 HoldsPart(flushed[t][c], t, hist[t], first[c], first[c + 1])
      /\ first[Len(flushed[t]) + 1] + buffer[t].samples = Len(hist[t]) + 1
  BY <1>2 DEF Table, Ghost
<1>5. \A c \in 1..(Len(flushed[t]) + 1) :
          first[c] \in Nat \ {0} /\ first[c] <= Len(hist[t]) + 1
  <2> SUFFICES ASSUME NEW c \in 1..(Len(flushed[t]) + 1)
               PROVE  first[c] \in Nat \ {0} /\ first[c] <= Len(hist[t]) + 1
    OBVIOUS
  <2>1. /\ first[c] \in Nat \ {0} /\ first[c] <= first[Len(flushed[t]) + 1]
        /\ first[Len(flushed[t]) + 1] \in Nat \ {0}
    BY <1>2, GhostFirst DEF Table
  <2> QED
    BY <1>1, <1>3, <1>4, <2>1
<1> QED
  BY <1>1, <1>3, <1>4, <1>5

LEMMA ChunkFacts ==
    ASSUME StateType, SizesInv, WholeUnits, NEW t \in Tracks, OfSamples(hist[t]),
           NEW first, Table(t, first), NEW c \in 1..Len(flushed[t])
    PROVE  ChunkIs(t, first, c)
<1> DEFINE h == hist[t]
           n == Len(flushed[t])
           S == SamplesInChunk(chunks[t].stsc, c)
           g == [s \in S |-> GetSampleSize(stsz[t], s, BytesPerSample)]
<1>1. /\ h \in Seq(SampleType) /\ Len(h) \in Nat /\ n \in Nat
      /\ chunks[t].stsc \in Seq(StscType) /\ Shaped(chunks[t].stsc, first, n)
      /\ HoldsPart(flushed[t][c], t, h, first[c], first[c + 1])
  BY TableIs
<1>2. /\ first[c] \in Nat \ {0} /\ first[c + 1] \in Nat /\ first[c] < first[c + 1]
      /\ S = first[c]..(first[c + 1] - 1)
  BY <1>1, ChunkSamples DEF Table
<1>3. first[c + 1] <= Len(h) + 1
  <2>1. c + 1 \in 1..(n + 1)
    BY <1>1
  <2> QED
    BY <2>1, TableIs
<1> HIDE DEF h, S
<1>4. PICK a \in Nat \ {0}, b \in Nat : a = first[c] /\ b = first[c + 1] /\ a < b /\ b <= Len(h) + 1
  BY <1>2, <1>3
<1>5. S \subseteq Nat /\ a \in S /\ \A y \in S : a <= y
  BY <1>2, <1>4
<1>6. Min(S) = a
  BY <1>5, MinIs
<1>7. \A s \in S : g[s] = Sizes(h)[s] /\ Sizes(h)[s] \in Int
  <2> SUFFICES ASSUME NEW s \in S PROVE g[s] = Sizes(h)[s] /\ Sizes(h)[s] \in Int
    OBVIOUS
  <2>1. s \in 1..Len(h)
    BY <1>1, <1>2, <1>4
  <2>2. GetSampleSize(stsz[t], s, BytesPerSample) = h[s].size
    BY <2>1, WholeSizes DEF h
  <2>3. Sizes(h)[s] = h[s].size /\ h[s].size \in Nat
    BY <1>1, <2>1, SizesAre
  <2> QED
    BY <2>2, <2>3
<1>8. SumFunction(g) = SumFunctionOnSet(Sizes(h), S)
  <2>1. IsFiniteSet(S)
    BY <1>2, <1>4, IntervalFinite
  <2>2. SumFunctionOnSet(g, S) = SumFunctionOnSet(Sizes(h), S)
    <3> HIDE DEF g
    <3> QED
      BY <1>7, <2>1, SumOfEqual
  <2>3. DOMAIN g = S
    OBVIOUS
  <2> QED
    BY <2>2, <2>3 DEF SumFunction
<1>9. GetChunkSize(t, c) = SumFunction(g)
  BY DEF GetChunkSize, S
<1>10. Len(flushed[t][c]) = SumFunctionOnSet(Sizes(h), S)
  BY <1>1, <1>2 DEF HoldsPart, BytesOf
<1>11. first[c] \in 1..Len(h)
  BY <1>1, <1>4
<1> QED
  BY <1>1, <1>2, <1>3, <1>4, <1>6, <1>8, <1>9, <1>10, <1>11 DEF ChunkIs, h, S

-----------------------------------------------------------------------------
(* When a chunk starts.                                                    *)

StartTime(t, c) == TimeBefore(t, Min(SamplesInChunk(chunks[t].stsc, c)))

\* In the time scale of the movie.
InMovie(t, c) == MP4ConvertTime(StartTime(t, c), TimeScale, MovieTimeScale)

LEMMA ConvertGrows ==
    ASSUME NEW a \in Nat, NEW b \in Nat, a <= b
    PROVE  /\ MP4ConvertTime(a, TimeScale, MovieTimeScale) \in Nat
           /\ MP4ConvertTime(b, TimeScale, MovieTimeScale) \in Nat
           /\ MP4ConvertTime(a, TimeScale, MovieTimeScale)
              <= MP4ConvertTime(b, TimeScale, MovieTimeScale)
<1>1. PICK c \in Nat \ {0}, m \in Nat, d \in Nat :
          c = TimeScale /\ m = MovieTimeScale /\ d = b - a /\ b = a + d
  BY TrackAssumption
<1>2. PICK x \in Nat, y \in Nat : x = a * m /\ y = b * m /\ x <= y
  BY <1>1, ProductMonotonic
<1>3. x \div c \in Nat /\ y \div c \in Nat /\ x \div c <= y \div c
  BY <1>2, QuotientMonotonic, QuotientBounds
<1>4. /\ MP4ConvertTime(a, c, m) = IF c = m THEN a ELSE x \div c
      /\ MP4ConvertTime(b, c, m) = IF c = m THEN b ELSE y \div c
  BY <1>2 DEF MP4ConvertTime
<1> QED
  BY <1>1, <1>3, <1>4

LEMMA TimeBeforeGrows ==
    ASSUME IInv, NEW t \in Tracks, NEW a \in Nat \ {0}, NEW b \in Nat, a <= b,
           b <= Len(hist[t]) + 1
    PROVE  TimeBefore(t, a) \in Nat /\ TimeBefore(t, b) \in Nat
           /\ TimeBefore(t, a) <= TimeBefore(t, b)
<1>1. PICK j \in Int, k \in Int : j = a - 1 /\ k = b - 1 /\ j <= k /\ k <= Len(hist[t])
  BY HistoryIs
<1>2. \A x \in 1..k : DurationsOf(t)[x] \in Nat
  <2>1. \A x \in 1..k : x \in 1..Len(hist[t])
    BY <1>1, HistoryIs
  <2> QED
    BY <2>1, HistoryIs
<1>3. /\ SumFunctionOnSet(DurationsOf(t), 1..j) \in Nat
      /\ SumFunctionOnSet(DurationsOf(t), 1..k) \in Nat
      /\ SumFunctionOnSet(DurationsOf(t), 1..j) <= SumFunctionOnSet(DurationsOf(t), 1..k)
  BY <1>1, <1>2, SumGrows
<1> QED
  BY <1>1, <1>3 DEF TimeBefore

LEMMA ChunkTimesGrow ==
    ASSUME IInv, SizesInv, WholeUnits, NEW t \in Tracks, OfSamples(hist[t]),
           NEW first, Table(t, first),
           NEW c \in 1..Len(flushed[t]), NEW d \in 1..Len(flushed[t]), d = c \/ d = c + 1
    PROVE  InMovie(t, c) \in Nat /\ InMovie(t, c) <= InMovie(t, d)
<1>1. StateType
  BY DEF IInv
<1>2. ChunkIs(t, first, c) /\ ChunkIs(t, first, d)
  BY <1>1, ChunkFacts
<1>3. PICK a \in Nat \ {0}, b \in Nat \ {0} :
          a = first[c] /\ b = first[d] /\ a <= b /\ b <= Len(hist[t]) + 1
  <2>1. Len(hist[t]) \in Nat
    BY HistoryIs
  <2>2. first[c] \in 1..Len(hist[t]) /\ first[d] \in 1..Len(hist[t]) /\ first[c] < first[c + 1]
    BY <1>2 DEF ChunkIs
  <2>3. first[c] <= first[d]
    BY <2>2
  <2> QED
    BY <2>1, <2>2, <2>3
<1>4. StartTime(t, c) = TimeBefore(t, a) /\ StartTime(t, d) = TimeBefore(t, b)
  BY <1>2, <1>3 DEF StartTime, ChunkIs
<1>5. StartTime(t, c) \in Nat /\ StartTime(t, d) \in Nat /\ StartTime(t, c) <= StartTime(t, d)
  BY <1>3, <1>4, TimeBeforeGrows
<1> QED
  BY <1>5, ConvertGrows DEF InMovie

\* GetChunkTime answers with it, and leaves a cache that is right.
LEMMA ChunkTimeIs ==
    ASSUME IInv, LookupInv, SizesInv, TableInv, WholeUnits, NEW t \in Tracks,
           OfSamples(hist[t]), NEW first, Table(t, first), NEW c \in 1..Len(flushed[t])
    PROVE  /\ GetChunkTime(t, c).start = StartTime(t, c)
           /\ GetChunkTime(t, c).cache \in CacheType
           /\ Points(stts[t], GetChunkTime(t, c).cache)
<1>1. StateType
  BY DEF IInv
<1>2. ChunkIs(t, first, c)
  BY <1>1, ChunkFacts
<1>3. PICK k \in 1..Len(hist[t]) : k = Min(SamplesInChunk(chunks[t].stsc, c))
  BY <1>2 DEF ChunkIs
<1>4. k \in Nat \ {0}
  BY HistoryIs
<1>5. GetSampleTimes(stts[t], cache[t].stts, k).start = TimeBefore(t, k)
  BY TableInvTimes DEF SampleTimes
<1>6. /\ stts[t] \in Seq(RunType) /\ cache[t].stts \in CacheType
      /\ Points(stts[t], cache[t].stts)
  BY DEF IInv, StateType, WriterType, LookupInv, LookedUp, CachesRight, LookupsType
<1>7. GetChunkTime(t, c) = GetSampleTimes(stts[t], cache[t].stts, k)
  BY <1>3 DEF GetChunkTime
<1> QED
  BY <1>3, <1>4, <1>5, <1>6, <1>7, TimesCache DEF StartTime

\* Every byte of a part is one of a sample in it.
LEMMA PartOnly ==
    ASSUME NEW h \in Seq(SampleType), NEW a \in Nat \ {0}, NEW n \in Nat,
           a + n <= Len(h) + 1
    PROVE  \A p \in 1..BytesOf(h, a, a + n - 1) :
              \E k \in a..(a + n - 1) : \E i \in 1..h[k].size : p = BytesOf(h, a, k - 1) + i
<1> DEFINE In(p, m) == \E k \in a..(a + m - 1) : \E i \in 1..h[k].size : p = BytesOf(h, a, k - 1) + i
           All(m) == \A p \in 1..BytesOf(h, a, a + m - 1) : In(p, m)
           A == {m \in Nat : a + m <= Len(h) + 1 => All(m)}
<1>0. Len(h) \in Nat
  BY SizesAre
<1>1. 0 \in A
  <2>1. a + 0 - 1 < a /\ a + 0 - 1 \in Int
    OBVIOUS
  <2>2. BytesOf(h, a, a + 0 - 1) = 0
    BY <2>1, SumOfEmptyInterval DEF BytesOf
  <2>3. 1..BytesOf(h, a, a + 0 - 1) = {}
    BY <2>2
  <2> HIDE DEF In
  <2> QED
    BY <2>3
<1>2. ASSUME NEW m \in Nat, m \in A, a + (m + 1) <= Len(h) + 1,
             NEW p \in 1..BytesOf(h, a, a + (m + 1) - 1)
      PROVE  In(p, m + 1)
  <2>1. PICK k \in Nat : k = a + m /\ a <= k /\ k <= Len(h) /\ k - 1 = a + m - 1
    BY <1>0, <1>2
  <2>2. /\ BytesOf(h, a, k - 1) \in Nat /\ h[k].size \in Nat
        /\ BytesOf(h, a, k) = BytesOf(h, a, k - 1) + h[k].size
    BY <2>1, BytesOfNext
  <2>3. a + (m + 1) - 1 = k /\ k \in a..(a + (m + 1) - 1)
    BY <2>1
  <2>4. CASE p <= BytesOf(h, a, k - 1)
    <3>1. a + m <= Len(h) + 1
      BY <1>0, <2>1
    <3>2. In(p, m)
      <4>1. p \in 1..BytesOf(h, a, a + m - 1)
        BY <2>1, <2>2, <2>4
      <4> HIDE DEF In
      <4> QED
        BY <1>2, <3>1, <4>1
    <3>3. \A j \in a..(a + m - 1) : j \in a..(a + (m + 1) - 1)
      OBVIOUS
    <3> QED
      BY <3>2, <3>3
  <2>5. CASE ~(p <= BytesOf(h, a, k - 1))
    <3>1. PICK x \in Nat, y \in Nat : /\ x = BytesOf(h, a, k - 1) /\ y = h[k].size
                                      /\ BytesOf(h, a, k) = x + y
      BY <2>2
    <3>2. p \in 1..(x + y) /\ ~(p <= x)
      BY <2>3, <2>5, <3>1
    <3>3. PICK i \in 1..y : p = x + i
      <4>1. p - x \in 1..y /\ p = x + (p - x)
        BY <3>2
      <4> QED
        BY <4>1
    <3> QED
      BY <2>3, <3>1, <3>3
  <2> QED
    BY <2>4, <2>5
<1>3. Nat \subseteq A
  <2>1. \A m \in Nat : m \in A => m + 1 \in A
    <3> SUFFICES ASSUME NEW m \in Nat, m \in A, a + (m + 1) <= Len(h) + 1 PROVE All(m + 1)
      OBVIOUS
    <3> HIDE DEF In, A
    <3> QED
      BY <1>2
  <2> HIDE DEF A
  <2> QED
    BY <1>1, <2>1, AllNumbers
<1> HIDE DEF In
<1>4. \A p \in 1..BytesOf(h, a, a + n - 1) : In(p, n)
  BY <1>3
<1> QED
  BY <1>4 DEF In

\* The bytes of a part name its samples; if none is empty, the first of all.
LEMMA PartIds ==
    ASSUME NEW h \in Seq(SampleType), NEW t, NEW a \in Nat \ {0}, NEW b \in Nat, a < b,
           b <= Len(h) + 1, NEW bytes \in Seq(Byte), HoldsPart(bytes, t, h, a, b),
           h[a].size # 0
    PROVE  Min({x[2] : x \in Range(bytes)}) = a
<1> DEFINE S == {x[2] : x \in Range(bytes)}
<1>1. PICK n \in Nat : a + n = b /\ a + n <= Len(h) + 1 /\ a + n - 1 = b - 1
  <2>1. b - a \in Nat /\ a + (b - a) = b
    OBVIOUS
  <2> QED
    BY <2>1
<1>2. /\ DOMAIN bytes = 1..Len(bytes) /\ Len(bytes) \in Nat
      /\ Len(bytes) = BytesOf(h, a, b - 1)
      /\ \A k \in a..(b - 1) : \A i \in 1..h[k].size :
            bytes[BytesOf(h, a, k - 1) + i] = << t, k, i >>
  BY LenProperties DEF HoldsPart
<1>3. \A p \in 1..Len(bytes) : bytes[p][2] \in a..(b - 1)
  <2> SUFFICES ASSUME NEW p \in 1..Len(bytes) PROVE bytes[p][2] \in a..(b - 1)
    OBVIOUS
  <2>1. p \in 1..BytesOf(h, a, a + n - 1)
    BY <1>1, <1>2
  <2>2. PICK k \in a..(a + n - 1) : \E i \in 1..h[k].size : p = BytesOf(h, a, k - 1) + i
    BY <1>1, <2>1, PartOnly
  <2>3. k \in a..(b - 1)
    BY <1>1
  <2>4. PICK i \in 1..h[k].size : p = BytesOf(h, a, k - 1) + i
    BY <2>2
  <2>5. bytes[p] = << t, k, i >>
    BY <1>2, <2>3, <2>4
  <2> QED
    BY <2>3, <2>5
<1>4. S = {bytes[p][2] : p \in 1..Len(bytes)}
  BY <1>2 DEF Range
<1>5. a \in S
  <2>1. a \in 1..Len(h) /\ a \in a..(b - 1) /\ a \in Nat /\ a <= a /\ a <= Len(h)
    BY SizesAre
  <2>2. BytesOf(h, a, a - 1) = 0
    <3>1. a - 1 < a /\ a - 1 \in Int
      OBVIOUS
    <3> QED
      BY <3>1, SumOfEmptyInterval DEF BytesOf
  <2>3. h[a].size \in Nat \ {0}
    BY <2>1, SizesAre
  <2>4. bytes[1] = << t, a, 1 >>
    <3>1. 1 \in 1..h[a].size /\ 0 + 1 = 1
      BY <2>3
    <3> QED
      BY <1>2, <2>1, <2>2, <3>1
  <2>5. 1 \in 1..Len(bytes)
    <3>1. BytesOf(h, a, a) = BytesOf(h, a, a - 1) + h[a].size
      BY <2>1, BytesOfNext
    <3>2. b - 1 \in Int /\ a <= b - 1 /\ b - 1 <= Len(h)
      BY SizesAre
    <3>3. BytesOf(h, a, a) <= BytesOf(h, a, b - 1)
      <4>1. PICK j \in Int : j = b - 1
        BY <3>2
      <4>2. BytesOf(h, a, a) <= BytesOf(h, a, j)
        BY <3>2, <4>1, BytesOfGrows
      <4> QED
        BY <4>1, <4>2
    <3> QED
      BY <1>2, <2>2, <2>3, <3>1, <3>3
  <2> HIDE DEF S
  <2> QED
    BY <1>4, <2>4, <2>5
<1>6. S \subseteq Nat /\ \A y \in S : a <= y
  <2> HIDE DEF S
  <2>1. \A y \in S : \E p \in 1..Len(bytes) : y = bytes[p][2]
    BY <1>4
  <2>2. \A y \in S : y \in a..(b - 1)
    BY <1>3, <2>1
  <2> QED
    BY <2>2
<1> HIDE DEF S
<1>7. Min(S) = a
  BY <1>5, <1>6, MinIs
<1> QED
  BY <1>7 DEF S

\* The time the bytes of a chunk tell is the one the tables tell.
LEMMA MovieTimeIs ==
    ASSUME StateType, SizesInv, WholeUnits, NoEmptySamples, NEW t \in Tracks,
           OfSamples(hist[t]), NEW first, Table(t, first), NEW c \in 1..Len(flushed[t])
    PROVE  MovieTime(t, c) = InMovie(t, c)
<1>1. ChunkIs(t, first, c) /\ hist[t] \in Seq(SampleType) /\ Len(hist[t]) \in Nat
      /\ flushed[t][c] \in Seq(Byte)
  <2>1. flushed[t] \in Seq(Seq(Byte))
    BY TableIs
  <2> QED
    BY <2>1, ChunkFacts, TableIs, ElementOfSeq
<1>2. PICK a \in 1..Len(hist[t]) : a = first[c]
  BY <1>1 DEF ChunkIs
<1>3. PICK b \in Nat : b = first[c + 1] /\ a < b /\ b <= Len(hist[t]) + 1
  <2>1. c + 1 \in 1..(Len(flushed[t]) + 1)
    BY TableIs
  <2>2. first[c + 1] \in Nat
    BY <2>1, TableIs
  <2> QED
    BY <1>1, <1>2, <2>2 DEF ChunkIs
<1>4. hist[t][a].size # 0 /\ a \in Nat \ {0}
  BY <1>1, SizesOfSamples
<1>5. HoldsPart(flushed[t][c], t, hist[t], a, b)
  BY <1>1, <1>2, <1>3 DEF ChunkIs
<1>6. Min({x[2] : x \in Range(flushed[t][c])}) = a
  BY <1>1, <1>3, <1>4, <1>5, PartIds
<1>7. StartTime(t, c) = TimeBefore(t, a)
  BY <1>1, <1>2 DEF ChunkIs, StartTime
<1> QED
  BY <1>6, <1>7 DEF MovieTime, InMovie

-----------------------------------------------------------------------------
(* Which track is next.                                                    *)

LEMMA MaxIsIn ==
    ASSUME NEW n \in Nat, NEW S, S \subseteq 1..n, S # {}
    PROVE  Max(S) \in S
<1> DEFINE R == {n - x : x \in S}
<1>1. R \subseteq Nat /\ R # {}
  OBVIOUS
<1>2. PICK r \in R : \A y \in R : r <= y
  <2> HIDE DEF R
  <2> QED
    BY <1>1, MinIsSmallest
<1>3. PICK x \in S : r = n - x
  OBVIOUS
<1>4. ASSUME NEW y \in S PROVE x >= y
  <2>1. n - y \in R
    OBVIOUS
  <2>2. n - x <= n - y
    BY <1>2, <1>3, <2>1
  <2>3. x \in 1..n /\ y \in 1..n
    OBVIOUS
  <2> QED
    BY <2>2, <2>3
<1>5. \E z \in S : \A y \in S : z >= y
  BY <1>4
<1> QED
  BY <1>5 DEF Max

LEMMA PreferredIs ==
    ASSUME NEW S, S \subseteq Tracks, S # {}
    PROVE  Preferred(S) \in S /\ (S \cap HintTracks # {} => Preferred(S) \in HintTracks)
<1>1. NumTracks \in Nat /\ S \subseteq 1..NumTracks /\ S \subseteq Nat
  BY CountsAssumption DEF Tracks
<1>2. CASE S \cap HintTracks = {}
  BY <1>1, <1>2, MinIsSmallest DEF Preferred
<1>3. CASE S \cap HintTracks # {}
  <2>1. S \cap HintTracks \subseteq 1..NumTracks
    BY <1>1
  <2>2. Max(S \cap HintTracks) \in S \cap HintTracks
    BY <1>1, <1>3, <2>1, MaxIsIn
  <2> QED
    BY <1>3, <2>2 DEF Preferred
<1> QED
  BY <1>2, <1>3

\* The track chosen has the least time, and is a hint track if one of those with
\* that time is.
LEMMA ChoiceIs ==
    ASSUME NEW times, Remaining # {}, \A u \in Remaining : times[u] \in Nat
    PROVE  /\ Choice(times) \in Remaining
           /\ \A u \in Remaining :
                 /\ times[Choice(times)] <= times[u]
                 /\ times[u] = times[Choice(times)] /\ u \in HintTracks
                       => Choice(times) \in HintTracks
<1> DEFINE S == {t \in Remaining : \A u \in Remaining : times[t] <= times[u]}
           V == {times[u] : u \in Remaining}
           m == Min(V)
<1>1. V \subseteq Nat /\ V # {}
  OBVIOUS
<1>2. m \in V /\ \A y \in V : m <= y
  <2> HIDE DEF V
  <2> QED
    BY <1>1, MinIsSmallest
<1>3. PICK t \in Remaining : times[t] = m
  BY <1>2
<1> HIDE DEF m
<1>4. t \in S
  BY <1>2, <1>3
<1>5. S \subseteq Tracks /\ S # {} /\ S \subseteq Remaining
  BY <1>4 DEF Remaining
<1>6. \A u \in Remaining : times[u] = m => u \in S
  BY <1>2
<1>7. \A s \in S : times[s] = m
  <2> SUFFICES ASSUME NEW s \in S PROVE times[s] = m
    OBVIOUS
  <2>1. times[s] <= times[t] /\ times[s] \in V
    OBVIOUS
  <2>2. times[s] \in Nat /\ m \in Nat
    BY <1>1, <1>2
  <2> QED
    BY <1>2, <1>3, <2>1, <2>2
<1>8. Choice(times) = Preferred(S)
  BY DEF Choice
<1> HIDE DEF S
<1>9. Choice(times) \in S /\ (S \cap HintTracks # {} => Choice(times) \in HintTracks)
  BY <1>5, <1>8, PreferredIs
<1>10. \A u \in Remaining : m <= times[u]
  BY <1>2
<1> QED
  BY <1>5, <1>6, <1>7, <1>9, <1>10

-----------------------------------------------------------------------------
(* Sums and pieces of files.                                               *)

\* One element of a sum grows.
LEMMA SumChanges ==
    ASSUME NEW f, NEW g, NEW S, IsFiniteSet(S), \A x \in S : f[x] \in Int,
           NEW e \in S, NEW d \in Int, g[e] = f[e] + d, \A x \in S \ {e} : g[x] = f[x]
    PROVE  SumFunctionOnSet(g, S) = SumFunctionOnSet(f, S) + d
<1>1. Ints(f, S) /\ Ints(g, S)
  <2>1. \A x \in S : x = e \/ x \in S \ {e}
    OBVIOUS
  <2> QED
    BY <2>1 DEF Ints
<1>2. /\ SumFunctionOnSet(f, S) = f[e] + SumFunctionOnSet(f, S \ {e})
      /\ SumFunctionOnSet(g, S) = g[e] + SumFunctionOnSet(g, S \ {e})
  BY <1>1, SumWithout
<1>3. IsFiniteSet(S \ {e}) /\ \A x \in S \ {e} : f[x] \in Int
  BY FS_RemoveElement
<1>4. SumFunctionOnSet(g, S \ {e}) = SumFunctionOnSet(f, S \ {e})
  BY <1>3, SumOfEqual
<1>5. SumFunctionOnSet(f, S \ {e}) \in Int
  BY <1>3, SumType
<1> QED
  BY <1>2, <1>4, <1>5

\* Data that is in the file is read as it is.
LEMMA PieceRead ==
    ASSUME NEW bytes \in Seq(Byte), NEW at \in Nat, NEW data \in Seq(Byte),
           at + Len(data) <= Len(bytes), \A i \in 1..Len(data) : bytes[at + i] = data[i]
    PROVE  SubSeq(bytes, at + 1, at + Len(data)) = data
<1> DEFINE a == at + 1
           b == at + Len(data)
           s == SubSeq(bytes, a, b)
<1>1. Len(data) \in Nat /\ Len(bytes) \in Nat
  BY LenProperties
<1>2. a \in Int /\ b \in Int /\ b - a + 1 = Len(data) /\ (IF a <= b THEN b - a + 1 ELSE 0) = Len(data)
  BY <1>1
<1>3. \A j \in a..b : bytes[j] \in Byte
  <2>1. \A j \in a..b : j \in 1..Len(bytes)
    BY <1>1
  <2> QED
    BY <2>1, ElementOfSeq
<1> HIDE DEF a, b
<1>4. /\ s \in Seq(Byte) /\ Len(s) = Len(data)
      /\ \A i \in 1..Len(data) : s[i] = bytes[a + i - 1]
  <2>1. /\ s \in Seq(Byte) /\ Len(s) = IF a <= b THEN b - a + 1 ELSE 0
        /\ \A i \in 1..(b - a + 1) : s[i] = bytes[a + i - 1]
    BY <1>2, <1>3, SubSeqProperties
  <2> HIDE DEF s
  <2> QED
    BY <1>2, <2>1
<1> HIDE DEF s
<1>5. \A i \in 1..Len(data) : s[i] = data[i]
  <2> SUFFICES ASSUME NEW i \in 1..Len(data) PROVE s[i] = data[i]
    OBVIOUS
  <2>1. a + i - 1 = at + i
    BY <1>1 DEF a
  <2> QED
    BY <1>4, <2>1
<1>6. s = data
  BY <1>1, <1>4, <1>5, SeqEqual
<1> QED
  BY <1>6 DEF s, a, b

\* Writing at the end makes the file longer by what is written.
LEMMA WrittenBehind ==
    ASSUME NEW f \in FileType, f.pos = Len(f.bytes), NEW data \in Seq(Byte)
    PROVE  LET g == WriteBytes(f, data)
           IN  g \in FileType /\ g.pos = f.pos + Len(data) /\ Len(g.bytes) = g.pos
<1>1. f.pos \in Nat /\ f.bytes \in Seq(Byte) /\ Len(data) \in Nat /\ f.pos <= Len(f.bytes)
  BY LenProperties DEF FileType
<1>2. WriteBytes(f, data) \in FileType /\ WriteBytes(f, data).pos = f.pos + Len(data)
  BY <1>1, WriteBytesProperties
<1>3. (IF f.pos + Len(data) > Len(f.bytes) THEN f.pos + Len(data) ELSE Len(f.bytes))
      = f.pos + Len(data)
  BY <1>1
<1>4. WriteBytes(f, data).bytes
      = [i \in 1..(f.pos + Len(data)) |->
            IF i > f.pos /\ i <= f.pos + Len(data) THEN data[i - f.pos] ELSE f.bytes[i]]
  BY <1>3 DEF WriteBytes
<1>5. Len(WriteBytes(f, data).bytes) = f.pos + Len(data)
  <2>1. DOMAIN WriteBytes(f, data).bytes = 1..(f.pos + Len(data))
    BY <1>4
  <2>2. WriteBytes(f, data).bytes \in Seq(Byte)
    BY <1>2 DEF FileType
  <2>3. /\ DOMAIN WriteBytes(f, data).bytes = 1..Len(WriteBytes(f, data).bytes)
        /\ Len(WriteBytes(f, data).bytes) \in Nat
    BY <2>2, LenProperties
  <2> QED
    BY <1>1, <2>1, <2>3
<1> QED
  BY <1>2, <1>5

\* Writing over the front leaves the rest and the length.
LEMMA WrittenOver ==
    ASSUME NEW f \in FileType, NEW data \in Seq(Byte), Len(data) <= Len(f.bytes)
    PROVE  LET g == WriteBytes([f EXCEPT !.pos = 0], data)
           IN  /\ g \in FileType /\ Len(g.bytes) = Len(f.bytes) /\ g.pos = Len(data)
               /\ \A i \in (Len(data) + 1)..Len(f.bytes) : g.bytes[i] = f.bytes[i]
<1> DEFINE e == [f EXCEPT !.pos = 0]
           g == WriteBytes(e, data)
<1>1. e = [bytes |-> f.bytes, pos |-> 0] /\ f.bytes \in Seq(Byte)
  BY DEF FileType
<1>2. e \in FileType /\ e.bytes = f.bytes /\ e.pos = 0
  BY <1>1 DEF FileType
<1>3. Len(data) \in Nat /\ Len(f.bytes) \in Nat
  BY <1>1, LenProperties
<1> HIDE DEF e
<1>4. g \in FileType /\ g.pos = Len(data)
  <2>1. e.pos <= Len(e.bytes)
    BY <1>2, <1>3
  <2>2. g \in FileType /\ g.pos = e.pos + Len(data)
    BY <1>2, <2>1, WriteBytesProperties
  <2> HIDE DEF g
  <2> QED
    BY <1>2, <1>3, <2>2
<1>5. (IF e.pos + Len(data) > Len(e.bytes) THEN e.pos + Len(data) ELSE Len(e.bytes))
      = Len(f.bytes) /\ e.pos + Len(data) = Len(data)
  BY <1>2, <1>3
<1>6. g.bytes = [i \in 1..Len(f.bytes) |->
                    IF i > 0 /\ i <= Len(data) THEN data[i - 0] ELSE f.bytes[i]]
  BY <1>2, <1>5 DEF WriteBytes
<1>7. Len(g.bytes) = Len(f.bytes)
  <2>1. DOMAIN g.bytes = 1..Len(f.bytes)
    BY <1>6
  <2>2. DOMAIN g.bytes = 1..Len(g.bytes) /\ Len(g.bytes) \in Nat
    <3>1. g.bytes \in Seq(Byte)
      BY <1>4 DEF FileType
    <3> QED
      BY <3>1, LenProperties
  <2> QED
    BY <1>3, <2>1, <2>2
<1>8. \A i \in (Len(data) + 1)..Len(f.bytes) : g.bytes[i] = f.bytes[i]
  BY <1>3, <1>6
<1> QED
  BY <1>4, <1>7, <1>8 DEF g, e

-----------------------------------------------------------------------------
(* What is true while chunks are copied.                                   *)

\* What is known of all tracks before, and while the old file is there.
TrackInv ==
    IInv /\ LookupInv /\ SizesInv /\ TableInv /\ OrderInv /\ LongestInv /\ ShapeInv

\* Data stands in file f at that offset, behind the boxes.
Copied(f, at, data) ==
    /\ OptimalLen + MdatHeaderLen <= at /\ at + Len(data) <= f.pos
    /\ \A i \in 1..Len(data) : f.bytes[at + i] = data[i]

\* The chunks before the next one are in the new file where their offsets
\* say, the others still have the offsets of the old file.
TrackCopied(t) ==
    /\ offsets[t] \in Seq(Nat) /\ Len(offsets[t]) = Len(flushed[t])
    /\ nextChunk[t] \in 1..(Len(flushed[t]) + 1)
    /\ \A c \in 1..Len(flushed[t]) :
          IF c < nextChunk[t] THEN Copied(dst, offsets[t][c], flushed[t][c])
          ELSE offsets[t][c] = chunks[t].stco[c]

CopiedLen(t) == Len(FlattenSeq(SubSeq(flushed[t], 1, nextChunk[t] - 1)))

\* There is nothing else in the new file.
FileCopied ==
    /\ dst \in FileType /\ dst.pos = Len(dst.bytes)
    /\ dst.pos = OptimalLen + MdatHeaderLen
                 + SumFunctionOnSet([t \in Tracks |-> CopiedLen(t)], Tracks)

\* A time that is known is that of the next chunk.
TimesRight ==
    \A t \in Tracks : \/ nextTime[t] = NoTime
                      \/ t \in Remaining /\ nextTime[t] = InMovie(t, nextChunk[t])

\* Chunk c of track t may lie before chunk d of track u.
Precedes(t, c, u, d) ==
    /\ t = u => c < d
    /\ InMovie(t, c) <= InMovie(u, d)
    /\ InMovie(t, c) = InMovie(u, d) /\ u \in HintTracks => t \in HintTracks

\* So do the chunks copied, and all of them before those that are left.
Orderly ==
    /\ order \in Seq(Tracks \X (Nat \ {0}))
    /\ \A i \in 1..Len(order) : order[i][2] < nextChunk[order[i][1]]
    /\ \A i, j \in 1..Len(order) :
          i < j => Precedes(order[i][1], order[i][2], order[j][1], order[j][2])
    /\ \A i \in 1..Len(order) : \A u \in Remaining :
          Precedes(order[i][1], order[i][2], u, nextChunk[u])

VariablesTyped ==
    /\ offsets = [t \in Tracks |-> offsets[t]] /\ nextChunk \in [Tracks -> Nat]
    /\ nextTime \in [Tracks -> Nat \cup {NoTime}]

Copying ==
    /\ \A t \in Tracks : \E first : Table(t, first)
    /\ VariablesTyped /\ FileCopied /\ TimesRight /\ Orderly
    /\ \A t \in Tracks : TrackCopied(t)

\* The sizes are whole units, and no chunk was forgotten by MP4Modify.
Copyable == WholeUnits /\ (session = 1 \/ NoEmptySamples)

-----------------------------------------------------------------------------
(* One round of RewriteMdat.                                               *)

LEMMA OfSamplesHeld ==
    ASSUME TrackInv, NEW t \in Tracks
    PROVE  OfSamples(hist[t])
BY DEF TrackInv, ShapeInv, ShapeOf

\* A track with chunks left has a next one, and the others have none.
LEMMA RemainingIs ==
    ASSUME TrackInv, Copying, NEW t \in Tracks
    PROVE  /\ t \in Remaining <=> nextChunk[t] <= Len(flushed[t])
           /\ t \in Remaining => nextChunk[t] \in 1..Len(flushed[t])
           /\ nextChunk[t] \in Nat \ {0} /\ Len(flushed[t]) \in Nat
           /\ t \notin Remaining => nextChunk[t] = Len(flushed[t]) + 1
           /\ Len(chunks[t].stco) = Len(flushed[t])
<1>1. PICK first : Table(t, first)
  BY DEF Copying
<1>2. Len(flushed[t]) \in Nat /\ Len(chunks[t].stco) = Len(flushed[t])
  BY <1>1, TableIs DEF TrackInv, IInv
<1>3. nextChunk[t] \in 1..(Len(flushed[t]) + 1)
  BY DEF Copying, TrackCopied
<1> QED
  BY <1>2, <1>3 DEF Remaining

\* The times compared are those of the next chunks.
LEMMA TimesAre ==
    ASSUME TrackInv, Copying, WholeUnits, NEW t \in Tracks
    PROVE  IF t \in Remaining
           THEN Times[t] = InMovie(t, nextChunk[t]) /\ Times[t] \in Nat
           ELSE Times[t] = NoTime
<1>1. PICK first : Table(t, first)
  BY DEF Copying
<1>2. nextTime[t] = NoTime \/ (t \in Remaining /\ nextTime[t] = InMovie(t, nextChunk[t]))
  BY DEF Copying, TimesRight
<1>3. CASE t \notin Remaining
  BY <1>2, <1>3 DEF Times, Unknown
<1>4. CASE t \in Remaining
  <2>1. PICK c \in 1..Len(flushed[t]) : c = nextChunk[t]
    BY <1>4, RemainingIs
  <2>2. InMovie(t, c) \in Nat
    BY <1>1, OfSamplesHeld, ChunkTimesGrow DEF TrackInv
  <2>3. GetChunkTime(t, c).start = StartTime(t, c)
    BY <1>1, OfSamplesHeld, ChunkTimeIs DEF TrackInv
  <2>4. CASE nextTime[t] = NoTime
    <3>1. t \in Unknown
      BY <1>4, <2>4 DEF Unknown
    <3>2. Times[t] = MP4ConvertTime(StartTime(t, c), TimeScale, MovieTimeScale)
      BY <2>1, <2>3, <3>1 DEF Times
    <3> QED
      BY <1>4, <2>1, <2>2, <3>2 DEF InMovie
  <2>5. CASE nextTime[t] # NoTime
    <3>1. t \notin Unknown
      BY <2>5 DEF Unknown
    <3>2. Times[t] = nextTime[t]
      BY <3>1 DEF Times
    <3> QED
      BY <1>2, <1>4, <2>1, <2>2, <2>5, <3>2
  <2> QED
    BY <2>4, <2>5
<1> QED
  BY <1>3, <1>4

\* The chunk read is the one that was flushed.
LEMMA ChunkRead ==
    ASSUME TrackInv, Copying, WholeUnits, NEW t \in Remaining
    PROVE  /\ t \in Tracks /\ ReadChunk(t, nextChunk[t]) = flushed[t][nextChunk[t]]
           /\ flushed[t][nextChunk[t]] \in Seq(Byte)
<1>1. t \in Tracks
  BY DEF Remaining
<1>2. PICK c \in 1..Len(flushed[t]) : c = nextChunk[t]
  BY <1>1, RemainingIs
<1>3. PICK first : Table(t, first)
  BY <1>1 DEF Copying
<1>4. StateType /\ SizesInv /\ ChunksIntact
  BY IInvIntact DEF TrackInv, IInv
<1>5. GetChunkSize(t, c) = Len(flushed[t][c])
  BY <1>1, <1>3, <1>4, OfSamplesHeld, ChunkFacts DEF ChunkIs
<1>6. offsets[t][c] = chunks[t].stco[c]
  <2>1. ~(c < nextChunk[t])
    BY <1>2
  <2> QED
    BY <1>1, <2>1 DEF Copying, TrackCopied
<1>7. /\ chunks[t].stco[c] + Len(flushed[t][c]) <= Len(file.bytes)
      /\ \A i \in 1..Len(flushed[t][c]) :
            file.bytes[chunks[t].stco[c] + i] = flushed[t][c][i]
  BY <1>1, <1>4 DEF ChunksIntact
<1>8. flushed[t][c] \in Seq(Byte) /\ chunks[t].stco[c] \in Nat /\ file.bytes \in Seq(Byte)
  <2>1. /\ flushed[t] \in Seq(Seq(Byte)) /\ chunks[t].stco \in Seq(Nat)
        /\ Len(chunks[t].stco) = Len(flushed[t])
    BY <1>1, <1>3, <1>4, TableIs
  <2> QED
    BY <1>4, <2>1, ElementOfSeq DEF StateType, MediaType
<1>9. PICK bytes \in Seq(Byte), at \in Nat, data \in Seq(Byte) :
          bytes = file.bytes /\ at = chunks[t].stco[c] /\ data = flushed[t][c]
  BY <1>8
<1>10. SubSeq(bytes, at + 1, at + Len(data)) = data
  BY <1>7, <1>9, PieceRead
<1>11. ReadChunk(t, c) = SubSeq(bytes, at + 1, at + Len(data))
  BY <1>5, <1>6, <1>9 DEF ReadChunk
<1> QED
  BY <1>1, <1>2, <1>8, <1>9, <1>10, <1>11

\* What one round does.
Round(t, c, data) ==
    /\ t \in Remaining /\ c = nextChunk[t] /\ c \in 1..Len(flushed[t])
    /\ data = flushed[t][c] /\ data \in Seq(Byte)
    /\ dst' = WriteBytes(dst, data)
    /\ offsets' = [offsets EXCEPT ![t][c] = dst.pos]
    /\ nextChunk' = [nextChunk EXCEPT ![t] = c + 1]
    /\ nextTime' = [Times EXCEPT ![t] = NoTime]
    /\ order' = Append(order, << t, c >>)
    /\ \A u \in Remaining :
          /\ InMovie(t, c) <= InMovie(u, nextChunk[u])
          /\ InMovie(u, nextChunk[u]) = InMovie(t, c) /\ u \in HintTracks => t \in HintTracks
    /\ UNCHANGED << file, tables, chunks, buffer, hist, flushed >>

LEMMA RewriteIsRound ==
    ASSUME TrackInv, Copying, WholeUnits, RewriteNextChunk
    PROVE  \E t \in Tracks : \E c, data : Round(t, c, data)
<1> DEFINE t == Choice(Times)
           c == nextChunk[t]
           data == ReadChunk(t, c)
<1>1. \A u \in Remaining : Times[u] = InMovie(u, nextChunk[u]) /\ Times[u] \in Nat
  BY TimesAre DEF Remaining
<1>2. Remaining # {}
  BY DEF RewriteNextChunk
<1>3. /\ t \in Remaining
      /\ \A u \in Remaining :
            /\ Times[t] <= Times[u]
            /\ Times[u] = Times[t] /\ u \in HintTracks => t \in HintTracks
  BY <1>1, <1>2, ChoiceIs
<1>4. t \in Tracks /\ data = flushed[t][c] /\ flushed[t][c] \in Seq(Byte)
  BY <1>3, ChunkRead
<1>5. c \in 1..Len(flushed[t])
  BY <1>3, <1>4, RemainingIs
<1>6. /\ dst' = WriteBytes(dst, data) /\ offsets' = [offsets EXCEPT ![t][c] = dst.pos]
      /\ nextTime' = [Times EXCEPT ![t] = NoTime] /\ order' = Append(order, << t, c >>)
      /\ UNCHANGED << file, tables, chunks, buffer, hist, flushed >>
  BY DEF RewriteNextChunk, NewOffset, TimesAfter
<1>7. nextChunk' = [nextChunk EXCEPT ![t] = c + 1]
  BY DEF RewriteNextChunk
<1> HIDE DEF t, c, data
<1>8. \A u \in Remaining :
          /\ InMovie(t, c) <= InMovie(u, nextChunk[u])
          /\ InMovie(u, nextChunk[u]) = InMovie(t, c) /\ u \in HintTracks => t \in HintTracks
  BY <1>1, <1>3 DEF c
<1>9. Round(t, c, data)
  BY <1>3, <1>4, <1>5, <1>6, <1>7, <1>8 DEF Round, c
<1> QED
  BY <1>4, <1>9

\* The new file after a round.
LEMMA RoundFile ==
    ASSUME FileCopied, NEW data \in Seq(Byte), dst' = WriteBytes(dst, data)
    PROVE  /\ dst' \in FileType /\ dst'.pos = dst.pos + Len(data) /\ dst'.pos = Len(dst'.bytes)
           /\ \A at \in Nat, old \in Seq(Byte) : Copied(dst, at, old) => Copied(dst', at, old)
           /\ OptimalLen + MdatHeaderLen <= dst.pos => Copied(dst', dst.pos, data)
<1>1. /\ dst \in FileType /\ dst.pos = Len(dst.bytes) /\ dst.pos \in Nat
      /\ dst.pos <= Len(dst.bytes) /\ Len(data) \in Nat
  BY LenProperties DEF FileCopied, FileType
<1>2. dst' \in FileType /\ dst'.pos = dst.pos + Len(data) /\ Len(dst'.bytes) = dst'.pos
  BY <1>1, WrittenBehind
<1>3. /\ \A i \in 1..dst.pos : dst'.bytes[i] = dst.bytes[i]
      /\ \A i \in 1..Len(data) : dst'.bytes[dst.pos + i] = data[i]
  BY <1>1, WriteBytesProperties DEF Grows
<1>4. ASSUME NEW at \in Nat, NEW old \in Seq(Byte), Copied(dst, at, old)
      PROVE  Copied(dst', at, old)
  <2>1. Len(old) \in Nat
    BY LenProperties
  <2>2. at + Len(old) <= dst.pos
    BY <1>4 DEF Copied
  <2>3. \A i \in 1..Len(old) : at + i \in 1..dst.pos
    BY <1>1, <2>1, <2>2
  <2>4. at + Len(old) <= dst'.pos
    BY <1>1, <1>2, <2>1, <2>2
  <2> QED
    BY <1>3, <1>4, <2>3, <2>4 DEF Copied
<1>5. OptimalLen + MdatHeaderLen <= dst.pos => Copied(dst', dst.pos, data)
  <2>1. dst.pos + Len(data) <= dst'.pos
    BY <1>1, <1>2
  <2> QED
    BY <1>3, <2>1 DEF Copied
<1> QED
  BY <1>1, <1>2, <1>4, <1>5

LEMMA CopiedLenType ==
    ASSUME TrackInv, Copying, NEW t \in Tracks
    PROVE  CopiedLen(t) \in Nat
<1>1. flushed[t] \in Seq(Seq(Byte)) /\ Len(flushed[t]) \in Nat
  BY LenProperties DEF TrackInv, IInv, StateType, MediaType
<1>2. nextChunk[t] \in 1..(Len(flushed[t]) + 1)
  BY DEF Copying, TrackCopied
<1>3. PICK m \in Int : m = nextChunk[t] - 1 /\ m <= Len(flushed[t]) /\ 1 \in Int
  BY <1>1, <1>2
<1>4. SubSeq(flushed[t], 1, m) \in Seq(Seq(Byte))
  <2>1. \A j \in 1..m : flushed[t][j] \in Seq(Byte)
    <3>1. \A j \in 1..m : j \in 1..Len(flushed[t])
      BY <1>1, <1>3
    <3> QED
      BY <1>1, <3>1, ElementOfSeq
  <2> QED
    BY <1>3, <2>1, SubSeqProperties
<1>5. FlattenSeq(SubSeq(flushed[t], 1, m)) \in Seq(Byte)
  BY <1>4, FlattenType
<1> QED
  BY <1>3, <1>5, LenProperties DEF CopiedLen

\* The first chunks and the next one.
LEMMA OneChunkMore ==
    ASSUME NEW s \in Seq(Seq(Byte)), NEW c \in 1..Len(s)
    PROVE  Len(FlattenSeq(SubSeq(s, 1, c))) = Len(FlattenSeq(SubSeq(s, 1, c - 1))) + Len(s[c])
<1>1. Len(s) \in Nat /\ s[c] \in Seq(Byte)
  BY LenProperties, ElementOfSeq
<1>2. PICK m \in Nat : m = c - 1 /\ c = m + 1 /\ m + 1 <= Len(s)
  BY <1>1
<1>3. \A j \in 1..c : s[j] \in Seq(Byte)
  <2>1. \A j \in 1..c : j \in 1..Len(s)
    BY <1>1
  <2> QED
    BY <2>1, ElementOfSeq
<1>4. /\ SubSeq(s, 1, m) \in Seq(Seq(Byte)) /\ Len(SubSeq(s, 1, m)) = m
      /\ \A i \in 1..m : SubSeq(s, 1, m)[i] = s[i]
  <2>1. \A j \in 1..m : s[j] \in Seq(Byte)
    BY <1>2, <1>3
  <2>2. /\ SubSeq(s, 1, m) \in Seq(Seq(Byte))
        /\ Len(SubSeq(s, 1, m)) = IF 1 <= m THEN m - 1 + 1 ELSE 0
        /\ \A i \in 1..(m - 1 + 1) : SubSeq(s, 1, m)[i] = s[1 + i - 1]
    BY <2>1, SubSeqProperties
  <2>3. m - 1 + 1 = m /\ \A i \in 1..m : 1 + i - 1 = i
    OBVIOUS
  <2> QED
    BY <2>2, <2>3
<1>5. /\ SubSeq(s, 1, c) \in Seq(Seq(Byte)) /\ Len(SubSeq(s, 1, c)) = c
      /\ \A i \in 1..c : SubSeq(s, 1, c)[i] = s[i]
  <2>1. /\ SubSeq(s, 1, c) \in Seq(Seq(Byte))
        /\ Len(SubSeq(s, 1, c)) = IF 1 <= c THEN c - 1 + 1 ELSE 0
        /\ \A i \in 1..(c - 1 + 1) : SubSeq(s, 1, c)[i] = s[1 + i - 1]
    BY <1>1, <1>3, SubSeqProperties
  <2>2. c - 1 + 1 = c /\ \A i \in 1..c : 1 + i - 1 = i
    BY <1>2
  <2> QED
    BY <1>2, <2>1, <2>2
<1> DEFINE a == Append(SubSeq(s, 1, m), s[c])
<1>6. /\ a \in Seq(Seq(Byte)) /\ Len(a) = m + 1 /\ a[m + 1] = s[c]
      /\ \A i \in 1..m : a[i] = s[i]
  BY <1>1, <1>4, AppendProperties
<1>7. a = SubSeq(s, 1, c)
  <2>1. Len(a) = Len(SubSeq(s, 1, c))
    BY <1>2, <1>5, <1>6
  <2>2. \A i \in 1..Len(a) : a[i] = SubSeq(s, 1, c)[i]
    <3>1. \A i \in 1..Len(a) : i \in 1..c /\ (i \in 1..m \/ i = m + 1)
      BY <1>2, <1>6
    <3> HIDE DEF a
    <3> QED
      BY <1>2, <1>5, <1>6, <3>1
  <2> HIDE DEF a
  <2> QED
    BY <1>5, <1>6, <2>1, <2>2, SeqEqual
<1>8. FlattenSeq(a) = FlattenSeq(SubSeq(s, 1, m)) \o s[c]
  BY <1>1, <1>4, FlattenOfAppend
<1>9. FlattenSeq(SubSeq(s, 1, m)) \in Seq(Byte)
  BY <1>4, FlattenType
<1>10. Len(FlattenSeq(a)) = Len(FlattenSeq(SubSeq(s, 1, m))) + Len(s[c])
  BY <1>1, <1>8, <1>9, ConcatProperties
<1> QED
  BY <1>2, <1>7, <1>10

LEMMA RoundCopied ==
    ASSUME TrackInv, Copying, WholeUnits, NEW t \in Tracks, NEW c, NEW data, Round(t, c, data)
    PROVE  FileCopied' /\ \A u \in Tracks : TrackCopied(u)'
<1>1. /\ c = nextChunk[t] /\ c \in 1..Len(flushed[t]) /\ data = flushed[t][c]
      /\ data \in Seq(Byte) /\ dst' = WriteBytes(dst, data)
      /\ offsets' = [offsets EXCEPT ![t][c] = dst.pos]
      /\ nextChunk' = [nextChunk EXCEPT ![t] = c + 1]
      /\ chunks' = chunks /\ flushed' = flushed
  BY DEF Round
<1>2. FileCopied /\ VariablesTyped /\ \A u \in Tracks : TrackCopied(u)
  BY DEF Copying
<1>3. /\ dst' \in FileType /\ dst'.pos = dst.pos + Len(data) /\ dst'.pos = Len(dst'.bytes)
      /\ \A at \in Nat, old \in Seq(Byte) : Copied(dst, at, old) => Copied(dst', at, old)
      /\ OptimalLen + MdatHeaderLen <= dst.pos => Copied(dst', dst.pos, data)
  BY <1>1, <1>2, RoundFile
<1> DEFINE f == [u \in Tracks |-> CopiedLen(u)]
           g == [u \in Tracks |-> CopiedLen(u)']
<1>4. \A u \in Tracks : f[u] \in Nat
  BY CopiedLenType
<1>5. IsFiniteSet(Tracks) /\ Len(data) \in Nat /\ dst.pos \in Nat
  <2>1. IsFiniteSet(Tracks)
    BY CountsAssumption, IntervalFinite DEF Tracks
  <2>2. Len(data) \in Nat
    BY <1>1, LenProperties
  <2> QED
    BY <1>2, <2>1, <2>2 DEF FileCopied, FileType
<1>6. dst.pos = OptimalLen + MdatHeaderLen + SumFunctionOnSet(f, Tracks)
  BY <1>2 DEF FileCopied
<1>7. \A u \in Tracks : nextChunk'[u] = IF u = t THEN c + 1 ELSE nextChunk[u]
  BY <1>1, <1>2 DEF VariablesTyped
<1>8. g[t] = f[t] + Len(data)
  <2>1. flushed[t] \in Seq(Seq(Byte)) /\ Len(flushed[t]) \in Nat
    BY LenProperties DEF TrackInv, IInv, StateType, MediaType
  <2>2. Len(FlattenSeq(SubSeq(flushed[t], 1, c)))
        = Len(FlattenSeq(SubSeq(flushed[t], 1, c - 1))) + Len(data)
    BY <1>1, <2>1, OneChunkMore
  <2>3. nextChunk'[t] - 1 = c
    BY <1>1, <1>7, <2>1
  <2>4. /\ g[t] = Len(FlattenSeq(SubSeq(flushed'[t], 1, nextChunk'[t] - 1)))
        /\ f[t] = Len(FlattenSeq(SubSeq(flushed[t], 1, nextChunk[t] - 1)))
    BY DEF CopiedLen
  <2> HIDE DEF f, g
  <2> QED
    BY <1>1, <2>2, <2>3, <2>4
<1>9. \A u \in Tracks \ {t} : g[u] = f[u]
  BY <1>1, <1>7 DEF CopiedLen
<1> HIDE DEF f, g
<1>10. SumFunctionOnSet(g, Tracks) = SumFunctionOnSet(f, Tracks) + Len(data)
  <2>1. \A u \in Tracks : f[u] \in Int
    BY <1>4
  <2> QED
    BY <1>5, <1>8, <1>9, <2>1, SumChanges
<1>11. SumFunctionOnSet(f, Tracks) \in Nat
  BY <1>4, <1>5, SumOfNats
<1>12. OptimalLen \in Nat /\ MdatHeaderLen \in Nat
  BY OptimizeAssumption, BoxAssumption
<1>13. FileCopied'
  <2>1. dst'.pos = OptimalLen + MdatHeaderLen + SumFunctionOnSet(g, Tracks)
    BY <1>3, <1>5, <1>6, <1>10, <1>11, <1>12
  <2> QED
    BY <1>3, <2>1 DEF FileCopied, g
<1>14. Copied(dst', dst.pos, data)
  BY <1>3, <1>6, <1>11, <1>12
<1>15. ASSUME NEW u \in Tracks PROVE TrackCopied(u)'
  <2>1. /\ offsets[u] \in Seq(Nat) /\ Len(offsets[u]) = Len(flushed[u])
        /\ nextChunk[u] \in 1..(Len(flushed[u]) + 1)
        /\ \A d \in 1..Len(flushed[u]) :
              IF d < nextChunk[u] THEN Copied(dst, offsets[u][d], flushed[u][d])
              ELSE offsets[u][d] = chunks[u].stco[d]
    BY <1>2 DEF TrackCopied
  <2>2. flushed[u] \in Seq(Seq(Byte)) /\ Len(flushed[u]) \in Nat
    BY LenProperties DEF TrackInv, IInv, StateType, MediaType
  <2>3. \A d \in 1..Len(flushed[u]) : offsets[u][d] \in Nat /\ flushed[u][d] \in Seq(Byte)
    BY <2>1, <2>2, ElementOfSeq
  <2>4. \A d \in 1..Len(flushed[u]) :
           IF d < nextChunk[u] THEN Copied(dst', offsets[u][d], flushed[u][d])
           ELSE offsets[u][d] = chunks[u].stco[d]
    BY <1>3, <2>1, <2>3
  <2>5. CASE u # t
    <3>1. offsets'[u] = offsets[u] /\ nextChunk'[u] = nextChunk[u]
      BY <1>1, <1>7, <2>5 DEF VariablesTyped
    <3> QED
      BY <1>1, <2>1, <2>4, <3>1 DEF TrackCopied
  <2>6. CASE u = t
    <3> DEFINE o == [offsets[t] EXCEPT ![c] = dst.pos]
    <3>1. offsets'[t] = o
      BY <1>1, <1>2 DEF VariablesTyped
    <3>2. /\ o \in Seq(Nat) /\ Len(o) = Len(offsets[t])
          /\ \A d \in 1..Len(flushed[t]) : o[d] = IF d = c THEN dst.pos ELSE offsets[t][d]
      BY <1>1, <1>5, <2>1, <2>6, ExceptSeq
    <3> HIDE DEF o
    <3>3. c + 1 \in 1..(Len(flushed[t]) + 1)
      BY <1>1, <2>2, <2>6
    <3>4. ASSUME NEW d \in 1..Len(flushed[t])
          PROVE  IF d < c + 1 THEN Copied(dst', o[d], flushed[t][d])
                 ELSE o[d] = chunks[t].stco[d]
      <4>1. CASE d = c
        <5>1. d < c + 1 /\ o[d] = dst.pos /\ flushed[t][d] = data
          BY <1>1, <2>2, <2>6, <3>2, <4>1
        <5> QED
          BY <1>14, <5>1
      <4>2. CASE d # c
        <5>1. o[d] = offsets[t][d] /\ (d < c + 1 <=> d < nextChunk[t])
          BY <1>1, <2>2, <2>6, <3>2, <4>2
        <5> QED
          BY <2>4, <2>6, <5>1
      <4> QED
        BY <4>1, <4>2
    <3> QED
      BY <1>1, <1>7, <2>1, <2>6, <3>1, <3>2, <3>3, <3>4 DEF TrackCopied
  <2> QED
    BY <2>5, <2>6
<1> QED
  BY <1>13, <1>15

\* Chunks that are there have times that can be compared, growing in a track.
LEMMA NextTimes ==
    ASSUME TrackInv, Copying, WholeUnits, NEW t \in Tracks, NEW c \in 1..Len(flushed[t])
    PROVE  /\ InMovie(t, c) \in Nat
           /\ c + 1 <= Len(flushed[t]) => InMovie(t, c) <= InMovie(t, c + 1)
<1>1. PICK first : Table(t, first)
  BY DEF Copying
<1>2. OfSamples(hist[t]) /\ IInv /\ SizesInv
  BY OfSamplesHeld DEF TrackInv
<1>3. Len(flushed[t]) \in Nat
  BY RemainingIs
<1>4. c + 1 <= Len(flushed[t]) => c + 1 \in 1..Len(flushed[t])
  BY <1>3
<1>5. \A d \in 1..Len(flushed[t]) :
          d = c \/ d = c + 1 => InMovie(t, c) \in Nat /\ InMovie(t, c) <= InMovie(t, d)
  BY <1>1, <1>2, ChunkTimesGrow
<1> QED
  BY <1>4, <1>5

LEMMA SameTimes ==
    ASSUME UNCHANGED << chunks, hist >>
    PROVE  /\ \A t, c : InMovie(t, c)' = InMovie(t, c)
           /\ \A t, c, u, d : Precedes(t, c, u, d)' = Precedes(t, c, u, d)
<1>1. \A t, c : InMovie(t, c)' = InMovie(t, c)
  BY DEF InMovie, StartTime, TimeBefore, DurationsOf
<1> QED
  BY <1>1 DEF Precedes

\* The tracks with chunks left after a round.
LEMMA RoundRemaining ==
    ASSUME TrackInv, Copying, NEW t \in Tracks, NEW c, NEW data, Round(t, c, data)
    PROVE  /\ c \in Nat /\ \A u \in Tracks : nextChunk'[u] = IF u = t THEN c + 1 ELSE nextChunk[u]
           /\ Remaining' \subseteq Remaining /\ Remaining' \subseteq Tracks
           /\ t \in Remaining' => c + 1 <= Len(flushed[t])
           /\ \A u \in Tracks \ {t} : u \in Remaining' <=> u \in Remaining
<1>1. /\ c = nextChunk[t] /\ nextChunk' = [nextChunk EXCEPT ![t] = c + 1] /\ chunks' = chunks
      /\ t \in Remaining
  BY DEF Round
<1>2. nextChunk \in [Tracks -> Nat] /\ Len(chunks[t].stco) = Len(flushed[t])
  BY RemainingIs DEF Copying, VariablesTyped
<1>3. \A u \in Tracks : nextChunk'[u] = IF u = t THEN c + 1 ELSE nextChunk[u]
  BY <1>1, <1>2
<1>4. \A u \in Tracks : u \in Remaining' <=> nextChunk'[u] <= Len(chunks[u].stco)
  BY <1>1 DEF Remaining
<1>5. c \in Nat
  BY <1>1, <1>2
<1>6. t \in Remaining' => c + 1 <= Len(flushed[t])
  BY <1>2, <1>3, <1>4
<1>7. \A u \in Tracks \ {t} : u \in Remaining' <=> u \in Remaining
  BY <1>3, <1>4 DEF Remaining
<1>8. Remaining' \subseteq Tracks
  BY DEF Remaining
<1> QED
  BY <1>1, <1>3, <1>5, <1>6, <1>7, <1>8

LEMMA RoundTimes ==
    ASSUME TrackInv, Copying, WholeUnits, NEW t \in Tracks, NEW c, NEW data, Round(t, c, data)
    PROVE  VariablesTyped' /\ TimesRight'
<1>1. /\ nextTime' = [Times EXCEPT ![t] = NoTime] /\ offsets' = [offsets EXCEPT ![t][c] = dst.pos]
      /\ nextChunk' = [nextChunk EXCEPT ![t] = c + 1] /\ UNCHANGED << chunks, hist >>
  BY DEF Round
<1>2. VariablesTyped
  BY DEF Copying
<1>3. Times = [u \in Tracks |-> Times[u]]
  BY DEF Times
<1>4. \A u \in Tracks : nextTime'[u] = IF u = t THEN NoTime ELSE Times[u]
  BY <1>1, <1>3
<1>5. /\ c \in Nat /\ \A u \in Tracks : nextChunk'[u] = IF u = t THEN c + 1 ELSE nextChunk[u]
      /\ \A u \in Tracks \ {t} : u \in Remaining' <=> u \in Remaining
  BY RoundRemaining
<1>6. \A u \in Tracks : Times[u] \in Nat \cup {NoTime}
  BY TimesAre
<1>7. nextTime' \in [Tracks -> Nat \cup {NoTime}]
  <2>1. nextTime' = [u \in Tracks |-> nextTime'[u]]
    BY <1>1, <1>3
  <2>2. \A u \in Tracks : nextTime'[u] \in Nat \cup {NoTime}
    BY <1>4, <1>6
  <2> QED
    BY <2>1, <2>2
<1>8. VariablesTyped'
  <2>1. offsets' = [u \in Tracks |-> offsets'[u]]
    BY <1>1, <1>2 DEF VariablesTyped
  <2>2. nextChunk' \in [Tracks -> Nat]
    BY <1>1, <1>2, <1>5 DEF VariablesTyped
  <2> QED
    BY <1>7, <2>1, <2>2 DEF VariablesTyped
<1>9. ASSUME NEW u \in Tracks, nextTime'[u] # NoTime
      PROVE  u \in Remaining' /\ nextTime'[u] = InMovie(u, nextChunk[u])'
  <2>1. u # t /\ nextTime'[u] = Times[u] /\ nextChunk'[u] = nextChunk[u]
    BY <1>4, <1>5, <1>9
  <2>2. u \in Remaining /\ Times[u] = InMovie(u, nextChunk[u])
    BY <1>9, <2>1, TimesAre
  <2>3. InMovie(u, nextChunk[u])' = InMovie(u, nextChunk[u])
    BY <1>1, <2>1 DEF InMovie, StartTime, TimeBefore, DurationsOf
  <2> QED
    BY <1>5, <2>1, <2>2, <2>3
<1>10. TimesRight'
  BY <1>9 DEF TimesRight
<1> QED
  BY <1>8, <1>10

\* What precedes a chunk precedes the next one of its track.
LEMMA PrecedesLater ==
    ASSUME NEW t, NEW c, NEW u, NEW d \in Nat, Precedes(t, c, u, d), t = u => c \in Nat,
           InMovie(t, c) \in Nat, InMovie(u, d) \in Nat, InMovie(u, d + 1) \in Nat,
           InMovie(u, d) <= InMovie(u, d + 1)
    PROVE  Precedes(t, c, u, d + 1)
<1>1. t = u => c < d + 1
  BY DEF Precedes
<1>2. /\ InMovie(t, c) <= InMovie(u, d)
      /\ InMovie(t, c) = InMovie(u, d) /\ u \in HintTracks => t \in HintTracks
  BY DEF Precedes
<1>3. InMovie(t, c) <= InMovie(u, d + 1)
  BY <1>2
<1>4. InMovie(t, c) = InMovie(u, d + 1) => InMovie(t, c) = InMovie(u, d)
  BY <1>2
<1> QED
  BY <1>1, <1>2, <1>3, <1>4 DEF Precedes

LEMMA RoundOrder ==
    ASSUME TrackInv, Copying, WholeUnits, NEW t \in Tracks, NEW c, NEW data, Round(t, c, data)
    PROVE  Orderly'
<1>1. /\ t \in Remaining /\ c = nextChunk[t] /\ c \in 1..Len(flushed[t])
      /\ order' = Append(order, << t, c >>) /\ UNCHANGED << chunks, hist, flushed >>
      /\ \A u \in Remaining :
            /\ InMovie(t, c) <= InMovie(u, nextChunk[u])
            /\ InMovie(u, nextChunk[u]) = InMovie(t, c) /\ u \in HintTracks => t \in HintTracks
  BY DEF Round
<1>2. /\ order \in Seq(Tracks \X (Nat \ {0}))
      /\ \A i \in 1..Len(order) : order[i][2] < nextChunk[order[i][1]]
      /\ \A i, j \in 1..Len(order) :
            i < j => Precedes(order[i][1], order[i][2], order[j][1], order[j][2])
      /\ \A i \in 1..Len(order) : \A u \in Remaining :
            Precedes(order[i][1], order[i][2], u, nextChunk[u])
  BY DEF Copying, Orderly
<1> DEFINE n == Len(order)
           new == << t, c >>
           S == Tracks \X (Nat \ {0})
<1>3. new \in S /\ c \in Nat \ {0}
  BY <1>1, RemainingIs
<1>4. n \in Nat /\ \A i \in 1..n : order[i] \in S
  BY <1>2, LenProperties, ElementOfSeq
<1>5. /\ order' \in Seq(S) /\ Len(order') = n + 1 /\ order'[n + 1] = new
      /\ \A i \in 1..n : order'[i] = order[i]
  BY <1>1, <1>2, <1>3, AppendProperties
<1>6. new[1] = t /\ new[2] = c
  OBVIOUS
<1>7. /\ \A u \in Tracks : nextChunk'[u] = IF u = t THEN c + 1 ELSE nextChunk[u]
      /\ Remaining' \subseteq Remaining /\ Remaining' \subseteq Tracks
      /\ t \in Remaining' => c + 1 <= Len(flushed[t])
  BY RoundRemaining
<1>8. ASSUME NEW i \in 1..n
      PROVE  /\ order[i][1] \in Tracks /\ order[i][2] \in Nat
             /\ InMovie(order[i][1], order[i][2]) \in Nat
  <2>1. PICK u \in Tracks, d \in Nat \ {0} : u = order[i][1] /\ d = order[i][2]
    BY <1>4
  <2>2. d < nextChunk[u] /\ nextChunk[u] \in 1..(Len(flushed[u]) + 1) /\ Len(flushed[u]) \in Nat
    BY <1>2, <2>1, RemainingIs DEF Copying, TrackCopied
  <2>3. d \in 1..Len(flushed[u])
    BY <2>2
  <2> QED
    BY <2>1, <2>3, NextTimes
<1>9. \A i \in 1..(n + 1) : i \in 1..n \/ i = n + 1
  BY <1>4
<1>10. \A u, d, v, e : Precedes(u, d, v, e)' = Precedes(u, d, v, e)
  BY <1>1, SameTimes
<1> HIDE DEF n, new, S
<1>11. ASSUME NEW i \in 1..(n + 1) PROVE order'[i][2] < nextChunk'[order'[i][1]]
  <2>1. CASE i \in 1..n
    <3>1. /\ order'[i] = order[i] /\ order[i][2] < nextChunk[order[i][1]]
          /\ order[i][1] \in Tracks /\ order[i][2] \in Nat
      BY <1>2, <1>5, <1>8, <2>1 DEF n
    <3>2. order[i][1] = t => order[i][2] < c + 1
      BY <1>1, <1>3, <3>1
    <3> QED
      BY <1>7, <3>1, <3>2
  <2>2. CASE i = n + 1
    <3>1. nextChunk'[t] = c + 1 /\ c < c + 1
      BY <1>3, <1>7
    <3> QED
      BY <1>5, <1>6, <2>2, <3>1
  <2> QED
    BY <1>9, <2>1, <2>2
<1>12. ASSUME NEW i \in 1..(n + 1), NEW j \in 1..(n + 1), i < j
       PROVE  Precedes(order'[i][1], order'[i][2], order'[j][1], order'[j][2])
  <2>1. i \in 1..n
    BY <1>4, <1>12
  <2>2. CASE j \in 1..n
    BY <1>2, <1>5, <1>12, <2>1, <2>2 DEF n
  <2>3. CASE j = n + 1
    <3>1. Precedes(order[i][1], order[i][2], t, c)
      BY <1>1, <1>2, <2>1 DEF n
    <3> QED
      BY <1>5, <1>6, <2>1, <2>3, <3>1
  <2> QED
    BY <1>9, <2>2, <2>3
<1>13. t \in Remaining' => /\ InMovie(t, c) \in Nat /\ InMovie(t, c + 1) \in Nat
                           /\ InMovie(t, c) <= InMovie(t, c + 1)
  <2> SUFFICES ASSUME t \in Remaining'
               PROVE  /\ InMovie(t, c) \in Nat /\ InMovie(t, c + 1) \in Nat
                      /\ InMovie(t, c) <= InMovie(t, c + 1)
    OBVIOUS
  <2>1. c + 1 <= Len(flushed[t]) /\ Len(flushed[t]) \in Nat
    BY <1>7, RemainingIs
  <2>2. c + 1 \in 1..Len(flushed[t])
    BY <1>3, <2>1
  <2> QED
    BY <1>1, <2>1, <2>2, NextTimes
<1>14. ASSUME NEW i \in 1..(n + 1), NEW u \in Remaining'
       PROVE  Precedes(order'[i][1], order'[i][2], u, nextChunk'[u])
  <2>0. u \in Remaining /\ u \in Tracks
    BY <1>7
  <2>1. CASE i \in 1..n
    <3>1. Precedes(order[i][1], order[i][2], u, nextChunk[u])
      BY <1>2, <2>0, <2>1 DEF n
    <3>2. CASE u = t
      <4>1. /\ order[i][2] \in Nat /\ InMovie(order[i][1], order[i][2]) \in Nat
            /\ Precedes(order[i][1], order[i][2], t, c)
        BY <1>1, <1>8, <2>1, <3>1, <3>2
      <4>2. t \in Remaining'
        BY <3>2
      <4>3. Precedes(order[i][1], order[i][2], t, c + 1)
        BY <1>3, <1>13, <4>1, <4>2, PrecedesLater
      <4> QED
        BY <1>5, <1>7, <2>0, <2>1, <3>2, <4>3
    <3>3. CASE u # t
      BY <1>5, <1>7, <2>0, <2>1, <3>1, <3>3
    <3> QED
      BY <3>2, <3>3
  <2>2. CASE i = n + 1
    <3>1. CASE u = t
      <4>1. InMovie(t, c) <= InMovie(t, c + 1) /\ c < c + 1
        BY <1>3, <1>13, <3>1
      <4>2. Precedes(t, c, t, c + 1)
        BY <4>1 DEF Precedes
      <4> QED
        BY <1>5, <1>6, <1>7, <2>0, <2>2, <3>1, <4>2
    <3>2. CASE u # t
      <4>1. Precedes(t, c, u, nextChunk[u])
        <5>1. /\ InMovie(t, c) <= InMovie(u, nextChunk[u])
              /\ InMovie(u, nextChunk[u]) = InMovie(t, c) /\ u \in HintTracks => t \in HintTracks
          BY <1>1, <2>0
        <5> QED
          BY <3>2, <5>1 DEF Precedes
      <4> QED
        BY <1>5, <1>6, <1>7, <2>0, <2>2, <3>2, <4>1
    <3> QED
      BY <3>1, <3>2
  <2> QED
    BY <1>9, <2>1, <2>2
<1>15. /\ order' \in Seq(S) /\ Len(order') = n + 1
  BY <1>5
<1> QED
  BY <1>10, <1>11, <1>12, <1>14, <1>15 DEF Orderly, S

LEMMA SameTable ==
    ASSUME UNCHANGED << tables, chunks, buffer, hist, flushed >>
    PROVE  \A t, first : Table(t, first)' = Table(t, first)
BY DEF Table, Ghost, Media, Starts, tables

\* A round copies the next chunk.
LEMMA RoundKeepsCopying ==
    ASSUME TrackInv, Copying, WholeUnits, RewriteNextChunk
    PROVE  Copying'
<1>1. PICK t \in Tracks : \E c, data : Round(t, c, data)
  BY RewriteIsRound
<1>2. PICK c, data : Round(t, c, data)
  BY <1>1
<1>3. FileCopied' /\ (\A u \in Tracks : TrackCopied(u)')
      /\ VariablesTyped' /\ TimesRight' /\ Orderly'
  BY <1>2, RoundCopied, RoundTimes, RoundOrder
<1>4. UNCHANGED << tables, chunks, buffer, hist, flushed >>
  BY <1>2 DEF Round
<1>5. \A u \in Tracks : \E first : Table(u, first)'
  BY <1>4, SameTable DEF Copying
<1> QED
  BY <1>3, <1>5 DEF Copying

-----------------------------------------------------------------------------
(* What Optimize leaves of the tracks until it is done.                    *)

\* Opening the file reads back the table of chunks.
LEMMA GhostReadBack ==
    ASSUME NEW m, IsMedia(m), NEW t, NEW h, NEW first, Ghost(m, t, h, first), NEW b,
           b.chunks = Reread(m.chunks), b.flushed = m.flushed, b.buffer = m.buffer
    PROVE  Ghost(b, t, h, first) /\ Starts(b.chunks.stsc, first)
<1> DEFINE n == Len(m.flushed)
<1>1. n \in Nat
  BY LenProperties DEF IsMedia
<1>2. b.chunks.stsc = ReadStsc(m.chunks.stsc) /\ b.chunks.stco = m.chunks.stco
  BY DEF Reread
<1>3. /\ b.chunks.stsc \in Seq(StscType) /\ Shaped(b.chunks.stsc, first, n)
      /\ Starts(b.chunks.stsc, first)
  BY <1>1, <1>2, ReadStscStarts DEF Ghost
<1> QED
  BY <1>2, <1>3 DEF Ghost

\* Tables of chunks that are read back, or stay.
TablesRead ==
    \/ chunks' = chunks
    \/ chunks' = [t \in Tracks |-> Reread(chunks[t])]

\* Nothing is written to the file but what reading it leaves in the caches.
Unwritten ==
    /\ UNCHANGED << file, mdatAt, tables, buffer, writer, durations, call, hist, flushed >>
    /\ TablesRead /\ (WriteFault \/ UNCHANGED faults)
    /\ cache' = [t \in Tracks |-> cache'[t]]
    /\ \A t \in Tracks : CachesRight(stts[t], ctts[t].runs, cache'[t])

LEMMA TablesReadAre ==
    ASSUME LookupInv, TablesRead
    PROVE  /\ DOMAIN chunks' = Tracks /\ chunks' = [t \in Tracks |-> chunks'[t]]
           /\ \A t \in Tracks : /\ chunks'[t].stco = chunks[t].stco
                                /\ chunks'[t] = chunks[t] \/ chunks'[t] = Reread(chunks[t])
<1>1. chunks = [t \in Tracks |-> chunks[t]]
  BY DEF LookupInv, TablesAre
<1>2. CASE chunks' = chunks
  BY <1>1, <1>2
<1>3. CASE chunks' = [t \in Tracks |-> Reread(chunks[t])]
  BY <1>3 DEF Reread
<1> QED
  BY <1>2, <1>3 DEF TablesRead

LEMMA UnwrittenIInv ==
    ASSUME IInv, LookupInv, Unwritten
    PROVE  IInv'
<1>1. /\ DOMAIN chunks' = Tracks /\ \A t \in Tracks : chunks'[t].stco = chunks[t].stco
  BY TablesReadAre DEF Unwritten
<1>2. MediaType'
  BY <1>1 DEF IInv, StateType, MediaType, Unwritten
<1>3. faults' \in 0..MaxFaults
  BY CountsAssumption DEF IInv, StateType, WriterType, Unwritten, WriteFault
<1>4. WriterType'
  BY <1>3 DEF IInv, StateType, WriterType, Unwritten, tables, writer, durations, call
<1>5. \A limit : ChunksBelow(limit) => ChunksBelow(limit)'
  BY <1>1 DEF ChunksBelow, ChunksWithin, Unwritten
<1>6. MoovAt' = MoovAt /\ phase' = phase /\ file' = file /\ mdatAt' = mdatAt
  BY DEF MoovAt, Unwritten, call
<1>7. MediaBelow'
  BY <1>5, <1>6 DEF IInv, MediaBelow
<1> QED
  BY <1>2, <1>4, <1>7 DEF IInv, StateType

LEMMA UnwrittenLookups ==
    ASSUME IInv, LookupInv, Unwritten
    PROVE  LookupInv'
<1>1. /\ chunks' = [t \in Tracks |-> chunks'[t]]
      /\ \A t \in Tracks : chunks'[t] = chunks[t] \/ chunks'[t] = Reread(chunks[t])
  BY TablesReadAre DEF Unwritten
<1>2. ctts' = ctts /\ stts' = stts /\ buffer' = buffer
  BY DEF Unwritten, tables
<1>3. TablesAre'
  BY <1>1, <1>2 DEF LookupInv, TablesAre, Unwritten
<1>4. ASSUME NEW t \in Tracks PROVE LookedUp(t)'
  <2>1. LookedUp(t)
    BY DEF LookupInv
  <2>2. chunks[t] \in ChunksType /\ (buffer[t].bytes # << >> => buffer[t].samples # 0)
    BY <2>1 DEF LookedUp, Counted, Media
  <2>3. chunks'[t] \in ChunksType
    BY <1>1, <2>2, RereadType
  <2>4. Counted(Media(t))'
    BY <1>2, <2>2, <2>3 DEF Counted, Media
  <2> QED
    BY <1>2, <2>1, <2>4 DEF LookedUp, Unwritten
<1> QED
  BY <1>3, <1>4 DEF LookupInv

LEMMA UnwrittenTables ==
    ASSUME IInv, TableInv, Unwritten
    PROVE  TableInv'
<1>1. CountersGrow
  BY NotFaulted DEF CountersGrow, Unwritten, call
<1>2. \A t \in Tracks : Keeps(t)
  BY DEF Keeps, Unwritten, tables, writer, durations
<1> QED
  BY <1>1, <1>2, KeepsSays DEF TableInv

LEMMA UnwrittenShape ==
    ASSUME IInv, LookupInv, ShapeInv, Unwritten
    PROVE  ShapeInv'
<1>1. /\ buffer' = buffer /\ flushed' = flushed /\ hist' = hist /\ session' = session
      /\ \A t \in Tracks : chunks'[t] = chunks[t] \/ chunks'[t] = Reread(chunks[t])
  BY TablesReadAre DEF Unwritten, call
<1>2. ASSUME NEW t \in Tracks, NEW first, Ghost(Media(t), t, hist[t], first)
      PROVE  Ghost(Media(t), t, hist[t], first)'
  <2>1. /\ Media(t)'.chunks = chunks'[t] /\ Media(t)'.flushed = flushed[t]
        /\ Media(t)'.buffer = buffer[t]
        /\ Media(t).chunks = chunks[t] /\ Media(t).flushed = flushed[t]
        /\ Media(t).buffer = buffer[t] /\ IsMedia(Media(t))
    BY <1>1, MediaIsMedia DEF Media, IInv, StateType
  <2>2. Ghost(Media(t)', t, hist[t], first)
    <3>1. CASE chunks'[t] = chunks[t]
      BY <1>2, <2>1, <3>1 DEF Ghost
    <3>2. CASE chunks'[t] = Reread(chunks[t])
      BY <1>2, <2>1, <3>2, GhostReadBack
    <3> QED
      BY <1>1, <3>1, <3>2
  <2> QED
    BY <1>1, <2>2
<1> QED
  BY <1>1, <1>2 DEF ShapeInv, ShapeOf, OfSamples

LEMMA UnwrittenTrackInv ==
    ASSUME TrackInv, Unwritten
    PROVE  TrackInv'
<1>1. IInv' /\ LookupInv' /\ TableInv' /\ ShapeInv'
  BY UnwrittenIInv, UnwrittenLookups, UnwrittenTables, UnwrittenShape DEF TrackInv
<1>2. SizesInv'
  BY DEF TrackInv, SizesInv, Unwritten, tables
<1>3. OrderInv'
  BY DEF TrackInv, OrderInv, MediaInOrder, Contents, AllFlushed, Unwritten, call
<1>4. LongestInv'
  BY DEF TrackInv, LongestInv, Unwritten, durations
<1> QED
  BY <1>1, <1>2, <1>3, <1>4 DEF TrackInv

\* The cache of a file just opened is right for all tables.
LEMMA NoLookupsRight ==
    ASSUME NEW times, NEW shifts
    PROVE  CachesRight(times, shifts, NoLookups)
<1>1. NoLookups \in LookupsType
  BY DEF NoLookups, LookupsType, NoCache, NoLocation, CacheType, LocationType,
         INVALID_SAMPLE_ID
<1> QED
  BY <1>1 DEF CachesRight, Points, NoLookups, NoCache

LEMMA BeginUnwritten ==
    ASSUME BeginOptimize \/ BeginOptimizeThrows
    PROVE  Unwritten
<1>1. /\ UNCHANGED << file, mdatAt, tables, buffer, writer, durations, call, hist, flushed >>
      /\ chunks' = [t \in Tracks |-> Reread(chunks[t])]
      /\ cache' = [t \in Tracks |-> NoLookups]
      /\ WriteFault \/ UNCHANGED faults
  BY DEF BeginOptimize, BeginOptimizeThrows
<1> QED
  BY <1>1, NoLookupsRight DEF Unwritten, TablesRead

\* Asking for the times of chunks leaves the caches right.
LEMMA RewriteUnwritten ==
    ASSUME TrackInv, Copying, WholeUnits, RewriteNextChunk \/ RewriteThrows
    PROVE  Unwritten
<1>1. /\ UNCHANGED << file, mdatAt, tables, chunks, buffer, writer, durations, call, hist,
                      flushed >>
      /\ RememberTimes /\ (WriteFault \/ UNCHANGED faults)
  BY DEF RewriteNextChunk, RewriteThrows
<1>2. \A t \in Tracks :
          cache'[t] = IF t \in Unknown
                      THEN [cache[t] EXCEPT !.stts = GetChunkTime(t, nextChunk[t]).cache]
                      ELSE cache[t]
  BY <1>1 DEF RememberTimes
<1>3. cache' = [t \in Tracks |-> cache'[t]]
  BY <1>1 DEF RememberTimes
<1>4. ASSUME NEW t \in Tracks
      PROVE  CachesRight(stts[t], ctts[t].runs, cache'[t])
  <2>1. CachesRight(stts[t], ctts[t].runs, cache[t])
    BY DEF TrackInv, LookupInv, LookedUp
  <2>2. CASE t \notin Unknown
    BY <1>2, <2>1, <2>2
  <2>3. CASE t \in Unknown
    <3>1. t \in Remaining
      BY <2>3 DEF Unknown
    <3>2. PICK c \in 1..Len(flushed[t]) : c = nextChunk[t]
      BY <3>1, RemainingIs
    <3>3. PICK first : Table(t, first)
      BY DEF Copying
    <3>4. PICK x : x = GetChunkTime(t, c).cache
      OBVIOUS
    <3>5. x \in CacheType /\ Points(stts[t], x)
      BY <3>3, <3>4, OfSamplesHeld, ChunkTimeIs DEF TrackInv
    <3>6. cache'[t] = [cache[t] EXCEPT !.stts = x]
      BY <1>2, <2>3, <3>2, <3>4
    <3> QED
      BY <2>1, <3>5, <3>6 DEF CachesRight, LookupsType
  <2> QED
    BY <2>2, <2>3
<1> QED
  BY <1>1, <1>3, <1>4 DEF Unwritten, TablesRead

LEMMA FinishUnwritten ==
    ASSUME LookupInv, FinishOptimizeThrows
    PROVE  Unwritten
<1>1. /\ UNCHANGED << file, mdatAt, tables, chunks, buffer, writer, durations, cache, call,
                      hist, flushed >>
      /\ WriteFault
  BY DEF FinishOptimizeThrows
<1>2. /\ cache = [t \in Tracks |-> cache[t]]
      /\ \A t \in Tracks : CachesRight(stts[t], ctts[t].runs, cache[t])
  BY DEF LookupInv, LookedUp, TablesAre
<1> QED
  BY <1>1, <1>2 DEF Unwritten, TablesRead

-----------------------------------------------------------------------------
(* Before the first round.                                                 *)

\* Optimize has not started.
Untouched ==
    /\ dst = [bytes |-> << >>, pos |-> 0] /\ offsets = [t \in Tracks |-> << >>]
    /\ nextChunk = [t \in Tracks |-> 1] /\ nextTime = [t \in Tracks |-> NoTime]
    /\ order = << >>

LEMMA BeginTables ==
    ASSUME TrackInv, BeginOptimize, Copyable
    PROVE  \A t \in Tracks : \E first : Table(t, first)'
<1> SUFFICES ASSUME NEW t \in Tracks PROVE \E first : Table(t, first)'
  OBVIOUS
<1>1. PICK first : Ghost(Media(t), t, hist[t], first)
  BY DEF TrackInv, ShapeInv, ShapeOf, Copyable
<1>2. /\ chunks'[t] = Reread(chunks[t]) /\ buffer' = buffer /\ flushed' = flushed
      /\ hist' = hist
  BY DEF BeginOptimize
<1>3. /\ Media(t)'.chunks = chunks'[t] /\ Media(t)'.flushed = flushed[t]
      /\ Media(t)'.buffer = buffer[t]
      /\ Media(t).chunks = chunks[t] /\ Media(t).flushed = flushed[t]
      /\ Media(t).buffer = buffer[t] /\ IsMedia(Media(t))
  BY <1>2, MediaIsMedia DEF Media, TrackInv, IInv, StateType
<1>4. Ghost(Media(t)', t, hist[t], first) /\ Starts(chunks'[t].stsc, first)
  <2>1. Ghost(Media(t)', t, hist[t], first) /\ Starts(Media(t)'.chunks.stsc, first)
    BY <1>1, <1>2, <1>3, GhostReadBack
  <2> QED
    BY <1>3, <2>1
<1>5. Table(t, first)'
  BY <1>2, <1>4 DEF Table
<1> QED
  BY <1>5

\* The sum of zeros.
LEMMA SumOfZeros ==
    ASSUME NEW f, \A t \in Tracks : f[t] = 0
    PROVE  SumFunctionOnSet(f, Tracks) = 0
<1> DEFINE A == {n \in Nat : n <= NumTracks => SumFunctionOnSet(f, 1..n) = 0}
<1>1. NumTracks \in Nat /\ Tracks = 1..NumTracks
  BY CountsAssumption DEF Tracks
<1>2. 0 \in A
  BY SumOfEmptyInterval
<1>3. \A n \in Nat : n \in A => n + 1 \in A
  <2> SUFFICES ASSUME NEW n \in Nat, n \in A, n + 1 <= NumTracks
               PROVE  SumFunctionOnSet(f, 1..(n + 1)) = 0
    OBVIOUS
  <2>1. SumFunctionOnSet(f, 1..n) = 0
    BY <1>1
  <2>2. \A x \in 1..(n + 1) : f[x] \in Int
    BY <1>1
  <2>3. SumFunctionOnSet(f, 1..(n + 1)) = SumFunctionOnSet(f, 1..n) + f[n + 1]
    BY <2>2, SumToNext
  <2>4. f[n + 1] = 0
    BY <1>1
  <2> QED
    BY <2>1, <2>3, <2>4
<1> HIDE DEF A
<1>4. Nat \subseteq A
  BY <1>2, <1>3, AllNumbers
<1>5. NumTracks \in A
  BY <1>1, <1>4
<1> QED
  BY <1>1, <1>5 DEF A

LEMMA BeginCopying ==
    ASSUME TrackInv, Untouched, BeginOptimize, HasMdat, Copyable
    PROVE  Copying'
<1>1. /\ offsets' = [t \in Tracks |-> chunks[t].stco]
      /\ chunks' = [t \in Tracks |-> Reread(chunks[t])]
      /\ dst' = [bytes |-> Box(OptimalLen + MdatHeaderLen), pos |-> OptimalLen + MdatHeaderLen]
      /\ flushed' = flushed /\ nextChunk' = nextChunk /\ nextTime' = nextTime /\ order' = order
  BY DEF BeginOptimize
<1>2. /\ nextChunk = [t \in Tracks |-> 1] /\ nextTime = [t \in Tracks |-> NoTime]
      /\ order = << >>
  BY DEF Untouched
<1>3. \A t \in Tracks : /\ chunks[t].stco \in Seq(Nat) /\ Len(flushed[t]) = Len(chunks[t].stco)
                        /\ Len(flushed[t]) \in Nat /\ chunks'[t].stco = chunks[t].stco
  <2> SUFFICES ASSUME NEW t \in Tracks
               PROVE  /\ chunks[t].stco \in Seq(Nat) /\ Len(flushed[t]) = Len(chunks[t].stco)
                      /\ Len(flushed[t]) \in Nat /\ chunks'[t].stco = chunks[t].stco
    OBVIOUS
  <2>1. StateType /\ ChunksIntact
    BY IInvIntact DEF TrackInv, IInv
  <2>2. chunks[t].stco \in Seq(Nat) /\ Len(flushed[t]) = Len(chunks[t].stco)
    BY <2>1 DEF StateType, MediaType, ChunksIntact
  <2>3. chunks'[t].stco = chunks[t].stco
    BY <1>1 DEF Reread
  <2> QED
    BY <2>2, <2>3, LenProperties
<1>4. VariablesTyped'
  <2>1. offsets' = [t \in Tracks |-> offsets'[t]]
    BY <1>1
  <2>2. nextChunk' \in [Tracks -> Nat] /\ nextTime' \in [Tracks -> Nat \cup {NoTime}]
    BY <1>1, <1>2
  <2> QED
    BY <2>1, <2>2 DEF VariablesTyped
<1>5. FileCopied'
  <2> DEFINE n == OptimalLen + MdatHeaderLen
             f == [t \in Tracks |-> CopiedLen(t)']
  <2>1. n \in Nat
    BY OptimizeAssumption, BoxAssumption
  <2>2. Box(n) \in Seq(Byte) /\ Len(Box(n)) = n
    BY <2>1, BoxType
  <2>3. dst' \in FileType /\ dst'.pos = Len(dst'.bytes) /\ dst'.pos = n
    BY <1>1, <2>1, <2>2 DEF FileType
  <2>4. \A t \in Tracks : f[t] = 0
    <3> SUFFICES ASSUME NEW t \in Tracks PROVE f[t] = 0
      OBVIOUS
    <3>1. nextChunk'[t] - 1 = 0
      BY <1>1, <1>2
    <3>2. SubSeq(flushed'[t], 1, 0) = << >>
      <4>1. 0 < 1 /\ 0 \in Int /\ 1 \in Int
        OBVIOUS
      <4> QED
        BY <4>1, SubSeqEmpty
    <3>3. FlattenSeq(SubSeq(flushed'[t], 1, nextChunk'[t] - 1)) = << >>
      BY <3>1, <3>2, FlattenOfNone
    <3>4. CopiedLen(t)' = Len(FlattenSeq(SubSeq(flushed'[t], 1, nextChunk'[t] - 1)))
      BY DEF CopiedLen
    <3>5. Len(<< >>) = 0
      BY EmptySeq
    <3> QED
      BY <3>3, <3>4, <3>5
  <2> HIDE DEF n, f
  <2>5. SumFunctionOnSet(f, Tracks) = 0
    BY <2>4, SumOfZeros
  <2>6. dst'.pos = n + SumFunctionOnSet(f, Tracks)
    BY <2>1, <2>3, <2>5
  <2> QED
    BY <2>3, <2>6 DEF FileCopied, n, f
<1>6. TimesRight'
  BY <1>1, <1>2 DEF TimesRight
<1>7. Orderly'
  <2>1. order' \in Seq(Tracks \X (Nat \ {0})) /\ Len(order') = 0
    BY <1>1, <1>2, EmptySeq
  <2>2. 1..Len(order') = {}
    BY <2>1
  <2> QED
    BY <2>1, <2>2 DEF Orderly
<1>8. ASSUME NEW t \in Tracks PROVE TrackCopied(t)'
  <2>1. nextChunk'[t] = 1 /\ offsets'[t] = chunks[t].stco
    BY <1>1, <1>2
  <2>2. 1 \in 1..(Len(flushed[t]) + 1) /\ \A c \in 1..Len(flushed[t]) : ~(c < 1)
    BY <1>3
  <2> QED
    BY <1>1, <1>3, <2>1, <2>2 DEF TrackCopied
<1>9. \A t \in Tracks : \E first : Table(t, first)'
  BY BeginTables
<1> QED
  BY <1>4, <1>5, <1>6, <1>7, <1>8, <1>9 DEF Copying

-----------------------------------------------------------------------------
(* The types of what Optimize works on.                                    *)

LEMMA UntouchedTypes == Untouched /\ stage = "none" => OptimizeTypeOK
<1> SUFFICES ASSUME Untouched, stage = "none" PROVE OptimizeTypeOK
  OBVIOUS
<1>1. dst \in [bytes : Seq(Byte), pos : Nat] /\ order \in Seq(Tracks \X (Nat \ {0}))
  BY EmptySeq DEF Untouched
<1>2. offsets \in [Tracks -> Seq(Nat)]
  BY EmptySeq DEF Untouched
<1>3. nextChunk \in [Tracks -> Nat \ {0}] /\ nextTime \in [Tracks -> Nat \cup {NoTime}]
  BY DEF Untouched
<1> QED
  BY <1>1, <1>2, <1>3 DEF OptimizeTypeOK

LEMMA CopyingTypes == TrackInv /\ Copying /\ stage = "rewriting" => OptimizeTypeOK
<1> SUFFICES ASSUME TrackInv, Copying, stage = "rewriting" PROVE OptimizeTypeOK
  OBVIOUS
<1>1. dst \in [bytes : Seq(Byte), pos : Nat] /\ order \in Seq(Tracks \X (Nat \ {0}))
  BY DEF Copying, FileCopied, FileType, Orderly
<1>2. /\ offsets = [t \in Tracks |-> offsets[t]] /\ nextChunk \in [Tracks -> Nat]
      /\ nextTime \in [Tracks -> Nat \cup {NoTime}]
  BY DEF Copying, VariablesTyped
<1>3. \A t \in Tracks : offsets[t] \in Seq(Nat) /\ nextChunk[t] \in Nat \ {0}
  BY RemainingIs DEF Copying, TrackCopied
<1>4. offsets \in [Tracks -> Seq(Nat)]
  BY <1>2, <1>3
<1>5. nextChunk \in [Tracks -> Nat \ {0}]
  BY <1>2, <1>3
<1>6. \A t \in Tracks \ Remaining : nextTime[t] = NoTime
  BY DEF Copying, TimesRight
<1> QED
  BY <1>1, <1>2, <1>4, <1>5, <1>6 DEF OptimizeTypeOK

LEMMA TypesKept ==
    ASSUME OptimizeTypeOK, stage # "none", stage' \in {"optimized", "failed"},
           dst' \in FileType, Remaining' = Remaining,
           UNCHANGED << offsets, nextChunk, nextTime, order >>
    PROVE  OptimizeTypeOK'
BY DEF OptimizeTypeOK, FileType

LEMMA NextIs ==
    ASSUME TrackInv, Copying, WholeUnits, Remaining # {}
    PROVE  Choice(Times) \in Remaining
<1>1. \A u \in Remaining : Times[u] \in Nat
  BY TimesAre DEF Remaining
<1> QED
  BY <1>1, ChoiceIs

LEMMA RewriteThrowsTypes ==
    ASSUME TrackInv, Copying, WholeUnits, RewriteThrows, stage = "rewriting"
    PROVE  OptimizeTypeOK'
<1> DEFINE t == Choice(Times)
           data == ReadChunk(t, nextChunk[t])
<1>1. /\ Remaining # {} /\ stage' = "failed" /\ chunks' = chunks
      /\ UNCHANGED << offsets, nextChunk, nextTime, order >>
      /\ \E k \in 0..(Len(data) - 1) : dst' = WriteBytes(dst, SubSeq(data, 1, k))
  BY DEF RewriteThrows
<1>2. t \in Remaining
  BY <1>1, NextIs
<1>3. data \in Seq(Byte) /\ Len(data) \in Nat
  BY <1>2, ChunkRead, LenProperties
<1> HIDE DEF t, data
<1>4. PICK k \in 0..(Len(data) - 1) : dst' = WriteBytes(dst, SubSeq(data, 1, k))
  BY <1>1
<1>5. SubSeq(data, 1, k) \in Seq(Byte)
  <2>1. \A j \in 1..k : j \in 1..Len(data)
    BY <1>3
  <2>2. \A j \in 1..k : data[j] \in Byte
    BY <1>3, <2>1, ElementOfSeq
  <2> QED
    BY <2>2, SubSeqProperties
<1>6. dst \in FileType /\ dst.pos <= Len(dst.bytes)
  <2>1. dst \in FileType /\ dst.pos = Len(dst.bytes)
    BY DEF Copying, FileCopied
  <2>2. dst.pos \in Nat
    BY <2>1 DEF FileType
  <2> QED
    BY <2>1, <2>2
<1>7. dst' \in FileType
  BY <1>4, <1>5, <1>6, WriteBytesProperties
<1>8. Remaining' = Remaining
  BY <1>1 DEF Remaining
<1> QED
  BY <1>1, <1>7, <1>8, CopyingTypes, TypesKept

\* MP4RootAtom::BeginOptimalWrite fails, or there is no mdat box.
LEMMA BeginFails ==
    ASSUME TrackInv, Untouched, BeginOptimizeThrows \/ (BeginOptimize /\ ~HasMdat)
    PROVE  stage' = "failed" /\ OptimizeTypeOK'
<1>1. PICK k \in Nat : /\ dst' = [bytes |-> Box(k), pos |-> k] /\ stage' = "failed"
                       /\ offsets' = [t \in Tracks |-> chunks[t].stco]
                       /\ UNCHANGED << nextChunk, nextTime, order >>
  <2>1. OptimalLen \in Nat /\ MdatHeaderLen \in Nat
    BY OptimizeAssumption, BoxAssumption
  <2>2. CASE BeginOptimizeThrows
    <3>1. PICK k \in 0..(OptimalLen + MdatHeaderLen - 1) : dst' = [bytes |-> Box(k), pos |-> k]
      BY <2>2 DEF BeginOptimizeThrows
    <3>2. k \in Nat
      BY <2>1
    <3> QED
      BY <2>2, <3>1, <3>2 DEF BeginOptimizeThrows
  <2>3. CASE BeginOptimize /\ ~HasMdat
    BY <2>1, <2>3 DEF BeginOptimize
  <2> QED
    BY <2>2, <2>3
<1>2. dst' \in [bytes : Seq(Byte), pos : Nat]
  BY <1>1, BoxType
<1>3. offsets' \in [Tracks -> Seq(Nat)]
  BY <1>1 DEF TrackInv, IInv, StateType, MediaType
<1>4. /\ nextChunk' = [t \in Tracks |-> 1] /\ nextTime' = [t \in Tracks |-> NoTime]
      /\ order' = << >>
  BY <1>1 DEF Untouched
<1>5. /\ nextChunk' \in [Tracks -> Nat \ {0}] /\ nextTime' \in [Tracks -> Nat \cup {NoTime}]
      /\ order' \in Seq(Tracks \X (Nat \ {0})) /\ \A t \in Tracks : nextTime'[t] = NoTime
  BY <1>4, EmptySeq
<1> QED
  BY <1>1, <1>2, <1>3, <1>5 DEF OptimizeTypeOK

\* MP4RootAtom::FinishOptimalWrite fails.
LEMMA FinishThrowsTypes ==
    ASSUME TrackInv, Copying, FinishOptimizeThrows, stage = "rewriting"
    PROVE  OptimizeTypeOK'
<1>1. /\ stage' = "failed" /\ chunks' = chunks
      /\ UNCHANGED << offsets, nextChunk, nextTime, order >>
      /\ \E k \in 0..(OptimalLen - 1) : dst' = WriteBytes([dst EXCEPT !.pos = 0], Box(k))
  BY DEF FinishOptimizeThrows
<1>2. PICK k \in 0..(OptimalLen - 1) : dst' = WriteBytes([dst EXCEPT !.pos = 0], Box(k))
  BY <1>1
<1>3. k \in Nat
  BY OptimizeAssumption
<1>4. Box(k) \in Seq(Byte)
  BY <1>3, BoxType
<1>5. PICK e : e = [dst EXCEPT !.pos = 0]
  OBVIOUS
<1>6. e \in FileType /\ e.pos = 0 /\ Len(e.bytes) \in Nat
  <2>1. dst \in FileType
    BY DEF Copying, FileCopied
  <2>2. e = [bytes |-> dst.bytes, pos |-> 0] /\ dst.bytes \in Seq(Byte)
    BY <1>5, <2>1 DEF FileType
  <2> QED
    BY <2>2, LenProperties DEF FileType
<1>7. dst' \in FileType
  <2>1. e.pos <= Len(e.bytes)
    BY <1>6
  <2> QED
    BY <1>2, <1>4, <1>5, <1>6, <2>1, WriteBytesProperties
<1>8. Remaining' = Remaining
  BY <1>1 DEF Remaining
<1> QED
  BY <1>1, <1>7, <1>8, CopyingTypes, TypesKept

-----------------------------------------------------------------------------
(* After the last round.                                                   *)

\* What is known of the optimized file.
Optimized == StateType /\ ChunksIntact /\ SizesInv /\ ShapeInv /\ OnlyReferencedMedia

\* The file and the tables that FinishOptimize leaves.
Finished ==
    /\ file' \in FileType /\ file'.pos = OptimalLen /\ Len(file'.bytes) = dst.pos
    /\ OptimalLen + MdatHeaderLen <= dst.pos
    /\ \A i \in (OptimalLen + 1)..dst.pos : file'.bytes[i] = dst.bytes[i]
    /\ DOMAIN chunks' = Tracks
    /\ \A t \in Tracks : /\ chunks'[t].stsc = chunks[t].stsc /\ chunks'[t].stco = offsets[t]
                         /\ nextChunk[t] = Len(flushed[t]) + 1

LEMMA FinishFinishes ==
    ASSUME TrackInv, Copying, FinishOptimize
    PROVE  Finished
<1>1. /\ Remaining = {}
      /\ file' = [bytes |-> WriteBytes([dst EXCEPT !.pos = 0], Box(OptimalLen)).bytes,
                  pos |-> OptimalLen]
      /\ chunks' = [t \in Tracks |-> [chunks[t] EXCEPT !.stco = offsets[t]]]
  BY DEF FinishOptimize
<1>2. /\ OptimalLen \in Nat /\ MdatHeaderLen \in Nat /\ Box(OptimalLen) \in Seq(Byte)
      /\ Len(Box(OptimalLen)) = OptimalLen
  BY OptimizeAssumption, BoxAssumption, BoxType
<1>3. dst \in FileType /\ dst.pos = Len(dst.bytes) /\ dst.pos \in Nat
  BY DEF Copying, FileCopied, FileType
<1>4. OptimalLen + MdatHeaderLen <= dst.pos
  <2> DEFINE f == [t \in Tracks |-> CopiedLen(t)]
  <2>1. \A t \in Tracks : f[t] \in Nat
    BY CopiedLenType
  <2>2. IsFiniteSet(Tracks)
    BY CountsAssumption, IntervalFinite DEF Tracks
  <2>3. dst.pos = OptimalLen + MdatHeaderLen + SumFunctionOnSet(f, Tracks)
    BY DEF Copying, FileCopied
  <2> HIDE DEF f
  <2>4. SumFunctionOnSet(f, Tracks) \in Nat
    BY <2>1, <2>2, SumOfNats
  <2> QED
    BY <1>2, <2>3, <2>4
<1>5. PICK g : g = WriteBytes([dst EXCEPT !.pos = 0], Box(OptimalLen))
  OBVIOUS
<1>6. /\ g \in FileType /\ Len(g.bytes) = dst.pos
      /\ \A i \in (OptimalLen + 1)..dst.pos : g.bytes[i] = dst.bytes[i]
  <2>1. Len(Box(OptimalLen)) <= Len(dst.bytes)
    BY <1>2, <1>3, <1>4
  <2> QED
    BY <1>2, <1>3, <1>5, <2>1, WrittenOver
<1>7. /\ file' \in FileType /\ file'.pos = OptimalLen /\ Len(file'.bytes) = dst.pos
      /\ \A i \in (OptimalLen + 1)..dst.pos : file'.bytes[i] = dst.bytes[i]
  BY <1>1, <1>2, <1>5, <1>6 DEF FileType
<1>8. \A t \in Tracks : /\ chunks'[t].stsc = chunks[t].stsc /\ chunks'[t].stco = offsets[t]
                        /\ nextChunk[t] = Len(flushed[t]) + 1
  <2> SUFFICES ASSUME NEW t \in Tracks
               PROVE  /\ chunks'[t].stsc = chunks[t].stsc /\ chunks'[t].stco = offsets[t]
                      /\ nextChunk[t] = Len(flushed[t]) + 1
    OBVIOUS
  <2>1. chunks[t] \in ChunksType
    BY DEF TrackInv, LookupInv, LookedUp, Counted, Media
  <2>2. chunks'[t] = [chunks[t] EXCEPT !.stco = offsets[t]]
    BY <1>1
  <2>3. t \notin Remaining
    BY <1>1
  <2> QED
    BY <2>1, <2>2, <2>3, RemainingIs DEF ChunksType
<1>9. DOMAIN chunks' = Tracks
  BY <1>1
<1> QED
  BY <1>4, <1>7, <1>8, <1>9 DEF Finished

LEMMA FinishIntact ==
    ASSUME TrackInv, Copying, Finished, flushed' = flushed
    PROVE  ChunksIntact'
<1> SUFFICES ASSUME NEW t \in Tracks
             PROVE  /\ Len(flushed[t]) = Len(chunks'[t].stco)
                    /\ \A c \in 1..Len(flushed[t]) :
                          /\ chunks'[t].stco[c] + Len(flushed[t][c]) <= Len(file'.bytes)
                          /\ \A i \in 1..Len(flushed[t][c]) :
                                file'.bytes[chunks'[t].stco[c] + i] = flushed[t][c][i]
  BY DEF ChunksIntact
<1>1. /\ chunks'[t].stco = offsets[t] /\ nextChunk[t] = Len(flushed[t]) + 1
      /\ Len(file'.bytes) = dst.pos
      /\ \A i \in (OptimalLen + 1)..dst.pos : file'.bytes[i] = dst.bytes[i]
  BY DEF Finished
<1>2. /\ offsets[t] \in Seq(Nat) /\ Len(offsets[t]) = Len(flushed[t])
      /\ \A c \in 1..Len(flushed[t]) :
            c < nextChunk[t] => Copied(dst, offsets[t][c], flushed[t][c])
  BY DEF Copying, TrackCopied
<1>3. /\ flushed[t] \in Seq(Seq(Byte)) /\ Len(flushed[t]) \in Nat
      /\ OptimalLen \in Nat /\ MdatHeaderLen \in Nat
      /\ dst.pos \in Nat
  BY LenProperties, OptimizeAssumption, BoxAssumption
     DEF TrackInv, IInv, StateType, MediaType, Copying, FileCopied, FileType
<1>4. ASSUME NEW c \in 1..Len(flushed[t])
      PROVE  /\ offsets[t][c] + Len(flushed[t][c]) <= dst.pos
             /\ \A i \in 1..Len(flushed[t][c]) :
                   file'.bytes[offsets[t][c] + i] = flushed[t][c][i]
  <2>1. c < nextChunk[t]
    BY <1>1, <1>3
  <2>2. Copied(dst, offsets[t][c], flushed[t][c])
    BY <1>2, <2>1
  <2>3. PICK at \in Nat, data \in Seq(Byte) : at = offsets[t][c] /\ data = flushed[t][c]
    <3>1. c \in 1..Len(offsets[t])
      BY <1>2
    <3> QED
      BY <1>2, <1>3, <3>1, ElementOfSeq
  <2>4. /\ OptimalLen + MdatHeaderLen <= at /\ at + Len(data) <= dst.pos
        /\ \A i \in 1..Len(data) : dst.bytes[at + i] = data[i]
    BY <2>2, <2>3 DEF Copied
  <2>5. Len(data) \in Nat
    BY LenProperties
  <2>6. \A i \in 1..Len(data) : at + i \in (OptimalLen + 1)..dst.pos
    BY <1>3, <2>4, <2>5
  <2> QED
    BY <1>1, <2>3, <2>4, <2>6
<1> QED
  BY <1>1, <1>2, <1>4

LEMMA FinishShape ==
    ASSUME TrackInv, Copying, Finished, UNCHANGED << buffer, hist, flushed, session >>
    PROVE  ShapeInv'
<1>1. ASSUME NEW t \in Tracks, NEW first, Ghost(Media(t), t, hist[t], first)
      PROVE  Ghost(Media(t), t, hist[t], first)'
  <2>1. /\ Media(t)'.chunks = chunks'[t] /\ Media(t)'.flushed = flushed[t]
        /\ Media(t)'.buffer = buffer[t]
        /\ Media(t).chunks = chunks[t] /\ Media(t).flushed = flushed[t]
        /\ Media(t).buffer = buffer[t]
    BY DEF Media
  <2>2. chunks'[t].stsc = chunks[t].stsc /\ Len(chunks'[t].stco) = Len(flushed[t])
    BY DEF Finished, Copying, TrackCopied
  <2>3. Ghost(Media(t)', t, hist[t], first)
    BY <1>1, <2>1, <2>2 DEF Ghost
  <2> QED
    BY <2>3
<1> QED
  BY <1>1 DEF TrackInv, ShapeInv, ShapeOf, OfSamples

LEMMA FinishLength ==
    ASSUME TrackInv, Copying, Finished, flushed' = flushed
    PROVE  OnlyReferencedMedia'
<1> DEFINE f == [t \in Tracks |-> CopiedLen(t)]
           g == [t \in Tracks |-> Len(FlattenSeq(flushed[t]))]
<1>1. \A t \in Tracks : f[t] \in Nat
  BY CopiedLenType
<1>2. \A t \in Tracks : g[t] = f[t]
  <2> SUFFICES ASSUME NEW t \in Tracks PROVE Len(FlattenSeq(flushed[t])) = CopiedLen(t)
    OBVIOUS
  <2>1. /\ flushed[t] \in Seq(Seq(Byte)) /\ Len(flushed[t]) \in Nat
        /\ nextChunk[t] = Len(flushed[t]) + 1
    BY LenProperties DEF TrackInv, IInv, StateType, MediaType, Finished
  <2>2. nextChunk[t] - 1 = Len(flushed[t])
    BY <2>1
  <2>3. SubSeq(flushed[t], 1, Len(flushed[t])) = flushed[t]
    BY <2>1, SubSeqFull
  <2> QED
    BY <2>2, <2>3 DEF CopiedLen
<1>3. IsFiniteSet(Tracks)
  BY CountsAssumption, IntervalFinite DEF Tracks
<1>4. SumFunction(g) = SumFunctionOnSet(g, Tracks)
  <2>1. DOMAIN g = Tracks
    OBVIOUS
  <2> QED
    BY <2>1 DEF SumFunction
<1>5. dst.pos = OptimalLen + MdatHeaderLen + SumFunctionOnSet(f, Tracks)
  BY DEF Copying, FileCopied
<1> HIDE DEF f, g
<1>6. SumFunctionOnSet(g, Tracks) = SumFunctionOnSet(f, Tracks)
  <2>1. \A t \in Tracks : f[t] \in Int
    BY <1>1
  <2> QED
    BY <1>2, <1>3, <2>1, SumOfEqual
<1>7. Len(file'.bytes) = OptimalLen + MdatHeaderLen + SumFunction(g)
  BY <1>4, <1>5, <1>6 DEF Finished
<1> QED
  BY <1>7 DEF OnlyReferencedMedia, g

LEMMA FinishOptimized ==
    ASSUME TrackInv, Copying, FinishOptimize, stage = "rewriting"
    PROVE  Optimized' /\ OptimizeTypeOK'
<1>1. Finished
  BY FinishFinishes
<1>2. /\ stage' = "optimized"
      /\ UNCHANGED << mdatAt, tables, buffer, writer, durations, cache, call, faults,
                      hist, flushed, rewriteVars >>
  BY DEF FinishOptimize
<1>3. MediaType'
  <2>1. \A t \in Tracks : chunks'[t].stco \in Seq(Nat)
    BY <1>1 DEF Finished, Copying, TrackCopied
  <2>2. file' \in FileType /\ file'.pos <= Len(file'.bytes) /\ DOMAIN chunks' = Tracks
    <3>1. OptimalLen <= dst.pos
      BY <1>1, OptimizeAssumption, BoxAssumption
         DEF Finished, Copying, FileCopied, FileType
    <3> QED
      BY <1>1, <3>1 DEF Finished
  <2> QED
    BY <1>2, <2>1, <2>2 DEF TrackInv, IInv, StateType, MediaType, FileType
<1>4. WriterType'
  BY <1>2 DEF TrackInv, IInv, StateType, WriterType, tables, writer, durations, call
<1>5. ChunksIntact' /\ ShapeInv' /\ OnlyReferencedMedia'
  BY <1>1, <1>2, FinishIntact, FinishShape, FinishLength DEF call
<1>6. SizesInv'
  BY <1>2 DEF TrackInv, SizesInv, tables
<1>7. OptimizeTypeOK'
  <2>1. Remaining' = Remaining
    <3>1. \A t \in Tracks : Len(chunks'[t].stco) = Len(chunks[t].stco)
      BY <1>1, RemainingIs DEF Finished, Copying, TrackCopied
    <3> QED
      BY <1>2, <3>1 DEF Remaining, rewriteVars
  <2>2. dst' \in FileType
    BY <1>2 DEF Copying, FileCopied, rewriteVars
  <2> QED
    BY <1>2, <2>1, <2>2, CopyingTypes, TypesKept DEF rewriteVars
<1> QED
  BY <1>3, <1>4, <1>5, <1>6, <1>7 DEF Optimized, StateType

-----------------------------------------------------------------------------
(* The invariant, and what follows from it.                                *)

\* What the tracks recorded, which Optimize does not touch.
Recorded == MediaInOrder /\ ClosedHoldsAll /\ DurationsAddUp /\ MovieIsLongest

OptInv ==
    /\ stage \in {"none", "rewriting", "optimized", "failed"}
    /\ faults \in Nat /\ Recorded
    /\ stage = "none" => TrackInv /\ Untouched
    /\ Copyable => /\ OptimizeTypeOK
                   /\ stage \in {"rewriting", "failed"} => TrackInv
                   /\ stage = "rewriting" => Copying
                   /\ stage = "optimized" => Optimized
    /\ WholeUnits /\ NoEmptySamples => ChunksInTimeOrder

LEMMA InitTrackInv == Init => TrackInv
BY InitIInv, InitLookupInv, InitSizesInv, InitTableInv, InitOrderInv, InitLongestInv,
   InitShapeInv DEF TrackInv

LEMMA NextTrackInv == TrackInv /\ [Next]_vars => TrackInv'
BY NextIInv, NextLookupInv, NextSizesInv, NextTableInv, NextOrderInv, NextLongestInv,
   NextShapeInv DEF TrackInv, OrderInv

LEMMA TrackInvRecorded == TrackInv => Recorded /\ faults \in Nat
<1> SUFFICES ASSUME TrackInv PROVE Recorded /\ faults \in Nat
  OBVIOUS
<1>1. faults \in Nat
  BY CountsAssumption DEF TrackInv, IInv, StateType, WriterType
<1>2. MediaInOrder /\ ClosedHoldsAll /\ DurationsAddUp /\ MovieIsLongest
  BY OrderInvClosed, TableInvDurations, LongestInvLongest DEF TrackInv, OrderInv
<1> QED
  BY <1>1, <1>2 DEF Recorded

LEMMA RecordedKept ==
    ASSUME Recorded, faults \in Nat, WriteFault \/ UNCHANGED faults,
           UNCHANGED << tables, buffer, durations, call, hist, flushed >>
    PROVE  Recorded' /\ faults' \in Nat
<1>1. faults' \in Nat /\ (faults' = 0 => faults = 0)
  BY DEF WriteFault
<1>2. /\ \A t \in Tracks : Contents(t)' = Contents(t)
      /\ \A t, k : TimeBefore(t, k)' = TimeBefore(t, k)
  BY DEF Contents, TimeBefore, DurationsOf
<1>3. MediaInOrder' /\ ClosedHoldsAll'
  BY <1>2 DEF Recorded, MediaInOrder, ClosedHoldsAll, call
<1>4. DurationsAddUp'
  BY <1>1, <1>2 DEF Recorded, DurationsAddUp, tables, durations
<1>5. MovieIsLongest'
  BY DEF Recorded, MovieIsLongest, durations
<1> QED
  BY <1>1, <1>3, <1>4, <1>5 DEF Recorded

LEMMA CopyingInTimeOrder ==
    TrackInv /\ Copying /\ WholeUnits /\ NoEmptySamples => ChunksInTimeOrder
<1> SUFFICES ASSUME TrackInv, Copying, WholeUnits, NoEmptySamples,
                    NEW i \in 1..Len(order), NEW j \in 1..Len(order), i < j
             PROVE  LET t == order[i][1]    c == order[i][2]
                        u == order[j][1]    d == order[j][2]
                    IN  /\ t = u => c < d
                        /\ MovieTime(t, c) <= MovieTime(u, d)
                        /\ MovieTime(t, c) = MovieTime(u, d) /\ u \in HintTracks
                               => t \in HintTracks
  BY DEF ChunksInTimeOrder
<1>1. /\ order \in Seq(Tracks \X (Nat \ {0}))
      /\ \A k \in 1..Len(order) : order[k][2] < nextChunk[order[k][1]]
      /\ Precedes(order[i][1], order[i][2], order[j][1], order[j][2])
  BY DEF Copying, Orderly
<1>2. ASSUME NEW k \in 1..Len(order)
      PROVE  MovieTime(order[k][1], order[k][2]) = InMovie(order[k][1], order[k][2])
  <2>1. PICK t \in Tracks, c \in Nat \ {0} : t = order[k][1] /\ c = order[k][2]
    BY <1>1, ElementOfSeq
  <2>2. c < nextChunk[t] /\ nextChunk[t] \in 1..(Len(flushed[t]) + 1) /\ Len(flushed[t]) \in Nat
    BY <1>1, <2>1, RemainingIs DEF Copying, TrackCopied
  <2>3. c \in 1..Len(flushed[t])
    BY <2>2
  <2>4. PICK first : Table(t, first)
    BY DEF Copying
  <2> QED
    BY <2>1, <2>3, <2>4, OfSamplesHeld, MovieTimeIs DEF TrackInv, IInv
<1>3. /\ MovieTime(order[i][1], order[i][2]) = InMovie(order[i][1], order[i][2])
      /\ MovieTime(order[j][1], order[j][2]) = InMovie(order[j][1], order[j][2])
  BY <1>2
<1> QED
  BY <1>1, <1>3 DEF Precedes

LEMMA TimeOrderKept ==
    ASSUME ChunksInTimeOrder, UNCHANGED << order, hist, flushed >>
    PROVE  ChunksInTimeOrder'
<1>1. \A t, c : MovieTime(t, c)' = MovieTime(t, c)
  BY DEF MovieTime, TimeBefore, DurationsOf
<1> QED
  BY <1>1 DEF ChunksInTimeOrder

LEMMA UntouchedInTimeOrder == Untouched => ChunksInTimeOrder
<1> SUFFICES ASSUME Untouched PROVE ChunksInTimeOrder
  OBVIOUS
<1>1. Len(order) = 0
  BY EmptySeq DEF Untouched
<1>2. 1..Len(order) = {}
  BY <1>1
<1> QED
  BY <1>2 DEF ChunksInTimeOrder

LEMMA InitOptInv == OptimizeInit => OptInv
<1> SUFFICES ASSUME OptimizeInit PROVE OptInv
  OBVIOUS
<1>1. TrackInv /\ Untouched /\ stage = "none"
  BY InitTrackInv DEF OptimizeInit, Untouched
<1> QED
  BY <1>1, TrackInvRecorded, UntouchedTypes, UntouchedInTimeOrder DEF OptInv

LEMMA SameCopyable ==
    ASSUME session' = session
    PROVE  Copyable' <=> Copyable
BY DEF Copyable, WholeUnits, NoEmptySamples

\* A step of the tracks.
LEMMA TrackStepOptInv ==
    ASSUME OptInv, TrackStep
    PROVE  OptInv'
<1>1. stage = "none" /\ Next /\ UNCHANGED << stage, rewriteVars >>
  BY DEF TrackStep
<1>2. TrackInv /\ Untouched
  BY <1>1 DEF OptInv
<1>3. TrackInv'
  BY <1>1, <1>2, NextTrackInv
<1>4. Untouched' /\ stage' = "none"
  BY <1>1, <1>2 DEF Untouched, rewriteVars
<1>5. (TrackInv /\ Untouched /\ stage = "none")'
  BY <1>3, <1>4
<1>6. OptimizeTypeOK' /\ ChunksInTimeOrder' /\ Recorded' /\ (faults \in Nat)'
  BY <1>5, TrackInvRecorded, UntouchedTypes, UntouchedInTimeOrder, PTL
<1> QED
  BY <1>3, <1>4, <1>6 DEF OptInv

\* Steps that leave the file and what the tracks recorded.
LEMMA UnwrittenRecorded ==
    ASSUME OptInv, UNCHANGED << tables, buffer, durations, call, hist, flushed >>,
           WriteFault \/ UNCHANGED faults
    PROVE  /\ Recorded' /\ faults' \in Nat /\ (Copyable' <=> Copyable)
           /\ order' = order => (WholeUnits /\ NoEmptySamples => ChunksInTimeOrder)'
<1>1. Recorded' /\ faults' \in Nat
  BY RecordedKept DEF OptInv
<1>2. Copyable' <=> Copyable
  BY SameCopyable DEF call
<1>3. order' = order => (WholeUnits /\ NoEmptySamples => ChunksInTimeOrder)'
  BY TimeOrderKept DEF OptInv, WholeUnits, NoEmptySamples
<1> QED
  BY <1>1, <1>2, <1>3

LEMMA BeginOptInv ==
    ASSUME OptInv, BeginOptimize \/ BeginOptimizeThrows
    PROVE  OptInv'
<1>1. stage = "none" /\ order' = order
  BY DEF BeginOptimize, BeginOptimizeThrows
<1>2. TrackInv /\ Untouched /\ Unwritten
  BY <1>1, BeginUnwritten DEF OptInv
<1>3. TrackInv'
  BY <1>2, UnwrittenTrackInv
<1>4. /\ Recorded' /\ faults' \in Nat /\ (Copyable' <=> Copyable)
      /\ (WholeUnits /\ NoEmptySamples => ChunksInTimeOrder)'
  BY <1>1, <1>2, UnwrittenRecorded DEF Unwritten
<1>5. CASE BeginOptimize /\ HasMdat
  <2>1. stage' = "rewriting"
    BY <1>5 DEF BeginOptimize
  <2>2. Copyable => Copying'
    BY <1>2, <1>5, BeginCopying
  <2>3. Copyable => OptimizeTypeOK'
    <3> SUFFICES ASSUME Copyable PROVE OptimizeTypeOK'
      OBVIOUS
    <3>1. (TrackInv /\ Copying /\ stage = "rewriting")'
      BY <1>3, <2>1, <2>2
    <3> QED
      BY <3>1, CopyingTypes, PTL
  <2> QED
    BY <1>3, <1>4, <2>1, <2>2, <2>3 DEF OptInv
<1>6. CASE BeginOptimizeThrows \/ (BeginOptimize /\ ~HasMdat)
  <2>1. stage' = "failed" /\ OptimizeTypeOK'
    BY <1>2, <1>6, BeginFails
  <2> QED
    BY <1>3, <1>4, <2>1 DEF OptInv
<1> QED
  BY <1>5, <1>6

\* A round, and a failure in the middle of one or of what comes after.
LEMMA RewriteOptInv ==
    ASSUME OptInv, RewriteNextChunk
    PROVE  OptInv'
<1>1. /\ stage = "rewriting" /\ stage' = "rewriting"
      /\ UNCHANGED << tables, buffer, durations, call, faults, hist, flushed >>
  BY DEF RewriteNextChunk
<1>2. Recorded' /\ faults' \in Nat /\ (Copyable' <=> Copyable)
  BY <1>1, UnwrittenRecorded
<1>3. ASSUME Copyable
      PROVE  TrackInv' /\ Copying' /\ OptimizeTypeOK'
  <2>1. TrackInv /\ Copying /\ WholeUnits
    BY <1>1, <1>3 DEF OptInv, Copyable
  <2>2. TrackInv'
    BY <2>1, RewriteUnwritten, UnwrittenTrackInv
  <2>3. Copying'
    BY <2>1, RoundKeepsCopying
  <2>4. (TrackInv /\ Copying /\ stage = "rewriting")'
    BY <1>1, <2>2, <2>3
  <2>5. OptimizeTypeOK'
    BY <2>4, CopyingTypes, PTL
  <2> QED
    BY <2>2, <2>3, <2>5
<1>4. (WholeUnits /\ NoEmptySamples => ChunksInTimeOrder)'
  <2> SUFFICES ASSUME WholeUnits, NoEmptySamples PROVE ChunksInTimeOrder'
    BY DEF WholeUnits, NoEmptySamples
  <2>1. (TrackInv /\ Copying)' /\ WholeUnits /\ NoEmptySamples
    BY <1>3 DEF Copyable
  <2>2. (TrackInv /\ Copying /\ WholeUnits /\ NoEmptySamples)'
    BY <2>1 DEF WholeUnits, NoEmptySamples
  <2> QED
    BY <2>2, CopyingInTimeOrder, PTL
<1> QED
  BY <1>1, <1>2, <1>3, <1>4 DEF OptInv

LEMMA ThrowsOptInv ==
    ASSUME OptInv, RewriteThrows \/ FinishOptimizeThrows
    PROVE  OptInv'
<1>1. /\ stage = "rewriting" /\ stage' = "failed" /\ order' = order /\ WriteFault
      /\ UNCHANGED << tables, buffer, durations, call, hist, flushed >>
  BY DEF RewriteThrows, FinishOptimizeThrows
<1>2. /\ Recorded' /\ faults' \in Nat /\ (Copyable' <=> Copyable)
      /\ (WholeUnits /\ NoEmptySamples => ChunksInTimeOrder)'
  BY <1>1, UnwrittenRecorded
<1>3. ASSUME Copyable
      PROVE  TrackInv' /\ OptimizeTypeOK'
  <2>1. TrackInv /\ Copying /\ WholeUnits
    BY <1>1, <1>3 DEF OptInv, Copyable
  <2>2. Unwritten
    BY <2>1, RewriteUnwritten, FinishUnwritten DEF TrackInv
  <2>3. TrackInv'
    BY <2>1, <2>2, UnwrittenTrackInv
  <2>4. OptimizeTypeOK'
    BY <1>1, <2>1, RewriteThrowsTypes, FinishThrowsTypes
  <2> QED
    BY <2>3, <2>4
<1> QED
  BY <1>1, <1>2, <1>3 DEF OptInv

LEMMA FinishOptInv ==
    ASSUME OptInv, FinishOptimize
    PROVE  OptInv'
<1>1. /\ stage = "rewriting" /\ stage' = "optimized" /\ order' = order
      /\ UNCHANGED << tables, buffer, durations, call, faults, hist, flushed >>
  BY DEF FinishOptimize, rewriteVars
<1>2. /\ Recorded' /\ faults' \in Nat /\ (Copyable' <=> Copyable)
      /\ (WholeUnits /\ NoEmptySamples => ChunksInTimeOrder)'
  BY <1>1, UnwrittenRecorded
<1>3. Copyable => Optimized' /\ OptimizeTypeOK'
  BY <1>1, FinishOptimized DEF OptInv
<1> QED
  BY <1>1, <1>2, <1>3 DEF OptInv

LEMMA NextOptInv == OptInv /\ [OptimizeNext]_optimizeVars => OptInv'
<1> SUFFICES ASSUME OptInv, [OptimizeNext]_optimizeVars PROVE OptInv'
  OBVIOUS
<1>1. CASE TrackStep
  BY <1>1, TrackStepOptInv
<1>2. CASE BeginOptimize \/ BeginOptimizeThrows
  BY <1>2, BeginOptInv
<1>3. CASE RewriteNextChunk
  BY <1>3, RewriteOptInv
<1>4. CASE RewriteThrows \/ FinishOptimizeThrows
  BY <1>4, ThrowsOptInv
<1>5. CASE FinishOptimize
  BY <1>5, FinishOptInv
<1>6. CASE UNCHANGED optimizeVars
  <2>1. UNCHANGED vars /\ UNCHANGED << stage, rewriteVars >>
    BY <1>6 DEF optimizeVars
  <2>2. [Next]_vars
    BY <2>1
  <2>3. TrackInv => TrackInv'
    BY <2>2, NextTrackInv
  <2>4. /\ UNCHANGED << tables, buffer, durations, call, faults, hist, flushed >>
        /\ UNCHANGED << dst, offsets, nextChunk, nextTime, order, stage, chunks, file >>
    BY <2>1 DEF vars, rewriteVars
  <2>5. /\ Recorded' /\ faults' \in Nat /\ (Copyable' <=> Copyable)
        /\ (WholeUnits /\ NoEmptySamples => ChunksInTimeOrder)'
    BY <2>4, UnwrittenRecorded
  <2>6. Untouched => Untouched'
    BY <2>4 DEF Untouched
  <2>7. OptimizeTypeOK => OptimizeTypeOK'
    BY <2>4 DEF OptimizeTypeOK, Remaining
  <2>8. Copying => Copying'
    <3>1. /\ Remaining' = Remaining /\ \A t, first : Table(t, first)' = Table(t, first)
          /\ \A t, c : InMovie(t, c)' = InMovie(t, c)
          /\ \A t, c, u, d : Precedes(t, c, u, d)' = Precedes(t, c, u, d)
      BY <2>4, SameTable, SameTimes DEF Remaining
    <3>2. (VariablesTyped => VariablesTyped') /\ (TimesRight => TimesRight')
      BY <2>4, <3>1 DEF VariablesTyped, TimesRight
    <3>3. Orderly => Orderly'
      BY <2>4, <3>1 DEF Orderly
    <3>4. \A t \in Tracks : CopiedLen(t)' = CopiedLen(t) /\ (TrackCopied(t) => TrackCopied(t)')
      BY <2>4 DEF CopiedLen, TrackCopied
    <3>5. FileCopied => FileCopied'
      BY <2>4, <3>4 DEF FileCopied
    <3> QED
      BY <3>1, <3>2, <3>3, <3>4, <3>5 DEF Copying
  <2>9. Optimized => Optimized'
    <3>1. StateType => StateType'
      BY <2>1 DEF StateType, MediaType, WriterType, vars, tables, writer, durations, call
    <3>2. (ChunksIntact => ChunksIntact') /\ (SizesInv => SizesInv')
      BY <2>4 DEF ChunksIntact, SizesInv, tables
    <3>3. ShapeInv => ShapeInv'
      BY <2>4 DEF ShapeInv, ShapeOf, OfSamples, Ghost, Media, call
    <3>4. OnlyReferencedMedia => OnlyReferencedMedia'
      BY <2>4 DEF OnlyReferencedMedia
    <3> QED
      BY <3>1, <3>2, <3>3, <3>4 DEF Optimized
  <2> QED
    BY <2>3, <2>4, <2>5, <2>6, <2>7, <2>8, <2>9 DEF OptInv
<1> QED
  BY <1>1, <1>2, <1>3, <1>4, <1>5, <1>6 DEF OptimizeNext

LEMMA OptInvariant == OptimizeSpec => []OptInv
BY InitOptInv, NextOptInv, PTL DEF OptimizeSpec

LEMMA OptInvChunks == OptInv => (Copyable => StateType /\ ChunksIntact /\ SizesInv /\ ShapeInv)
<1> SUFFICES ASSUME OptInv, Copyable PROVE StateType /\ ChunksIntact /\ SizesInv /\ ShapeInv
  OBVIOUS
<1>1. TrackInv \/ Optimized
  BY DEF OptInv
<1>2. TrackInv => StateType /\ ChunksIntact /\ SizesInv /\ ShapeInv
  BY IInvIntact DEF TrackInv, IInv
<1>3. Optimized => StateType /\ ChunksIntact /\ SizesInv /\ ShapeInv
  BY DEF Optimized
<1> QED
  BY <1>1, <1>2, <1>3

LEMMA OptInvReads == OptInv => (Copyable => ReadBackFromFile)
BY OptInvChunks, ShapeReads DEF Copyable

LEMMA OptInvLength == OptInv => (Copyable => OnlyReferencedMedia)
BY DEF OptInv, Optimized, OnlyReferencedMedia

\* Optimize leaves what the tracks recorded: the samples are in the chunks in
\* their order, none is missing of a closed file, the durations are those of the
\* samples and the movie's is the longest, after each round and each failure.
THEOREM RecordsSurviveOptimize ==
    OptimizeSpec => [](MediaInOrder /\ ClosedHoldsAll /\ DurationsAddUp /\ MovieIsLongest)
<1>1. OptInv => MediaInOrder /\ ClosedHoldsAll /\ DurationsAddUp /\ MovieIsLongest
  BY DEF OptInv, Recorded
<1> QED
  BY <1>1, OptInvariant, PTL

\* The variables of MP4File::Optimize have their types, and a next time is kept
\* only for a track with chunks left (nextChunkTimes of RewriteMdat).
THEOREM OptimizeTypeCorrect == OptimizeSpec => [](Copyable => OptimizeTypeOK)
<1>1. OptInv => (Copyable => OptimizeTypeOK)
  BY DEF OptInv
<1> QED
  BY <1>1, OptInvariant, PTL

\* Every chunk is whole at the offset its track's stco gives, before Optimize,
\* while the offsets in memory change to those in the new file, in the old file
\* after a failure, and in the new one: what RewriteMdat read, with the sizes
\* stsz and stsc give, was the chunk, and FinishOptimalWrite writes only over
\* the boxes in front (MP4Track::ReadChunk, MP4Track::RewriteChunk).
THEOREM OptimizedChunksIntact == OptimizeSpec => [](Copyable => ChunksIntact)
<1>1. OptInv => (Copyable => ChunksIntact)
  BY OptInvChunks
<1> QED
  BY <1>1, OptInvariant, PTL

\* Whoever opens the file reads back every sample that is in a chunk, also from
\* the optimized file and from the old one when Optimize failed at any write.
THEOREM OptimizedFileReadsBack == OptimizeSpec => [](Copyable => ReadBackFromFile)
<1>1. OptInv => (Copyable => ReadBackFromFile)
  BY OptInvReads
<1> QED
  BY <1>1, OptInvariant, PTL

\* RewriteMdat copies the chunks of all tracks in the order of the times their
\* first samples have in the movie, those of hint tracks first at equal times:
\* a next chunk is never earlier than one copied, since the times of a track's
\* chunks grow and rounding to the movie's time scale keeps their order.  No
\* sample is empty, for the bytes of a chunk then tell its first sample.
THEOREM ChunksFollowTime ==
    OptimizeSpec => [](WholeUnits /\ NoEmptySamples => ChunksInTimeOrder)
<1>1. OptInv => (WholeUnits /\ NoEmptySamples => ChunksInTimeOrder)
  BY DEF OptInv
<1> QED
  BY <1>1, OptInvariant, PTL

\* The optimized file is as long as its boxes and the chunks together: nothing
\* failed writes left behind, and no chunk twice.
THEOREM OnlyMediaIsCopied == OptimizeSpec => [](Copyable => OnlyReferencedMedia)
<1>1. OptInv => (Copyable => OnlyReferencedMedia)
  BY OptInvLength
<1> QED
  BY <1>1, OptInvariant, PTL
=============================================================================
