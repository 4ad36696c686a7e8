-------------------------- MODULE RefinementProofs --------------------------
(***************************************************************************)
(* Proof that the tracks of module Track implement SampleStore             *)
(* (ImplementsStore, module TrackRefinement).                              *)
(*                                                                         *)
(* The invariants of the modules this one extends give the refinement      *)
(* mapping: the tables of a track, expanded, are the log of its samples    *)
(* (DescribedIs), and a reader who starts with no cache finds a sample in  *)
(* the file exactly when it is in a chunk (FoundIs): one behind the last   *)
(* chunk is located in no chunk at all (BehindChunks).  With the mapping   *)
(* so described (Seen), every step of the tracks is a step of the store    *)
(* that writes, stores, corrects or closes, or changes nothing it sees.    *)
(***************************************************************************)
EXTENDS ReadBackProofs, TrackRefinement

-----------------------------------------------------------------------------
(* The tables, read without caches.                                        *)

\* Sequence x lists the first n values.
Lists(x, vals, n) == x \in Seq(Nat) /\ Len(x) = n /\ \A k \in 1..n : x[k] = vals[k]

\* The values of one run.
RunValues(run) == [i \in 1..run.n |-> run.v]

LEMMA RunValuesType ==
    ASSUME NEW runs \in Seq(RunType)
    PROVE  /\ [r \in 1..Len(runs) |-> RunValues(runs[r])] \in Seq(Seq(Nat))
           /\ Len([r \in 1..Len(runs) |-> RunValues(runs[r])]) = Len(runs)
           /\ \A r \in 1..Len(runs) : /\ RunValues(runs[r]) \in Seq(Nat)
                                      /\ Len(RunValues(runs[r])) = runs[r].n
                                      /\ \A i \in 1..runs[r].n : RunValues(runs[r])[i] = runs[r].v
<1>1. /\ Len(runs) \in Nat
      /\ \A r \in 1..Len(runs) : runs[r].n \in Nat /\ runs[r].v \in Nat
  BY RunIs
<1>2. ASSUME NEW n \in Nat, NEW v \in Nat
      PROVE  /\ [i \in 1..n |-> v] \in Seq(Nat) /\ Len([i \in 1..n |-> v]) = n
             /\ \A i \in 1..n : [j \in 1..n |-> v][i] = v
  OBVIOUS
<1>3. \A r \in 1..Len(runs) : /\ RunValues(runs[r]) \in Seq(Nat)
                              /\ Len(RunValues(runs[r])) = runs[r].n
                              /\ \A i \in 1..runs[r].n : RunValues(runs[r])[i] = runs[r].v
  BY <1>1, <1>2 DEF RunValues
<1> QED
  BY <1>1, <1>3

LEMMA JoinedAre ==
    ASSUME NEW a \in Nat, NEW b \in Nat, NEW vals, NEW x, Lists(x, vals, a),
           NEW y \in Seq(Nat), Len(y) = b, NEW v, Same(y, 0, b, v), Same(vals, a, a + b, v)
    PROVE  Lists(x \o y, vals, a + b)
<1>0. /\ x \in Seq(Nat) /\ Len(x) = a /\ \A k \in 1..a : x[k] = vals[k]
      /\ \A k \in 1..b : y[k] = v
      /\ \A k \in (a + 1)..(a + b) : vals[k] = v
  BY DEF Lists, Same
<1>1. x \o y \in Seq(Nat) /\ Len(x \o y) = a + b
  BY <1>0
<1>2. ASSUME NEW k \in 1..(a + b)
      PROVE  (x \o y)[k] = vals[k]
  <2>1. CASE k \in 1..a
    <3>1. (x \o y)[k] = x[k]
      BY <1>0, <2>1
    <3> QED
      BY <1>0, <2>1, <3>1
  <2>2. CASE k \in (a + 1)..(a + b)
    <3>1. (x \o y)[k] = y[k - a] /\ k - a \in 1..b
      BY <1>0, <2>2
    <3> QED
      BY <1>0, <2>2, <3>1
  <2>3. k \in 1..a \/ k \in (a + 1)..(a + b)
    OBVIOUS
  <2> QED
    BY <2>1, <2>2, <2>3, Zenon
<1> QED
  BY <1>1, <1>2 DEF Lists

LEMMA ValuesAre ==
    ASSUME NEW runs \in Seq(RunType), NEW vals, NEW n \in Nat, Encodes(runs, vals, n),
           NEW k \in 1..n
    PROVE  Values(runs)[k] = vals[k]
<1> DEFINE s == [r \in 1..Len(runs) |-> RunValues(runs[r])]
<1>1. /\ s \in Seq(Seq(Nat)) /\ Len(s) = Len(runs)
      /\ \A r \in 1..Len(runs) : /\ s[r] \in Seq(Nat) /\ Len(s[r]) = runs[r].n
                                 /\ \A i \in 1..runs[r].n : s[r][i] = runs[r].v
  BY RunValuesType
<1>2. Values(runs) = FlattenSeq(s)
  BY DEF Values, RunValues
<1>3. /\ Len(runs) \in Nat
      /\ \A r \in 1..Len(runs) : runs[r].n \in Nat /\ runs[r].v \in Nat
  BY RunIs
<1>4. /\ Upto(runs, 0) = 0
      /\ \A r \in 0..Len(runs) : Upto(runs, r) \in Nat
      /\ \A r \in 1..Len(runs) : Upto(runs, r) = Upto(runs, r - 1) + runs[r].n
  BY UptoFacts
<1>5. /\ Upto(runs, Len(runs)) = n
      /\ \A r \in 1..Len(runs) :
            \A j \in (Upto(runs, r - 1) + 1)..Upto(runs, r) : vals[j] = runs[r].v
  BY DEF Encodes
<1>6. Len(runs) # 0
  BY <1>4, <1>5
<1> HIDE DEF s
<1>7. PICK g \in [1..Len(s) -> Seq(Nat)] : Joins(s, g)
  BY <1>1, JoinsExist
<1>8. \A r \in 1..Len(runs) : g[r] = Joining(s, g, r)
  BY <1>1, <1>7 DEF Joins
<1> DEFINE A == {r \in Nat : r \in 1..Len(runs) => Lists(g[r], vals, Upto(runs, r))}
<1>9. 0 \in A
  OBVIOUS
<1>10. ASSUME NEW r \in Nat, r \in A
       PROVE  r + 1 \in A
  <2> SUFFICES ASSUME r + 1 \in 1..Len(runs)
               PROVE  Lists(g[r + 1], vals, Upto(runs, r + 1))
    OBVIOUS
  <2> DEFINE q == r + 1
  <2>0. r \in 0..Len(runs) /\ q \in 1..Len(runs) /\ q - 1 = r /\ q # 0
    BY <1>3
  <2> HIDE DEF q
  <2>1. PICK a \in Nat, b \in Nat : /\ a = Upto(runs, r) /\ b = runs[q].n
                                    /\ Upto(runs, q) = a + b
    <3>1. Upto(runs, r) \in Nat /\ runs[q].n \in Nat
          /\ Upto(runs, q) = Upto(runs, r) + runs[q].n
      BY <1>3, <1>4, <2>0
    <3> QED
      BY <3>1
  <2>2. /\ s[q] \in Seq(Nat) /\ Len(s[q]) = b /\ \A j \in 1..b : s[q][j] = runs[q].v
    BY <1>1, <2>0, <2>1
  <2>3. \A j \in (a + 1)..(a + b) : vals[j] = runs[q].v
    BY <1>5, <2>0, <2>1
  <2>4. CASE r = 0
    <3>1. g[q] = s[q]
      BY <1>8, <2>0, <2>4 DEF Joining, q
    <3>2. a = 0 /\ Upto(runs, q) = b
      BY <1>4, <2>1, <2>4
    <3>3. \A j \in 1..b : vals[j] = runs[q].v
      BY <2>3, <3>2
    <3>4. Lists(g[q], vals, Upto(runs, q))
      BY <2>2, <3>1, <3>2, <3>3 DEF Lists
    <3> QED
      BY <3>4 DEF q
  <2>5. CASE r # 0
    <3>1. r \in 1..Len(runs) /\ Lists(g[r], vals, Upto(runs, r))
      BY <1>3, <1>10, <2>5
    <3>2. g[q] = g[r] \o s[q]
      <4>1. q # 1
        BY <2>0, <2>5
      <4>2. g[q] = g[q - 1] \o s[q]
        BY <1>8, <2>0, <4>1 DEF Joining
      <4> QED
        BY <2>0, <4>2
    <3>3. Lists(g[r], vals, a)
      BY <2>1, <3>1
    <3>4. Same(s[q], 0, b, runs[q].v) /\ Same(vals, a, a + b, runs[q].v)
      BY <2>2, <2>3 DEF Same
    <3>5. Lists(g[q], vals, a + b)
      BY <2>2, <3>2, <3>3, <3>4, JoinedAre
    <3> QED
      BY <2>1, <3>5 DEF q
  <2> QED
    BY <2>4, <2>5
<1> HIDE DEF A
<1>11. Nat \subseteq A
  BY <1>9, <1>10, AllNumbers
<1>12. Lists(g[Len(runs)], vals, Upto(runs, Len(runs)))
  BY <1>3, <1>6, <1>11 DEF A
<1>13. FlattenSeq(s) = g[Len(s)]
  <2>1. s # << >>
    BY <1>1, <1>6
  <2> QED
    BY <1>1, <1>7, <2>1, FlattenIs
<1> QED
  BY <1>1, <1>2, <1>5, <1>12, <1>13 DEF Lists

\* A sample as the store logs it.
Logged(x) == [size |-> x.size, duration |-> x.duration, offset |-> x.offset, sync |-> x.sync]
LogOf(h)  == [k \in 1..Len(h) |-> Logged(h[k])]

\* The invariants the proof uses, and the conditions of the theorem.
Known  == IInv /\ SizesInv /\ LookupInv /\ TableInv /\ AllFlushed /\ ShapeInv
Usable == Sound /\ WholeUnits

LEMMA SyncInTable ==
    ASSUME NEW tbl \in SyncType, NEW h, NEW n \in Nat, SyncSays(tbl, h, n), NEW k \in 1..n,
           h[k].sync \in BOOLEAN
    PROVE  (tbl.present => k \in Range(tbl.ids)) = h[k].sync
<1>1. CASE tbl.present
  <2>1. tbl.ids \in Seq(Nat \ {0})
    BY DEF SyncType
  <2>2. Range(tbl.ids) = Entries(tbl.ids, 1, Len(tbl.ids))
    BY <2>1 DEF Range, Entries
  <2>3. k \in Entries(tbl.ids, 1, Len(tbl.ids)) <=> h[k].sync
    BY <1>1 DEF SyncSays
  <2> QED
    BY <1>1, <2>2, <2>3
<1>2. CASE ~tbl.present
  BY <1>2 DEF SyncSays
<1> QED
  BY <1>1, <1>2

LEMMA DescribedIs ==
    ASSUME Known, Usable, NEW t \in Tracks
    PROVE  Described(t) = LogOf(hist[t])
<1> DEFINE h == hist[t]
           n == Len(h)
<1>1. IInv /\ SizesInv /\ Says(t) /\ OfSamples(h) /\ OffsetsRight(ctts[t]) /\ Sound /\ WholeUnits
  BY DEF Known, Usable, TableInv, LookupInv, LookedUp, ShapeInv, ShapeOf
<1>2. /\ n \in Nat /\ h \in Seq(SampleType)
      /\ \A k \in 1..n : /\ h[k] \in SampleType /\ DurationsOf(t)[k] = h[k].duration
                         /\ OffsetsOf(t)[k] = h[k].offset
  BY <1>1, HistoryIs
<1>3. SampleIds(t) = 1..n
  BY <1>1, CountIs
<1>4. /\ stts[t] \in Seq(RunType) /\ stss[t] \in SyncType
  BY <1>1 DEF IInv, StateType, WriterType, SyncType
<1>5. /\ Encodes(stts[t], DurationsOf(t), n) /\ OffsetsSay(ctts[t], OffsetsOf(t), n)
      /\ SyncSays(stss[t], h, n)
  BY <1>1 DEF Says, SaysTimes, SaysOffset, SaysSync
<1> DEFINE spans == Values(stts[t])
           offsets == Values(ctts[t].runs)
           Said(k) == [size |-> GetSampleSize(stsz[t], k, BytesPerSample),
                       duration |-> spans[k],
                       offset   |-> IF ctts[t].present THEN offsets[k] ELSE 0,
                       sync     |-> stss[t].present => k \in Range(stss[t].ids)]
<1>6. ASSUME NEW k \in 1..n
      PROVE  Said(k) = Logged(h[k])
  <2>1. GetSampleSize(stsz[t], k, BytesPerSample) = h[k].size
    BY <1>1, WholeSizes
  <2>2. spans[k] = h[k].duration
    BY <1>2, <1>4, <1>5, ValuesAre
  <2>3. (IF ctts[t].present THEN offsets[k] ELSE 0) = h[k].offset
    <3>1. CASE ctts[t].present
      <4>1. ctts[t].runs \in Seq(RunType) /\ Encodes(ctts[t].runs, OffsetsOf(t), n)
        BY <1>1, <1>5, <3>1 DEF OffsetsRight, OffsetsType, OffsetsSay
      <4>2. offsets[k] = OffsetsOf(t)[k]
        BY <1>2, <4>1, ValuesAre
      <4> QED
        BY <1>2, <3>1, <4>2
    <3>2. CASE ~ctts[t].present
      BY <1>2, <1>5, <3>2 DEF OffsetsSay
    <3> QED
      BY <3>1, <3>2
  <2>4. (stss[t].present => k \in Range(stss[t].ids)) = h[k].sync
    <3>1. h[k].sync \in BOOLEAN
      BY <1>2 DEF SampleType
    <3> QED
      BY <1>2, <1>4, <1>5, <3>1, SyncInTable
  <2> HIDE DEF spans, offsets, h
  <2> QED
    BY <2>1, <2>2, <2>3, <2>4 DEF Logged
<1>7. Described(t) = [k \in SampleIds(t) |-> Said(k)]
  BY DEF Described
<1> HIDE DEF Said, h
<1>8. [k \in SampleIds(t) |-> Said(k)] = [k \in 1..n |-> Logged(h[k])]
  BY <1>3, <1>6
<1> QED
  BY <1>7, <1>8 DEF LogOf, h

-----------------------------------------------------------------------------
(* The samples a reader finds are those in chunks.                         *)

LEMMA QuotientReaches ==
    ASSUME NEW s \in Nat \ {0}, NEW q \in Nat, NEW r \in Nat, r < s, NEW e \in Nat,
           e * s <= q * s + r
    PROVE  e <= q
<1> SUFFICES ASSUME q + 1 <= e PROVE FALSE
  OBVIOUS
<1>1. PICK d \in Nat : e = (q + 1) + d
  <2>1. e - (q + 1) \in Nat /\ e = (q + 1) + (e - (q + 1))
    OBVIOUS
  <2> QED
    BY <2>1
<1>2. (q + 1) * s <= e * s /\ e * s \in Nat
  BY <1>1, ProductMonotonic
<1>3. (q + 1) * s = q * s + s /\ q * s \in Int
  BY OneMore
<1> QED
  BY <1>2, <1>3

\* A sample behind those in chunks is looked for in the last run of chunks, behind
\* its last chunk.
LEMMA BehindChunks ==
    ASSUME NEW stsc \in Seq(StscType), NEW n \in Nat, NEW first, Shaped(stsc, first, n),
           Starts(stsc, first), NEW k \in Nat, first[n + 1] <= k
    PROVE  LET index == GetSampleStscIndex(stsc, k)
               entry == stsc[index]
               nth   == k - entry.firstSample
           IN  \/ index = THROWN
               \/ entry.firstChunk + nth \div entry.samplesPerChunk \notin 1..n
<1> DEFINE later == {i \in 1..Len(stsc) : k < stsc[i].firstSample}
           index == GetSampleStscIndex(stsc, k)
           len == Len(stsc)
<1>1. /\ first \in [1..(n + 1) -> Nat \ {0}] /\ len \in Nat
      /\ \A c \in 1..(n + 1) : first[c] <= first[n + 1]
  BY LenProperties DEF Shaped
<1>2. \A i \in 1..len : /\ stsc[i].firstSample = first[stsc[i].firstChunk]
                        /\ stsc[i].firstChunk \in 1..n /\ stsc[i].firstSample <= k
  <2> SUFFICES ASSUME NEW i \in 1..len
               PROVE  /\ stsc[i].firstSample = first[stsc[i].firstChunk]
                      /\ stsc[i].firstChunk \in 1..n /\ stsc[i].firstSample <= k
    OBVIOUS
  <2>1. stsc[i].firstChunk \in 1..n /\ stsc[i].firstSample = first[stsc[i].firstChunk]
    BY ChunksIn DEF Starts
  <2>2. PICK c \in 1..(n + 1) : c = stsc[i].firstChunk
    BY <2>1
  <2>3. first[c] \in Nat /\ first[n + 1] \in Nat /\ first[c] <= first[n + 1]
    BY <1>1
  <2> QED
    BY <2>1, <2>2, <2>3
<1>3. later = {}
  <2>1. \A i \in 1..len : stsc[i].firstSample \in Nat
    BY <1>1, <1>2, SMTT(30)
  <2> QED
    BY <1>2, <2>1
<1>4. CASE stsc = << >>
  BY <1>4 DEF GetSampleStscIndex
<1>5. CASE stsc # << >>
  <2>1. len \in 1..len
    BY <1>1, <1>5, EmptySeq
  <2>2. index = len
    BY <1>3, <1>5 DEF GetSampleStscIndex
  <2>3. PICK e : e = stsc[index]
    OBVIOUS
  <2>4. ChunkAfter(stsc, len, n) = n + 1
    BY <1>1 DEF ChunkAfter
  <2>5. PICK f \in 1..n, s \in Nat \ {0}, a \in Nat :
            /\ f = e.firstChunk /\ s = e.samplesPerChunk /\ a = e.firstSample
            /\ a <= k /\ a = first[f] /\ Regular(e, n + 1, first, n)
    <3>1. e.firstChunk \in 1..n /\ Regular(e, n + 1, first, n) /\ e \in StscType
      BY <2>1, <2>2, <2>3, <2>4, ChunksIn
    <3>2. e.firstSample = first[e.firstChunk] /\ e.firstSample <= k
      BY <1>2, <2>1, <2>2, <2>3
    <3>3. e.firstSample \in Nat /\ e.samplesPerChunk \in Nat \ {0}
      BY <1>1, <3>1, <3>2 DEF StscType
    <3> QED
      BY <3>1, <3>2, <3>3
  <2>6. first[n + 1] = a + ((n + 1) - f) * s
    <3>1. \A c \in f..(n + 1) : first[c] = first[f] + (c - f) * s
      BY <2>5, Zenon DEF Regular
    <3>2. n + 1 \in f..(n + 1)
      OBVIOUS
    <3>3. first[n + 1] = first[f] + ((n + 1) - f) * s
      BY <3>1, <3>2
    <3>4. a = first[f]
      BY <2>5
    <3> QED
      BY <3>3, <3>4, Zenon
  <2>7. PICK m \in Nat, d \in Nat : m = k - a /\ d = (n + 1) - f
    <3>1. k - a \in Nat /\ (n + 1) - f \in Nat
      BY <2>5
    <3> QED
      BY <3>1
  <2>8. PICK q \in Nat, r \in Nat : /\ q = m \div s /\ r = m % s
                                   /\ m = q * s + r /\ r < s
    BY Division
  <2>9. d * s <= q * s + r
    <3>1. PICK x \in Int : x = d * s
      BY OneMore
    <3>2. a + x <= k
      BY <2>6, <2>7, <3>1
    <3>3. x <= m
      BY <2>7, <3>2
    <3> QED
      BY <2>8, <3>1, <3>3
  <2>10. d <= q
    BY <2>8, <2>9, QuotientReaches
  <2>11. f + q \notin 1..n
    BY <2>7, <2>10
  <2>12. e.firstChunk + (k - e.firstSample) \div e.samplesPerChunk = f + q
    BY <2>5, <2>7, <2>8, Zenon
  <2>13. e.firstChunk + (k - e.firstSample) \div e.samplesPerChunk \notin 1..n
    BY <2>11, <2>12, Zenon
  <2> QED
    BY <2>3, <2>13, Zenon
<1> QED
  BY <1>4, <1>5

LEMMA NotLocated ==
    ASSUME NEW c, c.stsc \in Seq(StscType), NEW n \in Nat, Len(c.stco) = n,
           NEW first, Shaped(c.stsc, first, n), Starts(c.stsc, first),
           NEW k \in Nat, first[n + 1] <= k, NEW z, NEW loc, NEW fileSize
    PROVE  GetSampleFileOffset(c, z, loc, k, BytesPerSample, fileSize).at = THROWN
<1> DEFINE index == GetSampleStscIndex(c.stsc, k)
           entry == c.stsc[index]
           nth   == k - entry.firstSample
           q     == entry.firstChunk + nth \div entry.samplesPerChunk
           got   == GetSampleFileOffset(c, z, loc, k, BytesPerSample, fileSize)
           failed == [at |-> THROWN, cache |-> loc]
<1>1. index = THROWN \/ q \notin 1..Len(c.stco)
  BY BehindChunks
<1>2. index = THROWN \/ q \notin 1..Len(c.stco) => got = failed
  BY DEF GetSampleFileOffset
<1> HIDE DEF got, index, q
<1> QED
  BY <1>1, <1>2 DEF got

LEMMA FoundIs ==
    ASSUME Known, Usable, NEW t \in Tracks, NEW k \in 1..Len(hist[t])
    PROVE  FoundInFile(t, k) <=> k \in InChunks(t)
<1> DEFINE c == Reread(chunks[t])
           n == Len(flushed[t])
           located == GetSampleFileOffset(c, stsz[t], NoLocation, k, BytesPerSample,
                                          Len(file.bytes))
<1>1. IInv /\ SizesInv /\ ShapeInv /\ WholeUnits /\ session = 1
  BY DEF Known, Usable, Sound
<1>2. FoundInFile(t, k) <=> ReadsBack(t, k, located)
  BY DEF FoundInFile
<1>3. CASE k \in InChunks(t)
  <2>1. ReadBackFromFile
    BY <1>1, IInvIntact, ShapeReads DEF IInv
  <2>2. ReadsBack(t, k, located)
    BY <1>3, <2>1 DEF ReadBackFromFile
  <2> QED
    BY <1>2, <1>3, <2>2
<1>4. CASE k \notin InChunks(t)
  <2>1. PICK first : Ghost(Media(t), t, hist[t], first)
    BY <1>1 DEF ShapeInv, ShapeOf
  <2>2. /\ chunks[t].stsc \in Seq(StscType) /\ Len(chunks[t].stco) = n
        /\ Shaped(chunks[t].stsc, first, n) /\ n \in Nat
        /\ first[n + 1] + buffer[t].samples = Len(hist[t]) + 1
    <3>1. n \in Nat
      BY <1>1 DEF IInv, StateType, MediaType
    <3> QED
      BY <2>1, <3>1 DEF Ghost, Media
  <2>3. Len(hist[t]) \in Nat /\ buffer[t].samples \in Nat
    <3>1. buffer[t].samples \in Nat
      BY <1>1 DEF IInv, StateType, MediaType
    <3> QED
      BY <1>1, <3>1, HistoryIs
  <2>4. first[n + 1] \in Nat
    <3>1. n + 1 \in 1..(n + 1)
      BY <2>2
    <3> QED
      BY <2>2, <3>1 DEF Shaped
  <2>5. k \in Nat /\ first[n + 1] <= k
    <3> HIDE DEF n
    <3> QED
      BY <1>4, <2>2, <2>3, <2>4 DEF InChunks
  <2>6. c.stsc = ReadStsc(chunks[t].stsc) /\ c.stco = chunks[t].stco
    BY DEF Reread
  <2>7. c.stsc \in Seq(StscType) /\ Shaped(c.stsc, first, n) /\ Starts(c.stsc, first)
    BY <2>2, <2>6, ReadStscStarts
  <2> HIDE DEF c, n
  <2>8. Len(c.stco) = n
    BY <2>2, <2>6
  <2>9. located.at = THROWN
    BY <2>2, <2>5, <2>7, <2>8, NotLocated
  <2> HIDE DEF located
  <2>10. ~ReadsBack(t, k, located)
    BY <2>9 DEF ReadsBack, Readable
  <2> QED
    BY <1>2, <1>4, <2>10
<1> QED
  BY <1>3, <1>4

\* The state of the store: the samples written, and the ids of those in chunks.
LEMMA StoreIs ==
    ASSUME Known, Usable
    PROVE  /\ TableLog = [t \in Tracks |-> LogOf(hist[t])]
           /\ InFile = [t \in Tracks |-> InChunks(t)]
<1>1. TableLog = [t \in Tracks |-> LogOf(hist[t])]
  BY DescribedIs DEF TableLog
<1>2. ASSUME NEW t \in Tracks
      PROVE  {k \in SampleIds(t) : FoundInFile(t, k)} = InChunks(t)
  <2>1. SampleIds(t) = 1..Len(hist[t]) /\ Len(hist[t]) \in Nat
    BY CountIs, HistoryIs DEF Known
  <2>2. buffer[t].samples \in Nat
    BY DEF Known, IInv, StateType, MediaType
  <2>3. InChunks(t) \subseteq 1..Len(hist[t])
    BY <2>1, <2>2 DEF InChunks
  <2>4. \A k \in SampleIds(t) : FoundInFile(t, k) <=> k \in InChunks(t)
    BY <2>1, FoundIs
  <2> QED
    BY <2>1, <2>3, <2>4
<1>3. InFile = [t \in Tracks |-> InChunks(t)]
  BY <1>2 DEF InFile
<1> QED
  BY <1>1, <1>3

-----------------------------------------------------------------------------
(* What a client may write.                                                *)

\* The durations of StoreSamples.
SpansWritten == ({s.duration : s \in Samples} \ {FIXED}) \cup {FixedDuration}

SpanInv ==
    session = 1 =>
        \A t \in Tracks : \A k \in 1..Len(hist[t]) : hist[t][k].duration \in SpansWritten

\* The fixed duration is the one of MP4AddTrack, or that of the first sample.
LEMMA SpanWritten ==
    ASSUME IInv, TableInv, SpanInv, session = 1, NEW t \in Tracks, NEW s \in Written(t)
    PROVE  Duration(t, s) \in SpansWritten
<1>1. s \in Samples
  BY DEF Written
<1>2. CASE s.duration # FIXED
  BY <1>1, <1>2 DEF Duration, SpansWritten
<1>3. CASE s.duration = FIXED
  <2>1. Duration(t, s) = GetFixedSampleDuration(stts[t], FixedDuration)
    BY <1>3 DEF Duration
  <2>2. CASE stts[t] = << >>
    BY <2>1, <2>2 DEF GetFixedSampleDuration, SpansWritten
  <2>3. CASE stts[t] # << >>
    <3> DEFINE runs == stts[t]
               n == Len(hist[t])
    <3>1. runs \in Seq(RunType) /\ Encodes(runs, DurationsOf(t), n)
      BY DEF TableInv, Says, SaysTimes, IInv, StateType, WriterType
    <3>2. n \in Nat /\ \A k \in 1..n : DurationsOf(t)[k] = hist[t][k].duration
      BY HistoryIs
    <3>3. Len(runs) \in Nat /\ 1 \in 1..Len(runs) /\ runs[1].n \in Nat
      <4>1. Len(runs) \in Nat /\ Len(runs) # 0
        BY <2>3, <3>1, EmptySeq, LenProperties
      <4>2. 1 \in 1..Len(runs)
        BY <4>1
      <4> QED
        BY <3>1, <4>1, <4>2, RunIs
    <3>4. /\ Upto(runs, 0) = 0 /\ Upto(runs, 1) = runs[1].n
          /\ Upto(runs, 1) <= Upto(runs, Len(runs))
      <4> HIDE DEF runs
      <4>1. /\ Upto(runs, 0) = 0
            /\ \A r \in 1..Len(runs) : Upto(runs, r) = Upto(runs, r - 1) + runs[r].n
            /\ \A i, r \in 0..Len(runs) : i <= r => Upto(runs, i) <= Upto(runs, r)
        BY <3>1, UptoFacts
      <4>2. 1 \in 0..Len(runs) /\ Len(runs) \in 0..Len(runs) /\ 1 <= Len(runs)
        BY <3>3
      <4>3. Upto(runs, 1) = Upto(runs, 1 - 1) + runs[1].n /\ 1 - 1 = 0
        BY <3>3, <4>1
      <4>4. Upto(runs, 1) <= Upto(runs, Len(runs))
        BY <4>1, <4>2
      <4> QED
        BY <3>3, <4>1, <4>3, <4>4
    <3>5. /\ Upto(runs, Len(runs)) = n /\ runs[1].n # 0
          /\ \A k \in (Upto(runs, 1 - 1) + 1)..Upto(runs, 1) :
                DurationsOf(t)[k] = runs[1].v
      BY <3>1, <3>3 DEF Encodes
    <3>6. 1 \in (Upto(runs, 1 - 1) + 1)..Upto(runs, 1) /\ 1 \in 1..n
      BY <3>2, <3>3, <3>4, <3>5
    <3>7. runs[1].v = hist[t][1].duration
      BY <3>2, <3>5, <3>6
    <3> QED
      BY <2>1, <2>3, <3>6, <3>7 DEF GetFixedSampleDuration, SpanInv
  <2> QED
    BY <2>2, <2>3
<1> QED
  BY <1>2, <1>3

LEMMA NextSpanInv == IInv /\ TableInv /\ SpanInv /\ [Next]_vars => SpanInv'
<1> SUFFICES ASSUME IInv, TableInv, SpanInv, [Next]_vars, session' = 1,
                    NEW t \in Tracks, NEW k \in 1..Len(hist'[t])
             PROVE  hist'[t][k].duration \in SpansWritten
  BY DEF SpanInv, SpansWritten
<1>1. session = 1
  BY SessionGrows
<1>2. MediaStep(t)
  BY EveryStep
<1>3. hist[t] \in Seq(SampleType) /\ Len(hist[t]) \in Nat
      /\ \A j \in 1..Len(hist[t]) : hist[t][j].duration \in SpansWritten
  BY <1>1, HistoryIs DEF SpanInv
<1>4. CASE Stays(t)
  BY <1>3, <1>4 DEF Stays, SameButOffsets
<1>5. CASE hist'[t] = hist[t]
  BY <1>3, <1>5
<1>6. ASSUME NEW s \in Written(t), Writes(t, s)
      PROVE  hist'[t][k].duration \in SpansWritten
  <2>1. /\ Len(hist'[t]) = Len(hist[t]) + 1
        /\ \A j \in 1..Len(hist[t]) : hist'[t][j] = hist[t][j]
        /\ hist'[t][Len(hist[t]) + 1] = SampleOf(t, s)
    BY <1>6, HistoryGrows DEF Writes
  <2>2. SampleOf(t, s).duration = Duration(t, s)
    BY StepSample
  <2>3. Duration(t, s) \in SpansWritten
    BY <1>1, SpanWritten
  <2>4. CASE k \in 1..Len(hist[t])
    BY <1>3, <2>1, <2>4
  <2>5. CASE k = Len(hist[t]) + 1
    BY <2>1, <2>2, <2>3, <2>5
  <2> QED
    BY <1>3, <2>1, <2>4, <2>5
<1> QED
  BY <1>2, <1>4, <1>5, <1>6 DEF MediaStep, Flushes, Reopens

LEMMA InitSpanInv == Init => SpanInv
<1> SUFFICES ASSUME Init, NEW t \in Tracks, NEW k \in 1..Len(hist[t])
             PROVE  FALSE
  BY DEF SpanInv
<1>1. hist[t] = << >>
  BY DEF Init
<1> QED
  BY <1>1, EmptySeq

-----------------------------------------------------------------------------
(* The steps of the store, from what they do to its variables.             *)

\* The log and the ids of the store are functions on tracks.
StoreVars ==
    /\ TableLog = [u \in Tracks |-> TableLog[u]] /\ InFile = [u \in Tracks |-> InFile[u]]
    /\ \A u \in Tracks : DOMAIN TableLog[u] = 1..Len(TableLog[u]) /\ Len(TableLog[u]) \in Nat

\* One track's log becomes l, and its stored ids become ids.
OneLog(t, l, ids) ==
    /\ TableLog' = [TableLog EXCEPT ![t] = l]
    /\ InFile' = [InFile EXCEPT ![t] = ids]

Unclosed == phase # "closed" /\ phase' # "closed"

LEMMA StoreWrites ==
    ASSUME StoreVars, NEW t \in Tracks, NEW T, TableLog[t] \in Seq(T), NEW x \in T,
           x \in StoreSamples, NEW ids, Unclosed,
           OneLog(t, Append(TableLog[t], x), ids),
           ids \in {InFile[t], 1..Len(TableLog[t]), 1..(Len(TableLog[t]) + 1)}
    PROVE  Store!Write(t)
<1> DEFINE l == Append(TableLog[t], x)
<1>1. /\ l \in Seq(T) /\ Len(l) = Len(TableLog[t]) + 1 /\ l[Len(l)] = x
  BY AppendProperties
<1>2. TableLog'[t] = l /\ InFile'[t] = ids
  BY DEF OneLog, StoreVars
<1>3. Store!Last(TableLog'[t]) = x
  BY <1>1, <1>2 DEF Store!Last
<1>4. TableLog' = [TableLog EXCEPT ![t] = Append(@, x)]
  BY DEF OneLog
<1>5. InFile' = [InFile EXCEPT ![t] = InFile'[t]]
  BY <1>2 DEF OneLog
<1>6. InFile'[t] \in {InFile[t], Store!Ids(t), Store!Ids(t) \cup {Len(TableLog[t]) + 1}}
  <2>1. Len(TableLog[t]) \in Nat
    BY DEF StoreVars
  <2>2. \A n \in Nat : 1..(n + 1) = (1..n) \cup {n + 1}
    OBVIOUS
  <2>3. 1..(Len(TableLog[t]) + 1) = 1..Len(TableLog[t]) \cup {Len(TableLog[t]) + 1}
    BY <2>1, <2>2
  <2> QED
    BY <1>2, <2>3, Zenon DEF Store!Ids
<1>7. Len(TableLog'[t]) = Len(TableLog[t]) + 1
  BY <1>1, <1>2
<1>8. ~(phase = "closed") /\ ~(phase' = "closed")
  BY DEF Unclosed
<1> QED
  BY <1>3, <1>4, <1>5, <1>6, <1>7, <1>8 DEF Store!Write

LEMMA StoreStores ==
    ASSUME StoreVars, NEW t \in Tracks, Unclosed, TableLog' = TableLog,
           InFile' = [InFile EXCEPT ![t] = 1..Len(TableLog[t])]
    PROVE  Store!Store(t)
BY DEF Store!Store, Store!Ids, Unclosed

LEMMA StoreCorrects ==
    ASSUME StoreVars, NEW t \in Tracks, NEW k \in 1..Len(TableLog[t]), NEW x \in Offsets,
           Unclosed, TableLog' = [TableLog EXCEPT ![t][k].offset = x], InFile' = InFile,
           "offset" \in DOMAIN TableLog[t][k]
    PROVE  k \in Store!Ids(t) /\ Store!SetRenderingOffset(t, k)
<1>1. /\ t \in DOMAIN TableLog /\ k \in DOMAIN TableLog[t] /\ Len(TableLog[t]) \in Nat
      /\ DOMAIN TableLog[t] = 1..Len(TableLog[t])
  BY DEF StoreVars
<1>2. TableLog'[t] = [TableLog[t] EXCEPT ![k].offset = x]
  BY <1>1
<1>3. TableLog'[t][k] = [TableLog[t][k] EXCEPT !.offset = x]
  BY <1>1, <1>2
<1>4. TableLog'[t][k].offset = x
  BY <1>3
<1>5. Len(TableLog'[t]) = Len(TableLog[t])
  BY <1>1, <1>2
<1> QED
  BY <1>4, <1>5 DEF Store!SetRenderingOffset, Store!Ids, Unclosed

LEMMA StoreCloses ==
    ASSUME phase # "closed", phase' = "closed", UNCHANGED << TableLog, InFile >>,
           \A t \in Tracks : \A k \in 1..Len(TableLog[t]) :
               TableLog[t][k].size > 0 => k \in InFile[t]
    PROVE  Store!Close
BY DEF Store!Close, Store!Ids

-----------------------------------------------------------------------------
(* The steps of the tracks, seen from the store.                           *)

Seen ==
    /\ TableLog = [t \in Tracks |-> LogOf(hist[t])]
    /\ InFile = [t \in Tracks |-> InChunks(t)]

LEMMA SeenThen == Known /\ Usable => Seen
BY StoreIs DEF Seen

LoggedType == [size : Nat, duration : Nat, offset : Nat, sync : BOOLEAN]

LEMMA LogIs ==
    ASSUME NEW h \in Seq(SampleType)
    PROVE  /\ LogOf(h) \in Seq(LoggedType) /\ Len(LogOf(h)) = Len(h) /\ Len(h) \in Nat
           /\ DOMAIN LogOf(h) = 1..Len(h)
           /\ \A k \in 1..Len(h) : /\ LogOf(h)[k] = Logged(h[k]) /\ LogOf(h)[k].size = h[k].size
                                   /\ "offset" \in DOMAIN LogOf(h)[k]
<1>1. /\ Len(h) \in Nat /\ \A k \in 1..Len(h) : h[k] \in SampleType
  BY LenProperties, ElementOfSeq
<1>2. ASSUME NEW x \in SampleType
      PROVE  /\ Logged(x) \in LoggedType /\ Logged(x).size = x.size
             /\ "offset" \in DOMAIN Logged(x)
  BY DEF SampleType, LoggedType, Logged
<1>3. DOMAIN LogOf(h) = 1..Len(h) /\ \A k \in 1..Len(h) : LogOf(h)[k] = Logged(h[k])
  BY DEF LogOf
<1>4. LogOf(h) \in [1..Len(h) -> LoggedType]
  BY <1>1, <1>2 DEF LogOf
<1>5. LogOf(h) \in Seq(LoggedType) /\ Len(LogOf(h)) = Len(h)
  BY <1>1, <1>4
<1> QED
  BY <1>1, <1>2, <1>3, <1>5

LEMMA LogOfMore ==
    ASSUME NEW h \in Seq(SampleType), NEW x \in SampleType
    PROVE  LogOf(Append(h, x)) = Append(LogOf(h), Logged(x)) /\ Logged(x) \in LoggedType
<1>1. Len(h) \in Nat /\ Len(LogOf(h)) = Len(h) /\ LogOf(h) \in Seq(LoggedType)
      /\ \A k \in 1..Len(h) : LogOf(h)[k] = Logged(h[k])
  BY LogIs
<1>2. Logged(x) \in LoggedType
  BY DEF SampleType, LoggedType, Logged
<1> DEFINE g == Append(h, x)
           a == Append(LogOf(h), Logged(x))
<1>3. /\ g \in Seq(SampleType) /\ Len(g) = Len(h) + 1 /\ g[Len(h) + 1] = x
      /\ \A k \in 1..Len(h) : g[k] = h[k]
  BY <1>1
<1>4. /\ a \in Seq(LoggedType) /\ Len(a) = Len(h) + 1 /\ a[Len(h) + 1] = Logged(x)
      /\ \A k \in 1..Len(h) : a[k] = LogOf(h)[k]
  BY <1>1, <1>2
<1> HIDE DEF g, a
<1>5. /\ LogOf(g) \in Seq(LoggedType) /\ Len(LogOf(g)) = Len(g)
      /\ \A k \in 1..Len(g) : LogOf(g)[k] = Logged(g[k])
  BY <1>3, LogIs
<1>6. ASSUME NEW k \in 1..(Len(h) + 1)
      PROVE  LogOf(g)[k] = a[k]
  <2>1. LogOf(g)[k] = Logged(g[k])
    BY <1>3, <1>5
  <2>2. CASE k \in 1..Len(h)
    BY <1>1, <1>3, <1>4, <2>1, <2>2
  <2>3. CASE k = Len(h) + 1
    BY <1>3, <1>4, <2>1, <2>3
  <2> QED
    BY <1>1, <2>2, <2>3
<1>7. LogOf(g) = a
  BY <1>1, <1>3, <1>4, <1>5, <1>6, SeqEqual
<1> QED
  BY <1>2, <1>7 DEF g, a

LEMMA SeenIs ==
    ASSUME IInv, Seen
    PROVE  /\ StoreVars
           /\ \A t \in Tracks :
                 /\ TableLog[t] = LogOf(hist[t]) /\ InFile[t] = InChunks(t)
                 /\ TableLog[t] \in Seq(LoggedType) /\ Len(TableLog[t]) = Len(hist[t])
<1>1. \A t \in Tracks : hist[t] \in Seq(SampleType)
  BY HistoryIs
<1>2. \A t \in Tracks : TableLog[t] = LogOf(hist[t]) /\ InFile[t] = InChunks(t)
  BY DEF Seen
<1>3. TableLog = [u \in Tracks |-> TableLog[u]] /\ InFile = [u \in Tracks |-> InFile[u]]
  BY DEF Seen
<1>4. ASSUME NEW t \in Tracks
      PROVE  /\ TableLog[t] \in Seq(LoggedType) /\ Len(TableLog[t]) = Len(hist[t])
             /\ Len(TableLog[t]) \in Nat /\ DOMAIN TableLog[t] = 1..Len(TableLog[t])
  BY <1>1, <1>2, LogIs
<1> QED
  BY <1>2, <1>3, <1>4 DEF StoreVars

\* A step that does something to track t only.
Only(t) ==
    \A u \in Tracks :
        u # t => hist'[u] = hist[u] /\ buffer'[u].samples = buffer[u].samples

LEMMA OnlyOne ==
    ASSUME Seen, Seen', NEW t \in Tracks, Only(t)
    PROVE  OneLog(t, LogOf(hist'[t]), InChunks(t)')
<1>1. \A u \in Tracks :
          u # t => LogOf(hist'[u]) = LogOf(hist[u]) /\ InChunks(u)' = InChunks(u)
  BY DEF Only, InChunks
<1>2. TableLog' = [u \in Tracks |-> LogOf(hist'[u])] /\ InFile' = [u \in Tracks |-> InChunks(u)']
  BY DEF Seen
<1>3. TableLog = [u \in Tracks |-> LogOf(hist[u])] /\ InFile = [u \in Tracks |-> InChunks(u)]
  BY DEF Seen
<1> QED
  BY <1>1, <1>2, <1>3, Zenon DEF OneLog

LEMMA NothingSeen ==
    ASSUME Seen, Seen', UNCHANGED hist,
           \A u \in Tracks : buffer'[u].samples = buffer[u].samples
    PROVE  UNCHANGED << TableLog, InFile >>
<1>1. \A u \in Tracks : InChunks(u)' = InChunks(u)
  BY DEF InChunks
<1>2. TableLog' = TableLog
  BY DEF Seen
<1>3. InFile' = InFile
  BY <1>1 DEF Seen
<1> QED
  BY <1>2, <1>3

LEMMA FlushLeaves ==
    ASSUME NEW m, NEW id
    PROVE  WriteChunkBuffer(m, id).buffer \in {m.buffer, EmptyBuffer} /\ EmptyBuffer.samples = 0
<1>1. CASE m.buffer.bytes = << >>
  BY <1>1 DEF WriteChunkBuffer, EmptyBuffer
<1>2. CASE m.buffer.bytes # << >>
  BY <1>2 DEF WriteChunkBuffer, EmptyBuffer
<1> QED
  BY <1>1, <1>2

\* The conditions under which the steps are looked at.
Looking == Known /\ Usable /\ SpanInv /\ Seen /\ Known' /\ Usable' /\ Seen'

LEMMA WriteSampleSeen ==
    ASSUME Looking, NEW t \in Tracks, NEW s \in Written(t), WriteSample(t, s)
    PROVE  Store!Write(t)
<1> DEFINE n == Len(hist[t])
           b == Buffered(t, s)
           w == IF IsChunkFull(b.buffer, perChunk[t]) THEN WriteChunkBuffer(b, writeId[t]) ELSE b
           x == SampleOf(t, s)
<1>1. /\ IInv /\ TableInv /\ SpanInv /\ session = 1 /\ Seen /\ Seen'
  BY DEF Looking, Known, Usable, Sound
<1>2. /\ hist' = [hist EXCEPT ![t] = Append(@, x)] /\ SetMedia(t, w) /\ Unclosed
  BY DEF WriteSample, RecordSample, SampleOf, CanWrite, Unclosed, call
<1>3. /\ hist[t] \in Seq(SampleType) /\ n \in Nat
  BY <1>1, HistoryIs
<1>4. x \in SampleType /\ s \in Samples
  BY <1>1, StepSample DEF Written
<1>5. /\ hist \in [Tracks -> Seq(SampleType)]
      /\ buffer \in [Tracks -> [bytes : Seq(Byte), samples : Nat, duration : Nat]]
  BY <1>1 DEF IInv, StateType, MediaType, WriterType
<1>6. hist'[t] = Append(hist[t], x) /\ \A u \in Tracks : u # t => hist'[u] = hist[u]
  BY <1>2, <1>5
<1>7. buffer' = [buffer EXCEPT ![t] = w.buffer]
  BY <1>2 DEF SetMedia
<1> HIDE DEF w, x
<1>8. buffer'[t] = w.buffer /\ \A u \in Tracks : u # t => buffer'[u] = buffer[u]
  BY <1>5, <1>7
<1>9. OneLog(t, LogOf(hist'[t]), InChunks(t)')
  BY <1>1, <1>6, <1>8, OnlyOne DEF Only
<1>10. LogOf(hist'[t]) = Append(TableLog[t], Logged(x)) /\ Logged(x) \in LoggedType
  BY <1>1, <1>3, <1>4, <1>6, LogOfMore, SeenIs
<1>11. Logged(x) \in StoreSamples
  <2>1. x.size = s.size /\ x.offset = s.offset /\ x.sync = s.sync /\ x.duration = Duration(t, s)
    BY <1>1, StepSample DEF SampleOf, x
  <2>2. Duration(t, s) \in ({y.duration : y \in Samples} \ {FIXED}) \cup {FixedDuration}
    BY <1>1, SpanWritten DEF SpansWritten
  <2>3. s.sync \in BOOLEAN
    BY <1>1, StepSample
  <2> QED
    BY <1>4, <2>1, <2>2, <2>3 DEF Logged, StoreSamples
<1>12. InChunks(t)' \in {InFile[t], 1..Len(TableLog[t]), 1..(Len(TableLog[t]) + 1)}
  <2>1. /\ InChunks(t)' = 1..((n + 1) - w.buffer.samples)
        /\ InFile[t] = 1..(n - buffer[t].samples) /\ Len(TableLog[t]) = n
    <3>1. Len(hist'[t]) = n + 1
      BY <1>3, <1>4, <1>6
    <3>2. InChunks(t)' = 1..(Len(hist'[t]) - buffer'[t].samples)
      BY DEF InChunks
    <3>3. InFile[t] = InChunks(t) /\ Len(TableLog[t]) = n
      BY <1>1, SeenIs
    <3>4. InFile[t] = 1..(n - buffer[t].samples)
      BY <3>3 DEF InChunks
    <3> HIDE DEF n
    <3> QED
      BY <1>8, <3>1, <3>2, <3>3, <3>4
  <2>2. PICK m : /\ m = Media(t) \/ m = WriteChunkBuffer(Media(t), writeId[t])
                 /\ b.buffer.samples = m.buffer.samples + 1
    <3>1. LET m == ModeFlushed(t, s)
          IN  /\ m = Media(t) \/ m = WriteChunkBuffer(Media(t), writeId[t])
              /\ b.buffer = [bytes    |-> m.buffer.bytes \o Payload(t, Len(hist[t]) + 1, s.size),
                             samples  |-> m.buffer.samples + 1,
                             duration |-> m.buffer.duration + Duration(t, s)]
      BY <1>1, BufferedIs
    <3> HIDE DEF b
    <3> QED
      BY <3>1
  <2>3. m.buffer.samples \in {buffer[t].samples, 0}
    BY <2>2, FlushLeaves DEF Media
  <2>4. w.buffer.samples \in {b.buffer.samples, 0}
    BY FlushLeaves DEF w
  <2>5. PICK c \in Nat : c = buffer[t].samples
    BY <1>5
  <2>6. w.buffer.samples \in {c + 1, 1, 0}
    BY <2>2, <2>3, <2>4, <2>5
  <2>7. /\ (n + 1) - (c + 1) = n - c /\ (n + 1) - 1 = n /\ (n + 1) - 0 = n + 1
    BY <1>3, <2>5
  <2> HIDE DEF n, b
  <2> QED
    BY <2>1, <2>5, <2>6, <2>7
<1> QED
  BY <1>1, <1>2, <1>9, <1>10, <1>11, <1>12, SeenIs, StoreWrites

\* A log with another rendering offset for sample k.
Corrected(l, k, x) == [l EXCEPT ![k].offset = x]

LEMMA LogCorrected ==
    ASSUME NEW h \in Seq(SampleType), NEW k \in 1..Len(h), NEW x
    PROVE  LogOf(Corrected(h, k, x)) = Corrected(LogOf(h), k, x)
<1> DEFINE one == [h[k] EXCEPT !.offset = x]
           g == [h EXCEPT ![k].offset = x]
           l == [LogOf(h) EXCEPT ![k].offset = x]
<1>1. /\ Len(h) \in Nat /\ DOMAIN h = 1..Len(h) /\ DOMAIN LogOf(h) = 1..Len(h)
      /\ \A j \in 1..Len(h) : h[j] \in SampleType /\ LogOf(h)[j] = Logged(h[j])
  BY LogIs, LenProperties, ElementOfSeq
<1>2. g = [h EXCEPT ![k] = one] /\ l = [LogOf(h) EXCEPT ![k] = [LogOf(h)[k] EXCEPT !.offset = x]]
  OBVIOUS
<1>3. Logged(one) = [Logged(h[k]) EXCEPT !.offset = x]
  <2>1. h[k] \in SampleType
    BY <1>1
  <2> QED
    BY <2>1, SMTT(30) DEF SampleType, Logged
<1> HIDE DEF one
<1>4. /\ DOMAIN g = 1..Len(h) /\ \A j \in 1..Len(h) : g[j] = IF j = k THEN one ELSE h[j]
  BY <1>1, <1>2
<1>5. Len(g) = Len(h)
  BY <1>1, <1>2, LenProperties
<1> HIDE DEF g, l
<1>6. LogOf(g) = [j \in 1..Len(h) |-> Logged(g[j])]
  BY <1>5 DEF LogOf
<1>7. l = [j \in 1..Len(h) |-> IF j = k THEN [Logged(h[k]) EXCEPT !.offset = x]
                                        ELSE Logged(h[j])]
  BY <1>1, <1>2 DEF LogOf
<1>8. \A j \in 1..Len(h) : Logged(g[j]) = IF j = k THEN [Logged(h[k]) EXCEPT !.offset = x]
                                                  ELSE Logged(h[j])
  BY <1>3, <1>4
<1>9. LogOf(g) = l
  BY <1>6, <1>7, <1>8
<1> QED
  BY <1>9 DEF g, l, Corrected

LEMMA SetOffsetSeen ==
    ASSUME Looking, NEW t \in Tracks, NEW k \in SampleIds(t), NEW x \in Offsets,
           SetOffset(t, k, x)
    PROVE  k \in Store!Ids(t) /\ Store!SetRenderingOffset(t, k)
<1>1. IInv /\ SizesInv /\ Seen /\ Seen'
  BY DEF Looking, Known
<1>2. /\ hist' = [hist EXCEPT ![t][k].offset = x] /\ UNCHANGED buffer /\ Unclosed
  BY DEF SetOffset, Unclosed
<1>3. /\ hist \in [Tracks -> Seq(SampleType)] /\ hist[t] \in Seq(SampleType)
      /\ k \in 1..Len(hist[t])
  BY <1>1, CountIs, HistoryIs DEF IInv, StateType, WriterType
<1>4. /\ hist'[t] = [hist[t] EXCEPT ![k].offset = x]
      /\ \A u \in Tracks : u # t => hist'[u] = hist[u]
  BY <1>2, <1>3
<1>5. OneLog(t, LogOf(hist'[t]), InChunks(t)')
  BY <1>1, <1>2, <1>4, OnlyOne DEF Only
<1>6. /\ StoreVars /\ TableLog[t] = LogOf(hist[t]) /\ InFile[t] = InChunks(t)
      /\ Len(TableLog[t]) = Len(hist[t])
  BY <1>1, SeenIs
<1>7. LogOf(hist'[t]) = [TableLog[t] EXCEPT ![k].offset = x]
  <2>1. LogOf(Corrected(hist[t], k, x)) = Corrected(LogOf(hist[t]), k, x)
    BY <1>3, LogCorrected
  <2> QED
    BY <1>4, <1>6, <2>1 DEF Corrected
<1>8. TableLog' = [TableLog EXCEPT ![t][k].offset = x]
  BY <1>5, <1>7 DEF OneLog
<1>9. InFile' = InFile
  <2>1. Len(hist'[t]) = Len(hist[t])
    <3>1. Len(hist[t]) \in Nat /\ DOMAIN hist[t] = 1..Len(hist[t])
      BY <1>3, LenProperties
    <3> QED
      BY <1>3, <1>4, <3>1, LenProperties
  <2>2. InChunks(t)' = InChunks(t)
    BY <1>2, <2>1 DEF InChunks
  <2>3. InFile' = [InFile EXCEPT ![t] = InFile[t]]
    BY <1>5, <1>6, <2>2 DEF OneLog
  <2> QED
    BY <1>6, <2>3 DEF StoreVars
<1>10. "offset" \in DOMAIN TableLog[t][k]
  BY <1>3, <1>6, LogIs
<1> QED
  BY <1>2, <1>3, <1>6, <1>8, <1>9, <1>10, StoreCorrects

\* A step that flushes track t or leaves its buffer alone, and writes no sample.
LEMMA FlushSeen ==
    ASSUME Looking, NEW t \in Tracks, NEW m, SetMedia(t, m), UNCHANGED hist, Unclosed,
           m.buffer \in {buffer[t], EmptyBuffer}
    PROVE  Store!Store(t) \/ UNCHANGED Store!storeVars
<1>1. IInv /\ Seen /\ Seen'
  BY DEF Looking, Known
<1>2. /\ buffer \in [Tracks -> [bytes : Seq(Byte), samples : Nat, duration : Nat]]
      /\ buffer' = [buffer EXCEPT ![t] = m.buffer]
  BY <1>1 DEF IInv, StateType, MediaType, SetMedia
<1>3. buffer'[t] = m.buffer /\ \A u \in Tracks : u # t => buffer'[u] = buffer[u]
  BY <1>2
<1>4. StoreVars /\ TableLog[t] = LogOf(hist[t]) /\ Len(TableLog[t]) = Len(hist[t])
  BY <1>1, SeenIs
<1>5. CASE m.buffer = buffer[t]
  <2>1. \A u \in Tracks : buffer'[u].samples = buffer[u].samples
    BY <1>3, <1>5
  <2>2. UNCHANGED << TableLog, InFile >>
    BY <1>1, <2>1, NothingSeen
  <2>3. (phase = "closed") = (phase' = "closed")
    BY DEF Unclosed
  <2> QED
    BY <2>2, <2>3 DEF Store!storeVars
<1>6. CASE m.buffer = EmptyBuffer
  <2>1. OneLog(t, LogOf(hist'[t]), InChunks(t)')
    BY <1>1, <1>3, OnlyOne DEF Only
  <2>2. TableLog' = TableLog
    BY <1>1 DEF Seen
  <2>3. InChunks(t)' = 1..Len(TableLog[t])
    <3>1. buffer'[t].samples = 0
      BY <1>3, <1>6 DEF EmptyBuffer
    <3>2. InChunks(t)' = 1..(Len(hist[t]) - buffer'[t].samples) /\ Len(hist[t]) \in Nat
      BY <1>1, HistoryIs DEF InChunks
    <3> QED
      BY <1>4, <3>1, <3>2
  <2> QED
    BY <1>4, <2>1, <2>2, <2>3, StoreStores DEF OneLog
<1> QED
  BY <1>5, <1>6

LEMMA ReadSampleSeen ==
    ASSUME Looking, NEW t \in Tracks, NEW k \in SampleIds(t), ReadSample(t, k)
    PROVE  Store!Store(t) \/ UNCHANGED Store!storeVars
<1> DEFINE m == ReadMedia(t, k)
<1>1. m.buffer \in {buffer[t], EmptyBuffer}
  BY FlushLeaves DEF ReadMedia, Media
<1>2. IsMedia(m)
  <2>1. m = Media(t) \/ m = WriteChunkBuffer(Media(t), writeId[t])
    BY DEF ReadMedia
  <2>2. IsMedia(Media(t))
    BY MediaIsMedia DEF IInv, StateType, Looking, Known
  <2> QED
    BY <2>1, <2>2, WriteChunkBufferFollows DEF Follows
<1>3. \A e : [m EXCEPT !.file = RestorePosition(@, e)] = m
  BY <1>2 DEF IsMedia, RestorePosition
<1>4. SetMedia(t, m) /\ UNCHANGED hist /\ Unclosed
  BY <1>3 DEF ReadSample, Unclosed, call
<1> HIDE DEF m
<1> QED
  BY <1>1, <1>4, FlushSeen

LEMMA FinishTrackSeen ==
    ASSUME Looking, FinishTrack
    PROVE  next \in Tracks /\ (Store!Store(next) \/ UNCHANGED Store!storeVars)
<1>1. next \in Tracks
  BY CountsAssumption DEF FinishTrack, Looking, Known, IInv, StateType, WriterType, Tracks
<1> DEFINE m == WriteChunkBuffer(Media(next), writeId[next])
<1>2. SetMedia(next, m) /\ UNCHANGED hist /\ Unclosed
  BY DEF FinishTrack, Unclosed
<1>3. m.buffer \in {buffer[next], EmptyBuffer}
  BY FlushLeaves DEF Media
<1> HIDE DEF m
<1> QED
  BY <1>1, <1>2, <1>3, FlushSeen

\* A sample of a flushed track that is not in a chunk has no bytes.
LEMMA BytesAreInChunks ==
    ASSUME Known, session = 1, NEW t \in Tracks, buffer[t].bytes = << >>,
           NEW k \in 1..Len(hist[t]), hist[t][k].size > 0
    PROVE  k \in InChunks(t)
<1> DEFINE h == hist[t]
           m == Media(t)
<1>1. IsMedia(m) /\ h \in Seq(SampleType)
  BY MediaIsMedia, HistoryIs DEF IInv, StateType, Known
<1>2. PICK first : Ghost(m, t, h, first)
  BY DEF Known, ShapeInv, ShapeOf
<1>3. PICK a \in Nat \ {0} :
          /\ a + buffer[t].samples = Len(h) + 1
          /\ Len(buffer[t].bytes) = BytesOf(h, a, Len(h) + 1 - 1)
  <2>1. first[Len(m.flushed) + 1] \in Nat \ {0}
    BY <1>1, <1>2, GhostFirst
  <2> QED
    BY <1>2, <2>1 DEF Ghost, HoldsPart, Media
<1>4. Len(h) \in Nat /\ buffer[t].samples \in Nat /\ Len(buffer[t].bytes) = 0
  <2>1. buffer[t].samples \in Nat
    BY <1>1 DEF IsMedia, BufferType, Media
  <2> QED
    BY <1>1, <2>1, SizesAre, EmptySeq
<1>5. BytesOf(h, a, Len(h)) = 0
  <2>1. Len(h) + 1 - 1 = Len(h)
    BY <1>4
  <2> QED
    BY <1>3, <1>4, <2>1
<1> HIDE DEF h
<1>6. ASSUME a <= k
      PROVE  FALSE
  <2>1. k \in Nat /\ k <= Len(h)
    BY <1>4 DEF h
  <2>2. BytesOf(h, a, k) <= BytesOf(h, a, Len(h))
    BY <1>1, <1>4, <2>1, BytesOfGrows
  <2>3. /\ BytesOf(h, a, k - 1) \in Nat /\ h[k].size \in Nat
        /\ BytesOf(h, a, k) = BytesOf(h, a, k - 1) + h[k].size
    BY <1>1, <1>6, <2>1, BytesOfNext
  <2> QED
    BY <1>5, <2>2, <2>3 DEF h
<1>7. k \in 1..(Len(h) - buffer[t].samples)
  BY <1>3, <1>4, <1>6 DEF h
<1> QED
  BY <1>7 DEF InChunks, h

LEMMA FinishFileSeen ==
    ASSUME Looking, FinishFile
    PROVE  Store!Close
<1>1. IInv /\ Known /\ Seen /\ Seen' /\ session = 1
  BY DEF Looking, Known, Usable, Sound
<1>2. /\ phase = "finishing" /\ phase' = "closed" /\ UNCHANGED << buffer, hist >>
      /\ next > NumTracks
  BY DEF FinishFile
<1>3. UNCHANGED << TableLog, InFile >>
  BY <1>1, <1>2, NothingSeen
<1>4. \A t \in Tracks : buffer[t].bytes = << >>
  <2>1. NumTracks \in Nat /\ next \in Nat
    BY <1>1, CountsAssumption DEF IInv, StateType, WriterType
  <2>2. \A t \in Tracks : t < next
    BY <1>2, <2>1 DEF Tracks
  <2> QED
    BY <1>1, <1>2, <2>2 DEF Known, AllFlushed
<1>5. ASSUME NEW t \in Tracks, NEW k \in 1..Len(TableLog[t]), TableLog[t][k].size > 0
      PROVE  k \in InFile[t]
  <2>1. /\ TableLog[t] = LogOf(hist[t]) /\ InFile[t] = InChunks(t)
        /\ Len(TableLog[t]) = Len(hist[t]) /\ hist[t] \in Seq(SampleType)
    BY <1>1, SeenIs, HistoryIs
  <2>2. k \in 1..Len(hist[t]) /\ hist[t][k].size > 0
    BY <1>5, <2>1, LogIs
  <2> QED
    BY <1>1, <1>4, <2>1, <2>2, BytesAreInChunks
<1> QED
  BY <1>2, <1>3, <1>5, StoreCloses

\* The calls that fail are not made when no write fails.
LEMMA NothingFails ==
    ASSUME Looking, NEW t \in Tracks
    PROVE  /\ \A s \in Written(t) : ~WriteSampleThrows(t, s) /\ ~ModeFlushThrows(t, s)
           /\ \A k \in SampleIds(t) : ~ReadSampleThrows(t, k)
           /\ ~FinishTrackThrows /\ ~Modify
<1>1. IInv /\ faults = 0 /\ faults' = 0 /\ session = 1 /\ session' = 1
  BY DEF Looking, Known, Usable, Sound
<1>2. ~WriteFault
  BY <1>1 DEF WriteFault
<1>3. perChunk[t] # 0
  BY DEF Looking, Known, Usable, TableInv, Says, SaysIds
<1>4. ~Modify
  BY <1>1 DEF Modify
<1> QED
  BY <1>2, <1>3, <1>4 DEF WriteSampleThrows, ModeFlushThrows, ReadSampleThrows,
                          FinishTrackThrows

LEMMA StepSeen ==
    ASSUME Looking, [Next]_vars
    PROVE  [Store!StoreNext]_(Store!storeVars)
<1>0. Seen /\ Seen'
  BY DEF Looking
<1>1. ASSUME NEW t \in Tracks, NEW s \in Written(t),
             WriteSample(t, s) \/ WriteSampleThrows(t, s) \/ ModeFlushThrows(t, s)
      PROVE  Store!StoreNext
  BY <1>1, WriteSampleSeen, NothingFails DEF Store!StoreNext
<1>2. ASSUME UNCHANGED << buffer, hist, phase >>
      PROVE  UNCHANGED Store!storeVars
  BY <1>0, <1>2, NothingSeen DEF Store!storeVars
<1>3. ASSUME NEW t \in Tracks, NEW d \in ChunkDurations, SetDurationPerChunk(t, d)
      PROVE  UNCHANGED Store!storeVars
  BY <1>2, <1>3 DEF SetDurationPerChunk, call
<1>4. ASSUME NEW t \in Tracks, NEW k \in SampleIds(t),
             ReadSample(t, k) \/ ReadSampleThrows(t, k)
      PROVE  Store!StoreNext \/ UNCHANGED Store!storeVars
  BY <1>4, ReadSampleSeen, NothingFails DEF Store!StoreNext
<1>5. ASSUME NEW t \in Tracks, NEW k \in SampleIds(t), LookUpSample(t, k)
      PROVE  UNCHANGED Store!storeVars
  BY <1>2, <1>5 DEF LookUpSample, call
<1>6. ASSUME NEW t \in Tracks, NEW k \in SampleIds(t), NEW x \in Offsets, SetOffset(t, k, x)
      PROVE  Store!StoreNext
  BY <1>6, SetOffsetSeen DEF Store!StoreNext
<1>7. CASE FinishTrack
  BY <1>7, FinishTrackSeen DEF Store!StoreNext
<1>8. CASE FinishFile
  BY <1>8, FinishFileSeen DEF Store!StoreNext
<1>9. ~FinishTrackThrows /\ ~Modify
  <2>1. 1 \in Tracks
    BY CountsAssumption DEF Tracks
  <2> QED
    BY <2>1, NothingFails
<1>10. CASE UNCHANGED vars
  BY <1>2, <1>10 DEF vars, call
<1> QED
  BY <1>1, <1>3, <1>4, <1>5, <1>6, <1>7, <1>8, <1>9, <1>10 DEF Next

LEMMA InitSeen ==
    ASSUME Init, Known, Usable
    PROVE  Store!StoreInit
<1>1. IInv /\ Seen
  BY SeenThen DEF Known
<1>2. ASSUME NEW t \in Tracks
      PROVE  LogOf(hist[t]) = << >> /\ InChunks(t) = {}
  <2>1. hist[t] = << >> /\ buffer[t].samples = 0
    BY DEF Init, EmptyBuffer
  <2>2. Len(hist[t]) = 0
    BY <2>1
  <2>3. InChunks(t) = {}
    BY <2>1, <2>2 DEF InChunks
  <2>4. LogOf(hist[t]) \in Seq(LoggedType) /\ Len(LogOf(hist[t])) = 0
    BY <1>1, <2>2, HistoryIs, LogIs
  <2> QED
    BY <2>3, <2>4, EmptySeq
<1>3. TableLog = [t \in Tracks |-> << >>] /\ InFile = [t \in Tracks |-> {}]
  BY <1>1, <1>2 DEF Seen
<1>4. phase # "closed"
  BY DEF Init
<1> QED
  BY <1>3, <1>4 DEF Store!StoreInit

\* While MP4Create's session lasts, no write fails and no chunk limit of zero is
\* set, the tracks do what SampleStore says: whatever the tables, read without
\* caches, tell of a track is the log of the samples written, each changed in
\* nothing but its rendering offset; the samples the file gives back through its
\* chunk tables only ever grow, by all those before a flush; and MP4Close leaves
\* every sample that has bytes in the file.
THEOREM TracksImplementStore == WholeUnits => (Spec /\ []Sound => ImplementsStore)
<1> SUFFICES ASSUME WholeUnits PROVE Spec /\ []Sound => ImplementsStore
  OBVIOUS
<1> DEFINE Inv == IInv /\ SizesInv /\ LookupInv /\ TableInv /\ OrderInv /\ ShapeInv /\ SpanInv
<1>1. Init => Inv
  BY InitIInv, InitSizesInv, InitLookupInv, InitTableInv, InitOrderInv, InitShapeInv,
     InitSpanInv
<1>2. Inv /\ [Next]_vars => Inv'
  BY NextIInv, NextSizesInv, NextLookupInv, NextTableInv, NextOrderInv, NextShapeInv,
     NextSpanInv DEF OrderInv
<1>3. Inv => Known /\ SpanInv
  BY DEF OrderInv, Known
<1>4. Inv /\ Sound => Known /\ Usable /\ SpanInv /\ Seen
  BY <1>3, SeenThen DEF Usable
<1>5. WholeUnits'
  BY DEF WholeUnits
<1>6. Init /\ Inv /\ Sound => Store!StoreInit
  BY <1>4, InitSeen
<1> HIDE DEF Inv
<1>7. Known /\ Usable /\ SpanInv /\ Seen /\ (Known /\ Usable /\ SpanInv /\ Seen)' => Looking
  BY DEF Looking
<1>8. Looking /\ [Next]_vars => [Store!StoreNext]_(Store!storeVars)
  BY StepSeen
<1> QED
  BY <1>1, <1>2, <1>4, <1>6, <1>7, <1>8, PTL DEF Spec, ImplementsStore, Store!StoreSpec
=============================================================================
