---------------------------- MODULE ReadBackProofs ----------------------------
(***************************************************************************)
(* Proof that every sample in a chunk of module Track can be read back     *)
(* from the file (ReadBackFromFile), and while it is written               *)
(* (ReadBackWhileWriting).  The tables of a track are written one chunk at *)
(* a time and count chunks by runs of equal ones, while a reader starts    *)
(* from a sample: the proof keeps, as a ghost, the first sample of each    *)
(* chunk (Shaped), shows that the reader computes it, and that each chunk  *)
(* holds the bytes of its samples one after the other (HoldsPart).  The    *)
(* writer has not computed it but put it into stsc from m_writeSampleId    *)
(* (Starts), and starts from the sample it located last (ReadsOf).         *)
(***************************************************************************)
EXTENDS TableProofs

-----------------------------------------------------------------------------
(* The chunks the entries of stsc stand for.                               *)

\* The chunk after the last one of entry i, when there are n chunks.
ChunkAfter(stsc, i, n) == IF i < Len(stsc) THEN stsc[i + 1].firstChunk ELSE n + 1

\* The chunks of entry e start at regular distances, up to chunk b.
Regular(e, b, first, n) ==
    /\ e.firstChunk < b /\ b <= n + 1
    /\ \A c \in e.firstChunk..b :
          first[c] = first[e.firstChunk] + (c - e.firstChunk) * e.samplesPerChunk

\* The table stsc says that chunk c starts with sample first[c], and that
\* sample first[n + 1] is the next one to come.
Shaped(stsc, first, n) ==
    /\ first \in [1..(n + 1) -> Nat \ {0}] /\ first[1] = 1
    /\ \A c \in 1..(n + 1) : first[c] <= first[n + 1]
    /\ n # 0 => Len(stsc) # 0 /\ stsc[1].firstChunk = 1
    /\ \A i \in 1..Len(stsc) : Regular(stsc[i], ChunkAfter(stsc, i, n), first, n)

LEMMA ChunksIn ==
    ASSUME NEW stsc \in Seq(StscType), NEW n \in Nat, NEW first, Shaped(stsc, first, n),
           NEW i \in 1..Len(stsc)
    PROVE  /\ stsc[i] \in StscType /\ ChunkAfter(stsc, i, n) \in Nat
           /\ stsc[i].firstChunk \in 1..n /\ ChunkAfter(stsc, i, n) \in 1..(n + 1)
           /\ stsc[i].firstChunk < ChunkAfter(stsc, i, n)
           /\ Len(stsc) \in Nat /\ Regular(stsc[i], ChunkAfter(stsc, i, n), first, n)
<1>1. Len(stsc) \in Nat /\ \A j \in 1..Len(stsc) : stsc[j] \in StscType
  BY LenProperties, ElementOfSeq
<1>2. Regular(stsc[i], ChunkAfter(stsc, i, n), first, n)
  BY DEF Shaped
<1>3. stsc[i].firstChunk \in Nat \ {0}
  BY <1>1 DEF StscType
<1>4. ChunkAfter(stsc, i, n) \in Nat
  <2>1. CASE i < Len(stsc)
    <3>1. i + 1 \in 1..Len(stsc)
      BY <1>1, <2>1
    <3> QED
      BY <1>1, <2>1, <3>1 DEF ChunkAfter, StscType
  <2>2. CASE ~(i < Len(stsc))
    BY <2>2 DEF ChunkAfter
  <2> QED
    BY <2>1, <2>2
<1> QED
  BY <1>1, <1>2, <1>3, <1>4 DEF Regular

LEMMA OneMore ==
    ASSUME NEW a \in Int, NEW s \in Int
    PROVE  (a + 1) * s = a * s + s /\ a * s \in Int /\ 0 * s = 0 /\ 1 * s = s
OBVIOUS

LEMMA NoChunks == Shaped(<< >>, [c \in 1..1 |-> 1], 0)
<1> DEFINE first == [c \in 1..1 |-> 1]
<1>1. first \in [1..(0 + 1) -> Nat \ {0}] /\ first[1] = 1
  OBVIOUS
<1>2. \A c \in 1..(0 + 1) : first[c] <= first[0 + 1]
  OBVIOUS
<1>3. 1..Len(<< >>) = {}
  BY EmptySeq
<1> HIDE DEF first
<1> QED
  BY <1>1, <1>2, <1>3 DEF Shaped, first

\* The ghost with one more chunk of s samples.
WithChunk(first, n, s) == [c \in 1..(n + 2) |-> IF c = n + 2 THEN first[n + 1] + s ELSE first[c]]

\* Ghost more has the chunks of first and then one of s samples.
Lengthened(more, first, n, s) ==
    /\ more \in [1..(n + 1 + 1) -> Nat \ {0}]
    /\ more[n + 1 + 1] = first[n + 1] + s
    /\ \A c \in 1..(n + 1) : more[c] = first[c]
    /\ first[n + 1] \in Nat \ {0}

LEMMA WithChunkIs ==
    ASSUME NEW n \in Nat, NEW stsc, NEW first, Shaped(stsc, first, n), NEW s \in Nat \ {0}
    PROVE  Lengthened(WithChunk(first, n, s), first, n, s)
<1>0. first \in [1..(n + 1) -> Nat \ {0}]
  BY DEF Shaped
<1> DEFINE more == WithChunk(first, n, s)
<1>1. n + 1 + 1 = n + 2 /\ n + 1 \in 1..(n + 1) /\ n + 2 \in 1..(n + 2)
  OBVIOUS
<1>2. more = [c \in 1..(n + 2) |-> IF c = n + 2 THEN first[n + 1] + s ELSE first[c]]
  BY DEF WithChunk
<1>3. first[n + 1] \in Nat \ {0}
  BY <1>0, <1>1
<1>4. \A c \in 1..(n + 1) : c \in 1..(n + 2) /\ c # n + 2
  OBVIOUS
<1>5. \A c \in 1..(n + 2) : c # n + 2 => c \in 1..(n + 1)
  OBVIOUS
<1> HIDE DEF more
<1>6. more \in [1..(n + 2) -> Nat \ {0}]
  BY <1>0, <1>2, <1>3, <1>5
<1>7. more[n + 2] = first[n + 1] + s /\ \A c \in 1..(n + 1) : more[c] = first[c]
  BY <1>1, <1>2, <1>4
<1> QED
  BY <1>1, <1>3, <1>6, <1>7 DEF Lengthened, more

\* A flushed chunk of s samples keeps the table in shape, whether it lengthens
\* the last entry or gets one of its own.
LEMMA ChunkAdded ==
    ASSUME NEW stsc \in Seq(StscType), NEW n \in Nat, NEW first, Shaped(stsc, first, n),
           NEW s \in Nat \ {0}, NEW id \in Int
    PROVE  Shaped(UpdateSampleToChunk(stsc, id, n + 1, s), WithChunk(first, n, s), n + 1)
<1> DEFINE more == WithChunk(first, n, s)
           len == Len(stsc)
           new == UpdateSampleToChunk(stsc, id, n + 1, s)
<1>1. len \in Nat /\ \A i \in 1..len : stsc[i] \in StscType
  BY LenProperties, ElementOfSeq
<1>2. /\ more \in [1..(n + 1 + 1) -> Nat \ {0}] /\ more[n + 1 + 1] = first[n + 1] + s
      /\ \A c \in 1..(n + 1) : more[c] = first[c]
      /\ first[n + 1] \in Nat \ {0}
  BY WithChunkIs DEF Lengthened
<1> HIDE DEF more
<1>3. more[1] = 1
  BY <1>2 DEF Shaped
<1>4. \A c \in 1..(n + 1 + 1) : more[c] <= more[n + 1 + 1]
  <2> SUFFICES ASSUME NEW c \in 1..(n + 1 + 1)
               PROVE  more[c] <= more[n + 1 + 1]
    OBVIOUS
  <2>1. CASE c = n + 1 + 1
    BY <1>2, <2>1
  <2>2. CASE c # n + 1 + 1
    <3>1. c \in 1..(n + 1)
      BY <2>2
    <3>2. first[c] <= first[n + 1] /\ first[c] \in Nat
      BY <3>1 DEF Shaped
    <3> QED
      BY <1>2, <3>1, <3>2
  <2> QED
    BY <2>1, <2>2
\* Entries that end where they did.
<1>5. ASSUME NEW i \in 1..len, NEW b \in Int, Regular(stsc[i], b, first, n)
      PROVE  Regular(stsc[i], b, more, n + 1)
  <2>1. stsc[i].firstChunk \in Nat \ {0}
    BY <1>1 DEF StscType
  <2>2. stsc[i].firstChunk < b /\ b <= n + 1
    BY <1>5 DEF Regular
  <2>3. \A c \in stsc[i].firstChunk..b : more[c] = first[c]
    BY <1>2, <2>1, <2>2, SMTT(30)
  <2>4. stsc[i].firstChunk \in stsc[i].firstChunk..b
    BY <2>1, <2>2
  <2> QED
    BY <1>5, <2>2, <2>3, <2>4 DEF Regular
<1>6. CASE stsc # << >> /\ stsc[len].samplesPerChunk = s
  <2>1. new = stsc
    BY <1>6 DEF UpdateSampleToChunk
  <2>2. len \in 1..len
    BY <1>1, <1>6, EmptySeq
  <2>3. n # 0 /\ stsc[1].firstChunk = 1
    <3>1. stsc[len].firstChunk \in 1..n
      BY <2>2, ChunksIn
    <3> QED
      BY <3>1 DEF Shaped
  <2>4. ASSUME NEW i \in 1..len, i # len
        PROVE  Regular(stsc[i], ChunkAfter(stsc, i, n + 1), more, n + 1)
    <3>1. i < len
      BY <1>1, <2>4
    <3>2. ChunkAfter(stsc, i, n + 1) = ChunkAfter(stsc, i, n)
      BY <3>1 DEF ChunkAfter
    <3>3. Regular(stsc[i], ChunkAfter(stsc, i, n), first, n) /\ ChunkAfter(stsc, i, n) \in Nat
      BY ChunksIn
    <3> QED
      BY <1>5, <3>2, <3>3
  <2>5. Regular(stsc[len], n + 1 + 1, more, n + 1)
    <3> DEFINE e == stsc[len]
    <3>1. Regular(e, n + 1, first, n)
      <4>1. ChunkAfter(stsc, len, n) = n + 1
        BY <1>1 DEF ChunkAfter
      <4> QED
        BY <2>2, <4>1 DEF Shaped
    <3>2. e.firstChunk \in 1..n /\ e.samplesPerChunk = s
      BY <1>6, <2>2, ChunksIn
    <3>3. Regular(e, n + 1, more, n + 1)
      BY <1>5, <2>2, <3>1
    <3> HIDE DEF e
    <3>4. PICK f \in 1..n : f = e.firstChunk
      BY <3>2
    <3>5. f \in 1..(n + 1) /\ more[f] \in Int /\ first[f] = more[f] /\ n + 1 \in 1..(n + 1)
      BY <1>2
    <3>6. more[n + 1] = more[f] + (n + 1 - f) * s /\ more[n + 1] = first[n + 1]
      BY <1>2, <3>2, <3>3, <3>4, <3>5 DEF Regular
    <3>7. (n + 1 - f + 1) * s = (n + 1 - f) * s + s /\ (n + 1 - f) * s \in Int
      BY <3>4, OneMore
    <3>8. n + 1 + 1 - f = n + 1 - f + 1
      BY <3>4
    <3>9. more[n + 1 + 1] = more[f] + (n + 1 + 1 - f) * s
      BY <1>2, <3>5, <3>6, <3>7, <3>8
    <3>10. ASSUME NEW c \in f..(n + 1 + 1)
           PROVE  more[c] = more[f] + (c - f) * s
      <4>1. CASE c = n + 1 + 1
        BY <3>9, <4>1
      <4>2. CASE c # n + 1 + 1
        <5>1. c \in f..(n + 1)
          BY <4>2
        <5> QED
          BY <3>2, <3>3, <3>4, <5>1 DEF Regular
      <4> QED
        BY <4>1, <4>2
    <3>11. Regular(e, n + 1 + 1, more, n + 1)
      BY <3>2, <3>4, <3>10 DEF Regular
    <3> QED
      BY <3>11 DEF e
  <2>6. ChunkAfter(stsc, len, n + 1) = n + 1 + 1
    BY <1>1 DEF ChunkAfter
  <2>7. \A i \in 1..len : Regular(stsc[i], ChunkAfter(stsc, i, n + 1), more, n + 1)
    BY <2>4, <2>5, <2>6
  <2>8. Shaped(stsc, more, n + 1)
    BY <1>2, <1>3, <1>4, <2>2, <2>3, <2>7 DEF Shaped
  <2> QED
    BY <2>1, <2>8 DEF more
<1>7. CASE ~ (stsc # << >> /\ stsc[len].samplesPerChunk = s)
  <2> DEFINE e == [firstChunk |-> n + 1, samplesPerChunk |-> s, firstSample |-> id - s + 1]
  <2>1. e \in StscType /\ e.firstChunk = n + 1 /\ e.samplesPerChunk = s
    BY DEF StscType
  <2>2. new = Append(stsc, e)
    BY <1>7 DEF UpdateSampleToChunk
  <2> HIDE DEF e
  <2>3. /\ Len(new) = len + 1 /\ new[len + 1] = e
        /\ \A i \in 1..len : new[i] = stsc[i]
    BY <2>1, <2>2, AppendProperties
  <2> HIDE DEF new
  <2>4. Len(new) # 0 /\ new[1].firstChunk = 1
    <3>1. CASE n = 0
      <4>1. ASSUME len # 0 PROVE FALSE
        <5>1. 1 \in 1..len
          BY <1>1, <4>1
        <5>2. stsc[1].firstChunk \in 1..n
          BY <5>1, ChunksIn
        <5> QED
          BY <3>1, <5>2
      <4> QED
        BY <2>1, <2>3, <3>1, <4>1
    <3>2. CASE n # 0
      <4>1. 1 \in 1..len /\ stsc[1].firstChunk = 1
        BY <1>1, <3>2 DEF Shaped
      <4> QED
        BY <1>1, <2>3, <4>1
    <3> QED
      BY <3>1, <3>2
  <2>5. ASSUME NEW i \in 1..len
        PROVE  Regular(new[i], ChunkAfter(new, i, n + 1), more, n + 1)
    <3>1. Regular(stsc[i], ChunkAfter(stsc, i, n), first, n) /\ ChunkAfter(stsc, i, n) \in Nat
      BY ChunksIn
    <3>2. ChunkAfter(new, i, n + 1) = ChunkAfter(stsc, i, n)
      <4>1. CASE i = len
        BY <1>1, <2>1, <2>3, <4>1 DEF ChunkAfter
      <4>2. CASE i # len
        <5>1. i < len /\ i + 1 \in 1..len /\ i < len + 1
          BY <1>1, <4>2
        <5> QED
          BY <2>3, <5>1 DEF ChunkAfter
      <4> QED
        BY <4>1, <4>2
    <3> QED
      BY <1>5, <2>3, <3>1, <3>2
  <2>6. Regular(e, n + 1 + 1, more, n + 1)
    <3>1. more[n + 1] \in Int /\ more[n + 1] = first[n + 1]
      BY <1>2
    <3>2. more[n + 1] = more[n + 1] + 0 * s /\ more[n + 1 + 1] = more[n + 1] + 1 * s
      BY <1>2, <3>1, OneMore
    <3>3. ASSUME NEW c \in (n + 1)..(n + 1 + 1)
          PROVE  more[c] = more[n + 1] + (c - (n + 1)) * s
      <4>1. CASE c = n + 1
        <5>1. c - (n + 1) = 0
          BY <4>1
        <5> QED
          BY <3>2, <4>1, <5>1
      <4>2. CASE c = n + 1 + 1
        <5>1. c - (n + 1) = 1
          BY <4>2
        <5> QED
          BY <3>2, <4>2, <5>1
      <4> QED
        BY <4>1, <4>2
    <3> QED
      BY <2>1, <3>3 DEF Regular
  <2>7. ChunkAfter(new, len + 1, n + 1) = n + 1 + 1
    BY <1>1, <2>3 DEF ChunkAfter
  <2>8. \A i \in 1..Len(new) : Regular(new[i], ChunkAfter(new, i, n + 1), more, n + 1)
    <3> SUFFICES ASSUME NEW i \in 1..(len + 1)
                 PROVE  Regular(new[i], ChunkAfter(new, i, n + 1), more, n + 1)
      BY <2>3
    <3>1. i \in 1..len \/ i = len + 1
      BY <1>1
    <3> QED
      BY <2>3, <2>5, <2>6, <2>7, <3>1
  <2>9. Shaped(new, more, n + 1)
    BY <1>2, <1>3, <1>4, <2>4, <2>8 DEF Shaped
  <2> QED
    BY <2>9 DEF new, more
<1> QED
  BY <1>6, <1>7

-----------------------------------------------------------------------------
(* How a reader finds the chunk of a sample.                               *)

\* The entries say with which sample they start.
Starts(stsc, first) ==
    \A i \in 1..Len(stsc) : stsc[i].firstSample = first[stsc[i].firstChunk]

\* Reading the table back recomputes where the entries start.
LEMMA ReadStscStarts ==
    ASSUME NEW stsc \in Seq(StscType), NEW n \in Nat, NEW first, Shaped(stsc, first, n)
    PROVE  /\ ReadStsc(stsc) \in Seq(StscType) /\ Len(ReadStsc(stsc)) = Len(stsc)
           /\ Shaped(ReadStsc(stsc), first, n) /\ Starts(ReadStsc(stsc), first)
<1> DEFINE len == Len(stsc)
           samplesOf == [j \in 1..(len - 1) |->
                           (stsc[j + 1].firstChunk - stsc[j].firstChunk)
                           * stsc[j].samplesPerChunk]
           new == ReadStsc(stsc)
           sum(i) == SumFunctionOnSet(samplesOf, 1..i)
           A == {m \in Nat : m + 1 <= len => 1 + sum(m) = first[stsc[m + 1].firstChunk]}
<1>1. len \in Nat /\ \A i \in 1..len : stsc[i] \in StscType
  BY LenProperties, ElementOfSeq
<1>2. new = [i \in 1..len |-> [stsc[i] EXCEPT !.firstSample = 1 + sum(i - 1)]]
  BY DEF ReadStsc
<1>3. ASSUME NEW j \in 1..(len - 1)
      PROVE  /\ samplesOf[j] \in Int /\ first[stsc[j].firstChunk] \in Int
             /\ first[stsc[j + 1].firstChunk] = first[stsc[j].firstChunk] + samplesOf[j]
  <2>1. j \in 1..len /\ j + 1 \in 1..len /\ j < len
    BY <1>1
  <2>2. /\ stsc[j].firstChunk \in 1..n /\ stsc[j + 1].firstChunk \in 1..n
        /\ Regular(stsc[j], ChunkAfter(stsc, j, n), first, n)
        /\ stsc[j].firstChunk < ChunkAfter(stsc, j, n)
    BY <2>1, ChunksIn
  <2>3. ChunkAfter(stsc, j, n) = stsc[j + 1].firstChunk
    BY <2>1 DEF ChunkAfter
  <2>4. stsc[j + 1].firstChunk \in stsc[j].firstChunk..ChunkAfter(stsc, j, n)
    BY <2>2, <2>3
  <2>5. stsc[j].samplesPerChunk \in Int
    BY <1>1, <2>1 DEF StscType
  <2>6. samplesOf[j] \in Int
    BY <2>2, <2>5
  <2>7. first[stsc[j].firstChunk] \in Int
    <3>1. stsc[j].firstChunk \in 1..(n + 1)
      BY <2>2
    <3> QED
      BY <3>1 DEF Shaped
  <2> QED
    BY <2>2, <2>4, <2>6, <2>7 DEF Regular
<1> HIDE DEF samplesOf, new
<1>4. 0 \in A
  <2> SUFFICES ASSUME 1 <= len
               PROVE  1 + sum(0) = first[stsc[1].firstChunk]
    OBVIOUS
  <2>1. 1 \in 1..len
    BY <1>1
  <2>2. stsc[1].firstChunk \in 1..n
    BY <2>1, ChunksIn
  <2>3. first[stsc[1].firstChunk] = 1
    BY <2>2 DEF Shaped
  <2>4. sum(0) = 0
    BY SumOfEmptyInterval
  <2> QED
    BY <2>3, <2>4
<1>5. ASSUME NEW m \in Nat, m \in A
      PROVE  m + 1 \in A
  <2> SUFFICES ASSUME m + 1 + 1 <= len
               PROVE  1 + sum(m + 1) = first[stsc[m + 1 + 1].firstChunk]
    OBVIOUS
  <2>1. m + 1 \in 1..(len - 1) /\ \A j \in 1..(m + 1) : j \in 1..(len - 1)
    BY <1>1
  <2>2. 1 + sum(m) = first[stsc[m + 1].firstChunk]
    BY <1>1, <1>5
  <2>3. sum(m + 1) = sum(m) + samplesOf[m + 1]
    BY <1>3, <2>1, SumToNext
  <2>4. sum(m) \in Int
    <3>1. IsFiniteSet(1..m)
      BY IntervalFinite
    <3>2. \A j \in 1..m : samplesOf[j] \in Int
      BY <1>3, <2>1
    <3> QED
      BY <3>1, <3>2, SumType
  <2> HIDE DEF sum
  <2>5. /\ samplesOf[m + 1] \in Int
        /\ first[stsc[m + 1 + 1].firstChunk] = first[stsc[m + 1].firstChunk] + samplesOf[m + 1]
    BY <1>3, <2>1
  <2>6. PICK x \in Int, y \in Int : x = sum(m) /\ y = samplesOf[m + 1]
    BY <2>4, <2>5
  <2>7. sum(m + 1) = x + y /\ first[stsc[m + 1].firstChunk] = 1 + x
    BY <2>2, <2>3, <2>6
  <2>8. first[stsc[m + 1 + 1].firstChunk] = (1 + x) + y
    BY <2>5, <2>6, <2>7
  <2>9. 1 + (x + y) = (1 + x) + y
    OBVIOUS
  <2> QED
    BY <2>7, <2>8, <2>9
<1>6. \A m \in Nat : m \in A
  <2> HIDE DEF A
  <2> QED
    BY <1>4, <1>5, AllNumbers
<1>7. ASSUME NEW i \in 1..len
      PROVE  1 + sum(i - 1) = first[stsc[i].firstChunk]
  <2>1. PICK m \in Nat : m = i - 1 /\ i = m + 1 /\ m + 1 <= len
    BY <1>1
  <2>2. m \in A
    BY <1>6
  <2> QED
    BY <2>1, <2>2
<1> HIDE DEF sum, A
<1>8. ASSUME NEW i \in 1..len
      PROVE  /\ new[i].firstChunk = stsc[i].firstChunk
             /\ new[i].samplesPerChunk = stsc[i].samplesPerChunk
             /\ new[i].firstSample = first[stsc[i].firstChunk] /\ new[i] \in StscType
  <2>1. new[i] = [stsc[i] EXCEPT !.firstSample = first[stsc[i].firstChunk]]
    BY <1>2, <1>7
  <2>2. first[stsc[i].firstChunk] \in Int
    <3>1. stsc[i].firstChunk \in 1..n
      BY ChunksIn
    <3>2. stsc[i].firstChunk \in 1..(n + 1)
      BY <3>1
    <3> QED
      BY <3>2 DEF Shaped
  <2>3. stsc[i] \in StscType
    BY <1>1
  <2> QED
    BY <2>1, <2>2, <2>3 DEF StscType
<1>9. new \in Seq(StscType) /\ Len(new) = len
  <2>1. new = [i \in 1..len |-> new[i]]
    BY <1>2
  <2> QED
    BY <1>1, <1>8, <2>1, IsASeq
<1>10. Starts(new, first)
  BY <1>8, <1>9 DEF Starts
<1>11. \A i \in 1..len : ChunkAfter(new, i, n) = ChunkAfter(stsc, i, n)
  <2> SUFFICES ASSUME NEW i \in 1..len, i < len
               PROVE  new[i + 1].firstChunk = stsc[i + 1].firstChunk
    BY <1>9 DEF ChunkAfter
  <2>1. i + 1 \in 1..len
    BY <1>1
  <2> QED
    BY <1>8, <2>1
<1>12. \A i \in 1..len : Regular(new[i], ChunkAfter(new, i, n), first, n)
  BY <1>8, <1>11 DEF Shaped, Regular
<1>13. n # 0 => len # 0 /\ new[1].firstChunk = 1
  <2>1. n # 0 => len # 0 /\ 1 \in 1..len /\ stsc[1].firstChunk = 1
    BY <1>1 DEF Shaped
  <2> QED
    BY <1>8, <2>1
<1>14. Shaped(new, first, n)
  BY <1>9, <1>12, <1>13 DEF Shaped
<1> QED
  BY <1>9, <1>10, <1>14 DEF new

\* Sample k is the one with the given place in chunk c.
InChunk(first, n, c, k, place) ==
    /\ c \in 1..n /\ first[c] = k - place /\ first[c] <= k /\ k < first[c + 1]

\* The place of sample k in the chunks from f to b that lie s samples apart.
LEMMA PlaceInChunk ==
    ASSUME NEW n \in Nat, NEW first, NEW f \in 1..n, NEW b \in 1..(n + 1), f < b,
           NEW s \in Nat \ {0}, NEW a \in Nat, a = first[f],
           \A c \in f..b : first[c] = first[f] + (c - f) * s,
           NEW k \in Nat, a <= k, k < first[b],
           NEW m \in Nat, m = k - a
    PROVE  InChunk(first, n, f + m \div s, k, m % s)
<1>1. b \in f..b /\ b - f \in Nat
  OBVIOUS
<1>2. k < a + (b - f) * s
  BY <1>1
<1>3. PICK q \in Nat, r \in Nat : /\ q = m \div s /\ r = m % s
                                 /\ m = q * s + r /\ r < s
  BY Division
<1>4. q < b - f
  <2>1. PICK e \in Nat : e = b - f
    BY <1>1
  <2>2. q * s \in Nat /\ e * s \in Nat /\ k < a + e * s
    BY <1>2, <2>1
  <2>3. q * s + r < e * s
    BY <1>3, <2>2
  <2>4. q < e
    BY <1>3, <2>3, QuotientBelow
  <2> QED
    BY <2>1, <2>4
<1>5. PICK c \in f..b : c = f + q /\ c \in 1..n /\ c - f = q
  BY <1>4
<1>6. PICK d \in f..b : d = c + 1 /\ d - f = q + 1
  BY <1>4, <1>5
<1>7. first[c] = a + q * s
  BY <1>5
<1>8. first[d] = a + (q + 1) * s
  BY <1>6
<1>9. PICK z \in Int : z = q * s /\ (q + 1) * s = z + s
  BY OneMore
<1>10. first[c] = k - r /\ first[c] <= k /\ k < first[d]
  <2>1. m = z + r /\ first[c] = a + z /\ first[d] = a + (z + s)
    BY <1>3, <1>7, <1>8, <1>9
  <2> HIDE <1>7, <1>8
  <2>2. PICK x \in Int, y \in Int : x = first[c] /\ y = first[d]
    BY <2>1
  <2>3. x = a + z /\ y = a + (z + s) /\ m = z + r /\ m = k - a /\ r < s
    BY <1>3, <2>1, <2>2
  <2>4. x = k - r /\ x <= k /\ k < y
    BY <2>3
  <2> QED
    BY <2>2, <2>4
<1>11. InChunk(first, n, c, k, r)
  BY <1>5, <1>6, <1>10 DEF InChunk
<1> QED
  BY <1>3, <1>5, <1>11, Zenon

\* GetSampleStscIndex finds the entry, and the division the chunk in it.
LEMMA ChunkOfSample ==
    ASSUME NEW stsc \in Seq(StscType), NEW n \in Nat, NEW first, Shaped(stsc, first, n),
           Starts(stsc, first), NEW k \in Nat \ {0}, k < first[n + 1]
    PROVE  LET index == GetSampleStscIndex(stsc, k)
               entry == stsc[index]
               nth   == k - entry.firstSample
           IN  /\ index # THROWN /\ nth \in Nat /\ entry.samplesPerChunk \in Nat \ {0}
               /\ InChunk(first, n, entry.firstChunk + nth \div entry.samplesPerChunk, k,
                          nth % entry.samplesPerChunk)
<1> DEFINE later == {i \in 1..Len(stsc) : k < stsc[i].firstSample}
           index == GetSampleStscIndex(stsc, k)
           len == Len(stsc)
<1>1. first \in [1..(n + 1) -> Nat \ {0}] /\ first[1] = 1 /\ n # 0
  <2>1. n # 0
    BY DEF Shaped
  <2> QED
    BY <2>1 DEF Shaped
<1>2. len \in Nat /\ len # 0 /\ stsc # << >> /\ stsc[1].firstChunk = 1
  BY <1>1, LenProperties, EmptySeq DEF Shaped
<1>3. \A i \in 1..len : /\ stsc[i].firstSample = first[stsc[i].firstChunk]
                        /\ stsc[i].firstChunk \in 1..n /\ stsc[i].firstSample \in Nat \ {0}
  <2> SUFFICES ASSUME NEW i \in 1..len
               PROVE  /\ stsc[i].firstSample = first[stsc[i].firstChunk]
                      /\ stsc[i].firstChunk \in 1..n /\ stsc[i].firstSample \in Nat \ {0}
    OBVIOUS
  <2>1. stsc[i].firstChunk \in 1..n
    BY ChunksIn
  <2>2. stsc[i].firstChunk \in 1..(n + 1)
    BY <2>1
  <2> QED
    BY <1>1, <2>1, <2>2 DEF Starts
<1>4. 1 \notin later
  <2>1. 1 \in 1..len
    BY <1>2
  <2>2. stsc[1].firstSample = 1
    BY <1>1, <1>2, <1>3, <2>1
  <2> QED
    BY <2>2
<1>5. index = IF later = {} THEN len ELSE Min(later) - 1
  BY <1>2, <1>4 DEF GetSampleStscIndex
<1> HIDE DEF index
<1>6. PICK i \in 1..len :
          i = index /\ stsc[i].firstSample <= k /\ k < first[ChunkAfter(stsc, i, n)]
  <2>1. CASE later = {}
    <3>1. len \in 1..len /\ index = len
      BY <1>2, <1>5, <2>1
    <3>2. stsc[len].firstSample <= k
      BY <1>3, <2>1, <3>1
    <3>3. ChunkAfter(stsc, len, n) = n + 1
      BY <1>2 DEF ChunkAfter
    <3> QED
      BY <3>1, <3>2, <3>3
  <2>2. CASE later # {}
    <3>1. later \subseteq Nat
      BY <1>2
    <3>2. PICK m \in 1..len : m = Min(later) /\ m \in later /\ m # 1
      BY <1>4, <2>2, <3>1, MinIsSmallest
    <3>3. \A y \in later : m <= y
      BY <2>2, <3>1, <3>2, MinIsSmallest
    <3>4. PICK i \in 1..len : i = m - 1 /\ m = i + 1 /\ i < len /\ i = index
      <4>1. index = m - 1
        BY <1>5, <2>2, <3>2
      <4>2. m \in Nat /\ m # 1 /\ 1 <= m /\ m <= len
        BY <1>2, <3>2
      <4>3. m - 1 \in 1..len /\ m = (m - 1) + 1 /\ m - 1 < len
        BY <1>2, <4>2
      <4> QED
        BY <4>1, <4>3
    <3>5. i \notin later
      BY <3>3, <3>4
    <3>6. stsc[i].firstSample <= k
      BY <1>3, <3>5
    <3>7. ChunkAfter(stsc, i, n) = stsc[m].firstChunk
      BY <3>4 DEF ChunkAfter
    <3>8. k < stsc[m].firstSample
      BY <3>2
    <3> QED
      BY <1>3, <3>4, <3>6, <3>7, <3>8
  <2> QED
    BY <2>1, <2>2
<1>7. PICK f \in 1..n, b \in 1..(n + 1), s \in Nat \ {0} :
          /\ f = stsc[i].firstChunk /\ b = ChunkAfter(stsc, i, n) /\ f < b
          /\ s = stsc[i].samplesPerChunk
          /\ \A c \in f..b : first[c] = first[f] + (c - f) * s
  <2>1. /\ stsc[i].firstChunk \in 1..n /\ ChunkAfter(stsc, i, n) \in 1..(n + 1)
        /\ stsc[i].firstChunk < ChunkAfter(stsc, i, n)
        /\ Regular(stsc[i], ChunkAfter(stsc, i, n), first, n) /\ stsc[i] \in StscType
    BY ChunksIn
  <2> QED
    BY <2>1 DEF Regular, StscType
<1> HIDE DEF len, later
<1>8. PICK a \in Nat : a = first[f] /\ a = stsc[i].firstSample /\ a <= k
  BY <1>3, <1>6, <1>7
<1>9. k < first[b]
  BY <1>6, <1>7
<1>10. PICK m \in Nat : m = k - a
  BY <1>8
<1>11. InChunk(first, n, f + m \div s, k, m % s)
  <2>1. f < b /\ a = first[f] /\ a <= k /\ k \in Nat
    BY <1>7, <1>8
  <2>2. \A c \in f..b : first[c] = first[f] + (c - f) * s
    BY <1>7
  <2> QED
    BY <1>9, <1>10, <2>1, <2>2, PlaceInChunk
<1>12. /\ index # THROWN /\ stsc[index].samplesPerChunk = s /\ stsc[index].firstChunk = f
       /\ k - stsc[index].firstSample = m
  BY <1>2, <1>6, <1>7, <1>8, <1>10 DEF THROWN
<1> QED
  BY <1>11, <1>12, Zenon DEF index

-----------------------------------------------------------------------------
(* The bytes of consecutive samples.                                       *)

Sizes(h) == [k \in 1..Len(h) |-> h[k].size]

\* The samples from a to b are that many bytes.
BytesOf(h, a, b) == SumFunctionOnSet(Sizes(h), a..b)

\* The samples of track t from a to b, without b, one after the other.
HoldsPart(bytes, t, h, a, b) ==
    /\ Len(bytes) = BytesOf(h, a, b - 1)
    /\ \A k \in a..(b - 1) : \A i \in 1..h[k].size :
          bytes[BytesOf(h, a, k - 1) + i] = << t, k, i >>

LEMMA SizesAre ==
    ASSUME NEW h \in Seq(SampleType)
    PROVE  /\ Len(h) \in Nat
           /\ \A k \in 1..Len(h) : Sizes(h)[k] = h[k].size /\ h[k].size \in Nat
<1>1. Len(h) \in Nat
  BY LenProperties
<1>2. \A k \in 1..Len(h) : h[k] \in SampleType
  BY ElementOfSeq
<1> QED
  BY <1>1, <1>2 DEF Sizes, SampleType

LEMMA BytesOfType ==
    ASSUME NEW h \in Seq(SampleType), NEW a \in Nat \ {0}, NEW b \in Int, b <= Len(h)
    PROVE  BytesOf(h, a, b) \in Nat
<1>1. \A k \in a..b : Sizes(h)[k] \in Nat
  BY SizesAre
<1>2. IsFiniteSet(a..b)
  BY IntervalFinite
<1> QED
  BY <1>1, <1>2, SumOfNats DEF BytesOf

LEMMA BytesOfNext ==
    ASSUME NEW h \in Seq(SampleType), NEW a \in Nat \ {0}, NEW k \in Nat, a <= k,
           k <= Len(h)
    PROVE  /\ BytesOf(h, a, k - 1) \in Nat /\ h[k].size \in Nat
           /\ BytesOf(h, a, k) = BytesOf(h, a, k - 1) + h[k].size
<1>1. PICK j \in Int : j = k - 1 /\ j + 1 = k /\ a <= j + 1 /\ j <= Len(h)
  <2>1. Len(h) \in Nat
    BY SizesAre
  <2> QED
    BY <2>1
<1>2. \A x \in a..(j + 1) : Sizes(h)[x] \in Int
  <2>1. \A x \in a..(j + 1) : x \in 1..Len(h)
    BY <1>1, SizesAre
  <2> QED
    BY <2>1, SizesAre
<1>3. BytesOf(h, a, j + 1) = BytesOf(h, a, j) + Sizes(h)[j + 1]
  <2>1. SumFunctionOnSet(Sizes(h), a..(j + 1))
        = SumFunctionOnSet(Sizes(h), a..j) + Sizes(h)[j + 1]
    BY <1>1, <1>2, SumToNext
  <2> QED
    BY <2>1 DEF BytesOf
<1>4. Sizes(h)[j + 1] = h[k].size /\ h[k].size \in Nat
  <2>1. k \in 1..Len(h)
    BY SizesAre
  <2> QED
    BY <1>1, <2>1, SizesAre
<1>5. BytesOf(h, a, j) \in Nat
  BY <1>1, BytesOfType
<1> QED
  BY <1>1, <1>3, <1>4, <1>5

LEMMA BytesOfGrows ==
    ASSUME NEW h \in Seq(SampleType), NEW a \in Nat \ {0}, NEW k \in Int, NEW j \in Int,
           k <= j, j <= Len(h)
    PROVE  BytesOf(h, a, k) <= BytesOf(h, a, j)
<1>1. \A x \in a..j : Sizes(h)[x] \in Nat
  <2>1. \A x \in a..j : x \in 1..Len(h)
    BY SizesAre
  <2> QED
    BY <2>1, SizesAre
<1> QED
  BY <1>1, SumGrows DEF BytesOf

\* Samples more do not change what the first ones are.
LEMMA BytesOfSame ==
    ASSUME NEW h \in Seq(SampleType), NEW g, Len(g) \in Nat, Len(h) <= Len(g),
           \A k \in 1..Len(h) : g[k].size = h[k].size,
           NEW a \in Nat \ {0}, NEW b \in Int, b <= Len(h)
    PROVE  BytesOf(g, a, b) = BytesOf(h, a, b)
<1>1. \A k \in 1..Len(h) : Sizes(h)[k] = h[k].size /\ h[k].size \in Int /\ Len(h) \in Nat
  BY SizesAre
<1>2. ASSUME NEW k \in a..b
      PROVE  Sizes(g)[k] = Sizes(h)[k] /\ Sizes(h)[k] \in Int
  <2>1. k \in 1..Len(h) /\ k \in 1..Len(g)
    BY SizesAre
  <2>2. Sizes(g)[k] = g[k].size
    BY <2>1 DEF Sizes
  <2> QED
    BY <1>1, <2>1, <2>2
<1>3. IsFiniteSet(a..b)
  BY IntervalFinite
<1> QED
  BY <1>2, <1>3, SumOfEqual DEF BytesOf

LEMMA HoldsNone ==
    ASSUME NEW t, NEW h, NEW a \in Int
    PROVE  HoldsPart(<< >>, t, h, a, a)
<1>1. a..(a - 1) = {} /\ a - 1 < a /\ a - 1 \in Int
  OBVIOUS
<1>2. BytesOf(h, a, a - 1) = 0
  BY <1>1, SumOfEmptyInterval DEF BytesOf
<1> QED
  BY <1>1, <1>2, EmptySeq DEF HoldsPart

LEMMA HoldsLater ==
    ASSUME NEW h \in Seq(SampleType), NEW g, Len(g) \in Nat, Len(h) <= Len(g),
           \A k \in 1..Len(h) : g[k].size = h[k].size,
           NEW a \in Nat \ {0}, NEW b \in Nat, b <= Len(h) + 1,
           NEW t, NEW bytes, HoldsPart(bytes, t, h, a, b)
    PROVE  HoldsPart(bytes, t, g, a, b)
<1>1. Len(h) \in Nat
  BY SizesAre
<1>2. BytesOf(g, a, b - 1) = BytesOf(h, a, b - 1)
  <2>1. b - 1 \in Int /\ b - 1 <= Len(h)
    BY <1>1
  <2> QED
    BY <2>1, BytesOfSame
<1>3. ASSUME NEW k \in a..(b - 1)
      PROVE  g[k].size = h[k].size /\ BytesOf(g, a, k - 1) = BytesOf(h, a, k - 1)
  <2>1. k \in 1..Len(h) /\ k - 1 \in Int /\ k - 1 <= Len(h)
    BY <1>1
  <2> QED
    BY <2>1, BytesOfSame
<1> QED
  BY <1>2, <1>3 DEF HoldsPart

\* The next sample is put behind those that are there.
LEMMA HoldsMore ==
    ASSUME NEW h \in Seq(SampleType), NEW x \in SampleType, NEW t \in Nat,
           NEW a \in Nat \ {0}, a <= Len(h) + 1,
           NEW bytes \in Seq(Byte), HoldsPart(bytes, t, h, a, Len(h) + 1)
    PROVE  HoldsPart(bytes \o Payload(t, Len(h) + 1, x.size), t, Append(h, x), a,
                     Len(h) + 1 + 1)
<1> DEFINE g == Append(h, x)
           p == Payload(t, Len(h) + 1, x.size)
           n == Len(h)
<1>1. n \in Nat
  BY SizesAre
<1>2. /\ g \in Seq(SampleType) /\ Len(g) = n + 1 /\ g[n + 1] = x
      /\ \A k \in 1..n : g[k] = h[k]
  BY AppendProperties
<1>3. x.size \in Nat
  BY DEF SampleType
<1>4. p \in Seq(Byte) /\ Len(p) = x.size /\ \A i \in 1..x.size : p[i] = << t, n + 1, i >>
  <2>1. p \in Seq(Byte)
    <3>1. n + 1 \in Nat
      BY <1>1
    <3> HIDE DEF n
    <3>2. PICK j \in Nat, size \in Nat : j = n + 1 /\ size = x.size
      BY <1>3, <3>1
    <3>3. Payload(t, j, size) \in Seq(Byte)
      BY PayloadType
    <3> QED
      BY <3>2, <3>3 DEF n
  <2>3. p = [i \in 1..x.size |-> << t, n + 1, i >>]
    BY DEF Payload
  <2>4. Len(p) = x.size
    <3>1. DOMAIN p = 1..Len(p) /\ Len(p) \in Nat
      BY <2>1, LenProperties
    <3>2. DOMAIN p = 1..x.size
      BY <2>3
    <3> HIDE DEF p
    <3> QED
      BY <1>3, <3>1, <3>2
  <2> QED
    BY <2>1, <2>3, <2>4
<1> HIDE DEF p
<1>5. HoldsPart(bytes, t, g, a, n + 1)
  <2>1. n + 1 \in Nat /\ n + 1 <= n + 1 /\ Len(g) \in Nat /\ n <= Len(g)
    BY <1>1, <1>2
  <2> HIDE DEF g
  <2> QED
    BY <1>2, <2>1, HoldsLater
<1> HIDE DEF g
<1>6. /\ BytesOf(g, a, n) \in Nat
      /\ BytesOf(g, a, n + 1) = BytesOf(g, a, n) + x.size
  <2>1. \A k \in a..(n + 1) : Sizes(g)[k] \in Int
    BY <1>1, <1>2, SizesAre
  <2>2. BytesOf(g, a, n + 1) = BytesOf(g, a, n) + Sizes(g)[n + 1]
    BY <1>1, <2>1, SumToNext DEF BytesOf
  <2>3. Sizes(g)[n + 1] = x.size
    <3>1. n + 1 \in 1..Len(g)
      BY <1>1, <1>2
    <3> QED
      BY <1>2, <3>1, SizesAre
  <2>4. BytesOf(g, a, n) \in Nat
    <3>1. n <= Len(g) /\ n \in Int
      BY <1>1, <1>2
    <3> QED
      BY <1>2, <3>1, BytesOfType
  <2> QED
    BY <2>2, <2>3, <2>4
<1>7. /\ Len(bytes) = BytesOf(g, a, n)
      /\ \A k \in a..n : \A i \in 1..g[k].size :
            bytes[BytesOf(g, a, k - 1) + i] = << t, k, i >>
  <2>1. n + 1 - 1 = n
    BY <1>1
  <2> QED
    BY <1>5, <2>1 DEF HoldsPart
<1>8. /\ Len(bytes \o p) = Len(bytes) + Len(p) /\ Len(bytes) \in Nat
      /\ \A i \in 1..Len(bytes) : (bytes \o p)[i] = bytes[i]
      /\ \A i \in 1..Len(p) : (bytes \o p)[Len(bytes) + i] = p[i]
  <2> DEFINE all == bytes \o p
  <2>1. /\ Len(all) = Len(bytes) + Len(p) /\ Len(bytes) \in Nat /\ Len(p) \in Nat
        /\ \A i \in 1..(Len(bytes) + Len(p)) :
              all[i] = IF i <= Len(bytes) THEN bytes[i] ELSE p[i - Len(bytes)]
    BY <1>4, LenProperties, ConcatProperties
  <2> HIDE DEF all
  <2>2. \A i \in 1..Len(bytes) : all[i] = bytes[i]
    BY <2>1
  <2>3. ASSUME NEW i \in 1..Len(p)
        PROVE  all[Len(bytes) + i] = p[i]
    <3>1. /\ Len(bytes) + i \in 1..(Len(bytes) + Len(p)) /\ ~(Len(bytes) + i <= Len(bytes))
          /\ Len(bytes) + i - Len(bytes) = i
      BY <2>1
    <3> QED
      BY <2>1, <3>1
  <2> QED
    BY <2>1, <2>2, <2>3 DEF all
<1>9. ASSUME NEW k \in a..n, NEW i \in 1..g[k].size
      PROVE  (bytes \o p)[BytesOf(g, a, k - 1) + i] = << t, k, i >>
  <2>1. k \in 1..Len(g) /\ k \in Nat
    BY <1>1, <1>2
  <2>2. g[k].size \in Nat /\ Sizes(g)[k] = g[k].size
    BY <1>2, <2>1, SizesAre
  <2>3. \A j \in a..n : Sizes(g)[j] \in Nat
    BY <1>1, <1>2, SizesAre
  <2>4. BytesOf(g, a, k - 1) \in Nat
    <3>1. PICK l \in Int : l = k - 1 /\ l <= Len(g)
      BY <2>1
    <3>2. BytesOf(g, a, l) \in Nat
      BY <1>2, <3>1, BytesOfType
    <3> QED
      BY <3>1, <3>2
  <2>5. BytesOf(g, a, k) = BytesOf(g, a, k - 1) + g[k].size
    <3>1. (k - 1) + 1 = k /\ k - 1 \in Int /\ a <= (k - 1) + 1
      BY <2>1
    <3>2. \A j \in a..((k - 1) + 1) : Sizes(g)[j] \in Int
      BY <1>1, <2>3, <3>1
    <3>3. BytesOf(g, a, (k - 1) + 1) = BytesOf(g, a, k - 1) + Sizes(g)[(k - 1) + 1]
      BY <3>1, <3>2, SumToNext DEF BytesOf
    <3> QED
      BY <2>2, <3>1, <3>3
  <2>6. BytesOf(g, a, k) <= BytesOf(g, a, n)
    BY <1>1, <2>1, <2>3, SumGrows DEF BytesOf
  <2>7. BytesOf(g, a, k - 1) + i \in 1..Len(bytes)
    <3>1. PICK u \in Nat, v \in Nat : u = BytesOf(g, a, k - 1) /\ v = g[k].size
      BY <2>2, <2>4
    <3>2. u + v <= Len(bytes)
      BY <1>7, <2>5, <2>6, <3>1
    <3>3. i \in 1..v
      BY <3>1
    <3> QED
      BY <1>8, <3>1, <3>2, <3>3
  <2> QED
    BY <1>7, <1>8, <2>7
<1>10. ASSUME NEW i \in 1..g[n + 1].size
       PROVE  (bytes \o p)[BytesOf(g, a, n) + i] = << t, n + 1, i >>
  <2>1. i \in 1..x.size
    BY <1>2
  <2> QED
    BY <1>4, <1>7, <1>8, <2>1
<1>11. ASSUME NEW k \in a..(n + 1), NEW i \in 1..g[k].size
       PROVE  (bytes \o p)[BytesOf(g, a, k - 1) + i] = << t, k, i >>
  <2>1. k \in a..n \/ k = n + 1
    BY <1>1
  <2>2. CASE k \in a..n
    BY <1>9, <2>2
  <2>3. CASE k = n + 1
    <3>1. k - 1 = n /\ i \in 1..g[n + 1].size
      BY <1>1, <2>3
    <3> QED
      BY <1>10, <2>3, <3>1
  <2> QED
    BY <2>1, <2>2, <2>3
<1>12. Len(bytes \o p) = BytesOf(g, a, n + 1)
  BY <1>4, <1>6, <1>7, <1>8
<1> DEFINE all == bytes \o p
           m == n + 1 + 1
<1>13. m - 1 = n + 1
  BY <1>1
<1> HIDE DEF m
<1>14. \A k \in a..(n + 1) : \A i \in 1..g[k].size :
          all[BytesOf(g, a, k - 1) + i] = << t, k, i >>
  BY <1>11
<1> HIDE DEF all
<1>15. HoldsPart(all, t, g, a, m)
  <2>1. Len(all) = BytesOf(g, a, n + 1)
    BY <1>12 DEF all
  <2> QED
    BY <1>13, <1>14, <2>1 DEF HoldsPart
<1> QED
  BY <1>15, Zenon DEF all, m, g, p

-----------------------------------------------------------------------------
(* The chunks and the buffer of a track, with the first samples as ghost.  *)

\* Chunk c of media m holds the samples of history h from first[c] up to the
\* next chunk, and the buffer the rest.
Ghost(m, t, h, first) ==
    LET n == Len(m.flushed)
    IN  /\ m.chunks.stsc \in Seq(StscType) /\ Len(m.chunks.stco) = n
        /\ Shaped(m.chunks.stsc, first, n)
        /\ first[n + 1] + m.buffer.samples = Len(h) + 1
        /\ \A c \in 1..n : HoldsPart(m.flushed[c], t, h, first[c], first[c + 1])
        /\ HoldsPart(m.buffer.bytes, t, h, first[n + 1], Len(h) + 1)

LEMMA GhostFirst ==
    ASSUME NEW m, IsMedia(m), NEW t, NEW h, NEW first, Ghost(m, t, h, first)
    PROVE  /\ Len(m.flushed) \in Nat
           /\ \A c \in 1..(Len(m.flushed) + 1) :
                 first[c] \in Nat \ {0} /\ first[c] <= first[Len(m.flushed) + 1]
           /\ first[Len(m.flushed) + 1] \in Nat \ {0}
<1>1. Len(m.flushed) \in Nat
  BY LenProperties DEF IsMedia
<1>2. Len(m.flushed) + 1 \in 1..(Len(m.flushed) + 1)
  BY <1>1
<1> QED
  BY <1>1, <1>2 DEF Ghost, Shaped

LEMMA GhostLater ==
    ASSUME NEW m, IsMedia(m), NEW t, NEW h \in Seq(SampleType), NEW first,
           Ghost(m, t, h, first), NEW g, Len(g) \in Nat, Len(h) <= Len(g),
           \A k \in 1..Len(h) : g[k].size = h[k].size
    PROVE  LET n == Len(m.flushed)
           IN  /\ \A c \in 1..n : HoldsPart(m.flushed[c], t, g, first[c], first[c + 1])
               /\ HoldsPart(m.buffer.bytes, t, g, first[n + 1], Len(h) + 1)
<1> DEFINE n == Len(m.flushed)
<1>1. /\ n \in Nat /\ first[n + 1] \in Nat \ {0}
      /\ \A c \in 1..(n + 1) : first[c] \in Nat \ {0} /\ first[c] <= first[n + 1]
  BY GhostFirst
<1>2. Len(h) \in Nat /\ m.buffer.samples \in Nat
  BY SizesAre DEF IsMedia, BufferType
<1>3. first[n + 1] + m.buffer.samples = Len(h) + 1
  BY DEF Ghost
<1>4. first[n + 1] <= Len(h) + 1
  BY <1>1, <1>2, <1>3
<1> HIDE DEF n
<1>5. ASSUME NEW c \in 1..n
      PROVE  HoldsPart(m.flushed[c], t, g, first[c], first[c + 1])
  <2>1. c \in 1..(n + 1) /\ c + 1 \in 1..(n + 1)
    BY <1>1
  <2>2. first[c] \in Nat \ {0} /\ first[c + 1] \in Nat /\ first[c + 1] <= first[n + 1]
    BY <1>1, <2>1
  <2>3. first[c + 1] <= Len(h) + 1
    BY <1>1, <1>2, <1>4, <2>2
  <2>4. HoldsPart(m.flushed[c], t, h, first[c], first[c + 1])
    BY DEF Ghost, n
  <2> QED
    BY <2>2, <2>3, <2>4, HoldsLater
<1>6. HoldsPart(m.buffer.bytes, t, h, first[n + 1], Len(h) + 1)
  BY DEF Ghost, n
<1>7. HoldsPart(m.buffer.bytes, t, g, first[n + 1], Len(h) + 1)
  <2>1. Len(h) + 1 \in Nat /\ Len(h) + 1 <= Len(h) + 1
    BY <1>2
  <2> QED
    BY <1>1, <1>6, <2>1, HoldsLater
<1> QED
  BY <1>5, <1>7 DEF n

\* Setting rendering offsets moves nothing.
LEMMA GhostSame ==
    ASSUME NEW m, IsMedia(m), NEW t, NEW h \in Seq(SampleType), NEW first,
           Ghost(m, t, h, first), NEW g, SameButOffsets(h, g)
    PROVE  Ghost(m, t, g, first)
<1>1. Len(g) = Len(h) /\ Len(h) \in Nat /\ \A k \in 1..Len(h) : g[k].size = h[k].size
  BY SizesAre DEF SameButOffsets
<1>2. LET n == Len(m.flushed)
      IN  /\ \A c \in 1..n : HoldsPart(m.flushed[c], t, g, first[c], first[c + 1])
          /\ HoldsPart(m.buffer.bytes, t, g, first[n + 1], Len(h) + 1)
  <2>1. Len(g) \in Nat /\ Len(h) <= Len(g)
    BY <1>1
  <2> QED
    BY <1>1, <2>1, GhostLater
<1> QED
  BY <1>1, <1>2 DEF Ghost

\* A sample goes to the buffer.
LEMMA GhostBuffered ==
    ASSUME NEW m, IsMedia(m), NEW t \in Nat, NEW h \in Seq(SampleType), NEW first,
           Ghost(m, t, h, first), NEW x \in SampleType, NEW b,
           b.chunks = m.chunks, b.flushed = m.flushed,
           b.buffer.bytes = m.buffer.bytes \o Payload(t, Len(h) + 1, x.size),
           b.buffer.samples = m.buffer.samples + 1
    PROVE  Ghost(b, t, Append(h, x), first)
<1> DEFINE n == Len(m.flushed)
           g == Append(h, x)
<1>1. Len(g) = Len(h) + 1 /\ Len(h) \in Nat /\ \A k \in 1..Len(h) : g[k] = h[k]
  BY SizesAre, AppendProperties
<1> HIDE DEF g
<1>2. \A c \in 1..n : HoldsPart(m.flushed[c], t, g, first[c], first[c + 1])
  <2>1. Len(g) \in Nat /\ Len(h) <= Len(g) /\ \A k \in 1..Len(h) : g[k].size = h[k].size
    BY <1>1
  <2> QED
    BY <2>1, GhostLater
<1>3. n \in Nat /\ first[n + 1] \in Nat \ {0} /\ m.buffer.samples \in Nat
  BY GhostFirst DEF IsMedia, BufferType
<1>4. first[n + 1] + m.buffer.samples = Len(h) + 1
  BY DEF Ghost
<1>5. first[n + 1] <= Len(h) + 1 /\ first[n + 1] + b.buffer.samples = Len(g) + 1
  BY <1>1, <1>3, <1>4
<1>6. HoldsPart(b.buffer.bytes, t, g, first[n + 1], Len(g) + 1)
  <2>1. HoldsPart(m.buffer.bytes, t, h, first[n + 1], Len(h) + 1)
    BY DEF Ghost
  <2>2. m.buffer.bytes \in Seq(Byte)
    BY DEF IsMedia, BufferType
  <2> HIDE DEF n
  <2>3. HoldsPart(m.buffer.bytes \o Payload(t, Len(h) + 1, x.size), t, Append(h, x),
                  first[n + 1], Len(h) + 1 + 1)
    BY <1>3, <1>5, <2>1, <2>2, HoldsMore
  <2> QED
    BY <1>1, <2>3 DEF g
<1> QED
  BY <1>2, <1>5, <1>6 DEF Ghost, g

\* A flushed buffer is the next chunk.
LEMMA GhostFlushed ==
    ASSUME NEW m, IsMedia(m), NEW t, NEW h \in Seq(SampleType), NEW first,
           Ghost(m, t, h, first), NEW id \in Int, m.buffer.bytes # << >>
    PROVE  /\ m.buffer.samples \in Nat \ {0}
           /\ Ghost(WriteChunkBuffer(m, id), t, h,
                    WithChunk(first, Len(m.flushed), m.buffer.samples))
<1> DEFINE n    == Len(m.flushed)
           s    == m.buffer.samples
           more == WithChunk(first, n, s)
           w    == WriteChunkBuffer(m, id)
           stsc == UpdateSampleToChunk(m.chunks.stsc, id, n + 1, s)
<1>1. /\ n \in Nat /\ first[n + 1] \in Nat \ {0}
  BY GhostFirst
<1>2. /\ m.chunks.stsc \in Seq(StscType) /\ Len(m.chunks.stco) = n
      /\ Shaped(m.chunks.stsc, first, n)
      /\ first[n + 1] + s = Len(h) + 1
      /\ \A c \in 1..n : HoldsPart(m.flushed[c], t, h, first[c], first[c + 1])
      /\ HoldsPart(m.buffer.bytes, t, h, first[n + 1], Len(h) + 1)
  BY DEF Ghost
<1>3. /\ m.buffer.bytes \in Seq(Byte) /\ s \in Nat /\ m.flushed \in Seq(Seq(Byte))
      /\ m.chunks.stco \in Seq(Nat) /\ m.file.pos \in Nat /\ Len(h) \in Nat
  BY SizesAre DEF IsMedia, BufferType, FileType
<1>4. s \in Nat \ {0}
  <2> SUFFICES ASSUME s = 0 PROVE FALSE
    BY <1>3
  <2>1. first[n + 1] = Len(h) + 1
    BY <1>1, <1>2, <1>3
  <2>2. Len(m.buffer.bytes) = BytesOf(h, Len(h) + 1, Len(h) + 1 - 1)
    BY <1>2, <2>1 DEF HoldsPart
  <2>3. Len(h) + 1 - 1 < Len(h) + 1 /\ Len(h) + 1 - 1 \in Int /\ Len(h) + 1 \in Int
    BY <1>3
  <2>4. Len(m.buffer.bytes) = 0
    BY <2>2, <2>3, SumOfEmptyInterval DEF BytesOf
  <2> QED
    BY <1>3, <2>4, EmptySeq
<1>5. /\ w.chunks.stsc = UpdateSampleToChunk(m.chunks.stsc, id, Len(m.chunks.stco) + 1, s)
      /\ w.chunks.stco = Append(m.chunks.stco, m.file.pos)
      /\ w.buffer = EmptyBuffer /\ w.flushed = Append(m.flushed, m.buffer.bytes)
  BY DEF WriteChunkBuffer
<1>6. w.chunks.stsc = stsc
  BY <1>2, <1>5
<1>7. Len(w.flushed) = n + 1 /\ w.flushed[n + 1] = m.buffer.bytes
      /\ \A c \in 1..n : w.flushed[c] = m.flushed[c]
  BY <1>3, <1>5, AppendProperties
<1>8. Len(w.chunks.stco) = n + 1
  BY <1>2, <1>3, <1>5, AppendProperties, SMTT(30)
<1> HIDE DEF w
<1>9. /\ more[n + 1 + 1] = first[n + 1] + s
      /\ \A c \in 1..(n + 1) : more[c] = first[c]
  <2> HIDE DEF n, s
  <2>1. Lengthened(more, first, n, s)
    BY <1>1, <1>2, <1>4, WithChunkIs
  <2> HIDE DEF more
  <2> QED
    BY <2>1 DEF Lengthened
<1>10. Shaped(stsc, more, n + 1)
  BY <1>1, <1>2, <1>4, ChunkAdded
<1>11. stsc \in Seq(StscType)
  <2> DEFINE e == [firstChunk |-> n + 1, samplesPerChunk |-> s, firstSample |-> id - s + 1]
  <2>1. e \in StscType
    BY <1>1, <1>4 DEF StscType
  <2>2. stsc = m.chunks.stsc \/ stsc = Append(m.chunks.stsc, e)
    BY DEF UpdateSampleToChunk
  <2> HIDE DEF stsc, e
  <2>3. Append(m.chunks.stsc, e) \in Seq(StscType)
    BY <1>2, <2>1, AppendProperties
  <2> QED
    BY <1>2, <2>2, <2>3
<1> HIDE DEF stsc, more
<1>12. more[n + 1 + 1] = Len(h) + 1
  BY <1>2, <1>9
<1>13. \A c \in 1..(n + 1) : HoldsPart(w.flushed[c], t, h, more[c], more[c + 1])
  <2> SUFFICES ASSUME NEW c \in 1..(n + 1)
               PROVE  HoldsPart(w.flushed[c], t, h, more[c], more[c + 1])
    OBVIOUS
  <2>1. CASE c \in 1..n
    <3>1. c + 1 \in 1..(n + 1)
      BY <1>1, <2>1
    <3> QED
      BY <1>2, <1>7, <1>9, <2>1, <3>1
  <2>2. CASE c = n + 1
    <3>1. more[c] = first[n + 1] /\ more[c + 1] = Len(h) + 1
      BY <1>9, <1>12, <2>2
    <3> QED
      BY <1>2, <1>7, <2>2, <3>1
  <2>3. c \in 1..n \/ c = n + 1
    BY <1>1
  <2> QED
    BY <2>1, <2>2, <2>3
<1>14. w.buffer.bytes = << >> /\ w.buffer.samples = 0
  BY <1>5 DEF EmptyBuffer
<1>15. HoldsPart(w.buffer.bytes, t, h, more[n + 1 + 1], Len(h) + 1)
  BY <1>3, <1>12, <1>14, HoldsNone
<1>16. more[n + 1 + 1] + w.buffer.samples = Len(h) + 1
  BY <1>3, <1>12, <1>14
<1>17. Ghost(w, t, h, more)
  BY <1>6, <1>7, <1>8, <1>10, <1>11, <1>13, <1>15, <1>16 DEF Ghost
<1> QED
  BY <1>4, <1>17 DEF w, more

\* Opening a file reads back the table of chunks; it had no buffer left.
LEMMA GhostReread ==
    ASSUME NEW m, IsMedia(m), NEW t, NEW h \in Seq(SampleType), NEW first,
           Ghost(m, t, h, first), m.buffer.samples = 0, NEW b,
           b.chunks = Reread(m.chunks), b.flushed = m.flushed, b.buffer = EmptyBuffer
    PROVE  Ghost(b, t, h, first) /\ Starts(b.chunks.stsc, first)
<1> DEFINE n == Len(m.flushed)
<1>1. n \in Nat /\ first[n + 1] \in Nat \ {0} /\ Len(h) \in Nat
  BY GhostFirst, SizesAre
<1>2. first[n + 1] = Len(h) + 1
  BY <1>1 DEF Ghost
<1>3. b.chunks.stsc = ReadStsc(m.chunks.stsc) /\ b.chunks.stco = m.chunks.stco
  BY DEF Reread
<1>4. /\ b.chunks.stsc \in Seq(StscType) /\ Shaped(b.chunks.stsc, first, n)
      /\ Starts(b.chunks.stsc, first)
  BY <1>1, <1>3, ReadStscStarts DEF Ghost
<1>5. b.buffer.bytes = << >> /\ b.buffer.samples = 0
  BY DEF EmptyBuffer
<1>6. HoldsPart(b.buffer.bytes, t, h, first[n + 1], Len(h) + 1)
  BY <1>1, <1>2, <1>5, HoldsNone
<1>7. first[n + 1] + b.buffer.samples = Len(h) + 1
  BY <1>1, <1>2, <1>5
<1> QED
  BY <1>3, <1>4, <1>6, <1>7 DEF Ghost

-----------------------------------------------------------------------------
(* Every step keeps the chunks and the buffer as the tables say.           *)

OfSamples(h) == \A k \in 1..Len(h) : \E s \in Samples : h[k].size = s.size

NoEmptySamples == \A s \in Samples : s.size # 0

\* Chunks of empty samples are never written (WriteChunkBuffer returns early),
\* MP4Modify then forgets them: from then on the tables are wrong about them.
ShapeOf(t) ==
    /\ OfSamples(hist[t])
    /\ session = 1 \/ NoEmptySamples => \E first : Ghost(Media(t), t, hist[t], first)

ShapeInv == \A t \in Tracks : ShapeOf(t)

LEMMA BecameGhost ==
    ASSUME NEW t, NEW m, Became(t, m), NEW h, NEW first, Ghost(m, t, h, first), hist'[t] = h
    PROVE  Ghost(Media(t), t, hist[t], first)'
<1>1. Media(t)'.chunks = m.chunks /\ Media(t)'.buffer = m.buffer /\ Media(t)'.flushed = m.flushed
  BY DEF Became, Media
<1>2. Ghost(Media(t)', t, hist'[t], first)
  BY <1>1 DEF Ghost
<1> QED
  BY <1>2

LEMMA SizesOfSamples ==
    ASSUME NEW h \in Seq(SampleType), OfSamples(h), NoEmptySamples, NEW k \in 1..Len(h)
    PROVE  h[k].size \in Nat \ {0}
BY SizesAre DEF OfSamples, NoEmptySamples

LEMMA OfSamplesStep ==
    ASSUME IInv, NEW t \in Tracks, MediaStep(t), OfSamples(hist[t])
    PROVE  OfSamples(hist'[t])
<1>1. hist[t] \in Seq(SampleType)
  BY DEF IInv, StateType, WriterType
<1>2. CASE Stays(t)
  BY <1>2 DEF Stays, SameButOffsets, OfSamples
<1>3. CASE Flushes(t) \/ Reopens(t)
  BY <1>3 DEF Flushes, Reopens
<1>4. CASE \E s \in Written(t) : Writes(t, s)
  <2>1. PICK s \in Written(t) : Writes(t, s)
    BY <1>4
  <2> DEFINE h == hist[t]
             x == SampleOf(t, s)
  <2>2. s \in Samples /\ x.size = s.size /\ x \in SampleType
    BY WrittenType, DurationType DEF SampleOf, IInv, StateType, Written
  <2>3. hist'[t] = Append(h, x)
    BY <2>1 DEF Writes
  <2> HIDE DEF x, h
  <2>4. /\ Len(hist'[t]) = Len(h) + 1 /\ hist'[t][Len(h) + 1] = x /\ Len(h) \in Nat
        /\ \A k \in 1..Len(h) : hist'[t][k] = h[k]
    BY <1>1, <2>2, <2>3, AppendProperties, LenProperties DEF h
  <2>5. \A k \in 1..Len(hist'[t]) : k \in 1..Len(h) \/ k = Len(h) + 1
    BY <2>4
  <2>6. OfSamples(h)
    BY DEF h
  <2> QED
    BY <2>2, <2>4, <2>5, <2>6 DEF OfSamples
<1> QED
  BY <1>2, <1>3, <1>4 DEF MediaStep

\* A buffer without bytes holds no samples, if samples have bytes.
LEMMA EmptyHoldsNone ==
    ASSUME NEW m, IsMedia(m), NEW t, NEW h \in Seq(SampleType), NEW first,
           Ghost(m, t, h, first), OfSamples(h), NoEmptySamples, m.buffer.bytes = << >>
    PROVE  m.buffer.samples = 0
<1> DEFINE n == Len(m.flushed)
           a == first[n + 1]
<1>1. a \in Nat \ {0} /\ Len(h) \in Nat /\ m.buffer.samples \in Nat
  BY GhostFirst, SizesAre DEF IsMedia, BufferType
<1>2. a + m.buffer.samples = Len(h) + 1
  BY DEF Ghost
<1>3. Len(m.buffer.bytes) = BytesOf(h, a, Len(h) + 1 - 1)
  BY DEF Ghost, HoldsPart
<1> HIDE DEF a
<1>4. Len(h) + 1 - 1 = Len(h)
  BY <1>1
<1>5. BytesOf(h, a, Len(h)) = 0
  <2>1. Len(m.buffer.bytes) = 0
    BY EmptySeq
  <2> QED
    BY <1>3, <1>4, <2>1
<1>6. ASSUME a <= Len(h)
      PROVE  FALSE
  <2>1. a \in Nat \ {0} /\ a \in Nat /\ a <= Len(h) /\ a <= a /\ a \in 1..Len(h)
    BY <1>1, <1>6
  <2>2. BytesOf(h, a, a) <= BytesOf(h, a, Len(h))
    BY <1>1, <2>1, BytesOfGrows
  <2>3. /\ BytesOf(h, a, a - 1) \in Nat
        /\ BytesOf(h, a, a) = BytesOf(h, a, a - 1) + h[a].size
    BY <2>1, BytesOfNext
  <2>4. h[a].size \in Nat \ {0}
    BY <2>1, SizesOfSamples
  <2> QED
    BY <1>5, <2>2, <2>3, <2>4
<1> QED
  BY <1>1, <1>2, <1>6

\* The ghost of a flushed track.
AfterFlush(m, first) ==
    IF m.buffer.bytes = << >> THEN first
    ELSE WithChunk(first, Len(m.flushed), m.buffer.samples)

LEMMA GhostFlush ==
    ASSUME NEW m, IsMedia(m), NEW t, NEW h \in Seq(SampleType), NEW first,
           Ghost(m, t, h, first), NEW id \in Int
    PROVE  Ghost(WriteChunkBuffer(m, id), t, h, AfterFlush(m, first))
<1>1. CASE m.buffer.bytes = << >>
  BY <1>1 DEF WriteChunkBuffer, AfterFlush
<1>2. CASE m.buffer.bytes # << >>
  BY <1>2, GhostFlushed DEF AfterFlush
<1> QED
  BY <1>1, <1>2

\* The ghost of a track with one more sample in its buffer.
LEMMA GhostAfterSample ==
    ASSUME IInv, NEW t \in Tracks, NEW s \in Written(t), NEW first,
           Ghost(Media(t), t, hist[t], first)
    PROVE  Ghost(Buffered(t, s), t, Append(hist[t], SampleOf(t, s)),
                 IF ModeChanges(t, s) THEN AfterFlush(Media(t), first) ELSE first)
<1> DEFINE m == ModeFlushed(t, s)
           h == hist[t]
           x == SampleOf(t, s)
           g == IF ModeChanges(t, s) THEN AfterFlush(Media(t), first) ELSE first
           b == Buffered(t, s)
<1>1. h \in Seq(SampleType) /\ writeId[t] \in Int /\ t \in Nat
  BY CountsAssumption DEF IInv, StateType, WriterType, Tracks
<1>2. x \in SampleType /\ x.size = s.size
  BY WrittenType, DurationType DEF SampleOf, IInv, StateType
<1>3. IsMedia(Media(t))
  BY MediaIsMedia DEF IInv, StateType
<1>4. Ghost(m, t, h, g)
  <2>1. CASE ModeChanges(t, s)
    BY <1>1, <1>3, <2>1, GhostFlush DEF ModeFlushed
  <2>2. CASE ~ModeChanges(t, s)
    BY <2>2 DEF ModeFlushed
  <2> QED
    BY <2>1, <2>2
<1>5. /\ IsMedia(m) /\ b.chunks = m.chunks /\ b.flushed = m.flushed
      /\ b.buffer = [bytes    |-> m.buffer.bytes \o Payload(t, Len(h) + 1, s.size),
                     samples  |-> m.buffer.samples + 1,
                     duration |-> m.buffer.duration + Duration(t, s)]
  BY BufferedIs
<1> HIDE DEF m, h, x, g, b
<1>6. /\ b.buffer.bytes = m.buffer.bytes \o Payload(t, Len(h) + 1, x.size)
      /\ b.buffer.samples = m.buffer.samples + 1
  <2> DEFINE p == m.buffer.bytes \o Payload(t, Len(h) + 1, s.size)
  <2>1. p = m.buffer.bytes \o Payload(t, Len(h) + 1, x.size)
    BY <1>2
  <2>2. b.buffer = [bytes |-> p, samples |-> m.buffer.samples + 1,
                    duration |-> m.buffer.duration + Duration(t, s)]
    BY <1>5
  <2> HIDE DEF p
  <2>3. b.buffer.bytes = p
    BY <2>2
  <2>4. b.buffer.samples = m.buffer.samples + 1
    BY <2>2
  <2> QED
    BY <2>1, <2>3, <2>4
<1>7. Ghost(b, t, Append(h, x), g)
  BY <1>1, <1>2, <1>4, <1>5, <1>6, GhostBuffered
<1> QED
  BY <1>7 DEF b, h, x, g

LEMMA StepGhost ==
    ASSUME IInv, AllFlushed, NEW t \in Tracks, MediaStep(t), NEW first,
           Ghost(Media(t), t, hist[t], first), OfSamples(hist[t]),
           Reopens(t) => NoEmptySamples
    PROVE  \E g : Ghost(Media(t), t, hist[t], g)'
<1>1. /\ hist[t] \in Seq(SampleType) /\ writeId[t] \in Int
      /\ IsMedia(Media(t)) /\ Media(t).buffer = buffer[t] /\ Media(t).chunks = chunks[t]
      /\ Media(t).flushed = flushed[t]
  BY MediaIsMedia DEF IInv, StateType, WriterType
<1>2. CASE Stays(t)
  <2>1. Ghost(Media(t), t, hist'[t], first)
    BY <1>1, <1>2, GhostSame DEF Stays
  <2>2. Ghost(Media(t), t, hist[t], first)'
    BY <1>2, <2>1, BecameGhost DEF Stays
  <2> QED
    BY <2>2
<1>3. CASE Flushes(t)
  <2> DEFINE g == AfterFlush(Media(t), first)
  <2>1. Ghost(WriteChunkBuffer(Media(t), writeId[t]), t, hist'[t], g)
    BY <1>1, <1>3, GhostFlush DEF Flushes
  <2> HIDE DEF g
  <2>2. PICK f : Ghost(WriteChunkBuffer(Media(t), writeId[t]), t, hist'[t], f)
    BY <2>1
  <2>3. Ghost(Media(t), t, hist[t], f)'
    BY <1>3, <2>2, BecameGhost DEF Flushes
  <2> QED
    BY <2>3
<1>4. CASE Reopens(t)
  <2>1. buffer[t].bytes = << >>
    BY <1>4, CountsAssumption DEF Reopens, AllFlushed, Tracks
  <2>2. Media(t).buffer.samples = 0
    BY <1>1, <1>4, <2>1, EmptyHoldsNone
  <2> DEFINE m == [Media(t) EXCEPT !.buffer = EmptyBuffer, !.chunks = Reread(chunks[t])]
  <2>3. /\ m.flushed = Media(t).flushed /\ m.buffer = EmptyBuffer
        /\ m.chunks = Reread(chunks[t])
    BY <1>1 DEF Media
  <2> HIDE DEF m
  <2>4. Ghost(m, t, hist[t], first)
    BY <1>1, <2>2, <2>3, GhostReread
  <2>5. Became(t, m) /\ hist'[t] = hist[t]
    BY <1>1, <1>4, <2>3 DEF Became, Reopens
  <2>6. Ghost(Media(t), t, hist[t], first)'
    BY <2>4, <2>5, BecameGhost
  <2> QED
    BY <2>6
<1>5. CASE \E s \in Written(t) : Writes(t, s)
  <2>1. PICK s \in Written(t) : Writes(t, s)
    BY <1>5
  <2>2. \E g : Ghost(Buffered(t, s), t, Append(hist[t], SampleOf(t, s)), g)
    BY GhostAfterSample
  <2>3. PICK g : Ghost(Buffered(t, s), t, hist'[t], g)
    BY <2>1, <2>2 DEF Writes
  <2>4. IsMedia(Buffered(t, s))
    BY BufferedIs
  <2>5. hist'[t] \in Seq(SampleType)
    <3>1. SampleOf(t, s) \in SampleType
      BY WrittenType, DurationType DEF SampleOf, IInv, StateType
    <3> QED
      BY <1>1, <2>1, <3>1, AppendProperties DEF Writes
  <2>6. \E f : Ghost(WriteChunkBuffer(Buffered(t, s), writeId[t]), t, hist'[t], f)
    BY <1>1, <2>3, <2>4, <2>5, GhostFlush
  <2>7. PICK f : Ghost(WriteChunkBuffer(Buffered(t, s), writeId[t]), t, hist'[t], f)
    BY <2>6
  <2>8. CASE Became(t, Buffered(t, s))
    <3>1. Ghost(Media(t), t, hist[t], g)'
      BY <2>3, <2>8, BecameGhost
    <3> QED
      BY <3>1
  <2>9. CASE Became(t, WriteChunkBuffer(Buffered(t, s), writeId[t]))
    <3>1. Ghost(Media(t), t, hist[t], f)'
      BY <2>7, <2>9, BecameGhost
    <3> QED
      BY <3>1
  <2> QED
    BY <2>1, <2>8, <2>9 DEF Writes
<1> QED
  BY <1>2, <1>3, <1>4, <1>5 DEF MediaStep

LEMMA ClosedStep ==
    ASSUME phase = "closed", [Next]_vars
    PROVE  Modify \/ UNCHANGED vars
BY DEF Next, CanWrite, WriteSample, WriteSampleThrows, ModeFlushThrows,
       SetDurationPerChunk, ReadSample, ReadSampleThrows, LookUpSample, SetOffset,
       FinishTrack, FinishTrackThrows, FinishFile

\* A session that is not the first starts by reopening a file.
LEMMA SessionGrows ==
    ASSUME IInv, [Next]_vars
    PROVE  /\ session' = 1 => session = 1
           /\ session' = 1 => ~Modify
           /\ session' = session \/ Modify
<1>1. session \in Nat \ {0}
  BY CountsAssumption DEF IInv, StateType, WriterType
<1>2. session' = session \/ Modify
  BY ZenonT(30) DEF Next, vars, call, durations, WriteSample, WriteSampleThrows, ModeFlushThrows,
         SetDurationPerChunk, ReadSample, ReadSampleThrows, LookUpSample, SetOffset,
         FinishTrack, FinishTrackThrows, FinishFile
<1> QED
  BY <1>1, <1>2 DEF Modify

LEMMA NextShapeInv == IInv /\ AllFlushed /\ ShapeInv /\ [Next]_vars => ShapeInv'
<1> SUFFICES ASSUME IInv, AllFlushed, ShapeInv, [Next]_vars, NEW t \in Tracks
             PROVE  ShapeOf(t)'
  BY DEF ShapeInv
<1>1. MediaStep(t)
  BY EveryStep
<1>2. ShapeOf(t)
  BY DEF ShapeInv
<1>3. OfSamples(hist[t])'
  <2>1. OfSamples(hist'[t])
    BY <1>1, <1>2, OfSamplesStep DEF ShapeOf
  <2> QED
    BY <2>1 DEF OfSamples
<1>4. ASSUME session' = 1 \/ NoEmptySamples
      PROVE  \E first : Ghost(Media(t), t, hist[t], first)'
  <2>1. session = 1 \/ NoEmptySamples
    BY <1>4, SessionGrows
  <2>2. PICK first : Ghost(Media(t), t, hist[t], first)
    BY <1>2, <2>1 DEF ShapeOf
  <2>3. CASE UNCHANGED vars
    <3>1. Became(t, Media(t)) /\ hist'[t] = hist[t]
      BY <2>3 DEF vars, Became, Media
    <3>2. Ghost(Media(t), t, hist[t], first)'
      BY <2>2, <3>1, BecameGhost
    <3> QED
      BY <3>2
  <2>4. CASE ~UNCHANGED vars
    <3>1. Reopens(t) => NoEmptySamples
      BY <1>4, <2>4, ClosedStep, SessionGrows DEF Reopens
    <3> QED
      BY <1>1, <1>2, <2>2, <3>1, StepGhost DEF ShapeOf
  <2> QED
    BY <2>3, <2>4
<1> QED
  BY <1>3, <1>4 DEF ShapeOf, NoEmptySamples

LEMMA InitShapeInv == Init => ShapeInv
<1> SUFFICES ASSUME Init, NEW t \in Tracks
             PROVE  ShapeOf(t)
  BY DEF ShapeInv
<1> DEFINE one == [c \in 1..1 |-> 1]
           m == Media(t)
<1>1. /\ m.flushed = << >> /\ m.buffer.bytes = << >> /\ m.buffer.samples = 0
      /\ m.chunks.stsc = << >> /\ m.chunks.stco = << >> /\ hist[t] = << >>
  BY DEF Init, Media, EmptyBuffer
<1>2. Len(<< >>) = 0 /\ << >> \in Seq(StscType)
  BY EmptySeq
<1>3. one[0 + 1] = 1
  OBVIOUS
<1>4. Shaped(<< >>, one, 0)
  BY NoChunks
<1>5. HoldsPart(<< >>, t, << >>, 1, 1)
  BY HoldsNone
<1> HIDE DEF m, one
<1>6. Ghost(m, t, << >>, one)
  <2>1. /\ Len(m.flushed) = 0 /\ 1..0 = {} /\ 0 + 1 = 1 /\ 1 + 0 = 0 + 1
        /\ Len(m.chunks.stco) = 0
    BY <1>1, <1>2
  <2> QED
    BY <1>1, <1>2, <1>3, <1>4, <1>5, <2>1 DEF Ghost
<1>7. OfSamples(<< >>)
  BY <1>2 DEF OfSamples
<1> QED
  BY <1>1, <1>6, <1>7 DEF ShapeOf, m

-----------------------------------------------------------------------------
(* What GetSampleFileOffset answers.                                       *)

\* Location loc, left by an earlier call, is that of a sample in a chunk.
Cached(loc, first, n, h) ==
    \/ loc.chunk = 0
    \/ /\ loc.chunk \in 1..n /\ loc.sid \in Nat
       /\ first[loc.chunk] <= loc.sid /\ loc.sid < first[loc.chunk + 1]
       /\ loc.offset = BytesOf(h, first[loc.chunk], loc.sid - 1)

\* The bytes between two samples, summed one by one.
LEMMA SumFrom ==
    ASSUME NEW h \in Seq(SampleType), NEW a \in Nat \ {0}, NEW f \in Nat,
           a <= f, NEW k \in Nat, f <= k, k <= Len(h),
           NEW g, DOMAIN g = f..(k - 1), \A s \in f..(k - 1) : g[s] = h[s].size
    PROVE  BytesOf(h, a, f - 1) + SumFunction(g) = BytesOf(h, a, k - 1)
<1>1. Len(h) \in Nat /\ \A s \in f..(k - 1) : s \in 1..Len(h)
  BY SizesAre
<1>2. \A s \in f..(k - 1) : g[s] = Sizes(h)[s] /\ Sizes(h)[s] \in Int
  BY <1>1, SizesAre
<1>4. SumFunction(g) = SumFunctionOnSet(Sizes(h), f..(k - 1))
  <2>1. IsFiniteSet(f..(k - 1))
    BY IntervalFinite
  <2>2. SumFunctionOnSet(g, f..(k - 1)) = SumFunctionOnSet(Sizes(h), f..(k - 1))
    BY <1>2, <2>1, SumOfEqual
  <2> QED
    BY <2>2 DEF SumFunction
<1>5. \A s \in a..(k - 1) : Sizes(h)[s] \in Int
  <2>1. \A s \in a..(k - 1) : s \in 1..Len(h)
    BY <1>1
  <2> QED
    BY <2>1, SizesAre
<1>6. SumFunctionOnSet(Sizes(h), a..(k - 1))
      = SumFunctionOnSet(Sizes(h), a..(f - 1)) + SumFunctionOnSet(Sizes(h), f..(k - 1))
  <2>1. PICK e \in Int, j \in Int : /\ e = f - 1 /\ j = k - 1 /\ e + 1 = f
                                    /\ a <= e + 1 /\ e <= j
    OBVIOUS
  <2>2. \A s \in a..j : Sizes(h)[s] \in Int
    BY <1>5, <2>1
  <2>3. SumFunctionOnSet(Sizes(h), a..j)
        = SumFunctionOnSet(Sizes(h), a..e) + SumFunctionOnSet(Sizes(h), (e + 1)..j)
    BY <2>1, <2>2, SumOfParts
  <2> QED
    BY <2>1, <2>3
<1> QED
  BY <1>4, <1>6 DEF BytesOf

\* Where GetSampleFileOffset looks for sample k: in chunk q, behind the bytes of
\* the samples before it.
PlaceOf(c, q, first, h, k) == c.stco[q] + BytesOf(h, first[q], k - 1)

\* What it answers then, and the location it leaves.
LocatedIn(got, c, q, first, h, k, fileSize) ==
    /\ first[q] <= k /\ k < first[q + 1]
    /\ got = [at    |-> IF PlaceOf(c, q, first, h, k) > fileSize THEN THROWN
                        ELSE PlaceOf(c, q, first, h, k),
              cache |-> [chunk |-> q, sid |-> k, offset |-> BytesOf(h, first[q], k - 1)]]

LEMMA SampleLocated ==
    ASSUME NEW c, c.stsc \in Seq(StscType), NEW n \in Nat, Len(c.stco) = n,
           NEW first, Shaped(c.stsc, first, n), Starts(c.stsc, first),
           NEW h \in Seq(SampleType), NEW z,
           \A s \in 1..Len(h) : GetSampleSize(z, s, BytesPerSample) = h[s].size,
           NEW loc, Cached(loc, first, n, h),
           NEW k \in 1..Len(h), k < first[n + 1], NEW fileSize
    PROVE  \E q \in 1..n :
              LocatedIn(GetSampleFileOffset(c, z, loc, k, BytesPerSample, fileSize),
                        c, q, first, h, k, fileSize)
<1> DEFINE index == GetSampleStscIndex(c.stsc, k)
           entry == c.stsc[index]
           nth   == k - entry.firstSample
           q     == entry.firstChunk + nth \div entry.samplesPerChunk
           place == nth % entry.samplesPerChunk
           hit   == LocatedBefore(loc, q, k)
           from  == IF hit THEN loc.sid ELSE k - place
           size(s) == GetSampleSize(z, s, BytesPerSample)
           g     == [s \in from..(k - 1) |-> size(s)]
           offset == (IF hit THEN loc.offset ELSE 0) + SumFunction(g)
           at    == c.stco[q] + offset
           got   == GetSampleFileOffset(c, z, loc, k, BytesPerSample, fileSize)
           failed == [at |-> THROWN, cache |-> loc]
<1>1. Len(h) \in Nat /\ k \in Nat \ {0} /\ k <= Len(h)
  BY SizesAre
<1>2. index # THROWN /\ InChunk(first, n, q, k, place)
  BY <1>1, ChunkOfSample
<1>3. got = IF index = THROWN THEN failed
            ELSE IF q \notin 1..Len(c.stco) THEN failed
            ELSE IF \E s \in from..(k - 1) : size(s) = THROWN THEN failed
            ELSE [at |-> IF at > fileSize THEN THROWN ELSE at,
                  cache |-> [chunk |-> q, sid |-> k, offset |-> offset]]
  BY DEF GetSampleFileOffset
<1>4. DOMAIN g = from..(k - 1) /\ \A s \in from..(k - 1) : g[s] = size(s)
  OBVIOUS
<1> HIDE DEF got, failed, g, index
<1>5. /\ q \in 1..n /\ first[q] = k - place /\ first[q] <= k /\ k < first[q + 1]
      /\ first[q] \in Nat \ {0}
  <2>1. q \in 1..n /\ first[q] = k - place /\ first[q] <= k /\ k < first[q + 1]
    BY <1>2 DEF InChunk
  <2> HIDE DEF q
  <2>2. q \in 1..(n + 1)
    BY <2>1
  <2>3. first[q] \in Nat \ {0}
    BY <2>2 DEF Shaped
  <2> QED
    BY <2>1, <2>3
<1> HIDE DEF q, place
<1>6. /\ from \in Nat /\ first[q] <= from /\ from <= k
      /\ (IF hit THEN loc.offset ELSE 0) = BytesOf(h, first[q], from - 1)
  <2>1. CASE hit
    <3>1. loc.chunk = q /\ loc.sid <= k /\ from = loc.sid
      BY <2>1 DEF LocatedBefore
    <3>2. loc.chunk # 0
      BY <1>5, <3>1
    <3>3. loc.sid \in Nat /\ first[q] <= loc.sid /\ loc.offset = BytesOf(h, first[q], loc.sid - 1)
      BY <3>1, <3>2 DEF Cached
    <3> QED
      BY <2>1, <3>1, <3>3
  <2>2. CASE ~hit
    <3>1. from = first[q]
      BY <1>5, <2>2
    <3>2. first[q] - 1 < first[q] /\ first[q] - 1 \in Int /\ first[q] \in Int
      BY <1>5
    <3>3. BytesOf(h, first[q], first[q] - 1) = 0
      BY <3>2, SumOfEmptyInterval DEF BytesOf
    <3> HIDE DEF from
    <3> QED
      BY <1>5, <2>2, <3>1, <3>3
  <2> QED
    BY <2>1, <2>2
<1>7. \A s \in from..(k - 1) : size(s) = h[s].size /\ size(s) # THROWN
  <2> SUFFICES ASSUME NEW s \in from..(k - 1)
               PROVE  size(s) = h[s].size /\ size(s) # THROWN
    OBVIOUS
  <2>1. s \in 1..Len(h)
    BY <1>1, <1>5, <1>6
  <2>2. size(s) = h[s].size /\ h[s].size \in Nat
    BY <2>1, SizesAre
  <2> QED
    BY <2>2 DEF THROWN
<1> HIDE DEF hit, from, size
<1>8. offset = BytesOf(h, first[q], k - 1)
  <2>1. BytesOf(h, first[q], from - 1) + SumFunction(g) = BytesOf(h, first[q], k - 1)
    <3>1. \A s \in from..(k - 1) : g[s] = h[s].size
      BY <1>4, <1>7
    <3>2. k \in Nat /\ first[q] \in Nat \ {0}
      BY <1>1, <1>5
    <3> QED
      BY <1>1, <1>4, <1>6, <3>1, <3>2, SumFrom
  <2> QED
    BY <1>6, <2>1
<1>9. got = [at |-> IF at > fileSize THEN THROWN ELSE at,
             cache |-> [chunk |-> q, sid |-> k, offset |-> offset]]
  BY <1>2, <1>3, <1>5, <1>7
<1>10. at = PlaceOf(c, q, first, h, k)
  BY <1>8 DEF PlaceOf
<1> HIDE DEF at, offset
<1>11. got = [at    |-> IF PlaceOf(c, q, first, h, k) > fileSize THEN THROWN
                        ELSE PlaceOf(c, q, first, h, k),
              cache |-> [chunk |-> q, sid |-> k, offset |-> BytesOf(h, first[q], k - 1)]]
  BY <1>8, <1>9, <1>10
<1>12. LocatedIn(got, c, q, first, h, k, fileSize)
  BY <1>5, <1>11 DEF LocatedIn
<1> QED
  BY <1>5, <1>12 DEF got

-----------------------------------------------------------------------------
(* The bytes of the sample are there.                                      *)

WholeUnits == \A s \in Samples : s.size % BytesPerSample = 0

LEMMA WholeSizes ==
    ASSUME SizesInv, WholeUnits, NEW t \in Tracks, OfSamples(hist[t]),
           NEW k \in 1..Len(hist[t])
    PROVE  GetSampleSize(stsz[t], k, BytesPerSample) = hist[t][k].size
<1>1. PICK s \in Samples : hist[t][k].size = s.size
  BY DEF OfSamples
<1>2. s.size \in Nat /\ s.size % BytesPerSample = 0 /\ BytesPerSample \in Nat \ {0}
  BY SampleAssumption, TrackAssumption DEF WholeUnits
<1>3. GetSampleSize(stsz[t], k, BytesPerSample)
      = (hist[t][k].size \div BytesPerSample) * BytesPerSample
  BY SizesInvSizes DEF SampleSizes
<1>4. PICK size \in Nat, b \in Nat \ {0} : size = s.size /\ b = BytesPerSample
  BY <1>2
<1>5. (size \div b) * b = size
  <2>1. PICK q \in Nat, r \in Nat : /\ q = size \div b /\ r = size % b
                                   /\ size = q * b + r /\ r < b
    BY Division
  <2>2. r = 0 /\ q * b \in Nat
    BY <1>2, <1>4, <2>1
  <2> QED
    BY <2>1, <2>2
<1> QED
  BY <1>1, <1>3, <1>4, <1>5

\* The bytes of sample k are behind place at.
PayloadAt(bytes, at, t, k, size) == \A i \in 1..size : bytes[at + i] = << t, k, i >>

LEMMA PayloadRead ==
    ASSUME NEW bytes \in Seq(Byte), NEW at \in Nat, NEW t \in Nat, NEW k \in Nat,
           NEW size \in Nat, PayloadAt(bytes, at, t, k, size)
    PROVE  SubSeq(bytes, at + 1, at + size) = Payload(t, k, size)
<1> DEFINE a == at + 1
           b == at + size
           T == {<< t, k, i >> : i \in 1..size}
           s == SubSeq(bytes, a, b)
<1>1. \A j \in a..b : bytes[j] \in T
  <2> SUFFICES ASSUME NEW j \in a..b PROVE bytes[j] \in T
    OBVIOUS
  <2>1. PICK i \in 1..size : j = at + i
    <3>1. PICK d \in Int : d = j - at
      OBVIOUS
    <3>2. d \in 1..size /\ j = at + d
      BY <3>1
    <3> QED
      BY <3>2
  <2>2. bytes[j] = << t, k, i >>
    BY <2>1 DEF PayloadAt
  <2> QED
    BY <2>2
<1>2. a \in Int /\ b \in Int /\ b - a + 1 = size /\ (IF a <= b THEN b - a + 1 ELSE 0) = size
  OBVIOUS
<1> HIDE DEF T
<1>3. s \in Seq(T) /\ Len(s) = size /\ \A i \in 1..size : s[i] = bytes[a + i - 1]
  <2>1. /\ s \in Seq(T) /\ Len(s) = IF a <= b THEN b - a + 1 ELSE 0
        /\ \A i \in 1..(b - a + 1) : s[i] = bytes[a + i - 1]
    <3> HIDE DEF a, b
    <3> QED
      BY <1>1, <1>2, SubSeqProperties
  <2> HIDE DEF s, a, b
  <2> QED
    BY <1>2, <2>1
<1>4. \A i \in 1..size : s[i] = << t, k, i >>
  <2> SUFFICES ASSUME NEW i \in 1..size PROVE s[i] = << t, k, i >>
    OBVIOUS
  <2>1. a + i - 1 = at + i
    OBVIOUS
  <2> HIDE DEF s, a
  <2> QED
    BY <1>3, <2>1 DEF PayloadAt
<1> HIDE DEF s
<1>5. s = [i \in 1..size |-> s[i]]
  <2>1. s = [i \in 1..Len(s) |-> s[i]]
    BY <1>3, SeqDef
  <2> QED
    BY <1>3, <2>1
<1> QED
  BY <1>4, <1>5 DEF Payload, s

LEMMA ReadsAt ==
    ASSUME StateType, ChunksIntact, SizesInv, WholeUnits, NEW t \in Tracks, OfSamples(hist[t]), NEW first,
           Ghost(Media(t), t, hist[t], first),
           NEW q \in 1..Len(flushed[t]), NEW k \in 1..Len(hist[t]),
           first[q] <= k, k < first[q + 1], NEW located,
           located.at = IF PlaceOf(chunks[t], q, first, hist[t], k) > Len(file.bytes)
                        THEN THROWN ELSE PlaceOf(chunks[t], q, first, hist[t], k)
    PROVE  ReadsBack(t, k, located)
<1> DEFINE h == hist[t]
           n == Len(flushed[t])
           o == chunks[t].stco[q]
           size == h[k].size
           before == BytesOf(h, first[q], k - 1)
           at == o + before
           bytes == flushed[t][q]
<1>1. /\ h \in Seq(SampleType) /\ Len(h) \in Nat /\ size \in Nat /\ n \in Nat
      /\ IsMedia(Media(t)) /\ Media(t).flushed = flushed[t] /\ Media(t).buffer = buffer[t]
      /\ Len(file.bytes) \in Nat
  BY MediaIsMedia, SizesAre, LenProperties
     DEF StateType, WriterType, MediaType
<1>2. /\ first[q] \in Nat \ {0} /\ first[q + 1] \in Nat /\ first[q + 1] <= Len(h) + 1
  <2>1. q \in 1..(n + 1) /\ q + 1 \in 1..(n + 1) /\ n + 1 \in 1..(n + 1)
    BY <1>1
  <2>2. /\ first[q] \in Nat \ {0} /\ first[q + 1] \in Nat /\ first[q + 1] <= first[n + 1]
        /\ first[n + 1] \in Nat
    BY <1>1, <2>1, GhostFirst
  <2>3. first[n + 1] + buffer[t].samples = Len(h) + 1 /\ buffer[t].samples \in Nat
    BY <1>1 DEF Ghost, IsMedia, BufferType
  <2> QED
    BY <1>1, <2>2, <2>3
<1>3. HoldsPart(bytes, t, h, first[q], first[q + 1])
  BY <1>1 DEF Ghost
<1>4. o \in Nat /\ o + Len(bytes) <= Len(file.bytes)
      /\ \A i \in 1..Len(bytes) : file.bytes[o + i] = bytes[i]
  <2>1. Len(flushed[t]) = Len(chunks[t].stco)
        /\ o + Len(bytes) <= Len(file.bytes)
        /\ \A i \in 1..Len(bytes) : file.bytes[o + i] = bytes[i]
    BY DEF ChunksIntact
  <2>2. o \in Nat
    BY <2>1, ElementOfSeq DEF StateType, MediaType
  <2> QED
    BY <2>1, <2>2
<1> HIDE DEF h, n, o, bytes, size, before
<1>5. before \in Nat /\ before + size <= Len(bytes) /\ Len(bytes) \in Nat
  <2>1. /\ k \in Nat /\ first[q] <= k /\ k <= Len(h) /\ k <= first[q + 1] - 1
        /\ first[q + 1] - 1 <= Len(h) /\ first[q + 1] - 1 \in Int
    BY <1>1, <1>2 DEF h
  <2>2. /\ before \in Nat /\ BytesOf(h, first[q], k) = before + size
    BY <1>1, <1>2, <2>1, BytesOfNext DEF before, size
  <2>3. BytesOf(h, first[q], k) <= BytesOf(h, first[q], first[q + 1] - 1)
    <3>1. PICK j \in Int : j = first[q + 1] - 1 /\ k <= j /\ j <= Len(h)
      BY <2>1
    <3>3. PICK a \in Nat \ {0} : a = first[q]
      BY <1>2
    <3>4. BytesOf(h, a, k) <= BytesOf(h, a, j)
      BY <1>1, <3>1, BytesOfGrows
    <3>2. BytesOf(h, first[q], k) <= BytesOf(h, first[q], j)
      BY <3>3, <3>4
    <3> QED
      BY <3>1, <3>2
  <2>4. Len(bytes) = BytesOf(h, first[q], first[q + 1] - 1)
    BY <1>3 DEF HoldsPart
  <2>5. Len(bytes) \in Nat
    BY <1>1, <1>2, <2>1, <2>4, BytesOfType
  <2> QED
    BY <1>1, <2>2, <2>3, <2>4, <2>5
<1>6. \A i \in 1..size : bytes[before + i] = << t, k, i >>
  <2>1. k \in first[q]..(first[q + 1] - 1)
    BY <1>1, <1>2 DEF h
  <2> QED
    BY <1>3, <2>1 DEF HoldsPart, before, size
<1>7. at \in Nat /\ at + size <= Len(file.bytes) /\ at <= Len(file.bytes)
  BY <1>1, <1>4, <1>5
<1>8. \A i \in 1..size : file.bytes[at + i] = << t, k, i >>
  <2> SUFFICES ASSUME NEW i \in 1..size PROVE file.bytes[at + i] = << t, k, i >>
    OBVIOUS
  <2>1. before + i \in 1..Len(bytes) /\ at + i = o + (before + i)
    BY <1>1, <1>4, <1>5
  <2>2. file.bytes[o + (before + i)] = bytes[before + i]
    BY <1>4, <2>1
  <2> QED
    BY <1>6, <2>1, <2>2
<1>9. PlaceOf(chunks[t], q, first, hist[t], k) = at
  BY DEF PlaceOf, o, before, h
<1> HIDE DEF at
<1>10. located.at = at /\ at # THROWN
  BY <1>1, <1>7, <1>9 DEF THROWN
<1>11. GetSampleSize(stsz[t], k, BytesPerSample) = size /\ size # THROWN
  BY <1>1, WholeSizes DEF size, h, THROWN
<1>12. Readable(file, stsz[t], located.at, k)
  BY <1>7, <1>10, <1>11 DEF Readable
<1>13. BytesAt(file, stsz[t], located.at, k) = Payload(t, k, size)
  <2>1. BytesAt(file, stsz[t], located.at, k) = SubSeq(file.bytes, at + 1, at + size)
    BY <1>10, <1>11 DEF BytesAt
  <2>2. SubSeq(file.bytes, at + 1, at + size) = Payload(t, k, size)
    <3>1. PICK a \in Nat, e \in Nat : a = at /\ e = size
      BY <1>1, <1>7
    <3>2. PICK all \in Seq(Byte), u \in Nat, j \in Nat : all = file.bytes /\ u = t /\ j = k
      BY CountsAssumption DEF StateType, MediaType, Tracks
    <3>3. PayloadAt(all, a, u, j, e)
      BY <1>8, <3>1, <3>2 DEF PayloadAt
    <3>4. SubSeq(all, a + 1, a + e) = Payload(u, j, e)
      BY <3>3, PayloadRead
    <3> QED
      BY <3>1, <3>2, <3>4
  <2> QED
    BY <2>1, <2>2
<1> QED
  BY <1>12, <1>13 DEF ReadsBack, size, h

LEMMA InChunksBelow ==
    ASSUME StateType, NEW t \in Tracks, NEW first, Ghost(Media(t), t, hist[t], first),
           NEW k \in InChunks(t)
    PROVE  /\ k \in 1..Len(hist[t]) /\ k < first[Len(flushed[t]) + 1]
           /\ hist[t] \in Seq(SampleType) /\ Len(flushed[t]) \in Nat
           /\ Media(t).chunks = chunks[t] /\ Media(t).flushed = flushed[t]
<1> DEFINE h == hist[t]
           n == Len(flushed[t])
           b == buffer[t].samples
<1>1. /\ h \in Seq(SampleType) /\ IsMedia(Media(t)) /\ Media(t).flushed = flushed[t]
      /\ Media(t).buffer = buffer[t] /\ Media(t).chunks = chunks[t]
  BY MediaIsMedia DEF StateType, WriterType
<1>2. Len(h) \in Nat /\ b \in Nat /\ n \in Nat /\ first[n + 1] \in Nat \ {0}
  BY <1>1, SizesAre, GhostFirst DEF IsMedia, BufferType
<1>3. first[n + 1] + b = Len(h) + 1
  BY <1>1 DEF Ghost
<1>4. k \in 1..(Len(h) - b)
  BY DEF InChunks
<1> HIDE DEF h, n, b
<1>5. k \in 1..Len(h) /\ k < first[n + 1]
  BY <1>2, <1>3, <1>4
<1> QED
  BY <1>1, <1>2, <1>5 DEF h, n

LEMMA ShapeReads ==
    ASSUME StateType, ChunksIntact, SizesInv, ShapeInv, WholeUnits, session = 1 \/ NoEmptySamples
    PROVE  ReadBackFromFile
<1> SUFFICES ASSUME NEW t \in Tracks, NEW k \in InChunks(t)
             PROVE  ReadsBack(t, k, GetSampleFileOffset(Reread(chunks[t]), stsz[t],
                                        NoLocation, k, BytesPerSample, Len(file.bytes)))
  BY DEF ReadBackFromFile
<1>1. OfSamples(hist[t])
  BY DEF ShapeInv, ShapeOf
<1>2. PICK first : Ghost(Media(t), t, hist[t], first)
  BY DEF ShapeInv, ShapeOf
<1> DEFINE h == hist[t]
           n == Len(flushed[t])
           c == Reread(chunks[t])
           z == stsz[t]
<1>3. /\ k \in 1..Len(h) /\ k < first[n + 1] /\ h \in Seq(SampleType) /\ n \in Nat
      /\ Media(t).chunks = chunks[t] /\ Media(t).flushed = flushed[t]
  BY <1>2, InChunksBelow
<1>4. c.stsc = ReadStsc(chunks[t].stsc) /\ c.stco = chunks[t].stco
  BY DEF Reread
<1>5. /\ chunks[t].stsc \in Seq(StscType) /\ Shaped(chunks[t].stsc, first, n)
      /\ Len(chunks[t].stco) = n
  BY <1>2, <1>3 DEF Ghost
<1>6. c.stsc \in Seq(StscType) /\ Shaped(c.stsc, first, n) /\ Starts(c.stsc, first)
  BY <1>3, <1>4, <1>5, ReadStscStarts
<1>7. \A s \in 1..Len(h) : GetSampleSize(z, s, BytesPerSample) = h[s].size
  BY <1>1, WholeSizes
<1>8. Cached(NoLocation, first, n, h)
  BY DEF Cached, NoLocation
<1> HIDE DEF c, z, h, n
<1>9. PICK q \in 1..n :
          LocatedIn(GetSampleFileOffset(c, z, NoLocation, k, BytesPerSample,
                                        Len(file.bytes)),
                    c, q, first, h, k, Len(file.bytes))
  <2>1. Len(c.stco) = n
    BY <1>4, <1>5
  <2> QED
    BY <1>3, <1>6, <1>7, <1>8, <2>1, SampleLocated
<1>10. PlaceOf(c, q, first, h, k) = PlaceOf(chunks[t], q, first, h, k)
  BY <1>4 DEF PlaceOf
<1> DEFINE located == GetSampleFileOffset(c, z, NoLocation, k, BytesPerSample,
                                          Len(file.bytes))
<1>11. /\ first[q] <= k /\ k < first[q + 1]
       /\ located.at = IF PlaceOf(chunks[t], q, first, h, k) > Len(file.bytes) THEN THROWN
                       ELSE PlaceOf(chunks[t], q, first, h, k)
  BY <1>9, <1>10 DEF LocatedIn
<1> HIDE DEF located
<1>12. ReadsBack(t, k, located)
  BY <1>1, <1>2, <1>3, <1>9, <1>11, ReadsAt DEF h, n
<1> QED
  BY <1>12 DEF located, c, z

LEMMA ShapeInvariant == Spec => [](IInv /\ SizesInv /\ AllFlushed /\ ShapeInv)
<1>1. Init => IInv /\ SizesInv /\ OrderInv /\ ShapeInv
  BY InitIInv, InitSizesInv, InitOrderInv, InitShapeInv
<1>2. IInv /\ SizesInv /\ OrderInv /\ ShapeInv /\ [Next]_vars
      => (IInv /\ SizesInv /\ OrderInv /\ ShapeInv)'
  BY NextIInv, NextSizesInv, NextOrderInv, NextShapeInv DEF OrderInv
<1>3. OrderInv => AllFlushed
  BY DEF OrderInv
<1> QED
  BY <1>1, <1>2, <1>3, PTL DEF Spec

\* Every sample that is in a chunk can be read back from the file, through the
\* tables as a reader finds them: the entries of stsc, counted from 1 and
\* joined while the chunks have as many samples, the firstSample fields
\* MP4StscAtom::Read computes, the division of GetSampleFileOffset, stco and
\* stsz lead to the bytes written, whatever flushes failed and were made again
\* and in later sessions.  The sizes are whole units of BytesPerSample, as stsz
\* counts them; samples without bytes are forgotten by MP4Modify when no chunk
\* was written for them, so a file with such samples is not modified.
THEOREM FileReadsBack ==
    Spec => [](WholeUnits /\ (session = 1 \/ NoEmptySamples) => ReadBackFromFile)
<1>1. IInv /\ SizesInv /\ ShapeInv
      => (WholeUnits /\ (session = 1 \/ NoEmptySamples) => ReadBackFromFile)
  BY ShapeReads, IInvIntact DEF IInv
<1> QED
  BY <1>1, ShapeInvariant, PTL

-----------------------------------------------------------------------------
(* Reading while writing.  The entries of stsc get their firstSample from  *)
(* m_writeSampleId, and every lookup leaves its location behind.           *)

\* No buffer is flushed but by the sample that fills it.
FlushedByWriting == AmrTracks = {} /\ "ReadBufferedSample" \notin Calls

\* What a step of an open file does to the chunks of track t and to the location
\* cached for it.
OpenStep(t) ==
    \/ /\ Stays(t)
       /\ \/ cache'[t].sfo = cache[t].sfo
          \/ \E k \in SampleIds(t) : /\ ~IsBuffered(t, k)
                                     /\ cache'[t].sfo = Locate(Media(t), t, k).cache
    \/ \E s \in Written(t) : Writes(t, s) /\ cache'[t].sfo = cache[t].sfo

LEMMA OpenStays ==
    ASSUME UNCHANGED << chunks, buffer, flushed, hist, cache >>, NEW u \in Tracks
    PROVE  OpenStep(u)
BY SameItself DEF OpenStep, Stays, Became, Media

\* A call that does something to track t only.
LEMMA OpenOther ==
    ASSUME IInv, NEW t \in Tracks, NEW n, SetMedia(t, n), NEW u \in Tracks, u # t,
           hist'[u] = hist[u], cache'[u] = cache[u]
    PROVE  OpenStep(u)
BY OneBecomes DEF OpenStep

LEMMA OpenWrites ==
    ASSUME IInv, NEW t \in Tracks, NEW s \in Written(t),
           WriteSample(t, s) \/ WriteSampleThrows(t, s), phase' = "open", faults' = 0,
           0 \notin ChunkDurations, perChunk[t] # 0, NEW u \in Tracks
    PROVE  OpenStep(u)
<1>1. WriteSample(t, s)
  BY DEF WriteSampleThrows, WriteFault, IInv, StateType, WriterType
<1>2. cache' = cache /\ hist' = [hist EXCEPT ![t] = Append(@, SampleOf(t, s))]
  BY <1>1 DEF WriteSample, RecordSample, SampleOf
<1>3. hist \in [Tracks -> Seq(SampleType)]
  BY DEF IInv, StateType, WriterType
<1> DEFINE b == Buffered(t, s)
           n == IF IsChunkFull(b.buffer, perChunk[t]) THEN WriteChunkBuffer(b, writeId[t])
                ELSE b
<1>4. SetMedia(t, n)
  BY <1>1 DEF WriteSample
<1>5. n = b \/ n = WriteChunkBuffer(b, writeId[t])
  OBVIOUS
<1> HIDE DEF n
<1>6. CASE u = t
  <2>1. Became(t, n)
    <3>1. u # t => hist'[u] = hist[u]
      BY <1>6
    <3> QED
      BY <1>4, <3>1, OneBecomes
  <2>2. hist'[t] = Append(hist[t], SampleOf(t, s))
    BY <1>2, <1>3
  <2>3. Writes(t, s)
    BY <1>5, <2>1, <2>2 DEF Writes
  <2> QED
    BY <1>2, <1>6, <2>3 DEF OpenStep
<1>7. CASE u # t
  <2>1. hist'[u] = hist[u]
    BY <1>2, <1>3, <1>7
  <2> QED
    BY <1>2, <1>4, <1>7, <2>1, OpenOther
<1> QED
  BY <1>6, <1>7

LEMMA OpenReads ==
    ASSUME IInv, LookupInv, FlushedByWriting, NEW t \in Tracks, NEW k \in SampleIds(t),
           ReadSample(t, k), NEW u \in Tracks
    PROVE  OpenStep(u)
<1>1. ~IsBuffered(t, k)
  BY DEF ReadSample, FlushedByWriting
<1>2. ReadMedia(t, k) = Media(t)
  BY <1>1 DEF ReadMedia
<1>3. IsMedia(Media(t))
  BY MediaIsMedia DEF IInv, StateType
<1>4. \A e : [Media(t) EXCEPT !.file = RestorePosition(@, e)] = Media(t)
  BY <1>3 DEF IsMedia, RestorePosition
<1>5. SetMedia(t, Media(t)) /\ hist' = hist
  BY <1>2, <1>4 DEF ReadSample
<1>6. DOMAIN cache = Tracks
  BY DEF LookupInv, TablesAre
<1>7. \E c : /\ cache' = [cache EXCEPT ![t] = c]
             /\ c.sfo = Locate(Media(t), t, k).cache
  <2> DEFINE loc   == Locate(Media(t), t, k)
             times == GetSampleTimes(stts[t], cache[t].stts, k)
             off   == GetSampleRenderingOffset(ctts[t], cache[t].ctts, k)
             read  == Readable(Media(t).file, stsz[t], loc.at, k)
             c == [sfo  |-> loc.cache,
                   stts |-> IF read THEN times.cache ELSE cache[t].stts,
                   ctts |-> IF read /\ times.start # THROWN THEN off.cache
                            ELSE cache[t].ctts]
  <2>1. cache' = [cache EXCEPT ![t] = c]
    BY <1>2 DEF ReadSample
  <2>2. c.sfo = loc.cache
    OBVIOUS
  <2> QED
    BY <2>1, <2>2
<1>8. PICK c : cache' = [cache EXCEPT ![t] = c] /\ c.sfo = Locate(Media(t), t, k).cache
  BY <1>7
<1>9. CASE u = t
  <2>1. Stays(t)
    <3>1. Became(t, Media(t))
      BY <1>5, OneBecomes
    <3> QED
      BY <1>5, <3>1, SameItself DEF Stays
  <2>2. cache'[t].sfo = Locate(Media(t), t, k).cache
    BY <1>6, <1>8
  <2> QED
    BY <1>1, <1>9, <2>1, <2>2 DEF OpenStep
<1>10. CASE u # t
  <2>1. cache'[u] = cache[u]
    BY <1>6, <1>8, <1>10
  <2> QED
    BY <1>5, <1>10, <2>1, OpenOther
<1> QED
  BY <1>9, <1>10

\* What a step of an open file leaves it with.
LEMMA EveryOpenStep ==
    ASSUME IInv, LookupInv, TableInv, [Next]_vars, Sound', FlushedByWriting, phase' = "open",
           NEW u \in Tracks
    PROVE  Sound /\ phase = "open" /\ OpenStep(u)
<1>1. CountersGrow /\ session' = 1 /\ faults' = 0 /\ 0 \notin ChunkDurations
  BY EveryTableStep DEF Sound
<1>2. Sound /\ faults = 0
  BY <1>1 DEF Sound, CountersGrow
<1>3. ~Modify
  BY <1>1, SessionGrows
<1>4. phase = "open"
  BY <1>3, ZenonT(30) DEF Next, vars, call, durations, CanWrite, WriteSample, WriteSampleThrows,
         ModeFlushThrows, SetDurationPerChunk, ReadSample, ReadSampleThrows, LookUpSample,
         SetOffset, FinishTrack, FinishTrackThrows, FinishFile
<1>5. \A t \in Tracks : perChunk[t] # 0
  BY <1>2 DEF TableInv, Says, SaysIds
<1>6. DOMAIN cache = Tracks
  BY DEF LookupInv, TablesAre
<1>7. ASSUME NEW t \in Tracks, NEW s \in Written(t),
             WriteSample(t, s) \/ WriteSampleThrows(t, s)
      PROVE  OpenStep(u)
  BY <1>1, <1>5, <1>7, OpenWrites
<1>8. ASSUME NEW t \in Tracks, NEW s \in Written(t), ModeFlushThrows(t, s)
      PROVE  OpenStep(u)
  BY <1>8 DEF ModeFlushThrows, ModeChanges, FlushedByWriting
<1>9. ASSUME NEW t \in Tracks, NEW d \in ChunkDurations, SetDurationPerChunk(t, d)
      PROVE  OpenStep(u)
  BY <1>9, OpenStays DEF SetDurationPerChunk
<1>10. ASSUME NEW t \in Tracks, NEW k \in SampleIds(t), ReadSample(t, k)
       PROVE  OpenStep(u)
  BY <1>10, OpenReads
<1>11. ASSUME NEW t \in Tracks, NEW k \in SampleIds(t), ReadSampleThrows(t, k)
       PROVE  OpenStep(u)
  BY <1>11 DEF ReadSampleThrows, FlushedByWriting
<1>12. ASSUME NEW t \in Tracks, NEW k \in SampleIds(t), LookUpSample(t, k)
       PROVE  OpenStep(u)
  <2>1. cache'[u].sfo = cache[u].sfo
    <3>1. PICK a, b : \/ cache' = [cache EXCEPT ![t] = [@ EXCEPT !.stts = a]]
                      \/ cache' = [cache EXCEPT ![t] = [@ EXCEPT !.ctts = b]]
      BY <1>12 DEF LookUpSample
    <3>2. /\ [cache[u] EXCEPT !.stts = a].sfo = cache[u].sfo
          /\ [cache[u] EXCEPT !.ctts = b].sfo = cache[u].sfo
      BY DEF LookupInv, LookedUp, CachesRight, LookupsType
    <3> QED
      BY <1>6, <3>1, <3>2
  <2>2. Stays(u)
    BY <1>12, SameItself DEF LookUpSample, Stays, Became, Media
  <2> QED
    BY <2>1, <2>2 DEF OpenStep
<1>13. ASSUME NEW t \in Tracks, NEW k \in SampleIds(t), NEW x \in Offsets, SetOffset(t, k, x)
       PROVE  OpenStep(u)
  <2>1. cache'[u].sfo = cache[u].sfo
    <3>1. PICK b : cache' = [cache EXCEPT ![t] = [@ EXCEPT !.ctts = b]]
      BY <1>13 DEF SetOffset
    <3>2. [cache[u] EXCEPT !.ctts = b].sfo = cache[u].sfo
      BY DEF LookupInv, LookedUp, CachesRight, LookupsType
    <3> QED
      BY <1>6, <3>1, <3>2
  <2>2. Stays(u)
    BY <1>13, SetOffsetStays
  <2> QED
    BY <2>1, <2>2 DEF OpenStep
<1>14. ASSUME FinishTrack \/ FinishTrackThrows \/ FinishFile
       PROVE  OpenStep(u)
  BY <1>1, <1>14 DEF FinishTrack, FinishTrackThrows, FinishFile
<1>15. ASSUME UNCHANGED vars
       PROVE  OpenStep(u)
  BY <1>15, OpenStays DEF vars
<1>16. OpenStep(u)
  BY <1>3, <1>7, <1>8, <1>9, <1>10, <1>11, <1>12, <1>13, <1>14, <1>15 DEF Next
<1> QED
  BY <1>2, <1>4, <1>16

\* A chunk written with the id of its last sample.
LEMMA StartsAdded ==
    ASSUME NEW stsc \in Seq(StscType), NEW n \in Nat, NEW first, Shaped(stsc, first, n),
           Starts(stsc, first), NEW s \in Nat \ {0}, NEW id \in Int, id - s + 1 = first[n + 1]
    PROVE  Starts(UpdateSampleToChunk(stsc, id, n + 1, s), WithChunk(first, n, s))
<1> DEFINE more == WithChunk(first, n, s)
           len == Len(stsc)
           new == UpdateSampleToChunk(stsc, id, n + 1, s)
           e == [firstChunk |-> n + 1, samplesPerChunk |-> s, firstSample |-> id - s + 1]
<1>1. len \in Nat
  BY LenProperties
<1>2. \A c \in 1..(n + 1) : more[c] = first[c]
  BY WithChunkIs DEF Lengthened
<1> HIDE DEF more
<1>3. ASSUME NEW i \in 1..len
      PROVE  stsc[i].firstSample = more[stsc[i].firstChunk]
  <2>1. stsc[i].firstChunk \in 1..n
    BY ChunksIn
  <2>2. stsc[i].firstChunk \in 1..(n + 1)
    BY <2>1
  <2> QED
    BY <1>2, <2>2 DEF Starts
<1>4. e \in StscType /\ e.firstChunk = n + 1 /\ e.firstSample = first[n + 1]
  BY DEF StscType
<1>5. more[n + 1] = first[n + 1]
  BY <1>2
<1>6. CASE new = stsc
  BY <1>3, <1>6 DEF Starts, more
<1>7. CASE new = Append(stsc, e)
  <2> HIDE DEF e
  <2>1. /\ Len(new) = len + 1 /\ new[len + 1] = e
        /\ \A i \in 1..len : new[i] = stsc[i]
    BY <1>4, <1>7, AppendProperties
  <2> HIDE DEF new
  <2>2. \A i \in 1..Len(new) : i \in 1..len \/ i = len + 1
    BY <1>1, <2>1
  <2>3. \A i \in 1..Len(new) : new[i].firstSample = more[new[i].firstChunk]
    BY <1>3, <1>4, <1>5, <2>1, <2>2
  <2> QED
    BY <2>3 DEF Starts, more, new
<1>8. new = stsc \/ new = Append(stsc, e)
  BY DEF UpdateSampleToChunk
<1> QED
  BY <1>6, <1>7, <1>8

LEMMA StartsFlush ==
    ASSUME NEW m, IsMedia(m), NEW t, NEW h \in Seq(SampleType), NEW first,
           Ghost(m, t, h, first), Starts(m.chunks.stsc, first)
    PROVE  Starts(WriteChunkBuffer(m, Len(h)).chunks.stsc, AfterFlush(m, first))
<1>1. CASE m.buffer.bytes = << >>
  BY <1>1 DEF WriteChunkBuffer, AfterFlush
<1>2. CASE m.buffer.bytes # << >>
  <2> DEFINE n == Len(m.flushed)
             s == m.buffer.samples
             w == WriteChunkBuffer(m, Len(h))
  <2>1. n \in Nat /\ s \in Nat \ {0} /\ Len(h) \in Int /\ first[n + 1] \in Nat
    BY <1>2, GhostFirst, GhostFlushed, SizesAre
  <2>2. /\ m.chunks.stsc \in Seq(StscType) /\ Shaped(m.chunks.stsc, first, n)
        /\ first[n + 1] + s = Len(h) + 1 /\ Len(m.chunks.stco) = n
    BY DEF Ghost
  <2>3. w.chunks.stsc = UpdateSampleToChunk(m.chunks.stsc, Len(h), n + 1, s)
    BY <1>2, <2>2 DEF WriteChunkBuffer
  <2> HIDE DEF w, n, s
  <2>4. Len(h) - s + 1 = first[n + 1]
    BY <2>1, <2>2, SMTT(30)
  <2>5. Starts(w.chunks.stsc, WithChunk(first, n, s))
    BY <2>1, <2>2, <2>3, <2>4, StartsAdded
  <2> QED
    BY <1>2, <2>5 DEF AfterFlush, w, n, s
<1> QED
  BY <1>1, <1>2

\* What is cached stays true while samples are added.
LEMMA CachedLater ==
    ASSUME NEW m, IsMedia(m), NEW t, NEW h \in Seq(SampleType), NEW first,
           Ghost(m, t, h, first), NEW loc, Cached(loc, first, Len(m.flushed), h),
           NEW g, Len(g) \in Nat, Len(h) <= Len(g), \A k \in 1..Len(h) : g[k].size = h[k].size
    PROVE  Cached(loc, first, Len(m.flushed), g)
<1> DEFINE n == Len(m.flushed)
           c == loc.chunk
<1>1. CASE c = 0
  BY <1>1 DEF Cached
<1>2. CASE c # 0
  <2>1. /\ c \in 1..n /\ loc.sid \in Nat /\ first[c] <= loc.sid /\ loc.sid < first[c + 1]
        /\ loc.offset = BytesOf(h, first[c], loc.sid - 1)
    BY <1>2 DEF Cached
  <2>2. /\ n \in Nat /\ first[n + 1] \in Nat \ {0}
        /\ \A d \in 1..(n + 1) : first[d] \in Nat \ {0} /\ first[d] <= first[n + 1]
        /\ m.buffer.samples \in Nat /\ Len(h) \in Nat
        /\ first[n + 1] + m.buffer.samples = Len(h) + 1
    BY GhostFirst, SizesAre DEF IsMedia, BufferType, Ghost
  <2> HIDE DEF n, c
  <2>3. c \in 1..(n + 1) /\ c + 1 \in 1..(n + 1)
    BY <2>1, <2>2
  <2>4. first[c] \in Nat \ {0} /\ first[c + 1] \in Nat /\ first[c + 1] <= first[n + 1]
    BY <2>2, <2>3
  <2>5. loc.sid - 1 \in Int /\ loc.sid - 1 <= Len(h)
    <3>1. PICK sid \in Nat, x \in Nat : sid = loc.sid /\ x = first[c + 1] /\ sid < x
      BY <2>1, <2>4
    <3>2. PICK last \in Nat, e \in Nat : /\ last = first[n + 1] /\ e = Len(h)
                                         /\ last <= e + 1
      BY <2>2
    <3>3. x <= last
      BY <2>4, <3>1, <3>2
    <3> QED
      BY <3>1, <3>2, <3>3
  <2>6. BytesOf(g, first[c], loc.sid - 1) = BytesOf(h, first[c], loc.sid - 1)
    BY <2>4, <2>5, BytesOfSame
  <2> QED
    BY <2>1, <2>6 DEF Cached, n, c
<1> QED
  BY <1>1, <1>2

LEMMA CachedFlush ==
    ASSUME NEW m, IsMedia(m), NEW t, NEW h \in Seq(SampleType), NEW first,
           Ghost(m, t, h, first), NEW loc, Cached(loc, first, Len(m.flushed), h), NEW id \in Int
    PROVE  Cached(loc, AfterFlush(m, first), Len(WriteChunkBuffer(m, id).flushed), h)
<1>1. CASE m.buffer.bytes = << >>
  BY <1>1 DEF WriteChunkBuffer, AfterFlush
<1>2. CASE m.buffer.bytes # << >>
  <2> DEFINE n == Len(m.flushed)
             s == m.buffer.samples
             more == WithChunk(first, n, s)
             f == WriteChunkBuffer(m, id).flushed
  <2>1. /\ n \in Nat /\ s \in Nat \ {0} /\ Shaped(m.chunks.stsc, first, n)
    BY <1>2, GhostFirst, GhostFlushed DEF Ghost
  <2>2. \A c \in 1..(n + 1) : more[c] = first[c]
    <3> HIDE DEF n, s
    <3>1. Lengthened(more, first, n, s)
      BY <2>1, WithChunkIs
    <3> HIDE DEF more
    <3> QED
      BY <3>1 DEF Lengthened
  <2>3. Len(f) = n + 1
    <3>1. f = Append(m.flushed, m.buffer.bytes)
      BY <1>2 DEF WriteChunkBuffer
    <3>2. m.flushed \in Seq(Seq(Byte)) /\ m.buffer.bytes \in Seq(Byte)
      BY DEF IsMedia, BufferType
    <3> QED
      BY <3>1, <3>2, AppendProperties
  <2> HIDE DEF more, f, n, s
  <2>4. Cached(loc, more, n + 1, h)
    <3>1. CASE loc.chunk = 0
      BY <3>1 DEF Cached
    <3>2. CASE loc.chunk # 0
      <4>1. loc.chunk \in 1..n
        BY <3>2 DEF Cached, n
      <4>2. loc.chunk \in 1..(n + 1) /\ loc.chunk + 1 \in 1..(n + 1)
        BY <2>1, <4>1
      <4>3. more[loc.chunk] = first[loc.chunk] /\ more[loc.chunk + 1] = first[loc.chunk + 1]
        BY <2>2, <4>2
      <4> QED
        BY <3>2, <4>2, <4>3 DEF Cached
    <3> QED
      BY <3>1, <3>2
  <2> QED
    BY <1>2, <2>3, <2>4 DEF AfterFlush, f, more, n, s
<1> QED
  BY <1>1, <1>2

\* The tables as the writer uses them: the entries start where the chunks do, and
\* the location left by the last lookup is that of a sample in a chunk.
ReadsOf(t, first) ==
    /\ Ghost(Media(t), t, hist[t], first) /\ Starts(chunks[t].stsc, first)
    /\ Cached(cache[t].sfo, first, Len(flushed[t]), hist[t])

Reading == Sound /\ FlushedByWriting /\ WholeUnits /\ phase = "open"

ReadInv == Reading => \A t \in Tracks : \E first : ReadsOf(t, first)

\* What GetSampleFileOffset finds for a sample that is not in the buffer.
LEMMA OpenLocates ==
    ASSUME IInv, SizesInv, WholeUnits, NEW t \in Tracks, OfSamples(hist[t]),
           NEW first, ReadsOf(t, first), NEW k \in 1..Len(hist[t]),
           k < first[Len(flushed[t]) + 1]
    PROVE  \E q \in 1..Len(flushed[t]) :
              LocatedIn(Locate(Media(t), t, k), chunks[t], q, first, hist[t], k,
                        Len(file.bytes))
<1> DEFINE h == hist[t]
           n == Len(flushed[t])
           z == stsz[t]
           c == chunks[t]
           loc == cache[t].sfo
<1>1. /\ h \in Seq(SampleType) /\ IsMedia(Media(t)) /\ Media(t).flushed = flushed[t]
      /\ Media(t).chunks = c /\ Media(t).file = file
  BY MediaIsMedia DEF IInv, StateType, WriterType, Media
<1>2. /\ c.stsc \in Seq(StscType) /\ Shaped(c.stsc, first, n) /\ Starts(c.stsc, first)
      /\ Len(c.stco) = n /\ Cached(loc, first, n, h)
  BY <1>1 DEF ReadsOf, Ghost
<1>3. n \in Nat
  BY <1>1, GhostFirst DEF ReadsOf
<1>4. \A s \in 1..Len(h) : GetSampleSize(z, s, BytesPerSample) = h[s].size
  BY WholeSizes
<1>5. Locate(Media(t), t, k)
      = GetSampleFileOffset(c, z, loc, k, BytesPerSample, Len(file.bytes))
  BY <1>1 DEF Locate
<1> HIDE DEF h, n, z, c, loc
<1>6. \E q \in 1..n :
          LocatedIn(GetSampleFileOffset(c, z, loc, k, BytesPerSample, Len(file.bytes)),
                    c, q, first, h, k, Len(file.bytes))
  BY <1>1, <1>2, <1>3, <1>4, SampleLocated DEF h, n
<1> QED
  BY <1>5, <1>6 DEF h, n, c

LEMMA SameSizes ==
    ASSUME NEW h \in Seq(SampleType), NEW g, SameButOffsets(h, g)
    PROVE  Len(g) \in Nat /\ Len(h) <= Len(g) /\ \A k \in 1..Len(h) : g[k].size = h[k].size
BY SizesAre DEF SameButOffsets

LEMMA StayReads ==
    ASSUME IInv, SizesInv, WholeUnits, NEW t \in Tracks, OfSamples(hist[t]),
           writeId[t] = Len(hist[t]) + 1, NEW first, ReadsOf(t, first), Stays(t),
           \/ cache'[t].sfo = cache[t].sfo
           \/ \E k \in SampleIds(t) : /\ ~IsBuffered(t, k)
                                      /\ cache'[t].sfo = Locate(Media(t), t, k).cache
    PROVE  ReadsOf(t, first)'
<1> DEFINE h == hist[t]
           n == Len(flushed[t])
           m == Media(t)
           loc == cache'[t].sfo
<1>1. /\ h \in Seq(SampleType) /\ IsMedia(m) /\ m.flushed = flushed[t]
      /\ m.chunks = chunks[t] /\ m.buffer = buffer[t]
  BY MediaIsMedia DEF IInv, StateType, WriterType
<1>2. /\ Ghost(m, t, h, first) /\ Starts(chunks[t].stsc, first)
      /\ Cached(cache[t].sfo, first, n, h)
  BY DEF ReadsOf
<1>3. chunks'[t] = chunks[t] /\ flushed'[t] = flushed[t] /\ SameButOffsets(h, hist'[t])
  BY <1>1 DEF Stays, Became
<1>4. Ghost(m, t, hist'[t], first)
  BY <1>1, <1>2, <1>3, GhostSame
<1>5. Ghost(Media(t), t, hist[t], first)'
  BY <1>4, BecameGhost DEF Stays
<1>6. Cached(loc, first, n, h)
  <2>1. CASE cache'[t].sfo = cache[t].sfo
    BY <1>2, <2>1
  <2>2. CASE \E k \in SampleIds(t) : /\ ~IsBuffered(t, k)
                                     /\ cache'[t].sfo = Locate(Media(t), t, k).cache
    <3>1. PICK k \in SampleIds(t) : ~IsBuffered(t, k) /\ loc = Locate(m, t, k).cache
      BY <2>2
    <3>2. k \in 1..Len(h)
      BY <3>1, CountIs
    <3>3. k < first[n + 1]
      <4>1. /\ first[n + 1] + buffer[t].samples = Len(h) + 1 /\ first[n + 1] \in Nat \ {0}
            /\ buffer[t].samples \in Nat /\ Len(h) \in Nat
        BY <1>1, <1>2, GhostFirst, SizesAre DEF Ghost, IsMedia, BufferType
      <4> DEFINE j == Len(h) + 1
                 s == buffer[t].samples
      <4>2. writeId[t] = j
        OBVIOUS
      <4> HIDE DEF h, n, j, s
      <4>3. ~(writeId[t] >= s /\ k >= writeId[t] - s)
        BY <3>1 DEF IsBuffered, s
      <4>4. ~(j >= s /\ k >= j - s)
        BY <4>2, <4>3, Zenon
      <4> QED
        BY <3>2, <4>1, <4>4 DEF j, s
    <3>4. PICK q \in 1..n : LocatedIn(Locate(m, t, k), chunks[t], q, first, h, k,
                                      Len(file.bytes))
      BY <3>2, <3>3, OpenLocates
    <3>5. /\ loc = [chunk |-> q, sid |-> k, offset |-> BytesOf(h, first[q], k - 1)]
          /\ first[q] <= k /\ k < first[q + 1]
      BY <3>1, <3>4 DEF LocatedIn
    <3> HIDE DEF loc
    <3>6. loc.chunk = q /\ loc.sid = k /\ loc.offset = BytesOf(h, first[q], k - 1) /\ k \in Nat
      BY <3>2, <3>5
    <3> QED
      BY <3>4, <3>5, <3>6 DEF Cached
  <2> QED
    BY <2>1, <2>2
<1>7. Cached(loc, first, n, hist'[t])
  BY <1>1, <1>2, <1>3, <1>6, SameSizes, CachedLater
<1> QED
  BY <1>3, <1>5, <1>7 DEF ReadsOf, Cached, BytesOf, Sizes

LEMMA WriteReads ==
    ASSUME IInv, NEW t \in Tracks, writeId[t] = Len(hist[t]) + 1, FlushedByWriting,
           NEW first, ReadsOf(t, first), NEW s \in Written(t), Writes(t, s),
           cache'[t].sfo = cache[t].sfo
    PROVE  \E g : ReadsOf(t, g)'
<1> DEFINE h == hist[t]
           x == SampleOf(t, s)
           n == Len(flushed[t])
           b == Buffered(t, s)
           w == WriteChunkBuffer(b, writeId[t])
           g == AfterFlush(b, first)
           loc == cache[t].sfo
           more == hist'[t]
<1>1. /\ h \in Seq(SampleType) /\ IsMedia(Media(t)) /\ Media(t).flushed = flushed[t]
      /\ Media(t).chunks = chunks[t] /\ x \in SampleType
  BY MediaIsMedia, StepSample DEF IInv, StateType, WriterType
<1>2. more = Append(h, x) /\ (Became(t, b) \/ Became(t, w))
  BY DEF Writes
<1>3. /\ Len(more) = Len(h) + 1 /\ Len(h) \in Nat /\ more \in Seq(SampleType)
      /\ \A k \in 1..Len(h) : more[k] = h[k]
  BY <1>1, <1>2, AppendProperties, LenProperties
<1>4. ~ModeChanges(t, s)
  BY DEF ModeChanges, FlushedByWriting
<1>5. IsMedia(b) /\ b.chunks = chunks[t] /\ b.flushed = flushed[t]
  BY <1>1, <1>4, BufferedIs DEF ModeFlushed
<1>6. Ghost(b, t, more, first)
  BY <1>2, <1>4, GhostAfterSample DEF ReadsOf
<1>7. Starts(b.chunks.stsc, first)
  BY <1>5 DEF ReadsOf
<1>8. Cached(loc, first, n, more)
  <2>1. /\ Ghost(Media(t), t, h, first) /\ Cached(loc, first, Len(Media(t).flushed), h)
    BY <1>1 DEF ReadsOf
  <2>2. Len(more) \in Nat /\ Len(h) <= Len(more) /\ \A k \in 1..Len(h) : more[k].size = h[k].size
    BY <1>3
  <2> HIDE DEF h, x, b, g, loc, more
  <2>3. Cached(loc, first, Len(Media(t).flushed), more)
    BY <1>1, <2>1, <2>2, CachedLater
  <2> QED
    BY <1>1, <2>3
<1> HIDE DEF h, x, b, g, loc, more
<1>9. CASE Became(t, b)
  <2>1. Ghost(Media(t), t, hist[t], first)'
    BY <1>6, <1>9, BecameGhost DEF more
  <2>2. Starts(chunks'[t].stsc, first) /\ Len(flushed'[t]) = n
    BY <1>5, <1>7, <1>9 DEF Became
  <2>3. ReadsOf(t, first)'
    BY <1>8, <2>1, <2>2 DEF ReadsOf, Cached, BytesOf, Sizes, loc, more
  <2> QED
    BY <2>3
<1>10. CASE Became(t, w)
  <2>1. writeId[t] = Len(more) /\ writeId[t] \in Int
    BY <1>3 DEF h
  <2>2. Ghost(w, t, more, g)
    BY <1>3, <1>5, <1>6, <2>1, GhostFlush DEF g
  <2>3. Starts(w.chunks.stsc, g)
    BY <1>3, <1>5, <1>6, <1>7, <2>1, StartsFlush DEF g
  <2>4. Cached(loc, g, Len(w.flushed), more)
    BY <1>3, <1>5, <1>6, <1>8, <2>1, CachedFlush DEF g
  <2> HIDE DEF w
  <2>5. PICK f : f = g
    OBVIOUS
  <2>6. Ghost(Media(t), t, hist[t], f)'
    BY <1>10, <2>2, <2>5, BecameGhost DEF more
  <2>7. Starts(chunks'[t].stsc, f) /\ Cached(loc, f, Len(flushed'[t]), more)
    BY <1>10, <2>3, <2>4, <2>5 DEF Became
  <2>8. ReadsOf(t, f)'
    BY <2>6, <2>7 DEF ReadsOf, Cached, BytesOf, Sizes, loc, more
  <2> QED
    BY <2>8
<1> QED
  BY <1>2, <1>9, <1>10

LEMMA NextReadInv ==
    IInv /\ LookupInv /\ SizesInv /\ TableInv /\ ShapeInv /\ ReadInv /\ [Next]_vars => ReadInv'
<1> SUFFICES ASSUME IInv, LookupInv, SizesInv, TableInv, ShapeInv, ReadInv, [Next]_vars,
                    Reading', NEW t \in Tracks
             PROVE  \E first : ReadsOf(t, first)'
  BY DEF ReadInv
<1>1. Sound' /\ FlushedByWriting /\ WholeUnits /\ phase' = "open"
  BY DEF Reading, FlushedByWriting, WholeUnits
<1>2. Sound /\ phase = "open" /\ OpenStep(t)
  BY <1>1, EveryOpenStep
<1>3. PICK first : ReadsOf(t, first)
  BY <1>1, <1>2 DEF ReadInv, Reading
<1>4. OfSamples(hist[t]) /\ writeId[t] = Len(hist[t]) + 1
  BY <1>2 DEF ShapeInv, ShapeOf, TableInv, Says, SaysIds
<1> QED
  BY <1>1, <1>2, <1>3, <1>4, StayReads, WriteReads DEF OpenStep

LEMMA InitReadInv == Init => ReadInv
<1> SUFFICES ASSUME Init, NEW t \in Tracks
             PROVE  \E first : ReadsOf(t, first)
  BY DEF ReadInv
<1>1. session = 1 /\ chunks[t].stsc = << >> /\ cache[t].sfo.chunk = 0
  BY DEF Init, NoLookups, NoLocation
<1>2. PICK first : Ghost(Media(t), t, hist[t], first)
  BY <1>1, InitShapeInv DEF ShapeInv, ShapeOf
<1>3. Starts(chunks[t].stsc, first)
  BY <1>1, EmptySeq DEF Starts
<1>4. Cached(cache[t].sfo, first, Len(flushed[t]), hist[t])
  BY <1>1 DEF Cached
<1> QED
  BY <1>2, <1>3, <1>4 DEF ReadsOf

LEMMA ReadInvReads ==
    IInv /\ SizesInv /\ ShapeInv /\ ReadInv
      => (Sound /\ FlushedByWriting /\ WholeUnits => ReadBackWhileWriting)
<1> SUFFICES ASSUME IInv, SizesInv, ShapeInv, ReadInv, Sound, FlushedByWriting, WholeUnits,
                    phase = "open", NEW t \in Tracks, NEW k \in InChunks(t)
             PROVE  ReadsBack(t, k, Locate(Media(t), t, k))
  BY DEF ReadBackWhileWriting
<1>1. OfSamples(hist[t])
  BY DEF ShapeInv, ShapeOf
<1>2. PICK first : ReadsOf(t, first)
  BY DEF ReadInv, Reading
<1>3. Ghost(Media(t), t, hist[t], first)
  BY <1>2 DEF ReadsOf
<1>4. k \in 1..Len(hist[t]) /\ k < first[Len(flushed[t]) + 1]
  BY <1>3, InChunksBelow DEF IInv
<1> DEFINE located == Locate(Media(t), t, k)
<1>5. PICK q \in 1..Len(flushed[t]) :
          LocatedIn(located, chunks[t], q, first, hist[t], k, Len(file.bytes))
  BY <1>1, <1>2, <1>4, OpenLocates
<1> HIDE DEF located
<1>6. /\ first[q] <= k /\ k < first[q + 1]
      /\ located.at = IF PlaceOf(chunks[t], q, first, hist[t], k) > Len(file.bytes)
                      THEN THROWN ELSE PlaceOf(chunks[t], q, first, hist[t], k)
  BY <1>5 DEF LocatedIn
<1>7. ReadsBack(t, k, located)
  BY <1>1, <1>3, <1>4, <1>5, <1>6, IInvIntact, ReadsAt DEF IInv
<1> QED
  BY <1>7 DEF located

LEMMA ReadInvariant == Spec => [](IInv /\ SizesInv /\ ShapeInv /\ ReadInv)
<1>1. Init => IInv /\ LookupInv /\ SizesInv /\ TableInv /\ OrderInv /\ ShapeInv /\ ReadInv
  BY InitIInv, InitLookupInv, InitSizesInv, InitTableInv, InitOrderInv, InitShapeInv,
     InitReadInv
<1>2. IInv /\ LookupInv /\ SizesInv /\ TableInv /\ OrderInv /\ ShapeInv /\ ReadInv
          /\ [Next]_vars
      => (IInv /\ LookupInv /\ SizesInv /\ TableInv /\ OrderInv /\ ShapeInv /\ ReadInv)'
  BY NextIInv, NextLookupInv, NextSizesInv, NextTableInv, NextOrderInv, NextShapeInv,
     NextReadInv DEF OrderInv
<1> QED
  BY <1>1, <1>2, PTL DEF Spec

\* The writer finds every sample that is in a chunk while the file is open, in
\* the tables as WriteSample leaves them: with the firstSample that
\* UpdateSampleToChunk computes from m_writeSampleId, and from whatever sample,
\* chunk and offset the last call of GetSampleFileOffset left in its cache.
\* Sound says that the ids agree; an AMR mode change and a read of a buffered
\* sample flush a chunk with the id of a sample that is not in it, after which the
\* writer does not find the samples (run ReadBuffered shows it).
THEOREM WriterReadsBack ==
    Spec => [](Sound /\ FlushedByWriting /\ WholeUnits => ReadBackWhileWriting)
BY ReadInvariant, ReadInvReads, PTL
=============================================================================
