----------------------------- MODULE TrackProofs -----------------------------
(***************************************************************************)
(* Proofs about module Track, for every number of tracks, every set of     *)
(* samples and every bound: the state is well typed, no step damages a     *)
(* chunk that is in the file (ChunksIntact), the frames of one chunk of an *)
(* AMR track have one mode (OneModePerChunk), the movie lasts as long as   *)
(* its longest track (MovieIsLongest), and the sizes of samples are those  *)
(* written (SampleSizes).                                                  *)
(*                                                                         *)
(* ChunksIntact is not inductive.  A flush leaves the chunks alone because *)
(* they end before the file position, and MP4Close and MP4Modify leave     *)
(* them alone because they end before the box written there; MediaBelow    *)
(* says so.  OneModePerChunk needs to know of the buffer, too, that its    *)
(* frames have the mode the writer remembers; MovieIsLongest that each     *)
(* track's duration is its media duration in the movie's time scale, so    *)
(* that it never shrinks.                                                  *)
(***************************************************************************)
EXTENDS TrackProperties, TLAPS, SequenceTheorems

FileType   == [bytes : Seq(Byte), pos : Nat]
BufferType == [bytes : Seq(Byte), samples : Nat, duration : Nat]

\* The chunks of one track are in file f and end at or before limit.
ChunksWithin(f, c, fl, limit) ==
    /\ Len(fl) = Len(c.stco)
    /\ \A i \in 1..Len(fl) :
          /\ c.stco[i] + Len(fl[i]) <= limit
          /\ \A j \in 1..Len(fl[i]) : f.bytes[c.stco[i] + j] = fl[i][j]

ChunksBelow(limit) ==
    \A t \in Tracks : ChunksWithin(file, chunks[t], flushed[t], limit)

\* Chunks end where moov starts, once it is there; before, at the file
\* position, or before the mdat box while it is empty and may be dropped.
MediaBelow ==
    IF phase = "closed"
    THEN MoovAt \in Nat /\ ChunksBelow(MoovAt)
    ELSE /\ file.pos >= mdatAt + MdatHeaderLen
         /\ ChunksBelow(file.pos)
         /\ file.pos = mdatAt + MdatHeaderLen => ChunksBelow(mdatAt)

IInv == StateType /\ MediaBelow

-----------------------------------------------------------------------------
(* Bytes and the file.                                                     *)

LEMMA PayloadType ==
    ASSUME NEW t \in Nat, NEW k \in Nat, NEW size \in Nat
    PROVE  Payload(t, k, size) \in Seq(Byte)
<1>1. \A i \in 1..size : << t, k, i >> \in Byte
  BY DEF Byte
<1>2. [i \in 1..size |-> << t, k, i >>] \in [1..size -> Byte]
  BY <1>1
<1> QED
  BY <1>2 DEF Payload

LEMMA BoxType ==
    ASSUME NEW n \in Nat
    PROVE  Box(n) \in Seq(Byte) /\ Len(Box(n)) = n
<1>1. BOX \in Byte
  BY DEF BOX, Byte
<1>2. Box(n) \in [1..n -> Byte]
  BY <1>1 DEF Box
<1> QED
  BY <1>2

\* g has what f has below the position of f, and its position is not before.
Grows(f, g) == g.pos >= f.pos /\ \A i \in 1..f.pos : g.bytes[i] = f.bytes[i]

\* WriteBytes leaves what is before the position and puts the data after it.
LEMMA WriteBytesProperties ==
    ASSUME NEW f \in FileType, f.pos <= Len(f.bytes), NEW data \in Seq(Byte)
    PROVE  LET g == WriteBytes(f, data)
           IN  /\ g \in FileType /\ g.pos <= Len(g.bytes)
               /\ g.pos = f.pos + Len(data)
               /\ Grows(f, g)
               /\ \A i \in 1..Len(data) : g.bytes[f.pos + i] = data[i]
<1> DEFINE end == f.pos + Len(data)
           len == IF end > Len(f.bytes) THEN end ELSE Len(f.bytes)
           g   == WriteBytes(f, data)
<1>1. f.pos \in Nat /\ f.bytes \in Seq(Byte)
  BY DEF FileType
<1>2. Len(data) \in Nat /\ Len(f.bytes) \in Nat /\ end \in Nat /\ len \in Nat
  BY <1>1, LenProperties
<1>3. g = [pos |-> end,
           bytes |-> [i \in 1..len |-> IF i > f.pos /\ i <= end THEN data[i - f.pos]
                                       ELSE f.bytes[i]]]
  BY DEF WriteBytes
<1> HIDE DEF g
<1>4. \A i \in 1..len : (IF i > f.pos /\ i <= end THEN data[i - f.pos]
                         ELSE f.bytes[i]) \in Byte
  <2> SUFFICES ASSUME NEW i \in 1..len
               PROVE  (IF i > f.pos /\ i <= end THEN data[i - f.pos] ELSE f.bytes[i])
                          \in Byte
    OBVIOUS
  <2>1. CASE i > f.pos /\ i <= end
    <3>1. i - f.pos \in 1..Len(data)
      BY <1>1, <1>2, <2>1
    <3> QED
      BY <2>1, <3>1, ElementOfSeq
  <2>2. CASE ~(i > f.pos /\ i <= end)
    <3>1. i \in 1..Len(f.bytes)
      BY <1>1, <1>2, <2>2
    <3> QED
      BY <1>1, <2>2, <3>1, ElementOfSeq
  <2> QED
    BY <2>1, <2>2
<1>5. g.bytes \in [1..len -> Byte]
  BY <1>3, <1>4
<1>6. g.bytes \in Seq(Byte) /\ Len(g.bytes) = len
  BY <1>2, <1>5
<1>7. g \in FileType /\ g.pos = end /\ g.pos <= Len(g.bytes)
  BY <1>1, <1>2, <1>3, <1>6 DEF FileType
<1>8. Grows(f, g)
  BY <1>1, <1>2, <1>3 DEF Grows
<1>9. \A i \in 1..Len(data) : g.bytes[f.pos + i] = data[i]
  BY <1>1, <1>2, <1>3
<1> QED
  BY <1>7, <1>8, <1>9 DEF g

\* A chunk stays where it is when the file only changes beyond it.
LEMMA WithinKept ==
    ASSUME NEW f, NEW g, NEW c, NEW fl, NEW limit \in Nat, NEW limit2 \in Nat,
           c.stco \in Seq(Nat), fl \in Seq(Seq(Byte)),
           ChunksWithin(f, c, fl, limit), limit <= limit2,
           \A i \in 1..limit : g.bytes[i] = f.bytes[i]
    PROVE  ChunksWithin(g, c, fl, limit2)
<1> SUFFICES ASSUME NEW i \in 1..Len(fl)
             PROVE  /\ c.stco[i] + Len(fl[i]) <= limit2
                    /\ \A j \in 1..Len(fl[i]) : g.bytes[c.stco[i] + j] = fl[i][j]
  BY DEF ChunksWithin
<1>1. c.stco[i] \in Nat /\ fl[i] \in Seq(Byte) /\ Len(fl[i]) \in Nat
  <2>1. i \in 1..Len(c.stco)
    BY DEF ChunksWithin
  <2>2. c.stco[i] \in Nat
    BY <2>1, ElementOfSeq
  <2>3. fl[i] \in Seq(Byte)
    BY ElementOfSeq
  <2> QED
    BY <2>2, <2>3, LenProperties
<1>2. c.stco[i] + Len(fl[i]) <= limit
  BY DEF ChunksWithin
<1>3. ASSUME NEW j \in 1..Len(fl[i])
      PROVE  g.bytes[c.stco[i] + j] = fl[i][j]
  <2> DEFINE at  == c.stco[i]
             len == Len(fl[i])
  <2>1. at + j \in 1..limit
    <3>1. at \in Nat /\ len \in Nat /\ j \in 1..len /\ at + len <= limit
      BY <1>1, <1>2
    <3> HIDE DEF at, len
    <3> QED
      BY <3>1
  <2>2. f.bytes[c.stco[i] + j] = fl[i][j]
    BY DEF ChunksWithin
  <2> QED
    BY <2>1, <2>2
<1> QED
  BY <1>1, <1>2, <1>3

-----------------------------------------------------------------------------
(* One track's media: what flushes and appends make of it.                 *)

IsMedia(m) ==
    /\ m = [file |-> m.file, chunks |-> m.chunks, buffer |-> m.buffer,
            flushed |-> m.flushed]
    /\ m.file \in FileType /\ m.file.pos <= Len(m.file.bytes)
    /\ m.chunks.stco \in Seq(Nat)
    /\ m.buffer \in BufferType
    /\ m.flushed \in Seq(Seq(Byte))

\* n is media m after some flushes and appends: chunks are added behind the
\* position, and none as long as the position stays.
Follows(m, n) ==
    /\ IsMedia(n)
    /\ Grows(m.file, n.file)
    /\ ChunksWithin(m.file, m.chunks, m.flushed, m.file.pos)
          => ChunksWithin(n.file, n.chunks, n.flushed, n.file.pos)
    /\ n.file.pos = m.file.pos => n.chunks = m.chunks /\ n.flushed = m.flushed

LEMMA FollowsTransitive ==
    ASSUME NEW m, NEW n, NEW o, IsMedia(m), Follows(m, n), Follows(n, o)
    PROVE  Follows(m, o)
<1>1. m.file.pos \in Nat /\ n.file.pos \in Nat /\ o.file.pos \in Nat
  BY DEF IsMedia, Follows, FileType
<1>2. Grows(m.file, o.file)
  BY <1>1 DEF Follows, Grows
<1>3. o.file.pos = m.file.pos => n.file.pos = m.file.pos /\ o.file.pos = n.file.pos
  BY <1>1 DEF Follows, Grows
<1> QED
  BY <1>2, <1>3 DEF Follows

LEMMA FollowsItself ==
    ASSUME NEW m, IsMedia(m)
    PROVE  Follows(m, m)
<1>1. m.file.pos \in Nat
  BY DEF IsMedia, FileType
<1> QED
  BY <1>1 DEF Follows, Grows

LEMMA BufferFollows ==
    ASSUME NEW m, IsMedia(m), NEW b \in BufferType
    PROVE  Follows(m, [m EXCEPT !.buffer = b])
<1> DEFINE n == [m EXCEPT !.buffer = b]
<1>1. m = [file |-> m.file, chunks |-> m.chunks, buffer |-> m.buffer,
           flushed |-> m.flushed]
  BY DEF IsMedia
<1>2. n = [file |-> m.file, chunks |-> m.chunks, buffer |-> b, flushed |-> m.flushed]
  BY <1>1
<1> HIDE DEF n
<1>3. m.file.pos \in Nat
  BY DEF IsMedia, FileType
<1>4. IsMedia(n)
  BY <1>2 DEF IsMedia
<1>5. Grows(m.file, n.file)
  BY <1>2, <1>3 DEF Grows
<1>6. Follows(m, n)
  BY <1>2, <1>4, <1>5 DEF Follows
<1> QED
  BY <1>6 DEF n

\* A write that fails leaves the chunks alone and adds none.
LEMMA WriteChunkBufferFailsFollows ==
    ASSUME NEW m, IsMedia(m), NEW k \in 0..(Len(m.buffer.bytes) - 1)
    PROVE  Follows(m, WriteChunkBufferFails(m, k))
<1> DEFINE data == SubSeq(m.buffer.bytes, 1, k)
           n    == WriteChunkBufferFails(m, k)
<1>1. m.buffer.bytes \in Seq(Byte) /\ Len(m.buffer.bytes) \in Nat
  BY LenProperties DEF IsMedia, BufferType
<1>2. \A i \in 1..k : m.buffer.bytes[i] \in Byte
  BY <1>1, ElementOfSeq
<1>3. data \in Seq(Byte)
  BY <1>1, <1>2, SubSeqProperties
<1> HIDE DEF data
<1>4. m.file \in FileType /\ m.file.pos <= Len(m.file.bytes) /\ m.file.pos \in Nat
  BY DEF IsMedia, FileType
<1> DEFINE g == WriteBytes(m.file, data)
<1>5. /\ g \in FileType /\ g.pos <= Len(g.bytes) /\ Grows(m.file, g)
      /\ g.pos \in Nat
  BY <1>3, <1>4, WriteBytesProperties DEF FileType
<1>6. m = [file |-> m.file, chunks |-> m.chunks, buffer |-> m.buffer,
           flushed |-> m.flushed]
  BY DEF IsMedia
<1>7. n = [file |-> g, chunks |-> m.chunks, buffer |-> m.buffer, flushed |-> m.flushed]
  BY <1>6 DEF WriteChunkBufferFails, data
<1> HIDE DEF g, n
<1>8. IsMedia(n)
  BY <1>5, <1>7 DEF IsMedia
<1>9. ASSUME ChunksWithin(m.file, m.chunks, m.flushed, m.file.pos)
      PROVE  ChunksWithin(n.file, n.chunks, n.flushed, n.file.pos)
  <2>1. m.chunks.stco \in Seq(Nat) /\ m.flushed \in Seq(Seq(Byte))
    BY DEF IsMedia
  <2>2. m.file.pos <= g.pos /\ \A i \in 1..m.file.pos : g.bytes[i] = m.file.bytes[i]
    BY <1>4, <1>5 DEF Grows
  <2>3. ChunksWithin(g, m.chunks, m.flushed, g.pos)
    BY <1>4, <1>5, <1>9, <2>1, <2>2, WithinKept
  <2> QED
    BY <1>7, <2>3
<1>10. Follows(m, n)
  BY <1>5, <1>7, <1>8, <1>9 DEF Follows
<1> QED
  BY <1>10 DEF n

\* A flush that succeeds adds a chunk with the buffer's bytes.
LEMMA WriteChunkBufferFollows ==
    ASSUME NEW m, IsMedia(m), NEW id
    PROVE  Follows(m, WriteChunkBuffer(m, id))
<1>1. CASE m.buffer.bytes = << >>
  BY <1>1, FollowsItself DEF WriteChunkBuffer
<1>2. CASE m.buffer.bytes # << >>
  <2> DEFINE data == m.buffer.bytes
             g    == WriteBytes(m.file, data)
             n    == WriteChunkBuffer(m, id)
             c    == m.chunks.stco
  <2>1. data \in Seq(Byte) /\ Len(data) \in Nat \ {0}
    BY <1>2, EmptySeq DEF IsMedia, BufferType
  <2>2. /\ m.file \in FileType /\ m.file.pos <= Len(m.file.bytes)
        /\ m.file.pos \in Nat
    BY DEF IsMedia, FileType
  <2>3. /\ g \in FileType /\ g.pos <= Len(g.bytes) /\ Grows(m.file, g)
        /\ g.pos = m.file.pos + Len(data) /\ g.pos \in Nat
        /\ \A i \in 1..Len(data) : g.bytes[m.file.pos + i] = data[i]
    BY <2>1, <2>2, WriteBytesProperties DEF FileType
  <2>4. /\ n.file = g /\ n.chunks.stco = Append(c, m.file.pos)
        /\ n.buffer = EmptyBuffer /\ n.flushed = Append(m.flushed, data)
        /\ n = [file |-> n.file, chunks |-> n.chunks, buffer |-> n.buffer,
                flushed |-> n.flushed]
    BY <1>2 DEF WriteChunkBuffer
  <2>5. c \in Seq(Nat) /\ m.flushed \in Seq(Seq(Byte))
    BY DEF IsMedia
  <2> HIDE DEF g, n, c, data
  <2>6. /\ n.chunks.stco \in Seq(Nat) /\ Len(n.chunks.stco) = Len(c) + 1
        /\ \A i \in 1..Len(c) : n.chunks.stco[i] = c[i]
        /\ n.chunks.stco[Len(c) + 1] = m.file.pos
    BY <2>2, <2>4, <2>5, AppendProperties
  <2>7. /\ n.flushed \in Seq(Seq(Byte)) /\ Len(n.flushed) = Len(m.flushed) + 1
        /\ \A i \in 1..Len(m.flushed) : n.flushed[i] = m.flushed[i]
        /\ n.flushed[Len(m.flushed) + 1] = data
    BY <2>1, <2>4, <2>5, AppendProperties
  <2>8. EmptyBuffer \in BufferType
    BY DEF EmptyBuffer, BufferType
  <2>9. IsMedia(n)
    BY <2>3, <2>4, <2>6, <2>7, <2>8 DEF IsMedia
  <2>10. ASSUME ChunksWithin(m.file, m.chunks, m.flushed, m.file.pos)
         PROVE  ChunksWithin(n.file, n.chunks, n.flushed, n.file.pos)
    <3>1. ChunksWithin(g, m.chunks, m.flushed, g.pos)
      <4>1. m.file.pos <= g.pos /\ \A i \in 1..m.file.pos : g.bytes[i] = m.file.bytes[i]
        BY <2>2, <2>3 DEF Grows
      <4>2. m.chunks.stco \in Seq(Nat) /\ m.file.pos \in Nat /\ g.pos \in Nat
        BY <2>2, <2>3, <2>5 DEF c
      <4> QED
        BY <2>5, <2>10, <4>1, <4>2, WithinKept
    <3>2. Len(m.flushed) = Len(c) /\ Len(c) \in Nat
      BY <2>5, <2>10, LenProperties DEF ChunksWithin, c
    <3>3. ASSUME NEW i \in 1..Len(n.flushed)
          PROVE  /\ n.chunks.stco[i] + Len(n.flushed[i]) <= g.pos
                 /\ \A j \in 1..Len(n.flushed[i]) :
                       g.bytes[n.chunks.stco[i] + j] = n.flushed[i][j]
      <4>1. CASE i \in 1..Len(m.flushed)
        <5>1. n.chunks.stco[i] = m.chunks.stco[i] /\ n.flushed[i] = m.flushed[i]
          BY <2>6, <2>7, <3>2, <4>1 DEF c
        <5> QED
          BY <3>1, <4>1, <5>1 DEF ChunksWithin
      <4>2. CASE i = Len(m.flushed) + 1
        <5>1. n.chunks.stco[i] = m.file.pos /\ n.flushed[i] = data
          BY <2>6, <2>7, <3>2, <4>2
        <5> QED
          BY <2>2, <2>3, <5>1
      <4> QED
        BY <2>7, <3>2, <3>3, <4>1, <4>2
    <3>4. Len(n.flushed) = Len(n.chunks.stco)
      BY <2>6, <2>7, <3>2
    <3> QED
      BY <2>4, <3>3, <3>4 DEF ChunksWithin
  <2>11. n.file.pos # m.file.pos
    BY <2>1, <2>2, <2>3, <2>4
  <2>12. Follows(m, n)
    BY <2>3, <2>4, <2>9, <2>10, <2>11 DEF Follows
  <2> QED
    BY <2>12 DEF n
<1> QED
  BY <1>1, <1>2
-----------------------------------------------------------------------------
(* The types of the tables writing fills.                                  *)

SizesType == [fixed : Nat, count : Nat, sizes : Seq(Nat)]
SyncType  == [present : BOOLEAN, ids : Seq(Nat \ {0})]

LEMMA UpdateSampleSizesType ==
    ASSUME NEW z \in SizesType, NEW id, NEW n \in Nat, NEW bps \in Nat \ {0}
    PROVE  UpdateSampleSizes(z, id, n, bps) \in SizesType
<1> DEFINE units   == n \div bps
           first   == id = 1 /\ z.count = 0
           repeated == [i \in 1..z.count |-> z.fixed]
           earlier == IF z.fixed = 0 THEN z.sizes ELSE z.sizes \o repeated
<1>1. units \in Nat
  OBVIOUS
<1>2. z.fixed \in Nat /\ z.count \in Nat /\ z.sizes \in Seq(Nat)
  BY DEF SizesType
<1>3. earlier \in Seq(Nat)
  <2>1. repeated \in [1..z.count -> Nat]
    BY <1>2
  <2>2. repeated \in Seq(Nat)
    BY <1>2, <2>1
  <2> QED
    BY <1>2, <2>2, ConcatProperties
<1> HIDE DEF units, earlier, first
<1>4. Append(earlier, units) \in Seq(Nat)
  BY <1>1, <1>3, AppendProperties
<1>5. UpdateSampleSizes(z, id, n, bps) =
        [count |-> z.count + 1,
         fixed |-> IF first \/ units = z.fixed THEN units ELSE 0,
         sizes |-> IF units # 0 /\ (first \/ units = z.fixed)
                   THEN z.sizes ELSE Append(earlier, units)]
  BY DEF UpdateSampleSizes, units, first, earlier
<1> QED
  BY <1>1, <1>2, <1>4, <1>5 DEF SizesType

LEMMA AppendRunType ==
    ASSUME NEW runs \in Seq(RunType), NEW v \in Nat
    PROVE  AppendRun(runs, v) \in Seq(RunType)
<1>1. \A n \in Nat : Run(n, v) \in RunType
  BY DEF Run, RunType
<1>2. CASE runs # << >> /\ runs[Len(runs)].v = v
  <2>1. Len(runs) \in 1..Len(runs)
    BY <1>2, EmptySeq
  <2>2. runs[Len(runs)].n \in Nat
    <3>1. runs[Len(runs)] \in RunType
      BY <2>1, ElementOfSeq
    <3> QED
      BY <3>1 DEF RunType
  <2>3. Run(runs[Len(runs)].n + 1, v) \in RunType
    BY <1>1, <2>2
  <2>4. [runs EXCEPT ![Len(runs)] = Run(runs[Len(runs)].n + 1, v)] \in Seq(RunType)
    BY <2>1, <2>3, ExceptSeq
  <2> QED
    BY <1>2, <2>4 DEF AppendRun
<1>3. CASE ~(runs # << >> /\ runs[Len(runs)].v = v)
  BY <1>1, <1>3, AppendProperties DEF AppendRun
<1> QED
  BY <1>2, <1>3

LEMMA UpdateSyncSamplesType ==
    ASSUME NEW y \in SyncType, NEW id \in Nat \ {0}, NEW sync \in BOOLEAN,
           NEW count \in Nat
    PROVE  UpdateSyncSamples(y, id, sync, count) \in SyncType
<1>1. y.ids \in Seq(Nat \ {0})
  BY DEF SyncType
<1>2. Append(y.ids, id) \in Seq(Nat \ {0})
  BY <1>1, AppendProperties
<1>3. [i \in 1..(count - 1) |-> i] \in Seq(Nat \ {0})
  <2>1. CASE count = 0
    <3>1. 1..(count - 1) = {}
      BY <2>1
    <3>2. [i \in 1..(count - 1) |-> i] = << >>
      BY <3>1
    <3> QED
      BY <3>2
  <2>2. CASE count # 0
    <3>1. count - 1 \in Nat
      BY <2>2
    <3>2. [i \in 1..(count - 1) |-> i] \in [1..(count - 1) -> Nat \ {0}]
      OBVIOUS
    <3> QED
      BY <3>1, <3>2
  <2> QED
    BY <2>1, <2>2
<1> QED
  BY <1>2, <1>3 DEF UpdateSyncSamples, SyncType

\* The sample as the history has it: its duration is known by then.
LEMMA DurationType ==
    ASSUME WriterType, NEW t \in Tracks, NEW s \in Samples
    PROVE  /\ Duration(t, s) \in Nat
           /\ [s EXCEPT !.duration = Duration(t, s)] \in SampleType
<1>1. s \in [size : Nat, duration : Nat \cup {FIXED}, offset : Nat, sync : BOOLEAN,
             mode : Nat]
  BY SampleAssumption
<1>2. GetFixedSampleDuration(stts[t], IF session = 1 THEN FixedDuration ELSE 0) \in Nat
  <2>1. stts[t] \in Seq(RunType)
    BY DEF WriterType
  <2>2. stts[t] # << >> => stts[t][1] \in RunType
    BY <2>1, EmptySeq, ElementOfSeq
  <2> QED
    BY <2>2, SampleAssumption DEF GetFixedSampleDuration, RunType
<1>3. Duration(t, s) \in Nat
  BY <1>1, <1>2 DEF Duration
<1> QED
  BY <1>1, <1>3 DEF SampleType
-----------------------------------------------------------------------------
(* The initial states, and steps that work on one track's media.           *)

LEMMA InitIInv == Init => IInv
<1> SUFFICES ASSUME Init PROVE IInv
  OBVIOUS
<1>1. FtypLen + MdatHeaderLen \in Nat /\ FtypLen \in Nat
  BY BoxAssumption
<1>2. /\ Box(FtypLen + MdatHeaderLen) \in Seq(Byte)
      /\ Len(Box(FtypLen + MdatHeaderLen)) = FtypLen + MdatHeaderLen
  BY <1>1, BoxType
<1>3. file \in [bytes : Seq(Byte), pos : Nat] /\ file.pos <= Len(file.bytes)
  BY <1>1, <1>2 DEF Init
<1>4. EmptyBuffer \in [bytes : Seq(Byte), samples : Nat, duration : Nat]
  BY DEF EmptyBuffer
<1>5. MediaType
  <2>1. buffer \in [Tracks -> [bytes : Seq(Byte), samples : Nat, duration : Nat]]
    BY <1>4 DEF Init
  <2>2. flushed \in [Tracks -> Seq(Seq(Byte))]
    BY DEF Init
  <2>3. DOMAIN chunks = Tracks /\ \A t \in Tracks : chunks[t].stco \in Seq(Nat)
    <3>1. chunks = [t \in Tracks |-> [stsc |-> << >>, stco |-> << >>]]
      BY DEF Init
    <3>2. DOMAIN chunks = Tracks
      BY <3>1
    <3>3. ASSUME NEW t \in Tracks PROVE chunks[t].stco = << >>
      BY <3>1, Zenon
    <3> QED
      BY <3>2, <3>3, EmptySeq
  <2>4. mdatAt \in Nat
    BY <1>1 DEF Init
  <2> QED
    BY <1>3, <2>1, <2>2, <2>3, <2>4 DEF MediaType
<1>6. NoSizes \in [fixed : Nat, count : Nat, sizes : Seq(Nat)]
  BY DEF NoSizes
<1>7. AllSync \in [present : BOOLEAN, ids : Seq(Nat \ {0})]
  BY DEF AllSync
<1>8. WriterType
  BY <1>6, <1>7, CountsAssumption, TrackAssumption DEF Init, WriterType
<1>9. file.pos = mdatAt + MdatHeaderLen /\ phase # "closed"
  BY <1>1 DEF Init
<1>10. ChunksBelow(file.pos) /\ ChunksBelow(mdatAt)
  BY DEF Init, ChunksBelow, ChunksWithin
<1>11. MediaBelow
  BY <1>9, <1>10, <1>1, BoxAssumption DEF MediaBelow, Init
<1> QED
  BY <1>5, <1>8, <1>11 DEF IInv, StateType

LEMMA MediaIsMedia ==
    ASSUME MediaType, NEW t \in Tracks
    PROVE  /\ IsMedia(Media(t)) /\ Media(t).file = file
           /\ Media(t).chunks = chunks[t] /\ Media(t).flushed = flushed[t]
           /\ Media(t).buffer = buffer[t]
BY DEF MediaType, IsMedia, Media, FileType, BufferType

\* A call that makes n of a track's media keeps the media part of IInv.
LEMMA SetMediaKeeps ==
    ASSUME MediaType, MediaBelow, NEW t \in Tracks, NEW n, Follows(Media(t), n),
           SetMedia(t, n), mdatAt' = mdatAt, phase # "closed", phase' # "closed"
    PROVE  MediaType' /\ MediaBelow'
<1> DEFINE m == Media(t)
<1>1. /\ IsMedia(m) /\ m.file = file
      /\ m.chunks = chunks[t] /\ m.flushed = flushed[t]
  BY MediaIsMedia
<1> HIDE DEF m
<1>2. IsMedia(n) /\ Grows(m.file, n.file) /\ Follows(m, n)
  BY DEF Follows, m
<1>3. /\ file' = n.file
      /\ chunks' = [chunks EXCEPT ![t] = n.chunks]
      /\ flushed' = [flushed EXCEPT ![t] = n.flushed]
      /\ buffer' = [buffer EXCEPT ![t] = n.buffer]
  BY DEF SetMedia
<1>4. /\ DOMAIN chunks' = Tracks
      /\ chunks'[t] = n.chunks /\ flushed'[t] = n.flushed
      /\ \A u \in Tracks : u # t => chunks'[u] = chunks[u] /\ flushed'[u] = flushed[u]
  BY <1>3 DEF MediaType
<1>5. MediaType'
  <2>1. file' \in [bytes : Seq(Byte), pos : Nat] /\ file'.pos <= Len(file'.bytes)
    BY <1>2, <1>3 DEF IsMedia, FileType
  <2>2. \A u \in Tracks : chunks'[u].stco \in Seq(Nat)
    BY <1>2, <1>4 DEF IsMedia, MediaType
  <2>3. buffer' \in [Tracks -> [bytes : Seq(Byte), samples : Nat, duration : Nat]]
    BY <1>2, <1>3 DEF IsMedia, MediaType, BufferType
  <2>4. flushed' \in [Tracks -> Seq(Seq(Byte))]
    BY <1>2, <1>3 DEF IsMedia, MediaType
  <2> QED
    BY <1>4, <2>1, <2>2, <2>3, <2>4 DEF MediaType
<1>6. file.pos \in Nat /\ file'.pos \in Nat /\ mdatAt \in Nat
  BY <1>5 DEF MediaType
<1>7. file'.pos >= file.pos /\ \A i \in 1..file.pos : file'.bytes[i] = file.bytes[i]
  BY <1>1, <1>2, <1>3 DEF Grows
<1>8. file.pos >= mdatAt + MdatHeaderLen /\ ChunksBelow(file.pos)
  BY DEF MediaBelow
\* The other tracks' chunks stay below any limit up to the old position.
<1>9. ASSUME NEW limit \in Nat, limit <= file.pos, ChunksBelow(limit),
             NEW limit2 \in Nat, limit <= limit2, NEW u \in Tracks
      PROVE  ChunksWithin(file', chunks[u], flushed[u], limit2)
  <2>1. chunks[u].stco \in Seq(Nat) /\ flushed[u] \in Seq(Seq(Byte))
    BY DEF MediaType
  <2>2. ChunksWithin(file, chunks[u], flushed[u], limit)
    BY <1>9 DEF ChunksBelow
  <2>3. \A i \in 1..limit : file'.bytes[i] = file.bytes[i]
    BY <1>6, <1>7, <1>9
  <2> QED
    BY <1>9, <2>1, <2>2, <2>3, WithinKept
<1>10. ChunksBelow(file.pos)'
  <2>1. ChunksWithin(file', chunks'[t], flushed'[t], file'.pos)
    <3>1. ChunksWithin(m.file, m.chunks, m.flushed, m.file.pos)
      BY <1>1, <1>8 DEF ChunksBelow
    <3> QED
      BY <1>2, <1>3, <1>4, <3>1 DEF Follows
  <2>2. ASSUME NEW u \in Tracks, u # t
        PROVE  ChunksWithin(file', chunks'[u], flushed'[u], file'.pos)
    BY <1>4, <1>6, <1>7, <1>8, <1>9, <2>2
  <2> QED
    BY <2>1, <2>2 DEF ChunksBelow
<1>11. ASSUME file'.pos = mdatAt + MdatHeaderLen
       PROVE  ChunksBelow(mdatAt)'
  <2>1. file'.pos = file.pos /\ ChunksBelow(mdatAt)
    BY <1>6, <1>7, <1>8, <1>11, BoxAssumption DEF MediaBelow
  <2>2. chunks'[t] = chunks[t] /\ flushed'[t] = flushed[t]
    BY <1>1, <1>2, <1>3, <1>4, <2>1 DEF Follows
  <2>3. mdatAt <= file.pos
    BY <1>6, <1>8, BoxAssumption
  <2>4. ASSUME NEW u \in Tracks
        PROVE  ChunksWithin(file', chunks'[u], flushed'[u], mdatAt')
    <3>1. chunks'[u] = chunks[u] /\ flushed'[u] = flushed[u]
      BY <1>4, <2>2
    <3>2. ChunksWithin(file', chunks[u], flushed[u], mdatAt)
      BY <1>6, <1>9, <2>1, <2>3
    <3> QED
      BY <3>1, <3>2
  <2> QED
    BY <2>4 DEF ChunksBelow
<1>12. MediaBelow'
  BY <1>6, <1>7, <1>8, <1>10, <1>11, BoxAssumption DEF MediaBelow
<1> QED
  BY <1>5, <1>12
-----------------------------------------------------------------------------
(* MP4Track::WriteSample.                                                  *)

\* A step that changes nothing of the tables, the writer and the durations.
LEMMA WriterKept ==
    ASSUME WriterType, UNCHANGED << stsz, stts, stss, hist >>,
           UNCHANGED << writer, durations >>,
           phase' \in {"open", "finishing", "closed", "failed", "crashed"},
           next' \in 1..(NumTracks + 1), session' \in 1..MaxSessions,
           faults' \in 0..MaxFaults
    PROVE  WriterType'
BY DEF WriterType, writer, durations

LEMMA WriteFaultType ==
    ASSUME faults \in 0..MaxFaults, WriteFault
    PROVE  faults' \in 0..MaxFaults
BY CountsAssumption DEF WriteFault

LEMMA WrittenType ==
    ASSUME NEW t, NEW s \in Written(t)
    PROVE  s \in Samples /\ s \in [size : Nat, duration : Nat \cup {FIXED},
                                   offset : Nat, sync : BOOLEAN, mode : Nat]
BY SampleAssumption DEF Written

LEMMA RecordSampleType ==
    ASSUME WriterType, NEW t \in Tracks, NEW s \in Written(t), RecordSample(t, s)
    PROVE  /\ stsz' \in [Tracks -> SizesType]
           /\ stts' \in [Tracks -> Seq(RunType)]
           /\ stss' \in [Tracks -> SyncType]
           /\ hist' \in [Tracks -> Seq(SampleType)]
<1>1. s \in Samples /\ s.size \in Nat /\ s.sync \in BOOLEAN
  BY WrittenType
<1>2. /\ stsz \in [Tracks -> SizesType] /\ stts \in [Tracks -> Seq(RunType)]
      /\ stss \in [Tracks -> SyncType] /\ hist \in [Tracks -> Seq(SampleType)]
      /\ writeId[t] \in Nat \ {0}
  BY DEF WriterType, SizesType, SyncType
<1>3. /\ Duration(t, s) \in Nat
      /\ [s EXCEPT !.duration = Duration(t, s)] \in SampleType
  BY <1>1, DurationType
<1>4. UpdateSampleSizes(stsz[t], writeId[t], s.size, BytesPerSample) \in SizesType
  BY <1>1, <1>2, UpdateSampleSizesType, TrackAssumption
<1>5. AppendRun(stts[t], Duration(t, s)) \in Seq(RunType)
  BY <1>2, <1>3, AppendRunType
<1>6. UpdateSyncSamples(stss[t], writeId[t], s.sync, stsz[t].count + 1) \in SyncType
  <2>1. stsz[t].count + 1 \in Nat
    BY <1>2 DEF SizesType
  <2> QED
    BY <1>1, <1>2, <2>1, UpdateSyncSamplesType
<1>7. Append(hist[t], [s EXCEPT !.duration = Duration(t, s)]) \in Seq(SampleType)
  BY <1>2, <1>3, AppendProperties
<1> QED
  BY <1>2, <1>4, <1>5, <1>6, <1>7 DEF RecordSample

\* The buffer with the sample in it, after the flush a mode change forces.
LEMMA BufferedFollows ==
    ASSUME MediaType, WriterType, NEW t \in Tracks, NEW s \in Written(t)
    PROVE  Follows(Media(t), Buffered(t, s))
<1> DEFINE m == ModeFlushed(t, s)
           p == Payload(t, Len(hist[t]) + 1, s.size)
           b == [bytes    |-> m.buffer.bytes \o p,
                 samples  |-> m.buffer.samples + 1,
                 duration |-> m.buffer.duration + Duration(t, s)]
<1>1. IsMedia(Media(t))
  BY MediaIsMedia
<1>2. Follows(Media(t), m)
  BY <1>1, WriteChunkBufferFollows, FollowsItself DEF ModeFlushed
<1> HIDE DEF m
<1>3. IsMedia(m)
  BY <1>2 DEF Follows
<1>4. /\ m.buffer.bytes \in Seq(Byte) /\ m.buffer.samples \in Nat
      /\ m.buffer.duration \in Nat
  BY <1>3 DEF IsMedia, BufferType
<1>5. p \in Seq(Byte)
  <2>1. t \in Nat /\ s.size \in Nat
    BY WrittenType, CountsAssumption DEF Tracks
  <2>2. Len(hist[t]) + 1 \in Nat
    BY LenProperties DEF WriterType
  <2> QED
    BY <2>1, <2>2, PayloadType
<1>6. Duration(t, s) \in Nat
  BY WrittenType, DurationType
<1> HIDE DEF p
<1>7. m.buffer.bytes \o p \in Seq(Byte)
  BY <1>4, <1>5, ConcatProperties
<1>8. b \in BufferType
  BY <1>4, <1>6, <1>7 DEF BufferType
<1>9. Buffered(t, s) = [m EXCEPT !.buffer = b]
  BY DEF Buffered, m, p
<1> HIDE DEF b
<1>10. Follows(m, Buffered(t, s))
  BY <1>3, <1>8, <1>9, BufferFollows
<1> QED
  BY <1>1, <1>2, <1>10, FollowsTransitive

LEMMA DurationsType ==
    ASSUME WriterType, NEW t \in Tracks, NEW d \in Nat, UpdateDurations(t, d)
    PROVE  /\ mediaDuration' \in [Tracks -> Nat] /\ trackDuration' \in [Tracks -> Nat]
           /\ movieDuration' \in Nat
<1> DEFINE media == mediaDuration[t] + d
           movie == (media * MovieTimeScale) \div TimeScale
<1>1. /\ mediaDuration \in [Tracks -> Nat] /\ trackDuration \in [Tracks -> Nat]
      /\ movieDuration \in Nat
  BY DEF WriterType
<1>2. media \in Nat
  BY <1>1
<1> HIDE DEF media
<1>3. media * MovieTimeScale \in Nat
  BY <1>2, TrackAssumption
<1>4. movie \in Nat
  <2> DEFINE scaled == media * MovieTimeScale
  <2> HIDE DEF scaled
  <2>1. scaled \in Nat /\ TimeScale \in Nat \ {0}
    BY <1>3, TrackAssumption DEF scaled
  <2>2. scaled \div TimeScale \in Nat
    BY <2>1
  <2> QED
    BY <2>2 DEF scaled
<1>5. /\ mediaDuration' = [mediaDuration EXCEPT ![t] = media]
      /\ trackDuration' = [trackDuration EXCEPT ![t] = movie]
      /\ movieDuration' = IF movie > movieDuration THEN movie ELSE movieDuration
  BY DEF UpdateDurations, media
<1> HIDE DEF movie
<1> QED
  BY <1>1, <1>2, <1>4, <1>5

LEMMA ModeType ==
    ASSUME WriterType, NEW t \in Tracks, NEW s \in Written(t),
           curMode' = [curMode EXCEPT ![t] = IF t \in AmrTracks THEN s.mode ELSE @]
    PROVE  curMode' \in [Tracks -> Nat \cup {NoMode}]
<1>1. s.mode \in Nat /\ curMode \in [Tracks -> Nat \cup {NoMode}]
  BY WrittenType DEF WriterType
<1> QED
  BY <1>1

LEMMA WriteSampleStep ==
    ASSUME IInv, NEW t \in Tracks, NEW s \in Written(t), WriteSample(t, s)
    PROVE  IInv'
<1> DEFINE b == Buffered(t, s)
           n == IF IsChunkFull(b.buffer, perChunk[t])
                THEN WriteChunkBuffer(b, writeId[t]) ELSE b
<1>1. MediaType /\ WriterType /\ MediaBelow
  BY DEF IInv, StateType
<1>2. phase = "open" /\ UNCHANGED << mdatAt, perChunk, phase, next, session, faults >>
  BY DEF WriteSample, CanWrite, call
<1>3. Follows(Media(t), n)
  <2>1. Follows(Media(t), b) /\ IsMedia(Media(t))
    BY <1>1, BufferedFollows, MediaIsMedia
  <2> HIDE DEF b
  <2>2. Follows(b, WriteChunkBuffer(b, writeId[t]))
    BY <2>1, WriteChunkBufferFollows DEF Follows
  <2> QED
    BY <2>1, <2>2, FollowsTransitive
<1>4. SetMedia(t, n) /\ RecordSample(t, s) /\ UpdateDurations(t, Duration(t, s))
  BY DEF WriteSample
<1> HIDE DEF n
<1>5. MediaType' /\ MediaBelow'
  BY <1>1, <1>2, <1>3, <1>4, SetMediaKeeps
<1>6. WriterType'
  <2>1. /\ stsz' \in [Tracks -> SizesType] /\ stts' \in [Tracks -> Seq(RunType)]
        /\ stss' \in [Tracks -> SyncType] /\ hist' \in [Tracks -> Seq(SampleType)]
    BY <1>1, <1>4, RecordSampleType
  <2>2. /\ mediaDuration' \in [Tracks -> Nat] /\ trackDuration' \in [Tracks -> Nat]
        /\ movieDuration' \in Nat
    BY <1>1, <1>4, WrittenType, DurationType, DurationsType
  <2>3. curMode' \in [Tracks -> Nat \cup {NoMode}]
    BY <1>1, ModeType DEF WriteSample
  <2>4. writeId' \in [Tracks -> Nat \ {0}]
    BY <1>1 DEF WriteSample, WriterType
  <2> QED
    BY <1>1, <1>2, <2>1, <2>2, <2>3, <2>4 DEF WriterType, SizesType, SyncType
<1> QED
  BY <1>5, <1>6 DEF IInv, StateType

LEMMA WriteSampleThrowsStep ==
    ASSUME IInv, NEW t \in Tracks, NEW s \in Written(t), WriteSampleThrows(t, s)
    PROVE  IInv'
<1> DEFINE b == Buffered(t, s)
<1>1. MediaType /\ WriterType /\ MediaBelow
  BY DEF IInv, StateType
<1>2. /\ phase = "open" /\ UNCHANGED << mdatAt, writeId, perChunk, phase, next, session >>
      /\ UNCHANGED durations /\ RecordSample(t, s)
  BY DEF WriteSampleThrows, CanWrite, call
<1>3. Follows(Media(t), b) /\ IsMedia(Media(t))
  BY <1>1, BufferedFollows, MediaIsMedia
<1>4. \/ SetMedia(t, b) /\ UNCHANGED faults
      \/ /\ \E k \in 0..(Len(b.buffer.bytes) - 1) :
               SetMedia(t, WriteChunkBufferFails(b, k))
         /\ WriteFault
  BY DEF WriteSampleThrows
<1> HIDE DEF b
<1>5. MediaType' /\ MediaBelow'
  <2>1. CASE SetMedia(t, b)
    BY <1>1, <1>2, <1>3, <2>1, SetMediaKeeps
  <2>2. ASSUME NEW k \in 0..(Len(b.buffer.bytes) - 1),
               SetMedia(t, WriteChunkBufferFails(b, k))
        PROVE  MediaType' /\ MediaBelow'
    <3>1. Follows(b, WriteChunkBufferFails(b, k))
      BY <1>3, WriteChunkBufferFailsFollows DEF Follows
    <3>2. Follows(Media(t), WriteChunkBufferFails(b, k))
      BY <1>3, <3>1, FollowsTransitive
    <3> QED
      BY <1>1, <1>2, <2>2, <3>2, SetMediaKeeps
  <2> QED
    BY <1>4, <2>1, <2>2
<1>6. WriterType'
  <2>1. /\ stsz' \in [Tracks -> SizesType] /\ stts' \in [Tracks -> Seq(RunType)]
        /\ stss' \in [Tracks -> SyncType] /\ hist' \in [Tracks -> Seq(SampleType)]
    BY <1>1, <1>2, RecordSampleType
  <2>2. curMode' \in [Tracks -> Nat \cup {NoMode}]
    BY <1>1, ModeType DEF WriteSampleThrows
  <2>3. faults' \in 0..MaxFaults
    BY <1>1, <1>4, WriteFaultType DEF WriterType
  <2> QED
    BY <1>1, <1>2, <2>1, <2>2, <2>3 DEF WriterType, SizesType, SyncType, durations
<1> QED
  BY <1>5, <1>6 DEF IInv, StateType
-----------------------------------------------------------------------------
(* The other calls.                                                        *)

\* A flush of one track that fails, as four of the actions have it.
LEMMA FlushFails ==
    ASSUME IInv, NEW t \in Tracks,
           \E k \in 0..(Len(buffer[t].bytes) - 1) :
              SetMedia(t, WriteChunkBufferFails(Media(t), k)),
           WriteFault, UNCHANGED << stsz, stts, stss, hist, mdatAt, next, session >>,
           UNCHANGED << writer, durations >>,
           phase # "closed", phase' \in {"open", "failed"}
    PROVE  IInv'
<1>1. MediaType /\ WriterType /\ MediaBelow
  BY DEF IInv, StateType
<1>2. PICK k \in 0..(Len(buffer[t].bytes) - 1) :
         SetMedia(t, WriteChunkBufferFails(Media(t), k))
  OBVIOUS
<1>3. IsMedia(Media(t)) /\ Media(t).buffer = buffer[t]
  BY <1>1, MediaIsMedia
<1>4. Follows(Media(t), WriteChunkBufferFails(Media(t), k))
  BY <1>3, WriteChunkBufferFailsFollows
<1>5. MediaType' /\ MediaBelow'
  BY <1>1, <1>2, <1>4, SetMediaKeeps
<1>6. WriterType'
  <2>1. faults' \in 0..MaxFaults
    BY <1>1, WriteFaultType DEF WriterType
  <2> QED
    BY <1>1, <2>1, WriterKept DEF WriterType
<1> QED
  BY <1>5, <1>6 DEF IInv, StateType

LEMMA ModeFlushThrowsStep ==
    ASSUME IInv, NEW t \in Tracks, NEW s, ModeFlushThrows(t, s)
    PROVE  IInv'
BY FlushFails DEF ModeFlushThrows, CanWrite, tables, call

LEMMA ReadSampleThrowsStep ==
    ASSUME IInv, NEW t \in Tracks, NEW sampleId, ReadSampleThrows(t, sampleId)
    PROVE  IInv'
BY FlushFails DEF ReadSampleThrows, tables, call

LEMMA FinishTrackThrowsStep ==
    ASSUME IInv, FinishTrackThrows
    PROVE  IInv'
<1>1. next \in Tracks
  BY CountsAssumption DEF FinishTrackThrows, IInv, StateType, WriterType, Tracks
<1> QED
  BY <1>1, FlushFails DEF FinishTrackThrows, tables, call

\* Reading flushes what is still buffered; the position comes back.
LEMMA ReadSampleStep ==
    ASSUME IInv, NEW t \in Tracks, NEW sampleId, ReadSample(t, sampleId)
    PROVE  IInv'
<1> DEFINE m == ReadMedia(t, sampleId)
<1>1. MediaType /\ WriterType /\ MediaBelow
  BY DEF IInv, StateType
<1>2. IsMedia(Media(t))
  BY <1>1, MediaIsMedia
<1>3. Follows(Media(t), m)
  BY <1>2, WriteChunkBufferFollows, FollowsItself DEF ReadMedia
<1>4. SetMedia(t, m)
  <2>1. IsMedia(m)
    BY <1>3 DEF Follows
  <2>2. \A e : [m EXCEPT !.file = RestorePosition(@, e)] = m
    BY <2>1 DEF IsMedia, RestorePosition
  <2> QED
    BY <2>2 DEF ReadSample
<1> HIDE DEF m
<1>5. /\ phase = "open" /\ UNCHANGED << phase, next, session, faults, mdatAt >>
      /\ UNCHANGED << stsz, stts, stss, hist >> /\ UNCHANGED << writer, durations >>
  BY DEF ReadSample, tables, call
<1>6. MediaType' /\ MediaBelow'
  BY <1>1, <1>3, <1>4, <1>5, SetMediaKeeps
<1>7. WriterType'
  BY <1>1, <1>5, WriterKept DEF WriterType
<1> QED
  BY <1>6, <1>7 DEF IInv, StateType

LEMMA FinishTrackStep ==
    ASSUME IInv, FinishTrack
    PROVE  IInv'
<1>1. MediaType /\ WriterType /\ MediaBelow
  BY DEF IInv, StateType
<1>2. next \in Tracks /\ next' \in 1..(NumTracks + 1)
  BY <1>1, CountsAssumption DEF FinishTrack, WriterType, Tracks
<1>3. /\ phase # "closed" /\ phase' = "finishing" /\ UNCHANGED << session, faults, mdatAt >>
      /\ UNCHANGED << stsz, stts, stss, hist >> /\ UNCHANGED << writer, durations >>
      /\ SetMedia(next, WriteChunkBuffer(Media(next), writeId[next]))
  BY DEF FinishTrack, tables
<1>4. Follows(Media(next), WriteChunkBuffer(Media(next), writeId[next]))
  BY <1>1, <1>2, MediaIsMedia, WriteChunkBufferFollows
<1>5. MediaType' /\ MediaBelow'
  BY <1>1, <1>2, <1>3, <1>4, SetMediaKeeps
<1>6. WriterType'
  BY <1>1, <1>2, <1>3, WriterKept DEF WriterType
<1> QED
  BY <1>5, <1>6 DEF IInv, StateType

LEMMA MediaKept ==
    ASSUME MediaType, MediaBelow, UNCHANGED << file, mdatAt, chunks, buffer, flushed >>,
           phase # "closed", phase' # "closed"
    PROVE  MediaType' /\ MediaBelow'
BY DEF MediaType, MediaBelow, ChunksBelow

LEMMA SetDurationPerChunkStep ==
    ASSUME IInv, NEW t \in Tracks, NEW d \in ChunkDurations, SetDurationPerChunk(t, d)
    PROVE  IInv'
<1>1. MediaType /\ WriterType /\ MediaBelow
  BY DEF IInv, StateType
<1>2. MediaType' /\ MediaBelow'
  BY <1>1, MediaKept DEF SetDurationPerChunk, call
<1>3. perChunk' \in [Tracks -> Nat]
  BY <1>1, SampleAssumption DEF SetDurationPerChunk, WriterType
<1>4. WriterType'
  BY <1>1, <1>3 DEF SetDurationPerChunk, WriterType, tables, durations, call
<1> QED
  BY <1>2, <1>4 DEF IInv, StateType

LEMMA LookUpSampleStep ==
    ASSUME IInv, NEW t, NEW sampleId, LookUpSample(t, sampleId)
    PROVE  IInv'
<1>1. MediaType /\ WriterType /\ MediaBelow
  BY DEF IInv, StateType
<1>2. MediaType' /\ MediaBelow'
  BY <1>1, MediaKept DEF LookUpSample, call
<1>3. WriterType'
  BY <1>1 DEF LookUpSample, WriterType, tables, writer, durations, call
<1> QED
  BY <1>2, <1>3 DEF IInv, StateType

LEMMA SetOffsetStep ==
    ASSUME IInv, NEW t \in Tracks, NEW sampleId, NEW offset \in Offsets,
           SetOffset(t, sampleId, offset)
    PROVE  IInv'
<1>1. MediaType /\ WriterType /\ MediaBelow
  BY DEF IInv, StateType
<1>2. phase = "open" /\ phase' \in {"open", "crashed"}
  BY DEF SetOffset
<1>3. MediaType' /\ MediaBelow'
  BY <1>1, <1>2, MediaKept DEF SetOffset
<1>4. hist' \in [Tracks -> Seq(SampleType)]
  <2> DEFINE h == hist[t]
             g == [h EXCEPT ![sampleId].offset = offset]
  <2>1. h \in Seq(SampleType) /\ offset \in Nat
    BY <1>1, SampleAssumption DEF WriterType
  <2>2. g \in Seq(SampleType)
    <3>1. CASE sampleId \in 1..Len(h)
      <4>1. h[sampleId] \in SampleType
        BY <2>1, <3>1, ElementOfSeq
      <4>2. [h[sampleId] EXCEPT !.offset = offset] \in SampleType
        BY <2>1, <4>1 DEF SampleType
      <4> QED
        BY <2>1, <3>1, <4>2, ExceptSeq
    <3>2. CASE sampleId \notin 1..Len(h)
      <4>1. DOMAIN h = 1..Len(h) /\ h = [i \in 1..Len(h) |-> h[i]]
        BY <2>1, LenProperties
      <4>2. g = h
        BY <3>2, <4>1
      <4> QED
        BY <2>1, <4>2
    <3> QED
      BY <3>1, <3>2
  <2>3. hist' = [hist EXCEPT ![t] = g]
    BY DEF SetOffset
  <2> HIDE DEF g
  <2> QED
    BY <1>1, <2>2, <2>3 DEF WriterType
<1>5. WriterType'
  BY <1>1, <1>2, <1>4 DEF SetOffset, WriterType, writer, durations
<1> QED
  BY <1>3, <1>5 DEF IInv, StateType

-----------------------------------------------------------------------------
(* MP4File::Close and MP4File::Modify.                                     *)

\* moov starts where the media ends, or where the dropped mdat box started.
LEMMA FinishFileStep ==
    ASSUME IInv, FinishFile
    PROVE  IInv'
<1> DEFINE at == IF file.pos = mdatAt + MdatHeaderLen THEN mdatAt ELSE file.pos
           kept == SubSeq(file.bytes, 1, at)
<1>1. MediaType /\ WriterType /\ MediaBelow
  BY DEF IInv, StateType
<1>2. /\ file.bytes \in Seq(Byte) /\ file.pos \in Nat /\ file.pos <= Len(file.bytes)
      /\ mdatAt \in Nat /\ Len(file.bytes) \in Nat
  BY <1>1, LenProperties DEF MediaType
<1>3. phase = "finishing" /\ phase' = "closed"
  BY DEF FinishFile
<1>4. at \in Nat /\ at <= file.pos /\ at <= Len(file.bytes) /\ ChunksBelow(at)
  BY <1>1, <1>2, <1>3, BoxAssumption DEF MediaBelow
<1>5. file' = [bytes |-> kept \o Box(MoovLen), pos |-> at + MoovLen]
  BY DEF FinishFile
<1> HIDE DEF at
<1>6. /\ kept \in Seq(Byte) /\ Len(kept) = at
      /\ \A i \in 1..at : kept[i] = file.bytes[i]
  <2>1. \A i \in 1..at : file.bytes[i] \in Byte
    BY <1>2, <1>4, ElementOfSeq
  <2>2. at = IF 1 <= at THEN at - 1 + 1 ELSE 0
    BY <1>4
  <2>3. \A i \in 1..at : i \in 1..(at - 1 + 1) /\ 1 + i - 1 = i
    BY <1>4
  <2> QED
    BY <1>4, <2>1, <2>2, <2>3, SubSeqProperties
<1> HIDE DEF kept
<1>7. Box(MoovLen) \in Seq(Byte) /\ Len(Box(MoovLen)) = MoovLen /\ MoovLen \in Nat
  BY BoxType, BoxAssumption
<1>8. /\ file'.bytes \in Seq(Byte) /\ Len(file'.bytes) = at + MoovLen
      /\ file'.pos = at + MoovLen
      /\ \A i \in 1..at : file'.bytes[i] = file.bytes[i]
  <2> DEFINE w == kept \o Box(MoovLen)
  <2>1. /\ w \in Seq(Byte) /\ Len(w) = Len(kept) + Len(Box(MoovLen))
        /\ \A i \in 1..(Len(kept) + Len(Box(MoovLen))) :
              w[i] = IF i <= Len(kept) THEN kept[i] ELSE Box(MoovLen)[i - Len(kept)]
    BY <1>6, <1>7, ConcatProperties
  <2>2. file'.bytes = w /\ file'.pos = at + MoovLen
    BY <1>5
  <2> HIDE DEF w
  <2>3. Len(w) = at + MoovLen
    BY <1>6, <1>7, <2>1
  <2>4. ASSUME NEW i \in 1..at PROVE w[i] = file.bytes[i]
    <3>1. i \in 1..(Len(kept) + Len(Box(MoovLen))) /\ i <= Len(kept)
      BY <1>4, <1>6, <1>7
    <3> QED
      BY <1>6, <2>1, <3>1
  <2> QED
    BY <2>1, <2>2, <2>3, <2>4
<1>9. /\ UNCHANGED << mdatAt, chunks, buffer, flushed >>
      /\ UNCHANGED << stsz, stts, stss, hist, next, session, faults >>
      /\ UNCHANGED << writer, durations >>
  BY DEF FinishFile, tables
<1>10. MediaType'
  <2>1. file' \in [bytes : Seq(Byte), pos : Nat] /\ file'.pos <= Len(file'.bytes)
    BY <1>4, <1>5, <1>7, <1>8
  <2> QED
    BY <1>1, <1>9, <2>1 DEF MediaType
<1>11. MoovAt' = at
  BY <1>4, <1>7, <1>8 DEF MoovAt
<1>12. ASSUME NEW t \in Tracks
       PROVE  ChunksWithin(file', chunks'[t], flushed'[t], at)
  <2>1. chunks[t].stco \in Seq(Nat) /\ flushed[t] \in Seq(Seq(Byte))
    BY <1>1 DEF MediaType
  <2>2. ChunksWithin(file, chunks[t], flushed[t], at)
    BY <1>4 DEF ChunksBelow
  <2>3. at <= at /\ \A i \in 1..at : file'.bytes[i] = file.bytes[i]
    BY <1>4, <1>8
  <2>4. ChunksWithin(file', chunks[t], flushed[t], at)
    BY <1>4, <2>1, <2>2, <2>3, WithinKept
  <2> QED
    BY <1>9, <2>4
<1>13. MediaBelow'
  BY <1>3, <1>4, <1>11, <1>12 DEF MediaBelow, ChunksBelow
<1>14. WriterType'
  BY <1>1, <1>3, <1>9, WriterKept DEF WriterType
<1> QED
  BY <1>10, <1>13, <1>14 DEF IInv, StateType

\* The new mdat header replaces the moov box, which all chunks precede.
LEMMA ModifyStep ==
    ASSUME IInv, Modify
    PROVE  IInv'
<1> DEFINE at == MoovAt
           f  == [file EXCEPT !.pos = at]
           g  == WriteBytes(f, Box(MdatHeaderLen))
<1>1. MediaType /\ WriterType /\ MediaBelow
  BY DEF IInv, StateType
<1>2. phase = "closed" /\ phase' = "open"
  BY DEF Modify
<1>3. at \in Nat /\ ChunksBelow(at)
  BY <1>1, <1>2 DEF MediaBelow
<1>4. file.bytes \in Seq(Byte) /\ at <= Len(file.bytes)
  <2>1. file.bytes \in Seq(Byte) /\ Len(file.bytes) \in Nat
    BY <1>1, LenProperties DEF MediaType
  <2> QED
    BY <2>1, BoxAssumption DEF MoovAt
<1>5. file' = g /\ mdatAt' = at
  BY DEF Modify
<1>6. f.bytes = file.bytes /\ f.pos = at /\ f \in FileType
  BY <1>1, <1>3 DEF MediaType, FileType
<1>7. Box(MdatHeaderLen) \in Seq(Byte) /\ Len(Box(MdatHeaderLen)) = MdatHeaderLen
  BY BoxType, BoxAssumption
<1> HIDE DEF at, f
<1>8. /\ g \in FileType /\ g.pos <= Len(g.bytes) /\ g.pos = at + MdatHeaderLen
      /\ Grows(f, g)
  BY <1>4, <1>6, <1>7, WriteBytesProperties
<1> HIDE DEF g
<1>9. \A i \in 1..at : file'.bytes[i] = file.bytes[i]
  BY <1>5, <1>6, <1>8 DEF Grows
<1>10. /\ chunks' = [t \in Tracks |-> Reread(chunks[t])]
       /\ flushed' = flushed /\ buffer' = [t \in Tracks |-> EmptyBuffer]
  BY DEF Modify
<1>11. /\ DOMAIN chunks' = Tracks
       /\ \A t \in Tracks : chunks'[t].stco = chunks[t].stco
  BY <1>10 DEF Reread
<1>12. MediaType'
  <2>1. buffer' \in [Tracks -> [bytes : Seq(Byte), samples : Nat, duration : Nat]]
    <3>1. EmptyBuffer \in [bytes : Seq(Byte), samples : Nat, duration : Nat]
      BY DEF EmptyBuffer
    <3> QED
      BY <1>10, <3>1
  <2> QED
    BY <1>1, <1>3, <1>5, <1>8, <1>10, <1>11, <2>1 DEF MediaType, FileType
<1>13. at + MdatHeaderLen \in Nat /\ at <= at + MdatHeaderLen
  BY <1>3, BoxAssumption
<1>14. ASSUME NEW limit \in Nat, at <= limit, NEW t \in Tracks
       PROVE  ChunksWithin(file', chunks'[t], flushed'[t], limit)
  <2>1. chunks[t].stco \in Seq(Nat) /\ flushed[t] \in Seq(Seq(Byte))
    BY <1>1 DEF MediaType
  <2>2. ChunksWithin(file, chunks[t], flushed[t], at)
    BY <1>3 DEF ChunksBelow
  <2>3. ChunksWithin(file', chunks[t], flushed[t], limit)
    BY <1>3, <1>9, <1>14, <2>1, <2>2, WithinKept
  <2> QED
    BY <1>10, <1>11, <2>3 DEF ChunksWithin
<1>15. MediaBelow'
  <2>1. ChunksBelow(file.pos)'
    BY <1>5, <1>8, <1>13, <1>14 DEF ChunksBelow
  <2>2. ChunksBelow(mdatAt)'
    BY <1>3, <1>5, <1>14 DEF ChunksBelow
  <2> QED
    BY <1>2, <1>3, <1>5, <1>8, <1>13, <2>1, <2>2 DEF MediaBelow
<1>16. WriterType'
  <2>1. session' \in 1..MaxSessions /\ next' \in 1..(NumTracks + 1)
    BY <1>1, CountsAssumption DEF Modify, WriterType
  <2>2. writeId' \in [Tracks -> Nat \ {0}] /\ perChunk' \in [Tracks -> Nat]
    BY TrackAssumption DEF Modify
  <2>3. curMode' \in [Tracks -> Nat \cup {NoMode}]
    BY DEF Modify
  <2> QED
    BY <1>1, <1>2, <2>1, <2>2, <2>3 DEF Modify, WriterType, tables, durations
<1> QED
  BY <1>12, <1>15, <1>16 DEF IInv, StateType

-----------------------------------------------------------------------------
(* The theorems.                                                           *)

LEMMA NextIInv == IInv /\ [Next]_vars => IInv'
<1> SUFFICES ASSUME IInv, [Next]_vars PROVE IInv'
  OBVIOUS
<1>1. ASSUME NEW t \in Tracks, NEW s \in Written(t),
             WriteSample(t, s) \/ WriteSampleThrows(t, s) \/ ModeFlushThrows(t, s)
      PROVE  IInv'
  BY <1>1, WriteSampleStep, WriteSampleThrowsStep, ModeFlushThrowsStep
<1>2. ASSUME NEW t \in Tracks, NEW d \in ChunkDurations, SetDurationPerChunk(t, d)
      PROVE  IInv'
  BY <1>2, SetDurationPerChunkStep
<1>3. ASSUME NEW t \in Tracks, NEW sampleId \in SampleIds(t),
             \/ ReadSample(t, sampleId) \/ ReadSampleThrows(t, sampleId)
             \/ LookUpSample(t, sampleId)
      PROVE  IInv'
  BY <1>3, ReadSampleStep, ReadSampleThrowsStep, LookUpSampleStep
<1>4. ASSUME NEW t \in Tracks, NEW sampleId \in SampleIds(t), NEW offset \in Offsets,
             SetOffset(t, sampleId, offset)
      PROVE  IInv'
  BY <1>4, SetOffsetStep
<1>5. CASE FinishTrack
  BY <1>5, FinishTrackStep
<1>6. CASE FinishTrackThrows
  BY <1>6, FinishTrackThrowsStep
<1>7. CASE FinishFile
  BY <1>7, FinishFileStep
<1>8. CASE Modify
  BY <1>8, ModifyStep
<1>9. CASE UNCHANGED vars
  BY <1>9 DEF vars, tables, writer, durations, call, IInv, StateType, MediaType,
              WriterType, MediaBelow, ChunksBelow, MoovAt
<1> QED
  BY <1>1, <1>2, <1>3, <1>4, <1>5, <1>6, <1>7, <1>8, <1>9 DEF Next

LEMMA IInvIntact == IInv => ChunksIntact
<1> SUFFICES ASSUME IInv, NEW t \in Tracks
             PROVE  /\ Len(flushed[t]) = Len(chunks[t].stco)
                    /\ \A c \in 1..Len(flushed[t]) :
                         LET at == chunks[t].stco[c] IN
                         /\ at + Len(flushed[t][c]) <= Len(file.bytes)
                         /\ \A i \in 1..Len(flushed[t][c]) :
                              file.bytes[at + i] = flushed[t][c][i]
  BY DEF ChunksIntact
<1>1. /\ file.pos \in Nat /\ Len(file.bytes) \in Nat /\ file.pos <= Len(file.bytes)
      /\ MoovAt <= Len(file.bytes) /\ MoovLen \in Nat
  <2>1. file.bytes \in Seq(Byte)
    BY DEF IInv, StateType, MediaType
  <2>2. Len(file.bytes) \in Nat
    BY <2>1, LenProperties
  <2> QED
    BY <2>2, BoxAssumption DEF IInv, StateType, MediaType, MoovAt
<1>2. PICK limit \in Nat : limit <= Len(file.bytes) /\ ChunksBelow(limit)
  BY <1>1 DEF IInv, MediaBelow
<1>3. ChunksWithin(file, chunks[t], flushed[t], limit)
  BY <1>2 DEF ChunksBelow
<1>4. ASSUME NEW c \in 1..Len(flushed[t])
      PROVE  chunks[t].stco[c] + Len(flushed[t][c]) <= Len(file.bytes)
  <2>1. chunks[t].stco \in Seq(Nat) /\ flushed[t] \in Seq(Seq(Byte))
    BY DEF IInv, StateType, MediaType
  <2>2. chunks[t].stco[c] \in Nat /\ flushed[t][c] \in Seq(Byte)
    BY <1>3, <2>1, ElementOfSeq DEF ChunksWithin
  <2>3. Len(flushed[t][c]) \in Nat
    BY <2>2, LenProperties
  <2>4. chunks[t].stco[c] + Len(flushed[t][c]) <= limit
    BY <1>3 DEF ChunksWithin
  <2> QED
    BY <1>1, <1>2, <2>2, <2>3, <2>4
<1> QED
  BY <1>3, <1>4 DEF ChunksWithin

\* In every reachable state the inductive invariant holds.
THEOREM InductiveInvariant == Spec => []IInv
<1>1. Init => IInv
  BY InitIInv
<1>2. IInv /\ [Next]_vars => IInv'
  BY NextIInv
<1> QED
  BY <1>1, <1>2, PTL DEF Spec

\* The state is well typed: files, media, tables and the writer's counters.
THEOREM StateTypeCorrect == Spec => []StateType
<1>1. IInv => StateType
  BY DEF IInv
<1> QED
  BY <1>1, InductiveInvariant, PTL

\* No call, failed or not, damages a chunk that is in the file: every chunk
\* keeps the bytes it was flushed with, at the offset its stco entry gives.
THEOREM ChunksStayIntact == Spec => []ChunksIntact
<1>1. IInv => ChunksIntact
  BY IInvIntact
<1> QED
  BY <1>1, InductiveInvariant, PTL

-----------------------------------------------------------------------------
(* One mode a chunk.                                                       *)

\* The bytes belong to samples of history h that all have that mode.
OfMode(bytes, h, mode) ==
    \A i \in 1..Len(bytes) : bytes[i][2] \in 1..Len(h) /\ h[bytes[i][2]].mode = mode

\* Media m of a track with history h: the buffer has one mode, each chunk has.
Modal(m, h, mode) ==
    /\ OfMode(m.buffer.bytes, h, mode)
    /\ \A c \in 1..Len(m.flushed) : \E k \in Int : OfMode(m.flushed[c], h, k)

ModeInv == \A t \in AmrTracks : Modal(Media(t), hist[t], curMode[t])

LEMMA ModalAfterFlush ==
    ASSUME NEW m, IsMedia(m), NEW id, NEW h, NEW mode \in Int, Modal(m, h, mode)
    PROVE  /\ Modal(WriteChunkBuffer(m, id), h, mode)
           /\ WriteChunkBuffer(m, id).buffer.bytes = << >>
<1>1. CASE m.buffer.bytes = << >>
  BY <1>1 DEF WriteChunkBuffer
<1>2. CASE m.buffer.bytes # << >>
  <2> DEFINE n == WriteChunkBuffer(m, id)
             b == m.buffer.bytes
  <2>1. n.buffer.bytes = << >> /\ n.flushed = Append(m.flushed, b)
    BY <1>2 DEF WriteChunkBuffer, EmptyBuffer
  <2>2. m.flushed \in Seq(Seq(Byte)) /\ b \in Seq(Byte)
    BY DEF IsMedia, BufferType
  <2> HIDE DEF n
  <2>3. /\ Len(n.flushed) = Len(m.flushed) + 1 /\ Len(m.flushed) \in Nat
        /\ \A c \in 1..Len(m.flushed) : n.flushed[c] = m.flushed[c]
        /\ n.flushed[Len(m.flushed) + 1] = b
    BY <2>1, <2>2, AppendProperties, LenProperties
  <2>4. OfMode(n.buffer.bytes, h, mode)
    BY <2>1 DEF OfMode
  <2>5. ASSUME NEW c \in 1..Len(n.flushed) PROVE \E k \in Int : OfMode(n.flushed[c], h, k)
    <3>1. CASE c \in 1..Len(m.flushed)
      BY <2>3, <3>1 DEF Modal
    <3>2. CASE c = Len(m.flushed) + 1
      BY <2>3, <3>2 DEF Modal
    <3> QED
      BY <2>3, <3>1, <3>2
  <2>6. Modal(n, h, mode) /\ n.buffer.bytes = << >>
    BY <2>1, <2>4, <2>5 DEF Modal
  <2> QED
    BY <2>6 DEF n
<1> QED
  BY <1>1, <1>2

\* A write that fails leaves buffer and chunks as they are.
LEMMA ModalAfterFailure ==
    ASSUME NEW m, IsMedia(m), NEW k, NEW h, NEW mode, Modal(m, h, mode)
    PROVE  Modal(WriteChunkBufferFails(m, k), h, mode)
<1>1. /\ WriteChunkBufferFails(m, k).buffer = m.buffer
      /\ WriteChunkBufferFails(m, k).flushed = m.flushed
  BY DEF WriteChunkBufferFails, IsMedia
<1> QED
  BY <1>1 DEF Modal

\* What holds of bytes holds when the history goes on.
LEMMA OfModeLater ==
    ASSUME NEW h \in Seq(SampleType), NEW x \in SampleType, NEW bytes, NEW mode,
           OfMode(bytes, h, mode)
    PROVE  OfMode(bytes, Append(h, x), mode)
<1>1. /\ Len(Append(h, x)) = Len(h) + 1 /\ Len(h) \in Nat
      /\ \A i \in 1..Len(h) : Append(h, x)[i] = h[i]
  BY AppendProperties, LenProperties
<1> QED
  BY <1>1 DEF OfMode

\* No frame has no mode.
LEMMA NoModeNoBytes ==
    ASSUME NEW h \in Seq(SampleType), NEW bytes \in Seq(Byte), OfMode(bytes, h, NoMode)
    PROVE  Len(bytes) = 0
<1>1. \A i \in 1..Len(h) : h[i].mode \in Nat
  <2>1. \A i \in 1..Len(h) : h[i] \in SampleType
    BY ElementOfSeq
  <2> QED
    BY <2>1 DEF SampleType
<1>2. Len(bytes) \in Nat
  BY LenProperties
<1>3. ASSUME Len(bytes) # 0 PROVE FALSE
  <2>1. 1 \in 1..Len(bytes)
    BY <1>2, <1>3
  <2>2. bytes[1][2] \in 1..Len(h) /\ h[bytes[1][2]].mode = NoMode
    BY <2>1 DEF OfMode
  <2> QED
    BY <1>1, <2>2 DEF NoMode
<1> QED
  BY <1>3

\* The buffer after WriteSample has put its frame there.
LEMMA ModalBuffered ==
    ASSUME IInv, NEW t \in AmrTracks, NEW s \in Written(t),
           Modal(Media(t), hist[t], curMode[t])
    PROVE  Modal(Buffered(t, s), Append(hist[t], [s EXCEPT !.duration = Duration(t, s)]),
                 s.mode)
<1> DEFINE x == [s EXCEPT !.duration = Duration(t, s)]
           h == hist[t]
           g == Append(h, x)
           m == ModeFlushed(t, s)
           p == Payload(t, Len(h) + 1, s.size)
<1>1. t \in Tracks /\ MediaType /\ WriterType
  BY TrackAssumption DEF IInv, StateType
<1>2. h \in Seq(SampleType) /\ curMode[t] \in Nat \cup {NoMode} /\ curMode[t] \in Int
  BY <1>1 DEF WriterType, NoMode
<1>3. x \in SampleType /\ x.mode = s.mode /\ s.mode \in Int /\ s.size \in Nat /\ t \in Nat
  <2>1. s \in Samples /\ s \in [size : Nat, duration : Nat \cup {FIXED}, offset : Nat,
                                sync : BOOLEAN, mode : Nat]
    BY WrittenType
  <2> QED
    BY <1>1, <2>1, DurationType, CountsAssumption DEF Tracks
<1>4. /\ Len(g) = Len(h) + 1 /\ Len(h) \in Nat /\ g[Len(h) + 1] = x
  BY <1>2, <1>3, AppendProperties, LenProperties
<1>5. IsMedia(Media(t)) /\ IsMedia(m)
  <2>1. IsMedia(Media(t))
    BY <1>1, MediaIsMedia
  <2> QED
    BY <2>1, WriteChunkBufferFollows DEF ModeFlushed, Follows
\* The bytes still in the buffer, if any, have the mode of the new frame.
<1>6. OfMode(m.buffer.bytes, h, s.mode) /\ \E k \in Int : Modal(m, h, k)
  <2>1. CASE ModeChanges(t, s)
    <3>1. m = WriteChunkBuffer(Media(t), writeId[t])
      BY <2>1 DEF ModeFlushed
    <3>2. Modal(m, h, curMode[t]) /\ m.buffer.bytes = << >>
      BY <1>2, <1>5, <3>1, ModalAfterFlush
    <3> QED
      BY <1>2, <3>2 DEF OfMode
  <2>2. CASE ~ModeChanges(t, s)
    <3>1. m = Media(t) /\ curMode[t] \in {NoMode, s.mode}
      BY <2>2 DEF ModeFlushed, ModeChanges
    <3>2. OfMode(m.buffer.bytes, h, curMode[t]) /\ m.buffer.bytes \in Seq(Byte)
      BY <1>5, <3>1 DEF Modal, IsMedia, BufferType
    <3>3. CASE curMode[t] = NoMode
      <4>1. Len(m.buffer.bytes) = 0
        BY <1>2, <3>2, <3>3, NoModeNoBytes
      <4>2. OfMode(m.buffer.bytes, h, s.mode)
        BY <4>1 DEF OfMode
      <4> QED
        BY <1>2, <3>1, <4>2
    <3>4. CASE curMode[t] = s.mode
      BY <1>2, <3>1, <3>2, <3>4
    <3> QED
      BY <3>1, <3>3, <3>4
  <2> QED
    BY <2>1, <2>2
<1> HIDE DEF m, g, x
<1>7. OfMode(m.buffer.bytes, g, s.mode)
  BY <1>2, <1>3, <1>6, OfModeLater DEF g
<1>8. p \in Seq(Byte) /\ Len(p) = s.size /\ \A i \in 1..s.size : p[i] = << t, Len(h) + 1, i >>
  <2>1. Len(h) + 1 \in Nat
    BY <1>4
  <2>2. p \in Seq(Byte)
    BY <1>3, <2>1, PayloadType
  <2> QED
    BY <1>3, <2>2 DEF Payload
<1>9. OfMode(p, g, s.mode)
  BY <1>3, <1>4, <1>8 DEF OfMode
<1> HIDE DEF p
<1>10. OfMode(m.buffer.bytes \o p, g, s.mode)
  <2> DEFINE b == m.buffer.bytes
             w == b \o p
  <2>1. b \in Seq(Byte)
    BY <1>5 DEF IsMedia, BufferType
  <2>2. /\ Len(w) = Len(b) + Len(p) /\ Len(b) \in Nat /\ Len(p) \in Nat
        /\ \A i \in 1..(Len(b) + Len(p)) :
              w[i] = IF i <= Len(b) THEN b[i] ELSE p[i - Len(b)]
    BY <1>8, <2>1, ConcatProperties, LenProperties
  <2> HIDE DEF w, b
  <2>3. ASSUME NEW i \in 1..Len(w)
        PROVE  w[i][2] \in 1..Len(g) /\ g[w[i][2]].mode = s.mode
    <3>1. CASE i <= Len(b)
      <4>1. i \in 1..Len(b) /\ w[i] = b[i]
        BY <2>2, <3>1
      <4> QED
        BY <1>7, <4>1 DEF OfMode, b
    <3>2. CASE ~(i <= Len(b))
      <4>1. i - Len(b) \in 1..Len(p) /\ w[i] = p[i - Len(b)]
        BY <2>2, <3>2
      <4> QED
        BY <1>9, <4>1 DEF OfMode
    <3> QED
      BY <3>1, <3>2
  <2>4. OfMode(w, g, s.mode)
    BY <2>3 DEF OfMode
  <2> QED
    BY <2>4 DEF w, b
<1>11. \A c \in 1..Len(m.flushed) : \E k \in Int : OfMode(m.flushed[c], g, k)
  <2>1. \A c \in 1..Len(m.flushed) : \E k \in Int : OfMode(m.flushed[c], h, k)
    BY <1>6 DEF Modal
  <2> QED
    BY <1>2, <1>3, <2>1, OfModeLater DEF g
<1>12. /\ Buffered(t, s).buffer.bytes = m.buffer.bytes \o p
       /\ Buffered(t, s).flushed = m.flushed
  BY <1>5 DEF Buffered, IsMedia, m, p
<1>13. Modal(Buffered(t, s), g, s.mode)
  BY <1>10, <1>11, <1>12 DEF Modal
<1> QED
  BY <1>13 DEF g, x

\* A call that makes n of a track's media and leaves the others alone.
LEMMA SetMediaModal ==
    ASSUME MediaType, ModeInv, NEW t \in Tracks, NEW n, SetMedia(t, n),
           t \in AmrTracks => Modal(n, hist'[t], curMode'[t]),
           \A u \in Tracks : u # t => hist'[u] = hist[u] /\ curMode'[u] = curMode[u]
    PROVE  ModeInv'
<1> SUFFICES ASSUME NEW u \in AmrTracks
             PROVE  Modal(Media(u), hist[u], curMode[u])'
  BY DEF ModeInv
<1>1. u \in Tracks
  BY TrackAssumption
<1>2. /\ buffer' = [buffer EXCEPT ![t] = n.buffer]
      /\ flushed' = [flushed EXCEPT ![t] = n.flushed]
      /\ DOMAIN buffer = Tracks /\ DOMAIN flushed = Tracks
  BY DEF SetMedia, MediaType
<1>3. CASE u = t
  <2>1. Media(u)'.buffer = n.buffer /\ Media(u)'.flushed = n.flushed
    BY <1>2, <1>3 DEF Media
  <2> QED
    BY <1>3, <2>1 DEF Modal
<1>4. CASE u # t
  <2>1. Media(u)'.buffer = Media(u).buffer /\ Media(u)'.flushed = Media(u).flushed
    BY <1>1, <1>2, <1>4 DEF Media
  <2>2. Modal(Media(u), hist[u], curMode[u])
    BY DEF ModeInv
  <2> QED
    BY <1>1, <1>4, <2>1, <2>2 DEF Modal
<1> QED
  BY <1>3, <1>4

LEMMA ModalKept ==
    ASSUME ModeInv, UNCHANGED << buffer, flushed, hist, curMode >>
    PROVE  ModeInv'
<1> SUFFICES ASSUME NEW u \in AmrTracks
             PROVE  Modal(Media(u), hist[u], curMode[u])'
  BY DEF ModeInv
<1>1. Media(u)'.buffer = Media(u).buffer /\ Media(u)'.flushed = Media(u).flushed
  BY DEF Media
<1>2. Modal(Media(u), hist[u], curMode[u])
  BY DEF ModeInv
<1> QED
  BY <1>1, <1>2 DEF Modal

\* A flush that succeeds or fails, of a call that writes no sample.
LEMMA FlushModal ==
    ASSUME IInv, ModeInv, NEW t \in Tracks, NEW n, SetMedia(t, n),
           UNCHANGED << hist, curMode >>,
           \/ n = Media(t)
           \/ n = WriteChunkBuffer(Media(t), writeId[t])
           \/ \E k \in 0..(Len(buffer[t].bytes) - 1) : n = WriteChunkBufferFails(Media(t), k)
    PROVE  ModeInv'
<1>1. MediaType /\ WriterType
  BY DEF IInv, StateType
<1>2. IsMedia(Media(t))
  BY <1>1, MediaIsMedia
<1>3. curMode[t] \in Int
  BY <1>1 DEF WriterType, NoMode
<1>4. ASSUME t \in AmrTracks PROVE Modal(n, hist[t], curMode[t])
  <2>1. Modal(Media(t), hist[t], curMode[t])
    BY <1>4 DEF ModeInv
  <2> QED
    BY <1>2, <1>3, <2>1, ModalAfterFlush, ModalAfterFailure
<1> QED
  BY <1>1, <1>4, SetMediaModal

LEMMA WriteSampleModal ==
    ASSUME IInv, ModeInv, NEW t \in Tracks, NEW s \in Written(t),
           WriteSample(t, s) \/ WriteSampleThrows(t, s)
    PROVE  ModeInv'
<1> DEFINE b == Buffered(t, s)
           x == [s EXCEPT !.duration = Duration(t, s)]
<1>1. MediaType /\ WriterType
  BY DEF IInv, StateType
<1>2. /\ hist' = [hist EXCEPT ![t] = Append(@, x)]
      /\ curMode' = [curMode EXCEPT ![t] = IF t \in AmrTracks THEN s.mode ELSE @]
  BY DEF WriteSample, WriteSampleThrows, RecordSample
<1>3. PICK n : /\ SetMedia(t, n)
               /\ \/ n = b \/ n = WriteChunkBuffer(b, writeId[t])
                  \/ \E k \in 0..(Len(b.buffer.bytes) - 1) : n = WriteChunkBufferFails(b, k)
  BY DEF WriteSample, WriteSampleThrows
<1>4. IsMedia(b)
  BY <1>1, BufferedFollows DEF Follows
<1>5. /\ hist'[t] = Append(hist[t], x)
      /\ t \in AmrTracks => curMode'[t] = s.mode
      /\ \A u \in Tracks : u # t => hist'[u] = hist[u] /\ curMode'[u] = curMode[u]
  BY <1>1, <1>2 DEF WriterType
<1>6. ASSUME t \in AmrTracks PROVE Modal(n, hist'[t], curMode'[t])
  <2>1. Modal(Media(t), hist[t], curMode[t])
    BY <1>6 DEF ModeInv
  <2>2. Modal(b, hist'[t], s.mode)
    BY <1>5, <1>6, <2>1, ModalBuffered
  <2>3. s.mode \in Int
    BY WrittenType
  <2> HIDE DEF b
  <2>4. Modal(n, hist'[t], s.mode)
    BY <1>3, <1>4, <2>2, <2>3, ModalAfterFlush, ModalAfterFailure
  <2> QED
    BY <1>5, <1>6, <2>4
<1> QED
  BY <1>1, <1>3, <1>5, <1>6, SetMediaModal

\* Changing an offset changes no mode.
LEMMA SetOffsetModal ==
    ASSUME IInv, ModeInv, NEW t \in Tracks, NEW sampleId, NEW offset,
           SetOffset(t, sampleId, offset)
    PROVE  ModeInv'
<1> SUFFICES ASSUME NEW u \in AmrTracks
             PROVE  Modal(Media(u), hist[u], curMode[u])'
  BY DEF ModeInv
<1>1. u \in Tracks /\ hist \in [Tracks -> Seq(SampleType)]
  BY TrackAssumption DEF IInv, StateType, WriterType
<1>2. /\ UNCHANGED << buffer, flushed, curMode >>
      /\ hist' = [hist EXCEPT ![t][sampleId].offset = offset]
  BY DEF SetOffset, writer
<1>3. Media(u)'.buffer = Media(u).buffer /\ Media(u)'.flushed = Media(u).flushed
  BY <1>2 DEF Media
<1>4. /\ Len(hist'[u]) = Len(hist[u])
      /\ \A i \in 1..Len(hist[u]) : hist'[u][i].mode = hist[u][i].mode
  <2> DEFINE h == hist[u]
             g == [h EXCEPT ![sampleId].offset = offset]
  <2>1. h \in Seq(SampleType) /\ Len(h) \in Nat /\ DOMAIN h = 1..Len(h)
    BY <1>1, LenProperties
  <2>2. hist'[u] = h \/ hist'[u] = g
    BY <1>1, <1>2
  <2>3. \A i \in 1..Len(h) : h[i] \in SampleType
    BY <2>1, ElementOfSeq
  <2> HIDE DEF h
  <2>4. DOMAIN g = 1..Len(h) /\ \A i \in 1..Len(h) : g[i].mode = h[i].mode
    <3>1. DOMAIN g = 1..Len(h)
      BY <2>1
    <3>2. ASSUME NEW i \in 1..Len(h) PROVE g[i].mode = h[i].mode
      <4>1. g[i] = IF i = sampleId THEN [h[i] EXCEPT !.offset = offset] ELSE h[i]
        BY <2>1
      <4>2. [h[i] EXCEPT !.offset = offset].mode = h[i].mode
        BY <2>3 DEF SampleType
      <4> QED
        BY <4>1, <4>2
    <3> QED
      BY <3>1, <3>2
  <2>5. Len(g) = Len(h)
    BY <2>1, <2>4, LenProperties
  <2> HIDE DEF g
  <2> QED
    BY <2>2, <2>4, <2>5 DEF h
<1>5. \A bytes, mode : OfMode(bytes, hist[u], mode) => OfMode(bytes, hist'[u], mode)
  BY <1>4 DEF OfMode
<1>6. Modal(Media(u), hist[u], curMode[u]) /\ curMode'[u] = curMode[u]
  BY <1>2 DEF ModeInv
<1> QED
  BY <1>3, <1>5, <1>6 DEF Modal

LEMMA ModifyModal ==
    ASSUME ModeInv, Modify
    PROVE  ModeInv'
<1> SUFFICES ASSUME NEW u \in AmrTracks
             PROVE  Modal(Media(u), hist[u], curMode[u])'
  BY DEF ModeInv
<1>1. u \in Tracks
  BY TrackAssumption
<1>2. Media(u)'.buffer.bytes = << >> /\ Media(u)'.flushed = Media(u).flushed
  BY <1>1 DEF Modify, Media, EmptyBuffer
<1>3. hist' = hist
  BY DEF Modify
<1>4. \A c \in 1..Len(Media(u).flushed) : \E k \in Int : OfMode(Media(u).flushed[c], hist[u], k)
  BY DEF ModeInv, Modal
<1> QED
  BY <1>2, <1>3, <1>4 DEF Modal, OfMode

LEMMA NextModeInv == IInv /\ ModeInv /\ [Next]_vars => ModeInv'
<1> SUFFICES ASSUME IInv, ModeInv, [Next]_vars PROVE ModeInv'
  OBVIOUS
<1>1. ASSUME NEW t \in Tracks, NEW s \in Written(t),
             WriteSample(t, s) \/ WriteSampleThrows(t, s)
      PROVE  ModeInv'
  BY <1>1, WriteSampleModal
<1>2. ASSUME NEW t \in Tracks, NEW s \in Written(t), ModeFlushThrows(t, s)
      PROVE  ModeInv'
  BY <1>2, FlushModal DEF ModeFlushThrows, writer
<1>3. ASSUME NEW t \in Tracks, NEW d \in ChunkDurations, SetDurationPerChunk(t, d)
      PROVE  ModeInv'
  BY <1>3, ModalKept DEF SetDurationPerChunk
<1>4. ASSUME NEW t \in Tracks, NEW sampleId \in SampleIds(t), ReadSample(t, sampleId)
      PROVE  ModeInv'
  <2> DEFINE m == ReadMedia(t, sampleId)
  <2>1. m = Media(t) \/ m = WriteChunkBuffer(Media(t), writeId[t])
    BY DEF ReadMedia
  <2>2. IsMedia(Media(t))
    BY MediaIsMedia DEF IInv, StateType
  <2>3. IsMedia(m)
    BY <2>1, <2>2, WriteChunkBufferFollows DEF Follows
  <2>4. \A e : [m EXCEPT !.file = RestorePosition(@, e)] = m
    BY <2>3 DEF IsMedia, RestorePosition
  <2>5. SetMedia(t, m) /\ UNCHANGED << hist, curMode >>
    BY <1>4, <2>4 DEF ReadSample, writer
  <2> QED
    BY <2>1, <2>5, FlushModal
<1>5. ASSUME NEW t \in Tracks, NEW sampleId \in SampleIds(t), ReadSampleThrows(t, sampleId)
      PROVE  ModeInv'
  BY <1>5, FlushModal DEF ReadSampleThrows, writer
<1>6. ASSUME NEW t \in Tracks, NEW sampleId \in SampleIds(t), LookUpSample(t, sampleId)
      PROVE  ModeInv'
  BY <1>6, ModalKept DEF LookUpSample, writer
<1>7. ASSUME NEW t \in Tracks, NEW sampleId \in SampleIds(t), NEW offset \in Offsets,
             SetOffset(t, sampleId, offset)
      PROVE  ModeInv'
  BY <1>7, SetOffsetModal
<1>8. CASE FinishTrack \/ FinishTrackThrows
  <2>1. next \in Tracks
    BY <1>8, CountsAssumption DEF FinishTrack, FinishTrackThrows, IInv, StateType, WriterType,
                                  Tracks
  <2>2. CASE FinishTrack
    BY <2>1, <2>2, FlushModal DEF FinishTrack, writer
  <2>3. CASE FinishTrackThrows
    BY <2>1, <2>3, FlushModal DEF FinishTrackThrows, writer
  <2> QED
    BY <1>8, <2>2, <2>3
<1>9. CASE FinishFile
  BY <1>9, ModalKept DEF FinishFile, writer
<1>10. CASE Modify
  BY <1>10, ModifyModal
<1>11. CASE UNCHANGED vars
  BY <1>11, ModalKept DEF vars, writer
<1> QED
  BY <1>1, <1>2, <1>3, <1>4, <1>5, <1>6, <1>7, <1>8, <1>9, <1>10, <1>11 DEF Next

LEMMA InitModeInv == Init => ModeInv
<1> SUFFICES ASSUME Init, NEW t \in AmrTracks PROVE Modal(Media(t), hist[t], curMode[t])
  BY DEF ModeInv
<1>1. t \in Tracks
  BY TrackAssumption
<1>2. Media(t).buffer.bytes = << >> /\ Media(t).flushed = << >>
  BY <1>1 DEF Init, Media, EmptyBuffer
<1> QED
  BY <1>2 DEF Modal, OfMode

LEMMA ModeInvOneMode == IInv /\ ModeInv => OneModePerChunk
<1> SUFFICES ASSUME IInv, ModeInv, NEW t \in AmrTracks, NEW c \in 1..Len(flushed[t]),
                    NEW b1 \in Range(flushed[t][c]), NEW b2 \in Range(flushed[t][c])
             PROVE  hist[t][b1[2]].mode = hist[t][b2[2]].mode
  BY DEF OneModePerChunk
<1>1. t \in Tracks /\ flushed[t] \in Seq(Seq(Byte))
  BY TrackAssumption DEF IInv, StateType, MediaType
<1>2. flushed[t][c] \in Seq(Byte)
  BY <1>1, ElementOfSeq
<1>3. Media(t).flushed = flushed[t]
  BY DEF Media
<1>4. PICK k \in Int : OfMode(flushed[t][c], hist[t], k)
  BY <1>3 DEF ModeInv, Modal
<1>5. DOMAIN flushed[t][c] = 1..Len(flushed[t][c])
  BY <1>2, LenProperties
<1>6. \A b \in Range(flushed[t][c]) : hist[t][b[2]].mode = k
  BY <1>4, <1>5 DEF Range, OfMode
<1> QED
  BY <1>6

\* The frames of one chunk of an AMR track have one mode, whatever flushes
\* failed and whatever was read in between (MP4Track::WriteSample).
THEOREM ChunksHaveOneMode == Spec => []OneModePerChunk
<1>1. Init => ModeInv
  BY InitModeInv
<1>2. IInv /\ ModeInv /\ [Next]_vars => ModeInv'
  BY NextModeInv
<1>3. IInv /\ ModeInv => OneModePerChunk
  BY ModeInvOneMode
<1> QED
  BY <1>1, <1>2, <1>3, InductiveInvariant, PTL DEF Spec

-----------------------------------------------------------------------------
(* The duration of the movie.                                              *)

LongestInv ==
    /\ \A t \in Tracks : trackDuration[t] = (mediaDuration[t] * MovieTimeScale) \div TimeScale
    /\ \A t \in Tracks : trackDuration[t] <= movieDuration
    /\ \E t \in Tracks : trackDuration[t] = movieDuration

LEMMA QuotientBounds ==
    ASSUME NEW a \in Nat, NEW c \in Nat \ {0}
    PROVE  a \div c \in Nat /\ c * (a \div c) <= a /\ a < c * (a \div c) + c
<1>1. a \div c \in Nat
  OBVIOUS
<1>2. a = c * (a \div c) + (a % c) /\ a % c \in 0..(c - 1)
  OBVIOUS
<1> QED
  BY <1>1, <1>2

LEMMA QuotientMonotonic ==
    ASSUME NEW a \in Nat, NEW b \in Nat, a <= b, NEW c \in Nat \ {0}
    PROVE  a \div c <= b \div c
<1> DEFINE q == a \div c
           r == b \div c
<1>1. q \in Nat /\ r \in Nat /\ c * q <= a /\ b < c * r + c
  BY QuotientBounds
<1> HIDE DEF q, r
<1>2. c * q < c * (r + 1)
  BY <1>1
<1>3. q < r + 1
  <2> SUFFICES ASSUME r + 1 <= q PROVE FALSE
    BY <1>1
  <2>1. PICK d \in Nat : q = (r + 1) + d
    BY <1>1
  <2>2. c * q = c * (r + 1) + c * d /\ c * d >= 0
    BY <1>1, <2>1
  <2>3. c * q \in Nat /\ c * (r + 1) \in Nat /\ c * d \in Nat
    BY <1>1, <2>1
  <2> QED
    BY <1>2, <2>2, <2>3
<1> QED
  BY <1>1, <1>3 DEF q, r

LEMMA ProductMonotonic ==
    ASSUME NEW a \in Nat, NEW d \in Nat, NEW c \in Nat
    PROVE  a * c \in Nat /\ (a + d) * c \in Nat /\ a * c <= (a + d) * c
<1>1. (a + d) * c = a * c + d * c
  OBVIOUS
<1>2. a * c \in Nat /\ d * c \in Nat
  OBVIOUS
<1> QED
  BY <1>1, <1>2

LEMMA UpdateDurationsLongest ==
    ASSUME WriterType, LongestInv, NEW t \in Tracks, NEW d \in Nat, UpdateDurations(t, d)
    PROVE  LongestInv'
<1> DEFINE media == mediaDuration[t] + d
           movie == (media * MovieTimeScale) \div TimeScale
<1>1. /\ mediaDuration \in [Tracks -> Nat] /\ trackDuration \in [Tracks -> Nat]
      /\ movieDuration \in Nat
  BY DEF WriterType
<1>2. /\ mediaDuration' = [mediaDuration EXCEPT ![t] = media]
      /\ trackDuration' = [trackDuration EXCEPT ![t] = movie]
      /\ movieDuration' = IF movie > movieDuration THEN movie ELSE movieDuration
  BY DEF UpdateDurations
\* The track never gets shorter.
<1>3. movie \in Nat /\ trackDuration[t] <= movie
  <2> DEFINE before == mediaDuration[t] * MovieTimeScale
             after  == media * MovieTimeScale
  <2>1. mediaDuration[t] \in Nat /\ MovieTimeScale \in Nat /\ TimeScale \in Nat \ {0}
    BY <1>1, TrackAssumption
  <2>2. before \in Nat /\ after \in Nat /\ before <= after
    BY <2>1, ProductMonotonic
  <2>3. trackDuration[t] = before \div TimeScale
    BY DEF LongestInv
  <2> HIDE DEF before, after
  <2>4. before \div TimeScale <= after \div TimeScale /\ after \div TimeScale \in Nat
    BY <2>1, <2>2, QuotientMonotonic, QuotientBounds
  <2> QED
    BY <2>3, <2>4 DEF after
<1>4. \A u \in Tracks :
          trackDuration'[u] = (mediaDuration'[u] * MovieTimeScale) \div TimeScale
  <2>1. ASSUME NEW u \in Tracks, u # t
        PROVE  trackDuration'[u] = trackDuration[u] /\ mediaDuration'[u] = mediaDuration[u]
    BY <1>1, <1>2, <2>1
  <2>2. trackDuration'[t] = movie /\ mediaDuration'[t] = media
    BY <1>1, <1>2
  <2> HIDE DEF media
  <2> QED
    BY <2>1, <2>2 DEF LongestInv
<1> HIDE DEF movie
<1>5. \A u \in Tracks : trackDuration'[u] = IF u = t THEN movie ELSE trackDuration[u]
  BY <1>1, <1>2
<1>6. \A u \in Tracks : trackDuration[u] \in Nat /\ trackDuration[u] <= movieDuration
  BY <1>1 DEF LongestInv
<1>7. \A u \in Tracks : trackDuration'[u] <= movieDuration'
  BY <1>1, <1>2, <1>3, <1>5, <1>6
<1>8. \E u \in Tracks : trackDuration'[u] = movieDuration'
  <2>1. CASE movie > movieDuration
    BY <1>2, <1>5, <2>1
  <2>2. CASE ~(movie > movieDuration)
    <3>1. PICK u \in Tracks : trackDuration[u] = movieDuration
      BY DEF LongestInv
    <3>2. trackDuration'[u] = movieDuration
      BY <1>1, <1>3, <1>5, <2>2, <3>1
    <3> QED
      BY <1>2, <2>2, <3>2
  <2> QED
    BY <2>1, <2>2
<1> QED
  BY <1>4, <1>7, <1>8 DEF LongestInv

LEMMA LongestKept ==
    ASSUME LongestInv, UNCHANGED durations
    PROVE  LongestInv'
BY DEF LongestInv, durations

LEMMA NextLongestInv == IInv /\ LongestInv /\ [Next]_vars => LongestInv'
<1> SUFFICES ASSUME IInv, LongestInv, [Next]_vars PROVE LongestInv'
  OBVIOUS
<1>1. ASSUME NEW t \in Tracks, NEW s \in Written(t), WriteSample(t, s)
      PROVE  LongestInv'
  <2>1. WriterType /\ s \in Samples
    BY WrittenType DEF IInv, StateType
  <2>2. UpdateDurations(t, Duration(t, s))
    BY <1>1 DEF WriteSample
  <2> QED
    BY <2>1, <2>2, DurationType, UpdateDurationsLongest
<1>2. ASSUME NEW t \in Tracks, NEW s \in Written(t),
             WriteSampleThrows(t, s) \/ ModeFlushThrows(t, s)
      PROVE  UNCHANGED durations
  BY <1>2 DEF WriteSampleThrows, ModeFlushThrows
<1>3. ASSUME NEW t \in Tracks, NEW d \in ChunkDurations, SetDurationPerChunk(t, d)
      PROVE  UNCHANGED durations
  BY <1>3 DEF SetDurationPerChunk
<1>4. ASSUME NEW t \in Tracks, NEW sampleId \in SampleIds(t),
             \/ ReadSample(t, sampleId) \/ ReadSampleThrows(t, sampleId)
             \/ LookUpSample(t, sampleId)
      PROVE  UNCHANGED durations
  BY <1>4 DEF ReadSample, ReadSampleThrows, LookUpSample
<1>5. ASSUME NEW t \in Tracks, NEW sampleId \in SampleIds(t), NEW offset \in Offsets,
             SetOffset(t, sampleId, offset)
      PROVE  UNCHANGED durations
  BY <1>5 DEF SetOffset
<1>6. CASE FinishTrack \/ FinishTrackThrows \/ FinishFile \/ Modify
  BY <1>6, LongestKept DEF FinishTrack, FinishTrackThrows, FinishFile, Modify
<1>7. CASE UNCHANGED vars
  BY <1>7, LongestKept DEF vars
<1> QED
  BY <1>1, <1>2, <1>3, <1>4, <1>5, <1>6, <1>7, LongestKept DEF Next

LEMMA InitLongestInv == Init => LongestInv
<1> SUFFICES ASSUME Init PROVE LongestInv
  OBVIOUS
<1>1. /\ \A t \in Tracks : mediaDuration[t] = 0 /\ trackDuration[t] = 0
      /\ movieDuration = 0
  BY DEF Init
<1>2. 1 \in Tracks
  BY CountsAssumption DEF Tracks
<1>3. (0 * MovieTimeScale) \div TimeScale = 0
  <2>1. 0 * MovieTimeScale = 0
    BY TrackAssumption
  <2>2. 0 \div TimeScale = 0
    BY TrackAssumption
  <2> QED
    BY <2>1, <2>2
<1> QED
  BY <1>1, <1>2, <1>3 DEF LongestInv

LEMMA LongestInvLongest == IInv /\ LongestInv => MovieIsLongest
<1> SUFFICES ASSUME IInv, LongestInv PROVE MovieIsLongest
  OBVIOUS
<1> DEFINE S == {trackDuration[t] : t \in Tracks}
<1>1. /\ trackDuration \in [Tracks -> Nat] /\ movieDuration \in Nat
  BY DEF IInv, StateType, WriterType
<1>2. movieDuration \in S /\ \A y \in S : movieDuration >= y
  BY <1>1 DEF LongestInv
<1>3. \A x \in S : x \in Nat
  BY <1>1
<1> HIDE DEF S
<1>4. \A x \in S : (\A y \in S : x >= y) => x = movieDuration
  BY <1>1, <1>2, <1>3
<1>5. Max(S) = movieDuration
  BY <1>2, <1>4 DEF Max
<1> QED
  BY <1>5 DEF MovieIsLongest, S

\* The movie lasts as long as its longest track, after whatever samples,
\* sessions and failed writes (MP4Track::UpdateDurations, MP4File::UpdateDuration).
THEOREM MovieLastsAsLongest == Spec => []MovieIsLongest
<1>1. Init => LongestInv
  BY InitLongestInv
<1>2. IInv /\ LongestInv /\ [Next]_vars => LongestInv'
  BY NextLongestInv
<1>3. IInv /\ LongestInv => MovieIsLongest
  BY LongestInvLongest
<1> QED
  BY <1>1, <1>2, <1>3, InductiveInvariant, PTL DEF Spec

-----------------------------------------------------------------------------
(* The sizes of samples.                                                   *)

Units(s) == s.size \div BytesPerSample

\* Table z has one fixed size or an entry for each sample of history h.
SizesOf(z, h) ==
    /\ z.count = Len(h)
    /\ IF z.fixed # 0 THEN z.sizes = << >> ELSE Len(z.sizes) = Len(h)
    /\ \A k \in 1..Len(h) : Units(h[k]) = IF z.fixed # 0 THEN z.fixed ELSE z.sizes[k]

SizesInv == \A t \in Tracks : SizesOf(stsz[t], hist[t])

\* One more sample: the table keeps its fixed size, gets it, or gives it up.
LEMMA SizesAfterSample ==
    ASSUME NEW z \in SizesType, NEW h \in Seq(SampleType), SizesOf(z, h),
           NEW x \in SampleType, NEW id
    PROVE  SizesOf(UpdateSampleSizes(z, id, x.size, BytesPerSample), Append(h, x))
<1> DEFINE u       == Units(x)
           first   == id = 1 /\ z.count = 0
           earlier == IF z.fixed = 0 THEN z.sizes
                      ELSE z.sizes \o [i \in 1..z.count |-> z.fixed]
           n == UpdateSampleSizes(z, id, x.size, BytesPerSample)
           g == Append(h, x)
<1>1. /\ z.fixed \in Nat /\ z.count \in Nat /\ z.sizes \in Seq(Nat)
      /\ Len(h) \in Nat /\ z.count = Len(h)
  BY LenProperties DEF SizesType, SizesOf
<1>2. u \in Nat
  BY TrackAssumption, QuotientBounds DEF Units, SampleType
<1>3. /\ n.count = z.count + 1
      /\ n.fixed = IF first \/ u = z.fixed THEN u ELSE 0
      /\ n.sizes = IF u # 0 /\ (first \/ u = z.fixed) THEN z.sizes ELSE Append(earlier, u)
  BY DEF UpdateSampleSizes, Units
<1>4. /\ Len(g) = Len(h) + 1 /\ Units(g[Len(h) + 1]) = u
      /\ \A k \in 1..Len(h) : g[k] = h[k]
  BY AppendProperties
<1> HIDE DEF u, n, g
<1>5. CASE u # 0 /\ (first \/ u = z.fixed)
  <2>1. z.sizes = << >>
    BY <1>1, <1>5 DEF SizesOf
  <2>2. \A k \in 1..Len(h) : Units(h[k]) = u
    BY <1>1, <1>5 DEF SizesOf
  <2> QED
    BY <1>1, <1>2, <1>3, <1>4, <1>5, <2>1, <2>2 DEF SizesOf, n, g
<1>6. CASE ~(u # 0 /\ (first \/ u = z.fixed))
  <2>1. /\ earlier \in Seq(Nat) /\ Len(earlier) = Len(h)
        /\ \A k \in 1..Len(h) : earlier[k] = Units(h[k])
    <3>1. CASE z.fixed = 0
      BY <1>1, <3>1 DEF SizesOf
    <3>2. CASE z.fixed # 0
      <4> DEFINE same == [i \in 1..z.count |-> z.fixed]
      <4>1. same \in Seq(Nat) /\ Len(same) = z.count
        BY <1>1, IsASeq, LenProperties
      <4>2. earlier = same
        BY <1>1, <3>2, <4>1, ConcatEmptySeq DEF SizesOf
      <4> QED
        BY <1>1, <3>2, <4>1, <4>2 DEF SizesOf
    <3> QED
      BY <3>1, <3>2
  <2> HIDE DEF earlier
  <2>2. n.fixed = 0 /\ n.sizes = Append(earlier, u)
    BY <1>3, <1>6
  <2>3. /\ Len(n.sizes) = Len(h) + 1 /\ n.sizes[Len(h) + 1] = u
        /\ \A k \in 1..Len(h) : n.sizes[k] = Units(h[k])
    BY <1>2, <2>1, <2>2, AppendProperties
  <2>4. ASSUME NEW k \in 1..Len(g) PROVE Units(g[k]) = n.sizes[k]
    <3>1. k \in 1..Len(h) \/ k = Len(h) + 1
      BY <1>1, <1>4
    <3> QED
      BY <1>4, <2>3, <3>1
  <2> QED
    BY <1>1, <1>3, <1>4, <2>2, <2>3, <2>4 DEF SizesOf, n, g
<1> QED
  BY <1>5, <1>6

LEMMA SizesKept ==
    ASSUME SizesInv, UNCHANGED << stsz, hist >>
    PROVE  SizesInv'
BY DEF SizesInv, SizesOf

LEMMA WriteSampleSizes ==
    ASSUME IInv, SizesInv, NEW t \in Tracks, NEW s \in Written(t), RecordSample(t, s)
    PROVE  SizesInv'
<1> DEFINE x == [s EXCEPT !.duration = Duration(t, s)]
           n == UpdateSampleSizes(stsz[t], writeId[t], s.size, BytesPerSample)
<1>1. /\ stsz \in [Tracks -> SizesType] /\ hist \in [Tracks -> Seq(SampleType)]
  BY DEF IInv, StateType, WriterType, SizesType
<1>2. s \in Samples /\ s \in [size : Nat, duration : Nat \cup {FIXED}, offset : Nat,
                               sync : BOOLEAN, mode : Nat]
  BY WrittenType
<1>3. x \in SampleType /\ x.size = s.size
  BY <1>2, DurationType DEF IInv, StateType
<1>4. stsz' = [stsz EXCEPT ![t] = n] /\ hist' = [hist EXCEPT ![t] = Append(@, x)]
  BY DEF RecordSample
<1>5. SizesOf(n, Append(hist[t], x))
  BY <1>1, <1>3, SizesAfterSample DEF SizesInv
<1> HIDE DEF n, x
<1> SUFFICES ASSUME NEW u \in Tracks PROVE SizesOf(stsz'[u], hist'[u])
  BY DEF SizesInv, SizesOf
<1> QED
  BY <1>1, <1>4, <1>5 DEF SizesInv

LEMMA SetOffsetSizes ==
    ASSUME IInv, SizesInv, NEW t \in Tracks, NEW sampleId, NEW offset,
           SetOffset(t, sampleId, offset)
    PROVE  SizesInv'
<1> DEFINE h == hist[t]
           g == [h EXCEPT ![sampleId].offset = offset]
<1>1. hist \in [Tracks -> Seq(SampleType)]
  BY DEF IInv, StateType, WriterType
<1>2. stsz' = stsz /\ hist' = [hist EXCEPT ![t][sampleId].offset = offset]
  BY DEF SetOffset
<1>3. /\ Len(h) \in Nat /\ DOMAIN h = 1..Len(h)
      /\ \A i \in 1..Len(h) : h[i] \in SampleType
  BY <1>1, LenProperties, ElementOfSeq
<1>4. \A u \in Tracks : hist'[u] = hist[u] \/ (u = t /\ hist'[u] = g)
  BY <1>1, <1>2
<1> HIDE DEF h
<1>5. DOMAIN g = 1..Len(h)
  BY <1>3
<1>6. ASSUME NEW i \in 1..Len(h) PROVE g[i].size = h[i].size
  <2>1. g[i] = IF i = sampleId THEN [h[i] EXCEPT !.offset = offset] ELSE h[i]
    BY <1>3
  <2>2. [h[i] EXCEPT !.offset = offset].size = h[i].size
    BY <1>3 DEF SampleType
  <2> QED
    BY <2>1, <2>2
<1>7. Len(g) = Len(h)
  BY <1>3, <1>5, LenProperties
<1> HIDE DEF g
<1>8. SizesOf(stsz[t], h) => SizesOf(stsz[t], g)
  BY <1>6, <1>7 DEF SizesOf, Units
<1> SUFFICES ASSUME NEW u \in Tracks PROVE SizesOf(stsz'[u], hist'[u])
  BY DEF SizesInv, SizesOf
<1> QED
  BY <1>2, <1>4, <1>8 DEF SizesInv, h

LEMMA NextSizesInv == IInv /\ SizesInv /\ [Next]_vars => SizesInv'
<1> SUFFICES ASSUME IInv, SizesInv, [Next]_vars PROVE SizesInv'
  OBVIOUS
<1>1. ASSUME NEW t \in Tracks, NEW s \in Written(t),
             WriteSample(t, s) \/ WriteSampleThrows(t, s)
      PROVE  SizesInv'
  BY <1>1, WriteSampleSizes DEF WriteSample, WriteSampleThrows
<1>2. ASSUME NEW t \in Tracks, NEW s \in Written(t), ModeFlushThrows(t, s)
      PROVE  UNCHANGED << stsz, hist >>
  BY <1>2 DEF ModeFlushThrows, tables
<1>3. ASSUME NEW t \in Tracks, NEW d \in ChunkDurations, SetDurationPerChunk(t, d)
      PROVE  UNCHANGED << stsz, hist >>
  BY <1>3 DEF SetDurationPerChunk, tables
<1>4. ASSUME NEW t \in Tracks, NEW sampleId \in SampleIds(t),
             \/ ReadSample(t, sampleId) \/ ReadSampleThrows(t, sampleId)
             \/ LookUpSample(t, sampleId)
      PROVE  UNCHANGED << stsz, hist >>
  BY <1>4 DEF ReadSample, ReadSampleThrows, LookUpSample, tables
<1>5. ASSUME NEW t \in Tracks, NEW sampleId \in SampleIds(t), NEW offset \in Offsets,
             SetOffset(t, sampleId, offset)
      PROVE  SizesInv'
  BY <1>5, SetOffsetSizes
<1>6. CASE FinishTrack \/ FinishTrackThrows \/ FinishFile \/ Modify
  BY <1>6, SizesKept DEF FinishTrack, FinishTrackThrows, FinishFile, Modify, tables
<1>7. CASE UNCHANGED vars
  BY <1>7, SizesKept DEF vars, tables
<1> QED
  BY <1>1, <1>2, <1>3, <1>4, <1>5, <1>6, <1>7, SizesKept DEF Next

LEMMA InitSizesInv == Init => SizesInv
BY DEF Init, SizesInv, SizesOf, NoSizes

LEMMA SizesInvSizes == SizesInv => SampleSizes
<1> SUFFICES ASSUME SizesInv, NEW t \in Tracks, NEW k \in 1..Len(hist[t])
             PROVE  GetSampleSize(stsz[t], k, BytesPerSample) = Units(hist[t][k]) * BytesPerSample
  BY DEF SampleSizes, SizesInv, SizesOf, Units
<1>1. SizesOf(stsz[t], hist[t])
  BY DEF SizesInv
<1> QED
  BY <1>1 DEF SizesOf, GetSampleSize

\* The size of every sample can be asked for, whatever sizes came before and
\* after it, also when its flush failed and in later sessions
\* (MP4Track::UpdateSampleSizes, MP4Track::GetSampleSize).
THEOREM SizesAreThoseWritten == Spec => []SampleSizes
<1>1. Init => SizesInv
  BY InitSizesInv
<1>2. IInv /\ SizesInv /\ [Next]_vars => SizesInv'
  BY NextSizesInv
<1>3. SizesInv => SampleSizes
  BY SizesInvSizes
<1> QED
  BY <1>1, <1>2, <1>3, InductiveInvariant, PTL DEF Spec
=============================================================================
