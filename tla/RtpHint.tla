------------------------------ MODULE RtpHint ------------------------------
(***************************************************************************)
(* RTP hint tracks (rtphint.cpp): a client describes the packets that will *)
(* carry its media, hint by hint; each hint is encoded in the memory       *)
(* buffer of the file object and becomes a sample of the hint track.  Read *)
(* back, its packets are put together again from data in the hint, from    *)
(* samples of the reference track and from data that follows the packets   *)
(* in the hint sample itself.                                              *)
(*                                                                         *)
(* The unit of length is four bytes, a cell: a hint has a head of one      *)
(* cell, a packet three, its extra information four, an entry four.        *)
(* Samples once written stay readable: chunks are module Track's subject.  *)
(* The client gives lengths below 2^16 and stops when WriteHint fails.  In *)
(* every session it sets the payload (MP4SetHintTrackRtpPayload) before it *)
(* adds packets, and the ES configuration fits the packet size it set.     *)
(***************************************************************************)
EXTENDS MemoryBuffer, SequencesExt, FiniteSetsExt

CONSTANTS
    Immediates,       \* data of at most 14 bytes that goes into the hint
    References,       \* [sample, offset, length] in the reference track
    MediaLengths,     \* lengths of the samples of the reference track
    Config,           \* the ES configuration of the reference track, or << >>
    Durations,        \* of hints
    TimeScale,
    MaxHints, MaxPackets, MaxEntries, MaxSessions   \* bounds on the whole file

ASSUME HintAssumption ==
    /\ TimeScale \in Nat \ {0} /\ Durations \subseteq Nat \ {0}
    /\ MaxHints \in Nat /\ MaxPackets \in Nat /\ MaxEntries \in Nat /\ MaxSessions \in Nat

VARIABLES
    media,      \* the samples of the reference track
    samples,    \* the samples of the hint track: [cells, duration]
    writing,    \* m_pWriteHint
    reading,    \* m_pReadHint
    memory,     \* the memory buffer
    cached,     \* m_cachedReadSampleId and m_pCachedReadSample of both tracks
    writeHintId,    \* m_writeHintId
    rate,       \* m_thisSec, m_bytesThisSec, m_bytesThisHint, m_bytesThisPacket
    stats,      \* the boxes below hinf and hmhd
    phase,      \* "open", "closed" or "lost"
    session,
    begun,      \* history: the packets of the hint being written
    hist,       \* history: the packets of each hint written
    dropped,    \* history: the packets of hints pending when the file was closed
    answer      \* history: what the last call, a ReadPacket, asked for and returned

vars == << media, samples, writing, reading, memory, cached, writeHintId, rate,
           stats, phase, session, begun, hist, dropped, answer >>

NoHint   == << >>
NoAnswer == << >>
NoCached == [id |-> 0, cells |-> << >>]
NoRate   == [sec |-> 0, second |-> 0, hint |-> 0, packet |-> 0]
NoStats  == [trpy |-> 0, nump |-> 0, tpyl |-> 0, maxr |-> 0, dmed |-> 0, dimm |-> 0,
             pmax |-> 0, dmax |-> 0, maxPdu |-> 0]

HeadLen == 1
Filling(n) == [i \in 1..n |-> << "fill" >>]
RtpHeader  == 3    \* of an RTP packet: 12 bytes

-----------------------------------------------------------------------------
(* Encoding.                                                               *)

\* An entry as it is stored: all but the data that goes behind the packets.
Stored(entry) == [entry EXCEPT !.data = IF entry.kind = "immediate" THEN @ ELSE << >>]

EncodePacket(p, extra) ==
    << << "packet", [entries |-> Len(p), extra |-> extra] >> >> \o Filling(2)
    \o (IF extra THEN << << "rtpo" >> >> \o Filling(3) ELSE << >>)
    \o FlattenSeq([j \in DOMAIN p |-> << << "entry", Stored(p[j]) >> >> \o Filling(3)])

EncodePackets(hint) ==
    FlattenSeq([i \in DOMAIN hint.packets |-> EncodePacket(hint.packets[i], hint.extra)])

Entries(hint) ==
    FlattenSeq([i \in DOMAIN hint.packets |-> [j \in DOMAIN hint.packets[i] |-> << i, j >>]])

\* Data of the hint's own track goes behind the packets; the entry learns where.
WriteEmbeddedData(m, hint) ==
    FoldLeft(LAMBDA s, e :
        LET entry == s.hint.packets[e[1]][e[2]]
        IN  IF entry.kind # "own" THEN s
            ELSE [memory |-> WriteUnits(s.memory, entry.data, Len(entry.data)),
                  hint |-> [s.hint EXCEPT !.packets[e[1]][e[2]].offset = s.memory.pos]],
        [memory |-> m, hint |-> hint], Entries(hint))

\* MP4RtpHint::Write into a new buffer: the packets, the data behind them, the
\* packets again with its offsets.
WriteTwice(hint) ==
    LET head   == WriteUnits(EnableMemoryBuffer,
                             << << "hint", Len(hint.packets) >> >> \o EncodePackets(hint), 1)
        behind == WriteEmbeddedData(head, hint)
        back   == SetPosition(behind.memory, HeadLen)
        again  == WriteUnits(back, EncodePackets(behind.hint), 1)
    IN  SetPosition(again, behind.memory.pos)

\* MP4RtpHint::Read.
PacketLen(head) == 3 + (IF head.extra THEN 4 ELSE 0) + 4 * head.entries

ReadPackets(cells) ==
    LET n == cells[1][2]
        at[i \in 1 .. n + 1] ==
            IF i = 1 THEN HeadLen ELSE at[i - 1] + PacketLen(cells[at[i - 1] + 1][2])
        first(i) == at[i + 1] - 4 * cells[at[i] + 1][2].entries
    IN  [i \in 1..n |-> [j \in 1 .. cells[at[i] + 1][2].entries |->
                            cells[first(i) + 4 * (j - 1) + 1][2]]]

-----------------------------------------------------------------------------
(* Reading samples.                                                        *)

\* Mistake: the sample is named before it has been read.
CacheEarly(cache, id, found) ==
    IF id = cache.id THEN cache ELSE [id |-> id, cells |-> IF id \in DOMAIN found
                                                           THEN found[id] ELSE << >>]

\* The sample ReadSampleFragment keeps; none when reading it throws.
CacheSample(cache, id, found) ==
    IF id = cache.id THEN cache
    ELSE IF id \in DOMAIN found THEN [id |-> id, cells |-> found[id]] ELSE NoCached

\* MP4RtpData::GetData of an entry, with both caches; data is THROWN when the
\* sample cannot be read or is too short.
THROWN == << << "thrown" >> >>

GetData(entry, cache) ==
    LET track == IF entry.kind = "own" THEN "own" ELSE "ref"
        found == IF track = "own" THEN [k \in DOMAIN samples |-> samples[k].cells] ELSE media
        now   == CacheSample(cache[track], entry.sample, found)
        data  == IF now.id # entry.sample \/ entry.offset + entry.length > Len(now.cells)
                 THEN THROWN
                 ELSE SubSeq(now.cells, entry.offset + 1, entry.offset + entry.length)
    IN  IF entry.kind = "immediate" THEN [data |-> entry.data, cache |-> cache]
        ELSE [data |-> data, cache |-> [cache EXCEPT ![track] = now]]

\* MP4RtpPacket::GetData stops at the first entry that throws.
GetPacketData(packet, cache) ==
    FoldLeft(LAMBDA s, entry :
        LET got == GetData(entry, s.cache)
        IN  IF s.data = THROWN THEN s
            ELSE [data  |-> IF got.data = THROWN THEN THROWN ELSE s.data \o got.data,
                  cache |-> got.cache],
        [data |-> << >>, cache |-> cache], packet)

-----------------------------------------------------------------------------
(* Writing hints.                                                          *)

Init ==
    /\ media = << >> /\ samples = << >>
    /\ writing = NoHint /\ reading = NoHint /\ memory = NoBuffer
    /\ cached = [own |-> NoCached, ref |-> NoCached]
    /\ writeHintId = 0 /\ rate = NoRate /\ stats = NoStats
    /\ phase = "open" /\ session = 1
    /\ begun = << >> /\ hist = << >> /\ dropped = << >> /\ answer = NoAnswer

Usable == phase = "open" /\ ~memory.on

WriteMedia ==
    /\ Usable
    /\ \E n \in MediaLengths :
          /\ Len(media) < Max({r.sample : r \in References} \cup {0})
          /\ media' = Append(media, [i \in 1..n |-> << "media", Len(media) + 1, i >>])
    /\ answer' = NoAnswer
    /\ UNCHANGED << samples, writing, reading, memory, cached, writeHintId, rate, stats,
                    phase, session, begun, hist, dropped >>

\* MP4AddRtpVideoHint; with a timestamp offset packets have extra information.
AddHint ==
    /\ Usable /\ writing = NoHint /\ Len(samples) < MaxHints
    /\ \E extra \in BOOLEAN : writing' = [extra |-> extra, packets |-> << >>]
    /\ rate' = [rate EXCEPT !.hint = 0]
    /\ writeHintId' = writeHintId + 1
    /\ begun' = << >> /\ answer' = NoAnswer
    /\ UNCHANGED << media, samples, reading, memory, cached, stats, phase, session, hist,
                    dropped >>

CanAddPacket == Usable /\ writing # NoHint /\ stats.nump < MaxPackets

\* Bytes in the packet before are final when the next one begins.
StatsOfPacket(s, r) ==
    [s EXCEPT !.nump = @ + 1, !.trpy = @ + RtpHeader, !.pmax = Max({@, r.packet})]

RateOfPacket(r) == [r EXCEPT !.hint = @ + RtpHeader, !.packet = RtpHeader]

AddPacket ==
    /\ CanAddPacket
    /\ writing' = [writing EXCEPT !.packets = Append(@, << >>)]
    /\ begun' = Append(begun, << >>)
    /\ stats' = StatsOfPacket(stats, rate) /\ rate' = RateOfPacket(rate)
    /\ answer' = NoAnswer
    /\ UNCHANGED << media, samples, reading, memory, cached, writeHintId, phase, session,
                    hist, dropped >>

\* An entry goes to the last packet.
WithEntry(hint, entry) ==
    [hint EXCEPT !.packets[Len(hint.packets)] = Append(@, entry)]

CountData(s, n) == [s EXCEPT !.tpyl = @ + n, !.trpy = @ + n]
RateOfData(r, n) == [r EXCEPT !.hint = @ + n, !.packet = @ + n]

NumEntries == Len(FlattenSeq(FlattenSeq(hist \o dropped \o << begun >>)))

CanAddData == Usable /\ writing # NoHint /\ writing.packets # << >> /\ NumEntries < MaxEntries

AddImmediateData ==
    /\ CanAddData
    /\ \E data \in Immediates :
          /\ writing' = WithEntry(writing, [kind |-> "immediate", sample |-> 0, offset |-> 0,
                                            length |-> Len(data), data |-> data])
          /\ begun' = [begun EXCEPT ![Len(begun)] = Append(@, << "immediate", data >>)]
          /\ stats' = [CountData(stats, Len(data)) EXCEPT !.dimm = @ + Len(data)]
          /\ rate' = RateOfData(rate, Len(data))
    /\ answer' = NoAnswer
    /\ UNCHANGED << media, samples, reading, memory, cached, writeHintId, phase, session,
                    hist, dropped >>

AddSampleData ==
    /\ CanAddData
    /\ \E r \in References :
          /\ writing' = WithEntry(writing, [kind |-> "reference", sample |-> r.sample,
                                            offset |-> r.offset, length |-> r.length,
                                            data |-> << >>])
          /\ begun' = [begun EXCEPT ![Len(begun)] = Append(@, << "reference", r >>)]
          /\ stats' = [CountData(stats, r.length) EXCEPT !.dmed = @ + r.length]
          /\ rate' = RateOfData(rate, r.length)
    /\ answer' = NoAnswer
    /\ UNCHANGED << media, samples, reading, memory, cached, writeHintId, phase, session,
                    hist, dropped >>

\* m_writeSampleId: MP4Track's constructor sets it to 1 also in later sessions.
WriteSampleId == Len(SelectSeq(samples, LAMBDA s : s.session = session)) + 1

\* A packet of its own for the configuration, which is embedded in the sample
\* this hint will be.  Without a configuration nothing happens.
AddESConfigurationPacket ==
    /\ CanAddPacket /\ NumEntries < MaxEntries /\ Config # << >>
    /\ writing' = WithEntry([writing EXCEPT !.packets = Append(@, << >>)],
                            [kind |-> "own", sample |-> WriteSampleId, offset |-> 0,
                             length |-> Len(Config), data |-> Config])
    /\ begun' = Append(begun, << << IF WriteSampleId = Len(samples) + 1 THEN "config"
                                    ELSE "astray" >> >>)
    /\ stats' = CountData(StatsOfPacket(stats, rate), Len(Config))
    /\ rate' = RateOfData(RateOfPacket(rate), Len(Config))
    /\ answer' = NoAnswer
    /\ UNCHANGED << media, samples, reading, memory, cached, writeHintId, phase, session,
                    hist, dropped >>

StartOfHint(all, id) ==
    FoldLeft(LAMBDA n, s : n + s.duration, 0, SubSeq(all, 1, id - 1))

\* Mistakes: the second begins with the hint; the hint is not counted in it.
NextSecondHere(r, start) == [r EXCEPT !.sec = start, !.second = r.hint]
NextSecondEmpty(r, start) ==
    [r EXCEPT !.sec = start - (start % TimeScale), !.second = 0]

NextSecond(r, start) ==
    [r EXCEPT !.sec = start - (start % TimeScale), !.second = r.hint]

\* The statistics of a hint written; its time is that of sample m_writeHintId.
RateOfHint(r, start) ==
    IF start < r.sec + TimeScale THEN [r EXCEPT !.second = @ + r.hint]
                                 ELSE NextSecond(r, start)

\* Mistake: the last packet of a hint does not count.
StatsOfHintButPacket(s, r, duration, start) ==
    [s EXCEPT !.dmax = Max({@, duration}),
              !.maxr = IF start < r.sec + TimeScale THEN @ ELSE Max({@, r.second})]

StatsOfHint(s, r, duration, start) ==
    [s EXCEPT !.pmax = Max({@, r.packet}), !.dmax = Max({@, duration}),
              !.maxr = IF start < r.sec + TimeScale THEN @ ELSE Max({@, r.second})]

WriteHint ==
    /\ Usable /\ writing # NoHint
    /\ \E duration \in Durations, m \in {WriteTwice(writing)} :
          LET sample == [cells |-> SubSeq(m.cells, 1, m.pos), duration |-> duration,
                         session |-> session]
              start  == StartOfHint(Append(samples, sample), writeHintId)
          IN  /\ m.ok
              /\ samples' = Append(samples, sample)
              /\ memory' = DisableMemoryBuffer(m)
              /\ stats' = StatsOfHint(stats, rate, duration, start)
              /\ rate' = RateOfHint(rate, start)
    /\ writing' = NoHint
    /\ hist' = Append(hist, begun) /\ begun' = << >> /\ answer' = NoAnswer
    /\ UNCHANGED << media, reading, cached, writeHintId, phase, session, dropped >>

\* The position after a hint that ends where the buffer ends is out of range:
\* the exception leaves the hint pending and the buffer in the file's place.
WriteHintThrows ==
    /\ Usable /\ writing # NoHint
    /\ \E m \in {WriteTwice(writing)} : ~m.ok /\ memory' = m
    /\ answer' = NoAnswer
    /\ UNCHANGED << media, samples, writing, reading, cached, writeHintId, rate, stats,
                    phase, session, begun, hist, dropped >>

-----------------------------------------------------------------------------
(* Reading hints and packets; the life of the file.                        *)

\* MP4ReadRtpHint reads the hint out of its sample, put into the buffer.
ReadHint ==
    /\ Usable
    /\ \E id \in DOMAIN samples :
          \E m \in {EnableMemoryBufferOn(samples[id].cells)} :
             /\ reading' = [id |-> id, packets |-> ReadPackets(m.cells)]
             /\ memory' = DisableMemoryBuffer(m)
    /\ answer' = NoAnswer
    /\ UNCHANGED << media, samples, writing, cached, writeHintId, rate, stats, phase,
                    session, begun, hist, dropped >>

\* MP4ReadRtpPacket, the payload of it.
ReadPacket ==
    /\ Usable /\ reading # NoHint
    /\ \E i \in DOMAIN reading.packets :
          \E got \in {GetPacketData(reading.packets[i], cached)} :
             /\ answer' = [hint |-> reading.id, packet |-> i, data |-> got.data]
             /\ cached' = got.cache
    /\ UNCHANGED << media, samples, writing, reading, memory, writeHintId, rate, stats,
                    phase, session, begun, hist, dropped >>

\* MP4Close drops a hint that is pending.  With the buffer in the file's place
\* everything it writes goes there.
Close ==
    /\ phase = "open"
    /\ phase' = IF memory.on THEN "lost" ELSE "closed"
    /\ stats' = IF writeHintId = 0 THEN stats ELSE [stats EXCEPT !.maxPdu = stats.pmax]
    /\ writing' = IF memory.on THEN writing ELSE NoHint
    /\ reading' = NoHint
    /\ begun' = IF memory.on THEN begun ELSE << >>
    /\ dropped' = IF memory.on \/ begun = << >> THEN dropped ELSE Append(dropped, begun)
    /\ answer' = NoAnswer
    /\ UNCHANGED << media, samples, memory, cached, writeHintId, rate, session, hist >>

\* A new file object: all counters of the track start again, the boxes stay.
Modify ==
    /\ phase = "closed" /\ session < MaxSessions
    /\ phase' = "open" /\ session' = session + 1
    /\ writeHintId' = 0 /\ rate' = NoRate
    /\ cached' = [own |-> NoCached, ref |-> NoCached]
    /\ UNCHANGED << media, samples, writing, reading, memory, stats, begun, hist, dropped,
                    answer >>

Next ==
    \/ WriteMedia
    \/ AddHint \/ AddPacket \/ AddImmediateData \/ AddSampleData \/ AddESConfigurationPacket
    \/ WriteHint \/ WriteHintThrows
    \/ ReadHint \/ ReadPacket
    \/ Close \/ Modify

Spec == Init /\ [][Next]_vars
=============================================================================
