------------------------- MODULE RtpHintProperties -------------------------
(***************************************************************************)
(* What hint tracks promise, stated over what the client has described.    *)
(***************************************************************************)
EXTENDS RtpHint

\* Types; the second in progress begins at a whole second.
HintTypeOK ==
    /\ phase \in {"open", "closed", "lost"} /\ session \in 1..MaxSessions
    /\ memory.on \in BOOLEAN /\ memory.pos \in 0..memory.size
    /\ Len(hist) = Len(samples) /\ writeHintId <= Len(samples) + 1
    /\ writing # NoHint => Len(writing.packets) = Len(begun)
    /\ reading # NoHint => reading.id \in DOMAIN samples
    /\ rate.sec % TimeScale = 0
    /\ \A track \in {"own", "ref"} :
          cached[track].id = 0 => cached[track].cells = << >>

\* What a piece of a packet stands for.
Meant(piece) ==
    CASE piece[1] = "immediate" -> piece[2]
      [] piece[1] = "config"    -> Config
      [] piece[1] = "reference" ->
            LET r == piece[2]
            IN  IF r.sample \in DOMAIN media /\ r.offset + r.length <= Len(media[r.sample])
                THEN SubSeq(media[r.sample], r.offset + 1, r.offset + r.length)
                ELSE THROWN

\* A packet read back carries the bytes the client described when the hint was
\* written, in that order, whatever was read before it, however many hints lie
\* between and whenever the media was written; it cannot be read while media
\* it refers to is missing.  (MP4RtpHint::Write, ReadPacket,
\* ReadSampleFragment.)  Configurations added after MP4Modify are apart.
PacketsReadBack ==
    answer # NoAnswer =>
        LET pieces == hist[answer.hint][answer.packet]
            whole  == [j \in DOMAIN pieces |-> Meant(pieces[j])]
        IN  ~ (\E j \in DOMAIN pieces : pieces[j][1] = "astray") =>
               answer.data = IF \E j \in DOMAIN whole : whole[j] = THROWN THEN THROWN
                             ELSE FlattenSeq(whole)

\* The length of a hint in the buffer.
Piece(piece) == 4 + (IF piece[1] \in {"config", "astray"} THEN Len(Config) ELSE 0)
Total(lengths) == FoldLeft(LAMBDA a, b : a + b, 0, lengths)
LengthOfHint(hint, extra) ==
    HeadLen + Total([i \in DOMAIN hint |->
        3 + (IF extra THEN 4 ELSE 0) + Total([j \in DOMAIN hint[i] |-> Piece(hint[i][j])])])

\* The buffer stands in the file's place after a call only if the call failed
\* on a hint that exactly fills it.  (EnableMemoryBuffer, DisableMemoryBuffer.)
BufferReturned ==
    memory.on => /\ writing # NoHint
                 /\ LengthOfHint(begun, writing.extra) = memory.size

BytesOfPiece(piece) ==
    CASE piece[1] = "immediate" -> Len(piece[2])
      [] piece[1] = "reference" -> piece[2].length
      [] OTHER                  -> Len(Config)
BytesOfPacket(packet) == RtpHeader + Total([j \in DOMAIN packet |-> BytesOfPiece(packet[j])])
BytesOfHint(hint) == Total([i \in DOMAIN hint |-> BytesOfPacket(hint[i])])

PiecesOf(kind) ==
    SelectSeq(FlattenSeq(FlattenSeq(hist \o dropped \o << begun >>)), LAMBDA x : x[1] = kind)
BytesOfKind(kind) == LET all == PiecesOf(kind)
                     IN  Total([j \in DOMAIN all |-> BytesOfPiece(all[j])])

Unfinished(hint) == IF hint = << >> THEN << >> ELSE Front(hint)

\* The statistics of the track count every packet and byte described, those of
\* hints that were dropped included, over all sessions; the largest packet is
\* that of the packets known to be complete.  (AddPacket to WriteHint, InitStats.)
HintStatistics ==
    LET packets  == FlattenSeq(hist \o dropped \o << begun >>)
        complete == FlattenSeq(hist \o [k \in DOMAIN dropped |-> Unfinished(dropped[k])]
                                    \o << Unfinished(begun) >>)
    IN  /\ stats.nump = Len(packets)
        /\ stats.trpy = BytesOfHint(packets)
        /\ stats.tpyl = stats.trpy - RtpHeader * stats.nump
        /\ stats.dmed = BytesOfKind("reference") /\ stats.dimm = BytesOfKind("immediate")
        /\ stats.pmax = Max({BytesOfPacket(p) : p \in ToSet(complete)} \cup {0})
        /\ stats.dmax = Max({samples[k].duration : k \in DOMAIN samples} \cup {0})
        /\ phase = "closed" => stats.maxPdu = stats.pmax

SecondOf(k) == StartOfHint(samples, k) \div TimeScale
BytesInSecond(n) ==
    Total([k \in DOMAIN hist |-> IF SecondOf(k) = n THEN BytesOfHint(hist[k]) ELSE 0])

\* maxr is the largest number of bytes whose hints begin in one second of the
\* track, the last second apart, which is never entered.  (WriteHint; in the
\* first session, where m_writeHintId is the sample's id.)
MaxRate ==
    session = 1 =>
        stats.maxr = Max({BytesInSecond(n) :
            n \in {SecondOf(k) : k \in DOMAIN samples} \ {SecondOf(Len(samples))}} \cup {0})
=============================================================================
