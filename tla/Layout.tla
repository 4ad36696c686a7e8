------------------------------- MODULE Layout -------------------------------
(***************************************************************************)
(* Where the top-level boxes of a file are, in memory and on disk: the     *)
(* root atom (atom_root.cpp), the generic box writer (mp4atom.cpp), and    *)
(* what Modify and Close do with ftyp, free, mdat and moov (mp4file.cpp).  *)
(*                                                                         *)
(* The disk is a sequence of cells: the head of a box, a piece of media,   *)
(* the movie a moov box holds, or filling.  An open file f is a record:    *)
(* its boxes (the children of the root), the position, the size File       *)
(* keeps, whether mdat boxes have 64-bit heads, whether Create made it,    *)
(* and the write calls made so far, which reach the disk one by one.       *)
(* Operators take f and what the boxes hold - c.moov, in c.room cells, and *)
(* c.brands brands - and return the next f.                                *)
(***************************************************************************)
EXTENDS Integers, Sequences, SequencesExt, FiniteSetsExt

CONSTANTS
    HeaderLen,    \* a box head: 8 bytes
    FreeRoom      \* the room Create leaves for brands: 128 bytes

ASSUME LayoutAssumption == /\ HeaderLen \in Nat \ {0} /\ FreeRoom \in Nat

Fill(n) == [i \in 1..n |-> << "fill" >>]

HeadLen(large) == IF large THEN 2 * HeaderLen ELSE HeaderLen

\* A 64-bit head says 1 where a 32-bit one has its size, which then follows.
BoxHead(type, size, large) ==
    IF large
    THEN << << "box", type, 1 >> >> \o Fill(HeaderLen - 1)
            \o << << "size", size >> >> \o Fill(HeaderLen - 1)
    ELSE << << "box", type, size >> >> \o Fill(HeaderLen - 1)

-----------------------------------------------------------------------------
(* The disk.                                                               *)

\* One write call at a position; bytes skipped by a seek are filled.
Overwrite(disk, at, cells) ==
    [i \in 1..Max({Len(disk), at + Len(cells)}) |->
        IF i - at \in DOMAIN cells THEN cells[i - at]
        ELSE IF i \in DOMAIN disk THEN disk[i] ELSE << "fill" >>]

Apply(disk, write) ==
    IF write[1] = "cut" THEN SubSeq(disk, 1, Min({write[2], Len(disk)}))
                        ELSE Overwrite(disk, write[2], write[3])

\* A box head with a size of zero reaches to the end of the file.  What is not
\* a head is garbage: what the program makes of it depends on the bytes.
ReadAtom(disk, p) ==
    LET head  == disk[p + 1]
        large == head[3] = 1
        next  == p + HeaderLen + 1
        size  == IF large THEN disk[next][2] ELSE head[3]
        end   == IF size = 0 THEN Len(disk) ELSE Min({p + size, Len(disk)})
    IN  IF head[1] # "box" \/ (large /\ ~(next \in DOMAIN disk /\ disk[next][1] = "size"))
        THEN [type |-> "garbage", start |-> p, end |-> Len(disk), size |-> 0, large |-> FALSE]
        ELSE [type |-> head[2], start |-> p, end |-> end,
              size |-> end - p - HeadLen(large), large |-> large]

ReadBoxes(disk) ==
    LET from[p \in 0..Len(disk)] ==
            IF Len(disk) - p < HeaderLen THEN << >>
            ELSE LET b == ReadAtom(disk, p)
                 IN  << b >> \o (IF b.end \in p + 1 .. Len(disk) THEN from[b.end] ELSE << >>)
    IN  from[0]

\* What the first cell of a box's data says.
Held(disk, b) == disk[b.start + HeadLen(b.large) + 1][2]

FirstOfType(boxes, type) == SelectInSeq(boxes, LAMBDA b : b.type = type)
LastOfType(boxes, type)  == SelectLastInSeq(boxes, LAMBDA b : b.type = type)
Has(boxes, type)         == FirstOfType(boxes, type) # 0

-----------------------------------------------------------------------------
(* Writing boxes.                                                          *)

Put(f, cells) ==
    [f EXCEPT !.out = Append(@, << "write", f.pos, cells >>),
              !.pos = @ + Len(cells),
              !.length = Max({@, f.pos + Len(cells)})]

Seek(f, p) == [f EXCEPT !.pos = p]

\* The head goes first, its size left open, and is completed at the end.
BeginBox(f, i, large) ==
    Put([f EXCEPT !.boxes[i].start = f.pos], BoxHead(f.boxes[i].type, 0, large))

FinishBox(f, i, large) ==
    LET b    == f.boxes[i]
        size == f.pos - b.start
        head == IF large THEN << "write", b.start + HeaderLen, << << "size", size >> >> >>
                         ELSE << "write", b.start, << << "box", b.type, size >> >> >>
    IN  [f EXCEPT !.boxes[i].end = f.pos, !.boxes[i].size = size - HeadLen(large),
                  !.out = Append(@, head)]

\* What Write puts between: the movie, the brands, nothing but zeros.
Data(b, c) ==
    CASE b.type = "moov" -> << << "moov", c.moov >> >> \o Fill(c.room - 1)
      [] b.type = "ftyp" -> << << "ftyp", c.brands >> >> \o Fill(c.brands)
      [] OTHER           -> Fill(b.size)

WriteBox(f, i, c) ==
    FinishBox(Put(BeginBox(f, i, FALSE), Data(f.boxes[i], c)), i, FALSE)

WriteBoxes(f, from, c) ==
    LET written[k \in 0 .. Len(f.boxes) - from + 1] ==
            IF k = 0 THEN f ELSE WriteBox(written[k - 1], from + k - 1, c)
    IN  written[Len(f.boxes) - from + 1]

-----------------------------------------------------------------------------
(* The root atom.                                                          *)

NewBox(type, size) ==
    [type |-> type, start |-> 0, end |-> 0, size |-> size, large |-> FALSE]

\* Create: ftyp, the room after it, the head of mdat.  The free box is added
\* behind moov, as AddChildAtom does, and so is written there a second time.
CreateFile(withFtyp, use64, c) ==
    LET f    == [boxes |-> IF withFtyp THEN << NewBox("ftyp", 0), NewBox("mdat", 0),
                                               NewBox("moov", 0), NewBox("free", FreeRoom) >>
                           ELSE << NewBox("mdat", 0), NewBox("moov", 0) >>,
                 pos |-> 0, length |-> 0, use64 |-> use64, out |-> << >>,
                 roomAt |-> 0, created |-> withFtyp]
        ftyp == WriteBox(f, 1, c)
        room == WriteBox([ftyp EXCEPT !.roomAt = ftyp.pos], 4, c)
    IN  IF withFtyp THEN BeginBox(room, 2, use64) ELSE BeginBox(f, 1, use64)

\* Mistake: the room keeps its size and its end moves.
RewriteFtypShifting(f, c) ==
    LET ftyp == WriteBox(Seek(f, 0), 1, c)
    IN  Seek(WriteBox(ftyp, Len(f.boxes), c), f.pos)

\* The brands may have changed: the room behind them shrinks or grows, so that
\* what follows stays where it is.
RewriteFtyp(f, c) ==
    LET ftyp == WriteBox(Seek(f, 0), 1, c)
        room == [ftyp EXCEPT !.boxes[Len(f.boxes)].size = @ - (ftyp.pos - f.roomAt)]
    IN  Seek(WriteBox(room, Len(f.boxes), c), f.pos)

\* MP4RootAtom::FinishWrite: complete the last mdat, drop it when it is empty,
\* write every box behind it.  Without an mdat GetLastMdatIndex asserts.
FinishRoot(f, c) ==
    LET begun    == IF f.created THEN RewriteFtyp(f, c) ELSE f
        m        == LastOfType(f.boxes, "mdat")
        finished == FinishBox(begun, m, f.use64)
    IN  IF finished.boxes[m].size = 0
        THEN WriteBoxes(Seek([finished EXCEPT !.boxes = RemoveAt(@, m)],
                             finished.boxes[m].start), m, c)
        ELSE WriteBoxes(finished, m + 1, c)

-----------------------------------------------------------------------------
(* MP4File::Modify.                                                        *)

\* The boxes behind the last moov, free and skip boxes left out.
AfterMoov(boxes) ==
    LET m == LastOfType(boxes, "moov")
        after[k \in 0 .. Len(boxes) - m] ==
            IF k = 0 THEN << >>
            ELSE IF boxes[m + k].type = "free" THEN after[k - 1]
            ELSE Append(after[k - 1], boxes[m + k])
    IN  after[Len(boxes) - m]

CanModify(boxes) ==
    Has(boxes, "moov") /\ FirstOfType(boxes, "moov") = LastOfType(boxes, "moov")

\* Mistake: the head of the new mdat is left to Close.
BeginMdatLater(f) ==
    LET n        == Len(f.boxes)
        previous == f.boxes[n - 1]
    IN  IF n > 1 /\ (previous.type # "mdat" \/ previous.size > 0)
        THEN [f EXCEPT !.boxes = InsertAt(@, n, NewBox("mdat", 0))]
        ELSE f

\* A new mdat is begun in front of moov, the last box, unless an empty one is
\* there already or moov is alone.
BeginMdat(f) ==
    LET n        == Len(f.boxes)
        previous == f.boxes[n - 1]
    IN  IF n > 1 /\ (previous.type # "mdat" \/ previous.size > 0)
        THEN BeginBox([f EXCEPT !.boxes = InsertAt(@, n, NewBox("mdat", 0))], n, f.use64)
        ELSE f

\* Mistake: a moov in front of other boxes is given up, too.
ModifyFileAtMoov(disk) ==
    LET boxes == ReadBoxes(disk)
        m     == FirstOfType(boxes, "moov")
    IN  BeginMdat([boxes |-> SubSeq(boxes, 1, m - 1) \o AfterMoov(boxes) \o << boxes[m] >>,
                   pos |-> boxes[m].start, length |-> Len(disk),
                   use64 |-> FALSE, out |-> << >>, roomAt |-> 0, created |-> FALSE])

\* A moov at the end is given up; one in front of other boxes is overwritten
\* with a free box and goes to the end of the list.
ModifyFile(disk) ==
    LET boxes == ReadBoxes(disk)
        m     == FirstOfType(boxes, "moov")
        moov  == boxes[m]
        after == AfterMoov(boxes)
        f     == [boxes |-> SubSeq(boxes, 1, m - 1) \o << moov >>,
                  pos |-> moov.start, length |-> Len(disk),
                  use64 |-> \E b \in Range(boxes) : b.type = "mdat" /\ b.large,
                  out |-> << >>, roomAt |-> 0, created |-> FALSE]
        freed == WriteBox([f EXCEPT !.boxes = SubSeq(boxes, 1, m - 1)
                                        \o << NewBox("free", moov.size) >>
                                        \o after \o << moov >>],
                          m, [moov |-> << >>, room |-> 1, brands |-> 0])
    IN  IF after = << >> THEN BeginMdat(f)
                         ELSE BeginMdat(Seek(freed, Last(after).end))

-----------------------------------------------------------------------------
(* MP4File::FinishWrite after the tracks are flushed.                      *)

\* The first free box in front of moov and mdat that takes the moov, alone or
\* with another free box behind it.
Fits(b, size) == b.type = "free" /\ ~b.large /\ (b.size = size \/ b.size >= size + HeaderLen)

Target(f) ==
    LET size  == f.boxes[FirstOfType(f.boxes, "moov")].size
        front == SelectInSeq(f.boxes, LAMBDA b : b.type \in {"moov", "mdat"})
        fits  == SelectInSeq(f.boxes, LAMBDA b : Fits(b, size))
    IN  IF fits \in 1 .. front - 1 THEN fits ELSE 0

MoveMoovAtomToFront(f, c) ==
    LET i    == Target(f)
        m    == FirstOfType(f.boxes, "moov")
        moov == f.boxes[m]
        gap  == f.boxes[i]
        rest == RemoveAt(f.boxes, m)
        moved ==
            IF gap.size = moov.size
            THEN WriteBox(Seek([f EXCEPT !.boxes = InsertAt(RemoveAt(rest, i), i, moov)],
                               gap.start), i, c)
            ELSE WriteBox(WriteBox(Seek([f EXCEPT !.boxes =
                            InsertAt([rest EXCEPT ![i].size = @ - moov.size - HeaderLen],
                                     i, moov)], gap.start), i, c), i + 1, c)
        last == LastOfType(moved.boxes, "mdat")
    IN  IF ~Has(f.boxes, "mdat") \/ i = 0 THEN f
        ELSE FinishRoot(Seek(moved, moved.boxes[last].end), c)

\* What is left behind the position becomes a free box, then is cut off; File
\* has no truncate of its own for a custom provider, and then it stays.
MarkRest(f, c, truncates) ==
    LET rest == f.length - f.pos
        size == IF rest < HeaderLen THEN 0 ELSE rest - HeaderLen
        free == WriteBox([f EXCEPT !.boxes = Append(@, NewBox("free", size))],
                         Len(f.boxes) + 1, c)
    IN  IF rest = 0 THEN f
        ELSE IF truncates THEN [free EXCEPT !.out = Append(@, << "cut", f.pos >>)]
                          ELSE free

FinishFile(f, c, truncates) ==
    MarkRest(MoveMoovAtomToFront(FinishRoot(f, c), c), c, truncates)
=============================================================================
