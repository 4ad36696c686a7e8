---------------------------- MODULE MemoryBuffer ----------------------------
(***************************************************************************)
(* The memory buffer of MP4File (mp4file_io.cpp): between                  *)
(* EnableMemoryBuffer and DisableMemoryBuffer every read, write and seek   *)
(* of the file object acts on it instead of the file.  A buffer m has      *)
(* cells, each four bytes; its size, which may exceed what was written;    *)
(* and a position.  ok turns FALSE when a call throws.                     *)
(***************************************************************************)
EXTENDS Integers, Sequences

CONSTANT BufferSize    \* what EnableMemoryBuffer allocates: 4096 bytes

ASSUME BufferAssumption == BufferSize \in Nat \ {0}

NoBuffer == [on |-> FALSE, cells |-> << >>, size |-> 0, pos |-> 0, ok |-> TRUE]

\* For writing, and for reading what is in memory already.
EnableMemoryBuffer == [NoBuffer EXCEPT !.on = TRUE, !.size = BufferSize]
EnableMemoryBufferOn(cells) ==
    [NoBuffer EXCEPT !.on = TRUE, !.cells = cells, !.size = Len(cells)]

\* Mistake: the buffer stays where it is.
DisableMemoryBufferNot(m) == m

DisableMemoryBuffer(m) == NoBuffer

\* A position at the end of the buffer is out of range, also for writing.
SetPosition(m, p) ==
    IF ~m.ok THEN m
    ELSE IF p >= m.size THEN [m EXCEPT !.ok = FALSE] ELSE [m EXCEPT !.pos = p]

\* The size of a buffer after writes of unit cells each up to end: the first
\* that does not fit makes it grow to twice what it needs.
Grown(size, end, unit) ==
    LET to[s \in Nat] == IF end <= s THEN s ELSE to[2 * (s + unit)] IN to[size]

WriteUnits(m, cells, unit) ==
    LET end == m.pos + Len(cells)
    IN  IF ~m.ok THEN m
        ELSE [m EXCEPT
                !.cells = [i \in 1 .. (IF end > Len(@) THEN end ELSE Len(@)) |->
                              IF i \in m.pos + 1 .. end THEN cells[i - m.pos] ELSE @[i]],
                !.size = Grown(@, end, unit),
                !.pos = end]
=============================================================================
