------------------------------ MODULE Streams ------------------------------
(***************************************************************************)
(* Readable and Writable of util.hpp: File on a FILE*, Cursor on memory,   *)
(* CallbackRW on functions of the caller.  A stream is a sequence of cells *)
(* (pieces of an archive, blocks of output) with a position counted from 0.*)
(* Operators return what a call gives back and the stream after it.        *)
(***************************************************************************)
EXTENDS Integers, Sequences, FiniteSetsExt

\* What a file holds where nothing was written
Hole == 0

\* kind is "file" (a disk file), "wb" (one open for writing only), "pipe" (stdout),
\* "cursor", "callback" or "closed" (a FILE* after fclose).  Only a cursor has a
\* capacity; its memory is its own (owned) or the caller's
Stream(kind, cells) ==
  [kind |-> kind, cells |-> cells, pos |-> 0, capacity |-> Len(cells), owned |-> FALSE]

Size(s) == Len(s.cells)

\* Cursor(b, 0, c): memory of the caller with room for c cells
OutputCursor(c) == [Stream("cursor", <<>>) EXCEPT !.capacity = c]

\* CallbackRW(rf, sf, wf, opaq): functions of the caller, here on cells of its own.
\* Without rf or wf nothing is read or written; a seek needs sf
CallbackRW(cells) == Stream("callback", cells)

\* read: what is left, but not more than asked for; nothing from a stream that is
\* open for writing only
CanRead(s) == s.kind \in {"file", "cursor", "callback"}
ReadCount(s, n) == IF CanRead(s) THEN Min({n, Max({Size(s) - s.pos, 0})}) ELSE 0
Read(s, n)      == SubSeq(s.cells, s.pos + 1, s.pos + ReadCount(s, n))
AfterRead(s, n) == [s EXCEPT !.pos = @ + ReadCount(s, n)]

\* seek to an absolute position.  A cursor stops at its end, a file does not, a
\* pipe stays where it is.  Negative positions: a cursor takes 0, fseek fails
SeekSet(s, offset) ==
  CASE s.kind = "cursor" -> [s EXCEPT !.pos = Min({Max({offset, 0}), Size(s)})]
    [] s.kind \in {"file", "wb", "callback"} /\ offset >= 0 -> [s EXCEPT !.pos = offset]
    [] OTHER -> s

\* seek relative to the position
SeekCur(s, offset) == SeekSet(s, s.pos + offset)

\* Cells put at the position, over what is there; a gap before them is a hole
Put(s, data) ==
  LET end == s.pos + Len(data)
  IN  [s EXCEPT !.pos = end,
                !.cells = [p \in 1 .. Max({Size(s), IF data = <<>> THEN 0 ELSE end}) |->
                             IF p \in s.pos + 1 .. end THEN data[p - s.pos]
                             ELSE IF p <= Size(s) THEN s.cells[p] ELSE Hole]]

\* Cells a cursor takes: all that fit; memory of its own grows; of memory that
\* is not its own it computes size + n - capacity instead of capacity - pos
CursorRoom(s, n) ==
  IF s.pos + n <= s.capacity \/ s.owned THEN n ELSE Size(s) + n - s.capacity

\* The counts write may return.  Disks fill up and callbacks of the caller fail;
\* a write cut short leaves an incomplete cell behind, here none
WriteCounts(s, n) ==
  IF s.kind = "cursor" THEN {CursorRoom(s, n)} ELSE 0 .. n

\* write with one of these counts
AfterWrite(s, data, count) ==
  [Put(s, SubSeq(data, 1, count)) EXCEPT
     !.capacity = IF s.owned THEN Max({@, s.pos + count}) ELSE @]
=============================================================================
