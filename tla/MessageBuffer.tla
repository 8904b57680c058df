--------------------------- MODULE MessageBuffer ---------------------------
(***************************************************************************)
(* Common/MessageBuffer.h: a vector with a read and a write position.  A   *)
(* buffer is the size of its storage, the bytes below _wpos and _rpos; the *)
(* storage above _wpos is never read.  An operator returns the buffer as   *)
(* the method of that name leaves it.                                      *)
(***************************************************************************)
EXTENDS Naturals, Sequences

BufferOf(Byte) == [size : Nat, written : Seq(Byte), _rpos : Nat]

(* The two subtractions below, on size_t, do not wrap.                     *)
InBounds(b) == b._rpos <= Len(b.written) /\ Len(b.written) <= b.size

NewBuffer(n) == [size |-> n, written |-> << >>, _rpos |-> 0]

GetActiveSize(b)     == Len(b.written) - b._rpos
GetRemainingSpace(b) == b.size - Len(b.written)

(* The first n active bytes: what is at GetReadPointer.                    *)
ReadPointer(b, n) == [i \in 1..n |-> b.written[b._rpos + i]]

ReadCompleted(b, n) == [b EXCEPT !._rpos = @ + n]

(* Write, and WriteCompleted after a read into GetWritePointer.            *)
Write(b, bytes) == [b EXCEPT !.written = @ \o bytes]

Resize(b, n) == [b EXCEPT !.size = n]

(* Fault: only the read position goes back.                                *)
ResetRead(b) == [b EXCEPT !._rpos = 0]

Reset(b) == [b EXCEPT !.written = << >>, !._rpos = 0]

(* Fault: the write position survives the move.                            *)
MovedPartly(b) == [b EXCEPT !.size = 0]

(* Move: the storage goes with the data.                                   *)
Moved(b) == NewBuffer(0)

(* Fault: the bytes that were read keep their place.                       *)
NormalizeNothing(b) == b

Normalize(b) == [b EXCEPT !.written = ReadPointer(b, GetActiveSize(b)), !._rpos = 0]

(* A buffer of one byte or none does not grow.                             *)
EnsureFreeSpace(b) ==
  IF GetRemainingSpace(b) = 0 THEN [b EXCEPT !.size = (@ * 3) \div 2] ELSE b
=============================================================================
