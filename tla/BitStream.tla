----------------------------- MODULE BitStream -----------------------------
(***************************************************************************)
(* Server/bitstream.h: fields of any number of bits, strings and blocks of *)
(* bytes packed into a stream by a sender, carried as bytes, and read by a *)
(* receiver in the order and with the types they were written in.          *)
(*                                                                         *)
(* A byte is a function from its bits' places, 0 the least significant.    *)
(* A value is written from its high bits to its low ones, in pieces that   *)
(* each fill the places still free in a byte, upwards; within a piece the  *)
(* order of the bits is kept.  A value here is its bits, high to low.      *)
(***************************************************************************)
EXTENDS Integers, Sequences, SequencesExt

CONSTANTS Field,      \* what a sender may write: [kind, val, n, base]
          MaxFields,  \* bound: fields of a stream
          MaxSize     \* bytes of the longest stream

Bit  == {0, 1}
Byte == [0..7 -> Bit]
Zero == [k \in 0..7 |-> 0]

Kind == {"value", "bytes", "string", "skip", "align"}

(* n and base are the bitCount and the baseLength of a string's length.    *)
(* Assumed of the constants.                                               *)
Constants ==
  /\ MaxFields \in Nat /\ MaxSize \in Nat
  /\ \A f \in Field :
       /\ f.kind \in Kind
       /\ f.kind \in {"value", "skip"} => f.val \in Seq(Bit)
       /\ f.kind \notin {"value", "skip"} => f.val \in Seq(Byte)
       /\ f.kind = "skip" => \A i \in DOMAIN f.val : f.val[i] = 0
       /\ f.kind = "string" => Len(f.val) + f.base \in 0 .. 2 ^ f.n - 1

VARIABLES
  out,      \* the sender's BitStream
  written,  \* what it has written
  in,       \* the receiver's BitStream
  got,      \* the values the receiver has read
  phase,    \* "write" or "read"; "full" or "thrown" after an exception
  refused   \* history: a field would not fit

vars == <<out, written, in, got, phase, refused>>

Stream == [_writePos : Nat, _readPos : Nat, _buffer : Seq(Byte)]

(* BitStream(), and the two constructors for a reader.                     *)
NewStream     == [_writePos |-> 0, _readPos |-> 0, _buffer |-> << >>]
StreamOf(buf) == [_writePos |-> Len(buf) * 8, _readPos |-> 0, _buffer |-> buf]

TypeOK == /\ out \in Stream /\ in \in Stream
          /\ Len(out._buffer) <= MaxSize
          /\ Len(written) <= MaxFields /\ \A i \in DOMAIN written : written[i].kind \in Kind
          /\ Len(got) <= Len(written)
          /\ phase \in {"write", "read", "full", "thrown"} /\ refused \in BOOLEAN

Init == /\ out = NewStream /\ written = << >>
        /\ in = NewStream /\ got = << >>
        /\ phase = "write" /\ refused = FALSE

Up(pos) == ((pos + 7) \div 8) * 8

AlignToNextByte(s) == [s EXCEPT !._readPos = Up(@), !._writePos = Up(@)]

GetSize(s) == Up(s._writePos) \div 8

IsRead(s) == s._readPos >= s._writePos

-----------------------------------------------------------------------------
(* Writing.  w is the stream and whether no exception was thrown.          *)

(* The places of the piece that begins at bit pos of the stream, when      *)
(* there are n bits left.                                                  *)
PieceLen(pos, n) == IF 8 - (pos % 8) >= n THEN n ELSE 8 - (pos % 8)

(* Byte b with the bits of piece at the places from p on.                  *)
WithPiece(b, p, piece) ==
  [k \in 0..7 |-> IF k \in p .. p + Len(piece) - 1 THEN piece[p + Len(piece) - k] ELSE b[k]]

(* Fault: a new byte takes the bits at its low end wherever they belong.   *)
WritePieceLow(s, piece) ==
  LET i == s._writePos \div 8 + 1
  IN  [s EXCEPT !._writePos = @ + Len(piece),
                !._buffer = IF Len(@) >= i
                            THEN [@ EXCEPT ![i] = WithPiece(@, 0, piece)]
                            ELSE Append(@, WithPiece(Zero, 0, piece))]

WritePiece(s, piece) ==
  LET i == s._writePos \div 8 + 1
      p == s._writePos % 8
  IN  [s EXCEPT !._writePos = @ + Len(piece),
                !._buffer = IF Len(@) >= i
                            THEN [@ EXCEPT ![i] = WithPiece(@, p, piece)]
                            ELSE Append(@, WithPiece(Zero, p, piece))]

(* The pieces of `bits` from bit pos of a stream on: the first fills up a  *)
(* byte, the others take one each.                                         *)
Pieces(bits, pos) ==
  LET first == PieceLen(pos, Len(bits))
      From(i) == IF i = 1 THEN 1 ELSE first + 8 * (i - 2) + 1
      To(i)   == LET end == first + 8 * (i - 1) IN IF end < Len(bits) THEN end ELSE Len(bits)
      count == IF bits = << >> THEN 0 ELSE 1 + (Len(bits) - first + 7) \div 8
  IN  [i \in 1..count |-> SubSeq(bits, From(i), To(i))]

Write(w, bits) ==
  IF ~w.ok \/ w.s._writePos + Len(bits) > 8 * MaxSize THEN [w EXCEPT !.ok = FALSE]
  ELSE [w EXCEPT !.s = FoldLeft(WritePiece, @, Pieces(bits, @._writePos))]

WriteSkip(w, n) == Write(w, [i \in 1..n |-> 0])

(* Fault: bytes go behind the last bit that was written.                   *)
WriteBytesUnaligned(w, bytes) ==
  LET s == w.s
  IN  CASE ~w.ok \/ bytes = << >> -> w
        [] Len(s._buffer) + Len(bytes) > MaxSize -> [w EXCEPT !.ok = FALSE]
        [] OTHER -> [w EXCEPT !.s._buffer = @ \o bytes, !.s._writePos = @ + 8 * Len(bytes)]

(* The buffer grows by the bytes, and they go to the write position, which *)
(* is its end.                                                             *)
WriteBytes(w, bytes) ==
  LET s   == AlignToNextByte(w.s)
      end == s._writePos \div 8
  IN  CASE ~w.ok -> w
        [] bytes = << >> -> [w EXCEPT !.s = s]
        [] bytes # << >> /\ end + Len(bytes) > MaxSize -> [s |-> s, ok |-> FALSE]
        [] OTHER -> [s |-> [s EXCEPT !._buffer = [i \in 1 .. Len(@) + Len(bytes) |->
                                        IF i > end THEN bytes[i - end] ELSE @[i]],
                                     !._writePos = @ + 8 * Len(bytes)],
                     ok |-> TRUE]

(* The n low bits of a number.                                             *)
BitsOf(number, n) == [i \in 1..n |-> (number \div 2 ^ (n - i)) % 2]

WriteString(w, str, n, base) == WriteBytes(Write(w, BitsOf(Len(str) + base, n)), str)

Put(w, f) == CASE f.kind = "value"  -> Write(w, f.val)          \* WriteFloat too
               [] f.kind = "bytes"  -> WriteBytes(w, f.val)
               [] f.kind = "string" -> WriteString(w, f.val, f.n, f.base)
               [] f.kind = "skip"   -> WriteSkip(w, Len(f.val))
               [] f.kind = "align"  -> [w EXCEPT !.s = AlignToNextByte(@)]

-----------------------------------------------------------------------------
(* Reading.  r is the stream, what was read, and whether nothing was thrown*)

ReadPiece(s, n) ==
  LET b == s._buffer[s._readPos \div 8 + 1]
      p == s._readPos % 8
  IN  [i \in 1..n |-> b[p + n - i]]

TooMuch(r, n) == r.s._readPos + n > r.s._writePos

Read(r, n) ==
  LET Add(q, piece) == [q EXCEPT !.val = @ \o ReadPiece(q.s, Len(piece)),
                                 !.s._readPos = @ + Len(piece)]
  IN  IF TooMuch(r, n) THEN [r EXCEPT !.ok = FALSE]
      ELSE FoldLeft(Add, [r EXCEPT !.val = << >>],
                    Pieces([i \in 1..n |-> 0], r.s._readPos))

Number(bits) == FoldLeft(LAMBDA number, bit : 2 * number + bit, 0, bits)

(* The n bytes at the read position, which is aligned.                     *)
TakeBytes(r, n) ==
  LET at == r.s._readPos \div 8
  IN  [r EXCEPT !.val = SubSeq(r.s._buffer, at + 1, at + n), !.s._readPos = @ + 8 * n]

ReadBytes(r, n) == LET aligned == [r EXCEPT !.s = AlignToNextByte(@)]
                   IN  IF TooMuch(aligned, 8 * n) THEN [aligned EXCEPT !.ok = FALSE]
                       ELSE TakeBytes(aligned, n)

(* Nothing checks the length.  The base is to be the opposite of the one   *)
(* that WriteString was given.                                             *)
ReadString(r, n, base) ==
  LET len == Read(r, n)
  IN  IF len.ok THEN TakeBytes([len EXCEPT !.s = AlignToNextByte(@)], Number(len.val) - base)
      ELSE len

ReadSkip(r, n) == [r EXCEPT !.val = [i \in 1..n |-> 0], !.s._readPos = @ + n]

Get(r, f) == CASE f.kind = "value"  -> Read(r, Len(f.val))      \* ReadFloat too
               [] f.kind = "bytes"  -> ReadBytes(r, Len(f.val))
               [] f.kind = "string" -> ReadString(r, f.n, f.base)
               [] f.kind = "skip"   -> ReadSkip(r, Len(f.val))
               [] f.kind = "align"  -> [r EXCEPT !.s = AlignToNextByte(@)]

-----------------------------------------------------------------------------
(* The sender writes; an exception ends it, with what was written of the   *)
(* field before, for a string its length.                                  *)
Sender(f) == LET w == Put([s |-> out, ok |-> TRUE], f)
             IN  /\ phase = "write" /\ Len(written) < MaxFields
                 /\ out' = w.s
                 /\ written' = IF w.ok THEN Append(written, f) ELSE written
                 /\ phase' = IF w.ok THEN "write" ELSE "full"
                 /\ refused' = ~w.ok
                 /\ UNCHANGED <<in, got>>

(* The receiver gets GetSize() bytes of GetBuffer(), also when the sender  *)
(* stopped at an exception.                                                *)
Send == /\ phase \in {"write", "full"}
        /\ in' = StreamOf(SubSeq(out._buffer, 1, GetSize(out)))
        /\ phase' = "read"
        /\ UNCHANGED <<out, written, got, refused>>

Receiver == LET f == written[Len(got) + 1]
                r == Get([s |-> in, val |-> << >>, ok |-> TRUE], f)
            IN  /\ phase = "read" /\ Len(got) < Len(written)
                /\ in' = r.s
                /\ got' = IF r.ok THEN Append(got, r.val) ELSE got
                /\ phase' = IF r.ok THEN "read" ELSE "thrown"
                /\ UNCHANGED <<out, written, refused>>

Next == (\E f \in Field : Sender(f)) \/ Send \/ Receiver

Spec == Init /\ [][Next]_vars

-----------------------------------------------------------------------------
(* What the receiver reads is what the sender wrote, wherever in a byte a  *)
(* field begins and ends, and whichever side aligns when; and so it is for *)
(* the fields before one that the stream refused.                          *)
RoundTrip == \A i \in DOMAIN got : got[i] = written[i].val

(* Of a stream that was sent, everything that was accepted can be read, and*)
(* what is left then is the padding of the last byte, unless the length of *)
(* a string went in and its bytes were refused.                            *)
Complete == /\ phase # "thrown"
            /\ phase = "read" /\ Len(got) = Len(written) =>
                 /\ in._readPos <= in._writePos
                 /\ IsRead(AlignToNextByte(in)) \/ refused
=============================================================================
