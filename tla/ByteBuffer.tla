----------------------------- MODULE ByteBuffer -----------------------------
(***************************************************************************)
(* Common/ByteBuffer.h and WorldPacket.h: one packet, built by a sender,   *)
(* carried as bytes behind a header, and read by a receiver that reads the *)
(* fields in the order and with the types they were written in.            *)
(*                                                                         *)
(* A byte is its eight bits, the most significant first; a value of a      *)
(* fundamental type is its bytes, the least significant first, and lies in *)
(* memory as the machine has it.  Bits and bytes share one buffer: WriteBit*)
(* collects bits in _curbitval until a byte is full, and whatever writes   *)
(* bytes flushes it first; ReadBit takes a byte at a time, and whatever    *)
(* reads bytes drops what is left of it.                                   *)
(***************************************************************************)
EXTENDS Naturals, Sequences, SequencesExt

CONSTANTS Opcode,      \* opcodes of the packets
          Field,       \* fields a sender may write: [kind, val]
          MaxFields    \* bound: fields of a packet

Bit  == {0, 1}
Byte == [1..8 -> Bit]
Zero == [k \in 1..8 |-> 0]
One  == [Zero EXCEPT ![8] = 1]

Kind == {"value", "flag", "float", "cstring", "text", "block", "vector", "map", "bits", "hole",
         "byteseq", "packed", "time", "pad", "align"}

(* What localtime_r makes of a time_t: tm_sec, tm_min, tm_hour, tm_mday,   *)
(* tm_mon, tm_year and tm_isdst.                                           *)
Tm == (0..60) \X (0..59) \X (0..23) \X (1..31) \X (0..11) \X (100..227) \X {0, 1}

(* Assumed of the constants.                                               *)
Constants ==
  /\ MaxFields \in Nat /\ Opcode \subseteq 0 .. 2 ^ 16 - 1
  /\ \A f \in Field :
       /\ f.kind \in Kind
       /\ f.kind \in {"bits", "hole"} => f.val \in Seq(Bit) /\ f.val # << >>
       /\ f.kind \notin {"bits", "hole", "time"} => f.val \in Seq(Byte)
       /\ f.kind = "time" => f.val \in Tm
       /\ f.kind = "value" => f.val # << >>
       /\ f.kind = "flag" => f.val \in {<<Zero>>, <<One>>}    \* uint8(flag)
       /\ f.kind = "float" => Len(f.val) \in {4, 8}           \* or a double
       /\ f.kind = "cstring" => \A i \in DOMAIN f.val : f.val[i] # Zero
       /\ f.kind = "byteseq" => Len(f.val) = 1
       /\ f.kind = "packed" => Len(f.val) = 8
       /\ f.kind \in {"vector", "map"} => Len(f.val) < 256     \* elements of a byte
       /\ f.kind = "map" => Len(f.val) % 2 = 0                 \* key, value, key, ...
       /\ f.kind = "pad" => \A i \in DOMAIN f.val : f.val[i] = Zero
       /\ f.kind = "align" => f.val = << >>      \* FlushBits, and ResetBitPos

VARIABLES
  order,     \* the byte order of the two machines
  out,       \* the sender's WorldPacket
  fields,    \* what it has written
  at,        \* bitwpos() before each of them
  in,        \* the receiver's WorldPacket
  got,       \* the values the receiver has read
  phase,     \* "write"; "waiting" for the rest of a frame; "read", or "thrown"
             \* when a read threw an exception
  sound      \* history: how many of the fields no field of Spoils can reach

vars == <<order, out, fields, at, in, got, phase, sound>>

Packet == [m_opcode : Nat, _rpos : Nat, _wpos : Nat, _bitpos : 0..9, _curbitval : Byte,
           _storage : Seq(Byte)]

NewPacket(opcode, storage) ==
  [m_opcode |-> opcode, _rpos |-> 0, _wpos |-> 0, _bitpos |-> 8, _curbitval |-> Zero,
   _storage |-> storage]

NoPacket == NewPacket(0, << >>)

size(b) == Len(b._storage)

TypeOK == /\ order \in [{"sender", "receiver"} -> {"little", "big"}]
          /\ out \in Packet /\ out._wpos = size(out) /\ out._bitpos \in 1..8
          /\ Len(fields) <= MaxFields
          /\ \A i \in DOMAIN fields :
               /\ fields[i].kind \in Kind
               /\ fields[i].val \in CASE fields[i].kind \in {"bits", "hole"} -> Seq(Bit)
                                       [] fields[i].kind = "time" -> Seq(Nat)
                                       [] OTHER -> Seq(Byte)
          /\ at \in Seq(Nat) /\ Len(at) = Len(fields)
          /\ in \in Packet /\ in._rpos <= size(in)
          /\ Len(got) <= Len(fields)
          /\ phase \in {"write", "waiting", "read", "thrown"}
          /\ sound \in 0..MaxFields

Init == /\ order \in [{"sender", "receiver"} -> {"little", "big"}]
        /\ \E opcode \in Opcode : out = NewPacket(opcode, << >>)
        /\ fields = << >> /\ at = << >>
        /\ in = NoPacket
        /\ got = << >>
        /\ phase = "write" /\ sound = MaxFields

-----------------------------------------------------------------------------
(* A value in the memory of a machine, and back.                           *)
InMemory(val, machine) == IF order[machine] = "big" THEN Reverse(val) ELSE val

(* EndianConvert swaps the bytes, from both ends, and does so on every     *)
(* machine: neither of the macros that its condition compares is defined.  *)
EndianConvert(bytes) == [i \in DOMAIN bytes |-> bytes[Len(bytes) + 1 - i]]

OnTheWire(val) == EndianConvert(InMemory(val, "sender"))

(* What the receiver makes of a uint16 that the sender copies as it lies in*)
(* its memory: the two fields of a header are not converted.               *)
RawUint16(n) ==
  LET uint16 == InMemory(InMemory(<<n % 256, n \div 256>>, "sender"), "receiver")
  IN  uint16[1] + 256 * uint16[2]

-----------------------------------------------------------------------------
(* Writing.  An operator returns the buffer.                               *)

(* Fault: the write position stays.                                        *)
CopyInPlace(b, bytes) == [b EXCEPT !._storage = @ \o bytes]

Copy(b, bytes) ==
  LET end == b._wpos + Len(bytes)
      n   == IF size(b) < end THEN end ELSE size(b)
  IN  [b EXCEPT !._storage = [i \in 1..n |-> IF i \in b._wpos + 1 .. end THEN bytes[i - b._wpos]
                                                                        ELSE b._storage[i]],
                !._wpos = end]

FlushBits(b) ==
  IF b._bitpos = 8 THEN b
  ELSE [Copy(b, <<b._curbitval>>) EXCEPT !._bitpos = 8, !._curbitval = Zero]

append(b, bytes) == Copy(FlushBits(b), bytes)

(* append of a fundamental type, and operator<<.                           *)
appendValue(b, val) == append(b, OnTheWire(val))

(* append of another ByteBuffer, of which nothing may have been written.   *)
appendBuffer(b, bytes) == IF bytes = << >> THEN b ELSE append(b, bytes)

(* The containers: a uint32 with their size, then the elements.            *)
Uint32(n) == [i \in 1..4 |-> [k \in 1..8 |-> ((n \div 256 ^ (i - 1)) \div 2 ^ (8 - k)) % 2]]

appendVector(b, val) == FoldLeft(LAMBDA c, byte : append(c, <<byte>>),
                                 appendValue(b, Uint32(Len(val))), val)
appendMap(b, val)    == FoldLeft(LAMBDA c, byte : append(c, <<byte>>),
                                 appendValue(b, Uint32(Len(val) \div 2)), val)

(* resize, to n bytes more: no bits are flushed.                           *)
resize(b, n) == [b EXCEPT !._storage = @ \o [i \in 1..n |-> Zero],
                          !._rpos = 0, !._wpos = size(b) + n]

(* Fault: a full byte is appended while it still counts as pending.        *)
WriteBitTwice(b, bit) ==
  LET c == [b EXCEPT !._bitpos = @ - 1, !._curbitval[9 - b._bitpos] = bit]
  IN  IF c._bitpos # 0 THEN c
      ELSE [append(c, <<c._curbitval>>) EXCEPT !._bitpos = 8, !._curbitval = Zero]

WriteBit(b, bit) ==
  LET c == [b EXCEPT !._bitpos = @ - 1, !._curbitval[9 - b._bitpos] = bit]
  IN  IF c._bitpos # 0 THEN c
      ELSE [append([c EXCEPT !._bitpos = 8], <<c._curbitval>>) EXCEPT !._curbitval = Zero]

WriteBits(b, bits) == FoldLeft(WriteBit, b, bits)

(* operator<< of a string, and WriteString, which writes no NUL and of an  *)
(* empty string nothing at all.                                            *)
WriteCString(b, str) == append(IF str = << >> THEN b ELSE append(b, str), <<Zero>>)
WriteString(b, str)  == IF str = << >> THEN b ELSE append(b, str)

Flip(byte) == [byte EXCEPT ![8] = 1 - @]       \* byte ^ 1

WriteByteSeq(b, byte) == IF byte = Zero THEN b ELSE append(b, <<Flip(byte)>>)

(* The mask has bit i for byte i, counted from the least significant.      *)
Mask(val) == [k \in 1..8 |-> IF val[9 - k] = Zero THEN 0 ELSE 1]

(* pos is taken before the mask is written: when bits are pending, it is   *)
(* their place in the storage that the mask is put to.                     *)
AppendPackedUInt64(b, val) ==
  LET pos    == b._wpos
      packed == WriteString(append(b, <<Zero>>), SelectSeq(val, LAMBDA byte : byte # Zero))
  IN  [packed EXCEPT !._storage[pos + 1] = Mask(val)]

(* localtime_r gives a day of the week, which is written and not read; here*)
(* it is some number.  The seconds are not written.                        *)
wday(tm) == tm[4] % 7

AppendPackedTime(b, tm) ==
  appendValue(b, Uint32((tm[6] - 100) * 2 ^ 24 + tm[5] * 2 ^ 20 + (tm[4] - 1) * 2 ^ 14
                        + wday(tm) * 2 ^ 11 + tm[3] * 2 ^ 6 + tm[2]))

bitwpos(b) == b._wpos * 8 + 8 - b._bitpos

(* The setters of the write position; neither brings back pending bits.    *)
setWpos(b, pos)    == [b EXCEPT !._wpos = pos]
setBitwpos(b, pos) == [b EXCEPT !._wpos = pos \div 8, !._bitpos = 8 - (pos % 8)]

(* Fits says that PutBits does not throw.                                  *)
Fits(b, pos, bits) == pos + Len(bits) <= size(b) * 8

PutBits(b, pos, bits) ==
  [b EXCEPT !._storage = [i \in DOMAIN @ |-> [k \in 1..8 |->
     LET n == (i - 1) * 8 + k - pos
     IN  IF n \in DOMAIN bits THEN bits[n] ELSE @[i][k]]]]

(* operator[] does not throw for an index that there is.                   *)
HasIndex(b, pos) == pos < size(b)

(* put of bytes at a position; Holds says that it does not throw.          *)
Holds(b, pos, bytes) == pos + Len(bytes) <= size(b)

put(b, pos, bytes) ==
  [b EXCEPT !._storage = [i \in DOMAIN @ |-> IF i - pos \in DOMAIN bytes THEN bytes[i - pos]
                                                                        ELSE @[i]]]

Written(b, f) ==
  CASE f.kind \in {"value", "flag", "float"} -> appendValue(b, f.val)
    [] f.kind = "block"   -> appendBuffer(b, f.val)
    [] f.kind = "vector"  -> appendVector(b, f.val)
    [] f.kind = "map"     -> appendMap(b, f.val)
    [] f.kind = "pad"     -> resize(b, Len(f.val))
    [] f.kind = "cstring" -> WriteCString(b, f.val)
    [] f.kind = "text"    -> WriteString(b, f.val)
    [] f.kind \in {"bits", "hole"} -> WriteBits(b, f.val)
    [] f.kind = "byteseq" ->
         WriteByteSeq(WriteBit(b, IF f.val[1] = Zero THEN 0 ELSE 1), f.val[1])
    [] f.kind = "packed"  -> AppendPackedUInt64(b, f.val)
    [] f.kind = "time"    -> AppendPackedTime(b, f.val)
    [] f.kind = "align"   -> FlushBits(b)

-----------------------------------------------------------------------------
(* Reading.  r is the buffer, what was read last, and whether no exception *)
(* was thrown; after one, nothing more is read.                            *)

(* Fault: what is left of a byte of bits survives a read of bytes.         *)
ResetBitPosNever(b) == b

ResetBitPos(b) == IF b._bitpos > 7 THEN b
                  ELSE [b EXCEPT !._bitpos = 8, !._curbitval = Zero]

Throw(r) == [r EXCEPT !.ok = FALSE]

PastTheEnd(r, n) == r.buf._rpos + n > size(r.buf)

Took(r, n) ==
  LET b == ResetBitPos(r.buf)
  IN  [buf |-> [b EXCEPT !._rpos = @ + n],
       val |-> SubSeq(b._storage, b._rpos + 1, b._rpos + n), ok |-> TRUE]

read(r, n) == CASE ~r.ok           -> r
                [] PastTheEnd(r, n) -> [Throw(r) EXCEPT !.buf = ResetBitPos(@)]
                [] OTHER           -> Took(r, n)

ReadBit(r) ==
  LET next == [r EXCEPT !.buf._bitpos = @ + 1]
      byte == read(next, 1)
      b    == CASE next.buf._bitpos <= 7 -> next.buf
                [] byte.ok -> [byte.buf EXCEPT !._curbitval = byte.val[1], !._bitpos = 0]
                [] OTHER   -> byte.buf
  IN  CASE ~r.ok -> r
        [] next.buf._bitpos > 7 /\ ~byte.ok -> byte
        [] OTHER -> [buf |-> b, val |-> <<b._curbitval[b._bitpos + 1]>>, ok |-> TRUE]

ReadBits(r, n) ==
  LET Add(q, i) == LET bit == ReadBit(q)
                   IN  IF bit.ok THEN [bit EXCEPT !.val = q.val \o @] ELSE bit
  IN  FoldLeft(Add, [r EXCEPT !.val = << >>], [i \in 1..n |-> i])

(* operator>> of a string stops behind a NUL or at the end; ReadString is  *)
(* given the length and checks it before anything else.                    *)
ReadCString(r) ==
  LET nuls == {i \in r.buf._rpos + 1 .. size(r.buf) : r.buf._storage[i] = Zero}
      n    == IF nuls = {} THEN size(r.buf) - r.buf._rpos ELSE Min(nuls) - r.buf._rpos
  IN  IF n = 0 THEN [r EXCEPT !.val = << >>]
      ELSE [Took(r, n) EXCEPT !.val = SelectSeq(@, LAMBDA c : c # Zero)]

ReadString(r, n) == CASE PastTheEnd(r, n) -> Throw(r)
                      [] n = 0 -> [r EXCEPT !.val = << >>]
                      [] OTHER -> Took(r, n)

ReadByteSeq(r) == IF r.val = <<0>> THEN [r EXCEPT !.val = <<Zero>>]
                  ELSE LET byte == read(r, 1)
                       IN  IF byte.ok THEN [byte EXCEPT !.val = <<Flip(@[1])>>] ELSE byte

ReadPackedUInt64(r) ==
  LET mask   == read(r, 1)
      Has(i) == mask.val[1][9 - i] = 1
      Rank(i) == Cardinality({j \in 1..i : Has(j)})
      bytes  == read(mask, Rank(8))
  IN  CASE ~mask.ok  -> mask
        [] ~bytes.ok -> bytes
        [] OTHER     -> [bytes EXCEPT !.val = [i \in 1..8 |-> IF Has(i) THEN @[Rank(i)] ELSE Zero]]

(* std::isfinite of a float or a double: its exponent, bits 23 to 30 or 52 *)
(* to 62, is not all ones.                                                 *)
IsFinite(val) == LET n == Len(val)
                 IN  \/ \E k \in 2..8 : val[n][k] = 0
                     \/ \E k \in 1..(IF n = 4 THEN 1 ELSE 4) : val[n - 1][k] = 0

(* Fault: what was read is not converted.                                  *)
readValueRaw(r, n) ==
  LET v == read(r, n)
  IN  IF v.ok THEN [v EXCEPT !.val = InMemory(@, "receiver")] ELSE v

(* operator>> of a fundamental type.                                       *)
readValue(r, n) ==
  LET v == read(r, n)
  IN  IF v.ok THEN [v EXCEPT !.val = InMemory(EndianConvert(@), "receiver")] ELSE v

(* operator>> of a bool asks for a char above 0, and a char has a sign.    *)
readFlag(r) ==
  LET v == readValue(r, 1)
  IN  IF v.ok THEN [v EXCEPT !.val = IF @[1] # Zero /\ @[1][1] = 0 THEN <<One>> ELSE <<Zero>>]
      ELSE v

(* read of bytes checks before it resets.                                  *)
readBytes(r, n) == IF PastTheEnd(r, n) THEN Throw(r) ELSE Took(r, n)

(* The n elements of a container, each of m bytes; the keys of a map come  *)
(* in their order.                                                         *)
ReadElements(r, n, m) ==
  LET Add(q, i) == LET e == read(q, 1)
                   IN  CASE ~q.ok -> q [] q.ok /\ ~e.ok -> e
                         [] OTHER -> [e EXCEPT !.val = q.val \o @]
  IN  FoldLeft(Add, [r EXCEPT !.val = << >>], [i \in 1 .. n * m |-> i])

(* The number in the width bits of a value from bit shift on.              *)
Part(val, shift, width) ==
  FoldLeft(LAMBDA n, j : n + 2 ^ (j - 1) * val[(shift + j - 1) \div 8 + 1][8 - ((shift + j - 1) % 8)],
           0, [j \in 1..width |-> j])

(* The size of a container has one byte, unless it is misread.             *)
ReadContainer(r, m) == LET n == readValue(r, 4)
                       IN  IF n.ok THEN ReadElements(n, Part(n.val, 0, 8), m) ELSE n

(* The tm that mktime is given: its tm_sec and tm_isdst are 0.             *)
ReadPackedTime(r) ==
  LET packedDate == readValue(r, 4)
  IN  IF ~packedDate.ok THEN packedDate
      ELSE [packedDate EXCEPT !.val = <<0, Part(@, 0, 6), Part(@, 6, 5), Part(@, 14, 6) + 1,
                                        Part(@, 20, 4), Part(@, 24, 5) + 100, 0>>]

ReadFloat(r, n) == LET f == readValue(r, n)
                   IN  IF f.ok /\ ~IsFinite(f.val) THEN Throw(f) ELSE f

Received(r, f) ==
  CASE f.kind = "value"   -> readValue(r, Len(f.val))
    [] f.kind \in {"block", "pad"} -> readBytes(r, Len(f.val))
    [] f.kind = "vector"  -> ReadContainer(r, 1)
    [] f.kind = "map"     -> ReadContainer(r, 2)
    [] f.kind = "flag"    -> readFlag(r)
    [] f.kind = "float"   -> ReadFloat(r, Len(f.val))
    [] f.kind = "cstring" -> ReadCString(r)
    [] f.kind = "text"    -> ReadString(r, Len(f.val))
    [] f.kind \in {"bits", "hole"} -> ReadBits(r, Len(f.val))
    [] f.kind = "byteseq" -> LET bit == ReadBit(r) IN IF bit.ok THEN ReadByteSeq(bit) ELSE bit
    [] f.kind = "packed"  -> ReadPackedUInt64(r)
    [] f.kind = "time"    -> ReadPackedTime(r)
    [] f.kind = "align"   -> [r EXCEPT !.buf = ResetBitPos(@)]

-----------------------------------------------------------------------------
(* The sender.                                                             *)

(* A packed integer, padding, or a block of nothing, which is read with a  *)
(* reset but appended without a flush, while bits are pending.  It can     *)
(* reach the fields that end in the pending byte, and those that follow.   *)
Spoils(f) == /\ out._bitpos # 8
             /\ f.kind \in {"packed", "pad"} \/ (f.kind = "block" /\ f.val = << >>)

Reachable == {i \in DOMAIN fields :
                IF i = Len(fields) THEN out._bitpos # 8 ELSE at[i + 1] > 8 * out._wpos}

Write(f) == /\ phase = "write" /\ Len(fields) < MaxFields
            /\ out' = Written(out, f)
            /\ fields' = Append(fields, f)
            /\ at' = Append(at, bitwpos(out))
            /\ sound' = IF Spoils(f) /\ sound = MaxFields
                        THEN Len(fields) - Cardinality(Reachable) ELSE sound
            /\ UNCHANGED <<order, in, got, phase>>

(* A hole left with WriteBits is filled in later; where PutBits throws, it *)
(* has changed nothing.                                                    *)
Fill(i, bits) == /\ phase = "write" /\ fields[i].kind = "hole"
                 /\ Fits(out, at[i], bits)
                 /\ out' = PutBits(out, at[i], bits)
                 /\ fields' = [fields EXCEPT ![i].val = bits]
                 /\ UNCHANGED <<order, at, in, got, phase, sound>>

(* A value is changed with put, at the wpos() noted before it was written, *)
(* when no bits were pending.                                              *)
Change(i, val) == /\ phase = "write" /\ fields[i].kind = "value" /\ at[i] % 8 = 0
                  /\ Holds(out, at[i] \div 8, val)
                  /\ out' = put(out, at[i] \div 8, OnTheWire(val))
                  /\ fields' = [fields EXCEPT ![i].val = val]
                  /\ UNCHANGED <<order, at, in, got, phase, sound>>

(* A byte is changed through operator[].                                   *)
ChangeByte(i, val) ==
  LET pos == at[i] \div 8
  IN  /\ phase = "write" /\ fields[i].kind = "value" /\ at[i] % 8 = 0
      /\ Len(val) = 1 /\ HasIndex(out, pos)
      /\ out' = [out EXCEPT !._storage[pos + 1] = val[1]]
      /\ fields' = [fields EXCEPT ![i].val = val]
      /\ UNCHANGED <<order, at, in, got, phase, sound>>

(* Or the sender goes back and writes the value again.  With bits pending  *)
(* these would be flushed over it.                                         *)
Overwrite(i, val) ==
  /\ phase = "write" /\ fields[i].kind = "value" /\ at[i] % 8 = 0 /\ out._bitpos = 8
  /\ out' = setWpos(appendValue(setBitwpos(out, at[i]), val), out._wpos)
  /\ fields' = [fields EXCEPT ![i].val = val]
  /\ UNCHANGED <<order, at, in, got, phase, sound>>

(* contents throws for an empty buffer.                                    *)
HasContents(b) == b._storage # << >>

(* SendPacket does not flush.  It writes the header and the packet into a  *)
(* MessageBuffer of 4096 bytes, which does not grow; a longer packet would *)
(* be written past its end, and is not followed.                           *)
MessageBufferSize == 4096

(* The receiver resizes its _packetBuffer to the size in the header, waits *)
(* until it is full, and makes a WorldPacket of its storage.               *)
SendPacket ==
  LET uLen == RawUint16(size(out))
  IN  /\ phase = "write" /\ HasContents(out) /\ size(out) + 4 <= MessageBufferSize
      /\ IF uLen > size(out) THEN phase' = "waiting" /\ UNCHANGED in
         ELSE /\ phase' = "read"
              /\ in' = NewPacket(RawUint16(out.m_opcode), SubSeq(out._storage, 1, uLen))
      /\ UNCHANGED <<order, out, fields, at, got, sound>>

clear(b) == NewPacket(b.m_opcode, << >>)

(* Initialize of WorldPacket, for another packet.                          *)
Initialize(opcode) == /\ fields # << >>
                      /\ out' = [clear(out) EXCEPT !.m_opcode = opcode]
                      /\ fields' = << >> /\ at' = << >>
                      /\ in' = NoPacket
                      /\ got' = << >>
                      /\ phase' = "write" /\ sound' = MaxFields
                      /\ UNCHANGED order

-----------------------------------------------------------------------------
(* The receiver.                                                           *)

NextField == fields[Len(got) + 1]
Reading == phase = "read" /\ Len(got) < Len(fields)

Take(r) == /\ in' = r.buf
           /\ got' = IF r.ok THEN Append(got, r.val) ELSE got
           /\ phase' = IF r.ok THEN "read" ELSE "thrown"
           /\ UNCHANGED <<order, out, fields, at, sound>>

(* Fault: Move, which resets the positions, comes before they are taken.   *)
MovedLate(b) == NewPacket(b.m_opcode, b._storage)

(* The packet made from b by a move, as by a copy; the constructors and    *)
(* assignments of ByteBuffer and WorldPacket take every member.            *)
Moved(b) == [m_opcode |-> b.m_opcode, _rpos |-> b._rpos, _wpos |-> b._wpos, _bitpos |-> b._bitpos,
             _curbitval |-> b._curbitval, _storage |-> b._storage]

(* The packet may be handed on before each read.                           *)
Start == [buf |-> Moved(in), val |-> << >>, ok |-> TRUE]

Read == Reading /\ Take(Received(Start, NextField))

Skipped == << >>      \* no value of a fundamental type

(* read_skip checks before it resets.                                      *)
read_skip(r, n) == IF PastTheEnd(r, n) THEN Throw(r) ELSE [Took(r, n) EXCEPT !.val = Skipped]

(* read_skip of a string reads it.                                         *)
Skip == /\ Reading
        /\ \/ NextField.kind = "value" /\ Take(read_skip(Start, Len(NextField.val)))
           \/ NextField.kind = "cstring" /\ Take([ReadCString(Start) EXCEPT !.val = Skipped])

(* rpos(0), between bytes; rfinish() as well, for the _wpos of a received  *)
(* packet is 0.                                                            *)
Rewind == /\ phase = "read" /\ got # << >> /\ in._bitpos >= 7
          /\ in' = [in EXCEPT !._rpos = 0]
          /\ got' = << >>
          /\ UNCHANGED <<order, out, fields, at, phase, sound>>

Next == \/ \E f \in Field : Write(f)
        \/ \E i \in DOMAIN fields : \E bits \in [DOMAIN fields[i].val -> Bit] : Fill(i, bits)
        \/ \E i \in DOMAIN fields : \E f \in Field :
             /\ f.kind = "value" /\ fields[i].kind = "value"
             /\ Len(f.val) = Len(fields[i].val) /\ f.val # fields[i].val
             /\ Change(i, f.val) \/ ChangeByte(i, f.val) \/ Overwrite(i, f.val)
        \/ SendPacket
        \/ \E opcode \in Opcode : Initialize(opcode)
        \/ Read \/ Skip \/ Rewind

Spec == Init /\ [][Next]_vars

-----------------------------------------------------------------------------
(* Machines of different byte order do not understand each other.          *)
SameOrder == order["sender"] = order["receiver"]

(* A time comes back to the minute, in standard time; of the year after    *)
(* 2031, only its five bits.  So mktime makes another time of one that was *)
(* daylight saving or after 2031.                                          *)
SameMinute(time, tm) == /\ SubSeq(tm, 1, 5) = <<0>> \o SubSeq(time, 2, 5)
                        /\ tm[6] = time[6] \/ time[6] > 131
                        /\ tm[7] = 0

Same(f, val) == CASE f.kind = "time" -> SameMinute(f.val, val)
                  [] f.kind \in {"value", "cstring"} -> val \in {f.val, Skipped}
                  [] OTHER -> val = f.val

(* Round trip: the receiver of a packet has its opcode, and what it reads  *)
(* is what the sender wrote or filled in, field by field, however bits,    *)
(* bytes, strings and holes follow each other and wherever both sides      *)
(* align; bits never flushed are missed, not misread.  The exceptions are  *)
(* what Spoils names, written with bits pending, and only for the fields it*)
(* can reach: the mask of a packed integer replaces those bits             *)
(* (AppendPackedUInt64, ByteBuffer.h:629), resize does not flush them.     *)
RoundTrip == SameOrder /\ phase = "read" =>
               /\ in.m_opcode = out.m_opcode
               /\ \A i \in DOMAIN got : i <= sound => Same(fields[i], got[i])

(* Complete: the frame of a packet is never waited for; and of one with no *)
(* bits pending when it was sent, every field can be read, but for a float *)
(* that is not finite, and then nothing is left over.                      *)
Complete ==
  SameOrder /\ phase # "write" =>
    /\ phase # "waiting"
    /\ out._bitpos = 8 /\ sound = MaxFields =>
         /\ phase = "thrown" => NextField.kind = "float" /\ ~IsFinite(NextField.val)
         /\ phase = "read" /\ Len(got) = Len(fields) => in._rpos = size(in)
=============================================================================
