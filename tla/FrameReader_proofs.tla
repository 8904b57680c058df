------------------------ MODULE FrameReader_proofs ------------------------
(***************************************************************************)
(* Theorems about FrameReader, for any stream of frames and any block size:*)
(* its types and the bounds of its buffers, that every read offers the     *)
(* whole block, that no complete frame is kept waiting, and the refinement *)
(* of FrameStream.                                                         *)
(***************************************************************************)
EXTENDS FrameReader, SequenceTheorems, TLAPS

D == Len(handled)
B == Begin[D + 1]
H == Len(_headerBuffer.written)
P == Len(_packetBuffer.written)

(* The read buffer holds the last bytes that were received.                *)
ReadInv ==
  /\ _readBuffer.size = READ_BLOCK_SIZE
  /\ \A i \in 1..Len(_readBuffer.written) :
       _readBuffer.written[i] = received - Len(_readBuffer.written) + i
  /\ arrived <= Begin[MaxFrames + 1]

(* The frames handled so far are the first D, and the two other buffers    *)
(* hold what has been looked at of frame D + 1.                            *)
FrameInv ==
  /\ D <= MaxFrames
  /\ \A f \in 1..D : handled[f] = Frame(f)
  /\ H # 0 => D < MaxFrames
  /\ _headerBuffer.size = HeaderSize /\ _headerBuffer._rpos = 0
  /\ \A i \in 1..H : _headerBuffer.written[i] = B + i
  /\ _packetBuffer._rpos = 0
  /\ H < HeaderSize => P = 0
  /\ H = HeaderSize => _packetBuffer.size = Payload(D + 1)
  /\ \A i \in 1..P : _packetBuffer.written[i] = (B + HeaderSize) + i
  /\ received - GetActiveSize(_readBuffer) = B + H + P

Incomplete == H = HeaderSize => P < _packetBuffer.size

(* What is known at each place of the io thread.                           *)
PlaceInv ==
  /\ io \in {"loop", "next", "posted"} => Incomplete
  /\ io = "payload" => H = HeaderSize
  /\ io = "next" => GetActiveSize(_readBuffer) = 0
  /\ io = "posted" => Len(_readBuffer.written) = 0

IInv == TypeOK /\ ReadInv /\ FrameInv /\ PlaceInv

-----------------------------------------------------------------------------
(* The operators the model is built from.                                  *)

LEMMA LeastFacts ==
  ASSUME NEW m \in Nat, NEW n \in Nat
  PROVE  /\ Least(m, n) \in Nat /\ Least(m, n) <= m /\ Least(m, n) <= n
         /\ Least(m, n) = m \/ Least(m, n) = n
  BY DEF Least

LEMMA BytesFacts ==
  ASSUME NEW first \in Nat, NEW n \in Nat
  PROVE  /\ Bytes(first, n) \in Seq(Nat)
         /\ Len(Bytes(first, n)) = n
         /\ \A i \in 1..n : Bytes(first, n)[i] = first + i
  <1>1. Bytes(first, n) \in [1..n -> Nat]
    BY DEF Bytes
  <1>2. Bytes(first, n) \in Seq(Nat)
    BY <1>1, SeqDef
  <1>3. Len(Bytes(first, n)) = n
    BY <1>2 DEF Bytes
  <1>4. \A i \in 1..n : Bytes(first, n)[i] = first + i
    BY DEF Bytes
  <1> QED BY <1>2, <1>3, <1>4

LEMMA SpaceFacts ==
  ASSUME NEW b \in BufferOf(Nat), InBounds(b)
  PROVE  /\ GetActiveSize(b) \in Nat /\ GetRemainingSpace(b) \in Nat
         /\ Len(b.written) \in Nat /\ b._rpos \in Nat /\ b.size \in Nat
         /\ b.written \in Seq(Nat)
         /\ GetActiveSize(b) = Len(b.written) - b._rpos
         /\ GetRemainingSpace(b) = b.size - Len(b.written)
  <1>1. b.written \in Seq(Nat) /\ b._rpos \in Nat /\ b.size \in Nat
    BY DEF BufferOf
  <1>2. Len(b.written) \in Nat
    BY <1>1, LenProperties
  <1> QED BY <1>1, <1>2 DEF InBounds, GetActiveSize, GetRemainingSpace

LEMMA WriteFacts ==
  ASSUME NEW b \in BufferOf(Nat), InBounds(b),
         NEW s \in Seq(Nat), Len(s) <= GetRemainingSpace(b)
  PROVE  /\ Write(b, s) \in BufferOf(Nat) /\ InBounds(Write(b, s))
         /\ Write(b, s).size = b.size /\ Write(b, s)._rpos = b._rpos
         /\ Len(Write(b, s).written) = Len(b.written) + Len(s)
         /\ \A i \in 1..Len(b.written) : Write(b, s).written[i] = b.written[i]
         /\ \A i \in 1..Len(s) : Write(b, s).written[Len(b.written) + i] = s[i]
  <1>1. /\ b.written \in Seq(Nat) /\ b._rpos \in Nat /\ b.size \in Nat
        /\ Len(b.written) \in Nat /\ Len(s) \in Nat
        /\ GetRemainingSpace(b) = b.size - Len(b.written)
    BY SpaceFacts, LenProperties
  <1>2. /\ b.written \o s \in Seq(Nat)
        /\ Len(b.written \o s) = Len(b.written) + Len(s)
        /\ \A i \in 1 .. Len(b.written) + Len(s) :
             (b.written \o s)[i] = IF i <= Len(b.written) THEN b.written[i]
                                                          ELSE s[i - Len(b.written)]
    BY <1>1, ConcatProperties
  <1>3. /\ Write(b, s).written = b.written \o s
        /\ Write(b, s).size = b.size /\ Write(b, s)._rpos = b._rpos
    BY DEF Write, BufferOf
  <1>4. Write(b, s) \in BufferOf(Nat)
    BY <1>1, <1>2 DEF Write, BufferOf
  <1>5. InBounds(Write(b, s))
    BY <1>1, <1>2, <1>3 DEF InBounds
  <1>6. \A i \in 1..Len(b.written) : (b.written \o s)[i] = b.written[i]
    BY <1>1, <1>2
  <1>7. \A i \in 1..Len(s) : (b.written \o s)[Len(b.written) + i] = s[i]
    BY <1>1, <1>2
  <1> QED BY <1>2, <1>3, <1>4, <1>5, <1>6, <1>7

LEMMA ReadFacts ==
  ASSUME NEW b \in BufferOf(Nat), InBounds(b), NEW n \in Nat, n <= GetActiveSize(b)
  PROVE  /\ ReadPointer(b, n) \in Seq(Nat) /\ Len(ReadPointer(b, n)) = n
         /\ \A i \in 1..n : ReadPointer(b, n)[i] = b.written[b._rpos + i]
         /\ ReadCompleted(b, n) \in BufferOf(Nat) /\ InBounds(ReadCompleted(b, n))
         /\ ReadCompleted(b, n).size = b.size
         /\ ReadCompleted(b, n).written = b.written
         /\ GetActiveSize(ReadCompleted(b, n)) = GetActiveSize(b) - n
  <1>1. /\ b.written \in Seq(Nat) /\ b._rpos \in Nat /\ b.size \in Nat
        /\ Len(b.written) \in Nat
        /\ GetActiveSize(b) = Len(b.written) - b._rpos
    BY SpaceFacts
  <1>2. \A i \in 1..n : b.written[b._rpos + i] \in Nat
    <2> SUFFICES ASSUME NEW i \in 1..n PROVE b.written[b._rpos + i] \in Nat
      OBVIOUS
    <2>1. b._rpos + i \in 1..Len(b.written)
      BY <1>1
    <2> QED BY <1>1, <2>1, ElementOfSeq
  <1>3. ReadPointer(b, n) \in [1..n -> Nat]
    BY <1>2 DEF ReadPointer
  <1>4. ReadPointer(b, n) \in Seq(Nat)
    BY <1>3, SeqDef
  <1>5. Len(ReadPointer(b, n)) = n
    BY <1>4 DEF ReadPointer
  <1>6. \A i \in 1..n : ReadPointer(b, n)[i] = b.written[b._rpos + i]
    BY DEF ReadPointer
  <1>7. /\ ReadCompleted(b, n) \in BufferOf(Nat)
        /\ ReadCompleted(b, n).size = b.size
        /\ ReadCompleted(b, n).written = b.written
        /\ ReadCompleted(b, n)._rpos = b._rpos + n
    BY <1>1 DEF ReadCompleted, BufferOf
  <1>8. InBounds(ReadCompleted(b, n))
    BY <1>1, <1>7 DEF InBounds
  <1>9. GetActiveSize(ReadCompleted(b, n)) = GetActiveSize(b) - n
    BY <1>1, <1>7 DEF GetActiveSize
  <1> QED BY <1>4, <1>5, <1>6, <1>7, <1>8, <1>9

LEMMA NewFacts ==
  ASSUME NEW n \in Nat
  PROVE  /\ NewBuffer(n) \in BufferOf(Nat) /\ InBounds(NewBuffer(n))
         /\ NewBuffer(n).size = n /\ NewBuffer(n)._rpos = 0
         /\ NewBuffer(n).written = << >> /\ Len(NewBuffer(n).written) = 0
         /\ GetActiveSize(NewBuffer(n)) = 0
  <1>1. << >> \in Seq(Nat) /\ Len(<< >>) = 0
    BY EmptySeq
  <1>2. NewBuffer(n) \in BufferOf(Nat)
    BY <1>1 DEF NewBuffer, BufferOf
  <1>3. /\ NewBuffer(n).size = n /\ NewBuffer(n)._rpos = 0
        /\ NewBuffer(n).written = << >> /\ Len(NewBuffer(n).written) = 0
    BY <1>1 DEF NewBuffer
  <1> QED BY <1>2, <1>3 DEF InBounds, GetActiveSize

LEMMA ResizeFacts ==
  ASSUME NEW b \in BufferOf(Nat), NEW n \in Nat, InBounds(b), Len(b.written) <= n
  PROVE  /\ Resize(b, n) \in BufferOf(Nat) /\ InBounds(Resize(b, n))
         /\ Resize(b, n).size = n /\ Resize(b, n)._rpos = b._rpos
         /\ Resize(b, n).written = b.written
  BY DEF Resize, BufferOf, InBounds

(* A buffer of n bytes that holds nothing.                                 *)
Fresh(b, n) == /\ b \in BufferOf(Nat) /\ InBounds(b)
               /\ b.size = n /\ b._rpos = 0
               /\ b.written = << >> /\ Len(b.written) = 0

LEMMA ResetFacts ==
  ASSUME NEW b \in BufferOf(Nat)
  PROVE  Fresh(Reset(b), b.size)
  <1>1. << >> \in Seq(Nat) /\ Len(<< >>) = 0 /\ b.size \in Nat
    BY EmptySeq DEF BufferOf
  <1>2. Reset(b).written = << >> /\ Reset(b)._rpos = 0 /\ Reset(b).size = b.size
    BY DEF Reset, BufferOf
  <1>3. Reset(b) \in BufferOf(Nat)
    BY <1>1 DEF Reset, BufferOf
  <1> QED BY <1>1, <1>2, <1>3 DEF Fresh, InBounds

(* A buffer that was read to its end is as new after Normalize, and        *)
(* EnsureFreeSpace leaves it alone.                                        *)
LEMMA NormalizeFacts ==
  ASSUME NEW b \in BufferOf(Nat), InBounds(b), GetActiveSize(b) = 0, b.size # 0
  PROVE  Fresh(EnsureFreeSpace(Normalize(b)), b.size)
  <1>1. ReadPointer(b, 0) = << >>
    BY DEF ReadPointer
  <1>2. << >> \in Seq(Nat) /\ Len(<< >>) = 0 /\ b.size \in Nat
    BY EmptySeq DEF BufferOf
  <1>3. /\ Normalize(b).written = << >> /\ Normalize(b)._rpos = 0
        /\ Normalize(b).size = b.size
    BY <1>1 DEF Normalize, BufferOf
  <1>4. Normalize(b) \in BufferOf(Nat)
    BY <1>1, <1>2 DEF Normalize, BufferOf
  <1>5. GetRemainingSpace(Normalize(b)) = b.size
    BY <1>2, <1>3 DEF GetRemainingSpace
  <1>6. EnsureFreeSpace(Normalize(b)) = Normalize(b)
    BY <1>5 DEF EnsureFreeSpace
  <1> QED BY <1>2, <1>3, <1>4, <1>6 DEF Fresh, InBounds

-----------------------------------------------------------------------------
(* What the invariant says of the numbers in a state.                      *)
LEMMA StateFacts ==
  ASSUME IInv
  PROVE  /\ _readBuffer \in BufferOf(Nat) /\ InBounds(_readBuffer)
         /\ _headerBuffer \in BufferOf(Nat) /\ InBounds(_headerBuffer)
         /\ _packetBuffer \in BufferOf(Nat) /\ InBounds(_packetBuffer)
         /\ GetActiveSize(_readBuffer) \in Nat
         /\ Len(_readBuffer.written) \in Nat /\ _readBuffer._rpos \in Nat
         /\ GetActiveSize(_readBuffer) = Len(_readBuffer.written) - _readBuffer._rpos
         /\ H \in Nat /\ H <= HeaderSize /\ GetRemainingSpace(_headerBuffer) = HeaderSize - H
         /\ P \in Nat /\ _packetBuffer.size \in Nat /\ P <= _packetBuffer.size
         /\ GetRemainingSpace(_packetBuffer) = _packetBuffer.size - P
         /\ D \in Nat /\ D <= MaxFrames /\ B \in Nat
         /\ arrived \in Nat /\ received \in Nat /\ received <= arrived
         /\ received = B + H + P + GetActiveSize(_readBuffer)
  <1>1. /\ _readBuffer \in BufferOf(Nat) /\ InBounds(_readBuffer)
        /\ _headerBuffer \in BufferOf(Nat) /\ InBounds(_headerBuffer)
        /\ _packetBuffer \in BufferOf(Nat) /\ InBounds(_packetBuffer)
        /\ arrived \in Nat /\ received \in Nat /\ received <= arrived
    BY DEF IInv, TypeOK
  <1>2. /\ GetActiveSize(_readBuffer) \in Nat
        /\ Len(_readBuffer.written) \in Nat /\ _readBuffer._rpos \in Nat
        /\ GetActiveSize(_readBuffer) = Len(_readBuffer.written) - _readBuffer._rpos
    BY <1>1, SpaceFacts
  <1>3. H \in Nat /\ H <= HeaderSize /\ GetRemainingSpace(_headerBuffer) = HeaderSize - H
    <2>1. H \in Nat /\ GetRemainingSpace(_headerBuffer) = _headerBuffer.size - H
      BY <1>1, SpaceFacts DEF H
    <2>2. H <= _headerBuffer.size
      BY <1>1 DEF InBounds, H
    <2> QED BY <2>1, <2>2 DEF IInv, FrameInv
  <1>4. /\ P \in Nat /\ _packetBuffer.size \in Nat /\ P <= _packetBuffer.size
        /\ GetRemainingSpace(_packetBuffer) = _packetBuffer.size - P
    <2>1. /\ P \in Nat /\ GetRemainingSpace(_packetBuffer) = _packetBuffer.size - P
          /\ _packetBuffer.size \in Nat
      BY <1>1, SpaceFacts DEF P
    <2>2. P <= _packetBuffer.size
      BY <1>1 DEF InBounds, P
    <2> QED BY <2>1, <2>2
  <1>5. D \in Nat /\ D <= MaxFrames
    BY LenProperties DEF IInv, TypeOK, FrameInv, D
  <1>6. B \in Nat
    BY <1>5, FramesAssumption, BeginAssumption DEF B
  <1>7. received = B + H + P + GetActiveSize(_readBuffer)
    <2>1. received - GetActiveSize(_readBuffer) = B + H + P
      BY DEF IInv, FrameInv
    <2> HIDE DEF B, H, P
    <2> QED BY <1>1, <1>2, <1>3, <1>4, <1>6, <2>1
  <1> QED BY <1>1, <1>2, <1>3, <1>4, <1>5, <1>6, <1>7

LEMMA FrameFacts ==
  ASSUME NEW f \in FrameNo
  PROVE  /\ f \in Nat /\ Begin[f] \in Nat /\ Begin[f + 1] \in Nat
         /\ Payload(f) \in Nat
         /\ Begin[f + 1] = Begin[f] + HeaderSize + Payload(f)
         /\ Begin[f] < Begin[MaxFrames + 1]
  <1>1. /\ f \in 1..MaxFrames + 1 /\ f + 1 \in 1..MaxFrames + 1
        /\ MaxFrames + 1 \in 1..MaxFrames + 1 /\ f < f + 1 /\ f < MaxFrames + 1
    BY FramesAssumption DEF FrameNo
  <1>2. Begin[f] \in Nat /\ Begin[f + 1] \in Nat /\ Begin[MaxFrames + 1] \in Nat
    BY <1>1, BeginAssumption
  <1>3. Begin[f] + HeaderSize <= Begin[f + 1] /\ Begin[f] + HeaderSize <= Begin[MaxFrames + 1]
    BY <1>1, BeginAssumption
  <1>4. Payload(f) = Begin[f + 1] - Begin[f] - HeaderSize
    BY DEF Payload
  <1> QED BY <1>1, <1>2, <1>3, <1>4 DEF HeaderSize

(* Whoever holds a byte that is not of the frames handled is in a frame.   *)
LEMMA MoreToCome ==
  ASSUME IInv, GetActiveSize(_readBuffer) > 0 \/ H # 0
  PROVE  D + 1 \in FrameNo
  <1>1. CASE H # 0
    <2>1. D \in Nat /\ D < MaxFrames
      BY <1>1, StateFacts DEF IInv, FrameInv
    <2> QED BY <2>1, FramesAssumption DEF FrameNo
  <1>2. CASE GetActiveSize(_readBuffer) > 0
    <2>1. B < received /\ received <= Begin[MaxFrames + 1] /\ B \in Nat /\ received \in Nat
      <3>1. arrived <= Begin[MaxFrames + 1] /\ Begin[MaxFrames + 1] \in Nat
        BY FramesAssumption, BeginAssumption DEF IInv, ReadInv
      <3> QED BY <1>2, <3>1, StateFacts
    <2>2. D # MaxFrames
      <3>1. SUFFICES ASSUME D = MaxFrames PROVE FALSE
        OBVIOUS
      <3>2. B = Begin[MaxFrames + 1]
        BY <3>1 DEF B
      <3> QED BY <2>1, <3>2
    <2>3. D \in Nat /\ D <= MaxFrames
      BY StateFacts
    <2> QED BY <2>2, <2>3, FramesAssumption DEF FrameNo
  <1> QED BY <1>1, <1>2

(* The next bytes of the read buffer are the next bytes of the stream.     *)
LEMMA NextBytes ==
  ASSUME IInv, NEW n \in Nat, n <= GetActiveSize(_readBuffer)
  PROVE  /\ ReadPointer(_readBuffer, n) \in Seq(Nat)
         /\ Len(ReadPointer(_readBuffer, n)) = n
         /\ \A i \in 1..n : ReadPointer(_readBuffer, n)[i] = B + H + P + i
         /\ ReadCompleted(_readBuffer, n) \in BufferOf(Nat)
         /\ InBounds(ReadCompleted(_readBuffer, n))
         /\ ReadCompleted(_readBuffer, n).size = _readBuffer.size
         /\ ReadCompleted(_readBuffer, n).written = _readBuffer.written
         /\ GetActiveSize(ReadCompleted(_readBuffer, n)) = GetActiveSize(_readBuffer) - n
  <1>1. _readBuffer \in BufferOf(Nat) /\ InBounds(_readBuffer)
    BY StateFacts
  <1> DEFINE w == Len(_readBuffer.written)
             r == _readBuffer._rpos
             a == GetActiveSize(_readBuffer)
             c == B + H + P
  <1>2. ASSUME NEW i \in 1..n
        PROVE  ReadPointer(_readBuffer, n)[i] = B + H + P + i
    <2>1. ReadPointer(_readBuffer, n)[i] = _readBuffer.written[_readBuffer._rpos + i]
      BY <1>1, ReadFacts
    <2>2. /\ w \in Nat /\ r \in Nat /\ a \in Nat /\ a = w - r
          /\ c \in Nat /\ received \in Nat /\ received = c + a
      BY StateFacts
    <2>3. \A k \in 1..w : _readBuffer.written[k] = received - w + k
      BY DEF IInv, ReadInv
    <2> HIDE DEF w, r, a, c
    <2>4. r + i \in 1..w /\ received - w + (r + i) = c + i
      <3>1. n <= a
        BY DEF a
      <3> QED BY <2>2, <3>1
    <2>5. ReadPointer(_readBuffer, n)[i] = _readBuffer.written[r + i]
      BY <2>1 DEF r
    <2>6. ReadPointer(_readBuffer, n)[i] = c + i
      BY <2>3, <2>4, <2>5
    <2> QED BY <2>6 DEF c
  <1> QED BY <1>1, <1>2, ReadFacts

-----------------------------------------------------------------------------
LEMMA InitIInv == Init => IInv
  <1> SUFFICES ASSUME Init PROVE IInv
    OBVIOUS
  <1>1. /\ Fresh(_readBuffer, READ_BLOCK_SIZE)
        /\ Fresh(_headerBuffer, HeaderSize)
        /\ Fresh(_packetBuffer, 4096)
    <2>1. READ_BLOCK_SIZE \in Nat /\ HeaderSize \in Nat /\ 4096 \in Nat
      BY BlockAssumption DEF HeaderSize
    <2>2. \A n \in Nat : Fresh(NewBuffer(n), n)
      BY NewFacts DEF Fresh
    <2> QED BY <2>1, <2>2 DEF Init
  <1>2. handled = << >> /\ arrived = 0 /\ received = 0 /\ io = "posted"
    BY DEF Init
  <1>3. D = 0 /\ H = 0 /\ P = 0
    BY <1>1, <1>2 DEF D, H, P, Fresh
  <1>4. B = 0
    BY <1>3, BeginAssumption DEF B
  <1>5. GetActiveSize(_readBuffer) = 0
    BY <1>1 DEF Fresh, GetActiveSize
  <1>6. TypeOK
    <2>1. handled \in Seq([header : Seq(Nat), payload : Seq(Nat)])
      BY <1>2
    <2>2. arrived \in Nat /\ received \in 0..arrived
      BY <1>2
    <2>3. /\ _readBuffer \in BufferOf(Nat) /\ InBounds(_readBuffer)
          /\ _headerBuffer \in BufferOf(Nat) /\ InBounds(_headerBuffer)
          /\ _packetBuffer \in BufferOf(Nat) /\ InBounds(_packetBuffer)
      BY <1>1 DEF Fresh
    <2>4. /\ io \in {"posted", "loop", "payload", "next", "idle", "dead"}
          /\ _closed \in BOOLEAN /\ _closing \in BOOLEAN
      BY <1>2 DEF Init
    <2> QED BY <2>1, <2>2, <2>3, <2>4 DEF TypeOK
  <1>7. ReadInv
    <2>1. 0 <= Begin[MaxFrames + 1]
      BY FramesAssumption, BeginAssumption
    <2> QED BY <1>1, <1>2, <2>1 DEF ReadInv, Fresh
  <1>8. FrameInv
    BY <1>1, <1>2, <1>3, <1>4, <1>5, FramesAssumption DEF FrameInv, Fresh, HeaderSize
  <1>9. PlaceInv
    BY <1>1, <1>2, <1>3 DEF PlaceInv, Incomplete, Fresh, HeaderSize
  <1> QED BY <1>6, <1>7, <1>8, <1>9 DEF IInv

(* Steps that leave the buffers alone.                                     *)
LEMMA QuietIInv ==
  ASSUME IInv, PlaceInv',
         UNCHANGED <<received, buffers, handled>>,
         arrived' \in Nat, arrived <= arrived', arrived' <= Begin[MaxFrames + 1],
         io' \in {"posted", "loop", "payload", "next", "idle", "dead"},
         _closed' \in BOOLEAN, _closing' \in BOOLEAN
  PROVE  IInv'
  <1>1. D' = D /\ H' = H /\ P' = P
    BY DEF D, H, P, buffers
  <1>2. B' = B
    BY <1>1 DEF B
  <1>3. TypeOK'
    <2>1. received' \in 0..arrived'
      <3>1. arrived \in Nat /\ received \in 0..arrived
        BY DEF IInv, TypeOK
      <3> QED BY <3>1
    <2> QED BY <2>1 DEF IInv, TypeOK, buffers
  <1>4. ReadInv'
    BY DEF IInv, ReadInv, buffers
  <1>5. FrameInv'
    BY <1>1, <1>2 DEF IInv, FrameInv, buffers
  <1> QED BY <1>3, <1>4, <1>5 DEF IInv

LEMMA PlaceUnchanged ==
  ASSUME IInv, UNCHANGED <<buffers, io>>
  PROVE  PlaceInv'
  <1>1. H' = H /\ P' = P
    BY DEF H, P, buffers
  <1> QED BY <1>1 DEF IInv, PlaceInv, Incomplete, buffers

LEMMA ArriveIInv == ASSUME IInv, Arrive PROVE IInv'
  <1>1. PlaceInv'
    BY PlaceUnchanged DEF Arrive
  <1>2. arrived' \in Nat /\ arrived <= arrived' /\ arrived' <= Begin[MaxFrames + 1]
    <2>1. arrived \in Nat /\ Begin[MaxFrames + 1] \in Nat
      BY FramesAssumption, BeginAssumption DEF IInv, TypeOK
    <2> QED BY <2>1 DEF Arrive
  <1>3. UNCHANGED <<received, buffers, io, _closed, _closing, handled>>
    BY DEF Arrive, flags
  <1>4. io' \in {"posted", "loop", "payload", "next", "idle", "dead"} /\ _closed' \in BOOLEAN /\ _closing' \in BOOLEAN
    BY <1>3 DEF IInv, TypeOK
  <1> QED BY <1>1, <1>2, <1>3, <1>4, QuietIInv

(* The end of the loop, an error, and the two ways to close.               *)
LEMMA ControlIInv ==
  ASSUME IInv, LoopEnds \/ ReadError \/ CloseSocket \/ DelayedCloseSocket
  PROVE  IInv'
  <1>1. UNCHANGED <<arrived, received, buffers, handled>>
    BY DEF LoopEnds, ReadError, CloseSocket, DelayedCloseSocket
  <1>2. arrived' \in Nat /\ arrived <= arrived' /\ arrived' <= Begin[MaxFrames + 1]
    BY <1>1 DEF IInv, TypeOK, ReadInv
  <1>3. /\ io' \in {"posted", "loop", "payload", "next", "idle", "dead"}
        /\ _closed' \in BOOLEAN /\ _closing' \in BOOLEAN
    BY DEF IInv, TypeOK, LoopEnds, ReadError, CloseSocket, DelayedCloseSocket, flags
  <1>4. PlaceInv'
    <2>1. H' = H /\ P' = P
      BY <1>1 DEF H, P, buffers
    <2>2. CASE LoopEnds
      BY <1>1, <2>1, <2>2 DEF IInv, PlaceInv, Incomplete, buffers, LoopEnds
    <2>3. CASE ReadError
      BY <2>3 DEF PlaceInv, ReadError
    <2>4. CASE CloseSocket \/ DelayedCloseSocket
      BY <1>1, <2>4, PlaceUnchanged DEF CloseSocket, DelayedCloseSocket
    <2> QED BY <2>2, <2>3, <2>4
  <1> QED BY <1>1, <1>2, <1>3, <1>4, QuietIInv

LEMMA ReadHandlerInternalIInv == ASSUME IInv, ReadHandlerInternal PROVE IInv'
  <1>1. PICK n \in 1..Least(GetRemainingSpace(_readBuffer), arrived - received) :
             /\ _readBuffer' = Write(_readBuffer, Bytes(received, n))
             /\ received' = received + n
    BY DEF ReadHandlerInternal
  <1>2. /\ io = "posted" /\ io' \in {"loop", "idle"}
        /\ UNCHANGED <<arrived, _headerBuffer, _packetBuffer, _closed, _closing, handled>>
    BY DEF ReadHandlerInternal, flags
  <1>3. /\ TypeOK /\ ReadInv /\ FrameInv /\ PlaceInv
        /\ _readBuffer \in BufferOf(Nat) /\ InBounds(_readBuffer)
        /\ arrived \in Nat /\ received \in Nat /\ received <= arrived
        /\ Len(_readBuffer.written) = 0
        /\ GetActiveSize(_readBuffer) \in Nat
    BY <1>2, StateFacts DEF IInv, PlaceInv
  <1>4. n \in Nat /\ n <= GetRemainingSpace(_readBuffer) /\ received + n <= arrived
    <2>1. GetRemainingSpace(_readBuffer) \in Nat /\ arrived - received \in Nat
      BY <1>3, SpaceFacts
    <2> DEFINE g == GetRemainingSpace(_readBuffer)
               d == arrived - received
    <2>2. g \in Nat /\ d \in Nat /\ n \in 1..Least(g, d)
      BY <2>1
    <2> HIDE DEF g, d
    <2>3. Least(g, d) \in Nat /\ Least(g, d) <= g /\ Least(g, d) <= d
      BY <2>2, LeastFacts
    <2>4. n \in Nat /\ n <= g /\ n <= d
      BY <2>2, <2>3
    <2> QED BY <1>3, <2>4 DEF g, d
  <1>5. /\ Bytes(received, n) \in Seq(Nat) /\ Len(Bytes(received, n)) = n
        /\ \A i \in 1..n : Bytes(received, n)[i] = received + i
    BY <1>3, <1>4, BytesFacts
  <1>6. /\ _readBuffer' \in BufferOf(Nat) /\ InBounds(_readBuffer')
        /\ _readBuffer'.size = _readBuffer.size /\ _readBuffer'._rpos = _readBuffer._rpos
        /\ Len(_readBuffer'.written) = n
        /\ \A i \in 1..n : _readBuffer'.written[i] = received + i
    <2> DEFINE s == Bytes(received, n)
    <2>1. s \in Seq(Nat) /\ Len(s) = n /\ Len(s) <= GetRemainingSpace(_readBuffer)
      BY <1>4, <1>5
    <2>2. _readBuffer' = Write(_readBuffer, s)
      BY <1>1
    <2>3. \A i \in 1..n : s[i] = received + i
      BY <1>5
    <2> HIDE DEF s
    <2>4. /\ Write(_readBuffer, s) \in BufferOf(Nat) /\ InBounds(Write(_readBuffer, s))
          /\ Write(_readBuffer, s).size = _readBuffer.size
          /\ Write(_readBuffer, s)._rpos = _readBuffer._rpos
          /\ Len(Write(_readBuffer, s).written) = 0 + Len(s)
          /\ \A i \in 1..Len(s) : Write(_readBuffer, s).written[0 + i] = s[i]
      BY <1>3, <2>1, WriteFacts
    <2>5. \A i \in 1..n : 0 + i = i
      OBVIOUS
    <2> QED BY <1>4, <2>1, <2>2, <2>3, <2>4, <2>5
  <1>7. GetActiveSize(_readBuffer') = GetActiveSize(_readBuffer) + n
    <2>1. /\ GetActiveSize(_readBuffer) = 0 - _readBuffer._rpos /\ _readBuffer._rpos \in Nat
      BY <1>3, SpaceFacts
    <2>2. GetActiveSize(_readBuffer') = n - _readBuffer._rpos
      BY <1>6 DEF GetActiveSize
    <2> QED BY <1>4, <2>1, <2>2
  <1>8. D' = D /\ H' = H /\ P' = P /\ B' = B
    BY <1>2 DEF D, H, P, B
  <1>9. TypeOK'
    <2>1. received' \in 0..arrived'
      BY <1>1, <1>2, <1>3, <1>4
    <2>2. io' \in {"posted", "loop", "payload", "next", "idle", "dead"}
      BY <1>2
    <2> QED BY <1>2, <1>3, <1>6, <2>1, <2>2 DEF TypeOK
  <1>10. ReadInv'
    <2>1. received' - Len(_readBuffer'.written) = received
      BY <1>1, <1>3, <1>4, <1>6
    <2> QED BY <1>2, <1>3, <1>6, <2>1 DEF ReadInv
  <1>11. FrameInv'
    <2>1. received' - GetActiveSize(_readBuffer') = received - GetActiveSize(_readBuffer)
      BY <1>1, <1>3, <1>4, <1>7
    <2> QED BY <1>2, <1>3, <1>8, <2>1 DEF FrameInv
  <1>12. PlaceInv'
    BY <1>2, <1>3, <1>8 DEF PlaceInv, Incomplete
  <1> QED BY <1>9, <1>10, <1>11, <1>12 DEF IInv

(* What one write of the next bytes does to the header or packet buffer.   *)
LEMMA TakeBytes ==
  ASSUME IInv, NEW b \in BufferOf(Nat), InBounds(b),
         NEW n \in Nat, n <= GetActiveSize(_readBuffer), n <= GetRemainingSpace(b),
         NEW base \in Nat, base + Len(b.written) = B + H + P,
         \A i \in 1..Len(b.written) : b.written[i] = base + i
  PROVE  LET c == Write(b, ReadPointer(_readBuffer, n))
         IN /\ c \in BufferOf(Nat) /\ InBounds(c)
            /\ c.size = b.size /\ c._rpos = b._rpos
            /\ Len(c.written) = Len(b.written) + n
            /\ \A i \in 1..Len(b.written) + n : c.written[i] = base + i
  <1> DEFINE s == ReadPointer(_readBuffer, n)
             c == Write(b, s)
             l == Len(b.written)
  <1>1. s \in Seq(Nat) /\ Len(s) = n /\ \A i \in 1..n : s[i] = B + H + P + i
    BY NextBytes
  <1>2. l \in Nat /\ \A i \in 1..n : s[i] = base + l + i
    BY <1>1, SpaceFacts
  <1>3. \A i \in 1..l : b.written[i] = base + i
    OBVIOUS
  <1> HIDE DEF s
  <1>4. /\ c \in BufferOf(Nat) /\ InBounds(c)
        /\ c.size = b.size /\ c._rpos = b._rpos
        /\ Len(c.written) = l + n
        /\ \A i \in 1..l : c.written[i] = b.written[i]
        /\ \A i \in 1..n : c.written[l + i] = s[i]
    BY <1>1, WriteFacts
  <1> HIDE DEF c, l
  <1>5. ASSUME NEW i \in 1..l + n PROVE c.written[i] = base + i
    <2>1. CASE i <= l
      BY <1>2, <1>3, <1>4, <2>1
    <2>2. CASE i > l
      <3>1. i - l \in 1..n /\ l + (i - l) = i
        BY <1>2, <2>2
      <3>2. c.written[l + (i - l)] = base + l + (i - l)
        BY <1>2, <1>4, <3>1
      <3> QED BY <1>2, <3>1, <3>2
    <2> QED BY <1>2, <2>1, <2>2
  <1> QED BY <1>4, <1>5 DEF s, c, l

-----------------------------------------------------------------------------
LEMMA ReadHeaderIInv == ASSUME IInv, ReadHeader PROVE IInv'
  <1> DEFINE a == GetActiveSize(_readBuffer)
             n == Least(a, GetRemainingSpace(_headerBuffer))
             h == Write(_headerBuffer, ReadPointer(_readBuffer, n))
             f == D + 1
  <1>1. /\ io = "loop" /\ a > 0 /\ GetRemainingSpace(_headerBuffer) > 0
        /\ _headerBuffer' = h
        /\ _readBuffer' = ReadCompleted(_readBuffer, n)
        /\ \/ GetRemainingSpace(h) > 0 /\ io' = "next" /\ UNCHANGED _packetBuffer
           \/ /\ GetRemainingSpace(h) = 0
              /\ \E size \in uLen(h.written) : _packetBuffer' = Resize(_packetBuffer, size)
              /\ io' = "payload"
        /\ UNCHANGED <<arrived, received, _closed, _closing, handled>>
    BY DEF ReadHeader, ReadHeaderThen, flags
  <1>2. /\ TypeOK /\ ReadInv /\ FrameInv /\ PlaceInv
    BY DEF IInv
  <1>3. /\ a \in Nat /\ H \in Nat /\ H < HeaderSize /\ GetRemainingSpace(_headerBuffer) = HeaderSize - H
        /\ P = 0 /\ B \in Nat /\ D \in Nat /\ received \in Nat
        /\ received = B + H + a
        /\ _headerBuffer \in BufferOf(Nat) /\ InBounds(_headerBuffer)
        /\ _packetBuffer \in BufferOf(Nat) /\ InBounds(_packetBuffer)
    <2>1. H \in Nat /\ H < HeaderSize
      BY <1>1, StateFacts DEF HeaderSize
    <2>2. P = 0
      BY <1>2, <2>1 DEF FrameInv
    <2> QED BY <2>1, <2>2, StateFacts
  <1>4. /\ n \in Nat /\ n <= a /\ n <= HeaderSize - H /\ n # 0
        /\ n = a \/ n = HeaderSize - H
    <2>1. HeaderSize - H \in Nat /\ HeaderSize - H # 0 /\ a # 0
      BY <1>1, <1>3 DEF HeaderSize
    <2>2. n = Least(a, HeaderSize - H)
      BY <1>3
    <2> HIDE DEF n, a
    <2> QED BY <1>3, <2>1, <2>2, LeastFacts
  <1>5. f \in FrameNo
    BY <1>1, MoreToCome
  <1>6. /\ h \in BufferOf(Nat) /\ InBounds(h)
        /\ h.size = HeaderSize /\ h._rpos = 0
        /\ Len(h.written) = H + n
        /\ \A i \in 1..H + n : h.written[i] = B + i
        /\ GetRemainingSpace(h) = HeaderSize - (H + n)
    <2>1. /\ _headerBuffer.size = HeaderSize /\ _headerBuffer._rpos = 0
          /\ \A i \in 1..Len(_headerBuffer.written) : _headerBuffer.written[i] = B + i
          /\ Len(_headerBuffer.written) = H
      BY <1>2 DEF FrameInv, H
    <2>2. B + Len(_headerBuffer.written) = B + H + P
      BY <1>3, <2>1
    <2>3. n <= GetActiveSize(_readBuffer) /\ n <= GetRemainingSpace(_headerBuffer)
      BY <1>3, <1>4
    <2> HIDE DEF n, h
    <2>4. LET c == Write(_headerBuffer, ReadPointer(_readBuffer, n))
          IN /\ c \in BufferOf(Nat) /\ InBounds(c)
             /\ c.size = _headerBuffer.size /\ c._rpos = _headerBuffer._rpos
             /\ Len(c.written) = Len(_headerBuffer.written) + n
             /\ \A i \in 1..Len(_headerBuffer.written) + n : c.written[i] = B + i
      BY <1>3, <1>4, <2>1, <2>2, <2>3, TakeBytes
    <2> QED BY <2>1, <2>4 DEF h, GetRemainingSpace
  <1>7. /\ _readBuffer' \in BufferOf(Nat) /\ InBounds(_readBuffer')
        /\ _readBuffer'.size = _readBuffer.size
        /\ _readBuffer'.written = _readBuffer.written
        /\ GetActiveSize(_readBuffer') = a - n
    BY <1>1, <1>4, NextBytes
  <1> HIDE DEF n, h, a
  <1>8. D' = D /\ B' = B /\ H' = H + n
    BY <1>1, <1>6 DEF D, B, H
  <1>9. ReadInv'
    BY <1>1, <1>2, <1>7 DEF ReadInv
  <1>10. D < MaxFrames
    BY <1>3, <1>5, FramesAssumption DEF FrameNo
  <1>11. received' - GetActiveSize(_readBuffer') = B' + H' + 0
    BY <1>1, <1>3, <1>4, <1>7, <1>8
  <1>12. CASE GetRemainingSpace(h) > 0
    <2>1. io' = "next" /\ _packetBuffer' = _packetBuffer
      BY <1>1, <1>12
    <2>2. H' < HeaderSize /\ n = a /\ P' = 0
      <3>1. H + n < HeaderSize
        BY <1>3, <1>4, <1>6, <1>12 DEF HeaderSize
      <3>2. n # HeaderSize - H
        BY <1>3, <3>1 DEF HeaderSize
      <3> QED BY <1>3, <1>4, <1>8, <2>1, <3>1, <3>2 DEF P
    <2>3. TypeOK'
      BY <1>1, <1>2, <1>6, <1>7, <2>1 DEF TypeOK
    <2>4. FrameInv'
      BY <1>1, <1>2, <1>3, <1>6, <1>8, <1>10, <1>11, <2>1, <2>2 DEF FrameInv
    <2>5. GetActiveSize(_readBuffer') = 0
      BY <1>3, <1>7, <2>2
    <2>6. PlaceInv'
      <3>1. H' # HeaderSize
        BY <1>3, <1>4, <1>8, <2>2 DEF HeaderSize
      <3> QED BY <2>1, <2>5, <3>1 DEF PlaceInv, Incomplete
    <2> QED BY <1>9, <2>3, <2>4, <2>6 DEF IInv
  <1>13. CASE GetRemainingSpace(h) = 0
    <2>1. H' = HeaderSize /\ H + n = HeaderSize
      BY <1>3, <1>4, <1>6, <1>8, <1>13 DEF HeaderSize
    <2>2. h.written = Header(f)
      <3>1. /\ Header(f) \in Seq(Nat) /\ Len(Header(f)) = HeaderSize
            /\ \A i \in 1..HeaderSize : Header(f)[i] = B + i
        BY <1>3, BytesFacts DEF Header, B, HeaderSize
      <3>2. h.written \in Seq(Nat) /\ Len(h.written) = HeaderSize
        BY <1>6, <2>1 DEF BufferOf
      <3>3. \A i \in 1..HeaderSize : h.written[i] = Header(f)[i]
        BY <1>6, <2>1, <3>1
      <3> QED BY <3>1, <3>2, <3>3, SeqEqual
    <2>3. PICK size \in uLen(h.written) : _packetBuffer' = Resize(_packetBuffer, size)
      BY <1>1, <1>13
    <2>4. size = Payload(f) /\ size \in Nat
      <3>1. size = Payload(f)
        BY <1>5, <2>2, <2>3 DEF uLen
      <3> QED BY <1>5, <3>1, FrameFacts
    <2>5. /\ _packetBuffer' \in BufferOf(Nat) /\ InBounds(_packetBuffer')
          /\ _packetBuffer'.size = Payload(f) /\ _packetBuffer'._rpos = 0
          /\ Len(_packetBuffer'.written) = 0
      <3>1. Len(_packetBuffer.written) = 0 /\ _packetBuffer._rpos = 0
        BY <1>2, <1>3 DEF FrameInv, P
      <3> QED BY <1>3, <2>3, <2>4, <3>1, ResizeFacts
    <2>6. P' = 0 /\ io' = "payload"
      BY <1>1, <1>6, <1>13, <2>5 DEF P
    <2>7. TypeOK'
      BY <1>1, <1>2, <1>6, <1>7, <2>5, <2>6 DEF TypeOK
    <2>8. FrameInv'
      BY <1>1, <1>2, <1>3, <1>6, <1>8, <1>10, <1>11, <2>1, <2>5, <2>6 DEF FrameInv
    <2>9. PlaceInv'
      BY <2>1, <2>6 DEF PlaceInv
    <2> QED BY <1>9, <2>7, <2>8, <2>9 DEF IInv
  <1> QED BY <1>1, <1>12, <1>13

LEMMA ReadPayloadIInv == ASSUME IInv, ReadPayload PROVE IInv'
  <1> DEFINE a == GetActiveSize(_readBuffer)
             n == Least(a, GetRemainingSpace(_packetBuffer))
             p == Write(_packetBuffer, ReadPointer(_readBuffer, n))
             f == D + 1
             frame == [header |-> _headerBuffer.written, payload |-> p.written]
  <1>1. /\ \/ io = "payload"
           \/ io = "loop" /\ a > 0 /\ GetRemainingSpace(_headerBuffer) = 0
        /\ _readBuffer' = ReadCompleted(_readBuffer, n)
        /\ \/ /\ GetRemainingSpace(p) > 0
              /\ _packetBuffer' = p /\ io' = "next"
              /\ UNCHANGED <<_headerBuffer, handled>>
           \/ /\ GetRemainingSpace(p) = 0
              /\ handled' = Append(handled, frame)
              /\ _packetBuffer' = Moved(p)
              /\ _headerBuffer' = Reset(_headerBuffer)
              /\ io' \in {"loop", "dead"}
        /\ UNCHANGED <<arrived, received, _closed, _closing>>
    BY DEF ReadPayload, flags
  <1>2. /\ TypeOK /\ ReadInv /\ FrameInv /\ PlaceInv
    BY DEF IInv
  <1>3. /\ a \in Nat /\ B \in Nat /\ D \in Nat /\ received \in Nat /\ P \in Nat
        /\ received = B + H + P + a
        /\ _headerBuffer \in BufferOf(Nat) /\ InBounds(_headerBuffer)
        /\ _packetBuffer \in BufferOf(Nat) /\ InBounds(_packetBuffer)
        /\ P <= _packetBuffer.size /\ GetRemainingSpace(_packetBuffer) = _packetBuffer.size - P
    BY StateFacts
  <1>4. H = HeaderSize /\ _packetBuffer.size = Payload(f)
    <2>1. CASE io = "payload"
      BY <1>2, <2>1 DEF PlaceInv, FrameInv
    <2>2. CASE io # "payload"
      <3>1. H \in Nat /\ HeaderSize - H = 0
        BY <1>1, <2>2, StateFacts
      <3> QED BY <1>2, <3>1 DEF HeaderSize, FrameInv
    <2> QED BY <2>1, <2>2
  <1>5. /\ f \in FrameNo
        /\ Payload(f) \in Nat /\ Begin[f + 1] = B + HeaderSize + Payload(f)
    <2>1. f \in FrameNo
      BY <1>4, MoreToCome DEF HeaderSize
    <2> QED BY <2>1, FrameFacts DEF B
  <1>6. /\ n \in Nat /\ n <= a /\ n <= Payload(f) - P
        /\ n = a \/ n = Payload(f) - P
    <2>1. Payload(f) - P \in Nat
      BY <1>3, <1>4, <1>5
    <2>2. n = Least(a, Payload(f) - P)
      BY <1>3, <1>4
    <2> HIDE DEF n, a
    <2> QED BY <1>3, <2>1, <2>2, LeastFacts
  <1>7. /\ p \in BufferOf(Nat) /\ InBounds(p)
        /\ p.size = Payload(f) /\ p._rpos = 0
        /\ Len(p.written) = P + n
        /\ \A i \in 1..P + n : p.written[i] = (B + HeaderSize) + i
        /\ GetRemainingSpace(p) = Payload(f) - (P + n)
    <2>1. /\ _packetBuffer._rpos = 0
          /\ \A i \in 1..Len(_packetBuffer.written) :
               _packetBuffer.written[i] = (B + HeaderSize) + i
          /\ Len(_packetBuffer.written) = P
      BY <1>2 DEF FrameInv, P
    <2>2. (B + HeaderSize) + Len(_packetBuffer.written) = B + H + P
      BY <1>3, <1>4, <2>1
    <2>3. n <= GetActiveSize(_readBuffer) /\ n <= GetRemainingSpace(_packetBuffer)
      BY <1>3, <1>4, <1>6
    <2> DEFINE base == B + HeaderSize
    <2>4. /\ base \in Nat /\ base + Len(_packetBuffer.written) = B + H + P
          /\ \A i \in 1..Len(_packetBuffer.written) : _packetBuffer.written[i] = base + i
      BY <1>3, <2>1, <2>2 DEF HeaderSize
    <2> HIDE DEF n, p, base
    <2>5. LET c == Write(_packetBuffer, ReadPointer(_readBuffer, n))
          IN /\ c \in BufferOf(Nat) /\ InBounds(c)
             /\ c.size = _packetBuffer.size /\ c._rpos = _packetBuffer._rpos
             /\ Len(c.written) = Len(_packetBuffer.written) + n
             /\ \A i \in 1..Len(_packetBuffer.written) + n :
                  c.written[i] = base + i
      BY <1>3, <1>6, <2>3, <2>4, TakeBytes
    <2> QED BY <1>4, <2>1, <2>5 DEF p, GetRemainingSpace, base
  <1>8. /\ _readBuffer' \in BufferOf(Nat) /\ InBounds(_readBuffer')
        /\ _readBuffer'.size = _readBuffer.size
        /\ _readBuffer'.written = _readBuffer.written
        /\ GetActiveSize(_readBuffer') = a - n
    BY <1>1, <1>6, NextBytes
  <1>9. ReadInv'
    BY <1>1, <1>2, <1>8 DEF ReadInv
  <1>10. D < MaxFrames /\ D + 1 <= MaxFrames
    BY <1>3, <1>5, FramesAssumption DEF FrameNo
  <1> HIDE DEF n, p, a
  <1>11. CASE GetRemainingSpace(p) > 0
    <2>1. io' = "next" /\ _packetBuffer' = p /\ UNCHANGED <<_headerBuffer, handled>>
      BY <1>1, <1>11
    <2>2. P + n < Payload(f) /\ n = a
      BY <1>3, <1>5, <1>6, <1>7, <1>11
    <2>3. D' = D /\ B' = B /\ H' = H /\ P' = P + n
      BY <1>7, <2>1 DEF D, B, H, P
    <2>4. TypeOK'
      BY <1>1, <1>2, <1>7, <1>8, <2>1 DEF TypeOK
    <2>5. received' - GetActiveSize(_readBuffer') = B' + H' + P'
      <3>1. H \in Nat
        BY <1>4 DEF HeaderSize
      <3> QED BY <1>1, <1>3, <1>6, <1>8, <2>3, <3>1
    <2>6. FrameInv'
      <3>1. H' = HeaderSize /\ ~(H' < HeaderSize)
        BY <1>4, <2>3 DEF HeaderSize
      <3>2. /\ _packetBuffer'._rpos = 0 /\ _packetBuffer'.size = Payload(D' + 1)
            /\ \A i \in 1..P' : _packetBuffer'.written[i] = (B' + HeaderSize) + i
        BY <1>7, <2>1, <2>3
      <3> QED BY <1>2, <1>10, <2>1, <2>3, <2>5, <3>1, <3>2 DEF FrameInv
    <2>7. GetActiveSize(_readBuffer') = 0
      BY <1>3, <1>8, <2>2
    <2>8. PlaceInv'
      BY <1>7, <2>1, <2>2, <2>3, <2>7 DEF PlaceInv, Incomplete
    <2> QED BY <1>9, <2>4, <2>6, <2>8 DEF IInv
  <1>12. CASE GetRemainingSpace(p) = 0
    <2>1. /\ handled' = Append(handled, frame)
          /\ _packetBuffer' = Moved(p)
          /\ _headerBuffer' = Reset(_headerBuffer)
          /\ io' \in {"loop", "dead"}
      BY <1>1, <1>12
    <2>2. P + n = Payload(f)
      BY <1>3, <1>5, <1>6, <1>7, <1>12
    <2>3. frame = Frame(f)
      <3>1. _headerBuffer.written = Header(f)
        <4>1. /\ Header(f) \in Seq(Nat) /\ Len(Header(f)) = HeaderSize
              /\ \A i \in 1..HeaderSize : Header(f)[i] = B + i
          BY <1>3, BytesFacts DEF Header, B, HeaderSize
        <4>2. _headerBuffer.written \in Seq(Nat) /\ Len(_headerBuffer.written) = HeaderSize
          BY <1>3, <1>4 DEF BufferOf, H
        <4>3. \A i \in 1..HeaderSize : _headerBuffer.written[i] = Header(f)[i]
          BY <1>2, <1>4, <4>1 DEF FrameInv
        <4> QED BY <4>1, <4>2, <4>3, SeqEqual
      <3>2. p.written = Bytes(B + HeaderSize, Payload(f))
        <4> DEFINE s == Bytes(B + HeaderSize, Payload(f))
        <4>1. B + HeaderSize \in Nat
          BY <1>3 DEF HeaderSize
        <4>2. s \in Seq(Nat) /\ Len(s) = Payload(f)
              /\ \A i \in 1..Payload(f) : s[i] = (B + HeaderSize) + i
          BY <1>5, <4>1, BytesFacts
        <4>3. p.written \in Seq(Nat) /\ Len(p.written) = Payload(f)
              /\ \A i \in 1..Payload(f) : p.written[i] = (B + HeaderSize) + i
          BY <1>7, <2>2 DEF BufferOf
        <4> HIDE DEF s
        <4>4. p.written = s
          BY <4>2, <4>3, SeqEqual
        <4> QED BY <4>4 DEF s
      <3> QED BY <3>1, <3>2 DEF Frame, B
    <2>4. /\ handled' \in Seq([header : Seq(Nat), payload : Seq(Nat)])
          /\ Len(handled') = D + 1
          /\ \A k \in 1..D : handled'[k] = handled[k]
          /\ handled'[D + 1] = Frame(f)
      <3>1. frame \in [header : Seq(Nat), payload : Seq(Nat)]
        BY <1>3, <1>7 DEF BufferOf
      <3>2. handled \in Seq([header : Seq(Nat), payload : Seq(Nat)])
        BY <1>2 DEF TypeOK
      <3> HIDE DEF frame
      <3> QED BY <2>1, <2>3, <3>1, <3>2, AppendProperties DEF D
    <2>5. /\ Fresh(_packetBuffer', 0) /\ Fresh(_headerBuffer', HeaderSize)
      <3>1. Fresh(_packetBuffer', 0)
        BY <2>1, NewFacts DEF Moved, Fresh
      <3>2. Fresh(_headerBuffer', _headerBuffer.size)
        BY <1>3, <2>1, ResetFacts
      <3> QED BY <1>2, <3>1, <3>2 DEF FrameInv
    <2>6. D' = D + 1 /\ H' = 0 /\ P' = 0
      BY <2>4, <2>5 DEF D, H, P, Fresh
    <2>7. B' = B + HeaderSize + Payload(f)
      <3>1. B' = Begin[(D + 1) + 1]
        BY <2>6 DEF B
      <3> QED BY <1>5, <3>1
    <2>8. TypeOK'
      BY <1>1, <1>2, <1>8, <2>1, <2>4, <2>5 DEF TypeOK, Fresh
    <2>9. received' - GetActiveSize(_readBuffer') = B' + H' + P'
      <3>1. H \in Nat /\ H = HeaderSize
        BY <1>4 DEF HeaderSize
      <3>2. received - (a - n) = B + H + (P + n)
        BY <1>3, <1>6, <3>1
      <3>3. received - (a - n) = B'
        BY <2>2, <2>7, <3>1, <3>2
      <3>4. B' + H' + P' = B'
        BY <1>3, <1>5, <2>6, <2>7, <3>1
      <3> QED BY <1>1, <1>8, <3>3, <3>4
    <2>10. \A k \in 1..D' : handled'[k] = Frame(k)
      <3>1. \A k \in 1..D : handled'[k] = Frame(k)
        BY <1>2, <2>4 DEF FrameInv
      <3>2. \A k \in 1..D' : k \in 1..D \/ k = D + 1
        BY <1>3, <2>6
      <3> QED BY <2>4, <3>1, <3>2
    <2>11. FrameInv'
      BY <1>10, <2>5, <2>6, <2>9, <2>10 DEF FrameInv, Fresh, HeaderSize
    <2>12. PlaceInv'
      BY <2>1, <2>6 DEF PlaceInv, Incomplete, HeaderSize
    <2> QED BY <1>9, <2>8, <2>11, <2>12 DEF IInv
  <1> QED BY <1>1, <1>11, <1>12

LEMMA AsyncReadIInv == ASSUME IInv, AsyncRead PROVE IInv'
  <1>1. CASE io' = "idle" /\ UNCHANGED _readBuffer
    <2>1. /\ UNCHANGED <<arrived, received, buffers, _closed, _closing, handled>>
      BY <1>1 DEF AsyncRead, flags, buffers
    <2>2. PlaceInv'
      BY <1>1 DEF PlaceInv
    <2>3. /\ arrived' \in Nat /\ arrived <= arrived' /\ arrived' <= Begin[MaxFrames + 1]
          /\ _closed' \in BOOLEAN /\ _closing' \in BOOLEAN
      BY <2>1 DEF IInv, TypeOK, ReadInv
    <2> QED BY <1>1, <2>1, <2>2, <2>3, QuietIInv
  <1>2. CASE io' = "posted" /\ _readBuffer' = EnsureFreeSpace(Normalize(_readBuffer))
    <2>1. /\ TypeOK /\ ReadInv /\ FrameInv /\ PlaceInv
      BY DEF IInv
    <2>2. /\ io = "next"
          /\ UNCHANGED <<arrived, received, _headerBuffer, _packetBuffer, _closed, _closing, handled>>
      BY DEF AsyncRead, flags
    <2>3. GetActiveSize(_readBuffer) = 0 /\ _readBuffer.size = READ_BLOCK_SIZE
      BY <2>1, <2>2 DEF PlaceInv, ReadInv
    <2>4. Fresh(_readBuffer', READ_BLOCK_SIZE)
      BY <1>2, <2>3, StateFacts, NormalizeFacts, BlockAssumption
    <2>5. D' = D /\ B' = B /\ H' = H /\ P' = P
      BY <2>2 DEF D, B, H, P
    <2>6. GetActiveSize(_readBuffer') = 0
      BY <2>4 DEF Fresh, GetActiveSize
    <2>7. TypeOK'
      BY <1>2, <2>1, <2>2, <2>4 DEF TypeOK, Fresh
    <2>8. ReadInv'
      BY <2>1, <2>2, <2>4 DEF ReadInv, Fresh
    <2>9. FrameInv'
      BY <2>1, <2>2, <2>3, <2>5, <2>6 DEF FrameInv
    <2>10. PlaceInv'
      BY <1>2, <2>1, <2>2, <2>4, <2>5 DEF PlaceInv, Incomplete, Fresh
    <2> QED BY <2>7, <2>8, <2>9, <2>10 DEF IInv
  <1> QED BY <1>1, <1>2 DEF AsyncRead

LEMMA NextIInv == IInv /\ [Next]_vars => IInv'
  <1> SUFFICES ASSUME IInv, [Next]_vars PROVE IInv'
    OBVIOUS
  <1>1. CASE Arrive
    BY <1>1, ArriveIInv
  <1>2. CASE ReadHandlerInternal
    BY <1>2, ReadHandlerInternalIInv
  <1>3. CASE ReadHandler
    BY <1>3, ReadHeaderIInv, ReadPayloadIInv, AsyncReadIInv, ControlIInv DEF ReadHandler
  <1>4. CASE ReadError \/ CloseSocket \/ DelayedCloseSocket
    BY <1>4, ControlIInv
  <1>5. CASE UNCHANGED vars
    <2>1. UNCHANGED <<arrived, received, buffers, io, _closed, _closing, handled>>
      BY <1>5 DEF vars, flags
    <2>2. PlaceInv'
      BY <2>1, PlaceUnchanged
    <2>3. /\ arrived' \in Nat /\ arrived <= arrived' /\ arrived' <= Begin[MaxFrames + 1]
          /\ io' \in {"posted", "loop", "payload", "next", "idle", "dead"}
          /\ _closed' \in BOOLEAN /\ _closing' \in BOOLEAN
      BY <2>1 DEF IInv, TypeOK, ReadInv
    <2> QED BY <2>1, <2>2, <2>3, QuietIInv
  <1> QED BY <1>1, <1>2, <1>3, <1>4, <1>5 DEF Next

LEMMA Invariance == Spec => []IInv
  BY InitIInv, NextIInv, PTL DEF Spec

-----------------------------------------------------------------------------
(* The three buffers keep their types and bounds: no size_t subtraction of *)
(* MessageBuffer wraps, whatever the frames, the block and the chunks.     *)
THEOREM TypeCorrect == Spec => []TypeOK
  <1>1. IInv => TypeOK
    BY DEF IInv
  <1> QED BY <1>1, Invariance, PTL

(* The two commented ASSERTs of ReadHandler hold.                          *)
THEOREM AllIsRead == Spec => []NothingUnread
  <1>1. IInv => NothingUnread
    BY DEF IInv, PlaceInv, NothingUnread
  <1> QED BY <1>1, Invariance, PTL

(* Every read offers the whole block, so the read buffer never grows.      *)
THEOREM ReadsOfAWholeBlock == Spec => []WholeBlockOffered
  <1>1. IInv => WholeBlockOffered
    <2> SUFFICES ASSUME IInv, io = "posted"
                 PROVE  GetRemainingSpace(_readBuffer) = READ_BLOCK_SIZE
      BY DEF WholeBlockOffered
    <2>1. Len(_readBuffer.written) = 0 /\ _readBuffer.size = READ_BLOCK_SIZE
      BY DEF IInv, PlaceInv, ReadInv
    <2> QED BY <2>1, BlockAssumption DEF GetRemainingSpace
  <1> QED BY <1>1, Invariance, PTL

(* No complete frame waits for bytes of the next one.                      *)
THEOREM NoFrameWaits == Spec => []PromptlyHandled
  <1>1. IInv => PromptlyHandled
    <2> SUFFICES ASSUME IInv, io = "posted", NEW f \in FrameNo, Begin[f + 1] <= received, D < f
                 PROVE  FALSE
      <3>1. ASSUME IInv PROVE Len(handled) \in Nat
        BY <3>1, StateFacts DEF D
      <3>2. \A k \in FrameNo : k \in Nat
        BY FrameFacts
      <3> QED BY <3>1, <3>2 DEF PromptlyHandled, D
    <2>1. /\ D \in Nat /\ B \in Nat /\ H \in Nat /\ P \in Nat /\ received \in Nat
          /\ H <= HeaderSize /\ P <= _packetBuffer.size
          /\ received = B + H + P
      <3>1. GetActiveSize(_readBuffer) = 0
        <4>1. /\ Len(_readBuffer.written) = 0
              /\ GetActiveSize(_readBuffer) = Len(_readBuffer.written) - _readBuffer._rpos
              /\ GetActiveSize(_readBuffer) \in Nat /\ _readBuffer._rpos \in Nat
          BY StateFacts DEF IInv, PlaceInv
        <4> QED BY <4>1
      <3> QED BY <3>1, StateFacts
    <2>2. D + 1 \in FrameNo /\ f + 1 \in 1..MaxFrames + 1 /\ D + 2 \in 1..MaxFrames + 1 /\ f \in Nat
      BY <2>1, FramesAssumption DEF FrameNo
    <2>3. Payload(D + 1) \in Nat /\ Begin[(D + 1) + 1] = B + HeaderSize + Payload(D + 1)
      BY <2>2, FrameFacts DEF B
    <2>4. received < Begin[D + 2]
      <3>1. Begin[D + 2] = B + HeaderSize + Payload(D + 1)
        BY <2>1, <2>3
      <3>2. CASE H = HeaderSize
        <4>1. P < Payload(D + 1)
          BY <3>2 DEF IInv, FrameInv, PlaceInv, Incomplete
        <4> QED BY <2>1, <2>3, <3>1, <3>2, <4>1 DEF HeaderSize
      <3>3. CASE H # HeaderSize
        <4>1. H < HeaderSize
          BY <2>1, <3>3 DEF HeaderSize
        <4>2. P = 0
          BY <4>1 DEF IInv, FrameInv
        <4> QED BY <2>1, <2>3, <3>1, <4>1, <4>2 DEF HeaderSize
      <3> QED BY <3>2, <3>3
    <2>5. Begin[D + 2] <= Begin[f + 1] /\ Begin[D + 2] \in Nat /\ Begin[f + 1] \in Nat
      <3>1. Begin[D + 2] \in Nat /\ Begin[f + 1] \in Nat
        BY <2>2, BeginAssumption
      <3>2. D + 2 < f + 1 => Begin[D + 2] + HeaderSize <= Begin[f + 1]
        BY <2>2, BeginAssumption
      <3>3. D + 2 = f + 1 \/ D + 2 < f + 1
        BY <2>1, <2>2
      <3> QED BY <3>1, <3>2, <3>3 DEF HeaderSize
    <2> QED BY <2>1, <2>4, <2>5
  <1> QED BY <1>1, Invariance, PTL

(* What ReadPayload hands over is the next frame, and all of it has        *)
(* arrived.                                                                *)
LEMMA HandsOverTheNextFrame ==
  ASSUME IInv, IInv', ReadPayload, handled' # handled
  PROVE  Stream!Handle
  <1>1. /\ \E x : handled' = Append(handled, x)
        /\ UNCHANGED <<arrived, received>>
    BY DEF ReadPayload
  <1>2. PICK x : handled' = Append(handled, x)
    BY <1>1
  <1>3. handled \in Seq([header : Seq(Nat), payload : Seq(Nat)]) /\ D \in Nat
    BY StateFacts DEF IInv, TypeOK
  <1>4. Len(handled') = D + 1 /\ handled'[D + 1] = x
    BY <1>2, <1>3 DEF D
  <1>5. /\ Len(handled') <= MaxFrames
        /\ \A f \in 1..Len(handled') : handled'[f] = Frame(f)
    BY DEF IInv, FrameInv, D
  <1>6. x = Frame(D + 1)
    <2>1. D + 1 \in 1..Len(handled')
      BY <1>3, <1>4
    <2> QED BY <1>4, <1>5, <2>1
  <1>7. D + 1 <= MaxFrames
    BY <1>4, <1>5
  <1>8. Begin[(D + 1) + 1] <= arrived
    <2>1. B' = Begin[(D + 1) + 1]
      BY <1>4 DEF B, D
    <2>2. (B \in Nat /\ H \in Nat /\ P \in Nat /\ GetActiveSize(_readBuffer) \in Nat
             /\ received \in Nat /\ arrived \in Nat /\ received <= arrived
             /\ received = B + H + P + GetActiveSize(_readBuffer))'
      BY StateFacts, PTL
    <2>3. B' <= received'
      BY <2>2
    <2>4. B' <= arrived'
      BY <2>2, <2>3
    <2> QED BY <1>1, <2>1, <2>4
  <1> QED BY <1>1, <1>2, <1>6, <1>7, <1>8 DEF Stream!Handle, D

(* A step of the read path is one of the stream, or none.                  *)
LEMMA StreamStep == ASSUME IInv, IInv', [Next]_vars PROVE [Stream!Next]_(Stream!vars)
  <1>1. CASE Arrive
    BY <1>1 DEF Arrive, Stream!Next, Stream!Arrive
  <1>2. CASE ReadPayload
    <2>1. CASE handled' = handled
      BY <1>2, <2>1 DEF ReadPayload, Stream!vars
    <2>2. CASE handled' # handled
      BY <1>2, <2>2, HandsOverTheNextFrame DEF Stream!Next
    <2> QED BY <2>1, <2>2
  <1>3. CASE \/ ReadHandlerInternal \/ LoopEnds \/ ReadHeader \/ AsyncRead \/ ReadError
             \/ CloseSocket \/ DelayedCloseSocket \/ UNCHANGED vars
    <2>1. UNCHANGED <<arrived, handled>>
      BY <1>3 DEF ReadHandlerInternal, LoopEnds, ReadHeader, ReadHeaderThen, AsyncRead,
                  ReadError, CloseSocket, DelayedCloseSocket, vars
    <2> QED BY <2>1 DEF Stream!vars
  <1> QED BY <1>1, <1>2, <1>3 DEF Next, ReadHandler

(* The read path implements the stream of whole frames in order.           *)
THEOREM StreamImplemented == Spec => ImplementsFrameStream
  <1>1. Init => Stream!Init
    BY DEF Init, Stream!Init
  <1>2. IInv /\ IInv' /\ [Next]_vars => [Stream!Next]_(Stream!vars)
    BY StreamStep
  <1> QED BY <1>1, <1>2, Invariance, PTL DEF Spec, ImplementsFrameStream, Stream!Spec
=============================================================================
