------------------------- MODULE Connection_proofs -------------------------
(***************************************************************************)
(* Theorems about Connection, for any packets and any block size.  The     *)
(* writing end keeps an invariant of its own, whatever the reader does, and*)
(* implements PacketPipe.  The refinement of PacketLink comes from the     *)
(* pipe of the one end and the stream of the other: what was handled has   *)
(* arrived, what has arrived was written, what was written was accepted.   *)
(***************************************************************************)
EXTENDS Connection, SequenceTheorems, TLAPS

(* The writing end.                                                        *)
Popped == accepted - Len(_writeQueue)

(* The queue holds the packets Popped + 1 .. accepted; only the front one  *)
(* may be partly written.                                                  *)
QueueInv == /\ Len(_writeQueue) <= accepted
            /\ \A i \in 1..Len(_writeQueue) : _writeQueue[i] = Popped + i
            /\ \A p \in Writer!Packet : p > Popped + 1 => _rpos[p] = 0
            /\ Len(_writeQueue) = 0 => \A p \in Writer!Packet : p = Popped + 1 => _rpos[p] = 0
            /\ \A p \in Writer!Packet : p = Popped + 1 => _rpos[p] < Size[p]

(* One thread at most writes or waits to write, and it has a packet.       *)
HolderInv == /\ holder # "none" => ~_isWritingAsync
             /\ holder # "none" \/ _isWritingAsync => Len(_writeQueue) # 0

(* While the connection stands, what was popped is on the wire.  Once it   *)
(* is broken or shut, packets may be dropped, and the wire does not move.  *)
WireInv == ~broken /\ ~_closed =>
             /\ sent = Popped
             /\ \A p \in Writer!Packet : p = Popped + 1 => part = _rpos[p]
             /\ Popped = MaxPackets => part = 0

WriterIInv == Writer!TypeOK /\ QueueInv /\ HolderInv /\ WireInv

-----------------------------------------------------------------------------
LEMMA SizeFacts == MaxPackets \in Nat /\ \A p \in Writer!Packet : Size[p] \in Nat /\ Size[p] > 0
  <1>1. MaxPackets \in Nat /\ \A p \in Writer!Packet : Size[p] \in 1..Writer!MessageBufferSize
    BY WriterAssumption DEF Writer!Constants
  <1>2. Writer!MessageBufferSize \in Nat
    BY DEF Writer!MessageBufferSize
  <1> QED BY <1>1, <1>2

LEMMA QueueFacts ==
  ASSUME Writer!TypeOK, QueueInv
  PROVE  /\ Len(_writeQueue) \in Nat /\ Popped \in 0..MaxPackets
         /\ _writeQueue = << >> <=> Len(_writeQueue) = 0
         /\ Len(_writeQueue) # 0 => /\ Head(_writeQueue) = Popped + 1
                                    /\ Popped + 1 \in Writer!Packet
                                    /\ Popped < accepted
  <1>1. /\ _writeQueue \in Seq(Writer!Packet) /\ accepted \in 0..MaxPackets
        /\ Len(_writeQueue) \in Nat
        /\ _writeQueue = << >> <=> Len(_writeQueue) = 0
    BY LenProperties, EmptySeq DEF Writer!TypeOK
  <1>2. Popped \in 0..MaxPackets
    BY <1>1, SizeFacts DEF QueueInv, Popped
  <1>3. ASSUME Len(_writeQueue) # 0
        PROVE  /\ Head(_writeQueue) = Popped + 1 /\ Popped + 1 \in Writer!Packet
               /\ Popped < accepted
    <2>1. Head(_writeQueue) = _writeQueue[1] /\ Head(_writeQueue) \in Writer!Packet
      BY <1>1, <1>3, HeadTailProperties
    <2>2. _writeQueue[1] = Popped + 1
      BY <1>1, <1>3 DEF QueueInv
    <2>3. Popped < accepted
      BY <1>1, <1>3, SizeFacts DEF Popped
    <2> QED BY <2>1, <2>2, <2>3
  <1> QED BY <1>1, <1>2, <1>3

LEMMA WriterInit == ASSUME Writer!Init PROVE WriterIInv
  <1>1. /\ _writeQueue = << >> /\ _rpos = [p \in Writer!Packet |-> 0]
        /\ _isWritingAsync = FALSE /\ holder = "none" /\ _closed = FALSE /\ _closing = FALSE
        /\ broken = FALSE /\ accepted = 0 /\ sent = 0 /\ part = 0
    BY DEF Writer!Init
  <1>2. Len(_writeQueue) = 0 /\ Popped = 0
    <2>1. Len(_writeQueue) = 0
      BY <1>1, EmptySeq
    <2>2. accepted = 0
      BY <1>1
    <2> QED BY <2>1, <2>2 DEF Popped
  <1>3. Writer!TypeOK
    <2>1. _writeQueue \in Seq(Writer!Packet) /\ _rpos \in [Writer!Packet -> Nat]
      BY <1>1, EmptySeq
    <2>2. 0 \in 0..MaxPackets
      BY SizeFacts
    <2> QED BY <1>1, <2>1, <2>2 DEF Writer!TypeOK
  <1>4. QueueInv
    <2>1. \A p \in Writer!Packet : _rpos[p] = 0 /\ _rpos[p] < Size[p]
      BY <1>1, SizeFacts
    <2> QED BY <1>1, <1>2, <2>1 DEF QueueInv
  <1>5. HolderInv /\ WireInv
    <2>1. HolderInv
      BY <1>1 DEF HolderInv
    <2>2. \A p \in Writer!Packet : _rpos[p] = 0
      BY <1>1
    <2>3. WireInv
      BY <1>1, <1>2, <2>2 DEF WireInv
    <2> QED BY <2>1, <2>3
  <1> QED BY <1>3, <1>4, <1>5 DEF WriterIInv

-----------------------------------------------------------------------------
(* A packet that is pushed comes last.                                     *)
LEMMA SendIInv == ASSUME WriterIInv, Writer!SendPacket PROVE WriterIInv'
  <1> DEFINE q == _writeQueue
  <1>1. /\ accepted < MaxPackets /\ accepted' = accepted + 1
        /\ q' = Append(q, accepted + 1) /\ holder = "none" /\ holder' = "none"
        /\ UNCHANGED <<_rpos, _isWritingAsync, _closed, _closing, broken, sent, part>>
    BY DEF Writer!SendPacket, Writer!flags, Writer!wireVars
  <1>2. /\ q \in Seq(Writer!Packet) /\ accepted \in 0..MaxPackets /\ MaxPackets \in Nat
        /\ Len(q) \in Nat /\ Popped \in 0..MaxPackets
    BY SizeFacts, QueueFacts DEF WriterIInv, Writer!TypeOK
  <1>3. accepted + 1 \in Writer!Packet
    BY <1>1, <1>2 DEF Writer!Packet
  <1>4. /\ q' \in Seq(Writer!Packet) /\ Len(q') = Len(q) + 1
        /\ \A i \in 1..Len(q) : q'[i] = q[i]
        /\ q'[Len(q) + 1] = accepted + 1
    BY <1>1, <1>2, <1>3, AppendProperties
  <1>5. Popped' = Popped
    BY <1>1, <1>2, <1>4 DEF Popped
  <1>6. Writer!TypeOK'
    BY <1>1, <1>2, <1>4 DEF WriterIInv, Writer!TypeOK
  <1>7. QueueInv'
    <2>1. \A i \in 1..Len(q') : q'[i] = Popped' + i
      <3> SUFFICES ASSUME NEW i \in 1..Len(q') PROVE q'[i] = Popped' + i
        OBVIOUS
      <3>1. CASE i \in 1..Len(q)
        BY <3>1, <1>4, <1>5 DEF WriterIInv, QueueInv
      <3>2. CASE i = Len(q) + 1
        BY <3>2, <1>2, <1>4, <1>5 DEF Popped
      <3> QED BY <3>1, <3>2, <1>2, <1>4
    <2>2. Len(q') <= accepted' /\ Len(q') # 0
      BY <1>1, <1>2, <1>4 DEF WriterIInv, QueueInv
    <2>3. _rpos' = _rpos
      BY <1>1
    <2> QED BY <1>5, <2>1, <2>2, <2>3 DEF WriterIInv, QueueInv
  <1>8. HolderInv'
    BY <1>1, <1>2, <1>4 DEF WriterIInv, HolderInv
  <1>9. WireInv'
    BY <1>1, <1>5 DEF WriterIInv, WireInv
  <1> QED BY <1>6, <1>7, <1>8, <1>9 DEF WriterIInv

(* Pop(FALSE), whoever holds the lock: the front packet goes, the lock too.*)
LEMMA PopFacts ==
  ASSUME WriterIInv, Len(_writeQueue) # 0, accepted' = accepted, _rpos' = _rpos,
         _writeQueue' = Tail(_writeQueue)
  PROVE  /\ QueueInv' /\ Popped' = Popped + 1
         /\ _writeQueue' \in Seq(Writer!Packet) /\ Len(_writeQueue') = Len(_writeQueue) - 1
         /\ _writeQueue' = << >> <=> Len(_writeQueue') = 0
  <1> DEFINE q == _writeQueue
  <1>1. /\ q \in Seq(Writer!Packet) /\ Len(q) \in Nat /\ accepted \in Nat /\ MaxPackets \in Nat
        /\ Len(q) <= accepted /\ q # << >> /\ Popped \in Nat
    BY SizeFacts, QueueFacts DEF WriterIInv, Writer!TypeOK, QueueInv
  <1>2. /\ q' \in Seq(Writer!Packet) /\ Len(q') = Len(q) - 1
        /\ \A i \in 1..Len(q') : q'[i] = q[i + 1]
    BY <1>1, HeadTailProperties
  <1>3. q' = << >> <=> Len(q') = 0
    BY <1>2, EmptySeq
  <1>4. Popped' = Popped + 1
    BY <1>1, <1>2 DEF Popped
  <1>5. \A i \in 1..Len(q') : q'[i] = Popped' + i
    <2> SUFFICES ASSUME NEW i \in 1..Len(q') PROVE q'[i] = Popped' + i
      OBVIOUS
    <2>1. i + 1 \in 1..Len(q) /\ q'[i] = q[i + 1]
      BY <1>1, <1>2
    <2>2. q[i + 1] = Popped + (i + 1)
      BY <2>1 DEF WriterIInv, QueueInv
    <2> QED BY <1>1, <1>4, <2>1, <2>2
  <1>6. \A p \in Writer!Packet : p >= Popped' + 1 => _rpos'[p] = 0 /\ _rpos'[p] < Size[p]
    <2> SUFFICES ASSUME NEW p \in Writer!Packet, p >= Popped' + 1
                 PROVE  _rpos'[p] = 0 /\ _rpos'[p] < Size[p]
      OBVIOUS
    <2>1. p > Popped + 1
      BY <1>1, <1>4 DEF Writer!Packet
    <2> QED BY <2>1, SizeFacts DEF WriterIInv, QueueInv
  <1>7. QueueInv'
    <2>1. Len(q') <= accepted'
      BY <1>1, <1>2
    <2>2. \A p \in Writer!Packet : p > Popped' + 1 => _rpos'[p] = 0
      BY <1>1, <1>4, <1>6 DEF Writer!Packet
    <2>3. \A p \in Writer!Packet : p = Popped' + 1 => _rpos'[p] = 0 /\ _rpos'[p] < Size[p]
      BY <1>1, <1>4, <1>6 DEF Writer!Packet
    <2> QED BY <1>5, <2>1, <2>2, <2>3 DEF QueueInv
  <1> QED BY <1>2, <1>3, <1>4, <1>7

(* A packet that was lost to a failed write: the wire does not move again. *)
LEMMA FailedIInv == ASSUME WriterIInv, Writer!Failed PROVE WriterIInv'
  <1>1. /\ holder # "none"
        /\ broken \/ _closed
        /\ _writeQueue' = Tail(_writeQueue) /\ holder' = "none"
        /\ UNCHANGED <<_rpos, _isWritingAsync, _closed, _closing, broken, accepted, sent, part>>
    BY DEF Writer!Failed, Writer!Pop, Writer!flags, Writer!wireVars
  <1>2. Len(_writeQueue) # 0 /\ ~_isWritingAsync
    BY <1>1 DEF WriterIInv, HolderInv
  <1>3. QueueInv' /\ _writeQueue' \in Seq(Writer!Packet)
    BY <1>1, <1>2, PopFacts
  <1>4. Writer!TypeOK'
    BY <1>1, <1>3 DEF WriterIInv, Writer!TypeOK
  <1>5. HolderInv' /\ WireInv'
    BY <1>1, <1>2 DEF HolderInv, WireInv
  <1> QED BY <1>3, <1>4, <1>5 DEF WriterIInv

LEMMA WriteSomeFacts ==
  ASSUME WriterIInv, Writer!WriteSome
  PROVE  /\ Popped \in Nat /\ Popped + 1 \in Writer!Packet /\ Popped < accepted
         /\ sent = Popped /\ part = _rpos[Popped + 1]
         /\ _rpos[Popped + 1] \in Nat /\ Size[Popped + 1] \in Nat
         /\ holder # "none" /\ ~broken /\ ~_closed /\ ~_isWritingAsync
         /\ Len(_writeQueue) # 0 /\ Head(_writeQueue) = Popped + 1
         /\ \E n \in 1..(Size[Popped + 1] - _rpos[Popped + 1]) : Writer!Wrote(n)
         /\ UNCHANGED <<_closed, _closing, broken, accepted>>
  <1>1. /\ holder # "none" /\ ~broken /\ ~_closed /\ ~_isWritingAsync
        /\ Len(_writeQueue) # 0
        /\ UNCHANGED <<_closed, _closing, broken, accepted>>
    BY DEF Writer!WriteSome, WriterIInv, HolderInv, Writer!flags
  <1>2. /\ Head(_writeQueue) = Popped + 1 /\ Popped + 1 \in Writer!Packet
        /\ Popped < accepted /\ Popped \in Nat
    BY <1>1, QueueFacts DEF WriterIInv
  <1>3. \E n \in 1..(Size[Popped + 1] - _rpos[Popped + 1]) : Writer!Wrote(n)
    BY <1>2 DEF Writer!WriteSome
  <1>4. sent = Popped /\ part = _rpos[Popped + 1]
    BY <1>1, <1>2 DEF WriterIInv, WireInv
  <1>5. _rpos[Popped + 1] \in Nat /\ Size[Popped + 1] \in Nat
    BY <1>2, SizeFacts DEF WriterIInv, Writer!TypeOK
  <1> QED BY <1>1, <1>2, <1>3, <1>4, <1>5

(* The rest of the front packet was taken.                                 *)
LEMMA WroteAllIInv ==
  ASSUME WriterIInv, Writer!WriteSome, NEW front, front = Popped + 1,
         sent' = front, part' = 0, Writer!Pop(TRUE), UNCHANGED <<_rpos, _isWritingAsync>>
  PROVE  WriterIInv'
  <1>1. /\ Popped \in Nat /\ front \in Writer!Packet /\ holder # "none" /\ ~_isWritingAsync
        /\ Len(_writeQueue) # 0
        /\ UNCHANGED <<_closed, _closing, broken, accepted>>
    BY WriteSomeFacts
  <1>2. _writeQueue' = Tail(_writeQueue) /\ _rpos' = _rpos /\ accepted' = accepted
    BY <1>1 DEF Writer!Pop
  <1>3. /\ QueueInv' /\ Popped' = front /\ _writeQueue' \in Seq(Writer!Packet)
        /\ _writeQueue' = << >> <=> Len(_writeQueue') = 0
    BY <1>1, <1>2, PopFacts
  <1>4. /\ holder' \in {"none", "Update"}
        /\ holder' # "none" => _writeQueue' # << >>
    BY <1>2 DEF Writer!Pop
  <1>5. Writer!TypeOK'
    <2>1. sent' \in 0..MaxPackets /\ part' \in Nat
      BY <1>1, SizeFacts DEF Writer!Packet
    <2> QED BY <1>1, <1>2, <1>3, <1>4, <2>1 DEF WriterIInv, Writer!TypeOK
  <1>6. HolderInv'
    BY <1>1, <1>3, <1>4 DEF HolderInv
  <1>7. WireInv'
    <2> SUFFICES ASSUME NEW p \in Writer!Packet, p = Popped' + 1 PROVE _rpos'[p] = 0
      BY <1>3 DEF WireInv
    <2>1. p > Popped + 1
      BY <1>1, <1>3
    <2> QED BY <1>2, <2>1 DEF WriterIInv, QueueInv
  <1> QED BY <1>3, <1>5, <1>6, <1>7 DEF WriterIInv

(* A part of it was taken, and somebody waits for the socket.              *)
LEMMA WrotePartIInv ==
  ASSUME WriterIInv, Writer!WriteSome, NEW front, front = Popped + 1,
         NEW n \in 1..(Size[front] - _rpos[front]), n < Size[front] - _rpos[front],
         _rpos' = [_rpos EXCEPT ![front] = @ + n],
         sent' = front - 1, part' = _rpos[front] + n,
         _isWritingAsync' = TRUE, holder' = "none", _writeQueue' = _writeQueue
  PROVE  WriterIInv'
  <1>1. /\ Popped \in Nat /\ front \in Writer!Packet /\ Len(_writeQueue) # 0
        /\ _rpos[front] \in Nat /\ Size[front] \in Nat
        /\ sent = Popped
        /\ UNCHANGED <<_closed, _closing, broken, accepted>>
    BY WriteSomeFacts
  <1>2. Popped' = Popped
    BY <1>1 DEF Popped
  <1>3. /\ _rpos' \in [Writer!Packet -> Nat] /\ _rpos'[front] = _rpos[front] + n
        /\ _rpos'[front] < Size[front]
        /\ \A p \in Writer!Packet : p # front => _rpos'[p] = _rpos[p]
    <2>1. _rpos \in [Writer!Packet -> Nat] /\ n \in Nat
      BY <1>1 DEF WriterIInv, Writer!TypeOK
    <2> QED BY <1>1, <2>1
  <1>4. sent' = sent /\ part' \in Nat
    BY <1>1
  <1>5. Writer!TypeOK'
    BY <1>1, <1>3, <1>4 DEF WriterIInv, Writer!TypeOK
  <1>6. QueueInv'
    <2>1. \A p \in Writer!Packet : p > Popped' + 1 => _rpos'[p] = 0
      BY <1>1, <1>2, <1>3 DEF WriterIInv, QueueInv, Writer!Packet
    <2>2. \A p \in Writer!Packet : p = Popped' + 1 => _rpos'[p] < Size[p]
      BY <1>2, <1>3
    <2> QED BY <1>1, <1>2, <2>1, <2>2 DEF WriterIInv, QueueInv
  <1>7. HolderInv'
    BY <1>1 DEF HolderInv
  <1>8. WireInv'
    <2>1. Popped + 1 <= MaxPackets /\ MaxPackets \in Nat
      BY <1>1, SizeFacts DEF Writer!Packet
    <2> QED BY <1>1, <1>2, <1>3, <1>4, <2>1 DEF WireInv
  <1> QED BY <1>5, <1>6, <1>7, <1>8 DEF WriterIInv

LEMMA WriteSomeIInv == ASSUME WriterIInv, Writer!WriteSome PROVE WriterIInv'
  <1>1. PICK n \in 1..(Size[Popped + 1] - _rpos[Popped + 1]) : Writer!Wrote(n)
    BY WriteSomeFacts
  <1>2. /\ Head(_writeQueue) = Popped + 1 /\ _rpos[Popped + 1] \in Nat
        /\ Size[Popped + 1] \in Nat /\ n \in Nat
    BY <1>1, WriteSomeFacts
  <1>3. CASE n = Size[Popped + 1] - _rpos[Popped + 1]
    <2>1. sent' = Popped + 1 /\ part' = 0 /\ Writer!Pop(TRUE) /\ UNCHANGED <<_rpos, _isWritingAsync>>
      <3> DEFINE rest == Size[Popped + 1] - _rpos[Popped + 1]
      <3>1. ~(n < rest)
        BY <1>2, <1>3
      <3>2. \/ sent' = Popped + 1 /\ part' = 0 /\ Writer!Pop(TRUE) /\ UNCHANGED <<_rpos, _isWritingAsync>>
            \/ n < rest
        BY <1>1, <1>2, Zenon DEF Writer!Wrote
      <3> QED BY <3>1, <3>2
    <2> QED BY <2>1, WroteAllIInv
  <1>4. CASE n < Size[Popped + 1] - _rpos[Popped + 1]
    <2>1. /\ _rpos' = [_rpos EXCEPT ![Popped + 1] = @ + n]
          /\ sent' = (Popped + 1) - 1 /\ part' = _rpos[Popped + 1] + n
          /\ _isWritingAsync' = TRUE /\ holder' = "none" /\ _writeQueue' = _writeQueue
      <3> DEFINE rest == Size[Popped + 1] - _rpos[Popped + 1]
      <3>1. n # rest
        BY <1>2, <1>4
      <3> QED BY <1>1, <1>2, <3>1, Zenon DEF Writer!Wrote
    <2> QED BY <1>1, <1>4, <2>1, WrotePartIInv
  <1>5. n = Size[Popped + 1] - _rpos[Popped + 1] \/ n < Size[Popped + 1] - _rpos[Popped + 1]
    BY <1>1, WriteSomeFacts
  <1> QED BY <1>3, <1>4, <1>5

-----------------------------------------------------------------------------
(* Steps that leave the queue and the wire alone.                          *)
queueVars == <<_writeQueue, _rpos, accepted, sent, part>>

LEMMA AsideIInv ==
  ASSUME WriterIInv, UNCHANGED queueVars, HolderInv', holder' \in {"none", "Update", "WriteHandlerWrapper"},
         _isWritingAsync' \in BOOLEAN, _closed' \in BOOLEAN, _closing' \in BOOLEAN, broken' \in BOOLEAN,
         _closed => _closed', broken => broken'
  PROVE  WriterIInv'
  <1>1. Writer!TypeOK' /\ QueueInv' /\ Popped' = Popped
    BY DEF WriterIInv, Writer!TypeOK, QueueInv, Popped, queueVars
  <1>2. WireInv'
    BY <1>1 DEF WriterIInv, WireInv, queueVars
  <1> QED BY <1>1, <1>2 DEF WriterIInv

LEMMA WriterNext == WriterIInv /\ [Writer!Next]_(Writer!vars) => WriterIInv'
  <1> SUFFICES ASSUME WriterIInv, [Writer!Next]_(Writer!vars) PROVE WriterIInv'
    OBVIOUS
  <1>0. /\ _isWritingAsync \in BOOLEAN /\ _closed \in BOOLEAN /\ _closing \in BOOLEAN
        /\ broken \in BOOLEAN /\ holder \in {"none", "Update", "WriteHandlerWrapper"}
        /\ holder # "none" => ~_isWritingAsync
        /\ holder # "none" \/ _isWritingAsync => Len(_writeQueue) # 0
        /\ _writeQueue = << >> <=> Len(_writeQueue) = 0
    BY QueueFacts DEF WriterIInv, Writer!TypeOK, HolderInv
  <1>1. CASE Writer!SendPacket
    BY <1>1, SendIInv
  <1>2. CASE Writer!Update
    <2>1. /\ holder' = "Update" /\ _writeQueue # << >> /\ ~_isWritingAsync
          /\ UNCHANGED <<queueVars, _isWritingAsync, _closed, _closing, broken>>
      BY <1>2 DEF Writer!Update, queueVars, Writer!flags, Writer!wireVars
    <2>2. HolderInv'
      BY <1>0, <2>1 DEF HolderInv, queueVars
    <2> QED BY <1>0, <2>1, <2>2, AsideIInv
  <1>3. CASE Writer!WriteHandlerWrapper
    <2>1. /\ holder' \in {"none", "WriteHandlerWrapper"} /\ _isWritingAsync /\ ~_isWritingAsync'
          /\ _isWritingAsync' \in BOOLEAN
          /\ UNCHANGED <<queueVars, _closed, _closing, broken>>
      BY <1>3 DEF Writer!WriteHandlerWrapper, queueVars, Writer!flags, Writer!wireVars
    <2>2. HolderInv'
      BY <1>0, <2>1 DEF HolderInv, queueVars
    <2> QED BY <1>0, <2>1, <2>2, AsideIInv
  <1>4. CASE Writer!Failed
    BY <1>4, FailedIInv
  <1>5. CASE Writer!WouldBlock
    <2>1. /\ holder # "none" /\ holder' = "none" /\ _isWritingAsync'
          /\ _isWritingAsync' \in BOOLEAN
          /\ UNCHANGED <<queueVars, _closed, _closing, broken>>
      BY <1>5 DEF Writer!WouldBlock, queueVars, Writer!flags, Writer!wireVars
    <2>2. HolderInv'
      BY <1>0, <2>1 DEF HolderInv, queueVars
    <2> QED BY <1>0, <2>1, <2>2, AsideIInv
  <1>6. CASE Writer!WriteSome
    BY <1>6, WriteSomeIInv
  <1>7. CASE Writer!ReadError \/ Writer!DelayedCloseSocket \/ Writer!Break \/ UNCHANGED Writer!vars
    <2>1. /\ UNCHANGED <<queueVars, holder, _isWritingAsync>>
          /\ _closed' \in BOOLEAN /\ _closing' \in BOOLEAN /\ broken' \in BOOLEAN
          /\ _closed => _closed'
          /\ broken => broken'
      BY <1>0, <1>7 DEF Writer!ReadError, Writer!DelayedCloseSocket, Writer!Break, Writer!vars,
                        queueVars, Writer!flags, Writer!wireVars
    <2>2. HolderInv'
      BY <1>0, <2>1 DEF HolderInv, queueVars
    <2>3. _isWritingAsync' \in BOOLEAN /\ holder' \in {"none", "Update", "WriteHandlerWrapper"}
      BY <1>0, <2>1
    <2> QED BY <2>1, <2>2, <2>3, AsideIInv
  <1> QED BY <1>1, <1>2, <1>3, <1>4, <1>5, <1>6, <1>7 DEF Writer!Next, Writer!HandleQueue

(* Every step of the connection is one of the writer or leaves it alone.   *)
LEMMA WriterStep == [Next]_vars => [Writer!Next]_(Writer!vars)
  BY DEF Next, WriterSteps, Arrive, ReaderSteps, vars, writerVars,
         Writer!vars, Writer!flags, Writer!wireVars

LEMMA WriterInvariance == Spec => []WriterIInv
  <1>1. Init => WriterIInv
    BY WriterInit DEF Init
  <1>2. WriterIInv /\ [Next]_vars => WriterIInv'
    BY WriterStep, WriterNext
  <1> QED BY <1>1, <1>2, PTL DEF Spec

-----------------------------------------------------------------------------
(* Whoever writes or waits to write has a packet to write, also while the  *)
(* reader at the other end reads, fails and closes.                        *)
THEOREM WriterHasPacket == Spec => []HasPacket
  <1>1. WriterIInv => HasPacket
    BY QueueFacts DEF WriterIInv, HolderInv, HasPacket, Writer!HasPacket
  <1> QED BY <1>1, WriterInvariance, PTL

(* A step of the polled socket is one of the pipe, or none.                *)
LEMMA PipeStep == ASSUME WriterIInv, [Writer!Next]_(Writer!vars)
                  PROVE  [Writer!Pipe!Next]_(Writer!Pipe!vars)
  <1>1. CASE Writer!SendPacket
    BY <1>1 DEF Writer!SendPacket, Writer!flags, Writer!wireVars, Writer!Pipe!Next, Writer!Pipe!Accept
  <1>2. CASE Writer!WriteSome
    <2>1. PICK n \in 1..(Size[Popped + 1] - _rpos[Popped + 1]) : Writer!Wrote(n)
      BY <1>2, WriteSomeFacts
    <2>2. /\ Head(_writeQueue) = Popped + 1 /\ Popped \in Nat
          /\ _rpos[Popped + 1] \in Nat /\ Size[Popped + 1] \in Nat /\ n \in Nat
          /\ sent = Popped /\ part = _rpos[Popped + 1]
          /\ sent < accepted /\ ~broken /\ ~_closed
          /\ UNCHANGED <<_closed, broken, accepted>>
      BY <1>2, <2>1, WriteSomeFacts
    <2>3. \/ n = Size[sent + 1] - part /\ sent' = sent + 1 /\ part' = 0
          \/ n < Size[sent + 1] - part /\ sent' = (sent + 1) - 1 /\ part' = part + n
      BY <2>1, <2>2, Zenon DEF Writer!Wrote
    <2>4. /\ n \in 1..(Size[sent + 1] - part)
          /\ IF part + n = Size[sent + 1]
             THEN sent' = sent + 1 /\ part' = 0
             ELSE sent' = sent /\ part' = part + n
      BY <2>1, <2>2, <2>3
    <2> QED BY <2>2, <2>4 DEF Writer!Pipe!Next, Writer!Pipe!Emit
  <1>3. CASE Writer!ReadError \/ Writer!Break
    BY <1>3 DEF Writer!ReadError, Writer!Break, Writer!flags, Writer!wireVars,
                Writer!Pipe!Next, Writer!Pipe!Break
  <1>4. CASE Writer!Update \/ Writer!WriteHandlerWrapper \/ Writer!WouldBlock \/ Writer!DelayedCloseSocket
    BY <1>4 DEF Writer!Update, Writer!WriteHandlerWrapper, Writer!WouldBlock, Writer!DelayedCloseSocket,
                Writer!flags, Writer!wireVars, Writer!Pipe!vars
  <1>5. CASE Writer!Failed
    BY <1>5 DEF Writer!Failed, Writer!flags, Writer!wireVars, Writer!Pipe!vars
  <1>6. CASE UNCHANGED Writer!vars
    BY <1>6 DEF Writer!vars, Writer!flags, Writer!wireVars, Writer!Pipe!vars
  <1> QED BY <1>1, <1>2, <1>3, <1>4, <1>5, <1>6 DEF Writer!Next, Writer!HandleQueue

(* The writer's end of the connection implements the pipe of whole packets *)
(* in order, though it drops the packets whose writes fail.                *)
THEOREM PipeImplemented == Spec => ImplementsPacketPipe
  <1>1. Init => Writer!Pipe!Init
    BY DEF Init, Writer!Init, Writer!Pipe!Init
  <1>2. WriterIInv /\ [Next]_vars => [Writer!Pipe!Next]_(Writer!Pipe!vars)
    BY WriterStep, PipeStep
  <1> QED BY <1>1, <1>2, WriterInvariance, PTL
      DEF Spec, ImplementsPacketPipe, Writer!ImplementsPacketPipe, Writer!Pipe!Spec

-----------------------------------------------------------------------------
ReaderProofs == INSTANCE FrameReader_proofs
                  WITH MaxFrames <- MaxPackets, MayThrow <- {}, _closed <- peerClosed, _closing <- peerClosing

ReaderIInv == ReaderProofs!IInv

(* What FrameReader assumes of its constants.                              *)
LEMMA ReaderConstants ==
  /\ MaxPackets \in Nat
  /\ Begin \in [1..MaxPackets + 1 -> Nat] /\ Begin[1] = 0
  /\ \A f, g \in 1..MaxPackets + 1 : f < g => Begin[f] + ReaderProofs!HeaderSize <= Begin[g]
  /\ READ_BLOCK_SIZE \in Nat \ {0}
  BY PacketsAssumption, BeginAssumption, BlockAssumption DEF HeaderSize, ReaderProofs!HeaderSize

LEMMA ReaderInit == Init => ReaderIInv
  <1>1. Init => ReaderProofs!Init
    BY DEF Init, Reader!Init, ReaderProofs!Init, Reader!HeaderSize, ReaderProofs!HeaderSize,
           Reader!NewBuffer, ReaderProofs!NewBuffer
  <1> QED BY <1>1, ReaderConstants, ReaderProofs!InitIInv DEF ReaderIInv

(* Every step is one of the reader or leaves it alone.                     *)
LEMMA ReaderStep == [Next]_vars => [ReaderProofs!Next]_(ReaderProofs!vars)
  <1> SUFFICES ASSUME [Next]_vars PROVE [ReaderProofs!Next]_(ReaderProofs!vars)
    OBVIOUS
  <1>1. CASE Arrive
    BY <1>1 DEF Arrive, ReaderProofs!Next, Reader!Arrive, ReaderProofs!Arrive,
                Reader!buffers, ReaderProofs!buffers, Reader!flags, ReaderProofs!flags
  <1>2. CASE ReaderSteps
    <2>1. Reader!ReadHandlerInternal => ReaderProofs!ReadHandlerInternal
      BY DEF Reader!ReadHandlerInternal, ReaderProofs!ReadHandlerInternal,
             Reader!Least, ReaderProofs!Least, Reader!Bytes, ReaderProofs!Bytes,
             Reader!GetRemainingSpace, ReaderProofs!GetRemainingSpace,
             Reader!Write, ReaderProofs!Write,
             Reader!IsOpen, ReaderProofs!IsOpen, Reader!flags, ReaderProofs!flags
    <2>2. Reader!LoopEnds => ReaderProofs!LoopEnds
      BY DEF Reader!LoopEnds, ReaderProofs!LoopEnds, Reader!GetActiveSize, ReaderProofs!GetActiveSize,
             Reader!buffers, ReaderProofs!buffers, Reader!flags, ReaderProofs!flags
    <2>3. Reader!ReadHeader => ReaderProofs!ReadHeader
      BY DEF Reader!ReadHeader, ReaderProofs!ReadHeader, Reader!ReadHeaderThen,
             ReaderProofs!ReadHeaderThen, Reader!Least, ReaderProofs!Least,
             Reader!GetActiveSize, ReaderProofs!GetActiveSize, Reader!GetRemainingSpace,
             ReaderProofs!GetRemainingSpace, Reader!ReadPointer, ReaderProofs!ReadPointer,
             Reader!ReadCompleted, ReaderProofs!ReadCompleted, Reader!Write,
             ReaderProofs!Write, Reader!Resize, ReaderProofs!Resize, Reader!uLen,
             ReaderProofs!uLen, Reader!Payload, ReaderProofs!Payload, Reader!Header,
             ReaderProofs!Header, Reader!Bytes, ReaderProofs!Bytes, Reader!HeaderSize,
             ReaderProofs!HeaderSize, Reader!FrameNo, ReaderProofs!FrameNo, Reader!flags,
             ReaderProofs!flags
    <2>4. Reader!ReadPayload => ReaderProofs!ReadPayload
      BY DEF Reader!ReadPayload, ReaderProofs!ReadPayload, Reader!Least, ReaderProofs!Least,
             Reader!GetActiveSize, ReaderProofs!GetActiveSize, Reader!GetRemainingSpace,
             ReaderProofs!GetRemainingSpace, Reader!ReadPointer, ReaderProofs!ReadPointer,
             Reader!ReadCompleted, ReaderProofs!ReadCompleted, Reader!Write,
             ReaderProofs!Write, Reader!Moved, ReaderProofs!Moved, Reader!NewBuffer,
             ReaderProofs!NewBuffer, Reader!Reset, ReaderProofs!Reset, Reader!flags,
             ReaderProofs!flags
    <2>5. Reader!AsyncRead => ReaderProofs!AsyncRead
      BY DEF Reader!AsyncRead, ReaderProofs!AsyncRead, Reader!EnsureFreeSpace,
             ReaderProofs!EnsureFreeSpace, Reader!Normalize, ReaderProofs!Normalize,
             Reader!GetActiveSize, ReaderProofs!GetActiveSize, Reader!GetRemainingSpace,
             ReaderProofs!GetRemainingSpace, Reader!ReadPointer, ReaderProofs!ReadPointer,
             Reader!IsOpen, ReaderProofs!IsOpen, Reader!flags, ReaderProofs!flags
    <2>6. Reader!ReadError \/ Reader!CloseSocket => ReaderProofs!ReadError \/ ReaderProofs!CloseSocket
      BY DEF Reader!ReadError, ReaderProofs!ReadError, Reader!CloseSocket, ReaderProofs!CloseSocket,
             Reader!buffers, ReaderProofs!buffers, Reader!flags, ReaderProofs!flags
    <2> QED BY <1>2, <2>1, <2>2, <2>3, <2>4, <2>5, <2>6
            DEF ReaderSteps, Reader!ReadHandler, ReaderProofs!ReadHandler, ReaderProofs!Next
  <1>3. CASE WriterSteps \/ UNCHANGED vars
    BY <1>3 DEF WriterSteps, vars, readerVars, ReaderProofs!vars, ReaderProofs!buffers, ReaderProofs!flags
  <1> QED BY <1>1, <1>2, <1>3 DEF Next

LEMMA ReaderInvariance == Spec => []ReaderIInv
  <1>1. ReaderIInv /\ [Next]_vars => ReaderIInv'
    BY ReaderStep, ReaderConstants, ReaderProofs!NextIInv DEF ReaderIInv
  <1> QED BY <1>1, ReaderInit, PTL DEF Spec

(* Both ends keep their types together: the writer's packets are packets   *)
(* of the stream, and the reader's buffers are never written or read past  *)
(* their end (MessageBuffer.h), whatever TCP hands over.                   *)
THEOREM TypeCorrect == Spec => []TypeOK
  <1>1. WriterIInv => Writer!TypeOK
    BY DEF WriterIInv
  <1>2. ReaderIInv => Reader!TypeOK
    BY DEF ReaderIInv, ReaderProofs!IInv, ReaderProofs!TypeOK, Reader!TypeOK,
           ReaderProofs!BufferOf, Reader!BufferOf, ReaderProofs!InBounds, Reader!InBounds
  <1>3. WriterIInv /\ ReaderIInv => TypeOK
    BY <1>1, <1>2 DEF TypeOK
  <1> QED BY <1>3, WriterInvariance, ReaderInvariance, PTL

-----------------------------------------------------------------------------
(* What was written was accepted, and is a part of the next packet only;   *)
(* what has arrived was written.                                           *)
LinkInv == /\ accepted \in 0..MaxPackets /\ sent \in 0..accepted /\ part \in Nat
           /\ \A p \in Packet : p = sent + 1 => part < Size[p]
           /\ sent = MaxPackets => part = 0
           /\ arrived \in Nat /\ arrived <= Written
           /\ handled \in Seq([header : Seq(Nat), payload : Seq(Nat)])

PipeNext   == [Writer!Pipe!Next]_(Writer!Pipe!vars)
StreamNext == [ReaderProofs!Stream!Next]_(ReaderProofs!Stream!vars)

LEMMA PacketFacts ==
  ASSUME NEW p \in Packet
  PROVE  /\ p \in Nat /\ p + 1 \in 1..MaxPackets + 1 /\ Begin[p] \in Nat /\ Begin[p + 1] \in Nat
         /\ Size[p] = Begin[p + 1] - Begin[p] /\ Size[p] > 0
  <1>1. p \in 1..MaxPackets + 1 /\ p + 1 \in 1..MaxPackets + 1 /\ p < p + 1
    BY PacketsAssumption DEF Packet
  <1>2. Begin[p] \in Nat /\ Begin[p + 1] \in Nat /\ Begin[p] + HeaderSize <= Begin[p + 1]
    BY <1>1, BeginAssumption
  <1> QED BY <1>1, <1>2 DEF Size, HeaderSize

LEMMA LinkInit == Init => LinkInv
  <1> SUFFICES ASSUME Init PROVE LinkInv
    OBVIOUS
  <1>1. accepted = 0 /\ sent = 0 /\ part = 0 /\ arrived = 0 /\ handled = << >>
    BY DEF Init, Writer!Init, Reader!Init
  <1>2. Written = 0
    BY <1>1, BeginAssumption DEF Written
  <1>3. \A p \in Packet : part < Size[p]
    BY <1>1, PacketFacts
  <1> QED BY <1>1, <1>2, <1>3, PacketsAssumption DEF LinkInv

(* Emit writes a part of an accepted packet and moves the wire on.         *)
LEMMA EmitLinkInv ==
  ASSUME LinkInv, Writer!Pipe!Emit, UNCHANGED <<arrived, handled>> PROVE LinkInv'
  <1> DEFINE p == sent + 1
  <1>1. /\ sent < accepted /\ accepted' = accepted
        /\ \E n \in 1..(Size[p] - part) :
             IF part + n = Size[p] THEN sent' = p /\ part' = 0
                                   ELSE sent' = sent /\ part' = part + n
    BY DEF Writer!Pipe!Emit
  <1>2. p \in Packet /\ sent \in Nat /\ accepted \in Nat /\ MaxPackets \in Nat /\ part \in Nat
    BY <1>1, PacketsAssumption DEF LinkInv, Packet
  <1>3. /\ Begin[p] \in Nat /\ Begin[p + 1] \in Nat /\ Size[p] = Begin[p + 1] - Begin[p]
        /\ arrived <= Begin[p] + part
    BY <1>2, PacketFacts DEF LinkInv, Written
  <1>4. PICK n \in 1..(Size[p] - part) :
             IF part + n = Size[p] THEN sent' = p /\ part' = 0
                                   ELSE sent' = sent /\ part' = part + n
    BY <1>1
  <1>5. CASE part + n = Size[p]
    <2>1. sent' = p /\ part' = 0
      BY <1>4, <1>5
    <2>2. Written' = Begin[p + 1]
      BY <1>2, <1>3, <2>1 DEF Written
    <2>3. arrived' <= Written'
      BY <1>2, <1>3, <1>4, <1>5, <2>2 DEF LinkInv
    <2>4. \A q \in Packet : part' < Size[q]
      BY <2>1, PacketFacts
    <2>5. sent' \in 0..accepted'
      BY <1>1, <1>2, <2>1
    <2> QED BY <1>1, <2>1, <2>3, <2>4, <2>5 DEF LinkInv
  <1>6. CASE part + n # Size[p]
    <2>1. sent' = sent /\ part' = part + n
      BY <1>4, <1>6
    <2>2. part' \in Nat /\ part' < Size[p] /\ part' >= part
      BY <1>2, <1>3, <1>4, <1>6, <2>1
    <2>3. Written' = Begin[p] + part'
      BY <2>1 DEF Written
    <2>4. arrived' <= Written'
      BY <1>2, <1>3, <2>2, <2>3 DEF LinkInv
    <2>5. sent' # MaxPackets
      BY <1>1, <1>2, <2>1 DEF LinkInv
    <2>6. \A q \in Packet : q = sent' + 1 => part' < Size[q]
      BY <2>1, <2>2
    <2> QED BY <1>1, <2>1, <2>2, <2>4, <2>5, <2>6 DEF LinkInv
  <1> QED BY <1>5, <1>6

LEMMA LinkStep == ASSUME LinkInv, [Next]_vars, PipeNext, ReaderIInv' PROVE LinkInv'
  <1>0. arrived' \in Nat /\ handled' \in Seq([header : Seq(Nat), payload : Seq(Nat)])
    BY DEF ReaderIInv, ReaderProofs!IInv, ReaderProofs!TypeOK
  <1>1. CASE WriterSteps
    <2>1. UNCHANGED <<arrived, handled>>
      BY <1>1 DEF WriterSteps, readerVars
    <2>2. CASE Writer!Pipe!Emit
      BY <2>1, <2>2, EmitLinkInv
    <2>3. CASE Writer!Pipe!Accept
      BY <2>1, <2>3, PacketsAssumption DEF Writer!Pipe!Accept, LinkInv, Written
    <2>4. CASE Writer!Pipe!Break \/ UNCHANGED Writer!Pipe!vars
      BY <2>1, <2>4 DEF Writer!Pipe!Break, Writer!Pipe!vars, LinkInv, Written
    <2> QED BY <2>2, <2>3, <2>4 DEF PipeNext, Writer!Pipe!Next
  <1>2. CASE Arrive
    <2>1. arrived' <= Written /\ UNCHANGED <<accepted, sent, part>>
      BY <1>2 DEF Arrive, writerVars
    <2> QED BY <1>0, <2>1 DEF LinkInv, Written
  <1>3. CASE ReaderSteps \/ UNCHANGED vars
    <2>1. UNCHANGED <<accepted, sent, part, arrived>>
      BY <1>3 DEF ReaderSteps, writerVars, readerVars, vars, Reader!ReadHandlerInternal, Reader!ReadHandler,
                  Reader!LoopEnds, Reader!ReadHeader, Reader!ReadHeaderThen, Reader!ReadPayload,
                  Reader!AsyncRead, Reader!ReadError, Reader!CloseSocket
    <2> QED BY <1>0, <2>1 DEF LinkInv, Written
  <1> QED BY <1>1, <1>2, <1>3 DEF Next

LEMMA LinkInvariance == Spec => [](LinkInv /\ ReaderIInv /\ WriterIInv)
  <1>1. WriterIInv /\ [Next]_vars => PipeNext
    BY WriterStep, PipeStep DEF PipeNext
  <1>2. LinkInv /\ [Next]_vars /\ PipeNext /\ ReaderIInv' => LinkInv'
    BY LinkStep
  <1> QED BY <1>1, <1>2, LinkInit, WriterInvariance, ReaderInvariance, PTL DEF Spec

(* A frame that has arrived whole is one of a packet that was accepted.    *)
LEMMA HandledWasAccepted ==
  ASSUME LinkInv, NEW p \in Packet, Begin[p + 1] <= arrived PROVE p <= accepted
  <1>1. /\ sent \in Nat /\ accepted \in Nat /\ sent <= accepted /\ part \in Nat
        /\ MaxPackets \in Nat /\ accepted <= MaxPackets /\ p \in Nat /\ p <= MaxPackets
    BY PacketsAssumption DEF LinkInv, Packet
  <1>2. SUFFICES ASSUME p > sent PROVE FALSE
    BY <1>1
  <1>3. sent + 1 \in Packet
    BY <1>1, <1>2 DEF Packet
  <1>4. /\ Begin[sent + 1] \in Nat /\ Begin[(sent + 1) + 1] \in Nat
        /\ Size[sent + 1] = Begin[(sent + 1) + 1] - Begin[sent + 1]
        /\ Begin[p + 1] \in Nat /\ (sent + 1) + 1 \in 1..MaxPackets + 1 /\ p + 1 \in 1..MaxPackets + 1
    BY <1>3, PacketFacts
  <1>5. part < Size[sent + 1] /\ arrived \in Nat /\ arrived <= Begin[sent + 1] + part
    BY <1>3 DEF LinkInv, Written
  <1>6. Begin[(sent + 1) + 1] <= Begin[p + 1]
    <2>1. CASE p = sent + 1
      BY <2>1, <1>4
    <2>2. CASE p > sent + 1
      <3>1. (sent + 1) + 1 < p + 1
        BY <1>1, <2>2
      <3>2. Begin[(sent + 1) + 1] + HeaderSize <= Begin[p + 1]
        BY <1>4, <3>1, BeginAssumption
      <3> QED BY <1>4, <3>2 DEF HeaderSize
    <2> QED BY <1>1, <1>2, <2>1, <2>2
  <1> QED BY <1>1, <1>4, <1>5, <1>6

(* The connection delivers what SendPacket accepted at the one end to      *)
(* ReadDataHandler at the other: each packet once, whole, in order, and    *)
(* none that was not accepted, for any packets, however both ends cut the  *)
(* bytes, and whenever either of them fails or closes.                     *)
THEOREM LinkImplemented == Spec => ImplementsPacketLink
  <1>1. Init => Link!Init
    BY DEF Init, Writer!Init, Reader!Init, Link!Init
  <1>2. ASSUME LinkInv, [Next]_vars, PipeNext, StreamNext PROVE [Link!Next]_(Link!vars)
    <2>1. CASE WriterSteps
      <3>1. handled' = handled
        BY <2>1 DEF WriterSteps, readerVars
      <3> QED BY <1>2, <3>1 DEF PipeNext, Writer!Pipe!Next, Writer!Pipe!Accept, Writer!Pipe!Emit,
                Writer!Pipe!Break, Writer!Pipe!vars, Link!Next, Link!Accept, Link!vars
    <2>2. CASE Arrive \/ ReaderSteps \/ UNCHANGED vars
      <3>1. accepted' = accepted
        BY <2>2 DEF Arrive, ReaderSteps, writerVars, vars
      <3>2. CASE handled' = handled
        BY <3>1, <3>2 DEF Link!vars
      <3>3. CASE handled' # handled
        <4>1. ReaderProofs!Stream!Handle
          BY <1>2, <3>3 DEF StreamNext, ReaderProofs!Stream!Next, ReaderProofs!Stream!Arrive,
                            ReaderProofs!Stream!vars
        <4>2. /\ Len(handled) + 1 <= MaxPackets /\ Begin[(Len(handled) + 1) + 1] <= arrived
              /\ handled' = Append(handled, Reader!Frame(Len(handled) + 1))
          BY <4>1 DEF ReaderProofs!Stream!Handle, Reader!Frame, ReaderProofs!Frame,
               Reader!Header, ReaderProofs!Header, Reader!Bytes, ReaderProofs!Bytes,
               Reader!Payload, ReaderProofs!Payload, Reader!HeaderSize, ReaderProofs!HeaderSize
        <4>3. Len(handled) \in Nat /\ accepted \in Nat
          BY PacketsAssumption, <1>2 DEF LinkInv
        <4>4. Len(handled) + 1 \in Packet
          BY <4>2, <4>3, PacketsAssumption DEF Packet
        <4>5. Len(handled) + 1 <= accepted
          BY <1>2, <4>2, <4>4, HandledWasAccepted
        <4>6. Len(handled) < accepted
          BY <4>3, <4>5
        <4> QED BY <3>1, <4>2, <4>6 DEF Link!Next, Link!Handle
      <3> QED BY <3>2, <3>3
    <2> QED BY <1>2, <2>1, <2>2 DEF Next
  <1>3. WriterIInv /\ [Next]_vars => PipeNext
    BY WriterStep, PipeStep DEF PipeNext
  <1>4. ReaderIInv /\ ReaderIInv' /\ [Next]_vars => StreamNext
    BY ReaderStep, ReaderConstants, ReaderProofs!StreamStep DEF ReaderIInv, StreamNext
  <1>5. LinkInv /\ [Next]_vars /\ PipeNext /\ StreamNext => [Link!Next]_(Link!vars)
    BY <1>2
  <1> QED BY <1>1, <1>3, <1>4, <1>5, LinkInvariance, PTL DEF Spec, ImplementsPacketLink, Link!Spec
=============================================================================
