----------------------- MODULE SocketWriter_proofs ------------------------
(***************************************************************************)
(* Theorems about SocketWriter, for any number of packets of any sizes:    *)
(* its types, that a write always concerns the front of the queue, that no *)
(* packet is left behind, that the wire carries the packets in order, and  *)
(* the refinement of PacketPipe.                                           *)
(***************************************************************************)
EXTENDS SocketWriter, SequenceTheorems, TLAPS

Popped == accepted - Len(_writeQueue)

(* The queue holds the packets Popped + 1 .. accepted; only the front one  *)
(* may be partly read.                                                     *)
QueueInv == /\ Len(_writeQueue) <= accepted
            /\ \A i \in 1..Len(_writeQueue) : _writeQueue[i] = Popped + i
            /\ \A p \in Packet : p > Popped + 1 => _rpos[p] = 0
            /\ Len(_writeQueue) = 0 => \A p \in Packet : p = Popped + 1 => _rpos[p] = 0
            /\ \A p \in Packet : p = Popped + 1 => _rpos[p] < Size[p]

(* The write posted, if any, is the one of the front packet.               *)
OpInv == /\ Len(ops) + Len(done) <= 1
         /\ _isWritingAsync <=> Len(_writeQueue) # 0
         /\ Len(ops) + Len(done) = 1 => Len(_writeQueue) # 0
         /\ Len(_writeQueue) # 0 /\ Len(ops) + Len(done) = 0 => _closed
         /\ Len(ops) = 1 => /\ ops[1].id = Popped + 1
                            /\ ops[1].from = _rpos[Popped + 1]
                            /\ ops[1].len = Size[Popped + 1] - _rpos[Popped + 1]
         /\ Len(done) = 1 => IF done[1].ok THEN done[1].n \in 1..(Size[Popped + 1] - _rpos[Popped + 1])
                                           ELSE done[1].n = 0

(* Where the wire is: past what the completions run so far have read, and  *)
(* past the bytes of the completion that waits.                            *)
WireInv ==
  /\ inOrder
  /\ IF Len(done) = 1 /\ done[1].ok
     THEN IF _rpos[Popped + 1] + done[1].n = Size[Popped + 1]
          THEN sent = Popped + 1 /\ part = 0
          ELSE sent = Popped /\ part = _rpos[Popped + 1] + done[1].n
     ELSE sent = Popped /\ part = IF Len(_writeQueue) = 0 THEN 0 ELSE _rpos[Popped + 1]

IInv == TypeOK /\ QueueInv /\ OpInv /\ WireInv

-----------------------------------------------------------------------------
LEMMA SizeFacts == Size \in [Packet -> Nat \ {0}]
  <1>1. MessageBufferSize \in Nat
    BY DEF MessageBufferSize
  <1> QED BY <1>1, SizeAssumption

LEMMA QueueFacts ==
  ASSUME TypeOK, QueueInv
  PROVE  /\ Len(_writeQueue) \in Nat /\ Popped \in 0..MaxPackets
         /\ _writeQueue = << >> <=> Len(_writeQueue) = 0
         /\ Len(_writeQueue) # 0 => /\ Head(_writeQueue) = Popped + 1
                                    /\ Popped + 1 \in Packet
  <1>1. /\ _writeQueue \in Seq(Packet) /\ accepted \in 0..MaxPackets
        /\ Len(_writeQueue) \in Nat
        /\ _writeQueue = << >> <=> Len(_writeQueue) = 0
    BY LenProperties, EmptySeq DEF TypeOK
  <1>2. Popped \in 0..MaxPackets
    BY <1>1, PacketsAssumption DEF QueueInv, Popped
  <1>3. ASSUME Len(_writeQueue) # 0
        PROVE  Head(_writeQueue) = Popped + 1 /\ Popped + 1 \in Packet
    <2>1. Head(_writeQueue) = _writeQueue[1] /\ Head(_writeQueue) \in Packet
      BY <1>1, <1>3, HeadTailProperties
    <2>2. _writeQueue[1] = Popped + 1
      BY <1>1, <1>3 DEF QueueInv
    <2> QED BY <2>1, <2>2
  <1> QED BY <1>1, <1>2, <1>3

LEMMA InitIInv == Init => IInv
  <1> SUFFICES ASSUME Init PROVE IInv
    OBVIOUS
  <1>1. Len(_writeQueue) = 0 /\ Len(ops) = 0 /\ Len(done) = 0
    BY DEF Init
  <1>2. accepted = 0
    BY DEF Init
  <1>3. Popped = 0
    BY <1>1, <1>2 DEF Popped
  <1>4. TypeOK
    <2>1. _writeQueue \in Seq(Packet) /\ ops \in Seq(Op) /\ done \in Seq(Completion)
      BY DEF Init
    <2>2. _rpos \in [Packet -> Nat] /\ inOrder \in BOOLEAN /\ broken \in BOOLEAN
      BY DEF Init
    <2>3. /\ _isWritingAsync \in BOOLEAN /\ _closed \in BOOLEAN
          /\ _closing \in BOOLEAN /\ shut \in BOOLEAN
      BY DEF Init
    <2>4. accepted \in 0..MaxPackets /\ sent \in 0..MaxPackets /\ part \in Nat
      BY PacketsAssumption DEF Init
    <2> QED BY <2>1, <2>2, <2>3, <2>4 DEF TypeOK
  <1>5. QueueInv
    BY <1>1, <1>3, SizeFacts DEF Init, QueueInv, Packet
  <1>6. OpInv
    BY <1>1 DEF Init, OpInv
  <1>7. WireInv
    BY <1>1, <1>3 DEF Init, WireInv
  <1> QED BY <1>4, <1>5, <1>6, <1>7 DEF IInv

-----------------------------------------------------------------------------
(* The write that AsyncProcessQueue posts for packet p, the front.         *)
Posted(p) == [id |-> p, from |-> _rpos[p], len |-> Size[p] - _rpos[p], late |-> shut]

LEMMA SendIInv == ASSUME IInv, SendPacket PROVE IInv'
  <1> DEFINE p == accepted + 1
  <1>1. /\ TypeOK /\ QueueInv /\ OpInv /\ WireInv
        /\ accepted \in 0..MaxPackets /\ accepted < MaxPackets /\ p \in Packet
        /\ _writeQueue \in Seq(Packet)
    BY PacketsAssumption DEF IInv, TypeOK, SendPacket, Packet
  <1>2. /\ accepted' = p /\ _writeQueue' = Append(_writeQueue, p) /\ _isWritingAsync' = TRUE
        /\ UNCHANGED <<_rpos, _closed, _closing, shut, done, broken, sent, part, inOrder>>
    BY DEF SendPacket, AsyncProcessQueue, flagVars, wireVars
  <1>3. /\ _writeQueue' \in Seq(Packet) /\ Len(_writeQueue') = Len(_writeQueue) + 1
        /\ \A i \in 1..Len(_writeQueue) : _writeQueue'[i] = _writeQueue[i]
        /\ _writeQueue'[Len(_writeQueue) + 1] = p
        /\ _writeQueue' # << >>
    BY <1>1, <1>2, AppendProperties
  <1>4. Len(_writeQueue) \in Nat /\ Popped \in 0..MaxPackets
    BY <1>1, QueueFacts
  <1>5. Popped' = Popped
    BY <1>1, <1>2, <1>3, <1>4 DEF Popped
  <1>6. QueueInv'
    <2>1. \A i \in 1..Len(_writeQueue') : _writeQueue'[i] = Popped' + i
      <3> SUFFICES ASSUME NEW i \in 1..Len(_writeQueue') PROVE _writeQueue'[i] = Popped + i
        BY <1>5
      <3>1. CASE i \in 1..Len(_writeQueue)
        BY <1>1, <1>3, <3>1 DEF QueueInv
      <3>2. CASE i = Len(_writeQueue) + 1
        BY <1>1, <1>3, <1>4, <3>2 DEF Popped
      <3> QED BY <1>3, <1>4, <3>1, <3>2
    <2>2. Len(_writeQueue') <= accepted'
      BY <1>1, <1>2, <1>3, <1>4 DEF QueueInv
    <2> QED BY <1>1, <1>2, <1>5, <2>1, <2>2 DEF QueueInv
  <1>7. Head(_writeQueue') = Popped + 1 /\ Popped + 1 \in Packet
    <2>1. Head(_writeQueue') = _writeQueue'[1] /\ Head(_writeQueue') \in Packet
      BY <1>3, HeadTailProperties
    <2> QED BY <1>3, <1>4, <1>5, <1>6, <2>1 DEF QueueInv
  <1>8. _rpos[Popped + 1] \in Nat /\ Size[Popped + 1] \in Nat /\ _rpos[Popped + 1] < Size[Popped + 1]
    BY <1>1, <1>7, SizeFacts DEF QueueInv, TypeOK
  <1>9. CASE _isWritingAsync
    <2>1. ops' = ops
      BY <1>9 DEF SendPacket, AsyncProcessQueue
    <2>2. TypeOK'
      BY <1>1, <1>2, <1>3, <2>1 DEF TypeOK, Packet
    <2>3. OpInv'
      BY <1>1, <1>2, <1>3, <1>4, <1>5, <1>9, <2>1 DEF OpInv
    <2>4. WireInv'
      BY <1>1, <1>2, <1>3, <1>4, <1>5, <1>9, <2>1 DEF WireInv, OpInv
    <2> QED BY <1>6, <2>2, <2>3, <2>4 DEF IInv
  <1>10. CASE ~_isWritingAsync
    <2>1. ops' = Append(ops, Posted(Popped + 1))
      BY <1>2, <1>7, <1>10 DEF SendPacket, AsyncProcessQueue, Posted
    <2>2. Len(_writeQueue) = 0 /\ Len(ops) = 0 /\ Len(done) = 0
      BY <1>1, <1>4, <1>10, LenProperties DEF OpInv, TypeOK
    <2>3. Posted(Popped + 1) \in Op
      BY <1>1, <1>7, <1>8 DEF Posted, Op, TypeOK
    <2>4. ops' \in Seq(Op) /\ Len(ops') = 1 /\ ops'[1] = Posted(Popped + 1)
      BY <1>1, <2>1, <2>2, <2>3, AppendProperties DEF TypeOK
    <2>5. TypeOK'
      BY <1>1, <1>2, <1>3, <2>4 DEF TypeOK, Packet
    <2>6. OpInv'
      BY <1>2, <1>3, <1>5, <2>2, <2>4 DEF OpInv, Posted
    <2>7. Popped = accepted
      BY <1>1, <2>2 DEF Popped
    <2>8. _rpos[Popped + 1] = 0
      BY <1>1, <1>7, <1>8, <2>2 DEF QueueInv
    <2>9. WireInv'
      BY <1>1, <1>2, <1>3, <1>5, <2>2, <2>8 DEF WireInv
    <2> QED BY <1>6, <2>5, <2>6, <2>9 DEF IInv
  <1> QED BY <1>9, <1>10, <1>1 DEF TypeOK

-----------------------------------------------------------------------------
LEMMA OneCompletion ==
  ASSUME IInv, done # << >>
  PROVE  /\ Len(done) = 1 /\ Len(ops) = 0 /\ ops = << >>
         /\ Head(done) = done[1] /\ done[1] \in Completion
         /\ Tail(done) \in Seq(Completion) /\ Len(Tail(done)) = 0
  <1>1. done \in Seq(Completion) /\ ops \in Seq(Op)
    BY DEF IInv, TypeOK
  <1>2. Len(done) = 1 /\ Len(ops) = 0
    <2>1. Len(done) \in Nat \ {0} /\ Len(ops) \in Nat
      BY <1>1, LenProperties, EmptySeq
    <2>2. Len(ops) + Len(done) <= 1
      BY DEF IInv, OpInv
    <2>3. Len(done) = 1
      BY <2>1, <2>2
    <2>4. Len(ops) = 0
      BY <2>1, <2>2
    <2> QED BY <2>3, <2>4
  <1>3. ops = << >>
    BY <1>1, <1>2, EmptySeq
  <1>4. /\ Head(done) = done[1] /\ done[1] \in Completion
        /\ Tail(done) \in Seq(Completion) /\ Len(Tail(done)) = 0
    BY <1>1, <1>2, HeadTailProperties
  <1> QED BY <1>2, <1>3, <1>4

(* A write failed: the packet stays at the front and the socket is closed. *)
LEMMA FailedIInv ==
  ASSUME IInv, WriteHandler, ~Head(done).ok
  PROVE  IInv'
  <1>1. /\ Len(done) = 1 /\ Len(ops) = 0
        /\ Head(done) = done[1]
        /\ Tail(done) \in Seq(Completion) /\ Len(Tail(done)) = 0
    BY OneCompletion DEF WriteHandler
  <1>2. /\ done' = Tail(done) /\ _closed' = TRUE /\ shut' = TRUE
        /\ UNCHANGED <<queueVars, ops, _closing, broken, accepted, wireVars>>
    BY DEF WriteHandler, Written, Failed, CloseSocket
  <1>3. Popped' = Popped
    BY <1>2 DEF Popped, queueVars
  <1>4. TypeOK'
    BY <1>1, <1>2 DEF IInv, TypeOK, queueVars, wireVars
  <1>5. QueueInv'
    BY <1>2, <1>3 DEF IInv, QueueInv, queueVars
  <1>6. OpInv'
    BY <1>1, <1>2, <1>3 DEF IInv, OpInv, queueVars
  <1>7. WireInv'
    BY <1>1, <1>2, <1>3 DEF IInv, WireInv, queueVars, wireVars
  <1> QED BY <1>4, <1>5, <1>6, <1>7 DEF IInv

LEMMA WrittenIInv ==
  ASSUME IInv, WriteHandler, Head(done).ok
  PROVE  IInv'
  <1> DEFINE p == Popped + 1
             n == done[1].n
             r == [_rpos EXCEPT ![p] = @ + n]
             q == IF r[p] = Size[p] THEN Tail(_writeQueue) ELSE _writeQueue
  <1>1. /\ Len(done) = 1 /\ Len(ops) = 0 /\ ops = << >>
        /\ Head(done) = done[1] /\ done[1] \in Completion
        /\ Tail(done) \in Seq(Completion) /\ Len(Tail(done)) = 0
    BY OneCompletion DEF WriteHandler
  <1>2. done[1].ok
    BY <1>1
  <1>3. /\ TypeOK /\ QueueInv /\ OpInv /\ WireInv
    BY DEF IInv
  <1>4. /\ Len(_writeQueue) \in Nat \ {0} /\ Popped \in 0..MaxPackets
        /\ Head(_writeQueue) = p /\ p \in Packet
        /\ _writeQueue \in Seq(Packet) /\ _writeQueue # << >>
    BY <1>1, <1>3, QueueFacts DEF OpInv, TypeOK
  <1>5. /\ _rpos \in [Packet -> Nat] /\ _rpos[p] \in Nat /\ Size[p] \in Nat
        /\ _rpos[p] < Size[p] /\ n \in 1..(Size[p] - _rpos[p])
    BY <1>1, <1>3, <1>4, SizeFacts DEF QueueInv, OpInv, TypeOK
  <1>6. /\ _writeQueue' = q /\ _rpos' = r /\ done' = Tail(done)
        /\ UNCHANGED <<broken, accepted, sent, part, inOrder>>
        /\ _isWritingAsync' = (q # << >>)
        /\ _closed => _closed'
        /\ _closed' \in BOOLEAN /\ shut' \in BOOLEAN /\ _closing' = _closing
        /\ q # << >> => /\ ops' = Append(ops, [id |-> Head(q), from |-> r[Head(q)],
                                              len |-> Size[Head(q)] - r[Head(q)], late |-> shut])
        /\ q = << >> => ops' = ops
    <2>1. Written(done[1])
      BY <1>1 DEF WriteHandler, Failed
    <2>2. /\ _writeQueue' = q /\ _rpos' = r
          /\ \/ q # << >> /\ AsyncProcessQueue(q, r, FALSE) /\ UNCHANGED flagVars
             \/ q = << >> /\ _isWritingAsync' = FALSE /\ UNCHANGED ops
                  /\ IF _closing THEN CloseSocket ELSE UNCHANGED flagVars
      BY <1>4, <2>1 DEF Written
    <2>3. done' = Tail(done) /\ UNCHANGED <<broken, accepted, sent, part, inOrder>>
      BY DEF WriteHandler, wireVars
    <2> HIDE DEF q, r
    <2> QED BY <1>3, <2>2, <2>3 DEF AsyncProcessQueue, CloseSocket, flagVars, TypeOK
  <1> HIDE DEF n, q, r
  <1>7. /\ r \in [Packet -> Nat] /\ r[p] = _rpos[p] + n /\ r[p] <= Size[p]
        /\ \A k \in Packet : k # p => r[k] = _rpos[k]
    BY <1>4, <1>5 DEF r
  <1>8. /\ _closing \in BOOLEAN /\ shut \in BOOLEAN /\ accepted \in 0..MaxPackets
        /\ sent \in 0..MaxPackets /\ part \in Nat /\ inOrder \in BOOLEAN /\ broken \in BOOLEAN
        /\ Len(_writeQueue) <= accepted
    BY <1>3 DEF TypeOK, QueueInv
  <1>9. ASSUME QueueInv', WireInv', q \in Seq(Packet),
                Len(q) # 0 => /\ Head(q) = Popped' + 1 /\ Popped' + 1 \in Packet
                              /\ r[Popped' + 1] < Size[Popped' + 1]
         PROVE  IInv'
    <2>1. Len(q) \in Nat /\ (q = << >> <=> Len(q) = 0)
      BY <1>9, LenProperties, EmptySeq
    <2>2. CASE Len(q) = 0
      <3>1. ops' = ops /\ _isWritingAsync' = FALSE
        BY <1>6, <2>1, <2>2
      <3>2. TypeOK'
        BY <1>1, <1>3, <1>6, <1>7, <1>8, <1>9, <3>1 DEF TypeOK
      <3>3. OpInv'
        BY <1>1, <1>6, <2>2, <3>1 DEF OpInv
      <3> QED BY <1>9, <3>2, <3>3 DEF IInv
    <2>3. CASE Len(q) # 0
      <3> DEFINE h == Popped' + 1
                 op == [id |-> h, from |-> r[h], len |-> Size[h] - r[h], late |-> shut]
      <3>1. ops' = Append(ops, op) /\ _isWritingAsync' = TRUE
        BY <1>6, <1>9, <2>1, <2>3
      <3>2. r[h] \in Nat /\ Size[h] \in Nat /\ Size[h] - r[h] \in Nat \ {0} /\ h \in Packet
        BY <1>7, <1>9, <2>3, SizeFacts
      <3>3. op \in Op
        BY <1>8, <3>2 DEF Op
      <3> HIDE DEF op, h
      <3>4. ops' \in Seq(Op) /\ Len(ops') = 1 /\ ops'[1] = op
        BY <1>1, <1>3, <3>1, <3>3, AppendProperties DEF TypeOK
      <3>5. TypeOK'
        BY <1>1, <1>3, <1>6, <1>7, <1>8, <1>9, <3>1, <3>4 DEF TypeOK
      <3>6. OpInv'
        BY <1>1, <1>6, <2>3, <3>1, <3>4 DEF OpInv, op, h
      <3> QED BY <1>9, <3>5, <3>6 DEF IInv
    <2> QED BY <2>2, <2>3
  <1>10. CASE r[p] = Size[p]
    <2>1. /\ q = Tail(_writeQueue) /\ q \in Seq(Packet) /\ Len(q) = Len(_writeQueue) - 1
          /\ \A i \in 1..Len(q) : q[i] = _writeQueue[i + 1]
      BY <1>4, <1>10, HeadTailProperties DEF q
    <2>2. Popped' = p
      BY <1>4, <1>6, <1>8, <2>1 DEF Popped
    <2>3. QueueInv'
      <3>1. \A i \in 1..Len(q) : q[i] = p + i
        <4> SUFFICES ASSUME NEW i \in 1..Len(q) PROVE q[i] = p + i
          OBVIOUS
        <4>1. i + 1 \in 1..Len(_writeQueue) /\ q[i] = _writeQueue[i + 1]
          BY <1>4, <2>1
        <4>2. _writeQueue[i + 1] = Popped + (i + 1)
          BY <1>3, <4>1 DEF QueueInv
        <4> QED BY <1>4, <2>1, <4>1, <4>2
      <3>2. \A k \in Packet : k > p => r[k] = 0
        BY <1>3, <1>4, <1>7 DEF QueueInv, Packet
      <3>3. \A k \in Packet : k > p + 1 => r[k] = 0
        BY <1>4, <3>2 DEF Packet
      <3>4. \A k \in Packet : k = p + 1 => r[k] = 0 /\ r[k] < Size[k]
        BY <1>4, <3>2, SizeFacts DEF Packet
      <3>5. Len(q) <= accepted
        BY <1>4, <1>8, <2>1
      <3> QED BY <1>6, <2>2, <3>1, <3>3, <3>4, <3>5 DEF QueueInv
    <2>4. WireInv'
      <3>1. sent = p /\ part = 0
        BY <1>1, <1>3, <1>7, <1>10, <1>2 DEF WireInv, n
      <3>2. Len(q) # 0 => r[p + 1] = 0
        <4>1. Len(q) # 0 => p + 1 \in Packet
          BY <1>4, <1>8, <2>1, PacketsAssumption DEF Popped, Packet
        <4> QED BY <1>3, <1>4, <1>7, <4>1 DEF QueueInv, Packet
      <3> QED BY <1>1, <1>3, <1>6, <2>2, <3>1, <3>2 DEF WireInv
    <2>5. Len(q) # 0 => Head(q) = p + 1 /\ p + 1 \in Packet /\ r[p + 1] < Size[p + 1]
      <3>1. SUFFICES ASSUME Len(q) # 0 PROVE Head(q) = p + 1 /\ p + 1 \in Packet /\ r[p + 1] < Size[p + 1]
        OBVIOUS
      <3>2. Head(q) = q[1] /\ Head(q) \in Packet /\ 1 \in 1..Len(q)
        BY <1>4, <2>1, <3>1, HeadTailProperties
      <3>3. q[1] = p + 1
        BY <1>6, <2>2, <2>3, <3>2 DEF QueueInv
      <3> QED BY <1>6, <2>2, <2>3, <3>2, <3>3 DEF QueueInv
    <2> QED BY <1>9, <2>1, <2>2, <2>3, <2>4, <2>5
  <1>11. CASE r[p] # Size[p]
    <2>1. q = _writeQueue /\ r[p] < Size[p]
      BY <1>5, <1>7, <1>11 DEF q
    <2>2. Popped' = Popped
      BY <1>6, <2>1 DEF Popped
    <2>3. QueueInv'
      <3>1. \A i \in 1..Len(q) : q[i] = Popped + i
        BY <1>3, <2>1 DEF QueueInv
      <3>2. \A k \in Packet : k > p => r[k] = 0
        BY <1>3, <1>4, <1>7 DEF QueueInv, Packet
      <3>3. \A k \in Packet : k = p => r[k] < Size[k]
        BY <2>1
      <3>4. Len(q) <= accepted /\ Len(q) # 0
        BY <1>4, <1>8, <2>1
      <3> QED BY <1>6, <2>2, <3>1, <3>2, <3>3, <3>4 DEF QueueInv
    <2>4. WireInv'
      <3>1. sent = Popped /\ part = r[p]
        BY <1>1, <1>3, <1>7, <1>11, <1>2 DEF WireInv, n
      <3> QED BY <1>1, <1>3, <1>4, <1>6, <2>1, <2>2, <3>1 DEF WireInv
    <2> QED BY <1>4, <1>9, <2>1, <2>2, <2>3, <2>4
  <1> QED BY <1>10, <1>11

LEMMA WriteHandlerIInv == ASSUME IInv, WriteHandler PROVE IInv'
  <1>1. Head(done).ok \/ ~Head(done).ok
    OBVIOUS
  <1> QED BY <1>1, WrittenIInv, FailedIInv

-----------------------------------------------------------------------------
(* Nothing is outstanding beside the write that is posted.                 *)
LEMMA OneWrite ==
  ASSUME IInv, ops # << >>
  PROVE  /\ Len(ops) = 1 /\ Len(done) = 0
         /\ Head(ops) = ops[1] /\ ops[1] \in Op
         /\ Tail(ops) \in Seq(Op) /\ Len(Tail(ops)) = 0
         /\ Len(_writeQueue) # 0
         /\ Popped \in 0..MaxPackets /\ Popped + 1 \in Packet
         /\ ops[1].id = Popped + 1
         /\ ops[1].from = _rpos[Popped + 1]
         /\ ops[1].len = Size[Popped + 1] - _rpos[Popped + 1]
         /\ _rpos[Popped + 1] \in Nat /\ Size[Popped + 1] \in Nat
         /\ sent = Popped /\ part = _rpos[Popped + 1]
  <1>1. done \in Seq(Completion) /\ ops \in Seq(Op) /\ TypeOK /\ QueueInv /\ OpInv /\ WireInv
    BY DEF IInv, TypeOK
  <1>2. Len(ops) = 1 /\ Len(done) = 0
    <2>1. Len(ops) \in Nat \ {0} /\ Len(done) \in Nat
      BY <1>1, LenProperties, EmptySeq
    <2>2. Len(ops) + Len(done) <= 1
      BY <1>1 DEF OpInv
    <2>3. Len(ops) >= 1
      BY <2>1
    <2>4. Len(done) = 0
      BY <2>1, <2>2, <2>3
    <2>5. Len(ops) = 1
      BY <2>1, <2>2, <2>3, <2>4
    <2> QED BY <2>4, <2>5
  <1>3. /\ Head(ops) = ops[1] /\ ops[1] \in Op
        /\ Tail(ops) \in Seq(Op) /\ Len(Tail(ops)) = 0
    BY <1>1, <1>2, HeadTailProperties
  <1>4. Len(_writeQueue) # 0
    BY <1>1, <1>2 DEF OpInv
  <1>5. Popped \in 0..MaxPackets /\ Popped + 1 \in Packet
    BY <1>1, <1>4, QueueFacts
  <1>6. /\ ops[1].id = Popped + 1
        /\ ops[1].from = _rpos[Popped + 1]
        /\ ops[1].len = Size[Popped + 1] - _rpos[Popped + 1]
    BY <1>1, <1>2 DEF OpInv
  <1>7. _rpos[Popped + 1] \in Nat /\ Size[Popped + 1] \in Nat
    BY <1>1, <1>5, SizeFacts DEF TypeOK
  <1>8. sent = Popped /\ part = _rpos[Popped + 1]
    BY <1>1, <1>2, <1>4 DEF WireInv
  <1> QED BY <1>2, <1>3, <1>4, <1>5, <1>6, <1>7, <1>8

LEMMA TransferIInv == ASSUME IInv, Transfer PROVE IInv'
  <1> DEFINE p == Popped + 1
  <1>1. PICK n \in 1..Head(ops).len :
             TransferOp(Head(ops), n) /\ done' = Append(done, [ok |-> TRUE, n |-> n])
    BY DEF Transfer
  <1>2. /\ Len(ops) = 1 /\ Len(done) = 0 /\ Head(ops) = ops[1]
        /\ Tail(ops) \in Seq(Op) /\ Len(Tail(ops)) = 0 /\ Len(_writeQueue) # 0
        /\ Popped \in 0..MaxPackets /\ p \in Packet
        /\ ops[1].id = p /\ ops[1].from = _rpos[p] /\ ops[1].len = Size[p] - _rpos[p]
        /\ _rpos[p] \in Nat /\ Size[p] \in Nat
        /\ sent = Popped /\ part = _rpos[p]
    BY OneWrite DEF Transfer
  <1>3. /\ ops' = Tail(ops)
        /\ UNCHANGED <<_writeQueue, _rpos, _isWritingAsync, _closed, _closing, shut,
                       broken, accepted>>
    BY DEF Transfer, queueVars, flagVars
  <1>4. TypeOK /\ QueueInv /\ OpInv /\ WireInv
    BY DEF IInv
  <1>5. Popped' = Popped
    BY <1>3 DEF Popped
  <1>6. n \in 1..(Size[p] - _rpos[p]) /\ n \in Nat
    BY <1>1, <1>2
  <1>7. done' \in Seq(Completion) /\ Len(done') = 1 /\ done'[1] = [ok |-> TRUE, n |-> n]
    <2>1. [ok |-> TRUE, n |-> n] \in Completion
      BY <1>6 DEF Completion
    <2> QED BY <1>1, <1>2, <1>4, <2>1, AppendProperties DEF TypeOK
  <1>8. /\ inOrder' = TRUE
        /\ IF _rpos[p] + n = Size[p] THEN sent' = p /\ part' = 0
                                     ELSE sent' = Popped /\ part' = _rpos[p] + n
    <2>1. inOrder' = TRUE
      <3>1. inOrder = TRUE
        BY <1>4 DEF WireInv, TypeOK
      <3>2. ops[1].id = sent + 1 /\ ops[1].from = part
        BY <1>2
      <3>3. inOrder' = (inOrder /\ ops[1].id = sent + 1 /\ ops[1].from = part)
        BY <1>1, <1>2 DEF TransferOp
      <3> QED BY <3>1, <3>2, <3>3
    <2>2. IF _rpos[p] + n = Size[p] THEN sent' = p /\ part' = 0
                                    ELSE sent' = p - 1 /\ part' = _rpos[p] + n
      BY <1>1, <1>2 DEF TransferOp
    <2>3. p - 1 = Popped
      BY <1>2
    <2> HIDE DEF p
    <2>4. IF _rpos[p] + n = Size[p] THEN sent' = p /\ part' = 0
                                    ELSE sent' = Popped /\ part' = _rpos[p] + n
      BY <2>2, <2>3
    <2> QED BY <2>1, <2>4
  <1>9. TypeOK'
    <2>1. sent' \in 0..MaxPackets /\ part' \in Nat
      BY <1>2, <1>6, <1>8 DEF Packet
    <2> QED BY <1>2, <1>3, <1>4, <1>7, <1>8, <2>1 DEF TypeOK
  <1>10. QueueInv'
    BY <1>3, <1>4, <1>5 DEF QueueInv
  <1>11. OpInv'
    BY <1>2, <1>3, <1>4, <1>5, <1>6, <1>7 DEF OpInv
  <1>12. WireInv'
    BY <1>3, <1>5, <1>7, <1>8 DEF WireInv
  <1> QED BY <1>9, <1>10, <1>11, <1>12 DEF IInv

LEMMA BreakIInv == ASSUME IInv, Break PROVE IInv'
  <1>1. /\ Len(ops) = 1 /\ Len(done) = 0
        /\ Tail(ops) \in Seq(Op) /\ Len(Tail(ops)) = 0 /\ Len(_writeQueue) # 0
    BY OneWrite DEF Break
  <1>2. /\ ops' = Tail(ops) /\ done' = Append(done, [ok |-> FALSE, n |-> 0]) /\ broken' = TRUE
        /\ UNCHANGED <<_writeQueue, _rpos, _isWritingAsync, _closed, _closing, shut,
                       accepted, sent, part, inOrder>>
    BY DEF Break, queueVars, flagVars, wireVars
  <1>3. TypeOK /\ QueueInv /\ OpInv /\ WireInv
    BY DEF IInv
  <1>4. done' \in Seq(Completion) /\ Len(done') = 1 /\ done'[1] = [ok |-> FALSE, n |-> 0]
    <2>1. [ok |-> FALSE, n |-> 0] \in Completion
      BY DEF Completion
    <2> QED BY <1>1, <1>2, <1>3, <2>1, AppendProperties DEF TypeOK
  <1>5. Popped' = Popped
    BY <1>2 DEF Popped
  <1>6. TypeOK'
    BY <1>1, <1>2, <1>3, <1>4 DEF TypeOK
  <1>7. QueueInv'
    BY <1>2, <1>3, <1>5 DEF QueueInv
  <1>8. OpInv'
    BY <1>1, <1>2, <1>3, <1>4, <1>5 DEF OpInv
  <1>9. WireInv'
    BY <1>1, <1>2, <1>3, <1>4, <1>5 DEF WireInv
  <1> QED BY <1>6, <1>7, <1>8, <1>9 DEF IInv

-----------------------------------------------------------------------------
(* Steps that touch neither the queue nor the writes.                      *)
LEMMA FlagsIInv ==
  ASSUME IInv, _closed => _closed', _closed' \in BOOLEAN, _closing' \in BOOLEAN, shut' \in BOOLEAN,
         UNCHANGED <<queueVars, ops, done, broken, accepted, wireVars>>
  PROVE  IInv'
  <1>1. Popped' = Popped
    BY DEF Popped, queueVars
  <1>2. TypeOK'
    BY DEF IInv, TypeOK, queueVars, wireVars
  <1>3. QueueInv'
    BY <1>1 DEF IInv, QueueInv, queueVars
  <1>4. OpInv'
    BY <1>1 DEF IInv, OpInv, queueVars
  <1>5. WireInv'
    BY <1>1 DEF IInv, WireInv, queueVars, wireVars
  <1> QED BY <1>2, <1>3, <1>4, <1>5 DEF IInv

LEMMA NextIInv == IInv /\ [Next]_vars => IInv'
  <1> SUFFICES ASSUME IInv, [Next]_vars PROVE IInv'
    OBVIOUS
  <1>1. CASE SendPacket
    BY <1>1, SendIInv
  <1>2. CASE WriteHandler
    BY <1>2, WriteHandlerIInv
  <1>3. CASE ReadError
    <2>1. /\ _closed' = TRUE /\ shut' = TRUE /\ _closing' = _closing
          /\ UNCHANGED <<queueVars, ops, done, broken, accepted, wireVars>>
      BY <1>3 DEF ReadError, CloseSocket
    <2>2. _closing' \in BOOLEAN
      BY <2>1 DEF IInv, TypeOK
    <2> QED BY <2>1, <2>2, FlagsIInv
  <1>4. CASE DelayedCloseSocket
    <2>1. /\ _closing' = TRUE /\ _closed' = _closed /\ shut' = shut
          /\ UNCHANGED <<queueVars, ops, done, broken, accepted, wireVars>>
      BY <1>4 DEF DelayedCloseSocket
    <2>2. _closed' \in BOOLEAN /\ shut' \in BOOLEAN
      BY <2>1 DEF IInv, TypeOK
    <2> QED BY <2>1, <2>2, FlagsIInv
  <1>5. CASE Transfer
    BY <1>5, TransferIInv
  <1>6. CASE Break
    BY <1>6, BreakIInv
  <1>7. CASE UNCHANGED vars
    <2>1. /\ _closed' = _closed /\ shut' = shut /\ _closing' = _closing
          /\ UNCHANGED <<queueVars, ops, done, broken, accepted, wireVars>>
      BY <1>7 DEF vars, flagVars
    <2>2. _closed' \in BOOLEAN /\ shut' \in BOOLEAN /\ _closing' \in BOOLEAN
      BY <2>1 DEF IInv, TypeOK
    <2> QED BY <2>1, <2>2, FlagsIInv
  <1> QED BY <1>1, <1>2, <1>3, <1>4, <1>5, <1>6, <1>7 DEF Next

LEMMA Invariance == Spec => []IInv
  BY InitIInv, NextIInv, PTL DEF Spec

-----------------------------------------------------------------------------
(* Every variable keeps its type, whatever the packets and their sizes.    *)
THEOREM TypeCorrect == Spec => []TypeOK
  <1>1. IInv => TypeOK
    BY DEF IInv
  <1> QED BY <1>1, Invariance, PTL

(* A write, posted or completed, is about the front packet of the queue at *)
(* its present read position: WriteHandler's front().ReadCompleted is right*)
(* whatever other threads pushed while the write was outstanding.          *)
THEOREM WriteIsOfTheFront == Spec => []WriteMatchesFront
  <1>1. IInv => WriteMatchesFront
    <2> SUFFICES ASSUME IInv PROVE WriteMatchesFront
      OBVIOUS
    <2>1. Len(ops) + Len(done) <= 1 /\ TypeOK /\ QueueInv
      BY DEF IInv, OpInv
    <2>2. Len(_writeQueue) # 0 => Head(_writeQueue) = Popped + 1 /\ Popped + 1 \in Packet
      BY <2>1, QueueFacts
    <2>3. _writeQueue = << >> <=> Len(_writeQueue) = 0
      BY <2>1, QueueFacts
    <2>4. ASSUME ops # << >>
          PROVE  /\ _writeQueue # << >>
                 /\ Head(ops).id = Head(_writeQueue)
                 /\ Head(ops).from = _rpos[Head(ops).id]
                 /\ Head(ops).len = Remains(Head(ops).id)
      BY <2>2, <2>3, <2>4, OneWrite DEF Remains
    <2>5. ASSUME done # << >>
          PROVE  _writeQueue # << >> /\ Head(done).n <= Remains(Head(_writeQueue))
      <3>1. Len(done) = 1 /\ Len(ops) = 0 /\ Head(done) = done[1]
        BY <2>5, OneCompletion
      <3>2. /\ Len(_writeQueue) # 0
            /\ IF done[1].ok THEN done[1].n \in 1..(Size[Popped + 1] - _rpos[Popped + 1])
                             ELSE done[1].n = 0
        BY <3>1 DEF IInv, OpInv
      <3>3. Size[Popped + 1] \in Nat /\ _rpos[Popped + 1] \in Nat /\ _rpos[Popped + 1] < Size[Popped + 1]
        BY <2>1, <2>2, <3>2, SizeFacts DEF TypeOK, QueueInv
      <3> QED BY <2>2, <2>3, <3>1, <3>2, <3>3 DEF Remains
    <2> QED BY <2>1, <2>4, <2>5 DEF WriteMatchesFront
  <1> QED BY <1>1, Invariance, PTL

(* A queue that holds something has a write on its way, or the socket is   *)
(* closed: AsyncProcessQueue and WriteHandler hand the duty over exactly.  *)
THEOREM NoPacketIsLeftBehind == Spec => []NoStall
  <1>1. IInv => NoStall
    <2> SUFFICES ASSUME IInv, _writeQueue # << >>, ops = << >>, done = << >> PROVE _closed
      BY DEF NoStall
    <2>1. Len(_writeQueue) # 0
      BY QueueFacts DEF IInv
    <2>2. Len(ops) = 0 /\ Len(done) = 0
      OBVIOUS
    <2> QED BY <2>1, <2>2 DEF IInv, OpInv
  <1> QED BY <1>1, Invariance, PTL

(* No chunk is skipped, repeated or taken from the middle.                 *)
THEOREM WireInOrder == Spec => []InOrder
  <1>1. IInv => InOrder
    BY DEF IInv, WireInv, InOrder
  <1> QED BY <1>1, Invariance, PTL

(* The socket implements the pipe of whole packets in order.               *)
THEOREM PipeImplemented == Spec => ImplementsPacketPipe
  <1>1. Init => Pipe!Init
    BY DEF Init, Pipe!Init
  <1>2. ASSUME IInv, [Next]_vars PROVE [Pipe!Next]_(Pipe!vars)
    <2>1. CASE SendPacket
      BY <2>1 DEF SendPacket, wireVars, Pipe!Next, Pipe!Accept
    <2>2. CASE WriteHandler
      BY <2>2 DEF WriteHandler, wireVars, Pipe!vars
    <2>3. CASE ReadError
      BY <2>3 DEF ReadError, wireVars, Pipe!vars
    <2>4. CASE DelayedCloseSocket
      BY <2>4 DEF DelayedCloseSocket, wireVars, Pipe!vars
    <2>5. CASE Transfer
      <3>1. PICK n \in 1..Head(ops).len : TransferOp(Head(ops), n)
        BY <2>5 DEF Transfer
      <3>2. /\ Head(ops) = ops[1] /\ Len(_writeQueue) # 0 /\ Popped \in 0..MaxPackets
            /\ ops[1].id = Popped + 1 /\ ops[1].from = _rpos[Popped + 1]
            /\ ops[1].len = Size[Popped + 1] - _rpos[Popped + 1]
            /\ sent = Popped /\ part = _rpos[Popped + 1]
        BY <1>2, <2>5, OneWrite DEF Transfer
      <3>3. sent < accepted
        <4>1. /\ Len(_writeQueue) \in Nat /\ accepted \in Nat /\ Len(_writeQueue) <= accepted
          BY <1>2, QueueFacts DEF IInv, QueueInv, TypeOK
        <4> QED BY <3>2, <4>1 DEF Popped
      <3>4. /\ n \in 1..(Size[sent + 1] - part)
            /\ IF part + n = Size[sent + 1]
               THEN sent' = sent + 1 /\ part' = 0
               ELSE sent' = sent /\ part' = part + n
        <4>1. n \in 1..(Size[sent + 1] - part)
          BY <3>1, <3>2
        <4>2. IF part + n = Size[sent + 1]
               THEN sent' = sent + 1 /\ part' = 0
               ELSE sent' = (sent + 1) - 1 /\ part' = part + n
          BY <3>1, <3>2 DEF TransferOp
        <4> QED BY <3>2, <4>1, <4>2
      <3>5. ~broken /\ UNCHANGED <<accepted, broken>>
        BY <2>5 DEF Transfer
      <3> QED BY <3>3, <3>4, <3>5 DEF Pipe!Next, Pipe!Emit
    <2>6. CASE Break
      BY <2>6 DEF Break, wireVars, Pipe!Next, Pipe!Break
    <2>7. CASE UNCHANGED vars
      BY <2>7 DEF vars, wireVars, Pipe!vars
    <2> QED BY <1>2, <2>1, <2>2, <2>3, <2>4, <2>5, <2>6, <2>7 DEF Next
  <1> QED BY <1>1, <1>2, Invariance, PTL DEF Spec, ImplementsPacketPipe, Pipe!Spec
=============================================================================
