--------------------------- MODULE SocketWriter ---------------------------
(***************************************************************************)
(* The write path of Socket<T> (Common/Socket.h) as built for Windows,     *)
(* TC_SOCKET_USE_IOCP, with the SendPacket of WorldSocket.cpp and          *)
(* ClientSocket.cpp.  Any thread sends; the completions of async_write_some*)
(* run on the io thread.  _writeLock makes SendPacket and a successful     *)
(* completion critical sections, hence one action each.                    *)
(*                                                                         *)
(* A packet is its number, in the order the packets were pushed.  The      *)
(* socket (`ops`, `done`, `broken`) is the external part: it takes a       *)
(* prefix of the bytes of a posted write, or fails it.                     *)
(***************************************************************************)
EXTENDS Naturals, Sequences

CONSTANTS MaxPackets,    \* bound: packets sent on one connection
          Size           \* bytes of each packet, header included

Packet == 1..MaxPackets

ASSUME PacketsAssumption == MaxPackets \in Nat
(* What the buffer SendPacket writes a packet to holds.  It does not check *)
(* that the packet fits (MessageBuffer.h:74-81): none is longer.           *)
MessageBufferSize == 4096
ASSUME SizeAssumption == Size \in [Packet -> 1..MessageBufferSize]

VARIABLES
  _writeQueue,      \* std::queue<MessageBuffer>
  _rpos,            \* MessageBuffer::_rpos of each packet
  _isWritingAsync,
  _closed,
  _closing,
  shut,             \* shutdown_send was called
  ops,              \* posted writes: bytes from + 1 .. from + len of packet id
  done,             \* completions the io thread has not run yet
  broken,           \* the connection failed
  accepted,         \* history: packets pushed
  sent, part,       \* history: whole packets, and bytes of the next, on the wire
  inOrder           \* history: every chunk began where the previous one ended

queueVars == <<_writeQueue, _rpos, _isWritingAsync>>
flagVars  == <<_closed, _closing, shut>>
wireVars  == <<sent, part, inOrder>>
vars == <<queueVars, flagVars, ops, done, broken, accepted, wireVars>>

Op == [id : Packet, from : Nat, len : Nat \ {0}, late : BOOLEAN]
Completion == [ok : BOOLEAN, n : Nat]

TypeOK == /\ _writeQueue \in Seq(Packet)
          /\ _rpos \in [Packet -> Nat]
          /\ _isWritingAsync \in BOOLEAN
          /\ _closed \in BOOLEAN /\ _closing \in BOOLEAN /\ shut \in BOOLEAN
          /\ ops \in Seq(Op)
          /\ done \in Seq(Completion)
          /\ broken \in BOOLEAN
          /\ accepted \in 0..MaxPackets
          /\ sent \in 0..MaxPackets /\ part \in Nat
          /\ inOrder \in BOOLEAN

Init == /\ _writeQueue = << >>
        /\ _rpos = [p \in Packet |-> 0]
        /\ _isWritingAsync = FALSE
        /\ _closed = FALSE /\ _closing = FALSE /\ shut = FALSE
        /\ ops = << >> /\ done = << >>
        /\ broken = FALSE
        /\ accepted = 0 /\ sent = 0 /\ part = 0
        /\ inOrder = TRUE

-----------------------------------------------------------------------------
(* Fault: no look at _isWritingAsync before posting.                       *)
AsyncProcessQueueAlways(q, r, writing) ==
  /\ _isWritingAsync' = TRUE
  /\ ops' = Append(ops, [id |-> Head(q), from |-> r[Head(q)],
                         len |-> Size[Head(q)] - r[Head(q)], late |-> shut])

(* AsyncProcessQueue on the queue q with read positions r: one write at a  *)
(* time, of what is left of the front packet.  `writing` is the flag as    *)
(* the caller left it.                                                     *)
AsyncProcessQueue(q, r, writing) ==
  /\ _isWritingAsync' = TRUE
  /\ ops' = IF writing THEN ops
            ELSE Append(ops, [id |-> Head(q), from |-> r[Head(q)],
                              len |-> Size[Head(q)] - r[Head(q)], late |-> shut])

(* CloseSocket: the exchange of _closed lets one caller shut the socket.   *)
CloseSocket == /\ _closed' = TRUE
               /\ shut' = TRUE
               /\ UNCHANGED _closing

(* SendPacket, Write and QueuePacket: nothing looks at _closed.            *)
SendPacket == /\ accepted < MaxPackets
              /\ accepted' = accepted + 1
              /\ _writeQueue' = Append(_writeQueue, accepted + 1)
              /\ AsyncProcessQueue(Append(_writeQueue, accepted + 1), _rpos, _isWritingAsync)
              /\ UNCHANGED <<_rpos, flagVars, done, broken, wireVars>>

(* Fault: a packet that is wholly written stays at the front.             *)
WrittenKeepsEmpty(c) ==
  LET front == Head(_writeQueue)
      r     == [_rpos EXCEPT ![front] = @ + c.n]
  IN /\ c.ok
     /\ _rpos' = r
     /\ AsyncProcessQueue(_writeQueue, r, FALSE)
     /\ UNCHANGED <<_writeQueue, flagVars>>

(* Fault: the next packet waits for somebody to send another.              *)
WrittenStops(c) ==
  LET front == Head(_writeQueue)
      r     == [_rpos EXCEPT ![front] = @ + c.n]
      q     == IF r[front] = Size[front] THEN Tail(_writeQueue) ELSE _writeQueue
  IN /\ c.ok
     /\ _writeQueue' = q
     /\ _rpos' = r
     /\ _isWritingAsync' = FALSE
     /\ UNCHANGED <<ops, flagVars>>

(* Fault: a partial write is written again from its start.                 *)
WrittenRepeats(c) ==
  LET front == Head(_writeQueue)
      q     == IF _rpos[front] + c.n = Size[front] THEN Tail(_writeQueue) ELSE _writeQueue
  IN /\ c.ok
     /\ _writeQueue' = q
     /\ UNCHANGED <<_rpos, flagVars>>
     /\ \/ q # << >> /\ AsyncProcessQueue(q, _rpos, FALSE)
        \/ q = << >> /\ _isWritingAsync' = FALSE /\ UNCHANGED ops

(* Fault: a completed write is taken for a whole packet.                   *)
WrittenPops(c) ==
  LET q == Tail(_writeQueue)
  IN /\ c.ok
     /\ _writeQueue' = q
     /\ UNCHANGED <<_rpos, flagVars>>
     /\ \/ q # << >> /\ AsyncProcessQueue(q, _rpos, FALSE)
        \/ q = << >> /\ _isWritingAsync' = FALSE /\ UNCHANGED ops

(* WriteHandler without error: the flag is cleared, the front packet moves *)
(* on or goes, and the next write is posted.                               *)
Written(c) ==
  LET front == Head(_writeQueue)
      r     == [_rpos EXCEPT ![front] = @ + c.n]
      q     == IF r[front] = Size[front] THEN Tail(_writeQueue) ELSE _writeQueue
  IN /\ c.ok
     /\ _writeQueue' = q
     /\ _rpos' = r
     /\ \/ q # << >> /\ AsyncProcessQueue(q, r, FALSE) /\ UNCHANGED flagVars
        \/ q = << >> /\ _isWritingAsync' = FALSE /\ UNCHANGED ops
             /\ IF _closing THEN CloseSocket ELSE UNCHANGED flagVars

(* Fault: the error is only noted.                                         *)
FailedSilently(c) == ~c.ok /\ UNCHANGED <<queueVars, ops, flagVars>>

(* WriteHandler with an error: _isWritingAsync stays set.                  *)
Failed(c) == /\ ~c.ok
             /\ CloseSocket
             /\ UNCHANGED <<queueVars, ops>>

WriteHandler == /\ done # << >>
                /\ done' = Tail(done)
                /\ Written(Head(done)) \/ Failed(Head(done))
                /\ UNCHANGED <<broken, accepted, wireVars>>

(* ReadHandlerInternal with an error, end of file included.                *)
ReadError == /\ ~_closed
             /\ CloseSocket
             /\ UNCHANGED <<queueVars, ops, done, broken, accepted, wireVars>>

DelayedCloseSocket == /\ ~_closing
                      /\ _closing' = TRUE
                      /\ UNCHANGED <<queueVars, _closed, shut, ops, done, broken, accepted, wireVars>>

-----------------------------------------------------------------------------
(* The socket: takes n bytes of the oldest posted write.                   *)
TransferOp(op, n) ==
  /\ inOrder' = (inOrder /\ op.id = sent + 1 /\ op.from = part)
  /\ IF op.from + n = Size[op.id]
     THEN sent' = op.id /\ part' = 0
     ELSE sent' = op.id - 1 /\ part' = op.from + n

Transfer == /\ ops # << >> /\ ~broken /\ ~Head(ops).late
            /\ \E n \in 1..Head(ops).len :
                 /\ TransferOp(Head(ops), n)
                 /\ done' = Append(done, [ok |-> TRUE, n |-> n])
            /\ ops' = Tail(ops)
            /\ UNCHANGED <<queueVars, flagVars, broken, accepted>>

Break == /\ ops # << >>
         /\ broken' = TRUE
         /\ ops' = Tail(ops)
         /\ done' = Append(done, [ok |-> FALSE, n |-> 0])
         /\ UNCHANGED <<queueVars, flagVars, accepted, wireVars>>

Next == \/ SendPacket \/ WriteHandler \/ ReadError \/ DelayedCloseSocket
        \/ Transfer \/ Break

(* Fairness: the io thread runs its completions, and the connection ends   *)
(* every posted write one way or the other.                                *)
Spec == /\ Init /\ [][Next]_vars
        /\ WF_vars(WriteHandler)
        /\ WF_vars(Transfer \/ Break)

-----------------------------------------------------------------------------
Remains(p) == Size[p] - _rpos[p]

(* A write that is posted or completed concerns the packet that is at the  *)
(* front of the queue now, at its present read position, and there is one  *)
(* at most: WriteHandler's front().ReadCompleted (Socket.h:205) is about   *)
(* the bytes that were sent, though other threads push meanwhile.          *)
WriteMatchesFront ==
  /\ Len(ops) + Len(done) <= 1
  /\ ops # << >> => /\ _writeQueue # << >>
                    /\ Head(ops).id = Head(_writeQueue)
                    /\ Head(ops).from = _rpos[Head(ops).id]
                    /\ Head(ops).len = Remains(Head(ops).id)
  /\ done # << >> => /\ _writeQueue # << >>
                     /\ Head(done).n <= Remains(Head(_writeQueue))

(* No packet is left behind: a queue that holds something has a write on   *)
(* its way, unless a write failed, and then the socket is closed.          *)
NoStall == _writeQueue # << >> => ops # << >> \/ done # << >> \/ _closed

(* Every accepted packet reaches the wire or the socket is closed.         *)
Delivered == \A p \in Packet : (accepted >= p) ~> (sent >= p \/ _closed)

(* "Marks the socket for closing after write buffer becomes empty"         *)
(* (Socket.h:136): a socket so marked closes once nothing is left to write.*)
DelayedCloseHonoured == (_closing /\ _writeQueue = << >>) ~> _closed

Pipe == INSTANCE PacketPipe

(* The socket is a pipe of whole packets in order.                         *)
ImplementsPacketPipe == Pipe!Spec

(* No chunk was skipped, repeated or taken from the middle.                *)
InOrder == inOrder
=============================================================================
