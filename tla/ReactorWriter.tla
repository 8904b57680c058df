--------------------------- MODULE ReactorWriter ---------------------------
(***************************************************************************)
(* The write path of Socket<T> (Common/Socket.h) where TC_SOCKET_USE_IOCP  *)
(* is not defined, with WorldSocket::SendPacket: a packet is only queued,  *)
(* and the thread that owns the socket writes when it next polls Update.   *)
(* A write that would block waits for the socket with null_buffers, and    *)
(* the io thread goes on from there.                                       *)
(*                                                                         *)
(* Both hold _writeLock for several writes: `holder` is who holds it, once *)
(* WriteHandler has found the socket open.  _closed and _closing are       *)
(* changed without the lock.  _writeBuffer is never filled, so             *)
(* WriteHandler always comes to HandleQueue.  A wait is posted exactly     *)
(* while _isWritingAsync is set.  A packet is its number, as in            *)
(* SocketWriter.                                                           *)
(***************************************************************************)
EXTENDS Naturals, Sequences

CONSTANTS MaxPackets,    \* bound: packets sent on one connection
          Size           \* bytes of each packet, header included

Packet == 1..MaxPackets

(* What the buffer SendPacket writes a packet to holds; assumed of the     *)
(* constants is that a packet fits, which it does not check.               *)
MessageBufferSize == 4096
Constants == MaxPackets \in Nat /\ Size \in [Packet -> 1..MessageBufferSize]

VARIABLES
  _writeQueue,      \* std::queue<MessageBuffer>
  _rpos,            \* MessageBuffer::_rpos of each packet
  _isWritingAsync,
  holder,
  _closed,
  _closing,
  broken,           \* the connection failed
  accepted,         \* history: packets pushed
  sent, part        \* history: whole packets, and bytes of the next, on the wire

flags    == <<_closed, _closing>>
wireVars == <<sent, part>>
vars == <<_writeQueue, _rpos, _isWritingAsync, holder, flags, broken, accepted, wireVars>>

TypeOK == /\ _writeQueue \in Seq(Packet)
          /\ _rpos \in [Packet -> Nat]
          /\ _isWritingAsync \in BOOLEAN
          /\ holder \in {"none", "Update", "WriteHandlerWrapper"}
          /\ _closed \in BOOLEAN /\ _closing \in BOOLEAN
          /\ broken \in BOOLEAN
          /\ accepted \in 0..MaxPackets
          /\ sent \in 0..MaxPackets /\ part \in Nat

Init == /\ _writeQueue = << >>
        /\ _rpos = [p \in Packet |-> 0]
        /\ _isWritingAsync = FALSE
        /\ holder = "none"
        /\ _closed = FALSE /\ _closing = FALSE
        /\ broken = FALSE
        /\ accepted = 0 /\ sent = 0 /\ part = 0

IsOpen == ~_closed /\ ~_closing

-----------------------------------------------------------------------------
(* Write and QueuePacket: push, and nothing else.                          *)
SendPacket == /\ holder = "none"
              /\ accepted < MaxPackets
              /\ accepted' = accepted + 1
              /\ _writeQueue' = Append(_writeQueue, accepted + 1)
              /\ UNCHANGED <<_rpos, _isWritingAsync, holder, flags, broken, wireVars>>

(* Fault: the poll does not look whether somebody waits for the socket.    *)
UpdateAlways == /\ holder = "none"
                /\ IsOpen
                /\ _writeQueue # << >>
                /\ holder' = "Update"
                /\ UNCHANGED <<_writeQueue, _rpos, _isWritingAsync, flags, broken, accepted, wireVars>>

(* Update, up to the first HandleQueue.                                    *)
Update == /\ holder = "none"
          /\ IsOpen
          /\ ~_isWritingAsync /\ _writeQueue # << >>
          /\ holder' = "Update"
          /\ UNCHANGED <<_writeQueue, _rpos, _isWritingAsync, flags, broken, accepted, wireVars>>

(* WriteHandlerWrapper, up to HandleQueue.  Its error is not looked at.    *)
WriteHandlerWrapper ==
  /\ holder = "none" /\ _isWritingAsync
  /\ _isWritingAsync' = FALSE
  /\ holder' = IF IsOpen THEN "WriteHandlerWrapper" ELSE "none"
  /\ UNCHANGED <<_writeQueue, _rpos, flags, broken, accepted, wireVars>>

(* HandleQueue is done with the packet at the front.  Update calls         *)
(* WriteHandler again while there is more, the wrapper does not.           *)
Pop(more) == /\ _writeQueue' = Tail(_writeQueue)
             /\ holder' = IF more /\ holder = "Update" /\ Tail(_writeQueue) # << >> /\ IsOpen
                          THEN "Update" ELSE "none"

(* HandleQueue: write_some fails on a broken or shut connection.           *)
Failed == /\ holder # "none"
          /\ broken \/ _closed
          /\ Pop(FALSE)
          /\ UNCHANGED <<_rpos, _isWritingAsync, flags, broken, accepted, wireVars>>

(* HandleQueue: write_some would block.                                    *)
WouldBlock == /\ holder # "none"
              /\ ~broken /\ ~_closed
              /\ _isWritingAsync' = TRUE
              /\ holder' = "none"
              /\ UNCHANGED <<_writeQueue, _rpos, flags, broken, accepted, wireVars>>

(* Fault: a partial write is taken for the whole packet.                   *)
WrotePops(n) ==
  LET front == Head(_writeQueue)
      whole == n = Size[front] - _rpos[front]
  IN /\ sent' = IF whole THEN front ELSE front - 1
     /\ part' = IF whole THEN 0 ELSE _rpos[front] + n
     /\ Pop(TRUE)
     /\ UNCHANGED <<_rpos, _isWritingAsync>>

(* HandleQueue: write_some took n bytes of the front packet.  The wire has *)
(* the bytes of that packet up to the new read position.                   *)
Wrote(n) ==
  LET front == Head(_writeQueue)
  IN \/ /\ n = Size[front] - _rpos[front]
        /\ sent' = front /\ part' = 0
        /\ Pop(TRUE)
        /\ UNCHANGED <<_rpos, _isWritingAsync>>
     \/ /\ n < Size[front] - _rpos[front]
        /\ _rpos' = [_rpos EXCEPT ![front] = @ + n]
        /\ sent' = front - 1 /\ part' = _rpos[front] + n
        /\ _isWritingAsync' = TRUE
        /\ holder' = "none"
        /\ UNCHANGED _writeQueue

WriteSome == /\ holder # "none"
             /\ ~broken /\ ~_closed
             /\ \E n \in 1..(Size[Head(_writeQueue)] - _rpos[Head(_writeQueue)]) : Wrote(n)
             /\ UNCHANGED <<flags, broken, accepted>>

HandleQueue == Failed \/ WouldBlock \/ WriteSome

(* ReadHandlerInternal with an error: CloseSocket shuts the sending side.  *)
ReadError == /\ ~_closed
             /\ _closed' = TRUE
             /\ UNCHANGED <<_writeQueue, _rpos, _isWritingAsync, holder, _closing, broken, accepted, wireVars>>

DelayedCloseSocket ==
  /\ ~_closing
  /\ _closing' = TRUE
  /\ UNCHANGED <<_writeQueue, _rpos, _isWritingAsync, holder, _closed, broken, accepted, wireVars>>

(* The connection fails, noticed by nobody yet.                            *)
Break == /\ ~broken
         /\ broken' = TRUE
         /\ UNCHANGED <<_writeQueue, _rpos, _isWritingAsync, holder, flags, accepted, wireVars>>

Next == \/ SendPacket \/ Update \/ WriteHandlerWrapper \/ HandleQueue
        \/ ReadError \/ DelayedCloseSocket \/ Break

(* Fairness: the owning thread polls every socket it holds, the io thread  *)
(* runs the wrapper, a writer goes on, a connection that stands takes      *)
(* bytes again and again, and one that failed fails the pending read.      *)
Fairness == /\ WF_vars(Update)
            /\ WF_vars(WriteHandlerWrapper)
            /\ WF_vars(HandleQueue)
            /\ SF_vars(WriteSome)
            /\ WF_vars(broken /\ ReadError)

Spec == Init /\ [][Next]_vars /\ Fairness

-----------------------------------------------------------------------------
(* Whoever writes, or waits to write, has a packet to write: no packet is  *)
(* taken from under a wait, and the return of HandleQueue on an empty queue*)
(* (Socket.h:264), which is no action here, is never taken.                *)
HasPacket == holder # "none" \/ _isWritingAsync => _writeQueue # << >>

(* Every accepted packet reaches the wire, or the socket does not stay open*)
(* - though HandleQueue drops a packet without a word when its write fails *)
(* (Socket.h:279), and the wrapper writes one packet only.                 *)
Delivered == \A p \in Packet : (accepted >= p) ~> (sent >= p \/ ~IsOpen)

Pipe == INSTANCE PacketPipe WITH broken <- broken \/ _closed

(* The socket is a pipe of whole packets in order: a dropped packet is     *)
(* never followed by another one on the wire.                              *)
ImplementsPacketPipe == Pipe!Spec
=============================================================================
