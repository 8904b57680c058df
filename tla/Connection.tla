---------------------------- MODULE Connection ----------------------------
(***************************************************************************)
(* One direction of a connection, from SendPacket at one end to            *)
(* ReadDataHandler at the other: the writer of ReactorWriter and the       *)
(* reader of FrameReader, joined by TCP, which delivers a prefix of the    *)
(* bytes that were written.  The reader's socket has flags of its own.  No *)
(* handler throws: SendPacket's callers write all that its handler reads.  *)
(***************************************************************************)
EXTENDS Naturals, Sequences

CONSTANTS MaxPackets,        \* bound: packets sent on the connection
          Begin,             \* bytes of the stream before packet p
          READ_BLOCK_SIZE

HeaderSize == 4
Packet == 1..MaxPackets

ASSUME PacketsAssumption == MaxPackets \in Nat
(* SendPacket writes a packet to a buffer of this many bytes and does not  *)
(* check that it fits (WorldSocket.cpp:98-109): none is longer.            *)
MessageBufferSize == 4096
ASSUME BeginAssumption ==
  /\ Begin \in [1..MaxPackets + 1 -> Nat]
  /\ Begin[1] = 0
  /\ \A p, q \in 1..MaxPackets + 1 : p < q => Begin[p] + HeaderSize <= Begin[q]
  /\ \A p \in Packet : Begin[p + 1] - Begin[p] <= MessageBufferSize
ASSUME BlockAssumption == READ_BLOCK_SIZE \in Nat \ {0}

Size == [p \in Packet |-> Begin[p + 1] - Begin[p]]

VARIABLES
  _writeQueue, _rpos, _isWritingAsync, holder, _closed, _closing,
  broken, accepted, sent, part,                       \* the writer
  arrived, received, _readBuffer, _headerBuffer, _packetBuffer, io,
  peerClosed, peerClosing, handled                    \* the reader

Writer == INSTANCE ReactorWriter

ASSUME WriterAssumption == Writer!Constants

Reader == INSTANCE FrameReader
            WITH MaxFrames <- MaxPackets, MayThrow <- {}, _closed <- peerClosed, _closing <- peerClosing

writerVars == <<_writeQueue, _rpos, _isWritingAsync, holder, _closed, _closing,
                broken, accepted, sent, part>>
readerVars == <<arrived, received, _readBuffer, _headerBuffer, _packetBuffer, io,
                peerClosed, peerClosing, handled>>
vars == <<writerVars, readerVars>>

TypeOK == Writer!TypeOK /\ Reader!TypeOK

Init == Writer!Init /\ Reader!Init

(* The bytes that were written to the connection.                          *)
Written == Begin[sent + 1] + part

-----------------------------------------------------------------------------
WriterSteps == Writer!Next /\ UNCHANGED readerVars

(* TCP delivers bytes that were written, however the writer's socket is.   *)
Arrive == Reader!Arrive /\ arrived' <= Written /\ UNCHANGED writerVars

(* The reader's own steps; the program never calls DelayedCloseSocket      *)
(* there.  The writer learns of a reader that closed as of a broken        *)
(* connection, any time.                                                   *)
ReaderSteps == /\ \/ Reader!ReadHandlerInternal \/ Reader!ReadHandler
                  \/ Reader!ReadError \/ Reader!CloseSocket
               /\ UNCHANGED writerVars

Next == WriterSteps \/ Arrive \/ ReaderSteps

(* Fairness: that of the two ends, and of the network.                     *)
Spec == /\ Init /\ [][Next]_vars
        /\ Writer!Fairness
        /\ Reader!Fairness
        /\ WF_vars(Arrive)

-----------------------------------------------------------------------------
(* Whoever writes or waits to write has a packet to write (Socket.h:264).  *)
HasPacket == Writer!HasPacket

(* The writer's end alone is a pipe of whole packets, in order.            *)
ImplementsPacketPipe == Writer!ImplementsPacketPipe

(* Every accepted packet is handled at the other end, unless one of the    *)
(* two sockets does not stay open.                                         *)
EndToEnd == \A p \in Packet :
  (accepted >= p) ~> \/ Len(handled) >= p
                     \/ ~Writer!IsOpen \/ ~Reader!IsOpen

Link == INSTANCE PacketLink WITH Frame <- Reader!Frame

(* The connection delivers packets, each once, whole, in order, and none   *)
(* that was not accepted - though both ends cut them as they like.         *)
ImplementsPacketLink == Link!Spec
=============================================================================
