---------------------------- MODULE FrameReader ----------------------------
(***************************************************************************)
(* The read path of a connection: Socket<T>::AsyncRead and                 *)
(* ReadHandlerInternal (Common/Socket.h) with the ReadHandler of           *)
(* WorldSocket.cpp and of ClientSocket.cpp, which is the same text.  TCP   *)
(* hands over the peer's frames in chunks of any length; a frame is a      *)
(* header of four bytes, which gives the length of the payload after it.   *)
(*                                                                         *)
(* A byte is its place in the stream; `io` is where the io thread is: a    *)
(* read is "posted", the "loop" of ReadHandler is at its head, the header  *)
(* was just completed and the "payload" comes next, the "next" read is     *)
(* about to be posted, the thread is "idle" for good, or "dead" with the   *)
(* process: nothing catches what ReadDataHandler throws.                   *)
(***************************************************************************)
EXTENDS Naturals, Sequences, MessageBuffer

CONSTANTS MaxFrames,         \* bound: frames the peer sends
          Begin,             \* bytes of the stream before frame f
          READ_BLOCK_SIZE,
          MayThrow           \* frames with less than their handler reads, or no number

HeaderSize == 4
FrameNo == 1..MaxFrames

ASSUME FramesAssumption == MaxFrames \in Nat
ASSUME BeginAssumption ==
  /\ Begin \in [1..MaxFrames + 1 -> Nat]
  /\ Begin[1] = 0
  /\ \A f, g \in 1..MaxFrames + 1 : f < g => Begin[f] + HeaderSize <= Begin[g]
ASSUME BlockAssumption == READ_BLOCK_SIZE \in Nat \ {0}
ASSUME ThrowAssumption == MayThrow \subseteq FrameNo

(* The parts of frame f of the stream.                                     *)
Bytes(first, n) == [i \in 1..n |-> first + i]
Payload(f) == Begin[f + 1] - Begin[f] - HeaderSize
Header(f)  == Bytes(Begin[f], HeaderSize)
Frame(f)   == [header |-> Header(f), payload |-> Bytes(Begin[f] + HeaderSize, Payload(f))]

VARIABLES
  arrived,          \* bytes of the stream the operating system holds or held
  received,         \* bytes of them that were read
  _readBuffer, _headerBuffer, _packetBuffer,
  io,
  _closed, _closing,
  handled           \* history: what ReadDataHandler got

buffers == <<_readBuffer, _headerBuffer, _packetBuffer>>
flags   == <<_closed, _closing>>
vars == <<arrived, received, buffers, io, flags, handled>>

TypeOK == /\ arrived \in Nat /\ received \in 0..arrived
          /\ _readBuffer \in BufferOf(Nat)
          /\ _headerBuffer \in BufferOf(Nat)
          /\ _packetBuffer \in BufferOf(Nat)
          /\ InBounds(_readBuffer) /\ InBounds(_headerBuffer) /\ InBounds(_packetBuffer)
          /\ io \in {"posted", "loop", "payload", "next", "idle", "dead"}
          /\ _closed \in BOOLEAN /\ _closing \in BOOLEAN
          /\ handled \in Seq([header : Seq(Nat), payload : Seq(Nat)])

(* The constructors and the first AsyncRead.  _packetBuffer gets its size  *)
(* with the first header; until then its 4096 bytes are not looked at.     *)
Init == /\ arrived = 0 /\ received = 0
        /\ _readBuffer = NewBuffer(READ_BLOCK_SIZE)
        /\ _headerBuffer = NewBuffer(HeaderSize)
        /\ _packetBuffer = NewBuffer(4096)
        /\ io = "posted"
        /\ _closed = FALSE /\ _closing = FALSE
        /\ handled = << >>

IsOpen == ~_closed /\ ~_closing

Least(m, n) == IF m <= n THEN m ELSE n

(* uLen of a header that was read: the length of its frame.  A header that *)
(* is not one of the stream says anything.                                 *)
uLen(h) == {n \in {Payload(f) : f \in FrameNo} :
               \A f \in FrameNo : h = Header(f) => n = Payload(f)}

-----------------------------------------------------------------------------
(* The peer's bytes come in.                                               *)
Arrive == /\ io # "dead"
          /\ arrived' \in arrived + 1 .. Begin[MaxFrames + 1]
          /\ UNCHANGED <<received, buffers, io, flags, handled>>

(* ReadHandlerInternal without error, up to the loop of ReadHandler.       *)
ReadHandlerInternal ==
  /\ io = "posted"
  /\ \E n \in 1..Least(GetRemainingSpace(_readBuffer), arrived - received) :
       /\ _readBuffer' = Write(_readBuffer, Bytes(received, n))
       /\ received' = received + n
  /\ io' = IF IsOpen THEN "loop" ELSE "idle"
  /\ UNCHANGED <<arrived, _headerBuffer, _packetBuffer, flags, handled>>

(* Fault: the loop ends with the first frame of a chunk.                   *)
LoopEndsEarly ==
  /\ io = "loop" /\ (GetActiveSize(_readBuffer) = 0 \/ _packetBuffer.size = 0)
  /\ io' = "next"
  /\ UNCHANGED <<arrived, received, buffers, flags, handled>>

(* Fault: a chunk that ends with its frame is the last one.                *)
LoopReturns == /\ io = "loop" /\ GetActiveSize(_readBuffer) = 0
               /\ io' = "idle"
               /\ UNCHANGED <<arrived, received, buffers, flags, handled>>

LoopEnds == /\ io = "loop" /\ GetActiveSize(_readBuffer) = 0
            /\ io' = "next"
            /\ UNCHANGED <<arrived, received, buffers, flags, handled>>

(* A turn of the loop, as far as the header; with the whole header the     *)
(* thread goes on at `then`.                                               *)
ReadHeaderThen(then) ==
  LET n == Least(GetActiveSize(_readBuffer), GetRemainingSpace(_headerBuffer))
      h == Write(_headerBuffer, ReadPointer(_readBuffer, n))
  IN /\ io = "loop" /\ GetActiveSize(_readBuffer) > 0
     /\ GetRemainingSpace(_headerBuffer) > 0
     /\ _headerBuffer' = h
     /\ _readBuffer' = ReadCompleted(_readBuffer, n)
     /\ \/ /\ GetRemainingSpace(h) > 0
           /\ io' = "next" /\ UNCHANGED _packetBuffer
        \/ /\ GetRemainingSpace(h) = 0
           /\ \E size \in uLen(h.written) : _packetBuffer' = Resize(_packetBuffer, size)
           /\ io' = then
     /\ UNCHANGED <<arrived, received, flags, handled>>

(* Fault: an empty payload waits for the bytes of the next frame.          *)
ReadHeaderLoops == ReadHeaderThen("loop")

ReadHeader == ReadHeaderThen("payload")

(* A turn of the loop, from the payload on; ReadDataHandler moves the      *)
(* storage out of _packetBuffer, and returns Ok or throws.                 *)
ReadPayload ==
  LET n == Least(GetActiveSize(_readBuffer), GetRemainingSpace(_packetBuffer))
      p == Write(_packetBuffer, ReadPointer(_readBuffer, n))
  IN /\ \/ io = "payload"
        \/ io = "loop" /\ GetActiveSize(_readBuffer) > 0 /\ GetRemainingSpace(_headerBuffer) = 0
     /\ _readBuffer' = ReadCompleted(_readBuffer, n)
     /\ \/ /\ GetRemainingSpace(p) > 0
           /\ _packetBuffer' = p /\ io' = "next"
           /\ UNCHANGED <<_headerBuffer, handled>>
        \/ /\ GetRemainingSpace(p) = 0
           /\ handled' = Append(handled, [header |-> _headerBuffer.written, payload |-> p.written])
           /\ _packetBuffer' = Moved(p)
           /\ _headerBuffer' = Reset(_headerBuffer)
           /\ io' = "loop" \/ (io' = "dead" /\ Len(handled') \in MayThrow)
     /\ UNCHANGED <<arrived, received, flags>>

AsyncRead ==
  /\ io = "next"
  /\ \/ IsOpen /\ io' = "posted" /\ _readBuffer' = EnsureFreeSpace(Normalize(_readBuffer))
     \/ ~IsOpen /\ io' = "idle" /\ UNCHANGED _readBuffer
  /\ UNCHANGED <<arrived, received, _headerBuffer, _packetBuffer, flags, handled>>

(* ReadHandlerInternal with an error, end of file included.                *)
ReadError == /\ io = "posted"
             /\ io' = "idle"
             /\ _closed' = TRUE
             /\ UNCHANGED <<arrived, received, buffers, _closing, handled>>

(* WriteHandler, another callback of the io thread, closes the socket.     *)
CloseSocket == /\ io \in {"posted", "idle"} /\ ~_closed
               /\ _closed' = TRUE
               /\ UNCHANGED <<arrived, received, buffers, io, _closing, handled>>

DelayedCloseSocket == /\ ~_closing /\ io # "dead"
                      /\ _closing' = TRUE
                      /\ UNCHANGED <<arrived, received, buffers, io, _closed, handled>>

ReadHandler == LoopEnds \/ ReadHeader \/ ReadPayload \/ AsyncRead

Next == \/ Arrive \/ ReadHandlerInternal \/ ReadHandler \/ ReadError
        \/ CloseSocket \/ DelayedCloseSocket

(* Fairness: the io thread goes on, and reads what has arrived.            *)
Fairness == WF_vars(ReadHandlerInternal) /\ WF_vars(ReadHandler)

Spec == Init /\ [][Next]_vars /\ Fairness

-----------------------------------------------------------------------------
(* "Couldn't receive the whole header this time. ASSERT(packet.            *)
(* GetActiveSize() == 0)" (WorldSocket.cpp:47-48, 70-71): ReadHandler does *)
(* not post the next read while it holds bytes it has not looked at.       *)
NothingUnread == io = "next" => GetActiveSize(_readBuffer) = 0

(* A read always offers the whole block: the buffer neither fills up nor   *)
(* grows, so EnsureFreeSpace has nothing to do and no read is of no bytes. *)
WholeBlockOffered == io = "posted" => GetRemainingSpace(_readBuffer) = READ_BLOCK_SIZE

(* When the io thread waits for more bytes it has handled every frame that *)
(* is complete, one with an empty payload at the end of a chunk included.  *)
PromptlyHandled == io = "posted" => \A f \in FrameNo : Begin[f + 1] <= received => f <= Len(handled)

(* Every frame that has arrived is handled, unless the socket is closed or *)
(* a handler threw.                                                        *)
Handled == \A f \in FrameNo :
  (arrived >= Begin[f + 1]) ~> (Len(handled) >= f \/ ~IsOpen \/ io = "dead")

Stream == INSTANCE FrameStream

(* The handler sees the frames of the stream, whole and in order.          *)
ImplementsFrameStream == Stream!Spec
=============================================================================
