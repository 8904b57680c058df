--------------------------- MODULE StandaloneParts ---------------------------
(***************************************************************************)
(* The two ways of writing data to bytes, which share no state: packets    *)
(* and bit streams.  A behaviour is one of one of them, chosen at the      *)
(* start; the variables of the other are None.  Both are sent and received *)
(* through variables of the same names.                                    *)
(***************************************************************************)
EXTENDS Integers

CONSTANTS Opcode, PacketField, MaxPacketFields,           \* of ByteBuffer
          StreamField, MaxStreamFields, MaxSize,  \* of BitStream
          None

VARIABLES part,
          out, in, got, phase, order, fields, at, sound, written, refused

packetVars == <<order, fields, at, sound>>
streamVars == <<written, refused>>
pipeVars   == <<out, in, got, phase>>

vars == <<part, pipeVars, packetVars, streamVars>>

Packet == INSTANCE ByteBuffer WITH Field <- PacketField, MaxFields <- MaxPacketFields
Stream == INSTANCE BitStream WITH Field <- StreamField, MaxFields <- MaxStreamFields

ASSUME ConstantsAssumption == Packet!Constants /\ Stream!Constants

NoPacket == order = None /\ fields = None /\ at = None /\ sound = None
NoStream == written = None /\ refused = None

Init ==
  \/ part = "packet" /\ Packet!Init /\ NoStream
  \/ part = "stream" /\ Stream!Init /\ NoPacket

PacketStep == /\ part = "packet" /\ Packet!Next
              /\ UNCHANGED <<part, streamVars>>
StreamStep == /\ part = "stream" /\ Stream!Next
              /\ UNCHANGED <<part, packetVars>>

Next == PacketStep \/ StreamStep

Spec == Init /\ [][Next]_vars

-----------------------------------------------------------------------------
(* The types of the part that runs.                                        *)
TypeOK == /\ part \in {"packet", "stream"}
          /\ part = "packet" => Packet!TypeOK
          /\ part = "stream" => Stream!TypeOK

(* What a receiver reads from a packet (ByteBuffer.h) or from a bit stream *)
(* (bitstream.h) is what the sender wrote, field by field.                 *)
RoundTrip == /\ part = "packet" => Packet!RoundTrip
             /\ part = "stream" => Stream!RoundTrip

(* Everything that was sent can be read, and nothing else is there.        *)
Complete == /\ part = "packet" => Packet!Complete
            /\ part = "stream" => Stream!Complete
=============================================================================
