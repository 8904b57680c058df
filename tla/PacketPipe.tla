---------------------------- MODULE PacketPipe ----------------------------
(***************************************************************************)
(* What a Socket promises to whoever calls SendPacket: the packets go out  *)
(* on the connection whole and in the order they were accepted, each byte  *)
(* once, until the connection breaks; after that, nothing goes out.        *)
(***************************************************************************)
EXTENDS Naturals

CONSTANTS MaxPackets,   \* bound: packets accepted
          Size          \* the bytes of each packet

Packet == 1..MaxPackets

VARIABLES accepted,     \* packets accepted so far: 1..accepted
          sent,         \* packets wholly on the wire: 1..sent
          part,         \* bytes of packet sent + 1 on the wire
          broken        \* the connection takes no more bytes

vars == <<accepted, sent, part, broken>>

Init == accepted = 0 /\ sent = 0 /\ part = 0 /\ broken = FALSE

Accept == /\ accepted < MaxPackets
          /\ accepted' = accepted + 1
          /\ UNCHANGED <<sent, part, broken>>

Emit == /\ ~broken /\ sent < accepted
        /\ \E n \in 1..(Size[sent + 1] - part) :
             IF part + n = Size[sent + 1]
             THEN sent' = sent + 1 /\ part' = 0
             ELSE sent' = sent /\ part' = part + n
        /\ UNCHANGED <<accepted, broken>>

Break == broken' = TRUE /\ UNCHANGED <<accepted, sent, part>>

Next == Accept \/ Emit \/ Break

Spec == Init /\ [][Next]_vars
=============================================================================
