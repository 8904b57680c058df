---------------------------- MODULE PacketLink ----------------------------
(***************************************************************************)
(* What a connection promises to the two programs at its ends: the handler *)
(* of the receiver gets the packets that the sender's SendPacket accepted, *)
(* each once, whole and in order, and none before it was accepted.         *)
(***************************************************************************)
EXTENDS Naturals, Sequences

CONSTANTS MaxPackets,   \* bound: packets accepted
          Frame(_)      \* packet p as the handler should see it

VARIABLES accepted,     \* packets accepted so far: 1..accepted
          handled       \* what the handler got

vars == <<accepted, handled>>

Init == accepted = 0 /\ handled = << >>

Accept == /\ accepted < MaxPackets
          /\ accepted' = accepted + 1
          /\ UNCHANGED handled

Handle == /\ Len(handled) < accepted
          /\ handled' = Append(handled, Frame(Len(handled) + 1))
          /\ UNCHANGED accepted

Next == Accept \/ Handle

Spec == Init /\ [][Next]_vars
=============================================================================
