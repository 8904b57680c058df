---------------------------- MODULE FrameStream ----------------------------
(***************************************************************************)
(* What the read path of a WorldSocket or ClientSocket promises: the frames*)
(* that the peer sent are handled one by one, in order, each with its own  *)
(* bytes and only when all of them have arrived.                           *)
(***************************************************************************)
EXTENDS Naturals, Sequences

CONSTANTS MaxFrames,   \* bound: frames the peer sends
          Begin,       \* bytes of the stream before frame f
          Frame(_)     \* frame f as the handler should see it

VARIABLES arrived,     \* bytes of the stream that have arrived
          handled      \* the frames handed to ReadDataHandler

vars == <<arrived, handled>>

Init == arrived = 0 /\ handled = << >>

Arrive == /\ arrived' \in arrived + 1 .. Begin[MaxFrames + 1]
          /\ UNCHANGED handled

Handle == LET f == Len(handled) + 1
          IN /\ f <= MaxFrames /\ Begin[f + 1] <= arrived
             /\ handled' = Append(handled, Frame(f))
             /\ UNCHANGED arrived

Next == Arrive \/ Handle

Spec == Init /\ [][Next]_vars
=============================================================================
