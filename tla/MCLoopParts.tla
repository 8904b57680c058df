---------------------------- MODULE MCLoopParts ----------------------------
(* Two places a player can be at, with a turn between them.                *)
EXTENDS LoopParts

MCSpot == {[x |-> 0, y |-> 0, a |-> 0], [x |-> 1, y |-> 0, a |-> 90]}
=============================================================================
