-------------------------- MODULE MCSessionWorld --------------------------
(* SessionWorld on small instances.                                        *)
EXTENDS SessionWorld, TLC

Symmetric == Permutations(Slot)
=============================================================================
