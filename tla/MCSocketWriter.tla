-------------------------- MODULE MCSocketWriter --------------------------
(* SocketWriter on packets of different sizes.                             *)
EXTENDS SocketWriter

SizesOf3 == <<2, 3, 1>>
SizesOf5 == <<2, 4, 1, 3, 2>>
=============================================================================
