--------------------------- MODULE MCConnection ---------------------------
(* Connection on packets of 5 and 4 bytes.                                  *)
EXTENDS Connection

Begin2 == <<0, 5, 9>>
=============================================================================
