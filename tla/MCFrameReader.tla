--------------------------- MODULE MCFrameReader ---------------------------
(* FrameReader on frames with payloads of 2, 0, 5, 0 bytes.                *)
EXTENDS FrameReader

Begin4 == <<0, 6, 10, 19, 23>>
=============================================================================
