-------------------------- MODULE MCStandaloneParts --------------------------
(* Each way of writing a field, with the lengths at which they differ:     *)
(* nothing, part of a byte, a byte, more than one.                         *)
EXTENDS StandaloneParts

(* Bytes of ByteBuffer, the most significant bit first.                    *)
Zero == [k \in 1..8 |-> 0]
One  == [Zero EXCEPT ![8] = 1]
X    == <<1, 0, 0, 0, 0, 1, 1, 0>>
Y    == <<0, 1, 1, 1, 1, 1, 1, 1>>

F(kind, val) == [kind |-> kind, val |-> val]

MCPacketField ==
  {F("value", <<X>>), F("value", <<X, Y>>), F("value", <<Y, One>>),
   F("flag", <<One>>), F("float", <<Zero, Zero, X, Y>>), F("float", <<X, X, Y, X>>),
   F("float", <<One, Y, Zero, Zero, X, Zero, <<1, 1, 1, 0, 0, 0, 0, 0>>, Y>>),
   F("cstring", << >>), F("cstring", <<X>>), F("text", << >>), F("text", <<One, Zero>>),
   F("block", << >>), F("block", <<Y>>), F("vector", <<X, One>>), F("map", <<One, X>>),
   F("bits", <<1, 0, 1>>), F("bits", <<1, 0, 1, 1, 1>>), F("hole", <<0, 0>>),
   F("byteseq", <<One>>), F("byteseq", <<Zero>>),
   F("packed", [i \in 1..8 |-> IF i \in {1, 3} THEN Y ELSE Zero]),
   F("time", <<59, 59, 23, 31, 11, 131, 0>>), F("time", <<7, 0, 7, 1, 6, 132, 1>>), F("time", <<60, 1, 0, 2, 5, 100, 1>>),
   F("pad", <<Zero>>), F("align", << >>)}

(* Bytes of BitStream, by the places of their bits.                        *)
P == [k \in 0..7 |-> IF k \in {0, 2, 7} THEN 1 ELSE 0]
Q == [k \in 0..7 |-> IF k \in {1, 6} THEN 1 ELSE 0]

G(kind, val) == [kind |-> kind, val |-> val, n |-> 0, base |-> 0]
String(val, n, base) == [kind |-> "string", val |-> val, n |-> n, base |-> base]

MCStreamField ==
  {G("value", <<1, 0, 1>>), G("value", <<1, 1, 0, 1, 0, 0, 1, 0>>),
   G("value", <<0, 1, 1, 1, 0, 0, 1, 0, 1, 1, 1>>),
   G("value", [i \in 1..32 |-> IF i \in {1, 4, 7, 12, 30} THEN 1 ELSE 0]),
   G("bytes", << >>), G("bytes", <<P>>), G("bytes", <<Q, P>>),
   String(<< >>, 2, 0), String(<<P, Q>>, 4, -1), String(<<Q>>, 9, 2),
   G("skip", <<0, 0>>), G("align", << >>)}
=============================================================================
