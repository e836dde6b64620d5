----------------------------- MODULE MCFraming ------------------------------
(* Framing with bytes of three bits that keep the low bits of the real ones:  *)
(* 0x7E, 0x7F, 0x7D are 6, 7, 5 and the escape mask is the highest bit.       *)
EXTENDS Framing

\* Ends in the escape byte, as '}' ends every packet; 5 is the length that needs
\* stuffing.
MCPayloads == {<<5>>, <<3, 1, 2, 4, 5>>}
=============================================================================
