---------------------------- MODULE MCAegisLink -----------------------------
(* AegisLink with two chunks per message; the cycle counts of the satellite  *)
(* are scaled down and keep their order.                                     *)
EXTENDS AegisLink
=============================================================================
