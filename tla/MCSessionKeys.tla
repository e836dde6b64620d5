--------------------------- MODULE MCSessionKeys ----------------------------
(* SessionKeys with two pairs of each kind and two starts of the satellite.  *)
EXTENDS SessionKeys
=============================================================================
