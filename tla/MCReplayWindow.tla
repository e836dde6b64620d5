--------------------------- MODULE MCReplayWindow ---------------------------
(* ReplayWindow on a window of three and the numbers from -1 to MaxInput.   *)
EXTENDS ReplayBits

CONSTANT MaxInput
MCInputs == -1..MaxInput
=============================================================================
