---------------------------- MODULE MCSatellite -----------------------------
(* SatelliteAlone with the counts of transmitter.py and an answer at a time. *)
EXTENDS SatelliteAlone

MCNackLists == {{}, {0}, {1}, {0, 1}}
=============================================================================
