---------------------------- MODULE MCFeatureLog ----------------------------
(* FeatureLog from every point of the sample's cycles, which together repeat *)
(* after sixty messages, with a synthetic set of two rows.                   *)
EXTENDS FeatureLog

MCStarts == 1..60
=============================================================================
