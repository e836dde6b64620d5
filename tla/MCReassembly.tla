---------------------------- MODULE MCReassembly ----------------------------
(* Reassembly of a session-init of two chunks and a telemetry message of     *)
(* three, with a conflicting fragment, chunks that claim another total and *)
(* a damaged one.                                                            *)
EXTENDS Reassembly

SessionInit == [sid |-> "s", mid |-> 0]
Telemetry   == [sid |-> "s", mid |-> 1]

MCKeys == {SessionInit, Telemetry}

Part(key, i, n, d) == [key |-> key, i |-> i, n |-> n, d |-> d, intact |-> TRUE]

MCChunks ==
    {Part(SessionInit, i, 2, "a") : i \in 0..1}
    \cup {Part(SessionInit, 1, 2, "b"), Part(SessionInit, 0, 1, "a")}
    \cup {Part(Telemetry, i, 3, "a") : i \in 0..2}
    \cup {Part(Telemetry, 3, 4, "a")}
    \cup {[Part(Telemetry, 0, 3, "a") EXCEPT !.intact = FALSE]}
=============================================================================
