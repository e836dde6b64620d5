--------------------------- MODULE SatelliteAlone ---------------------------
(***************************************************************************)
(* The satellite with its real cycle counts against a ground station that  *)
(* may answer anything: the right answer, a late or a foreign one, NACKs   *)
(* with any list, or nothing at all.  What holds here owes nothing to the  *)
(* receiver.                                                               *)
(***************************************************************************)
EXTENDS Satellite

CONSTANTS NackLists      \* the missing lists the answers may carry

ASSUME NackListsAssumption == \A m \in NackLists : m \subseteq Nat

VARIABLES silence,       \* history: reads without an answer since chunks were last sent
          sendings       \* history: how often chunks were sent for the message in hand

vars == <<linkVars, satVars, silence, sendings>>

Init == LinkInit /\ SatInit /\ silence = 0 /\ sendings = 0

Mids == {NoMid} \cup 1..MaxSequence
Sids == 0..MaxSessions    \* 0 stands for the session of an earlier start
Answers == {Ack(s, m) : s \in Sids, m \in Mids}
           \cup {Nack(s, m, missing) : s \in Sids, m \in Mids, missing \in NackLists}

\* What was sent is gone from the satellite's side at once.
Sent == up # <<>>
ChunksLeave == /\ Sent
               /\ up' = <<>>
               /\ UNCHANGED <<down, satVars, silence, sendings>>

\* Any answer arrives, if there is room for it.
AnswerComes == /\ ~Sent
               /\ Len(down) < MaxDown
               /\ \E control \in Answers : down' = Append(down, control)
               /\ UNCHANGED <<up, satVars, silence, sendings>>

NewMessage == sid' # sid \/ sequence' # sequence \/ phase = "tc_send"

Counted ==
    /\ silence' = IF up' # up \/ NewMessage THEN 0
                  ELSE IF down' = down THEN silence + 1 ELSE silence
    /\ sendings' = (IF NewMessage THEN 0 ELSE sendings) + (IF up' # up THEN 1 ELSE 0)

SatStep == ~Sent /\ SatProgram /\ Counted

Next == SatStep \/ AnswerComes \/ ChunksLeave

Spec == Init /\ [][Next]_vars

\* The program is a loop whose reads time out, so it takes its next step some time;
\* nothing is asked of the ground station or of the link but that bytes leave.
FairSpec == Spec /\ WF_vars(SatStep) /\ WF_vars(ChunksLeave)

-----------------------------------------------------------------------------
TypeOK == /\ SatTypeOK
          /\ LinkTypeOK
          /\ silence \in 0..(SiListenCycles + TcMaxCycles)
          /\ sendings \in 0..(SiListenCycles + TcMaxCycles)

\* A telemetry message is never left alone for long: of the reads since its chunks were
\* last sent, fewer than TELEMETRY_MAX_QUIET_CYCLES (transmitter.py:677) were silent,
\* whatever answers to other messages came between them.
SilenceIsBroken == phase = "tc_wait" => silence < TcMaxQuietCycles

\* Answers make no storm on the half-duplex link: a message has been sent at most
\* once for each read the program has listened for, whatever the ground asks for.
OneSendingPerRead == phase \in {"si_wait", "tc_wait"} => sendings <= cycle

\* Every message the loop has left behind was concluded exactly once (DELIVERY_OK or
\* DELIVERY_FAIL, transmitter.py:974-982), and none that is still to come was.
EachConcludedOnce ==
    /\ \A v, w \in verdicts : v[1] = w[1] /\ v[2] = w[2] => v = w
    /\ phase \in {"tc_send", "tc_wait"} =>
          {v[2] : v \in {w \in verdicts : w[1] = sid}} = 1..(sequence - 1)

\* The satellite is never stuck waiting: every session-init ends with an ACK or
\* with SystemExit, and every telemetry message is followed by the next.
WaitingEnds ==
    /\ (phase = "si_wait") ~> (phase # "si_wait")
    /\ \A m \in 1..MaxSequence :
          (phase = "tc_wait" /\ sequence = m) ~> ~(phase = "tc_wait" /\ sequence = m)
=============================================================================
