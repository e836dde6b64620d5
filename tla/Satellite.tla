----------------------------- MODULE Satellite ------------------------------
(***************************************************************************)
(* satellite/transmitter.py: the session-init at startup, the telemetry    *)
(* loop with one message in flight, and the two loops that wait for the    *)
(* ground station's answer and resend chunks.                              *)
(***************************************************************************)
EXTENDS Link

CONSTANTS SiChunks,              \* chunks of a session-init message
          TcChunks,              \* chunks of a telemetry message
          SiListenCycles,        \* SESSION_INIT_LISTEN_CYCLES
          NudgeCycles,           \* the cycles of a resend-all before the first NACK
          TcMaxCycles,           \* TELEMETRY_MAX_CYCLES
          TcMaxQuietCycles,      \* TELEMETRY_MAX_QUIET_CYCLES
          Timely,                \* whether a read outlasts whatever is under way
          MaxSequence,           \* bound: telemetry messages of one session
          MaxSessions            \* bound: sessions, one per start of the program

ASSUME SatelliteAssumption ==
    /\ SiChunks \in Nat \ {0} /\ TcChunks \in Nat \ {0}
    /\ SiListenCycles \in Nat \ {0} /\ NudgeCycles \subseteq 1..SiListenCycles
    /\ TcMaxCycles \in Nat \ {0} /\ TcMaxQuietCycles \in Nat \ {0}
    /\ MaxSequence \in Nat \ {0} /\ MaxSessions \in Nat \ {0}
    /\ NoMid \notin Nat \ {0} /\ Timely \in BOOLEAN

VARIABLES phase,       \* where the program is: see Phases
          sid,         \* the session of this start; sessions are numbered in order
          sequence,    \* the sequence number of the telemetry message in hand
          cycle,       \* the listening cycle of the loop it waits in
          quiet,       \* quiet_cycles
          seen_nack,   \* seen_nack
          verdicts     \* history: <<sid, sequence, outcome>> of every finished message

satVars == <<phase, sid, sequence, cycle, quiet, seen_nack, verdicts>>

Phases == {"boot",     \* about to establish a session
           "si_wait",  \* in wait_for_session_init_ack_or_nack
           "tc_send",  \* at the top of the telemetry loop
           "tc_wait",  \* in wait_for_telemetry_ack_or_nack
           "exited"}   \* SystemExit after a failed session-init

SatTypeOK == /\ phase \in Phases
             /\ sid \in 0..MaxSessions
             /\ sequence \in 1..(MaxSequence + 1)
             /\ cycle \in 1..(IF phase = "si_wait" THEN SiListenCycles ELSE TcMaxCycles)
             /\ quiet \in 0..(TcMaxQuietCycles - 1)
             /\ seen_nack \in BOOLEAN
             /\ verdicts \subseteq (1..MaxSessions) \X (1..MaxSequence) \X {"ok", "fail"}

SatInit == /\ phase = "boot"
           /\ sid = 0
           /\ sequence = 1
           /\ cycle = 1
           /\ quiet = 0
           /\ seen_nack = FALSE
           /\ verdicts = {}

SessionInitChunks == MessageChunks(sid, NoMid, SiChunks)
TelemetryChunks == MessageChunks(sid, sequence, TcChunks)

Send(chunks) == up' = Push(up, chunks, MaxUp)

\* The member of a set of numbers that j - 1 others are smaller than.
Nth(S, j) == CHOOSE k \in S : Cardinality({x \in S : x < k}) = j - 1

\* resend_missing_chunks(): the chunks asked for, in their order; a list that selects
\* nothing means everything.
ChunksToResend(chunks, missing) ==
    LET asked == {k \in 1..Len(chunks) : chunks[k].i \in missing}
    IN  IF asked = {} THEN chunks
        ELSE [j \in 1..Cardinality(asked) |-> chunks[Nth(asked, j)]]

\* Faulty variant: the message number of an answer is not looked at.
Matches_SessionOnly(control, mid) == control.sid = sid

\* control_matches_session()
Matches(control, mid) == control.sid = sid /\ control.mid = mid

\* read_control_packet(): each call starts with an empty buffer, takes what the
\* serial port holds by then, returns the first control packet and drops the rest.
ReadControl ==
    /\ down # <<>>
    /\ \E batch \in 1..Len(down) : down' = SubSeq(down, batch + 1, Len(down))

Control == Head(down)

\* The call gives up after ACK_WAIT_SECONDS.  On a timely link a frame is under way
\* or unread for less than that, so nothing is left in either direction by then;
\* otherwise the answer may still be coming.
ReadTimesOut == /\ Timely => up = <<>> /\ down = <<>>
                /\ UNCHANGED down

-----------------------------------------------------------------------------
\* create_initiator_session(): a session id never used before.
FreshSid == sid + 1

\* Startup: a new session, and its signed session-init in chunks.
SendSessionInit ==
    /\ phase = "boot"
    /\ sid < MaxSessions
    /\ sid' = FreshSid
    /\ up' = Push(up, MessageChunks(FreshSid, NoMid, SiChunks), MaxUp)
    /\ phase' = "si_wait"
    /\ cycle' = 1
    /\ seen_nack' = FALSE
    /\ UNCHANGED <<down, sequence, quiet, verdicts>>

\* Faulty variant: one cycle too many.
NextSiCycle_OneMore ==
    /\ IF cycle > SiListenCycles
       THEN phase' = "exited" /\ cycle' = 1
       ELSE phase' = phase /\ cycle' = cycle + 1
    /\ UNCHANGED <<sid, sequence, quiet, verdicts>>

\* One listening cycle of the session-init is over without an ACK.
NextSiCycle ==
    /\ IF cycle = SiListenCycles
       THEN phase' = "exited" /\ cycle' = 1
       ELSE phase' = phase /\ cycle' = cycle + 1
    /\ UNCHANGED <<sid, sequence, quiet, verdicts>>

SiQuietCycle ==
    /\ phase = "si_wait"
    /\ ReadTimesOut
    /\ IF ~seen_nack /\ cycle \in NudgeCycles THEN Send(SessionInitChunks) ELSE UNCHANGED up
    /\ NextSiCycle
    /\ UNCHANGED seen_nack

SiForeignControl ==
    /\ phase = "si_wait"
    /\ ReadControl
    /\ ~Matches(Control, NoMid)
    /\ NextSiCycle
    /\ UNCHANGED <<up, seen_nack>>

SiAck ==
    /\ phase = "si_wait"
    /\ ReadControl
    /\ Matches(Control, NoMid) /\ Control.t = "ack"
    /\ phase' = "tc_send"
    /\ cycle' = 1
    /\ sequence' = 1
    /\ UNCHANGED <<up, sid, quiet, seen_nack, verdicts>>

\* Faulty variant: resending does not count as a cycle.
SiNack_SameCycle ==
    /\ phase = "si_wait"
    /\ ReadControl
    /\ Matches(Control, NoMid) /\ Control.t = "nack"
    /\ Send(ChunksToResend(SessionInitChunks, Control.m))
    /\ seen_nack' = TRUE
    /\ UNCHANGED <<phase, cycle, sid, sequence, quiet, verdicts>>

SiNack ==
    /\ phase = "si_wait"
    /\ ReadControl
    /\ Matches(Control, NoMid) /\ Control.t = "nack"
    /\ Send(ChunksToResend(SessionInitChunks, Control.m))
    /\ seen_nack' = TRUE
    /\ NextSiCycle

-----------------------------------------------------------------------------
\* The telemetry loop: build, encrypt, sign, split and send the next message.
SendTelemetry ==
    /\ phase = "tc_send"
    /\ sequence <= MaxSequence
    /\ Send(TelemetryChunks)
    /\ phase' = "tc_wait"
    /\ cycle' = 1
    /\ quiet' = 0
    /\ UNCHANGED <<down, sid, sequence, seen_nack, verdicts>>

\* Faulty variant: a failed message keeps its number.
Finish_SameNumber(outcome) ==
    /\ verdicts' = verdicts \cup {<<sid, sequence, outcome>>}
    /\ sequence' = IF outcome = "ok" THEN sequence + 1 ELSE sequence
    /\ phase' = "tc_send"
    /\ cycle' = 1
    /\ quiet' = 0

\* The loop logs DELIVERY_OK or DELIVERY_FAIL and goes on to the next message.
Finish(outcome) ==
    /\ verdicts' = verdicts \cup {<<sid, sequence, outcome>>}
    /\ sequence' = sequence + 1
    /\ phase' = "tc_send"
    /\ cycle' = 1
    /\ quiet' = 0

\* One listening cycle of a telemetry message is over without its ACK.
NextTcCycle(quietAfter) ==
    IF cycle = TcMaxCycles
    THEN Finish("fail")
    ELSE /\ cycle' = cycle + 1
         /\ quiet' = quietAfter
         /\ UNCHANGED <<phase, sequence, verdicts>>

TcQuietCycle ==
    /\ phase = "tc_wait"
    /\ ReadTimesOut
    /\ IF quiet + 1 >= TcMaxQuietCycles
       THEN Send(TelemetryChunks) /\ NextTcCycle(0)
       ELSE UNCHANGED up /\ NextTcCycle(quiet + 1)
    /\ UNCHANGED <<sid, seen_nack>>

\* Faulty variants: an answer to something else ends the silence; does not count.
TcForeignControl_EndsSilence ==
    /\ phase = "tc_wait"
    /\ ReadControl
    /\ ~Matches(Control, sequence)
    /\ NextTcCycle(0)
    /\ UNCHANGED <<up, sid, seen_nack>>
TcForeignControl_Uncounted ==
    /\ phase = "tc_wait"
    /\ ReadControl
    /\ ~Matches(Control, sequence)
    /\ UNCHANGED <<up, satVars>>

TcForeignControl ==
    /\ phase = "tc_wait"
    /\ ReadControl
    /\ ~Matches(Control, sequence)
    /\ NextTcCycle(quiet)
    /\ UNCHANGED <<up, sid, seen_nack>>

TcAck ==
    /\ phase = "tc_wait"
    /\ ReadControl
    /\ Matches(Control, sequence) /\ Control.t = "ack"
    /\ Finish("ok")
    /\ UNCHANGED <<up, sid, seen_nack>>

TcNack ==
    /\ phase = "tc_wait"
    /\ ReadControl
    /\ Matches(Control, sequence) /\ Control.t = "nack"
    /\ Send(ChunksToResend(TelemetryChunks, Control.m))
    /\ NextTcCycle(0)
    /\ UNCHANGED <<sid, seen_nack>>

\* The program is stopped, or has exited, and is started again: it remembers
\* nothing and will make a new session.
SatelliteRestart ==
    /\ phase # "boot"
    /\ sid < MaxSessions
    /\ phase' = "boot"
    /\ sequence' = 1
    /\ cycle' = 1
    /\ quiet' = 0
    /\ seen_nack' = FALSE
    /\ UNCHANGED <<sid, verdicts, up, down>>

\* What the program does by itself; it is never blocked in it but by its bounds.
SatProgram == \/ SendSessionInit
              \/ SiQuietCycle \/ SiForeignControl \/ SiAck \/ SiNack
              \/ SendTelemetry
              \/ TcQuietCycle \/ TcForeignControl \/ TcAck \/ TcNack
=============================================================================
