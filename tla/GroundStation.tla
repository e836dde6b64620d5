--------------------------- MODULE GroundStation ----------------------------
(***************************************************************************)
(* groundstation/receiver.py: the main loop.  A chunk that completes its   *)
(* message has the whole message processed in the same step, up to the ACK *)
(* or NACK it is answered with; without input the loop takes its idle      *)
(* branch, which sends NACKs and expires buffers.                          *)
(***************************************************************************)
EXTENDS Link, ReplayMask, SequencesExt

CONSTANTS DetectorInputs,    \* what detector.detect() is handed: a frame, a Telemetry object
          Failures           \* writes that may raise: to the serial port, to the feature log

ASSUME GroundAssumption == /\ DetectorInputs \subseteq {"frame", "telemetry"}
                           /\ Failures \subseteq {"port", "log"}

VARIABLES buffers,        \* factory._buffers
          sessions,       \* established sessions: sid -> "active" or "expired"
          replay_windows, \* replay_windows: sid -> its replay window
          log,            \* the feature log: <<sid, sequence>> of every accepted packet
          opened          \* history: every session that was ever established

groundVars == <<buffers, sessions, replay_windows, log, opened>>

GroundInit == /\ buffers = [key \in {} |-> key]
              /\ sessions = [s \in {} |-> s]
              /\ replay_windows = [s \in {} |-> s]
              /\ log = <<>>
              /\ opened = {}

Set(f, x, value) == [y \in DOMAIN f \cup {x} |-> IF y = x THEN value ELSE f[y]]

\* write_framed_packet(), once per control packet; one of several lists gets out.
Answer(controls) == down' = Push(down, controls, MaxDown)
AnswerOneOf(lists) == down' \in {Push(down, controls, MaxDown) : controls \in lists}

\* A call of write_framed_packet() that raises, behind one of the lists sent, may have
\* written before (flush failed).
AnswerRaises(sent, control) ==
    /\ "port" \in Failures
    /\ AnswerOneOf(sent \cup {Append(s, control) : s \in sent})

-----------------------------------------------------------------------------
\* add_transport_chunk(): the next frame goes to the factory, and a message it
\* completes is taken out in the same call.
Frame == Head(up)

CompletesMessage == Verdict(buffers, Frame) = "complete"

\* Faulty variant: the buffer of a finished message is not deleted.
TakeMessage_Kept ==
    /\ up # <<>>
    /\ CompletesMessage
    /\ buffers' = Added(buffers, Frame)

TakeMessage ==
    /\ up # <<>>
    /\ CompletesMessage
    /\ buffers' = Without(Flushed(buffers), Frame.key)

\* The assembled text is what was split unless a bit error escaped the CRC.
Garbled == LET text == Assembled(Added(buffers, Frame)[Frame.key])
           IN  \E k \in DOMAIN text : text[k] # "good"

Sid == Frame.key.sid
Mid == Frame.key.mid
AckIt == Ack(Sid, Mid)
NackChunks(missing) == Nack(Sid, Mid, missing)

NextFrame == up' = Tail(up)

\* An exception leaves the loop over the frames of one read: those behind are dropped.
DropRead == \E k \in 1..Len(up) : up' = SubSeq(up, k + 1, Len(up))

\* The except branch around a handler: NACK [0] behind what may have been sent so far.
ExceptNack(sent) ==
    \/ NextFrame /\ AnswerOneOf({Append(s, NackChunks({0})) : s \in sent})
    \/ DropRead /\ AnswerRaises(sent, NackChunks({0}))

\* How a handler answers the message in hand.
Reply(control) ==
    \/ NextFrame /\ Answer(<<control>>)
    \/ "port" \in Failures /\ ExceptNack({<<>>, <<control>>})

\* The message stays incomplete, or the chunk is refused: no answer.
CollectChunk ==
    /\ up # <<>>
    /\ ~CompletesMessage
    /\ NextFrame
    /\ buffers' = Added(buffers, Frame)
    /\ UNCHANGED <<down, sessions, replay_windows, log, opened>>

\* Faulty variant: a message that does not decode is acknowledged.
RejectGarbled_Acks ==
    /\ TakeMessage
    /\ Garbled
    /\ Reply(AckIt)
    /\ UNCHANGED <<sessions, replay_windows, log, opened>>

\* Decoding fails, which is answered outside the try block, or what was decoded is not
\* what was signed.
RejectGarbled ==
    /\ TakeMessage
    /\ Garbled
    /\ \/ NextFrame /\ Answer(<<NackChunks(0..7)>>)
       \/ DropRead /\ AnswerRaises({<<>>}, NackChunks(0..7))
       \/ Reply(NackChunks({0}))
    /\ UNCHANGED <<sessions, replay_windows, log, opened>>

\* create_receiver_session(): a session whose time to live begins now.
NewReceiverSession == "active"

OpenSession ==
    /\ TakeMessage
    /\ ~Garbled
    /\ Mid = NoMid
    /\ Sid \notin DOMAIN sessions
    /\ sessions' = Set(sessions, Sid, NewReceiverSession)
    /\ replay_windows' = Set(replay_windows, Sid, NewWindow)
    /\ opened' = opened \cup {Sid}
    /\ Reply(AckIt)
    /\ UNCHANGED log

\* "session already exists": acknowledged again, whatever its age.
AckKnownSession ==
    /\ TakeMessage
    /\ ~Garbled
    /\ Mid = NoMid
    /\ Sid \in DOMAIN sessions
    /\ Reply(AckIt)
    /\ UNCHANGED <<sessions, replay_windows, log, opened>>

\* Faulty variant: the age of the session is not looked at.
UsableSession_AnyAge == Sid \in DOMAIN sessions

UsableSession == Sid \in DOMAIN sessions /\ sessions[Sid] = "active"

\* Faulty variant: what is refused is acknowledged, to quiet the satellite.
RefuseTelemetry_Acks ==
    /\ TakeMessage
    /\ ~Garbled
    /\ Mid # NoMid
    /\ UsableSession => ~Accepts(replay_windows[Sid], Mid)
    /\ Reply(AckIt)
    /\ UNCHANGED <<sessions, replay_windows, log, opened>>

\* No session, an expired one, or a sequence number the replay window refuses.
RefuseTelemetry ==
    /\ TakeMessage
    /\ ~Garbled
    /\ Mid # NoMid
    /\ UsableSession => ~Accepts(replay_windows[Sid], Mid)
    /\ Reply(NackChunks({0}))
    /\ UNCHANGED <<sessions, replay_windows, log, opened>>

\* Faulty variant: the accepted sequence number is not recorded.
AcceptTelemetry_Unrecorded ==
    /\ TakeMessage
    /\ ~Garbled
    /\ Mid # NoMid
    /\ UsableSession
    /\ Accepts(replay_windows[Sid], Mid)
    /\ log' = Append(log, <<Sid, Mid>>)
    /\ Reply(AckIt)
    /\ UNCHANGED <<sessions, replay_windows, opened>>

\* detect() scores what it is handed by its get(), a method that a frame, being a
\* dictionary, has and a Telemetry object has not.
DetectRaises(input) == input # "frame"

\* The sequence number is recorded and the features are logged before the detector
\* scores them; an exception of the log or of the detector is answered with a NACK.
AcceptTelemetry ==
    /\ TakeMessage
    /\ ~Garbled
    /\ Mid # NoMid
    /\ UsableSession
    /\ Accepts(replay_windows[Sid], Mid)
    /\ replay_windows' = Set(replay_windows, Sid, Record(replay_windows[Sid], Mid))
    /\ \/ /\ log' = Append(log, <<Sid, Mid>>)
          /\ \E input \in DetectorInputs :
                IF DetectRaises(input) THEN ExceptNack({<<>>}) ELSE Reply(AckIt)
       \/ /\ "log" \in Failures
          /\ ExceptNack({<<>>})
          /\ UNCHANGED log
    /\ UNCHANGED <<sessions, opened>>

HandleFrame == \/ CollectChunk \/ RejectGarbled
               \/ OpenSession \/ AckKnownSession
               \/ RefuseTelemetry \/ AcceptTelemetry

-----------------------------------------------------------------------------
\* Faulty variant: the periodic message is an ACK.
NackFor_Ack(key) == Ack(key.sid, key.mid)

NackFor(key) == Nack(key.sid, key.mid, Missing(buffers[key]))

Incomplete == {key \in DOMAIN buffers : ~IsComplete(buffers[key])}

\* A NACK for each of some buffers, in the order dictionaries keep them in.
NackLists(keys) ==
    {[k \in 1..Len(order) |-> NackFor(order[k])] : order \in SetToSeqs(keys)}

\* Of a list of NACKs, those that got out when one of the writes raises.
SomeOf(nacks) == {SubSeq(nacks, 1, k) : k \in 0..Len(nacks)}

\* The idle branch: every NACK_SEND_INTERVAL a NACK for each incomplete buffer,
\* and each time a NACK for each buffer that expires, after it is gone.
GroundIdle ==
    /\ \E first \in {<<>>} \cup NackLists(Incomplete), second \in NackLists(Stale(buffers)) :
          \/ Answer(first \o second) /\ buffers' = Flushed(buffers)
          \/ /\ "port" \in Failures /\ first # <<>>
             /\ AnswerOneOf(SomeOf(first))
             /\ UNCHANGED buffers
          \/ /\ "port" \in Failures /\ second # <<>>
             /\ AnswerOneOf({first \o sent : sent \in SomeOf(second)})
             /\ buffers' = Flushed(buffers)
    /\ UNCHANGED <<up, sessions, replay_windows, log, opened>>

\* A stretch of time that counts against the TTLs passes.  A frame is under way for
\* a much shorter one, so there is none on the way up meanwhile.
Tick == /\ up = <<>>
        /\ \E key \in DOMAIN buffers : buffers[key].idle < Overdue
        /\ buffers' = Aged(buffers)
        /\ UNCHANGED <<up, down, sessions, replay_windows, log, opened>>

\* A session reaches its time to live.
SessionExpires ==
    /\ \E s \in DOMAIN sessions :
          sessions[s] = "active" /\ sessions' = [sessions EXCEPT ![s] = "expired"]
    /\ UNCHANGED <<up, down, buffers, replay_windows, log, opened>>

\* The program is started again: everything but the feature log is forgotten.
GroundRestart ==
    /\ buffers' = [key \in {} |-> key]
    /\ sessions' = [s \in {} |-> s]
    /\ replay_windows' = [s \in {} |-> s]
    /\ UNCHANGED <<up, down, log, opened>>

GroundProgram == HandleFrame \/ GroundIdle
=============================================================================
