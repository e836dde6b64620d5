----------------------------- MODULE AegisLink ------------------------------
(***************************************************************************)
(* The satellite's transmitter and the ground station's receiver over the  *)
(* radio link.  The three parts interleave: the programs share nothing but *)
(* the frames in flight.                                                   *)
(***************************************************************************)
EXTENDS Satellite, GroundStation

CONSTANTS Mishaps        \* what else may happen: a subset of the names below

ASSUME MishapsAssumption ==
    Mishaps \subseteq {"satellite restart", "ground restart", "session expiry"}

vars == <<linkVars, satVars, groundVars>>

Init == LinkInit /\ SatInit /\ GroundInit

SatStep == SatProgram /\ UNCHANGED groundVars
GroundStep == GroundProgram /\ UNCHANGED satVars
RadioStep == LinkStep /\ UNCHANGED <<satVars, groundVars>>
TimeStep == Tick /\ UNCHANGED satVars

Mishap ==
    \/ "satellite restart" \in Mishaps /\ SatelliteRestart /\ UNCHANGED groundVars
    \/ "ground restart" \in Mishaps /\ GroundRestart /\ UNCHANGED satVars
    \/ "session expiry" \in Mishaps /\ SessionExpires /\ UNCHANGED satVars

Next == SatStep \/ GroundStep \/ RadioStep \/ TimeStep \/ Mishap

Spec == Init /\ [][Next]_vars

-----------------------------------------------------------------------------
Sids == 1..MaxSessions
ChunkCount(mid) == IF mid = NoMid THEN SiChunks ELSE TcChunks
MessageKeys == {[sid |-> s, mid |-> m] : s \in Sids, m \in {NoMid} \cup 1..MaxSequence}

\* A damaged message number may be the one after the last.
DamagedKeys == {[sid |-> s, mid |-> MaxSequence + 1] : s \in Sids}

\* Whatever the radio did to a chunk, its numbers fit each other; a chunk with the
\* fragment it was sent with also has the numbers it was sent with.
ChunksOK ==
    \A k \in 1..Len(up) :
        /\ up[k].key \in MessageKeys \cup DamagedKeys
        /\ Valid(up[k])
        /\ up[k].d = "good" => /\ up[k].key \in MessageKeys
                              /\ up[k].n = ChunkCount(up[k].key.mid)

ControlsOK ==
    \A k \in 1..Len(down) :
        MakeKey(down[k].sid, down[k].mid) \in MessageKeys \cup DamagedKeys

BuffersOK ==
    /\ DOMAIN buffers \subseteq MessageKeys \cup DamagedKeys
    /\ IsFiniteSet(DOMAIN buffers)
    /\ \A key \in DOMAIN buffers : buffers[key].total \in Nat \ {0}

SessionsOK ==
    /\ DOMAIN sessions = DOMAIN replay_windows
    /\ DOMAIN sessions \subseteq opened /\ opened \subseteq Sids
    /\ \A s \in DOMAIN sessions : /\ sessions[s] \in {"active", "expired"}
                                  /\ replay_windows[s] \in Windows
    /\ log \in Seq(Sids \X (1..MaxSequence))

\* Types of the parts of the system and of what is under way between them.
TypeOK == SatTypeOK /\ LinkTypeOK /\ ChunksOK /\ ControlsOK /\ BuffersOK /\ SessionsOK

\* Between two frames the ground holds no finished message: whatever becomes
\* complete is processed at once, in any order of chunks, repeats and damage.
NothingFinishedIsHeld == \A key \in DOMAIN buffers : ~IsComplete(buffers[key])

\* The radio link as seen from the programs: an ACK under way is for a session the
\* ground has opened or for a message it has logged, so none can be believed that
\* was not earned.
AcksAreEarned ==
    \A k \in 1..Len(down) :
        down[k].t = "ack" =>
            IF down[k].mid = NoMid THEN down[k].sid \in opened
            ELSE \E j \in 1..Len(log) : log[j] = <<down[k].sid, down[k].mid>>

\* The replay window of a session that was never forgotten ends with the last
\* message logged in it.
WindowFollowsLog ==
    \A s \in DOMAIN sessions :
        LET seqs == {log[k][2] : k \in {j \in 1..Len(log) : log[j][1] = s}}
        IN  IF seqs = {} THEN replay_windows[s] = NewWindow
            ELSE replay_windows[s].max_seq = Max(seqs)

\* How the programs implement the abstract promise: the message in hand is offered
\* while the telemetry loop runs.
offeredMap == IF phase \in {"tc_send", "tc_wait"} THEN sequence ELSE 0

Delivery == INSTANCE TelemetryDelivery
              WITH Messages <- 1..MaxSequence, session <- sid, offered <- offeredMap

\* The ground logs each message at most once and in order, only in a session both
\* agreed on, and DELIVERY_OK is only said of a message that was logged: through
\* loss, damage, selective resends, stale answers and restarts.
ImplementsDelivery == Delivery!Spec

\* A session the ground station no longer takes telemetry in, and whose session-init is
\* neither under way nor waited for.
Lost(s) == /\ ~(s \in DOMAIN sessions /\ sessions[s] = "active")
           /\ ~(phase = "si_wait" /\ sid = s)
           /\ \A k \in 1..Len(up) : up[k].key # MakeKey(s, NoMid)

LoggedIn(s) == {k \in 1..Len(log) : log[k][1] = s}

\* A session lost to its expiry or to a restart of the ground station stays lost
\* (receiver.py:712-725): nothing is logged in it any more, however often the
\* satellite, which looks at no expiry time, resends.
LostSessionsStayLost ==
    [][\A s \in 1..sid : Lost(s) => Lost(s)' /\ LoggedIn(s)' = LoggedIn(s)]_vars

-----------------------------------------------------------------------------
\* The module's own account of the flow (reassembly.py:44-45): the receiver
\* reassembles and processes the packet and then sends an ACK.  Here: a step that
\* logs a message answers it with an ACK (or the port has no room left).
LoggedIsAcknowledged ==
    [][log' # log =>
          Len(down) = MaxDown \/ down'[Len(down')].t = "ack"]_vars

\* "If we silently delete the buffer without telling the satellite, the message is just
\* lost" (reassembly.py:644-648): a buffer that has gone stale goes with a NACK for its
\* message (or the port has no room left).
ExpiryIsNacked ==
    [][\A key \in Stale(buffers) \ DOMAIN buffers' :
          \/ Len(down') = MaxDown
          \/ \E k \in (Len(down) + 1)..Len(down') :
                down'[k].t = "nack" /\ MakeKey(down'[k].sid, down'[k].mid) = key]_vars

\* "The satellite retransmits only the missing chunks listed in the NACK"
\* (protocol_spec.md:102), so those must be enough: what a NACK does not list, the
\* ground still holds after sending it.
NackListSuffices ==
    [][\A k \in (Len(down) + 1)..Len(down') :
          LET key == [sid |-> down'[k].sid, mid |-> down'[k].mid]
              held == IF key \in DOMAIN buffers' THEN DOMAIN buffers'[key].parts ELSE {}
          IN  down'[k].t = "nack" /\ Cardinality(down'[k].m) < MaxMissingPerNack =>
                 0..(ChunkCount(key.mid) - 1) \subseteq held \cup down'[k].m]_vars
=============================================================================
